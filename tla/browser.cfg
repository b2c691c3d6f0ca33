SPECIFICATION FairSpec
CONSTANTS
    Process = {p1, p2}
    User = {}
    Generations = 2
    Tab = {t1, t2}
    Nobody = Nobody
    MaxUses = 4
    Nonce <- MCNonce
INVARIANTS PagesKeepWorking LatestPageWorks
PROPERTIES RedirectsEnd
