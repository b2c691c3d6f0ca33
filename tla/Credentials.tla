------------------------------- MODULE Credentials -------------------------------
(***********************************************************************************)
(* Session cookies, an API key and the access tokens minted from it, while the     *)
(* key may be revoked and the application secret rotated.  Cookies and tokens are  *)
(* nothing but signatures; the key is a row that every bearer request looks up.    *)
(***********************************************************************************)
EXTENDS SecretRotation

CONSTANTS Request,
          Owner,                  \* the administrator there is from the start; the key is theirs
          TokenTtl, SessionAge,   \* settings.access_token_ttl_seconds, session_max_age_seconds
          KeyExpiry,              \* the possible expires_at of the key; 0 is NULL
          MaxTime                 \* bound: the clock stops here

ASSUME CredentialsAssumption ==
    /\ TokenTtl \in Nat \ {0} /\ SessionAge \in Nat \ {0} /\ MaxTime \in Nat
    /\ KeyExpiry \subseteq Nat /\ Owner \in User

VARIABLES clock,
          key,      \* the committed row: revoked, expires, used, and whether its owner is active
          issued,   \* the cookies and tokens handed out
          request   \* each request: [phase], with its process, its work, and the key row it read

credentials == <<clock, key, issued, request>>
vars == <<rotation, credentials>>

Time == 0..MaxTime

\* Of last_used_at only whether it is NULL is kept.
Key == [revoked: BOOLEAN, expires: KeyExpiry, used: BOOLEAN, active: BOOLEAN]

\* user is whom the cookie or token is good for; a token's key stands for its owner.
Credential == [kind: {"session", "token"}, user: User, secret: Secret, at: Time]

WithKey == {"use key", "exchange key"}
WithToken == {"use token", "exchange token"}
Op == WithKey \cup WithToken \cup {"revoke"}

\* late, a history field, tells whether a revocation was committed before the arrival.
Arrived == [phase: {"arrived"}, proc: Process, op: Op, late: BOOLEAN]
Loaded ==
    [phase: {"found", "working", "answered"}, proc: Process, op: Op, late: BOOLEAN, seen: Key]
InFlight == Arrived \cup Loaded
New == [phase |-> "new"]
Done == [phase |-> "done"]
Revoker == [phase |-> "revoked"]   \* ended with the commit of a revocation

Is(r, phase) == request[r].phase = phase

RevokedBefore == \E r \in Request : Is(r, "revoked")

Live(c) ==
    IF c.kind = "session" THEN clock - c.at <= SessionAge ELSE clock < c.at + TokenTtl

\* read_session and decode_access_token.
Accepted(p, c) == Readable(p, c.secret) /\ Live(c)

----------------------------------------------------------------------------------
\* The owner has signed in before.
Init ==
    /\ RotationInit /\ seed[Owner] # 0
    /\ clock = 0
    /\ key \in [revoked: {FALSE}, expires: KeyExpiry, used: {FALSE}, active: BOOLEAN]
    /\ issued = {[kind |-> "session", user |-> Owner, secret |-> 1, at |-> 0]}
    /\ request = [r \in Request |-> New]

Signed(p, kind, user) == [kind |-> kind, user |-> user, secret |-> config[p].current, at |-> clock]

\* faulty: the signature carries the expiry, not the time of issue
IssueExpiry(p, kind, user) ==
    issued' = issued \cup {[Signed(p, kind, user) EXCEPT !.at = @ + SessionAge]}
Issue(p, kind, user) == issued' = issued \cup {Signed(p, kind, user)}

\* get_user: the row is there, can be decrypted, and is_active.
Known(p, u) == Loads(p, u) /\ (u = Owner => key.active)

\* login_submit with the right password and code: the redirect carries a new cookie.
SignIn(r) ==
    /\ Is(r, "new")
    /\ \E p \in Process, u \in User : Known(p, u) /\ Issue(p, "session", u)
    /\ request' = [request EXCEPT ![r] = Done]
    /\ UNCHANGED <<rotation, clock, key>>

\* A bearer request arrives with the key, or with a token whose signature and age are good.
\* It is to work with the API, or to trade its credential for a new token.
BearerArrives(r) ==
    /\ Is(r, "new")
    /\ \E p \in Process, o \in Op :
        /\ \/ o \in WithKey
           \/ /\ o \in WithToken
              /\ \E c \in issued : c.kind = "token" /\ Accepted(p, c)
        /\ request' = [request EXCEPT ![r] = [phase |-> "arrived", proc |-> p, op |-> o,
                                              late |-> RevokedBefore]]
    /\ UNCHANGED <<rotation, clock, key, issued>>

\* resolve_api_key: a key is good until it is revoked or expires.
KeyAdmits == ~key.revoked /\ (key.expires = 0 \/ clock < key.expires)

\* A token, whose signature has been checked, is good until its key is revoked.
TokenUnchecked == TRUE   \* faulty: the signature is enough
TokenAdmits == ~key.revoked

\* The SELECT of the key, while others go on.
FindKey(r) ==
    /\ Is(r, "arrived")
    /\ LET a == request[r] IN
       request' = [request EXCEPT ![r] =
            IF IF a.op \in WithKey THEN KeyAdmits ELSE TokenAdmits
            THEN [phase |-> "found", proc |-> a.proc, op |-> a.op, late |-> a.late, seen |-> key]
            ELSE Done]
    /\ UNCHANGED <<rotation, clock, key, issued>>

\* The SELECT of its owner: the request is admitted with the key as read before.
FindOwner(r) ==
    /\ Is(r, "found")
    /\ request' = [request EXCEPT ![r] = IF Known(request[r].proc, Owner)
                                         THEN [@ EXCEPT !.phase = "working"] ELSE Done]
    /\ UNCHANGED <<rotation, clock, key, issued>>

\* require_admin with a session cookie; the handler loads the key, which is never deleted.
Revoke(r) ==
    /\ Is(r, "new")
    /\ \E p \in Process, c \in issued :
        /\ c.kind = "session"
        /\ request' = [request EXCEPT ![r] =
                IF Accepted(p, c) /\ Known(p, c.user)
                THEN [phase |-> "working", proc |-> p, op |-> "revoke", late |-> FALSE, seen |-> key]
                ELSE Done]
    /\ UNCHANGED <<rotation, clock, key, issued>>

\* The response; a token is signed with the secret the process has as current.
Respond(r) ==
    /\ Is(r, "working")
    /\ IF request[r].op \in {"exchange key", "exchange token"}
       THEN Issue(request[r].proc, "token", Owner) ELSE UNCHANGED issued
    /\ request' = [request EXCEPT ![r].phase = "answered"]
    /\ UNCHANGED <<rotation, clock, key>>

TouchedWhole(r, row) == [request[r].seen EXCEPT !.used = TRUE]   \* faulty: all columns
\* Only the columns the request has changed are written.
Touched(r, row) == [row EXCEPT !.used = TRUE]

\* The commit in the teardown of get_session, with the one UPDATE of the key it issues.
Teardown(r) ==
    /\ Is(r, "answered")
    /\ key' = IF request[r].op = "revoke" THEN [key EXCEPT !.revoked = TRUE]
              ELSE IF request[r].op \in WithKey THEN Touched(r, key) ELSE key
    /\ request' = [request EXCEPT ![r] = IF @.op = "revoke" THEN Revoker ELSE Done]
    /\ UNCHANGED <<rotation, clock, issued>>

\* The database fails: nothing is written, though the response may be out already.
DatabaseFails(r) ==
    /\ request[r] \in InFlight
    /\ request' = [request EXCEPT ![r] = Done]
    /\ UNCHANGED <<rotation, clock, key, issued>>

\* A deploy reaches p, or p crashes and comes back: its requests are gone.
RestartProcess(p) ==
    /\ Restart(p)
    /\ request' = [r \in Request |->
            IF request[r] \in InFlight /\ request[r].proc = p THEN Done ELSE request[r]]
    /\ UNCHANGED <<clock, key, issued>>

Rotate == Operator /\ UNCHANGED credentials

Tick ==
    /\ clock < MaxTime /\ clock' = clock + 1
    /\ UNCHANGED <<rotation, key, issued, request>>

Serve(r) ==
    \/ SignIn(r) \/ BearerArrives(r) \/ FindKey(r) \/ FindOwner(r) \/ Revoke(r)
    \/ Respond(r) \/ Teardown(r) \/ DatabaseFails(r)

Next == (\E r \in Request : Serve(r)) \/ (\E p \in Process : RestartProcess(p)) \/ Rotate \/ Tick

Spec == Init /\ [][Next]_vars

----------------------------------------------------------------------------------
\* Every variable has its type.
TypeOK ==
    /\ RotationTypeOK
    /\ clock \in Time /\ key \in Key /\ issued \subseteq Credential
    /\ request \in [Request -> {New, Done, Revoker} \cup InFlight]

\* "Sessions stay valid": a cookie or token that has not run out is refused only by a
\* process the deploy of its secret has yet to reach, or once its secret is retired.
LiveIsAccepted ==
    \A p \in Process, c \in issued :
        Live(c) => \/ Accepted(p, c) \/ TooNew(p, c.secret)
                   \/ c.secret \notin release.previous \cup {release.current}

\* A committed revocation is final: no request that read the key before it, and records
\* its use of the key after it, brings the key back.
RevocationStands == [][key.revoked => key'.revoked]_vars

\* Whoever arrives after the commit of a revocation is not admitted, neither with the key nor
\* with any token, though requests admitted before go on: they mint tokens after it, and write
\* to the row of the key.
LatecomersStayOut ==
    \A r \in Request : Is(r, "working") \/ Is(r, "answered") => ~request[r].late

\* At every moment of a rotation what was issued is well formed and of use.
CredentialsUsable == TypeOK /\ LiveIsAccepted
===================================================================================
