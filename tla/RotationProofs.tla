------------------------------ MODULE RotationProofs ------------------------------
(***********************************************************************************)
(* Theorems about the two systems that live with a rotation of the secrets.        *)
(* SecretRotation has no next-state relation of its own: what its actions leave of *)
(* the seeds and settings is proved first.  Then Credentials, for any number of    *)
(* processes, users, requests and rotations, and Browser, for any number of tabs   *)
(* and processes.  The two share SecretRotation but are not composed: each theorem *)
(* is about one of them.                                                           *)
(***********************************************************************************)
EXTENDS Credentials, Browser, TLAPS, FiniteSetTheorems

\* A process knows every secret but perhaps the newest, and encrypts under one that the
\* released settings still try.
KeepsUp ==
    \A p \in Process :
        /\ release.previous \subseteq Candidates(config[p])
        /\ config[p].current \in Candidates(release)

SeedsAreCandidates == \A u \in User : seed[u] # 0 => seed[u] \in Candidates(release)

\* The job treats nobody before the deploy of the new secret is complete, so that no
\* seed it has treated is written again under an older one.
RewrittenIsCurrent ==
    /\ rewritten # {} => \A p \in Process : config[p].current = release.current
    /\ \A u \in rewritten : seed[u] \in {0, release.current}

RotationInv == RotationTypeOK /\ KeepsUp /\ SeedsAreCandidates /\ RewrittenIsCurrent

\* A request that arrived late finds the key revoked: nobody brings it back.
LateIsRevoked ==
    /\ RevokedBefore => key.revoked
    /\ \A r \in Request : Is(r, "arrived") /\ request[r].late => key.revoked

FoundIsInTime == \A r \in Request : Is(r, "found") => ~request[r].late

IInv == RotationInv /\ TypeOK

LateInv == IInv /\ LateIsRevoked /\ FoundIsInTime /\ LatecomersStayOut

----------------------------------------------------------------------------------
(* The rotation.                                                                   *)

LEMMA InitRotationInv == RotationInit => RotationInv
<1> SUFFICES ASSUME RotationInit PROVE RotationInv
  OBVIOUS
<1>1. 1 \in Secret
  BY RotationAssumption DEF Secret
<1>2. RotationTypeOK
  BY <1>1 DEF RotationInit, RotationTypeOK, Settings
<1>3. KeepsUp /\ SeedsAreCandidates /\ RewrittenIsCurrent
  BY DEF RotationInit, KeepsUp, SeedsAreCandidates, RewrittenIsCurrent, Candidates
<1> QED
  BY <1>2, <1>3 DEF RotationInv

LEMMA IntroduceInv == ASSUME RotationInv, Introduce PROVE RotationInv'
<1>1. /\ release' = [current |-> release.current + 1, previous |-> Candidates(release)]
      /\ \A p \in Process : config[p] = release
      /\ rewritten' = {} /\ UNCHANGED <<config, seed>>
  BY DEF Introduce, RolledOut, Candidates
<1>2. release.current + 1 \in Secret /\ Candidates(release) \subseteq Secret
  BY RotationAssumption DEF Introduce, RotationInv, RotationTypeOK, Settings, Secret, Candidates
<1>3. RotationTypeOK'
  BY <1>1, <1>2 DEF RotationInv, RotationTypeOK, Settings
<1>4. KeepsUp' /\ SeedsAreCandidates' /\ RewrittenIsCurrent'
  BY <1>1 DEF RotationInv, KeepsUp, SeedsAreCandidates, RewrittenIsCurrent, Candidates
<1> QED
  BY <1>3, <1>4 DEF RotationInv

LEMMA RestartInv == ASSUME RotationInv, NEW p \in Process, Restart(p) PROVE RotationInv'
<1>1. RotationTypeOK'
  BY DEF Restart, RotationInv, RotationTypeOK
<1>2. \A q \in Process : config'[q] = config[q] \/ config'[q] = release
  BY DEF Restart, RotationInv, RotationTypeOK
<1>3. KeepsUp' /\ SeedsAreCandidates' /\ RewrittenIsCurrent'
  BY <1>2 DEF Restart, RotationInv, KeepsUp, SeedsAreCandidates, RewrittenIsCurrent, Candidates
<1> QED
  BY <1>1, <1>3 DEF RotationInv

LEMMA ReencryptInv == ASSUME RotationInv, NEW u \in User, Reencrypt(u) PROVE RotationInv'
<1>1. /\ seed' = [seed EXCEPT ![u] = IF @ = 0 THEN 0 ELSE release.current]
      /\ \A p \in Process : config[p] = release
      /\ rewritten' = rewritten \cup {u} /\ UNCHANGED <<release, config>>
  BY DEF Reencrypt, Rotated, RolledOut
<1>2. RotationTypeOK'
  BY <1>1 DEF RotationInv, RotationTypeOK, Settings
<1>3. \A v \in User : seed'[v] = seed[v] \/ (v = u /\ seed'[v] = release.current)
  BY <1>1 DEF RotationInv, RotationTypeOK
<1>4. seed'[u] \in {0, release.current}
  BY <1>1 DEF RotationInv, RotationTypeOK
<1>5. KeepsUp' /\ SeedsAreCandidates' /\ RewrittenIsCurrent'
  BY <1>1, <1>3, <1>4
     DEF RotationInv, RotationTypeOK, KeepsUp, SeedsAreCandidates, RewrittenIsCurrent, Candidates
<1> QED
  BY <1>2, <1>5 DEF RotationInv

\* Nothing is lost with the previous secrets: by then every seed is under the current one.
LEMMA RetireInv == ASSUME RotationInv, Retire PROVE RotationInv'
<1>1. /\ release' = [current |-> release.current, previous |-> {}] /\ rewritten = User
      /\ \A p \in Process : config[p] = release
      /\ UNCHANGED <<config, seed, rewritten>>
  BY DEF Retire, RolledOut, RotationInv, RotationTypeOK, Settings
<1>2. RotationTypeOK'
  BY <1>1 DEF RotationInv, RotationTypeOK, Settings
<1>3. KeepsUp' /\ SeedsAreCandidates' /\ RewrittenIsCurrent'
  BY <1>1 DEF RotationInv, KeepsUp, SeedsAreCandidates, RewrittenIsCurrent, Candidates
<1> QED
  BY <1>2, <1>3 DEF RotationInv

LEMMA EnrolInv == ASSUME RotationInv, NEW p \in Process, NEW u \in User, Enrol(p, u) PROVE RotationInv'
<1>1. /\ seed' = [seed EXCEPT ![u] = config[p].current]
      /\ UNCHANGED <<release, config, rewritten>>
  BY DEF Enrol
<1>2. config[p].current \in Secret
  BY DEF RotationInv, RotationTypeOK, Settings
<1>3. RotationTypeOK'
  BY <1>1, <1>2 DEF RotationInv, RotationTypeOK
<1>4. \A v \in User : seed'[v] = IF v = u THEN config[p].current ELSE seed[v]
  BY <1>1 DEF RotationInv, RotationTypeOK
<1>5. KeepsUp' /\ SeedsAreCandidates' /\ RewrittenIsCurrent'
  BY <1>1, <1>4 DEF RotationInv, RotationTypeOK, KeepsUp, SeedsAreCandidates, RewrittenIsCurrent, Candidates
<1> QED
  BY <1>3, <1>5 DEF RotationInv

LEMMA OperatorInv == ASSUME RotationInv, Operator PROVE RotationInv'
  BY IntroduceInv, ReencryptInv, RetireInv, EnrolInv DEF Operator

LEMMA IdleRotationInv == ASSUME RotationInv, UNCHANGED rotation PROVE RotationInv'
  BY DEF rotation, RotationInv, RotationTypeOK, KeepsUp, SeedsAreCandidates, RewrittenIsCurrent, Candidates

\* Whatever was signed or encrypted under a secret that is not retired is good for every
\* process, unless the deploy of that very secret has yet to reach it.
LEMMA CandidateIsReadable ==
    ASSUME RotationInv, NEW p \in Process, NEW s \in Candidates(release)
    PROVE  Readable(p, s) \/ TooNew(p, s)
  BY DEF RotationInv, KeepsUp, Candidates, Readable, TooNew

LEMMA InvIsReadable == RotationInv => StoredIsReadable
  BY CandidateIsReadable DEF RotationInv, SeedsAreCandidates, StoredIsReadable

----------------------------------------------------------------------------------
(* The requests.                                                                   *)

LEMMA InitIInv == Init => IInv
<1> SUFFICES ASSUME Init PROVE IInv
  OBVIOUS
<1>1. RotationInv
  BY InitRotationInv DEF Init
<1>2. clock \in Time /\ 0 \in Time /\ 1 \in Secret
  BY RotationAssumption, CredentialsAssumption DEF Init, Time, Secret
<1>3. key \in Key /\ issued \subseteq Credential /\ request \in [Request -> {New, Done, Revoker} \cup InFlight]
  <2>1. key \in Key
    BY DEF Init, Key
  <2>2. issued \subseteq Credential
    BY <1>2, CredentialsAssumption DEF Init, Credential
  <2>3. request \in [Request -> {New, Done, Revoker} \cup InFlight]
    BY DEF Init
  <2> QED
    BY <2>1, <2>2, <2>3
<1> QED
  BY <1>1, <1>2, <1>3 DEF IInv, RotationInv, TypeOK

\* What a process signs is well formed.
LEMMA SignedType ==
    ASSUME IInv, NEW p \in Process, NEW k \in {"session", "token"}, NEW u \in User
    PROVE  Signed(p, k, u) \in Credential
<1>1. config[p].current \in Secret /\ clock \in Time
  BY DEF IInv, RotationInv, RotationTypeOK, Settings, TypeOK
<1> QED
  BY <1>1 DEF Signed, Credential

\* The steps that change no more than the request.
LEMMA RequestOnlyType ==
    ASSUME IInv, request' \in [Request -> {New, Done, Revoker} \cup InFlight],
           UNCHANGED <<rotation, clock, key, issued>>
    PROVE  IInv'
<1>1. RotationInv'
  BY IdleRotationInv DEF IInv
<1> QED
  BY <1>1 DEF IInv, TypeOK, RotationInv, Time

\* What the phase of a request tells of its record.
LEMMA PhaseTells ==
    ASSUME IInv, NEW r \in Request
    PROVE  /\ Is(r, "arrived") => request[r] \in Arrived
           /\ Is(r, "found") \/ Is(r, "working") \/ Is(r, "answered") => request[r] \in Loaded
  BY DEF IInv, TypeOK, Is, New, Done, Revoker, InFlight, Arrived, Loaded

\* The row a request writes back is a key.
LEMMA TeardownType == ASSUME IInv, NEW r \in Request, Teardown(r) PROVE key' \in Key
  BY DEF Teardown, Touched, IInv, TypeOK, Key

LEMMA ServeIInv == ASSUME IInv, NEW r \in Request, Serve(r) PROVE IInv'
<1>1. CASE SignIn(r)
  <2>1. PICK p \in Process, u \in User : issued' = issued \cup {Signed(p, "session", u)}
    BY <1>1 DEF SignIn, Issue
  <2>2. issued' \subseteq Credential
    BY <2>1, SignedType DEF IInv, TypeOK
  <2>3. request' \in [Request -> {New, Done, Revoker} \cup InFlight]
    BY <1>1 DEF SignIn, IInv, TypeOK
  <2>4. UNCHANGED <<rotation, clock, key>>
    BY <1>1 DEF SignIn
  <2> QED
    BY <2>2, <2>3, <2>4, IdleRotationInv DEF IInv, TypeOK, RotationInv, Time
<1>2. CASE BearerArrives(r)
  <2>1. PICK p \in Process, o \in Op :
            request' = [request EXCEPT ![r] = [phase |-> "arrived", proc |-> p, op |-> o,
                                               late |-> RevokedBefore]]
    BY <1>2 DEF BearerArrives
  <2>2. [phase |-> "arrived", proc |-> p, op |-> o, late |-> RevokedBefore]
            \in InFlight
    BY DEF InFlight, Arrived, RevokedBefore
  <2>3. request' \in [Request -> {New, Done, Revoker} \cup InFlight]
    BY <2>1, <2>2 DEF IInv, TypeOK
  <2> QED
    BY <1>2, <2>3, RequestOnlyType DEF BearerArrives
<1>3. CASE FindKey(r)
  <2> DEFINE f == [phase |-> "found", proc |-> request[r].proc, op |-> request[r].op,
                   late |-> request[r].late, seen |-> key]
  <2>1. f \in InFlight
    BY <1>3, PhaseTells DEF FindKey, InFlight, Arrived, Loaded, IInv, TypeOK
  <2>2. request' = [request EXCEPT ![r] = f] \/ request' = [request EXCEPT ![r] = Done]
    BY <1>3 DEF FindKey
  <2> HIDE DEF f
  <2>3. request' \in [Request -> {New, Done, Revoker} \cup InFlight]
    BY <2>1, <2>2 DEF IInv, TypeOK
  <2> QED
    BY <1>3, <2>3, RequestOnlyType DEF FindKey
<1>4. CASE FindOwner(r)
  <2>1. [request[r] EXCEPT !.phase = "working"] \in InFlight
    BY <1>4, PhaseTells DEF FindOwner, InFlight, Loaded
  <2>2. request' \in [Request -> {New, Done, Revoker} \cup InFlight]
    BY <1>4, <2>1 DEF FindOwner, IInv, TypeOK
  <2> QED
    BY <1>4, <2>2, RequestOnlyType DEF FindOwner
<1>8. CASE Revoke(r)
  <2>1. ASSUME NEW p \in Process
        PROVE  [phase |-> "working", proc |-> p, op |-> "revoke", late |-> FALSE, seen |-> key]
                   \in InFlight
    BY DEF IInv, TypeOK, InFlight, Loaded, Op
  <2>2. request' \in [Request -> {New, Done, Revoker} \cup InFlight]
    BY <1>8, <2>1 DEF Revoke, IInv, TypeOK
  <2> QED
    BY <1>8, <2>2, RequestOnlyType DEF Revoke
<1>5. CASE Respond(r)
  <2>1. request[r] \in Loaded
    BY <1>5, PhaseTells DEF Respond
  <2>2. issued' \subseteq Credential
    <3>1. Signed(request[r].proc, "token", Owner) \in Credential
      BY <2>1, SignedType, CredentialsAssumption DEF Loaded
    <3> QED
      BY <1>5, <3>1 DEF Respond, Issue, IInv, TypeOK
  <2>3. request' \in [Request -> {New, Done, Revoker} \cup InFlight]
    <3>1. [request[r] EXCEPT !.phase = "answered"] \in InFlight
      BY <2>1 DEF InFlight, Loaded
    <3> QED
      BY <1>5, <3>1 DEF Respond, IInv, TypeOK
  <2>4. UNCHANGED <<rotation, clock, key>>
    BY <1>5 DEF Respond
  <2> QED
    BY <2>2, <2>3, <2>4, IdleRotationInv DEF IInv, TypeOK, RotationInv, Time
<1>6. CASE Teardown(r)
  <2>1. key' \in Key
    BY <1>6, TeardownType
  <2>2. request' \in [Request -> {New, Done, Revoker} \cup InFlight] /\ UNCHANGED <<rotation, clock, issued>>
    BY <1>6 DEF Teardown, IInv, TypeOK
  <2> QED
    BY <2>1, <2>2, IdleRotationInv DEF IInv, TypeOK, RotationInv, Time
<1>7. CASE DatabaseFails(r)
  <2>1. request' \in [Request -> {New, Done, Revoker} \cup InFlight] /\ UNCHANGED <<rotation, clock, key, issued>>
    BY <1>7 DEF DatabaseFails, IInv, TypeOK
  <2> QED
    BY <2>1, IdleRotationInv DEF IInv, TypeOK, RotationInv, Time
<1> QED
  BY <1>1, <1>2, <1>3, <1>4, <1>5, <1>6, <1>7, <1>8 DEF Serve

LEMMA NextIInv == IInv /\ [Next]_vars => IInv'
<1> SUFFICES ASSUME IInv, [Next]_vars PROVE IInv'
  OBVIOUS
<1>1. ASSUME NEW r \in Request, Serve(r) PROVE IInv'
  BY <1>1, ServeIInv
<1>2. ASSUME NEW p \in Process, RestartProcess(p) PROVE IInv'
  <2>1. RotationInv'
    BY <1>2, RestartInv DEF RestartProcess, IInv
  <2>2. request' \in [Request -> {New, Done, Revoker} \cup InFlight] /\ UNCHANGED <<clock, key, issued>>
    BY <1>2 DEF RestartProcess, IInv, TypeOK
  <2> QED
    BY <2>1, <2>2 DEF IInv, TypeOK, RotationInv, Time
<1>3. CASE Rotate
  <2>1. RotationInv'
    BY <1>3, OperatorInv DEF Rotate, IInv
  <2> QED
    BY <1>3, <2>1 DEF Rotate, credentials, IInv, TypeOK, RotationInv, Time
<1>4. CASE Tick
  <2>1. clock' \in Time /\ UNCHANGED <<rotation, key, issued, request>>
    BY <1>4, CredentialsAssumption DEF Tick, IInv, TypeOK, Time
  <2> QED
    BY <2>1, IdleRotationInv DEF IInv, TypeOK, RotationInv, Time
<1>5. CASE UNCHANGED vars
  BY <1>5, IdleRotationInv DEF vars, credentials, IInv, TypeOK, RotationInv, Time
<1> QED
  BY <1>1, <1>2, <1>3, <1>4, <1>5 DEF Next

LEMMA Invariance == Spec => []IInv
<1> QED
  BY InitIInv, NextIInv, PTL DEF Spec

\* Whoever holds a cookie or token that has not run out is refused only by a process the
\* deploy of its secret has yet to reach, or once its secret is retired.
THEOREM CredentialsStayUsable == Spec => []CredentialsUsable
<1>1. IInv => CredentialsUsable
  <2> SUFFICES ASSUME IInv, NEW p \in Process, NEW c \in issued, Live(c), c.secret \in Candidates(release)
               PROVE  Accepted(p, c) \/ TooNew(p, c.secret)
    BY DEF CredentialsUsable, LiveIsAccepted, IInv, Candidates
  <2> QED
    BY CandidateIsReadable DEF IInv, Accepted
<1> QED
  BY <1>1, Invariance, PTL

\* Every stored seed can be decrypted at every moment of every rotation.
THEOREM StoredStaysReadable == Spec => []StoredIsReadable
<1>1. IInv => StoredIsReadable
  BY InvIsReadable DEF IInv
<1> QED
  BY <1>1, Invariance, PTL

\* What a request writes back leaves a revocation as it is.
LEMMA RevocationKept == ASSUME IInv, [Next]_vars, key.revoked PROVE key'.revoked
<1>1. ASSUME NEW r \in Request, Teardown(r) PROVE key'.revoked
  BY <1>1 DEF Teardown, Touched, IInv, TypeOK, Key
<1>2. ASSUME NEW r \in Request, Serve(r), ~Teardown(r) PROVE key' = key
  BY <1>2 DEF Serve, SignIn, BearerArrives, FindKey, FindOwner, Revoke, Respond, DatabaseFails
<1>3. \A p \in Process : RestartProcess(p) => key' = key
  BY DEF RestartProcess
<1> QED
  BY <1>1, <1>2, <1>3 DEF Next, RestartProcess, Rotate, Tick, vars, credentials

\* No request, however long before the revocation it read the key, undoes it.
THEOREM RevocationsStand == Spec => RevocationStands
<1>1. IInv /\ [Next]_vars => [key.revoked => key'.revoked]_vars
  BY RevocationKept
<1> QED
  BY <1>1, Invariance, PTL DEF Spec, RevocationStands

\* A request that is not new keeps what it knows of its arrival, and comes to be found only
\* while the key is not revoked.
LEMMA PhaseSteps ==
    ASSUME IInv, [Next]_vars, NEW r \in Request
    PROVE  \/ request'[r] = request[r] \/ request'[r] = Done
           \/ /\ request'[r].phase = "arrived"
              /\ request'[r].late = RevokedBefore
           \/ /\ Is(r, "arrived") /\ ~(request[r].late /\ key.revoked)
              /\ request'[r].phase = "found" /\ request'[r].late = request[r].late
           \/ /\ Is(r, "found") \/ Is(r, "working")
              /\ request'[r].phase \in {"working", "answered"}
              /\ request'[r].late = request[r].late
           \/ request'[r].phase = "working" /\ ~request'[r].late
           \/ request'[r] = Revoker /\ key'.revoked
<1> USE DEF IInv, TypeOK
<1>1. ASSUME NEW q \in Request, q # r, Serve(q) PROVE request'[r] = request[r]
  BY <1>1 DEF Serve, SignIn, BearerArrives, FindKey, FindOwner, Revoke, Respond, Teardown, DatabaseFails
<1>2. CASE SignIn(r) \/ DatabaseFails(r)
  BY <1>2 DEF SignIn, DatabaseFails
<1>3. CASE BearerArrives(r)
  BY <1>3 DEF BearerArrives
<1>4. CASE FindKey(r)
  BY <1>4 DEF FindKey, KeyAdmits, TokenAdmits
<1>5. CASE FindOwner(r)
  <2>1. request[r] \in Loaded
    BY <1>5, PhaseTells DEF FindOwner
  <2> QED
    BY <1>5, <2>1 DEF FindOwner, Loaded
<1>6. CASE Revoke(r)
  BY <1>6 DEF Revoke
<1>7. CASE Respond(r)
  <2>1. request[r] \in Loaded
    BY <1>7, PhaseTells DEF Respond
  <2> QED
    BY <1>7, <2>1 DEF Respond, Loaded
<1>8. CASE Teardown(r)
  <2>1. request'[r] = IF request[r].op = "revoke" THEN Revoker ELSE Done
    BY <1>8 DEF Teardown
  <2>2. request[r].op = "revoke" => key'.revoked
    BY <1>8 DEF Teardown, Key
  <2> QED
    BY <2>1, <2>2
<1>9. ASSUME NEW p \in Process, RestartProcess(p)
      PROVE  request'[r] = request[r] \/ request'[r] = Done
  BY <1>9 DEF RestartProcess
<1>10. Rotate \/ Tick \/ UNCHANGED vars => request'[r] = request[r]
  BY DEF Rotate, Tick, vars, credentials
<1>11. CASE Serve(r)
  BY <1>2, <1>3, <1>4, <1>5, <1>6, <1>7, <1>8, <1>11 DEF Serve
<1> QED
  BY <1>1, <1>9, <1>10, <1>11 DEF Next

\* Whoever arrives after the commit of a revocation is not admitted, neither with the key nor
\* with any token minted from it, before or after.
THEOREM LatecomersAreShutOut == Spec => []LatecomersStayOut
<1>1. Init => LateInv
  <2> SUFFICES ASSUME Init PROVE LateInv
    OBVIOUS
  <2>1. \A r \in Request : Is(r, "new") /\ request[r].phase = "new"
    BY DEF Init, Is, New
  <2>2. LateIsRevoked /\ FoundIsInTime /\ LatecomersStayOut
    BY <2>1 DEF LateIsRevoked, RevokedBefore, FoundIsInTime, LatecomersStayOut, Is
  <2> QED
    BY <2>2, InitIInv DEF LateInv
<1>2. LateInv /\ [Next]_vars => LateInv'
  <2> SUFFICES ASSUME LateInv, [Next]_vars PROVE LateInv'
    OBVIOUS
  <2> USE DEF LateInv
  <2>1. IInv'
    BY NextIInv
  <2>2. key.revoked => key'.revoked
    BY RevocationKept
  <2>3. LateIsRevoked'
    <3>1. ASSUME NEW q \in Request, Is(q, "revoked")' PROVE key'.revoked
      <4>1. request'[q] = request[q] \/ key'.revoked
        BY <3>1, PhaseSteps DEF Is, Done
      <4> QED
        BY <2>2, <3>1, <4>1 DEF LateIsRevoked, RevokedBefore, Is
    <3>2. ASSUME NEW r \in Request, Is(r, "arrived")', request'[r].late PROVE key'.revoked
      BY <2>2, <3>2, PhaseSteps DEF LateIsRevoked, Is, Done, Revoker
    <3> QED
      BY <3>1, <3>2 DEF LateIsRevoked, RevokedBefore
  <2>4. FoundIsInTime'
    <3> SUFFICES ASSUME NEW r \in Request, Is(r, "found")' PROVE ~request'[r].late
      BY DEF FoundIsInTime
    <3> QED
      BY PhaseSteps DEF FoundIsInTime, LateIsRevoked, Is, Done, Revoker
  <2>5. LatecomersStayOut'
    <3> SUFFICES ASSUME NEW r \in Request, Is(r, "working")' \/ Is(r, "answered")'
                 PROVE  ~request'[r].late
      BY DEF LatecomersStayOut
    <3> QED
      BY PhaseSteps DEF FoundIsInTime, LatecomersStayOut, Is, Done, Revoker
  <2> QED
    BY <2>1, <2>3, <2>4, <2>5
<1>3. LateInv => LatecomersStayOut
  BY DEF LateInv
<1> QED
  BY <1>1, <1>2, <1>3, PTL DEF Spec

----------------------------------------------------------------------------------
(* The browser.                                                                    *)

\* A process is never ahead of the release, and no token is.
NotAhead ==
    /\ \A p \in Process : config[p].current <= release.current
    /\ jar.csrf.secret <= release.current

\* A response brings the document its tab shows, or a page with the token of its cookie,
\* which the process that rendered it has signed.
ResponsesFollow ==
    \A t \in Tab : net[t].state = "arriving" =>
        /\ net[t].cookie.name = "csrf" =>
               net[t].cookie.token.secret = net[t].cookie.by /\ net[t].cookie.by <= release.current
        /\ net[t].doc.kind = "items" =>
               \/ net[t].doc = doc[t]
               \/ net[t].cookie.name = "csrf" /\ net[t].doc.token = net[t].cookie.token

\* Before the first rotation, and unless two first visits overlapped, there is one token.
OneToken ==
    ~overlapped /\ release.current = 1 =>
        /\ jar.csrf = NoToken =>
              /\ \A t \in Tab : doc[t].kind # "items"
              /\ \A t, u \in Tab : net[t].state = "arriving" /\ net[u].state = "arriving" => t = u
        /\ jar.csrf # NoToken =>
              /\ \A t \in Tab : doc[t].kind = "items" => doc[t].token = jar.csrf
              /\ \A t \in Tab : net[t].state = "arriving" /\ net[t].cookie.name = "csrf" =>
                    net[t].cookie.token = jar.csrf

BrowserInv == BrowserTypeOK /\ NotAhead /\ ResponsesFollow /\ LatestPageWorks /\ OneToken /\ OldPagesWork
----------------------------------------------------------------------------------
LEMMA ImageIsSmall ==
    ASSUME NEW S, IsFiniteSet(S), NEW f, f = [x \in S |-> f[x]]
    PROVE  /\ IsFiniteSet({f[x] : x \in S})
           /\ Cardinality({f[x] : x \in S}) <= Cardinality(S)
<1> DEFINE T == {f[x] : x \in S}
<1>1. f \in Surjection(S, T)
  BY DEF Surjection
<1> HIDE DEF T
<1>2. IsFiniteSet(T) /\ Cardinality(T) <= Cardinality(S)
  BY <1>1, FS_Surjection
<1> QED BY <1>2 DEF T

\* What the tokens in use are.
LEMMA InUseIs ==
    ASSUME ResponsesFollow, NEW token \in InUse
    PROVE  \/ token = jar.csrf
           \/ \E t \in Tab : token = doc[t].token
           \/ \E t \in Tab : token = net[t].cookie.token
<1>1. CASE token = jar.csrf
  BY <1>1
<1>2. ASSUME NEW t \in Tab, token \in Shown(doc[t]) PROVE token = doc[t].token
  BY <1>2 DEF Shown
<1>3. ASSUME NEW t \in Tab, token \in Carried(net[t])
      PROVE  token = doc[t].token \/ token = net[t].cookie.token
  BY <1>3 DEF Carried, Shown, ResponsesFollow
<1> QED BY <1>1, <1>2, <1>3 DEF InUse

\* There is a nonce nobody holds.
LEMMA SomeFree == ASSUME ResponsesFollow, NEW p PROVE Free(p) # {}
<1> SUFFICES ASSUME Free(p) = {} PROVE FALSE
  OBVIOUS
<1> DEFINE shown == [t \in Tab |-> doc[t].token.nonce]
           carried == [t \in Tab |-> net[t].cookie.token.nonce]
           A == {shown[t] : t \in Tab}
           B == {carried[t] : t \in Tab}
           J == {jar.csrf.nonce}
<1>1. Nonce \subseteq (A \cup B) \cup J
  <2> SUFFICES ASSUME NEW n \in Nonce PROVE n \in (A \cup B) \cup J
    OBVIOUS
  <2> DEFINE token == [secret |-> config[p].current, nonce |-> n]
  <2>1. token \in InUse
    BY DEF Free
  <2>2. token.nonce = n
    OBVIOUS
  <2> HIDE DEF token
  <2> QED BY <2>1, <2>2, InUseIs
<1>2. IsFiniteSet(Tab) /\ Cardinality(Tab) \in Nat
  BY FS_CardinalityType, BrowserAssumption
<1>3. IsFiniteSet(A) /\ Cardinality(A) <= Cardinality(Tab)
  BY <1>2, ImageIsSmall
<1>4. IsFiniteSet(B) /\ Cardinality(B) <= Cardinality(Tab)
  BY <1>2, ImageIsSmall
<1>5. IsFiniteSet(J) /\ Cardinality(J) = 1
  BY FS_Singleton
<1> HIDE DEF A, B, J
<1> DEFINE AB == A \cup B
<1>6. IsFiniteSet(AB) /\ Cardinality(AB) <= 2 * Cardinality(Tab)
  <2>1. Cardinality(A) \in Nat /\ Cardinality(B) \in Nat
    BY <1>3, <1>4, FS_CardinalityType
  <2>2. IsFiniteSet(A \cap B)
    BY <1>3, FS_Subset
  <2>3. Cardinality(A \cap B) \in Nat
    BY <2>2, FS_CardinalityType
  <2>4. IsFiniteSet(AB) /\ Cardinality(AB) = Cardinality(A) + Cardinality(B) - Cardinality(A \cap B)
    BY <1>3, <1>4, FS_Union
  <2> QED BY <1>2, <1>3, <1>4, <2>1, <2>3, <2>4
<1> DEFINE ABJ == AB \cup J
<1>7. IsFiniteSet(ABJ) /\ Cardinality(ABJ) <= 2 * Cardinality(Tab) + 1
  <2> HIDE DEF AB
  <2>1. Cardinality(AB) \in Nat
    BY <1>6, FS_CardinalityType
  <2>2. IsFiniteSet(AB \cap J)
    BY <1>6, FS_Subset
  <2>3. Cardinality(AB \cap J) \in Nat
    BY <2>2, FS_CardinalityType
  <2>4. IsFiniteSet(ABJ) /\ Cardinality(ABJ) = Cardinality(AB) + Cardinality(J) - Cardinality(AB \cap J)
    BY <1>5, <1>6, FS_Union
  <2> HIDE DEF ABJ
  <2> QED BY <1>2, <1>5, <1>6, <2>1, <2>3, <2>4
<1>8. IsFiniteSet(Nonce) /\ Cardinality(Nonce) <= Cardinality(ABJ)
  BY <1>1, <1>7, FS_Subset
<1> HIDE DEF ABJ
<1>9. Cardinality(Nonce) \in Nat /\ Cardinality(ABJ) \in Nat
  BY <1>7, <1>8, FS_CardinalityType
<1> QED BY <1>2, <1>7, <1>8, <1>9, BrowserAssumption

\* The token of a page is a token of the process that renders it.
LEMMA TokenIsFresh ==
    ASSUME BrowserTypeOK, ResponsesFollow, NEW p \in Process
    PROVE  /\ TokenFor(p) \in Token \ {NoToken} /\ TokenFor(p).secret = config[p].current
           /\ config[p].current \in Secret
<1>1. config[p].current \in Secret
  BY DEF BrowserTypeOK, RotationTypeOK, Settings
<1>2. (CHOOSE n \in Free(p) : TRUE) \in Nonce
  BY SomeFree DEF Free
<1>3. Issued(p) \in Token \ {NoToken} /\ Issued(p).secret = config[p].current
  BY <1>1, <1>2 DEF Issued, Token, NoToken, Secret
<1>4. jar.csrf \in Token
  BY DEF BrowserTypeOK
<1> QED BY <1>1, <1>3, <1>4 DEF TokenFor, Valid

\* What the answer to a request may be.
Answer(t, p, route, n) ==
    /\ n \in Responses
    /\ n.cookie.name = "csrf" =>
           n.cookie.token = TokenFor(p) /\ n.cookie.by = config[p].current
    /\ n.doc.kind = "items" => n.doc = doc[t] \/ (n.cookie.name = "csrf" /\ n.doc.token = TokenFor(p))
    /\ n.refused => doc[t].kind = "items" /\ route \in {"logout", "form", "write"} /\ ~Accepts(t, p, route)

\* Every response is one of these.
LEMMA Answers ==
    ASSUME BrowserTypeOK, ResponsesFollow, NEW t \in Tab, NEW p \in Process, NEW route
    PROVE  /\ \A next \in {Idle} \cup Redirects, document \in {doc[t], Login, NoForms},
                 cookie \in {NoCookie, SessionCookie(0), SessionCookie(config[p].current)} :
                 Answer(t, p, route, Response(document, next, cookie, FALSE))
           /\ \A document \in {doc[t], Login, Items(TokenFor(p))} :
                 Answer(t, p, route, Attached(p, document, TokenFor(p)))
           /\ \A document \in {doc[t], NoForms} :
                 doc[t].kind = "items" /\ route \in {"logout", "form", "write"} /\ ~Accepts(t, p, route)
                     => Answer(t, p, route, CsrfError(document))
<1>1. /\ TokenFor(p) \in Token \ {NoToken} /\ config[p].current \in Secret
      /\ doc[t] \in Docs /\ Login \in Docs /\ NoForms \in Docs
  BY TokenIsFresh DEF BrowserTypeOK, Docs
<1>2. Items(TokenFor(p)) \in Docs /\ Items(TokenFor(p)).token = TokenFor(p)
  BY <1>1 DEF Items, Docs
<1>3. Login.kind # "items" /\ NoForms.kind # "items"
  BY DEF Login, NoForms
<1>4. /\ NoCookie \in Cookies /\ NoCookie.name = "none"
      /\ SessionCookie(0) \in Cookies /\ SessionCookie(0).name = "session"
      /\ SessionCookie(config[p].current) \in Cookies /\ SessionCookie(config[p].current).name = "session"
  BY <1>1 DEF NoCookie, SessionCookie, Cookies
<1>5. /\ CsrfCookie(p, TokenFor(p)) \in Cookies /\ CsrfCookie(p, TokenFor(p)).name = "csrf"
      /\ CsrfCookie(p, TokenFor(p)).token = TokenFor(p) /\ CsrfCookie(p, TokenFor(p)).by = config[p].current
  BY <1>1 DEF CsrfCookie, Cookies
<1>6. ASSUME NEW next \in {Idle} \cup Redirects, NEW document \in Docs, NEW cookie \in Cookies,
             NEW b \in BOOLEAN
      PROVE  /\ Response(document, next, cookie, b) \in Responses
             /\ Response(document, next, cookie, b).doc = document
             /\ Response(document, next, cookie, b).cookie = cookie
             /\ Response(document, next, cookie, b).refused = b
  BY <1>6 DEF Response, Responses
<1>7. ASSUME NEW next \in {Idle} \cup Redirects, NEW document \in {doc[t], Login, NoForms},
             NEW cookie \in {NoCookie, SessionCookie(0), SessionCookie(config[p].current)}
      PROVE  Answer(t, p, route, Response(document, next, cookie, FALSE))
  <2>1. document \in Docs /\ cookie \in Cookies /\ cookie.name # "csrf"
    BY <1>1, <1>4
  <2>2. document.kind = "items" => document = doc[t]
    BY <1>3
  <2> DEFINE n == Response(document, next, cookie, FALSE)
  <2>3. n \in Responses /\ n.doc = document /\ n.cookie = cookie /\ n.refused = FALSE
    BY <1>6, <2>1
  <2> HIDE DEF n
  <2>4. Answer(t, p, route, n)
    BY <2>1, <2>2, <2>3 DEF Answer
  <2> QED BY <2>4 DEF n
<1>8. ASSUME NEW document \in {doc[t], Login, Items(TokenFor(p))}
      PROVE  Answer(t, p, route, Attached(p, document, TokenFor(p)))
  <2>1. document \in Docs
    BY <1>1, <1>2
  <2>2. document.kind = "items" => document = doc[t] \/ document.token = TokenFor(p)
    BY <1>2, <1>3
  <2> DEFINE n == Attached(p, document, TokenFor(p))
  <2>3. n \in Responses /\ n.doc = document /\ n.cookie = CsrfCookie(p, TokenFor(p)) /\ n.refused = FALSE
    <3>1. n = Response(document, Idle, CsrfCookie(p, TokenFor(p)), FALSE)
      BY DEF Attached, Shows
    <3>2. Idle \in {Idle} \cup Redirects /\ FALSE \in BOOLEAN
      OBVIOUS
    <3> HIDE DEF n
    <3> QED BY <1>5, <2>1, <3>1, <3>2 DEF Response, Responses
  <2> HIDE DEF n
  <2>4. Answer(t, p, route, n)
    BY <1>5, <2>2, <2>3 DEF Answer
  <2> QED BY <2>4 DEF n
<1>9. ASSUME NEW document \in {doc[t], NoForms},
             doc[t].kind = "items" /\ route \in {"logout", "form", "write"} /\ ~Accepts(t, p, route)
      PROVE  Answer(t, p, route, CsrfError(document))
  <2>1. document \in Docs /\ (document.kind = "items" => document = doc[t])
    BY <1>1, <1>3
  <2> DEFINE n == CsrfError(document)
  <2>2. n \in Responses /\ n.doc = document /\ n.cookie = NoCookie
    <3>1. n = Response(document, Idle, NoCookie, TRUE)
      BY DEF CsrfError
    <3>2. Idle \in {Idle} \cup Redirects /\ TRUE \in BOOLEAN
      OBVIOUS
    <3> HIDE DEF n
    <3> QED BY <1>4, <2>1, <3>1, <3>2 DEF Response, Responses
  <2> HIDE DEF n
  <2>3. Answer(t, p, route, n)
    BY <1>4, <1>9, <2>1, <2>2 DEF Answer
  <2> QED BY <2>3 DEF n
<1> QED BY <1>7, <1>8, <1>9

\* What Serve does to the tab it answers.
LEMMA ServeAnswers ==
    ASSUME BrowserTypeOK, ResponsesFollow, NEW t \in Tab, NEW p \in Process, NEW route,
           route \in Gets \/ route \in Choices(t), Handle(t, p, route)
    PROVE  Answer(t, p, route, net'[t]) /\ net' = [net EXCEPT ![t] = net'[t]]
<1>0. doc[t] \in Docs /\ \A r \in Gets : Follow(r) \in Redirects
  BY DEF BrowserTypeOK, Redirects
<1>1. PICK n \in IF route \in Gets THEN Get(t, p, route)
                 ELSE IF route = "signin" THEN LoginSubmit(t, p) ELSE Post(t, p, route) :
          net' = [net EXCEPT ![t] = n]
  BY DEF Handle
<1>2. net'[t] = n /\ net' = [net EXCEPT ![t] = net'[t]]
  BY <1>1 DEF BrowserTypeOK
<1>3. route \in Gets \cup {"signin", "logout", "form", "write"}
      /\ (route \in {"logout", "form", "write"} => doc[t].kind = "items")
  BY <1>0 DEF Choices, Docs, Gets, Login, NoForms
<1>4. /\ \A r \in Gets : Answer(t, p, route, Goes(t, r, NoCookie))
      /\ Answer(t, p, route, LoginRequired(t))
      /\ Answer(t, p, route, Goes(t, "login", SessionCookie(0)))
      /\ \A r \in {"items", "post"} : Answer(t, p, route, Goes(t, r, SessionCookie(config[p].current)))
  BY <1>0, Answers DEF Goes, LoginRequired, Gets
<1>5. \A document \in {doc[t], Login, NoForms} : Answer(t, p, route, Shows(document, NoCookie))
  BY Answers DEF Shows
<1>6. CASE route \in Gets
  <2>1. n \in Get(t, p, route)
    BY <1>1, <1>6
  <2>2. \/ \E r \in Gets : n = Goes(t, r, NoCookie)
        \/ n = LoginRequired(t)
        \/ n = Shows(NoForms, NoCookie)
        \/ \E document \in {doc[t], Login, Items(TokenFor(p))} : n = Attached(p, document, TokenFor(p))
    BY <1>6, <2>1 DEF Get, Gets, Page
  <2> QED BY <1>2, <1>4, <1>5, <2>2, Answers
<1>7. CASE route = "signin"
  <2>1. n \in LoginSubmit(t, p)
    BY <1>1, <1>7 DEF Gets
  <2> QED BY <1>2, <1>4, <1>5, <2>1 DEF LoginSubmit
<1>8. CASE route \in {"logout", "form", "write"}
  <2>1. n \in Post(t, p, route)
    BY <1>1, <1>8 DEF Gets
  <2>2. CASE ~Accepts(t, p, route)
    <3>1. n = CsrfError(doc[t]) \/ n = CsrfError(NoForms)
      BY <2>1, <2>2 DEF Post
    <3> QED BY <1>2, <1>3, <1>8, <2>2, <3>1, Answers
  <2>3. CASE Accepts(t, p, route)
    <3>1. \/ n = Goes(t, "login", SessionCookie(0)) \/ n = LoginRequired(t)
          \/ n = Goes(t, "items", NoCookie) \/ n = Shows(doc[t], NoCookie)
          \/ n = Page(p) \/ n = Shows(NoForms, NoCookie)
      BY <1>8, <2>1, <2>3 DEF Post
    <3>2. Answer(t, p, route, Page(p))
      BY Answers DEF Page
    <3> QED BY <1>2, <1>4, <1>5, <3>1, <3>2 DEF Gets
  <2> QED BY <2>2, <2>3
<1> QED BY <1>2, <1>3, <1>6, <1>7, <1>8

\* A request that a tab may make, served by any process.
LEMMA ServeKeeps ==
    ASSUME BrowserInv, NEW t \in Tab, NEW p \in Process, NEW route,
           route \in Gets \/ route \in Choices(t), Handle(t, p, route), uses' \in 0..MaxUses
    PROVE  BrowserInv'
<1> DEFINE n == net'[t]
<1>0. BrowserTypeOK /\ NotAhead /\ ResponsesFollow /\ LatestPageWorks /\ OneToken /\ OldPagesWork
  BY DEF BrowserInv
<1>1. Answer(t, p, route, n) /\ \A u \in Tab \ {t} : net'[u] = net[u]
  <2>1. Answer(t, p, route, n) /\ net' = [net EXCEPT ![t] = n]
    BY <1>0, ServeAnswers
  <2> QED BY <1>0, <2>1 DEF BrowserTypeOK
<1>2. /\ UNCHANGED <<release, config, seed, rewritten, jar, doc, latest>>
      /\ overlapped' = (overlapped \/ Races(t))
      /\ net' = [net EXCEPT ![t] = n]
  BY <1>0, ServeAnswers DEF Handle, rotation
<1>3. n \in Responses /\ n.state = "arriving"
  BY <1>1 DEF Answer, Responses
<1>4. TokenFor(p).secret = config[p].current /\ config[p].current <= release.current
  BY <1>0, TokenIsFresh DEF NotAhead
<1>5. BrowserTypeOK'
  <2>1. net' \in [Tab -> {Idle} \cup Redirects \cup Responses]
    <3> HIDE DEF n
    <3> QED BY <1>0, <1>2, <1>3 DEF BrowserTypeOK
  <2>2. overlapped' \in BOOLEAN
    BY <1>0, <1>2 DEF BrowserTypeOK, Races
  <2>3. RotationTypeOK'
    BY <1>0, <1>2 DEF BrowserTypeOK, RotationTypeOK
  <2> QED BY <1>0, <1>2, <2>1, <2>2, <2>3 DEF BrowserTypeOK
<1> HIDE DEF n
<1>6. NotAhead' /\ LatestPageWorks'
  BY <1>0, <1>2 DEF NotAhead, LatestPageWorks
<1>7. ResponsesFollow'
  <2>1. ASSUME NEW u \in Tab, net'[u].state = "arriving"
        PROVE  /\ net'[u].cookie.name = "csrf" =>
                      net'[u].cookie.token.secret = net'[u].cookie.by /\ net'[u].cookie.by <= release.current
               /\ net'[u].doc.kind = "items" =>
                      \/ net'[u].doc = doc[u]
                      \/ net'[u].cookie.name = "csrf" /\ net'[u].doc.token = net'[u].cookie.token
    <3>1. CASE u # t
      BY <1>0, <1>1, <2>1, <3>1 DEF ResponsesFollow
    <3>2. CASE u = t
      BY <1>1, <1>4, <3>2 DEF Answer, n
    <3> QED BY <3>1, <3>2
  <2> QED BY <1>2, <2>1 DEF ResponsesFollow
<1>8. ASSUME ~overlapped', release.current = 1
      PROVE  /\ ~overlapped /\ ~Races(t) /\ config[p].current = 1
             /\ jar.csrf # NoToken => Valid(p, jar.csrf) /\ TokenFor(p) = jar.csrf
  <2>1. config[p].current \in Nat /\ config[p].current >= 1 /\ config[p].current <= 1
    BY <1>0, <1>4, <1>8, TokenIsFresh DEF Secret
  <2>2. jar.csrf # NoToken => jar.csrf.secret \in Nat /\ jar.csrf.secret >= 1 /\ jar.csrf.secret <= 1
    BY <1>0, <1>8 DEF BrowserTypeOK, Token, NotAhead, Secret
  <2>3. jar.csrf # NoToken => Valid(p, jar.csrf)
    BY <2>1, <2>2 DEF Valid
  <2>4. ~overlapped /\ ~Races(t)
    BY <1>2, <1>8, Zenon
  <2>5. config[p].current = 1
    BY <2>1
  <2>6. jar.csrf # NoToken => TokenFor(p) = jar.csrf
    BY <2>3 DEF TokenFor
  <2> QED BY <2>3, <2>4, <2>5, <2>6
<1>9. OneToken'
  <2>1. ASSUME ~overlapped', release.current = 1, jar.csrf = NoToken
        PROVE  /\ \A u \in Tab : doc[u].kind # "items"
               /\ \A u, v \in Tab : net'[u].state = "arriving" /\ net'[v].state = "arriving" => u = v
    BY <1>0, <1>1, <1>8, <2>1 DEF OneToken, Races
  <2>2. ASSUME ~overlapped', release.current = 1, jar.csrf # NoToken
        PROVE  /\ \A u \in Tab : doc[u].kind = "items" => doc[u].token = jar.csrf
               /\ \A u \in Tab : net'[u].state = "arriving" /\ net'[u].cookie.name = "csrf" =>
                     net'[u].cookie.token = jar.csrf
    <3>1. n.cookie.name = "csrf" => n.cookie.token = jar.csrf
      BY <1>1, <1>8, <2>2 DEF Answer
    <3> QED BY <1>0, <1>1, <1>8, <2>2, <3>1 DEF OneToken, n
  <2> QED BY <1>2, <2>1, <2>2 DEF OneToken
<1>10. OldPagesWork'
  <2> SUFFICES ASSUME NEW u \in Tab, net'[u].state = "arriving", net'[u].refused,
                      ~overlapped', ~(release.current > 1)
               PROVE  FALSE
    BY <1>2 DEF OldPagesWork
  <2>1. release.current = 1
    BY <1>0 DEF BrowserTypeOK, RotationTypeOK, Settings, Secret
  <2>2. CASE u # t
    BY <1>0, <1>1, <1>8, <2>1, <2>2 DEF OldPagesWork
  <2>3. CASE u = t
    <3>1. doc[t].kind = "items" /\ route \in {"logout", "form", "write"} /\ ~Accepts(t, p, route)
      BY <1>1, <2>3 DEF Answer, n
    <3>2. jar.csrf # NoToken /\ doc[t].token = jar.csrf
      BY <1>0, <1>8, <2>1, <3>1 DEF OneToken
    <3>3. Valid(p, jar.csrf)
      BY <1>8, <2>1, <3>2
    <3> QED BY <3>1, <3>2, <3>3 DEF Accepts, Field
  <2> QED BY <2>2, <2>3
<1> QED BY <1>5, <1>6, <1>7, <1>9, <1>10 DEF BrowserInv

LEMMA ArriveKeeps == ASSUME BrowserInv, NEW t \in Tab, Arrive(t) PROVE BrowserInv'
<1> DEFINE n == net[t]
<1>0. BrowserTypeOK /\ NotAhead /\ ResponsesFollow /\ LatestPageWorks /\ OneToken /\ OldPagesWork
  BY DEF BrowserInv
<1>1. /\ n.state = "arriving"
      /\ jar' = [session |-> IF n.cookie.name = "session" THEN n.cookie.secret ELSE jar.session,
                 csrf    |-> IF n.cookie.name = "csrf" THEN n.cookie.token ELSE jar.csrf]
      /\ doc' = [doc EXCEPT ![t] = n.doc] /\ net' = [net EXCEPT ![t] = n.then]
      /\ latest' = IF n.cookie.name # "csrf" THEN latest
                   ELSE IF n.doc = doc[t] THEN NoPage
                   ELSE [tab |-> t, by |-> n.cookie.by]
      /\ UNCHANGED <<release, config, seed, rewritten, uses, overlapped>>
  BY DEF Arrive, rotation
<1>2. n \in Responses
  BY <1>0, <1>1 DEF BrowserTypeOK, Idle, Redirects, Follow
<1>3. n.doc \in Docs /\ n.then \in {Idle} \cup Redirects /\ n.cookie \in Cookies
  BY <1>2 DEF Responses
<1> HIDE DEF n
<1>4. /\ n.cookie.name = "session" => n.cookie.secret \in Secret \cup {0}
      /\ n.cookie.name = "csrf" => n.cookie.token \in Token \ {NoToken} /\ n.cookie.by \in Secret
  BY <1>3 DEF Cookies, NoCookie
<1>5. /\ jar'.csrf = IF n.cookie.name = "csrf" THEN n.cookie.token ELSE jar.csrf
      /\ doc'[t] = n.doc /\ net'[t] = n.then
      /\ n.then.state # "arriving"
      /\ \A u \in Tab \ {t} : doc'[u] = doc[u] /\ net'[u] = net[u]
  BY <1>0, <1>1, <1>3 DEF BrowserTypeOK, Idle, Redirects, Follow
<1>6. BrowserTypeOK'
  <2>1. jar' \in [session: Secret \cup {0}, csrf: Token]
    BY <1>0, <1>1, <1>4 DEF BrowserTypeOK
  <2>2. latest' \in [tab: Tab, by: Secret] \cup {NoPage}
    BY <1>0, <1>1, <1>4 DEF BrowserTypeOK
  <2>3. RotationTypeOK'
    BY <1>0, <1>1 DEF BrowserTypeOK, RotationTypeOK
  <2>4. doc' \in [Tab -> Docs] /\ net' \in [Tab -> {Idle} \cup Redirects \cup Responses]
    BY <1>0, <1>1, <1>3 DEF BrowserTypeOK
  <2> QED BY <1>0, <1>1, <2>1, <2>2, <2>3, <2>4 DEF BrowserTypeOK
<1>7. /\ n.cookie.name = "csrf" => n.cookie.token.secret = n.cookie.by /\ n.cookie.by <= release.current
      /\ n.doc.kind = "items" => n.doc = doc[t] \/ (n.cookie.name = "csrf" /\ n.doc.token = n.cookie.token)
  BY <1>0, <1>1 DEF ResponsesFollow, n
<1>8. NotAhead'
  BY <1>0, <1>1, <1>5, <1>7 DEF NotAhead
<1>9. ResponsesFollow'
  BY <1>0, <1>1, <1>5 DEF ResponsesFollow
<1>10. LatestPageWorks'
  <2>1. CASE n.cookie.name # "csrf"
    <3>1. latest' = latest /\ jar'.csrf = jar.csrf
      BY <1>1, <1>5, <2>1
    <3>2. \A u \in Tab : doc'[u].kind = "items" => doc'[u] = doc[u]
      BY <1>5, <1>7, <2>1
    <3>3. latest # NoPage => latest.tab \in Tab
      BY <1>0 DEF BrowserTypeOK
    <3> QED BY <1>0, <3>1, <3>2, <3>3 DEF LatestPageWorks
  <2>2. CASE n.cookie.name = "csrf" /\ n.doc = doc[t]
    BY <1>1, <2>2 DEF LatestPageWorks
  <2>3. CASE n.cookie.name = "csrf" /\ n.doc # doc[t]
    <3>1. latest' = [tab |-> t, by |-> n.cookie.by]
      BY <1>1, <2>3
    <3>2. latest'.tab = t /\ latest'.by = n.cookie.by
      BY <3>1
    <3> QED BY <1>5, <1>7, <2>3, <3>2 DEF LatestPageWorks
  <2> QED BY <2>1, <2>2, <2>3
<1>11. OneToken'
  <2> SUFFICES ASSUME ~overlapped, release.current = 1
               PROVE  /\ jar'.csrf = NoToken =>
                            /\ \A u \in Tab : doc'[u].kind # "items"
                            /\ \A u, v \in Tab : net'[u].state = "arriving" /\ net'[v].state = "arriving" => u = v
                      /\ jar'.csrf # NoToken =>
                            /\ \A u \in Tab : doc'[u].kind = "items" => doc'[u].token = jar'.csrf
                            /\ \A u \in Tab : net'[u].state = "arriving" /\ net'[u].cookie.name = "csrf" =>
                                  net'[u].cookie.token = jar'.csrf
    BY <1>1 DEF OneToken
  <2>1. CASE jar.csrf = NoToken
    <3>1. /\ \A u \in Tab : doc[u].kind # "items"
          /\ \A u \in Tab \ {t} : net[u].state # "arriving"
      BY <1>0, <1>1, <2>1 DEF OneToken, n
    <3> QED BY <1>4, <1>5, <1>7, <2>1, <3>1
  <2>2. CASE jar.csrf # NoToken
    <3>1. /\ \A u \in Tab : doc[u].kind = "items" => doc[u].token = jar.csrf
          /\ \A u \in Tab : net[u].state = "arriving" /\ net[u].cookie.name = "csrf" =>
                net[u].cookie.token = jar.csrf
      BY <1>0, <2>2 DEF OneToken
    <3>2. jar'.csrf = jar.csrf
      BY <1>1, <1>5, <3>1 DEF n
    <3>3. n.cookie.name = "csrf" => n.cookie.token = jar.csrf
      BY <1>1, <3>1 DEF n
    <3> QED BY <1>5, <1>7, <2>2, <3>1, <3>2, <3>3
  <2> QED BY <2>1, <2>2
<1>12. OldPagesWork'
  BY <1>0, <1>1, <1>5 DEF OldPagesWork
<1> QED BY <1>6, <1>8, <1>9, <1>10, <1>11, <1>12 DEF BrowserInv

LEMMA RotateKeeps == ASSUME BrowserInv, RotateSecret PROVE BrowserInv'
<1>0. BrowserTypeOK /\ NotAhead /\ ResponsesFollow /\ LatestPageWorks /\ OneToken /\ OldPagesWork
  BY DEF BrowserInv
<1>1. UNCHANGED <<jar, doc, uses, net, latest, overlapped>>
  BY DEF RotateSecret, browser
<1>2. /\ release' \in Settings /\ config' \in [Process -> Settings] /\ rewritten' \subseteq User /\ seed' = seed
      /\ release'.current >= release.current
      /\ \A p \in Process : config'[p].current <= release'.current
  <2>1. CASE Introduce
    <3>1. release.current + 1 \in Secret /\ release'.current = release.current + 1
      BY <1>0, <2>1, RotationAssumption DEF Introduce, BrowserTypeOK, RotationTypeOK, Settings, Secret
    <3>2. release' \in Settings
      BY <1>0, <2>1, <3>1 DEF Introduce, BrowserTypeOK, RotationTypeOK, Settings
    <3> QED BY <1>0, <2>1, <3>1, <3>2 DEF Introduce, BrowserTypeOK, RotationTypeOK, NotAhead, Settings, Secret
  <2>2. CASE Retire
    <3>1. release' = [current |-> release.current, previous |-> {}]
      BY <1>0, <2>2 DEF Retire, BrowserTypeOK, RotationTypeOK, Settings
    <3> QED BY <1>0, <2>2, <3>1 DEF Retire, BrowserTypeOK, RotationTypeOK, NotAhead, Settings, Secret
  <2>3. ASSUME NEW p \in Process, Restart(p)
        PROVE  /\ release' \in Settings /\ config' \in [Process -> Settings] /\ rewritten' \subseteq User
               /\ seed' = seed /\ release'.current >= release.current
               /\ \A q \in Process : config'[q].current <= release'.current
    BY <1>0, <2>3 DEF Restart, BrowserTypeOK, RotationTypeOK, NotAhead, Settings, Secret
  <2> QED BY <2>1, <2>2, <2>3 DEF RotateSecret
<1>3. BrowserTypeOK'
  BY <1>0, <1>1, <1>2 DEF BrowserTypeOK, RotationTypeOK
<1>4. release.current \in Nat /\ release'.current \in Nat /\ release.current >= 1
  BY <1>0, <1>2 DEF BrowserTypeOK, RotationTypeOK, Settings, Secret
<1>5. NotAhead'
  <2>1. jar.csrf.secret \in Nat
    BY <1>0 DEF BrowserTypeOK, Token, NoToken, Secret
  <2> QED BY <1>0, <1>1, <1>2, <1>4, <2>1 DEF NotAhead
<1>6. ResponsesFollow'
  <2>1. ASSUME NEW t \in Tab, net[t].state = "arriving", net[t].cookie.name = "csrf"
        PROVE  net[t].cookie.by \in Nat
    <3>1. net[t].cookie \in Cookies
      BY <1>0, <2>1 DEF BrowserTypeOK, Idle, Redirects, Follow, Responses
    <3> QED BY <2>1, <3>1 DEF Cookies, NoCookie, Secret
  <2> QED BY <1>0, <1>1, <1>2, <1>4, <2>1 DEF ResponsesFollow
<1>7. LatestPageWorks' /\ OldPagesWork'
  BY <1>0, <1>1, <1>2, <1>4 DEF LatestPageWorks, OldPagesWork
<1>8. OneToken'
  <2>1. release'.current = 1 => release.current = 1
    BY <1>2, <1>4
  <2> QED BY <1>0, <1>1, <2>1 DEF OneToken
<1> QED BY <1>3, <1>5, <1>6, <1>7, <1>8 DEF BrowserInv

LEMMA InitBrowserInv == ASSUME BrowserInit PROVE BrowserInv
<1>1. 1 \in Secret
  BY RotationAssumption DEF Secret
<1>2. /\ release = [current |-> 1, previous |-> {}] /\ config = [p \in Process |-> release]
      /\ seed \in [User -> {0, 1}] /\ rewritten = {}
      /\ jar = [session |-> 0, csrf |-> NoToken]
      /\ doc = [t \in Tab |-> NoForms] /\ uses = 0 /\ net = [t \in Tab |-> Idle]
      /\ latest = NoPage /\ overlapped = FALSE
  BY DEF BrowserInit, RotationInit
<1>3. RotationTypeOK
  BY <1>1, <1>2 DEF RotationTypeOK, Settings
<1>4. BrowserTypeOK
  <2>1. jar \in [session: Secret \cup {0}, csrf: Token]
    BY <1>2 DEF Token
  <2>2. doc \in [Tab -> Docs] /\ net \in [Tab -> {Idle} \cup Redirects \cup Responses]
    BY <1>2 DEF Docs
  <2>3. uses \in 0..MaxUses
    BY <1>2, BrowserAssumption
  <2> QED BY <1>2, <1>3, <2>1, <2>2, <2>3 DEF BrowserTypeOK
<1>5. NotAhead
  BY <1>2 DEF NotAhead, NoToken
<1>6. ResponsesFollow /\ LatestPageWorks /\ OneToken /\ OldPagesWork
  BY <1>2 DEF ResponsesFollow, LatestPageWorks, OneToken, OldPagesWork, Idle, NoForms
<1> QED BY <1>4, <1>5, <1>6 DEF BrowserInv

THEOREM BrowserInvariance == BrowserSpec => []BrowserInv
<1>1. BrowserInit => BrowserInv
  BY InitBrowserInv
<1>2. BrowserInv /\ [BrowserNext]_browserVars => BrowserInv'
  <2> SUFFICES ASSUME BrowserInv, [BrowserNext]_browserVars PROVE BrowserInv'
    OBVIOUS
  <2>1. CASE RotateSecret
    BY <2>1, RotateKeeps
  <2>2. ASSUME NEW t \in Tab, Use(t) PROVE BrowserInv'
    <3>1. uses' \in 0..MaxUses
      BY <2>2, BrowserAssumption DEF Use, BrowserInv, BrowserTypeOK
    <3>2. PICK route \in Choices(t), p \in Process : Handle(t, p, route)
      BY <2>2 DEF Use
    <3> QED BY <3>1, <3>2, ServeKeeps
  <2>3. ASSUME NEW t \in Tab, FollowRedirect(t) PROVE BrowserInv'
    <3>1. net[t].route \in Gets
      BY <2>3 DEF FollowRedirect, BrowserInv, BrowserTypeOK, Idle, Redirects, Follow, Responses
    <3>2. uses' \in 0..MaxUses
      BY <2>3 DEF FollowRedirect, BrowserInv, BrowserTypeOK
    <3>3. PICK p \in Process : Handle(t, p, net[t].route)
      BY <2>3 DEF FollowRedirect
    <3> QED BY <3>1, <3>2, <3>3, ServeKeeps
  <2>4. ASSUME NEW t \in Tab, Arrive(t) PROVE BrowserInv'
    BY <2>4, ArriveKeeps
  <2>5. CASE UNCHANGED browserVars
    BY <2>5
       DEF browserVars, rotation, browser, BrowserInv, BrowserTypeOK, RotationTypeOK, NotAhead,
           ResponsesFollow, LatestPageWorks, OneToken, OldPagesWork
  <2> QED BY <2>1, <2>2, <2>3, <2>4, <2>5 DEF BrowserNext
<1> QED BY <1>1, <1>2, PTL DEF BrowserSpec

\* Whatever was in flight for other tabs, the page that arrived last can be submitted.
THEOREM LatestPageStaysGood == BrowserSpec => []LatestPageWorks
<1>1. BrowserInv => LatestPageWorks
  BY DEF BrowserInv
<1> QED BY <1>1, BrowserInvariance, PTL

THEOREM PagesStayGood == BrowserSpec => []PagesKeepWorking
<1>1. BrowserInv => PagesKeepWorking
  BY DEF BrowserInv, PagesKeepWorking
<1> QED BY <1>1, BrowserInvariance, PTL
===================================================================================
