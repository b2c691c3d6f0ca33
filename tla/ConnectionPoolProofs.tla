--------------------------- MODULE ConnectionPoolProofs ---------------------------
(***********************************************************************************)
(* Theorems about ConnectionPool, for any number of requests and connections.      *)
(***********************************************************************************)
EXTENDS ConnectionPool, FiniteSetTheorems, TLAPS

\* A session holds a connection only within a transaction.
HeldAtWork == IsFiniteSet(held) /\ \A s \in held : at[s] \in {"limiting", "working", "answered"}

\* Handlers start when their request has published its event, and never before.
HandlersFollow ==
    \A r \in Request, h \in Handler : at[<<r, h>>] # "none" => at[Own(r)] \in {"publishing", "ended"}

\* Once the audit handler has started the request waits for its end, which leaves an
\* entry or a failure.
AuditAwaited ==
    \A r \in Request :
        /\ at[<<r, "audit">>] = "ended" => r \in audited \/ <<r, "audit">> \in faulted
        /\ at[<<r, "audit">>] # "none" /\ at[Own(r)] = "ended" => at[<<r, "audit">>] = "ended"

IInv == TypeOK /\ HeldAtWork /\ HandlersFollow /\ AuditAwaited

----------------------------------------------------------------------------------
\* The sessions of a request are its own and those of its handlers, all different.
LEMMA SessionsOf ==
    /\ \A r \in Request : Own(r) \in Session /\ Own(r)[1] = r
    /\ \A r \in Request, h \in Handler : <<r, h>> \in Session /\ <<r, h>> # Own(r) /\ <<r, h>>[1] = r
    /\ \A r, q \in Request, h \in Handler : <<r, h>> # Own(q)
    /\ \A r, q \in Request : Own(r) = Own(q) => r = q
    /\ \A s \in Session : s[1] \in Request /\ s = <<s[1], s[2]>> /\ (s = Own(s[1]) \/ s[2] \in Handler)
  BY DEF Session, Own, Handler

\* A pool that lends a connection to a session it had room for, or takes one back, is
\* not overdrawn.
LEMMA Lending ==
    ASSUME IsFiniteSet(held), held \subseteq Session, capacity \in Nat, NEW s \in Session,
           Cardinality(held) <= capacity
    PROVE  /\ IsFiniteSet(held \ {s}) /\ Cardinality(held \ {s}) <= capacity
           /\ HasRoom(s) => IsFiniteSet(held \cup {s}) /\ Cardinality(held \cup {s}) <= capacity
<1>1. Cardinality(held) \in Nat
  BY FS_CardinalityType
<1>2. IsFiniteSet(held \ {s}) /\ Cardinality(held \ {s}) <= Cardinality(held)
  BY FS_Subset, held \ {s} \in SUBSET held
<1>3. IsFiniteSet(held \ {s}) => Cardinality(held \ {s}) \in Nat
  BY FS_CardinalityType
<1>4. /\ IsFiniteSet(held \cup {s})
      /\ Cardinality(held \cup {s}) = IF s \in held THEN Cardinality(held) ELSE Cardinality(held) + 1
  BY FS_AddElement
<1> QED
  BY <1>1, <1>2, <1>3, <1>4 DEF HasRoom

\* One session moves on and keeps, returns or takes a connection: what that has to
\* respect for the invariant to hold again.
LEMMA OneMoves ==
    ASSUME IInv, NEW s \in Session, NEW to, at' = [at EXCEPT ![s] = to],
           to \in {"limited", "limiting", "working", "answered", "refused", "ended"},
           UNCHANGED <<capacity, kind, alive>>,
           at[s] # "none", at[s] \notin Over,
           \/ held' = held \ {s}
           \/ held' = held /\ to \in {"working", "answered"}
           \/ held' = held /\ s \notin held
           \/ held' = held \cup {s} /\ HasRoom(s) /\ to \in {"limiting", "working"},
           audited \subseteq audited', faulted \subseteq faulted',
           audited' \subseteq Request, faulted' \subseteq Session,
           at[s] = "publishing" => to = "ended" /\ Gathered(s[1]),
           s[2] = "audit" /\ to = "ended" => s[1] \in audited' \/ s \in faulted'
    PROVE  IInv'
<1>1. TypeOK'
  <2>1. at' \in [Session -> Waiting \cup Over \cup {"none", "limiting", "working", "answered", "publishing"}]
    BY DEF IInv, TypeOK, Waiting, Over
  <2>2. held' \subseteq Session /\ IsFiniteSet(held') /\ Cardinality(held') <= capacity
    BY Lending, PoolAssumption DEF IInv, TypeOK, HeldAtWork
  <2> QED
    BY <2>1, <2>2 DEF IInv, TypeOK
<1>2. HeldAtWork'
  <2>1. IsFiniteSet(held')
    BY Lending, PoolAssumption DEF IInv, TypeOK, HeldAtWork
  <2>2. ASSUME NEW c \in held' PROVE at'[c] \in {"limiting", "working", "answered"}
    BY <2>2 DEF IInv, TypeOK, HeldAtWork
  <2> QED
    BY <2>1, <2>2 DEF HeldAtWork
<1>3. HandlersFollow'
  <2> SUFFICES ASSUME NEW r \in Request, NEW h \in Handler, at'[<<r, h>>] # "none"
               PROVE  at'[Own(r)] \in {"publishing", "ended"}
    BY DEF HandlersFollow
  <2>1. at[<<r, h>>] # "none" /\ at[Own(r)] \in {"publishing", "ended"}
    BY SessionsOf DEF IInv, TypeOK, HandlersFollow
  <2> QED
    BY <2>1, SessionsOf DEF IInv, TypeOK, Over
<1>4. AuditAwaited'
  <2> SUFFICES ASSUME NEW r \in Request
               PROVE  /\ at'[<<r, "audit">>] = "ended" => r \in audited' \/ <<r, "audit">> \in faulted'
                      /\ at'[<<r, "audit">>] # "none" /\ at'[Own(r)] = "ended" => at'[<<r, "audit">>] = "ended"
    BY DEF AuditAwaited
  <2>a. "audit" \in Handler
    BY DEF Handler
  <2>1. CASE s = <<r, "audit">>
    BY <2>1, <2>a, SessionsOf DEF IInv, TypeOK, AuditAwaited, Over
  <2>2. CASE s = Own(r)
    <3>1. at'[<<r, "audit">>] = at[<<r, "audit">>]
      BY <2>2, <2>a, SessionsOf DEF IInv, TypeOK
    <3>2. at[<<r, "audit">>] # "none" => at[<<r, "audit">>] = "ended"
      <4> SUFFICES ASSUME at[<<r, "audit">>] # "none" PROVE at[<<r, "audit">>] = "ended"
        OBVIOUS
      <4>1. at[s] = "publishing"
        BY <2>2, <2>a DEF IInv, HandlersFollow, Over
      <4> QED
        BY <4>1, <2>2, <2>a, SessionsOf DEF Gathered
    <3> QED
      BY <3>1, <3>2 DEF IInv, AuditAwaited
  <2>3. CASE s # <<r, "audit">> /\ s # Own(r)
    BY <2>3, <2>a, SessionsOf DEF IInv, TypeOK, AuditAwaited
  <2> QED
    BY <2>1, <2>2, <2>3
<1> QED
  BY <1>1, <1>2, <1>3, <1>4 DEF IInv

----------------------------------------------------------------------------------
LEMMA InitIInv == Init => IInv
<1> SUFFICES ASSUME Init PROVE IInv
  OBVIOUS
<1>1. TypeOK
  <2>1. IsFiniteSet(held) /\ Cardinality(held) <= capacity
    BY FS_EmptySet, PoolAssumption DEF Init
  <2> QED
    BY <2>1 DEF Init, TypeOK, Waiting, Over
<1>2. HeldAtWork
  BY FS_EmptySet DEF Init, HeldAtWork
<1>3. HandlersFollow /\ AuditAwaited
  <2>1. \A r \in Request, h \in Handler : at[<<r, h>>] = "none"
    BY SessionsOf DEF Init, Handler
  <2> QED
    BY <2>1 DEF HandlersFollow, AuditAwaited, Handler
<1> QED
  BY <1>1, <1>2, <1>3 DEF IInv

\* The handlers start all at once, without a connection, when their request gives up its own.
LEMMA PublishIInv ==
    ASSUME IInv, NEW r \in Request, Publish(r)
    PROVE  IInv'
<1> USE DEF Publish, AfterCommit, Returned
<1>1. Own(r) \in Session /\ at[Own(r)] = "working" /\ \A h \in Handler : at[<<r, h>>] = "none"
  BY SessionsOf DEF IInv, HandlersFollow
<1>2. TypeOK'
  <2>1. at' \in [Session -> Waiting \cup Over \cup {"none", "limiting", "working", "answered", "publishing"}]
    BY DEF IInv, TypeOK, Waiting
  <2>2. held' \subseteq Session /\ Cardinality(held') <= capacity
    BY <1>1, Lending, PoolAssumption DEF IInv, TypeOK, HeldAtWork
  <2> QED
    BY <2>1, <2>2 DEF IInv, TypeOK
<1>3. HeldAtWork'
  <2>1. IsFiniteSet(held')
    BY <1>1, Lending, PoolAssumption DEF IInv, TypeOK, HeldAtWork
  <2>2. ASSUME NEW c \in held' PROVE at'[c] \in {"limiting", "working", "answered"}
    <3>1. c \in Session /\ c # Own(r) /\ at[c] \in {"limiting", "working", "answered"}
      BY DEF IInv, TypeOK, HeldAtWork
    <3>2. c[1] # r
      BY <3>1, <1>1, SessionsOf
    <3> QED
      BY <3>1, <3>2
  <2> QED
    BY <2>1, <2>2 DEF HeldAtWork
<1>4. HandlersFollow'
  <2> SUFFICES ASSUME NEW q \in Request, NEW h \in Handler, at'[<<q, h>>] # "none"
               PROVE  at'[Own(q)] \in {"publishing", "ended"}
    BY DEF HandlersFollow
  <2>1. CASE q = r
    BY <2>1, <1>1
  <2>2. CASE q # r
    BY <2>2, SessionsOf DEF IInv, HandlersFollow
  <2> QED
    BY <2>1, <2>2
<1>5. AuditAwaited'
  <2> SUFFICES ASSUME NEW q \in Request
               PROVE  /\ at'[<<q, "audit">>] = "ended" => q \in audited' \/ <<q, "audit">> \in faulted'
                      /\ at'[<<q, "audit">>] # "none" /\ at'[Own(q)] = "ended" => at'[<<q, "audit">>] = "ended"
    BY DEF AuditAwaited
  <2>a. "audit" \in Handler
    BY DEF Handler
  <2>1. CASE q = r
    BY <2>1, <2>a, <1>1, SessionsOf
  <2>2. CASE q # r
    BY <2>2, <2>a, SessionsOf DEF IInv, AuditAwaited
  <2> QED
    BY <2>1, <2>2
<1> QED
  BY <1>2, <1>3, <1>4, <1>5 DEF IInv

LEMMA NextIInv == IInv /\ [Next]_vars => IInv'
<1> SUFFICES ASSUME IInv, [Next]_vars PROVE IInv'
  OBVIOUS
<1> USE DEF Returned
<1>1. ASSUME NEW s \in Session, Acquire(s) PROVE IInv'
  <2> DEFINE to == IF at[s] = "arriving" /\ kind[s[1]].limited THEN "limiting" ELSE "working"
  <2>1. at' = [at EXCEPT ![s] = to] /\ to \in {"limiting", "working"}
    BY <1>1 DEF Acquire
  <2>2. at[s] \in Waiting /\ HasRoom(s) /\ held' = held \cup {s} /\ UNCHANGED <<capacity, kind, audited, faulted, alive>>
    BY <1>1 DEF Acquire
  <2> QED
    BY <2>1, <2>2, OneMoves DEF Waiting, Over, IInv, TypeOK
<1>2. ASSUME NEW r \in Request, Consult(r) PROVE IInv'
  <2>1. PICK verdict \in {"limited", "refused"} : at' = [at EXCEPT ![Own(r)] = verdict]
    BY <1>2 DEF Consult
  <2>2. /\ at[Own(r)] = "limiting" /\ held' = held \ {Own(r)}
        /\ UNCHANGED <<capacity, kind, audited, faulted, alive>>
    BY <1>2 DEF Consult
  <2>3. Own(r) \in Session /\ Own(r)[2] # "audit"
    BY SessionsOf DEF Own
  <2> QED
    BY <2>1, <2>2, <2>3, OneMoves DEF Over, IInv, TypeOK
<1>3. ASSUME NEW r \in Request, Refuse(r) PROVE IInv'
  <2>1. Own(r) \in Session /\ Own(r)[2] # "audit"
    BY SessionsOf DEF Own
  <2> QED
    BY <1>3, <2>1, OneMoves DEF Refuse, Over, IInv, TypeOK
<1>4. ASSUME NEW r \in Request, Publish(r) PROVE IInv'
  BY <1>4, PublishIInv
<1>5. ASSUME NEW r \in Request, Respond(r) PROVE IInv'
  <2>1. Own(r) \in Session /\ Own(r)[2] # "audit"
    BY SessionsOf DEF Own
  <2> QED
    BY <1>5, <2>1, OneMoves DEF Respond, Over, IInv, TypeOK
<1>6. ASSUME NEW r \in Request, Teardown(r) PROVE IInv'
  <2>1. Own(r) \in Session /\ Own(r)[2] # "audit"
    BY SessionsOf DEF Own
  <2> QED
    BY <1>6, <2>1, OneMoves DEF Teardown, Over, IInv, TypeOK
<1>7. ASSUME NEW r \in Request, NEW h \in Handler, HandlerReturns(<<r, h>>) PROVE IInv'
  <2> DEFINE s == <<r, h>>
  <2>1. s \in Session /\ s[1] = r /\ s[2] = h
    BY SessionsOf
  <2>2. /\ at[s] = "working" /\ at' = [at EXCEPT ![s] = "ended"] /\ held' = held \ {s}
        /\ audited' = IF h = "audit" THEN audited \cup {r} ELSE audited
        /\ UNCHANGED <<capacity, kind, faulted, alive>>
    BY <1>7 DEF HandlerReturns
  <2> QED
    BY <2>1, <2>2, OneMoves DEF Over, IInv, TypeOK
<1>8. ASSUME NEW r \in Request, PublishReturns(r) PROVE IInv'
  <2>1. Own(r) \in Session /\ Own(r)[2] # "audit" /\ Own(r)[1] = r
    BY SessionsOf DEF Own
  <2>2. /\ at[Own(r)] = "publishing" /\ Gathered(r) /\ at' = [at EXCEPT ![Own(r)] = "ended"]
        /\ UNCHANGED <<capacity, kind, held, audited, faulted, alive>>
    BY <1>8 DEF PublishReturns
  <2>3. Own(r) \notin held
    BY <2>2 DEF IInv, HeldAtWork
  <2> QED
    BY <2>1, <2>2, <2>3, OneMoves DEF Over, IInv, TypeOK
<1>9. ASSUME NEW s \in Session, Fails(s) PROVE IInv'
  <2>1. at[s] \in {"limiting", "working", "answered"} \cup Waiting
    BY <1>9 DEF Fails, IInv, HeldAtWork
  <2>2. /\ at' = [at EXCEPT ![s] = "ended"] /\ held' = held \ {s} /\ faulted' = faulted \cup {s}
        /\ UNCHANGED <<capacity, kind, audited, alive>>
    BY <1>9 DEF Fails, ClosedByFailure
  <2> QED
    BY <2>1, <2>2, OneMoves DEF Waiting, Over, IInv, TypeOK
<1>10. CASE Crash
  BY <1>10 DEF Crash, IInv, TypeOK, HeldAtWork, HandlersFollow, AuditAwaited
<1>11. CASE UNCHANGED vars
  BY <1>11 DEF vars, IInv, TypeOK, HeldAtWork, HandlersFollow, AuditAwaited
<1> QED
  BY <1>1, <1>2, <1>3, <1>4, <1>5, <1>6, <1>7, <1>8, <1>9, <1>10, <1>11
     DEF Next, Progress, Proceed, Done

LEMMA Invariance == Spec => []IInv
<1> QED
  BY InitIInv, NextIInv, PTL DEF Spec

----------------------------------------------------------------------------------
\* A pool of any size, under any number of requests of any kinds and any failures, is
\* neither overdrawn nor drained, and no request waits for handlers while it holds a
\* connection they may need.
THEOREM PoolStaysConsistent == Spec => []PoolConsistent
<1>1. IInv => PoolConsistent
  <2> SUFFICES ASSUME IInv PROVE PoolConsistent
    OBVIOUS
  <2>1. TypeOK
    BY DEF IInv
  <2>2. NobodyHoldsAndWaits
    BY DEF IInv, HeldAtWork, NobodyHoldsAndWaits
  <2>3. ConnectionsComeBack
    BY DEF IInv, HeldAtWork, ConnectionsComeBack, Over, Waiting
  <2> QED
    BY <2>1, <2>2, <2>3 DEF PoolConsistent
<1> QED
  BY <1>1, Invariance, PTL

\* gather keeps the handlers of every request apart: what becomes of the webhooks never
\* costs a change its audit entry.
THEOREM HandlersStayIsolated == Spec => []HandlersAreIsolated
<1>1. IInv => HandlersAreIsolated
  BY DEF IInv, AuditAwaited, HandlersAreIsolated
<1> QED
  BY <1>1, Invariance, PTL
===================================================================================
