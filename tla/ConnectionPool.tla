------------------------------ MODULE ConnectionPool ------------------------------
(***********************************************************************************)
(* The sessions of one process over its pool of database connections: a request's   *)
(* own session, and the sessions its event handlers open in the background, one of  *)
(* which stays open for as long as webhooks are being delivered.  A session takes a *)
(* connection with its first statement and gives it back when it commits, rolls     *)
(* back or closes; with none free it waits.                                         *)
(***********************************************************************************)
EXTENDS Naturals, FiniteSets

\* Whether the limiter is consulted, and whether the operation announces an event: a
\* status change is [FALSE, TRUE], an inbound delivery [TRUE, TRUE], a sign-in
\* [TRUE, FALSE], every other route and the readiness probe [FALSE, FALSE].
Kind == [limited: BOOLEAN, announces: BOOLEAN]

CONSTANTS Request,
          Capacities,  \* values of database_pool_size + database_max_overflow
          Kinds        \* bound: the kinds of request that arrive

ASSUME PoolAssumption == IsFiniteSet(Request) /\ Capacities \subseteq Nat \ {0} /\ Kinds \subseteq Kind

VARIABLES capacity,  \* the size of the pool
          kind,      \* the kind of each request
          at,        \* where each session is
          held,      \* the sessions that hold a connection
          audited,   \* the requests whose event has its audit entry
          faulted,   \* history: the sessions the database or the pool has failed
          alive      \* FALSE once the process is gone

vars == <<capacity, kind, at, held, audited, faulted, alive>>

Handler == {"webhooks", "audit"}
Session == Request \X ({"request"} \cup Handler)
Own(r) == <<r, "request">>

Waiting == {"arriving", "limited", "scheduled"}   \* about to execute a first statement
Over == {"refused", "ended"}

Init ==
    /\ capacity \in Capacities
    /\ kind \in [Request -> Kinds]
    /\ at = [s \in Session |-> IF s[2] = "request" THEN "arriving" ELSE "none"]
    /\ held = {} /\ audited = {} /\ faulted = {} /\ alive = TRUE

Returned(s) == held \ {s}

----------------------------------------------------------------------------------
AcquireAlways(s) == TRUE   \* faulty: the pool grows beyond its overflow
HasRoom(s) == Cardinality(held) < capacity

\* The first statement of a transaction checks a connection out of the pool.
Acquire(s) ==
    /\ at[s] \in Waiting /\ HasRoom(s)
    /\ held' = held \cup {s}
    /\ at' = [at EXCEPT ![s] = IF @ = "arriving" /\ kind[s[1]].limited THEN "limiting" ELSE "working"]
    /\ UNCHANGED <<capacity, kind, audited, faulted, alive>>

\* consult: the counter is committed at once, which ends the limiter's transaction; the
\* request goes on in a new one, or is refused.
Consult(r) ==
    /\ at[Own(r)] = "limiting"
    /\ \E verdict \in {"limited", "refused"} : at' = [at EXCEPT ![Own(r)] = verdict]
    /\ held' = Returned(Own(r))
    /\ UNCHANGED <<capacity, kind, audited, faulted, alive>>

\* The operation ends without a change: an AppError, or the probe closing its session.
Refuse(r) ==
    /\ at[Own(r)] = "working"
    /\ at' = [at EXCEPT ![Own(r)] = "refused"]
    /\ held' = Returned(Own(r))
    /\ UNCHANGED <<capacity, kind, audited, faulted, alive>>

HeldAtPublish(r) == held   \* faulty: the commit is left to the teardown
AfterCommit(r) == Returned(Own(r))

\* publish_after_commit, the response, and the start of the background task, which
\* starts all handlers.
Publish(r) ==
    /\ at[Own(r)] = "working" /\ kind[r].announces
    /\ at' = [s \in Session |-> IF s = Own(r) THEN "publishing"
                                ELSE IF s[1] = r THEN "scheduled" ELSE at[s]]
    /\ held' = AfterCommit(r)
    /\ UNCHANGED <<capacity, kind, audited, faulted, alive>>

\* Any other operation, and one that found nothing to announce, is answered first and
\* keeps its connection until the teardown.
Respond(r) ==
    /\ at[Own(r)] = "working"
    /\ at' = [at EXCEPT ![Own(r)] = "answered"]
    /\ UNCHANGED <<capacity, kind, held, audited, faulted, alive>>

Teardown(r) ==
    /\ at[Own(r)] = "answered"
    /\ at' = [at EXCEPT ![Own(r)] = "ended"]
    /\ held' = Returned(Own(r))
    /\ UNCHANGED <<capacity, kind, audited, faulted, alive>>

\* A handler commits and closes its session: the audit entry is written; no endpoint was
\* subscribed, or all POSTs are answered or timed out and the attempts are recorded.
HandlerReturns(s) ==
    /\ s[2] \in Handler /\ at[s] = "working"
    /\ at' = [at EXCEPT ![s] = "ended"]
    /\ held' = Returned(s)
    /\ audited' = IF s[2] = "audit" THEN audited \cup {s[1]} ELSE audited
    /\ UNCHANGED <<capacity, kind, faulted, alive>>

GatheredFirstError(r) ==   \* faulty: the first exception ends the gather
    \/ \A h \in Handler : at[<<r, h>>] = "ended"
    \/ \E h \in Handler : <<r, h>> \in faulted
Gathered(r) == \A h \in Handler : at[<<r, h>>] = "ended"

\* publish returns; the commit of the teardown finds no transaction.
PublishReturns(r) ==
    /\ at[Own(r)] = "publishing" /\ Gathered(r)
    /\ at' = [at EXCEPT ![Own(r)] = "ended"]
    /\ UNCHANGED <<capacity, kind, held, audited, faulted, alive>>

NotReturned(s) == held   \* faulty: a failed session is not closed
ClosedByFailure(s) == Returned(s)

\* A statement or a commit fails; or the pool's timeout passes while none is free.
Fails(s) ==
    /\ s \in held \/ (at[s] \in Waiting /\ ~HasRoom(s))
    /\ at' = [at EXCEPT ![s] = "ended"]
    /\ held' = ClosedByFailure(s)
    /\ faulted' = faulted \cup {s}
    /\ UNCHANGED <<capacity, kind, audited, alive>>

\* The process dies, and with it every session and background task.
Crash == alive' = FALSE /\ UNCHANGED <<capacity, kind, at, held, audited, faulted>>

Finished == \A s \in Session : at[s] \in Over \cup {"none"}
Done == (Finished \/ ~alive) /\ UNCHANGED vars

Proceed(r) ==
    \/ Consult(r) \/ Refuse(r) \/ Publish(r) \/ Respond(r) \/ Teardown(r) \/ PublishReturns(r)
    \/ \E h \in Handler : HandlerReturns(<<r, h>>)

Progress == (\E r \in Request : Proceed(r)) \/ \E s \in Session : Acquire(s)

Next == (alive /\ (Progress \/ Crash \/ \E s \in Session : Fails(s))) \/ Done

Spec == Init /\ [][Next]_vars

\* The event loop runs what is ready, and statements and POSTs come to an end.  Neither
\* a failure nor the timeout of the pool is needed to make progress.
FairSpec == Spec /\ WF_vars(alive /\ Progress)

----------------------------------------------------------------------------------
\* Every variable has its type, and the pool is never overdrawn.
TypeOK ==
    /\ capacity \in Capacities /\ kind \in [Request -> Kinds]
    /\ at \in [Session -> Waiting \cup Over \cup {"none", "limiting", "working", "answered", "publishing"}]
    /\ held \subseteq Session /\ Cardinality(held) <= capacity
    /\ audited \subseteq Request /\ faulted \subseteq Session /\ alive \in BOOLEAN

\* A request whose handlers still need connections holds none itself: publish_after_commit
\* has ended its transaction, or handlers would wait for what only their end releases.
NobodyHoldsAndWaits ==
    \A r \in Request : at[Own(r)] = "publishing" => Own(r) \notin held

\* A session that is over has given its connection back, also when it failed.
ConnectionsComeBack == \A s \in held : at[s] \notin Over \cup Waiting \cup {"none"}

\* A request with an event is over only when its change is in the audit trail, whatever
\* became of the webhooks, unless the audit handler itself was failed by the database.
HandlersAreIsolated ==
    \A r \in Request :
        at[Own(r)] = "ended" /\ at[<<r, "audit">>] # "none" =>
            r \in audited \/ <<r, "audit">> \in faulted

\* With a pool of any size, and however many webhooks are being delivered, every request
\* comes to its end without a timeout.
EveryRequestEnds == \A r \in Request : []<>(at[Own(r)] \in Over \/ ~alive)

\* However sessions overlap and fail, the pool is neither overdrawn nor drained, and no
\* request holds a connection that its own handlers may be waiting for.
PoolConsistent == TypeOK /\ NobodyHoldsAndWaits /\ ConnectionsComeBack
===================================================================================
