------------------------------ MODULE WebhookDispatch ------------------------------
(***********************************************************************************)
(* The fan-out of one domain event to the subscribed webhook endpoints.  One       *)
(* coroutine per endpoint POSTs, records the attempt and retries; all of them      *)
(* share ONE database session, and an operator may update or delete endpoints      *)
(* meanwhile.  An attempt is a record [endpoint, attempt, answer].  What the name   *)
(* of an endpoint resolves to may be different at every lookup.                    *)
(***********************************************************************************)
EXTENDS Naturals, FiniteSets

CONSTANTS Endpoint,
          MaxAttempts,   \* settings.webhook_max_attempts
          MaxEdits,      \* bound: registrations, updates and deletes by the operator
          PrivateAllowed,  \* settings.private_targets_allowed
          Nobody

ASSUME DispatchAssumption ==
    PrivateAllowed \in BOOLEAN /\ MaxAttempts \in Nat \ {0} /\ MaxEdits \in Nat /\ Nobody \notin Endpoint

VARIABLES endpoint,    \* the endpoints table: "absent", "active", "inactive" or "deleted"
          deliveries,  \* the committed webhook_deliveries rows
          edits,       \* how many times the operator acted
          dispatch,    \* progress of dispatch_event
          targets,     \* the endpoints it read
          pinned,      \* the address pinned for each, if the guard pinned one
          contacted,   \* history: the addresses each was POSTed at
          co,          \* where each deliver coroutine is
          attempts,    \* POSTs made to each endpoint, or refusals by the guard
          answer,      \* outcome of the latest attempt
          flushing,    \* the coroutine inside session.flush(), if any
          batch,       \* the rows that flush is writing
          pending,     \* rows added to the session and not flushed
          inserted,    \* rows flushed and not committed
          broken       \* TRUE once a failed flush has rolled the transaction back

vars == <<endpoint, deliveries, edits, dispatch, targets, pinned, contacted, co, attempts, answer,
          flushing, batch, pending, inserted, broken>>
aim == <<targets, pinned, contacted>>
session == <<flushing, batch, pending, inserted, broken>>

Answers == {"ok",        \* 2xx
            "rejected",  \* 3xx and 4xx
            "retry",     \* 5xx or no answer at all
            "refused"}   \* by the SSRF guard, before any POST

Delivery == [endpoint: Endpoint, attempt: 1..MaxAttempts, answer: Answers]

Ended == {"committed", "failed", "crashed"}

----------------------------------------------------------------------------------
Init ==
    /\ endpoint \in [Endpoint -> {"absent", "active", "inactive"}]
    /\ deliveries = {} /\ edits = 0
    /\ dispatch = "scheduled" /\ targets = {}
    /\ pinned = [e \in Endpoint |-> "none"] /\ contacted = [e \in Endpoint |-> {}]
    /\ co = [e \in Endpoint |-> "idle"]
    /\ attempts = [e \in Endpoint |-> 0]
    /\ answer = [e \in Endpoint |-> "none"]
    /\ flushing = Nobody /\ batch = {} /\ pending = {} /\ inserted = {} /\ broken = FALSE

Row(e, n, a) == [endpoint |-> e, attempt |-> n, answer |-> a]

Address == {"public", "private"}

\* What one lookup of a name returns is checked as a whole; {} is a name unknown.
Safe(addresses) == addresses # {} /\ (PrivateAllowed \/ addresses = {"public"})

PinUnchecked(addresses) == IF addresses = {} THEN {"none"} ELSE addresses   \* faulty: checked at registration only
\* pin_target: one address of a safe lookup, the first as text.
pin_target(addresses) == IF Safe(addresses) THEN addresses ELSE {"none"}

\* The guard's verdict on every endpoint comes before any POST is answered, because
\* nothing is awaited before it.  The first refusal starts a flush, which makes the
\* flush of every further refusal raise.
Guard(refused) ==
    /\ attempts' = [e \in Endpoint |-> IF e \in refused THEN 1 ELSE 0]
    /\ answer' = [e \in Endpoint |-> IF e \in refused THEN "refused" ELSE "none"]
    /\ \E first \in IF refused = {} THEN {Nobody} ELSE refused :
        /\ flushing' = first
        /\ batch' = {Row(e, 1, "refused") : e \in refused \cap {first}}
        /\ pending' = {Row(e, 1, "refused") : e \in refused \ {first}}
        /\ co' = [e \in Endpoint |->
                     IF e = first THEN "flushing"
                     ELSE IF e \in refused THEN "abandoned"
                     ELSE IF e \in targets' THEN "posting" ELSE "idle"]

\* dispatch_event reads the active endpoints once; with none it returns at once.
\* Every coroutine runs up to its first POST before any of them is resumed.
Match ==
    /\ dispatch = "scheduled"
    /\ targets' = {e \in Endpoint : endpoint[e] = "active"}
    /\ dispatch' = IF targets' = {} THEN "committed" ELSE "running"
    /\ \E pin \in [targets' -> UNION {pin_target(addresses) : addresses \in SUBSET Address}] :
        /\ pinned' = [e \in Endpoint |-> IF e \in targets' THEN pin[e] ELSE "none"]
        /\ contacted' = [e \in Endpoint |-> {pinned'[e]} \ {"none"}]
        /\ Guard({e \in targets' : pin[e] = "none"})
    /\ UNCHANGED <<endpoint, deliveries, edits, inserted, broken>>

\* The attempt is added to the session and flushed.  A flush that starts while
\* another is in progress raises, and so does one on a rolled back transaction: the
\* coroutine ends there, its row stays in the session, gather keeps the exception.
Record(e, a) ==
    LET row == Row(e, attempts[e] + 1, a) IN
    /\ attempts' = [attempts EXCEPT ![e] = @ + 1]
    /\ answer' = [answer EXCEPT ![e] = a]
    /\ IF flushing = Nobody /\ ~broken
       THEN /\ co' = [co EXCEPT ![e] = "flushing"]
            /\ flushing' = e
            /\ batch' = pending \cup {row} /\ pending' = {}
       ELSE /\ co' = [co EXCEPT ![e] = "abandoned"]
            /\ pending' = pending \cup {row}
            /\ UNCHANGED <<flushing, batch>>
    /\ UNCHANGED <<endpoint, deliveries, edits, dispatch, aim, inserted, broken>>

\* The POST is answered, or times out.
Answered(e) ==
    /\ dispatch = "running" /\ co[e] = "posting"
    /\ \E a \in {"ok", "rejected", "retry"} : Record(e, a)

TargetResolvedAgain(e) == Address   \* faulty: the name is looked up for every attempt
Target(e) == {pinned[e]}

\* The backoff is over.  A rollback has expired the endpoint's attributes, and
\* reading them again on that session raises.
Wake(e) ==
    /\ dispatch = "running" /\ co[e] = "backoff"
    /\ co' = [co EXCEPT ![e] = IF broken THEN "abandoned" ELSE "posting"]
    /\ \E a \in Target(e) : contacted' = [contacted EXCEPT ![e] = IF broken THEN @ ELSE @ \cup {a}]
    /\ UNCHANGED <<endpoint, deliveries, edits, dispatch, targets, pinned, attempts, answer, session>>

RetriesAll(e) == attempts[e] < MaxAttempts   \* faulty: a delivered event is sent again
RetriesPastCap(e) == answer[e] = "retry" /\ attempts[e] <= MaxAttempts   \* faulty: one attempt too many
Retries(e) == answer[e] = "retry" /\ attempts[e] < MaxAttempts

\* Rows of an endpoint that is gone violate the foreign key.
Insertable(rows) == \A row \in rows : endpoint[row.endpoint] # "deleted"

\* The flush ends.  A violated foreign key rolls the whole transaction back.
FlushEnds(e) ==
    /\ dispatch = "running" /\ flushing = e
    /\ flushing' = Nobody /\ batch' = {}
    /\ IF Insertable(batch)
       THEN /\ inserted' = inserted \cup batch
            /\ co' = [co EXCEPT ![e] = IF Retries(e) THEN "backoff" ELSE "returned"]
            /\ UNCHANGED <<broken, pending>>
       ELSE /\ inserted' = {} /\ pending' = {} /\ broken' = TRUE
            /\ co' = [co EXCEPT ![e] = "abandoned"]
    /\ UNCHANGED <<endpoint, deliveries, edits, dispatch, aim, attempts, answer>>

\* asyncio.gather(return_exceptions=True) waits for every coroutine.
AllReturned == \A e \in targets : co[e] = "returned"   \* faulty: waits for failed ones
AnyRaised ==   \* faulty: the first exception ends the gather
    AllReturned \/ \E e \in targets : co[e] = "abandoned"
Gathered == \A e \in targets : co[e] \in {"returned", "abandoned"}

\* The rows the final commit writes: those flushed before, and those a coroutine left
\* behind, since commit flushes once more.
OnlyFlushed == inserted   \* faulty: rows of failed flushes are forgotten
CommitWrites == inserted \cup pending

Finish ==
    /\ dispatch = "running" /\ Gathered
    /\ IF ~broken /\ Insertable(CommitWrites)
       THEN dispatch' = "committed" /\ deliveries' = deliveries \cup CommitWrites
       ELSE dispatch' = "failed" /\ UNCHANGED deliveries
    /\ inserted' = {} /\ pending' = {}
    /\ UNCHANGED <<endpoint, edits, aim, co, attempts, answer, flushing, batch, broken>>

\* The process dies with its session.
Crash ==
    /\ dispatch \in {"scheduled", "running"}
    /\ dispatch' = "crashed"
    /\ flushing' = Nobody /\ batch' = {} /\ pending' = {} /\ inserted' = {}
    /\ UNCHANGED <<endpoint, deliveries, edits, aim, co, attempts, answer, broken>>

\* register_endpoint.  Its check of the URL says nothing of what the name resolves to when
\* an event is dispatched, so that any endpoint may have passed it.
Register(e) ==
    /\ edits < MaxEdits /\ endpoint[e] = "absent"
    /\ endpoint' = [endpoint EXCEPT ![e] = "active"]
    /\ edits' = edits + 1
    /\ UNCHANGED <<deliveries, dispatch, aim, co, attempts, answer, session>>

\* update_endpoint switches an endpoint on or off.
Toggle(e) ==
    /\ edits < MaxEdits /\ endpoint[e] \in {"active", "inactive"}
    /\ endpoint' = [endpoint EXCEPT ![e] = IF @ = "active" THEN "inactive" ELSE "active"]
    /\ edits' = edits + 1
    /\ UNCHANGED <<deliveries, dispatch, aim, co, attempts, answer, session>>

\* delete_endpoint, with its deliveries (cascade).  It waits for an open transaction
\* that has inserted rows referring to the endpoint.
DeleteUnlocked(e) == TRUE   \* faulty: no foreign key
DeleteAllowed(e) == \A row \in inserted : row.endpoint # e

DeleteEndpoint(e) ==
    /\ edits < MaxEdits /\ endpoint[e] \in {"active", "inactive"} /\ DeleteAllowed(e)
    /\ endpoint' = [endpoint EXCEPT ![e] = "deleted"]
    /\ deliveries' = {row \in deliveries : row.endpoint # e}
    /\ edits' = edits + 1
    /\ UNCHANGED <<dispatch, aim, co, attempts, answer, session>>

Done == dispatch \in Ended /\ UNCHANGED vars

Dispatcher == Match \/ Finish \/ \E e \in Endpoint : Answered(e) \/ Wake(e) \/ FlushEnds(e)

Next == Dispatcher \/ Crash \/ Done \/ \E e \in Endpoint : Register(e) \/ Toggle(e) \/ DeleteEndpoint(e)

Spec == Init /\ [][Next]_vars

\* Every POST has a timeout and the event loop runs what is ready.
FairSpec == Spec /\ WF_vars(Dispatcher)

----------------------------------------------------------------------------------
\* Every variable has its type.
TypeOK ==
    /\ endpoint \in [Endpoint -> {"absent", "active", "inactive", "deleted"}]
    /\ deliveries \subseteq Delivery /\ edits \in 0..MaxEdits
    /\ dispatch \in {"scheduled", "running"} \cup Ended
    /\ targets \subseteq Endpoint
    /\ pinned \in [Endpoint -> Address \cup {"none"}] /\ contacted \in [Endpoint -> SUBSET Address]
    /\ co \in [Endpoint -> {"idle", "posting", "flushing", "backoff", "returned", "abandoned"}]
    /\ attempts \in [Endpoint -> 0..MaxAttempts]
    /\ answer \in [Endpoint -> Answers \cup {"none"}]
    /\ flushing \in Endpoint \cup {Nobody}
    /\ batch \subseteq Delivery /\ pending \subseteq Delivery /\ inserted \subseteq Delivery
    /\ broken \in BOOLEAN

\* A dispatch that commits has recorded every attempt it made, those of coroutines
\* cut short by a colliding flush included.
CommittedIsComplete ==
    dispatch = "committed" =>
        \A e \in targets : endpoint[e] # "deleted" =>
            \A n \in 1..attempts[e] :
                \E row \in deliveries : row.endpoint = e /\ row.attempt = n

\* Whatever happens to its neighbours, every endpoint that was subscribed when the
\* dispatch began has been tried by the time the dispatch is over.
EveryTargetTried ==
    dispatch \in {"committed", "failed"} => \A e \in targets : attempts[e] > 0

\* No delivery row outlives its endpoint.
NoOrphanRows == \A row \in deliveries \cup inserted : endpoint[row.endpoint] # "deleted"

\* An endpoint that answered, with a success or a rejection, is never sent the event
\* again, and no answer is recorded after a final one.
FinalAnswerIsLast ==
    \A row \in deliveries \cup inserted \cup batch \cup pending :
        row.answer # "retry" => row.attempt = attempts[row.endpoint]

\* A dispatch always comes to an end.
DispatchEnds == dispatch = "running" ~> dispatch \in Ended

\* However a name resolves from one lookup to the next, an endpoint is only ever
\* contacted at the one address that was checked for this dispatch.
OnlyCheckedAddress ==
    \A e \in Endpoint :
        /\ contacted[e] \subseteq {pinned[e]}
        /\ ~PrivateAllowed => "private" \notin contacted[e]

\* The rows written for a dispatch are sound while endpoints come and go, no matter which
\* flush wrote them: typed, numbered within the attempts allowed, and never orphaned.
DeliveriesConsistent == TypeOK /\ NoOrphanRows
===================================================================================
