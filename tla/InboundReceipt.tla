------------------------------ MODULE InboundReceipt ------------------------------
(***********************************************************************************)
(* POST /webhooks/inbound: signed deliveries of third parties, each identified by  *)
(* the sender's delivery id, which is the primary key.  A sender that hears no     *)
(* answer sends again, so requests for one delivery overlap, wait for each other   *)
(* in the database, fail and crash independently.                                  *)
(***********************************************************************************)
EXTENDS Naturals, FiniteSets

CONSTANTS Request, DeliveryId,
          Faults,   \* whether the database may fail and processes may die
          NoOne, NoId

ASSUME InboundAssumption ==
    Faults \in BOOLEAN /\ NoOne \notin Request /\ NoId \notin DeliveryId

VARIABLES recordedBy,  \* the committed inbound_deliveries, by the request that inserted each
          lock,        \* the open transaction that has inserted each id
          phase,       \* where the handler of each request is
          id,          \* the delivery it carries
          reply,       \* the response sent
          audited      \* the requests whose event has its row in audit_events

vars == <<recordedBy, lock, phase, id, reply, audited>>

Recorded(d) == recordedBy[d] # NoOne

InFlight(r) == phase[r] \notin {"new", "done", "crashed"}

Answer(r, a) ==
    /\ phase' = [phase EXCEPT ![r] = "done"]
    /\ reply' = [reply EXCEPT ![r] = a]

Continue(r, p) == phase' = [phase EXCEPT ![r] = p] /\ UNCHANGED reply

----------------------------------------------------------------------------------
Init ==
    /\ recordedBy = [d \in DeliveryId |-> NoOne]
    /\ lock = [d \in DeliveryId |-> NoOne]
    /\ phase = [r \in Request |-> "new"]
    /\ id = [r \in Request |-> NoId]
    /\ reply = [r \in Request |-> "none"]
    /\ audited = {}

NotIdentified(r, d) == UNCHANGED id   \* faulty: the delivery header is not kept
Identified(r, d) == id' = [id EXCEPT ![r] = d]

\* A request arrives and the limiter is consulted (which commits its own counter).
Arrive(r) ==
    /\ phase[r] = "new"
    /\ \E d \in DeliveryId : Identified(r, d)
    /\ Answer(r, "limited") \/ Continue(r, "reading")
    /\ UNCHANGED <<recordedBy, lock, audited>>

\* session.get sees committed rows only.
SeenDirty(d) == Recorded(d) \/ lock[d] # NoOne   \* faulty: an open insert counts as recorded
Seen(d) == Recorded(d)

\* The body has arrived: its size, its timestamp and its signature are checked and
\* the id is looked up.
Verify(r) ==
    /\ phase[r] = "reading"
    /\ \/ Answer(r, "limited")        \* more than 1 MiB
       \/ Answer(r, "unauthorized")   \* not configured, stale or not signed
       \/ Seen(id[r]) /\ Answer(r, "duplicate")
       \/ ~Seen(id[r]) /\ Continue(r, "pending")
    /\ UNCHANGED <<recordedBy, lock, id, audited>>

Unchecked(d) == TRUE   \* faulty: the id is not a primary key
Insertable(d) == ~Recorded(d)

\* The INSERT waits for an open insert of the same id.  If that one has committed, the
\* primary key is violated, and nothing turns an IntegrityError into an answer but 500.
Flush(r) ==
    /\ phase[r] = "pending" /\ lock[id[r]] = NoOne
    /\ IF Insertable(id[r])
       THEN lock' = [lock EXCEPT ![id[r]] = r] /\ Continue(r, "flushed")
       ELSE Answer(r, "error") /\ UNCHANGED lock
    /\ UNCHANGED <<recordedBy, id, audited>>

\* publish_after_commit.
Commit(r) ==
    /\ phase[r] = "flushed"
    /\ recordedBy' = [recordedBy EXCEPT ![id[r]] = r]
    /\ lock' = [lock EXCEPT ![id[r]] = NoOne]
    /\ Continue(r, "saved")
    /\ UNCHANGED <<id, audited>>

\* The 202 is sent, then the background task of this request runs.
Respond(r) ==
    /\ phase[r] = "saved"
    /\ phase' = [phase EXCEPT ![r] = "background"]
    /\ reply' = [reply EXCEPT ![r] = "accepted"]
    /\ UNCHANGED <<recordedBy, lock, id, audited>>

\* audit.on_inbound_webhook inserts and commits in a session of its own; a failure is
\* logged by the bus and changes nothing.
OnInboundWebhook(r) ==
    /\ phase[r] = "background"
    /\ audited' = audited \cup {r} \/ (Faults /\ UNCHANGED audited)
    /\ Continue(r, "done")
    /\ UNCHANGED <<recordedBy, lock, id>>

\* The rollback of a transaction that does not commit.
ReleaseNothing(r) == lock   \* faulty: the id stays locked
Release(r) == [d \in DeliveryId |-> IF lock[d] = r THEN NoOne ELSE lock[d]]

DatabaseFails(r) ==
    /\ Faults /\ phase[r] \in {"reading", "pending", "flushed"}
    /\ lock' = Release(r)
    /\ Answer(r, "error")
    /\ UNCHANGED <<recordedBy, id, audited>>

Crash(r) ==
    /\ Faults /\ InFlight(r)
    /\ lock' = Release(r)
    /\ Continue(r, "crashed")
    /\ UNCHANGED <<recordedBy, id, audited>>

AllAnswered == (\A r \in Request : phase[r] \in {"done", "crashed"}) /\ UNCHANGED vars

Serve(r) == Verify(r) \/ Flush(r) \/ Commit(r) \/ Respond(r) \/ OnInboundWebhook(r)

Next ==
    \/ \E r \in Request : Arrive(r) \/ Serve(r) \/ DatabaseFails(r) \/ Crash(r)
    \/ AllAnswered

Spec == Init /\ [][Next]_vars

\* The body of a request arrives or its connection is dropped; what can run does.
FairSpec == Spec /\ \A r \in Request : WF_vars(Serve(r))

----------------------------------------------------------------------------------
\* Every variable has its type.
TypeOK ==
    /\ recordedBy \in [DeliveryId -> Request \cup {NoOne}]
    /\ lock \in [DeliveryId -> Request \cup {NoOne}]
    /\ phase \in [Request -> {"new", "reading", "pending", "flushed", "saved",
                              "background", "done", "crashed"}]
    /\ id \in [Request -> DeliveryId \cup {NoId}]
    /\ \A r \in Request : id[r] = NoId <=> phase[r] = "new"
    /\ reply \in [Request -> {"none", "limited", "unauthorized", "duplicate", "accepted", "error"}]
    /\ audited \subseteq Request

\* A sender told "accepted" or "duplicate" may stop sending: its delivery is committed,
\* whichever of its overlapping requests did it and however the others end.
AckedIsRecorded ==
    \A r \in Request : reply[r] \in {"accepted", "duplicate"} => Recorded(id[r])

\* Every delivery a sender has sent is answered or lost with its process.
EveryDeliveryEnds ==
    \A r \in Request : InFlight(r) ~> phase[r] \in {"done", "crashed"}

\* "A retry collides on insert and returns 200 `duplicate`": with nothing failing, a
\* genuine delivery is never answered with an error.
DuplicateIsAcknowledged == \A r \in Request : reply[r] # "error"

Entries == [d \in DeliveryId |-> Cardinality({r \in audited : id[r] = d})]

Promise == INSTANCE AtMostOnce
    WITH recorded <- {d \in DeliveryId : Recorded(d)}, entries <- Entries

\* Overlapping, repeated, failing and crashing requests together behave as a receipt
\* that records a delivery once and audits it at most once, after it is committed.
ImplementsAtMostOnce == Promise!Spec

\* Whatever overlaps, fails or dies, the answers a sender has had agree with the rows
\* that are committed.
ReceiptConsistent == TypeOK /\ AckedIsRecorded
===================================================================================
