--------------------------- MODULE InboundReceiptProofs ---------------------------
(***********************************************************************************)
(* Theorems about InboundReceipt, for any number of requests and deliveries: what  *)
(* was acknowledged is recorded, and the receipt implements AtMostOnce.            *)
(***********************************************************************************)
EXTENDS InboundReceipt, FiniteSetTheorems, TLAPS

\* An id is locked exactly while the request that has inserted it has not committed, and
\* is not recorded then.
LocksAreInserts ==
    /\ \A d \in DeliveryId : lock[d] # NoOne => phase[lock[d]] = "flushed" /\ id[lock[d]] = d
    /\ \A r \in Request : phase[r] = "flushed" => lock[id[r]] = r /\ ~Recorded(id[r])

\* Only the request that recorded a delivery goes on to its audit entry, and once.
RecordersGoOn ==
    \A r \in Request :
        /\ phase[r] \in {"saved", "background"} \/ r \in audited => recordedBy[id[r]] = r
        /\ r \in audited => phase[r] = "done"

\* A request that is still working has not answered.
RepliesAreLast == \A r \in Request : reply[r] # "none" => phase[r] \in {"background", "done", "crashed"}

IInv == TypeOK /\ LocksAreInserts /\ RecordersGoOn /\ RepliesAreLast /\ AckedIsRecorded

----------------------------------------------------------------------------------
LEMMA InitIInv == Init => IInv
  BY InboundAssumption
     DEF Init, IInv, TypeOK, LocksAreInserts, RecordersGoOn, RepliesAreLast, AckedIsRecorded, Recorded

\* A step of one request that records nothing and takes no lock, though it may give its
\* own back, keeps the invariant if its answer is true.
LEMMA OneProceeds ==
    ASSUME IInv, NEW r \in Request, NEW p, NEW a,
           phase[r] \notin {"new", "done", "crashed"},
           phase' = [phase EXCEPT ![r] = p], reply' = [reply EXCEPT ![r] = a],
           p \in {"pending", "background", "done", "crashed"},
           a \in {"none", "limited", "unauthorized", "duplicate", "accepted", "error"},
           a # "none" => p # "pending",
           p = "background" => phase[r] = "saved",
           a \in {"duplicate", "accepted"} => Recorded(id[r]),
           UNCHANGED <<recordedBy, id>>,
           audited' = audited \/ (audited' = audited \cup {r} /\ phase[r] = "background" /\ p = "done"),
           lock' = Release(r) \/ (lock' = lock /\ phase[r] # "flushed")
    PROVE  IInv'
<1>1. TypeOK'
  <2>1. lock' \in [DeliveryId -> Request \cup {NoOne}]
    BY DEF IInv, TypeOK, Release
  <2>2. phase' \in [Request -> {"new", "reading", "pending", "flushed", "saved", "background", "done", "crashed"}]
    BY DEF IInv, TypeOK
  <2>3. reply' \in [Request -> {"none", "limited", "unauthorized", "duplicate", "accepted", "error"}]
    BY DEF IInv, TypeOK
  <2>4. \A q \in Request : id'[q] = NoId <=> phase'[q] = "new"
    BY DEF IInv, TypeOK
  <2> QED
    BY <2>1, <2>2, <2>3, <2>4 DEF IInv, TypeOK
<1>2. LocksAreInserts'
  <2>1. \A d \in DeliveryId : lock'[d] = lock[d] \/ (lock'[d] = NoOne /\ lock[d] = r)
    BY DEF IInv, TypeOK, Release
  <2>2. \A d \in DeliveryId : lock'[d] # r
    BY <2>1, InboundAssumption DEF IInv, TypeOK, LocksAreInserts, Release
  <2>3. \A q \in Request : phase[q] # "new" => id[q] \in DeliveryId
    BY DEF IInv, TypeOK
  <2>4. ASSUME NEW d \in DeliveryId, lock'[d] # NoOne
        PROVE  phase'[lock'[d]] = "flushed" /\ id'[lock'[d]] = d
    BY <2>1, <2>2, <2>4 DEF IInv, TypeOK, LocksAreInserts
  <2>5. ASSUME NEW q \in Request, phase'[q] = "flushed"
        PROVE  lock'[id'[q]] = q /\ ~Recorded(id[q])
    <3>1. q # r /\ phase[q] = "flushed"
      BY <2>5 DEF IInv, TypeOK
    <3> QED
      BY <3>1, <2>1, <2>3 DEF IInv, LocksAreInserts
  <2> QED
    BY <2>4, <2>5 DEF LocksAreInserts, Recorded
<1>3. RecordersGoOn'
  BY DEF IInv, TypeOK, RecordersGoOn
<1>4. RepliesAreLast' /\ AckedIsRecorded'
  BY DEF IInv, TypeOK, RepliesAreLast, AckedIsRecorded, Recorded
<1> QED
  BY <1>1, <1>2, <1>3, <1>4 DEF IInv

LEMMA ArriveIInv == ASSUME IInv, NEW r \in Request, Arrive(r) PROVE IInv'
<1>1. PICK d \in DeliveryId : id' = [id EXCEPT ![r] = d]
  BY DEF Arrive, Identified
<1>2. /\ phase[r] = "new" /\ UNCHANGED <<recordedBy, lock, audited>>
      /\ \/ phase' = [phase EXCEPT ![r] = "done"] /\ reply' = [reply EXCEPT ![r] = "limited"]
         \/ phase' = [phase EXCEPT ![r] = "reading"] /\ reply' = reply
  BY DEF Arrive, Answer, Continue
<1>3. \A q \in Request \ {r} : id'[q] = id[q] /\ phase'[q] = phase[q] /\ reply'[q] = reply[q]
  BY <1>1, <1>2 DEF IInv, TypeOK
<1>4. id'[r] = d /\ phase'[r] \in {"done", "reading"} /\ r \notin audited /\ \A c \in DeliveryId : lock[c] # r
  BY <1>1, <1>2, InboundAssumption DEF IInv, TypeOK, LocksAreInserts, RecordersGoOn
<1>5. TypeOK'
  BY <1>1, <1>2, <1>3, <1>4, InboundAssumption DEF IInv, TypeOK
<1>6. LocksAreInserts'
  BY <1>2, <1>3, <1>4 DEF IInv, TypeOK, LocksAreInserts, Recorded
<1>7. RecordersGoOn'
  BY <1>2, <1>3, <1>4 DEF IInv, TypeOK, RecordersGoOn
<1>8. RepliesAreLast' /\ AckedIsRecorded'
  BY <1>2, <1>3, <1>4 DEF IInv, TypeOK, RepliesAreLast, AckedIsRecorded, Recorded
<1> QED
  BY <1>5, <1>6, <1>7, <1>8 DEF IInv

LEMMA FlushIInv == ASSUME IInv, NEW r \in Request, Flush(r) PROVE IInv'
<1>1. phase[r] = "pending" /\ lock[id[r]] = NoOne /\ UNCHANGED <<recordedBy, id, audited>> /\ id[r] \in DeliveryId
  BY DEF Flush, IInv, TypeOK
<1>2. CASE ~Insertable(id[r])
  <2>1. phase' = [phase EXCEPT ![r] = "done"] /\ reply' = [reply EXCEPT ![r] = "error"] /\ lock' = lock
    BY <1>2 DEF Flush, Answer
  <2> QED
    BY <1>1, <2>1, OneProceeds
<1>3. CASE Insertable(id[r])
  <2>1. phase' = [phase EXCEPT ![r] = "flushed"] /\ reply' = reply /\ lock' = [lock EXCEPT ![id[r]] = r]
    BY <1>3 DEF Flush, Continue
  <2>2. \A q \in Request \ {r} : phase'[q] = phase[q]
    BY <2>1 DEF IInv, TypeOK
  <2>3. phase'[r] = "flushed" /\ lock'[id[r]] = r /\ \A c \in DeliveryId \ {id[r]} : lock'[c] = lock[c]
    BY <1>1, <2>1 DEF IInv, TypeOK
  <2>4. TypeOK'
    BY <1>1, <2>1, <2>2, <2>3 DEF IInv, TypeOK
  <2>5. LocksAreInserts'
    <3>1. ASSUME NEW d \in DeliveryId, lock'[d] # NoOne
          PROVE  phase'[lock'[d]] = "flushed" /\ id'[lock'[d]] = d
      BY <3>1, <1>1, <2>2, <2>3 DEF IInv, TypeOK, LocksAreInserts
    <3>2. ASSUME NEW q \in Request, phase'[q] = "flushed"
          PROVE  lock'[id'[q]] = q /\ ~Recorded(id[q])
      <4>1. CASE q = r
        BY <4>1, <1>1, <1>3, <2>3 DEF Insertable
      <4>2. CASE q # r
        <5>1. lock[id[q]] = q /\ id[q] \in DeliveryId /\ ~Recorded(id[q])
          BY <4>2, <3>2, <2>2 DEF IInv, TypeOK, LocksAreInserts
        <5> QED
          BY <5>1, <1>1, <2>3, InboundAssumption
      <4> QED
        BY <4>1, <4>2
    <3> QED
      BY <3>1, <3>2, <1>1 DEF LocksAreInserts, Recorded
  <2>6. RecordersGoOn' /\ RepliesAreLast' /\ AckedIsRecorded'
    BY <1>1, <2>1, <2>2, <2>3 DEF IInv, TypeOK, RecordersGoOn, RepliesAreLast, AckedIsRecorded, Recorded
  <2> QED
    BY <2>4, <2>5, <2>6 DEF IInv
<1> QED
  BY <1>2, <1>3

LEMMA CommitIInv == ASSUME IInv, NEW r \in Request, Commit(r) PROVE IInv'
<1>1. /\ phase[r] = "flushed" /\ lock[id[r]] = r /\ ~Recorded(id[r]) /\ id[r] \in DeliveryId
      /\ recordedBy' = [recordedBy EXCEPT ![id[r]] = r] /\ lock' = [lock EXCEPT ![id[r]] = NoOne]
      /\ phase' = [phase EXCEPT ![r] = "saved"] /\ UNCHANGED <<reply, id, audited>>
  BY DEF Commit, Continue, IInv, TypeOK, LocksAreInserts
<1>2. \A q \in Request \ {r} : phase'[q] = phase[q]
  BY <1>1 DEF IInv, TypeOK
<1>3. phase'[r] = "saved" /\ lock'[id[r]] = NoOne /\ recordedBy'[id[r]] = r
  BY <1>1 DEF IInv, TypeOK
<1>4. \A d \in DeliveryId \ {id[r]} : lock'[d] = lock[d] /\ recordedBy'[d] = recordedBy[d]
  BY <1>1 DEF IInv, TypeOK
<1>5. \A q \in Request : phase[q] # "new" => id[q] \in DeliveryId
  BY DEF IInv, TypeOK
<1>6. TypeOK'
  BY <1>1, <1>2, <1>3, <1>4 DEF IInv, TypeOK
<1>7. LocksAreInserts'
  <2>1. ASSUME NEW d \in DeliveryId, lock'[d] # NoOne
        PROVE  phase'[lock'[d]] = "flushed" /\ id'[lock'[d]] = d
    BY <2>1, <1>1, <1>2, <1>3, <1>4 DEF IInv, TypeOK, LocksAreInserts
  <2>2. ASSUME NEW q \in Request, phase'[q] = "flushed"
        PROVE  lock'[id'[q]] = q /\ recordedBy'[id'[q]] = NoOne
    <3>1. q # r /\ phase[q] = "flushed" /\ id[q] \in DeliveryId
      BY <2>2, <1>2, <1>3, <1>5
    <3>2. lock[id[q]] = q /\ recordedBy[id[q]] = NoOne /\ id[q] # id[r]
      BY <3>1, <1>1 DEF IInv, LocksAreInserts, Recorded
    <3> QED
      BY <3>1, <3>2, <1>1, <1>4
  <2> QED
    BY <2>1, <2>2 DEF LocksAreInserts, Recorded
<1>8. RecordersGoOn'
  <2> SUFFICES ASSUME NEW q \in Request
               PROVE  /\ phase'[q] \in {"saved", "background"} \/ q \in audited => recordedBy'[id[q]] = q
                      /\ q \in audited => phase'[q] = "done"
    BY <1>1 DEF RecordersGoOn
  <2>1. CASE q = r
    BY <2>1, <1>1, <1>3 DEF IInv, RecordersGoOn
  <2>2. CASE q # r
    <3>1. id[q] = id[r] => recordedBy[id[q]] = NoOne
      BY <1>1 DEF Recorded
    <3> QED
      BY <2>2, <3>1, <1>2, <1>4, <1>5, InboundAssumption DEF IInv, RecordersGoOn
  <2> QED
    BY <2>1, <2>2
<1>9. RepliesAreLast' /\ AckedIsRecorded'
  <2>1. \A d \in DeliveryId : Recorded(d) => recordedBy'[d] # NoOne
    BY <1>3, <1>4, InboundAssumption DEF Recorded
  <2>2. RepliesAreLast'
    BY <1>1, <1>2, <1>3 DEF IInv, RepliesAreLast
  <2>3. AckedIsRecorded'
    BY <1>1, <1>5, <2>1 DEF IInv, TypeOK, RepliesAreLast, AckedIsRecorded, Recorded
  <2> QED
    BY <2>2, <2>3
<1> QED
  BY <1>6, <1>7, <1>8, <1>9 DEF IInv

LEMMA NextIInv == IInv /\ [Next]_vars => IInv'
<1> SUFFICES ASSUME IInv, [Next]_vars PROVE IInv'
  OBVIOUS
<1>0. \A r \in Request : phase[r] \notin {"background", "done", "crashed"} => reply[r] = "none"
  BY DEF IInv, RepliesAreLast
<1>1. ASSUME NEW r \in Request, Arrive(r) PROVE IInv'
  BY <1>1, ArriveIInv
<1>2. ASSUME NEW r \in Request, Verify(r) PROVE IInv'
  <2>1. phase[r] = "reading" /\ UNCHANGED <<recordedBy, lock, id, audited>>
    BY <1>2 DEF Verify
  <2>2. CASE Continue(r, "pending")
    <3>1. reply' = [reply EXCEPT ![r] = "none"]
      BY <2>1, <2>2, <1>0 DEF Continue, IInv, TypeOK
    <3> QED
      BY <2>1, <2>2, <3>1, OneProceeds DEF Continue
  <2>3. ASSUME NEW a \in {"limited", "unauthorized", "duplicate"}, Answer(r, a), a = "duplicate" => Seen(id[r])
        PROVE  IInv'
    BY <2>1, <2>3, OneProceeds DEF Answer, Seen
  <2> QED
    BY <1>2, <2>2, <2>3 DEF Verify
<1>3. ASSUME NEW r \in Request, Flush(r) PROVE IInv'
  BY <1>3, FlushIInv
<1>4. ASSUME NEW r \in Request, Commit(r) PROVE IInv'
  BY <1>4, CommitIInv
<1>5. ASSUME NEW r \in Request, Respond(r) PROVE IInv'
  <2>1. phase[r] = "saved" /\ Recorded(id[r])
    BY <1>5, InboundAssumption DEF Respond, IInv, RecordersGoOn, Recorded
  <2> QED
    BY <1>5, <2>1, OneProceeds DEF Respond
<1>6. ASSUME NEW r \in Request, OnInboundWebhook(r) PROVE IInv'
  <2>1. phase[r] = "background" /\ Recorded(id[r])
    BY <1>6, InboundAssumption DEF OnInboundWebhook, IInv, RecordersGoOn, Recorded
  <2>2. reply' = [reply EXCEPT ![r] = reply[r]] /\ phase' = [phase EXCEPT ![r] = "done"]
    BY <1>6 DEF OnInboundWebhook, Continue, IInv, TypeOK
  <2>3. reply[r] \in {"none", "limited", "unauthorized", "duplicate", "accepted", "error"}
    BY DEF IInv, TypeOK
  <2> QED
    BY <1>6, <2>1, <2>2, <2>3, OneProceeds DEF OnInboundWebhook
<1>7. ASSUME NEW r \in Request, DatabaseFails(r) PROVE IInv'
  BY <1>7, OneProceeds DEF DatabaseFails, Answer
<1>8. ASSUME NEW r \in Request, Crash(r) PROVE IInv'
  <2>1. reply' = [reply EXCEPT ![r] = reply[r]] /\ phase' = [phase EXCEPT ![r] = "crashed"]
    BY <1>8 DEF Crash, Continue, IInv, TypeOK
  <2>2. reply[r] \in {"none", "limited", "unauthorized", "duplicate", "accepted", "error"}
    BY DEF IInv, TypeOK
  <2>3. reply[r] \in {"duplicate", "accepted"} => Recorded(id[r])
    BY DEF IInv, AckedIsRecorded
  <2> QED
    BY <1>8, <2>1, <2>2, <2>3, OneProceeds DEF Crash, InFlight
<1>9. CASE UNCHANGED vars
  BY <1>9 DEF vars, IInv, TypeOK, LocksAreInserts, RecordersGoOn, RepliesAreLast, AckedIsRecorded, Recorded
<1> QED
  BY <1>1, <1>2, <1>3, <1>4, <1>5, <1>6, <1>7, <1>8, <1>9 DEF Next, Serve, AllAnswered

LEMMA Invariance == Spec => []IInv
<1> QED
  BY InitIInv, NextIInv, PTL DEF Spec

\* A sender is told "accepted" or "duplicate" only of a delivery that is committed, in any
\* overlap of any number of its requests with any failures.
THEOREM ReceiptStaysConsistent == Spec => []ReceiptConsistent
<1>1. IInv => ReceiptConsistent
  BY DEF IInv, ReceiptConsistent
<1> QED
  BY <1>1, Invariance, PTL

----------------------------------------------------------------------------------
AuditOf(d) == {r \in audited : id[r] = d}

\* The first commit of a delivery is its recording, and the audit entry its recorder adds
\* is its first; every other step is invisible to the senders.
LEMMA StepRefines == IInv /\ [Next]_vars => [Promise!Next]_<<{d \in DeliveryId : Recorded(d)}, Entries>>
<1> SUFFICES ASSUME IInv, [Next]_vars
             PROVE  \/ Promise!Next
                    \/ {d \in DeliveryId : Recorded(d)}' = {d \in DeliveryId : Recorded(d)} /\ Entries' = Entries
  OBVIOUS
<1>1. ASSUME UNCHANGED <<recordedBy, audited>>, \A d \in DeliveryId : AuditOf(d)' = AuditOf(d)
      PROVE  {d \in DeliveryId : Recorded(d)}' = {d \in DeliveryId : Recorded(d)} /\ Entries' = Entries
  BY <1>1 DEF Recorded, Entries, AuditOf
<1>2. ASSUME NEW r \in Request, Arrive(r)
      PROVE  UNCHANGED <<recordedBy, audited>> /\ \A d \in DeliveryId : AuditOf(d)' = AuditOf(d)
  <2>1. PICK d \in DeliveryId : id' = [id EXCEPT ![r] = d]
    BY <1>2 DEF Arrive, Identified
  <2>2. r \notin audited /\ UNCHANGED <<recordedBy, audited>>
    BY <1>2 DEF Arrive, IInv, RecordersGoOn
  <2> QED
    BY <2>1, <2>2 DEF IInv, TypeOK, AuditOf
<1>3. ASSUME NEW r \in Request, Commit(r) PROVE Promise!Next
  <2>1. /\ ~Recorded(id[r]) /\ id[r] \in DeliveryId /\ recordedBy' = [recordedBy EXCEPT ![id[r]] = r]
        /\ UNCHANGED <<id, audited>>
    BY <1>3 DEF Commit, IInv, TypeOK, LocksAreInserts
  <2>2. {d \in DeliveryId : Recorded(d)}' = {d \in DeliveryId : Recorded(d)} \cup {id[r]}
    BY <2>1, InboundAssumption DEF IInv, TypeOK, Recorded
  <2>3. Entries' = Entries
    BY <2>1 DEF Entries
  <2>4. Promise!Record(id[r])
    BY <2>1, <2>2, <2>3 DEF Promise!Record
  <2> QED
    BY <2>1, <2>4 DEF Promise!Next
<1>4. ASSUME NEW r \in Request, OnInboundWebhook(r), audited' = audited \cup {r} PROVE Promise!Next
  <2>1. /\ phase[r] = "background" /\ recordedBy[id[r]] = r /\ id[r] \in DeliveryId /\ r \notin audited
        /\ UNCHANGED <<recordedBy, id>>
    BY <1>4 DEF OnInboundWebhook, IInv, TypeOK, RecordersGoOn
  <2>2. AuditOf(id[r]) = {} /\ {q \in audited' : id'[q] = id[r]} = {r}
    BY <1>4, <2>1 DEF AuditOf, IInv, TypeOK, RecordersGoOn
  <2>3. Entries[id[r]] = 0
    BY <2>1, <2>2, FS_EmptySet DEF Entries, AuditOf
  <2>4. Entries' = [Entries EXCEPT ![id[r]] = 1]
    <3>1. Cardinality({q \in audited' : id'[q] = id[r]}) = 1
      BY <2>2, FS_Singleton
    <3>2. \A d \in DeliveryId \ {id[r]} : {q \in audited' : id'[q] = d} = {q \in audited : id[q] = d}
      BY <1>4, <2>1
    <3> QED
      BY <3>1, <3>2 DEF Entries
  <2>5. Recorded(id[r]) /\ {d \in DeliveryId : Recorded(d)}' = {d \in DeliveryId : Recorded(d)}
    BY <2>1, InboundAssumption DEF Recorded
  <2>6. Promise!Audit(id[r])
    BY <2>1, <2>3, <2>4, <2>5 DEF Promise!Audit
  <2> QED
    BY <2>1, <2>6 DEF Promise!Next
<1>5. ASSUME UNCHANGED <<recordedBy, audited, id>>
      PROVE  UNCHANGED <<recordedBy, audited>> /\ \A d \in DeliveryId : AuditOf(d)' = AuditOf(d)
  BY <1>5 DEF AuditOf
<1>6. ASSUME NEW r \in Request, Verify(r) \/ Flush(r) \/ Respond(r) \/ DatabaseFails(r) \/ Crash(r)
      PROVE  UNCHANGED <<recordedBy, audited, id>>
  BY <1>6 DEF Verify, Flush, Respond, DatabaseFails, Crash
<1>7. ASSUME NEW r \in Request, OnInboundWebhook(r)
      PROVE  audited' = audited \cup {r} \/ UNCHANGED <<recordedBy, audited, id>>
  BY <1>7 DEF OnInboundWebhook
<1> QED
  BY <1>1, <1>2, <1>3, <1>4, <1>5, <1>6, <1>7 DEF Next, Serve, AllAnswered, vars

\* Any number of overlapping, repeated, failing and crashing requests record a delivery
\* once and give it at most one audit entry, after it is recorded.
THEOREM ReceiptIsAtMostOnce == Spec => ImplementsAtMostOnce
<1>1. Init => Promise!Init
  <2> SUFFICES ASSUME Init PROVE Promise!Init
    OBVIOUS
  <2>1. {d \in DeliveryId : Recorded(d)} = {}
    BY DEF Init, Recorded
  <2>2. \A d \in DeliveryId : {r \in audited : id[r] = d} = {}
    BY DEF Init
  <2>3. Entries = [d \in DeliveryId |-> 0]
    BY <2>2, FS_EmptySet DEF Entries
  <2> QED
    BY <2>1, <2>3 DEF Promise!Init
<1> QED
  BY <1>1, StepRefines, Invariance, PTL DEF Spec, ImplementsAtMostOnce, Promise!Spec
===================================================================================
