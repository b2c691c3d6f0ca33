------------------------------- MODULE ItemsProofs -------------------------------
(***********************************************************************************)
(* Theorems about Items, for any number of requests, users and items.              *)
(***********************************************************************************)
EXTENDS Items, TLAPS

\* A request past its read knows what it was asked, a delete never flushes, and a status
\* change is not left to the teardown.
CallKnown ==
    \A r \in Request :
        /\ phase[r] # "new" => call[r] \in Call
        /\ phase[r] = "marked" => call[r].op = "delete"
        /\ phase[r] = "open" => call[r].op # "status"

\* A request whose transaction is open and has written its row.
HasWritten(r) == phase[r] \in {"flushed", "open"} /\ call[r].op # "delete"

\* An open transaction holds the lock of the row it has written, and the row is
\* still as its statement found it.
WritesLocked ==
    \A r \in Request : HasWritten(r) =>
        /\ lock[call[r].item] = r
        /\ StatementFits(r, db[call[r].item])

\* A status change that survived its read is never to "draft".
MovesForward ==
    \A r \in Request :
        phase[r] \in {"pending", "flushed", "open"} /\ call[r].op = "status" => call[r].arg # "draft"

\* Events exist only after the commit, and a transaction commits at most once.
CommitHistory ==
    \A r \in Request :
        /\ phase[r] \in {"saved", "background"} \/ running[r] # {} \/ delivered[r] # {}
               => r \in committed
        /\ r \in committed => phase[r] \in {"saved", "background", "done", "crashed"}

IInv ==
    /\ TypeOK
    /\ CallKnown
    /\ WritesLocked
    /\ MovesForward
    /\ CommitHistory
    /\ ArchivedIsStamped

----------------------------------------------------------------------------------
\* The statement of a request produces a row of the table's type, and stamps a row
\* it archives.
LEMMA WrittenType ==
    ASSUME NEW r \in Request, call[r] \in Call, NEW x \in Row \cup {NoRow},
           call[r].op \in {"edit", "status"} => x # NoRow
    PROVE  /\ Written(r, x) \in Row \cup {NoRow}
           /\ (x # NoRow /\ IsTerminal(x.status) => x.archivedAt = "stamped")
                => (Written(r, x) # NoRow /\ IsTerminal(Written(r, x).status)
                        => Written(r, x).archivedAt = "stamped")
           /\ call[r].op \in Creates => Written(r, x) # NoRow
           /\ call[r].op = "delete" => Written(r, x) = NoRow
<1>1. CASE call[r].op \in Creates
  <2>1. Written(r, x) = [status |-> "draft", archivedAt |-> "null",
                         owner |-> call[r].viewer, text |-> call[r].arg]
    BY <1>1 DEF Written, Created
  <2>2. call[r].viewer \in User /\ call[r].arg \in Text
    BY <1>1 DEF Call, Creates
  <2>3. Written(r, x) \in Row /\ Written(r, x).status = "draft"
    BY <2>1, <2>2 DEF Row, Status
  <2>4. call[r].op # "delete"
    BY <1>1 DEF Creates
  <2>5. QED
    BY <2>3, <2>4, ConstantsAssumption DEF IsTerminal
<1>2. CASE call[r].op = "edit"
  <2>1. x \in Row /\ call[r].arg \in Text
    BY <1>2 DEF Call
  <2>2. Written(r, x) = [x EXCEPT !.text = call[r].arg]
    BY <1>2 DEF Written, Edited, Creates
  <2>3. QED
    BY <1>2, <2>1, <2>2 DEF Row, Creates
<1>3. CASE call[r].op = "status"
  <2>1. x \in Row /\ call[r].arg \in Status
    BY <1>3 DEF Call, Creates
  <2>2. Written(r, x) =
           [x EXCEPT !.status = call[r].arg,
                     !.archivedAt = IF IsTerminal(call[r].arg) THEN "stamped" ELSE @]
    BY <1>3 DEF Written, Moved, Creates
  <2>3. QED
    BY <1>3, <2>1, <2>2 DEF Row, Creates, IsTerminal
<1>4. CASE call[r].op = "delete"
  BY <1>4 DEF Written, Creates
<1>5. QED
  BY <1>1, <1>2, <1>3, <1>4 DEF Call, Creates

\* The commit of a transaction whose row is locked, or that only deletes, keeps the
\* table well typed and stamped and every other transaction's row as it was.
LEMMA CommitRowStep ==
    ASSUME IInv, NEW r \in Request, NEW p \in {"saved", "done"},
           phase[r] \in {"flushed", "open"},
           lock[call[r].item] \in {r, NoOne},
           phase' = [phase EXCEPT ![r] = p],
           call' = call, CommitRow(r)
    PROVE  /\ db' \in [ItemId -> Row \cup {NoRow}]
           /\ lock' \in [ItemId -> Request \cup {NoOne}]
           /\ committed' \subseteq Request
           /\ WritesLocked'
           /\ ArchivedIsStamped'
<1> DEFINE i == call[r].item
<1>1. call[r] \in Call /\ i \in ItemId
  BY DEF IInv, CallKnown, Call
<1>2. db[i] \in Row \cup {NoRow}
  BY <1>1 DEF IInv, TypeOK
<1>3. call[r].op \in {"edit", "status"} => db[i] # NoRow
  BY DEF IInv, WritesLocked, HasWritten, StatementFits, Creates
<1>4. /\ Written(r, db[i]) \in Row \cup {NoRow}
      /\ (db[i] # NoRow /\ IsTerminal(db[i].status) => db[i].archivedAt = "stamped")
           => (Written(r, db[i]) # NoRow /\ IsTerminal(Written(r, db[i]).status)
                   => Written(r, db[i]).archivedAt = "stamped")
  BY <1>1, <1>2, <1>3, WrittenType
<1>5. /\ db' = [db EXCEPT ![i] = Written(r, db[i])]
      /\ lock' = [lock EXCEPT ![i] = NoOne]
      /\ committed' = committed \cup {r}
  BY DEF CommitRow
<1>6. WritesLocked'
  <2> SUFFICES ASSUME NEW q \in Request, HasWritten(q)'
               PROVE  /\ (lock[call[q].item] = q)'
                      /\ StatementFits(q, db[call[q].item])'
    BY DEF WritesLocked
  <2>1. q # r /\ HasWritten(q)
    BY DEF HasWritten, IInv, TypeOK
  <2>2. lock[call[q].item] = q /\ StatementFits(q, db[call[q].item])
    BY <2>1 DEF IInv, WritesLocked
  <2>3. call[q].item # i
    BY <2>1, <2>2, ConstantsAssumption
  <2>4. call[q].item \in ItemId
    BY <2>1 DEF IInv, CallKnown, HasWritten, Call
  <2>5. QED
    BY <1>5, <2>2, <2>3, <2>4 DEF StatementFits, IInv, TypeOK
<1>7. ArchivedIsStamped'
  BY <1>1, <1>4, <1>5 DEF IInv, TypeOK, ArchivedIsStamped
<1>8. QED
  BY <1>1, <1>4, <1>5, <1>6, <1>7 DEF IInv, TypeOK

\* A request that leaves its open transaction without a commit releases its lock and
\* no one else's.
LEMMA ReleaseStep ==
    ASSUME IInv, NEW r \in Request, NEW p \in {"done", "crashed"},
           phase' = [phase EXCEPT ![r] = p], lock' = Release(r),
           UNCHANGED <<db, call>>
    PROVE  /\ lock' \in [ItemId -> Request \cup {NoOne}]
           /\ WritesLocked'
<1>1. lock' \in [ItemId -> Request \cup {NoOne}]
  BY DEF Release, IInv, TypeOK
<1>2. ASSUME NEW q \in Request, HasWritten(q)'
      PROVE  /\ (lock[call[q].item] = q)'
             /\ StatementFits(q, db[call[q].item])'
  <2>1. q # r /\ HasWritten(q)
    BY <1>2 DEF HasWritten, IInv, TypeOK
  <2>2. call[q].item \in ItemId
    BY <2>1 DEF IInv, CallKnown, HasWritten, Call
  <2>3. QED
    BY <2>1, <2>2 DEF IInv, WritesLocked, Release, StatementFits
<1>3. QED
  BY <1>1, <1>2 DEF WritesLocked

----------------------------------------------------------------------------------
\* The inductive invariant holds initially ...
LEMMA InitInv == Init => IInv
<1> SUFFICES ASSUME Init PROVE IInv
  OBVIOUS
<1>1. TypeOK
  BY DEF Init, TypeOK, Phase
<1>2. CallKnown /\ WritesLocked /\ MovesForward /\ CommitHistory
  BY DEF Init, CallKnown, WritesLocked, MovesForward, CommitHistory, HasWritten
<1>3. ArchivedIsStamped
  BY DEF Init, ArchivedIsStamped
<1>4. QED
  BY <1>1, <1>2, <1>3 DEF IInv

\* ... and every step preserves it.
LEMMA NextInv == IInv /\ [Next]_vars => IInv'
<1> SUFFICES ASSUME IInv, [Next]_vars PROVE IInv'
  OBVIOUS
<1> USE DEF IInv
<1>1. ASSUME NEW r \in Request, Get(r) PROVE IInv'
  <2>1. PICK c \in Calls :
          /\ phase[r] = "new"
          /\ call' = [call EXCEPT ![r] = c]
          /\ seen' = [seen EXCEPT ![r] = db[c.item]]
          /\ \/ phase' = [phase EXCEPT ![r] = "done"] /\ reply' = [reply EXCEPT ![r] = "refused"]
             \/ phase' = [phase EXCEPT ![r] = "done"] /\ reply' = [reply EXCEPT ![r] = "ok"]
             \/ /\ ~Refused(c) /\ ~NoChange(c)
                /\ phase' = [phase EXCEPT ![r] = IF c.op = "delete" THEN "marked" ELSE "pending"]
                /\ reply' = reply
    BY <1>1 DEF Get
  <2>2. c \in Call /\ c.item \in ItemId /\ UNCHANGED <<db, lock, committed, running, delivered>>
    BY <1>1, ConstantsAssumption DEF Get, Call
  <2>3. db[c.item] \in Row \cup {NoRow}
    BY <2>2 DEF TypeOK
  <2>4. TypeOK'
    BY <2>1, <2>2, <2>3 DEF TypeOK, Phase
  <2>5. CallKnown'
    BY <2>1, <2>2 DEF CallKnown, TypeOK
  <2>6. WritesLocked'
    BY <2>1, <2>2 DEF WritesLocked, HasWritten, StatementFits, TypeOK
  <2>7. MovesForward'
    <3>0. \A s \in Status : "draft" \notin AllowedTransitions[s]
      BY DEF Status, AllowedTransitions
    <3>1. ~Refused(c) /\ ~NoChange(c) /\ c.op = "status" => c.arg # "draft"
      BY <2>2, <2>3, <3>0 DEF Refused, NoChange, Visible, Row, Creates
    <3>2. QED
      BY <2>1, <2>2, <3>1 DEF MovesForward, TypeOK
  <2>8. CommitHistory' /\ ArchivedIsStamped'
    BY <2>1, <2>2 DEF CommitHistory, ArchivedIsStamped, TypeOK
  <2>9. QED
    BY <2>4, <2>5, <2>6, <2>7, <2>8
<1>2. ASSUME NEW r \in Request, Flush(r) PROVE IInv'
  <2>1. call[r] \in Call /\ call[r].item \in ItemId
    BY <1>2 DEF Flush, CallKnown, Call
  <2>2. TypeOK' /\ CallKnown' /\ MovesForward' /\ CommitHistory' /\ ArchivedIsStamped'
    BY <1>2, <2>1 DEF Flush, TypeOK, Phase, CallKnown, MovesForward, CommitHistory,
                      ArchivedIsStamped
  <2>3. ASSUME NEW q \in Request, HasWritten(q)'
        PROVE  /\ (lock[call[q].item] = q)'
               /\ StatementFits(q, db[call[q].item])'
    <3>1. CASE q = r
      BY <1>2, <2>1, <2>3, <3>1 DEF Flush, HasWritten, TypeOK, StatementFits
    <3>2. CASE q # r
      <4>1. HasWritten(q)
        BY <1>2, <2>3, <3>2 DEF Flush, HasWritten, TypeOK
      <4>2. lock[call[q].item] = q /\ StatementFits(q, db[call[q].item])
        BY <4>1 DEF WritesLocked
      <4>3. call[q].item # call[r].item /\ call[q].item \in ItemId
        BY <1>2, <4>1, <4>2, ConstantsAssumption DEF Flush, Free, HasWritten, CallKnown, Call
      <4>4. QED
        BY <1>2, <4>2, <4>3 DEF Flush, StatementFits, TypeOK
    <3>3. QED
      BY <3>1, <3>2
  <2>4. QED
    BY <2>2, <2>3 DEF WritesLocked
<1>3. ASSUME NEW r \in Request, Commit(r) PROVE IInv'
  <2>1. lock[call[r].item] \in {r, NoOne}
    BY <1>3 DEF Commit, WritesLocked, HasWritten, Explicit
  <2>2. /\ db' \in [ItemId -> Row \cup {NoRow}]
        /\ lock' \in [ItemId -> Request \cup {NoOne}]
        /\ committed' \subseteq Request
        /\ WritesLocked' /\ ArchivedIsStamped'
    BY <1>3, <2>1, CommitRowStep DEF Commit
  <2>3. TypeOK' /\ CallKnown' /\ MovesForward' /\ CommitHistory'
    BY <1>3, <2>2 DEF Commit, CommitRow, TypeOK, Phase, CallKnown, MovesForward, CommitHistory
  <2>4. QED
    BY <2>2, <2>3
<1>4. ASSUME NEW r \in Request, Respond(r) PROVE IInv'
  <2>1. call[r].op = "status" => phase[r] = "saved"
    BY <1>4 DEF Respond, Explicit, CallKnown
  <2>2. TypeOK' /\ CallKnown' /\ MovesForward' /\ ArchivedIsStamped'
    BY <1>4 DEF Respond, TypeOK, Phase, Handlers, CallKnown, MovesForward, ArchivedIsStamped
  <2>3. CommitHistory'
    BY <1>4, <2>1 DEF Respond, CommitHistory, TypeOK
  <2>4. WritesLocked'
    BY <1>4 DEF Respond, WritesLocked, HasWritten, StatementFits, TypeOK, Explicit, CallKnown
  <2>5. QED
    BY <2>2, <2>3, <2>4
<1>5. ASSUME NEW r \in Request, Teardown(r) PROVE IInv'
  <2>1. /\ db' \in [ItemId -> Row \cup {NoRow}]
        /\ lock' \in [ItemId -> Request \cup {NoOne}]
        /\ committed' \subseteq Request
        /\ WritesLocked' /\ ArchivedIsStamped'
    BY <1>5, CommitRowStep DEF Teardown, Free
  <2>2. TypeOK' /\ CallKnown' /\ MovesForward' /\ CommitHistory'
    BY <1>5, <2>1 DEF Teardown, CommitRow, TypeOK, Phase, CallKnown, MovesForward, CommitHistory
  <2>3. QED
    BY <2>1, <2>2
<1>6. ASSUME NEW r \in Request, NEW h \in Handlers, HandlerReturns(r, h) PROVE IInv'
  <2>1. TypeOK'
    BY <1>6 DEF HandlerReturns, TypeOK, Phase
  <2>2. CallKnown' /\ MovesForward' /\ CommitHistory' /\ ArchivedIsStamped'
    BY <1>6 DEF HandlerReturns, TypeOK, CallKnown, MovesForward, CommitHistory, ArchivedIsStamped
  <2>3. WritesLocked'
    BY <1>6 DEF HandlerReturns, TypeOK, WritesLocked, HasWritten, StatementFits
  <2>4. QED
    BY <2>1, <2>2, <2>3
<1>7. ASSUME NEW r \in Request, DatabaseFails(r) PROVE IInv'
  <2>1. lock' \in [ItemId -> Request \cup {NoOne}] /\ WritesLocked'
    BY <1>7, ReleaseStep DEF DatabaseFails
  <2>2. TypeOK' /\ CallKnown' /\ MovesForward' /\ CommitHistory' /\ ArchivedIsStamped'
    BY <1>7, <2>1 DEF DatabaseFails, TypeOK, Phase, CallKnown, MovesForward, CommitHistory,
                      ArchivedIsStamped
  <2>3. QED
    BY <2>1, <2>2
<1>8. ASSUME NEW r \in Request, Crash(r) PROVE IInv'
  <2>1. lock' \in [ItemId -> Request \cup {NoOne}] /\ WritesLocked'
    BY <1>8, ReleaseStep DEF Crash
  <2>2. TypeOK' /\ MovesForward' /\ CommitHistory' /\ ArchivedIsStamped'
    BY <1>8, <2>1 DEF Crash, TypeOK, Phase, MovesForward, CommitHistory, ArchivedIsStamped
  <2>3. CallKnown'
    BY <1>8 DEF Crash, InFlight, TypeOK, CallKnown
  <2>4. QED
    BY <2>1, <2>2, <2>3
<1>9. CASE UNCHANGED vars
  <2>1. TypeOK' /\ CallKnown' /\ MovesForward' /\ CommitHistory' /\ ArchivedIsStamped'
    BY <1>9 DEF vars, TypeOK, CallKnown, MovesForward, CommitHistory, ArchivedIsStamped
  <2>2. WritesLocked'
    BY <1>9 DEF vars, WritesLocked, HasWritten, StatementFits
  <2>3. QED
    BY <2>1, <2>2
<1>10. QED
  BY <1>1, <1>2, <1>3, <1>4, <1>5, <1>6, <1>7, <1>8, <1>9 DEF Next, Serve, AllServed

LEMMA Invariance == Spec => []IInv
  BY InitInv, NextInv, PTL DEF Spec

----------------------------------------------------------------------------------
\* Every variable keeps its type.
THEOREM TypeCorrect == Spec => []TypeOK
<1>1. IInv => TypeOK
  BY DEF IInv
<1>2. QED
  BY <1>1, Invariance, PTL

\* Events are only ever handled for transactions that committed.
THEOREM NoEventFromRollback == Spec => []NothingFromRolledBack
<1>1. IInv => NothingFromRolledBack
  BY DEF IInv, CommitHistory, NothingFromRolledBack
<1>2. QED
  BY <1>1, Invariance, PTL

\* Archived rows are stamped, however requests interleave.
THEOREM ArchiveIsStamped == Spec => []ArchivedIsStamped
<1>1. IInv => ArchivedIsStamped
  BY DEF IInv
<1>2. QED
  BY <1>1, Invariance, PTL

----------------------------------------------------------------------------------
\* A step that commits a transaction is the Commit or the Teardown of that request,
\* and writes its row; a step that commits none leaves the table alone.
LEMMA CommitStep ==
    ASSUME IInv, [Next]_vars
    PROVE  /\ \A r \in Request : Commits(r) =>
                 /\ phase[r] \in {"flushed", "open"} /\ call[r] \in Call
                 /\ call[r].op \in {"edit", "status"} => db[call[r].item] # NoRow
                 /\ call[r].op \in Creates => db[call[r].item] = NoRow
                 /\ db' = [db EXCEPT ![call[r].item] = Written(r, db[call[r].item])]
                 /\ UNCHANGED <<call, seen>> /\ committed' = committed \cup {r}
           /\ db' # db => \E r \in Request : Commits(r)
<1>1. ASSUME NEW r \in Request, Commit(r) \/ Teardown(r)
      PROVE  /\ phase[r] \in {"flushed", "open"} /\ call[r] \in Call /\ UNCHANGED <<call, seen>>
             /\ call[r].op \in {"edit", "status"} => db[call[r].item] # NoRow
             /\ call[r].op \in Creates => db[call[r].item] = NoRow
             /\ db' = [db EXCEPT ![call[r].item] = Written(r, db[call[r].item])]
             /\ committed' = committed \cup {r} /\ r \notin committed
  <2>1. phase[r] \in {"flushed", "open"}
    BY <1>1 DEF Commit, Teardown
  <2>2. call[r].op \in Creates \cup {"edit", "status"} => HasWritten(r)
    BY <2>1 DEF HasWritten, Creates
  <2>3. QED
    BY <1>1, <2>1, <2>2 DEF Commit, Teardown, CommitRow, IInv, CallKnown, WritesLocked,
                            StatementFits, CommitHistory, Creates
<1>2. \/ UNCHANGED <<db, committed>>
      \/ \E r \in Request : Commit(r) \/ Teardown(r)
  BY DEF Next, Serve, Get, Flush, Respond, HandlerReturns, DatabaseFails, Crash, AllServed, vars
<1>3. CASE UNCHANGED <<db, committed>>
  BY <1>3 DEF Commits
<1>4. CASE \E r \in Request : Commit(r) \/ Teardown(r)
  <2>1. PICK r \in Request : Commit(r) \/ Teardown(r)
    BY <1>4
  <2>2. \A q \in Request : Commits(q) <=> q = r
    BY <1>1, <2>1 DEF Commits
  <2>3. QED
    BY <1>1, <2>1, <2>2
<1>5. QED
  BY <1>2, <1>3, <1>4

\* Edits never undo what was committed between their read and their commit.
THEOREM EditsKeepStatus == Spec => EditKeepsStatus
<1>1. ASSUME IInv, [Next]_vars, NEW r \in Request, Commits(r), call[r].op = "edit"
      PROVE  LET i == call[r].item IN
             db[i] # NoRow /\ db'[i] = [db[i] EXCEPT !.text = db'[i].text]
  <2> DEFINE i == call[r].item
  <2>1. /\ call[r] \in Call /\ db[i] # NoRow
        /\ db' = [db EXCEPT ![i] = Written(r, db[i])]
    BY <1>1, CommitStep
  <2>2. i \in ItemId /\ db[i] \in Row
    BY <1>1, <2>1 DEF IInv, TypeOK, Call
  <2>3. db'[i] = [db[i] EXCEPT !.text = call[r].arg]
    BY <1>1, <2>1, <2>2 DEF IInv, TypeOK, Written, Edited, Creates
  <2>4. QED
    BY <2>1, <2>2, <2>3 DEF Row
<1>2. IInv /\ [Next]_vars =>
        [\A r \in Request : Commits(r) /\ call[r].op = "edit" =>
            LET i == call[r].item IN
            db[i] # NoRow /\ db'[i] = [db[i] EXCEPT !.text = db'[i].text]]_vars
  BY <1>1
<1>3. QED
  BY <1>2, Invariance, PTL DEF Spec, EditKeepsStatus

\* A create never commits over an existing row.
THEOREM CreatesNeverOverwrite == Spec => CreateNeverOverwrites
<1>1. IInv /\ [Next]_vars =>
        [\A r \in Request :
            Commits(r) /\ call[r].op \in Creates => db[call[r].item] = NoRow]_vars
  BY CommitStep
<1>2. QED
  BY <1>1, Invariance, PTL DEF Spec, CreateNeverOverwrites

\* Deleted rows stay deleted until somebody creates them again.
THEOREM OnlyCreatesRevive == Spec => OnlyCreateRevives
<1>1. ASSUME IInv, [Next]_vars, NEW i \in ItemId, db[i] = NoRow, db'[i] # NoRow
      PROVE  \E r \in Request : Commits(r) /\ call[r].op \in Creates
  <2>1. PICK r \in Request : Commits(r)
    BY <1>1, CommitStep
  <2>2. /\ call[r] \in Call
        /\ call[r].op \in {"edit", "status"} => db[call[r].item] # NoRow
        /\ db' = [db EXCEPT ![call[r].item] = Written(r, db[call[r].item])]
    BY <1>1, <2>1, CommitStep
  <2>3. call[r].item = i
    BY <1>1, <2>2 DEF IInv, TypeOK
  <2>4. call[r].op # "delete"
    BY <1>1, <2>2, <2>3 DEF IInv, TypeOK, Written, Creates
  <2>5. QED
    BY <1>1, <2>1, <2>2, <2>3, <2>4 DEF Call
<1>2. IInv /\ [Next]_vars =>
        [\A i \in ItemId : db[i] = NoRow /\ db'[i] # NoRow =>
            \E r \in Request : Commits(r) /\ call[r].op \in Creates]_vars
  BY <1>1
<1>3. QED
  BY <1>2, Invariance, PTL DEF Spec, OnlyCreateRevives

\* No interleaving of stale decisions loses an archive date or takes a row back to draft.
THEOREM NothingStepsBack == Spec => NoStepBack
<1>1. ASSUME IInv, [Next]_vars, NEW i \in ItemId, db[i] # NoRow, db'[i] # NoRow
      PROVE  /\ db[i].archivedAt = "stamped" => db'[i].archivedAt = "stamped"
             /\ db[i].status # "draft" => db'[i].status # "draft"
  <2>1. CASE db'[i] = db[i]
    BY <2>1
  <2>2. CASE db'[i] # db[i]
    <3>1. PICK r \in Request : Commits(r)
      BY <1>1, <2>2, CommitStep
    <3>2. /\ phase[r] \in {"flushed", "open"} /\ call[r] \in Call
          /\ call[r].op \in Creates => db[call[r].item] = NoRow
          /\ db' = [db EXCEPT ![call[r].item] = Written(r, db[call[r].item])]
      BY <1>1, <3>1, CommitStep
    <3>3. call[r].item = i /\ db'[i] = Written(r, db[i]) /\ db[i] \in Row
      BY <1>1, <2>2, <3>2 DEF IInv, TypeOK
    <3>4. call[r].op \in {"edit", "status"}
      BY <1>1, <3>2, <3>3 DEF Written, Call
    <3>5. CASE call[r].op = "edit"
      BY <3>3, <3>5 DEF Written, Edited, Creates, Row
    <3>6. CASE call[r].op = "status"
      <4>1. call[r].arg # "draft"
        BY <1>1, <3>2, <3>6 DEF IInv, MovesForward
      <4>2. db'[i] = [db[i] EXCEPT !.status = call[r].arg,
                                   !.archivedAt = IF IsTerminal(call[r].arg) THEN "stamped" ELSE @]
        BY <3>3, <3>6 DEF Written, Moved, Creates
      <4> QED
        BY <3>3, <4>1, <4>2 DEF Row
    <3> QED
      BY <3>4, <3>5, <3>6
  <2> QED
    BY <2>1, <2>2
<1>2. IInv /\ [Next]_vars =>
        [\A i \in ItemId : db[i] # NoRow /\ db'[i] # NoRow =>
            /\ db[i].archivedAt = "stamped" => db'[i].archivedAt = "stamped"
            /\ db[i].status # "draft" => db'[i].status # "draft"]_vars
  BY <1>1
<1>3. QED
  BY <1>2, Invariance, PTL DEF Spec, NoStepBack

----------------------------------------------------------------------------------
\* A call is settled when its request arrives.
LEMMA CallSettled ==
    ASSUME IInv, [Next]_vars, NEW r \in Request, phase[r] # "new"
    PROVE  call'[r] = call[r] /\ seen'[r] = seen[r] /\ phase'[r] # "new"
<1>1. ASSUME NEW q \in Request, Get(q) PROVE call'[r] = call[r] /\ seen'[r] = seen[r] /\ phase'[r] # "new"
  BY <1>1 DEF Get, IInv, TypeOK
<1>2. ASSUME NEW q \in Request, Serve(q) \/ DatabaseFails(q) \/ Crash(q)
      PROVE  call'[r] = call[r] /\ seen'[r] = seen[r] /\ phase'[r] # "new"
  <2>1. UNCHANGED <<call, seen>>
    BY <1>2 DEF Serve, Flush, Commit, Respond, Teardown, HandlerReturns, DatabaseFails, Crash
  <2>2. phase'[r] # "new"
    BY <1>2 DEF Serve, Flush, Commit, Respond, Teardown, HandlerReturns, DatabaseFails, Crash, IInv, TypeOK
  <2> QED
    BY <2>1, <2>2
<1>3. CASE UNCHANGED vars
  BY <1>3 DEF vars
<1> QED
  BY <1>1, <1>2, <1>3 DEF Next, AllServed

\* Answers are given late, and an answer "ok" to a status change or a form is true.
AnswersAreTrue ==
    /\ AckedIsDurable
    /\ \A r \in Request : phase[r] = "new" => reply[r] = "none"

LEMMA AnswersStep == IInv /\ AnswersAreTrue /\ [Next]_vars => AnswersAreTrue'
<1> SUFFICES ASSUME IInv, AnswersAreTrue, [Next]_vars, NEW r \in Request
             PROVE  /\ reply'[r] = "ok" /\ call'[r].op \in {"status", "submit"} =>
                          r \in committed' \/ (seen'[r] # NoRow /\ call'[r].arg = seen'[r].status)
                    /\ phase'[r] = "new" => reply'[r] = "none"
  BY DEF AnswersAreTrue, AckedIsDurable
<1>1. CASE Get(r)
  <2>1. PICK c \in Calls :
          /\ call' = [call EXCEPT ![r] = c] /\ seen' = [seen EXCEPT ![r] = db[c.item]]
          /\ \/ reply' = [reply EXCEPT ![r] = "refused"] /\ phase' = [phase EXCEPT ![r] = "done"]
             \/ /\ ~Refused(c) /\ NoChange(c)
                /\ reply' = [reply EXCEPT ![r] = "ok"] /\ phase' = [phase EXCEPT ![r] = "done"]
             \/ /\ reply' = reply
                /\ phase' = [phase EXCEPT ![r] = IF c.op = "delete" THEN "marked" ELSE "pending"]
    BY <1>1 DEF Get
  <2>2. reply[r] = "none" /\ call'[r] = c /\ seen'[r] = db[c.item] /\ phase'[r] # "new"
    BY <1>1, <2>1 DEF Get, AnswersAreTrue, IInv, TypeOK
  <2>3. CASE ~Refused(c) /\ NoChange(c)
    BY <2>2, <2>3 DEF Refused, NoChange, Visible, Creates
  <2>4. CASE reply'[r] # "ok"
    BY <2>2, <2>4
  <2> QED
    BY <2>1, <2>2, <2>3, <2>4 DEF IInv, TypeOK
<1>2. CASE Respond(r)
  <2>1. call[r].op \in {"status", "submit"} => r \in committed
    BY <1>2 DEF Respond, Explicit, IInv, CallKnown, CommitHistory
  <2> QED
    BY <1>2, <2>1, CallSettled DEF Respond
<1>3. CASE ~Get(r) /\ ~Respond(r)
  <2>1. phase'[r] # "new" \/ (phase'[r] = phase[r] /\ reply'[r] = reply[r])
    <3>1. ASSUME NEW q \in Request, q # r, Get(q) \/ Serve(q) \/ DatabaseFails(q) \/ Crash(q)
          PROVE  phase'[r] = phase[r] /\ reply'[r] = reply[r]
      BY <3>1 DEF Get, Serve, Flush, Commit, Respond, Teardown, HandlerReturns, DatabaseFails, Crash, IInv, TypeOK
    <3>2. ASSUME Serve(r) \/ DatabaseFails(r) \/ Crash(r) PROVE phase'[r] # "new"
      <4>1. phase[r] # "new"
        BY <3>2 DEF Serve, Flush, Commit, Respond, Teardown, HandlerReturns, DatabaseFails, Crash, InFlight
      <4> QED
        BY <4>1, CallSettled
    <3> QED
      BY <1>3, <3>1, <3>2 DEF Next, AllServed, vars
  <2>2. reply'[r] = "ok" => reply[r] = "ok"
    BY <1>3 DEF Next, Get, Serve, Flush, Commit, Respond, Teardown, HandlerReturns, DatabaseFails, Crash,
                AllServed, vars, IInv, TypeOK
  <2>3. reply[r] = "ok" => call'[r] = call[r] /\ seen'[r] = seen[r]
    BY CallSettled DEF AnswersAreTrue
  <2>4. committed \subseteq committed'
    BY DEF Next, Get, Serve, Flush, Commit, Respond, Teardown, HandlerReturns, DatabaseFails, Crash,
           AllServed, vars, CommitRow
  <2> QED
    BY <2>1, <2>2, <2>3, <2>4 DEF AnswersAreTrue, AckedIsDurable
<1> QED
  BY <1>1, <1>2, <1>3

\* Whoever is told that a status change or a form succeeded is told the truth, whatever
\* fails or crashes.
THEOREM AnswersAreDurable == Spec => []AckedIsDurable
<1>1. Init => AnswersAreTrue
  BY DEF Init, AnswersAreTrue, AckedIsDurable
<1>2. AnswersAreTrue => AckedIsDurable
  BY DEF AnswersAreTrue
<1> QED
  BY <1>1, <1>2, AnswersStep, Invariance, PTL DEF Spec

----------------------------------------------------------------------------------
\* Somebody has pinned the id i in a create that committed.
PinnedAgain(i) == \E q \in committed : call[q].op = "create" /\ call[q].item = i

Generates(r) == phase[r] # "new" /\ call[r].op \in {"post", "submit"}
Generating(r) == Generates(r) /\ phase[r] \in {"pending", "flushed", "open"}

\* A request that has read a row it may change, and has yet to commit.
Changing(r) == phase[r] \in {"pending", "marked", "flushed", "open"} /\ call[r].op \notin Creates

Owned(r) ==
    LET row == db[call[r].item] IN
    \/ row = NoRow \/ call[r].viewer \in Admin \/ row.owner = call[r].viewer \/ PinnedAgain(call[r].item)

\* Generated ids are different from each other, and what is found under one before its
\* row is committed was put there by a create that pinned it.
GeneratedApart ==
    /\ \A q, r \in Request : Generates(q) /\ Generates(r) /\ call[q].item = call[r].item => q = r
    /\ \A q \in Request : Generating(q) => db[call[q].item] = NoRow \/ PinnedAgain(call[q].item)
    /\ \A q, r \in Request :
          Generating(q) /\ Changing(r) /\ call[q].item = call[r].item => PinnedAgain(call[q].item)

Ownership == GeneratedApart /\ \A r \in Request : Changing(r) => Owned(r)

\* A pinned id stays pinned.
LEMMA PinnedStays ==
    ASSUME IInv, [Next]_vars, NEW i, PinnedAgain(i)
    PROVE  PinnedAgain(i)'
<1>1. committed \subseteq committed' /\ committed \subseteq Request
  BY DEF Next, Get, Serve, Flush, Commit, Respond, Teardown, HandlerReturns, DatabaseFails, Crash,
         AllServed, vars, CommitRow, IInv, TypeOK
<1>2. \A q \in committed : call'[q] = call[q]
  BY <1>1, CallSettled DEF IInv, CommitHistory
<1> QED
  BY <1>1, <1>2 DEF PinnedAgain

\* No step but an arrival makes a request generate an id or change a row.
LEMMA NobodyElse ==
    ASSUME IInv, [Next]_vars, \A q \in Request : ~Get(q), NEW r \in Request
    PROVE  /\ Generates(r)' => Generates(r)
           /\ Generating(r)' => Generating(r)
           /\ Changing(r)' => Changing(r)
           /\ call'[r] = call[r]
<1>1. call' = call
  BY DEF Next, Serve, Flush, Commit, Respond, Teardown, HandlerReturns, DatabaseFails, Crash, AllServed, vars
<1>2. ASSUME NEW q \in Request, Serve(q) \/ DatabaseFails(q) \/ Crash(q)
      PROVE  /\ phase'[r] \in {"pending", "marked", "flushed", "open"} => phase[r] \in {"pending", "marked", "flushed", "open"}
             /\ phase'[r] \in {"pending", "flushed", "open"} /\ phase[r] = "marked" => call[r].op = "delete"
             /\ phase'[r] # "new" => phase[r] # "new"
  <2>1. CASE q = r
    BY <1>2, <2>1 DEF Serve, Flush, Commit, Respond, Teardown, HandlerReturns, DatabaseFails, Crash, InFlight,
                      IInv, TypeOK, CallKnown
  <2>2. CASE q # r
    <3>1. phase'[r] = phase[r]
      BY <1>2, <2>2 DEF Serve, Flush, Commit, Respond, Teardown, HandlerReturns, DatabaseFails, Crash, IInv, TypeOK
    <3> QED
      BY <3>1 DEF IInv, CallKnown
  <2> QED
    BY <2>1, <2>2
<1>3. CASE UNCHANGED vars
  BY <1>3 DEF vars, Generates, Generating, Changing
<1> QED
  BY <1>1, <1>2, <1>3 DEF Next, AllServed, Generates, Generating, Changing

\* An arrival reads a row of its own, or generates an id nobody uses.
LEMMA ArrivalKeepsOwnership ==
    ASSUME IInv, Ownership, [Next]_vars, NEW r \in Request, Get(r)
    PROVE  Ownership'
<1>1. PICK c \in Calls :
        /\ Generated(c) /\ call' = [call EXCEPT ![r] = c]
        /\ \/ phase' = [phase EXCEPT ![r] = "done"]
           \/ ~Refused(c) /\ phase' = [phase EXCEPT ![r] = IF c.op = "delete" THEN "marked" ELSE "pending"]
  BY DEF Get
<1>2. phase[r] = "new" /\ UNCHANGED <<db, committed>> /\ c \in Call
  BY ConstantsAssumption DEF Get
<1>3. \A q \in Request \ {r} : call'[q] = call[q] /\ phase'[q] = phase[q]
  BY <1>1 DEF IInv, TypeOK
<1>4. call'[r] = c /\ phase'[r] \in {"done", "marked", "pending"} /\ (phase'[r] # "done" => ~Refused(c))
  BY <1>1 DEF IInv, TypeOK
<1>5. \A i : PinnedAgain(i) => PinnedAgain(i)'
  BY PinnedStays
<1>6. \A q \in Request \ {r} : /\ Generates(q)' <=> Generates(q)
                               /\ Generating(q)' <=> Generating(q)
                               /\ Changing(q)' <=> Changing(q)
  BY <1>3 DEF Generates, Generating, Changing
<1>7. Generates(r)' => /\ c.op \in {"post", "submit"} /\ db[c.item] = NoRow
                       /\ \A q \in Request : phase[q] # "new" => call[q].item # c.item
  BY <1>1, <1>4 DEF Generates, Generated
<1>8. Changing(r)' => db[c.item] # NoRow /\ (c.viewer \in Admin \/ db[c.item].owner = c.viewer)
  BY <1>4 DEF Changing, Refused, Visible
<1>9. Generating(r)' => Generates(r)'
  BY DEF Generating, Generates
<1>10. \A q \in Request : Changing(q) \/ Generating(q) \/ Generates(q) => phase[q] # "new"
  BY DEF Changing, Generating, Generates
<1>11. GeneratedApart'
  <2>1. ASSUME NEW p \in Request, NEW q \in Request, Generates(p)', Generates(q)', call'[p].item = call'[q].item
        PROVE  p = q
    BY <2>1, <1>3, <1>4, <1>6, <1>7, <1>10 DEF Ownership, GeneratedApart
  <2>2. ASSUME NEW q \in Request, Generating(q)' PROVE db'[call'[q].item] = NoRow \/ PinnedAgain(call[q].item)'
    BY <2>2, <1>2, <1>3, <1>4, <1>5, <1>6, <1>7, <1>9 DEF Ownership, GeneratedApart
  <2>3. ASSUME NEW q \in Request, NEW p \in Request, Generating(q)', Changing(p)', call'[q].item = call'[p].item
        PROVE  PinnedAgain(call[q].item)'
    <3>0. ~(Generating(r)' /\ Changing(r)')
      BY DEF Generating, Generates, Changing, Creates
    <3>1. CASE q = r
      BY <2>3, <3>0, <3>1, <1>3, <1>4, <1>6, <1>7, <1>9, <1>10
    <3>2. CASE p = r
      BY <2>3, <3>0, <3>2, <1>3, <1>4, <1>5, <1>6, <1>8 DEF Ownership, GeneratedApart
    <3>3. CASE q # r /\ p # r
      BY <2>3, <3>3, <1>3, <1>5, <1>6 DEF Ownership, GeneratedApart
    <3> QED
      BY <3>1, <3>2, <3>3
  <2> QED
    BY <2>1, <2>2, <2>3 DEF GeneratedApart
<1>12. ASSUME NEW q \in Request, Changing(q)' PROVE Owned(q)'
  <2>1. CASE q = r
    BY <1>12, <2>1, <1>2, <1>4, <1>8 DEF Owned
  <2>2. CASE q # r
    BY <1>12, <2>2, <1>2, <1>3, <1>5, <1>6 DEF Ownership, Owned
  <2> QED
    BY <2>1, <2>2
<1> QED
  BY <1>11, <1>12 DEF Ownership

LEMMA CommitKeepsOwnership ==
    ASSUME IInv, Ownership, [Next]_vars, \A q \in Request : ~Get(q)
    PROVE  Ownership'
<1>1. \A q \in Request : /\ Generates(q)' => Generates(q)
                         /\ Generating(q)' => Generating(q)
                         /\ Changing(q)' => Changing(q)
                         /\ call'[q] = call[q]
  BY NobodyElse
<1>2. \A i : PinnedAgain(i) => PinnedAgain(i)'
  BY PinnedStays
<1>3. CASE db' = db
  <2>1. GeneratedApart'
    BY <1>1, <1>2, <1>3 DEF Ownership, GeneratedApart
  <2>2. \A q \in Request : Changing(q)' => Owned(q)'
    BY <1>1, <1>2, <1>3 DEF Ownership, Owned
  <2> QED
    BY <2>1, <2>2 DEF Ownership
<1>4. CASE db' # db
  <2>1. PICK r \in Request : Commits(r)
    BY <1>4, CommitStep
  <2> DEFINE i == call[r].item
  <2>2. /\ phase[r] \in {"flushed", "open"} /\ call[r] \in Call
        /\ call[r].op \in {"edit", "status"} => db[i] # NoRow
        /\ call[r].op \in Creates => db[i] = NoRow
        /\ db' = [db EXCEPT ![i] = Written(r, db[i])]
    BY <2>1, CommitStep
  <2>3. i \in ItemId /\ db[i] \in Row \cup {NoRow} /\ db'[i] = Written(r, db[i])
    BY <2>2 DEF IInv, TypeOK, Call
  <2>4. \A j \in ItemId \ {i} : db'[j] = db[j]
    BY <2>2 DEF IInv, TypeOK
  <2>5. \A q \in Request : phase[q] # "new" => call[q].item \in ItemId
    BY DEF IInv, CallKnown, Call
  <2>6. CASE call[r].op = "create"
    <3>1. PinnedAgain(i)'
      BY <2>1, <2>6, <1>1 DEF PinnedAgain, Commits
    <3>2. GeneratedApart'
      BY <1>1, <1>2, <2>4, <2>5, <3>1 DEF Ownership, GeneratedApart, Generating, Generates
    <3>3. \A q \in Request : Changing(q)' => Owned(q)'
      BY <1>1, <1>2, <2>4, <2>5, <3>1 DEF Ownership, Owned, Changing
    <3> QED
      BY <3>2, <3>3 DEF Ownership
  <2>7. CASE call[r].op \in {"post", "submit"}
    <3>1. Generating(r)
      BY <2>2, <2>7 DEF Generating, Generates
    <3>2. \A q \in Request : Generating(q)' /\ q # r => call[q].item # i
      BY <1>1, <3>1 DEF Ownership, GeneratedApart, Generating
    <3>3. ~Generating(r)'
      <4>1. phase'[r] \in {"saved", "done"}
        BY <2>1 DEF Commits, Next, Get, Serve, Flush, Commit, Respond, Teardown, HandlerReturns, DatabaseFails,
                    Crash, AllServed, vars, CommitRow, IInv, TypeOK
      <4> QED
        BY <4>1 DEF Generating
    <3>4. \A q \in Request : Changing(q)' /\ call[q].item = i => PinnedAgain(i)'
      BY <1>1, <1>2, <3>1 DEF Ownership, GeneratedApart
    <3>5. GeneratedApart'
      BY <1>1, <1>2, <2>4, <2>5, <3>2, <3>3 DEF Ownership, GeneratedApart, Generating, Generates
    <3>6. \A q \in Request : Changing(q)' => Owned(q)'
      BY <1>1, <1>2, <2>4, <2>5, <3>4 DEF Ownership, Owned, Changing
    <3> QED
      BY <3>5, <3>6 DEF Ownership
  <2>8. CASE call[r].op \in {"edit", "status", "delete"}
    <3>1. db'[i] = NoRow \/ (db[i] # NoRow /\ db'[i].owner = db[i].owner)
      <4>1. CASE call[r].op = "edit"
        BY <2>2, <2>3, <4>1 DEF Written, Edited, Creates, Row
      <4>2. CASE call[r].op = "status"
        BY <2>2, <2>3, <4>2 DEF Written, Moved, Creates, Row
      <4>3. CASE call[r].op = "delete"
        BY <2>3, <4>3 DEF Written, Creates
      <4> QED
        BY <2>8, <4>1, <4>2, <4>3
    <3>2. GeneratedApart'
      BY <1>1, <1>2, <2>4, <2>5, <3>1 DEF Ownership, GeneratedApart, Generating, Generates
    <3>3. \A q \in Request : Changing(q)' => Owned(q)'
      BY <1>1, <1>2, <2>4, <2>5, <3>1 DEF Ownership, Owned, Changing
    <3> QED
      BY <3>2, <3>3 DEF Ownership
  <2> QED
    BY <2>2, <2>6, <2>7, <2>8 DEF Call, Creates
<1> QED
  BY <1>3, <1>4

\* Ownership is checked on the row that is read, and yet only own rows are changed: the
\* owner of a row never changes, and nobody but a create that pins the id replaces it.
THEOREM ChangesAreOwn == Spec => OwnerScoped
<1>1. Init => Ownership
  BY DEF Init, Ownership, GeneratedApart, Generates, Generating, Changing
<1>2. IInv /\ Ownership /\ [Next]_vars => Ownership'
  BY ArrivalKeepsOwnership, CommitKeepsOwnership
<1>3. IInv /\ Ownership /\ [Next]_vars =>
        [\A r \in Request : Commits(r) /\ call[r].op \notin Creates =>
            LET row == db[call[r].item] IN
            \/ row = NoRow \/ call[r].viewer \in Admin \/ row.owner = call[r].viewer
            \/ \E q \in committed : call[q].op = "create" /\ call[q].item = call[r].item]_vars
  <2> SUFFICES ASSUME IInv, Ownership, [Next]_vars, NEW r \in Request, Commits(r), call[r].op \notin Creates
               PROVE  Owned(r)
    BY DEF Owned, PinnedAgain
  <2>1. Changing(r)
    BY CommitStep DEF Changing
  <2> QED
    BY <2>1 DEF Ownership
<1> QED
  BY <1>1, <1>2, <1>3, Invariance, PTL DEF Spec, OwnerScoped

----------------------------------------------------------------------------------
\* A call is decided when its request arrives: a status change that goes on is a legal move
\* of the row as it is.
LEMMA GetDecides ==
    ASSUME IInv, NEW r \in Request, Get(r)
    PROVE  Atomic!Next \/ UNCHANGED <<db, Decided, Announced>>
<1> DEFINE Entry(q) == [token |-> q, item |-> call[q].item, previous |-> seen[q].status, new |-> call[q].arg]
           EntryAfter(q) == [token |-> q, item |-> call'[q].item, previous |-> seen'[q].status, new |-> call'[q].arg]
           Deciding == {q \in Request : phase[q] \in {"pending", "flushed"} /\ call[q].op = "status"}
           DecidingAfter == {q \in Request : phase'[q] \in {"pending", "flushed"} /\ call'[q].op = "status"}
<1>1. PICK c \in Calls :
        /\ call' = [call EXCEPT ![r] = c] /\ seen' = [seen EXCEPT ![r] = db[c.item]]
        /\ \/ phase' = [phase EXCEPT ![r] = "done"]
           \/ /\ ~Refused(c) /\ ~NoChange(c)
              /\ phase' = [phase EXCEPT ![r] = IF c.op = "delete" THEN "marked" ELSE "pending"]
  BY DEF Get
<1>2. phase[r] = "new" /\ UNCHANGED <<db, committed>> /\ c \in Call /\ r \notin committed
  BY ConstantsAssumption DEF Get, IInv, CommitHistory
<1>3. \A q \in Request \ {r} : call'[q] = call[q] /\ phase'[q] = phase[q] /\ seen'[q] = seen[q]
  BY <1>1 DEF IInv, TypeOK
<1>4. call'[r] = c /\ seen'[r] = db[c.item]
      /\ (phase'[r] = "pending" => ~Refused(c) /\ ~NoChange(c)) /\ phase'[r] # "flushed"
  BY <1>1 DEF IInv, TypeOK
<1>5. Announced' = Announced
  <2>1. \A q \in committed : call'[q] = call[q] /\ seen'[q] = seen[q]
    BY <1>2, <1>3 DEF IInv, TypeOK
  <2> QED
    BY <1>2, <2>1 DEF Announced, ChangesOf
<1>6. Decided = {Entry(q) : q \in Deciding} /\ Decided' = {EntryAfter(q) : q \in DecidingAfter}
  BY DEF Decided, ChangesOf
<1>7. r \notin Deciding /\ DecidingAfter \ {r} = Deciding
  BY <1>2, <1>3
<1>8. \A q \in Deciding : EntryAfter(q) = Entry(q)
  BY <1>3, <1>7
<1>9. CASE r \notin DecidingAfter
  <2>1. DecidingAfter = Deciding
    BY <1>7, <1>9
  <2> HIDE DEF Entry, EntryAfter, Deciding, DecidingAfter
  <2>2. Decided' = Decided
    BY <1>6, <1>8, <2>1
  <2> QED
    BY <1>2, <1>5, <2>2
<1>10. CASE r \in DecidingAfter
  <2>1. c.op = "status" /\ ~Refused(c) /\ ~NoChange(c)
    BY <1>4, <1>10
  <2>2. /\ c.item \in ItemId /\ db[c.item] \in Row /\ db[c.item] # NoRow
        /\ c.arg \in AllowedTransitions[db[c.item].status]
    BY <1>2, <2>1 DEF Refused, NoChange, Visible, Creates, Call, IInv, TypeOK
  <2>3. <<db[c.item].status, c.arg>> \in Atomic!Lifecycle /\ c.arg \in {"active", "archived"}
    BY <2>2 DEF Atomic!Lifecycle, AllowedTransitions, Row, Status
  <2>4. EntryAfter(r) = [token |-> r, item |-> c.item, previous |-> db[c.item].status, new |-> c.arg]
    BY <1>4
  <2>5. Decided' = Decided \cup {EntryAfter(r)}
    <3>1. DecidingAfter = Deciding \cup {r}
      BY <1>7, <1>10
    <3> HIDE DEF Entry, EntryAfter, Deciding, DecidingAfter
    <3> QED
      BY <1>6, <1>8, <3>1
  <2>6. \A e \in Decided \cup Announced : e.token # r
    BY <1>2, <1>6, <1>7 DEF Announced, ChangesOf
  <2>7. Atomic!Decide(c.item, c.arg)
    BY <1>2, <1>5, <2>2, <2>3, <2>4, <2>5, <2>6 DEF Atomic!Decide
  <2> QED
    BY <2>2, <2>3, <2>7 DEF Atomic!Next
<1> QED
  BY <1>9, <1>10

\* A step that commits nothing leaves the row alone, and decides nothing or gives up.
LEMMA OthersGiveUp ==
    ASSUME IInv, [Next]_vars, \A q \in Request : ~Get(q), \A q \in Request : ~Commits(q)
    PROVE  Atomic!Next \/ UNCHANGED <<db, Decided, Announced>>
<1> DEFINE Entry(q) == [token |-> q, item |-> call[q].item, previous |-> seen[q].status, new |-> call[q].arg]
           Deciding == {q \in Request : phase[q] \in {"pending", "flushed"} /\ call[q].op = "status"}
<1>1. UNCHANGED <<db, committed, call, seen>>
  <2>1. committed \subseteq committed' /\ committed' \subseteq Request
    BY NextInv DEF Next, Get, Serve, Flush, Commit, Respond, Teardown, HandlerReturns, DatabaseFails, Crash,
                   AllServed, vars, CommitRow, IInv, TypeOK
  <2>2. UNCHANGED <<call, seen>>
    BY DEF Next, Serve, Flush, Commit, Respond, Teardown, HandlerReturns, DatabaseFails, Crash, AllServed, vars
  <2> QED
    BY <2>1, <2>2, CommitStep DEF Commits
<1>2. Announced' = Announced
  BY <1>1 DEF Announced, ChangesOf
<1>3. Decided = {Entry(q) : q \in Deciding} /\ Decided' = {Entry(q) : q \in Deciding'}
  BY <1>1 DEF Decided, ChangesOf
<1>4. (\E r \in Request : Deciding \ {r} \subseteq Deciding' /\ Deciding' \subseteq Deciding)
      \/ Deciding' = Deciding
  <2>1. CASE UNCHANGED phase
    BY <1>1, <2>1
  <2>2. ASSUME NEW r \in Request, Serve(r) \/ DatabaseFails(r) \/ Crash(r)
        PROVE  Deciding \ {r} \subseteq Deciding' /\ Deciding' \subseteq Deciding
    <3>1. \A q \in Request \ {r} : phase'[q] = phase[q]
      BY <2>2 DEF Serve, Flush, Commit, Respond, Teardown, HandlerReturns, DatabaseFails, Crash, IInv, TypeOK
    <3>2. phase'[r] \in {"pending", "flushed"} => phase[r] \in {"pending", "flushed"}
      BY <2>2 DEF Serve, Flush, Commit, Respond, Teardown, HandlerReturns, DatabaseFails, Crash, IInv, TypeOK
    <3> QED
      BY <1>1, <3>1, <3>2
  <2> QED
    BY <2>1, <2>2 DEF Next, AllServed, vars
<1>5. CASE Deciding' = Deciding
  BY <1>1, <1>2, <1>3, <1>5
<1>6. CASE \E r \in Deciding : Deciding' = Deciding \ {r}
  <2>1. PICK r \in Deciding : Deciding' = Deciding \ {r}
    BY <1>6
  <2>2. Entry(r) \in Decided /\ Decided' = Decided \ {Entry(r)}
    BY <1>3, <2>1
  <2>3. Atomic!GiveUp(Entry(r))
    BY <1>1, <1>2, <2>2 DEF Atomic!GiveUp
  <2> QED
    BY <2>2, <2>3 DEF Atomic!Next
<1> QED
  BY <1>4, <1>5, <1>6

\* A commit is the one indivisible change its call asks for.
LEMMA CommitIsAtomic ==
    ASSUME IInv, [Next]_vars, NEW r \in Request, Commits(r)
    PROVE  Atomic!Next \/ UNCHANGED <<db, Decided, Announced>>
<1> DEFINE i == call[r].item
           Entry(q) == [token |-> q, item |-> call[q].item, previous |-> seen[q].status, new |-> call[q].arg]
           Deciding == {q \in Request : phase[q] \in {"pending", "flushed"} /\ call[q].op = "status"}
<1>1. /\ phase[r] \in {"flushed", "open"} /\ call[r] \in Call
      /\ call[r].op \in {"edit", "status"} => db[i] # NoRow
      /\ call[r].op \in Creates => db[i] = NoRow
      /\ db' = [db EXCEPT ![i] = Written(r, db[i])]
      /\ UNCHANGED <<call, seen>> /\ committed' = committed \cup {r} /\ r \notin committed
  BY CommitStep DEF Commits
<1>2. i \in ItemId /\ db[i] \in Row \cup {NoRow}
  BY <1>1 DEF IInv, TypeOK, Call
<1>3. Commit(r) \/ Teardown(r)
  <2>1. PICK q \in Request : Commit(q) \/ Teardown(q)
    BY <1>1 DEF Next, Serve, Get, Flush, Respond, HandlerReturns, DatabaseFails, Crash, AllServed, vars
  <2>2. committed' = committed \cup {q}
    BY <2>1 DEF Commit, Teardown, CommitRow
  <2> QED
    BY <1>1, <2>1, <2>2
<1>4. phase'[r] \in {"saved", "done"} /\ \A q \in Request \ {r} : phase'[q] = phase[q]
  BY <1>3 DEF Commit, Teardown, IInv, TypeOK
<1>5. Decided = {Entry(q) : q \in Deciding} /\ Decided' = {Entry(q) : q \in Deciding'}
      /\ Deciding' = Deciding \ {r}
  BY <1>1, <1>4 DEF Decided, ChangesOf
<1>6. call[r].op # "status" => UNCHANGED <<Decided, Announced>>
  BY <1>1, <1>5 DEF Announced, ChangesOf
<1>7. CASE call[r].op \in Creates
  <2>1. Written(r, db[i]) = [status |-> "draft", archivedAt |-> "null",
                             owner |-> call[r].viewer, text |-> call[r].arg]
    BY <1>7 DEF Written, Created
  <2>2. call[r].viewer \in User /\ call[r].arg \in Text /\ call[r].op # "status"
    BY <1>1, <1>7 DEF Call, Creates
  <2>3. Atomic!Create(i)
    BY <1>1, <1>6, <1>7, <2>1, <2>2 DEF Atomic!Create
  <2> QED
    BY <1>2, <2>3 DEF Atomic!Next
<1>8. CASE call[r].op = "edit"
  <2>1. Written(r, db[i]) = [db[i] EXCEPT !.text = call[r].arg] /\ call[r].arg \in Text
    BY <1>1, <1>8 DEF Written, Edited, Creates, Call
  <2>2. Atomic!Edit(i)
    BY <1>1, <1>6, <1>8, <2>1 DEF Atomic!Edit
  <2> QED
    BY <1>2, <2>2 DEF Atomic!Next
<1>9. CASE call[r].op = "delete"
  <2>1. Written(r, db[i]) = NoRow
    BY <1>9 DEF Written, Creates
  <2>2. db[i] # NoRow => Atomic!Delete(i)
    BY <1>1, <1>6, <1>9, <2>1 DEF Atomic!Delete
  <2>3. db[i] = NoRow => db' = db
    BY <1>1, <1>2, <2>1 DEF IInv, TypeOK
  <2> QED
    BY <1>2, <1>6, <1>9, <2>2, <2>3 DEF Atomic!Next
<1>10. CASE call[r].op = "status"
  <2>1. db' = [db EXCEPT ![i] = [db[i] EXCEPT !.status = call[r].arg,
                      !.archivedAt = IF call[r].arg = "archived" THEN "stamped" ELSE @]]
    BY <1>1, <1>10 DEF Written, Moved, Creates, IsTerminal
  <2>2. r \in Deciding
    BY <1>1, <1>10 DEF IInv, CallKnown
  <2>3. Entry(r) \in Decided /\ Decided' = Decided \ {Entry(r)}
    BY <1>5, <2>2
  <2>4. Announced' = Announced \cup {Entry(r)}
    BY <1>1, <1>10 DEF Announced, ChangesOf
  <2>5. Entry(r).item = i /\ Entry(r).new = call[r].arg /\ db[i] # NoRow
    BY <1>1, <1>10
  <2>6. Atomic!Move(Entry(r))
    BY <2>1, <2>3, <2>4, <2>5 DEF Atomic!Move
  <2> QED
    BY <2>3, <2>6 DEF Atomic!Next
<1> QED
  BY <1>1, <1>7, <1>8, <1>9, <1>10 DEF Call

\* However requests overlap, fail and die, every step maps to one of AtomicItems or to a
\* stutter: an announced status change was legal when it was decided, takes effect together
\* with its announcement, and is announced once.
THEOREM OverlapIsAtomic == Spec => ImplementsAtomicItems
<1>1. Init => Atomic!Init
  <2> SUFFICES ASSUME Init PROVE Atomic!Init
    OBVIOUS
  <2>1. Announced = {} /\ Decided = {}
    BY DEF Init, Announced, Decided, ChangesOf
  <2>2. Atomic!Rows = Row
    BY DEF Atomic!Rows, Row, Status
  <2> QED
    BY <2>1, <2>2 DEF Init, Atomic!Init, IsTerminal
<1>2. IInv /\ [Next]_vars => [Atomic!Next]_<<db, Decided, Announced>>
  BY GetDecides, OthersGiveUp, CommitIsAtomic
<1> QED
  BY <1>1, <1>2, Invariance, PTL DEF Spec, ImplementsAtomicItems, Atomic!Spec
===================================================================================
