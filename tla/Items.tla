---------------------------------- MODULE Items ----------------------------------
(***********************************************************************************)
(* The items domain: concurrent requests that create, edit, delete and change the  *)
(* status of rows, each inside the database session of its own request, and the    *)
(* events a status change hands to the in-process event bus.                       *)
(*                                                                                 *)
(* A request is a process served once.  Its handler reads the row with a plain     *)
(* SELECT (READ COMMITTED, no lock), decides, flushes its statement (which locks   *)
(* the row), and commits either explicitly (status change, HTML create) or in the  *)
(* teardown of get_session, which runs after the response is sent.                 *)
(***********************************************************************************)
EXTENDS Naturals

CONSTANTS Request,   \* the requests the application receives
          ItemId,    \* primary keys
          User, Admin,
          Text,      \* contents of name and description
          Calls,     \* the calls the requests may make
          NoRow, NoOne, NoCall

VARIABLES db,         \* the committed items table
          lock,       \* the open transaction that has written each row
          phase,      \* where the handler of each request is
          call,       \* what each request asks for
          seen,       \* the row its SELECT returned
          reply,      \* the response the client has
          committed,  \* history: the requests whose transaction committed
          running,    \* event handlers of a request that have not returned
          delivered   \* history: the handlers that did their work

vars == <<db, lock, phase, call, seen, reply, committed, running, delivered>>

----------------------------------------------------------------------------------
Status == {"draft", "active", "archived"}

AllowedTransitions ==
    [draft |-> {"active", "archived"}, active |-> {"archived"}, archived |-> {}]

IsTerminal(s) == s = "archived"

Row == [status: Status, archivedAt: {"null", "stamped"}, owner: User, text: Text]

Handlers == {"audit", "webhooks"}

\* "create" is the JSON route with a pinned id, "post" the JSON route without one,
\* "submit" the HTML form.
Creates == {"create", "post", "submit"}

\* The operations that commit before they respond: publish_after_commit with an
\* event, and the explicit commit of the HTML create.
ExplicitOnlyForForms == {"submit"}   \* faulty: events scheduled before the commit
Explicit == {"status", "submit"}

Call == [op: {"status"}, item: ItemId, viewer: User, arg: Status]
        \cup [op: Creates \cup {"edit", "delete"}, item: ItemId, viewer: User, arg: Text]

ASSUME ConstantsAssumption ==
    /\ Admin \subseteq User
    /\ Calls \subseteq Call
    /\ NoRow \notin Row
    /\ NoOne \notin Request
    /\ NoCall \notin Call

InFlight(r) == phase[r] \notin {"new", "done", "crashed"}

----------------------------------------------------------------------------------
\* items.service.get: someone else's item is "not found".
VisibleToAnyone(row, viewer) == row # NoRow   \* faulty: no ownership scope
Visible(row, viewer) == row # NoRow /\ (viewer \in Admin \/ row.owner = viewer)

\* Calls the handler refuses after its read (404, 409 or 422).
Refused(c) ==
    \/ c.op = "create" /\ db[c.item] # NoRow
    \/ c.op \notin Creates /\ ~Visible(db[c.item], c.viewer)
    \/ /\ c.op = "status" /\ Visible(db[c.item], c.viewer)
       /\ c.arg # db[c.item].status
       /\ c.arg \notin AllowedTransitions[db[c.item].status]

\* Calls that leave the session clean: the status or the text the row already holds.
NoChangeOnlyForEdits(c) ==   \* faulty: a repeated status change is announced again
    c.op = "edit" /\ c.arg = db[c.item].text
NoChange(c) ==
    \/ c.op = "status" /\ c.arg = db[c.item].status
    \/ c.op = "edit" /\ c.arg = db[c.item].text

\* A generated uuid is an id no row has and no other request has created.
Generated(c) ==
    c.op \in {"post", "submit"} =>
        /\ db[c.item] = NoRow
        /\ \A q \in Request : phase[q] # "new" => call[q].item # c.item

\* The row an INSERT writes.
CreatedUnowned(c) ==   \* faulty: the owner is not filled in
    [status |-> "draft", archivedAt |-> "null", owner |-> NoOne, text |-> c.arg]
Created(c) ==
    [status |-> "draft", archivedAt |-> "null", owner |-> c.viewer, text |-> c.arg]

\* An UPDATE names only the columns whose value differs from the one the session
\* loaded, so an edit leaves the status of the row as it finds it.
EditedWhole(r, row) == [seen[r] EXCEPT !.text = call[r].arg]   \* faulty: all columns
Edited(r, row) == [row EXCEPT !.text = call[r].arg]

MovedUnstamped(r, row) == [row EXCEPT !.status = call[r].arg]  \* faulty: no archived_at
Moved(r, row) ==
    [row EXCEPT !.status = call[r].arg,
                !.archivedAt = IF IsTerminal(call[r].arg) THEN "stamped" ELSE @]

\* The row after the statement of request r.
Written(r, row) ==
    IF call[r].op \in Creates THEN Created(call[r])
    ELSE IF call[r].op = "delete" THEN NoRow
    ELSE IF call[r].op = "edit" THEN Edited(r, row) ELSE Moved(r, row)

\* An INSERT needs the key to be free, an UPDATE has to match a row (StaleDataError).
InsertOrReplace(r, row) == call[r].op \in Creates \/ row # NoRow   \* faulty: no key check
StatementFits(r, row) == call[r].op \in Creates <=> row = NoRow

----------------------------------------------------------------------------------
Init ==
    /\ db \in [ItemId -> {NoRow} \cup {row \in Row : IsTerminal(row.status) <=> row.archivedAt = "stamped"}]
    /\ lock = [i \in ItemId |-> NoOne]
    /\ phase = [r \in Request |-> "new"]
    /\ call = [r \in Request |-> NoCall]
    /\ seen = [r \in Request |-> NoRow]
    /\ reply = [r \in Request |-> "none"]
    /\ committed = {}
    /\ running = [r \in Request |-> {}]
    /\ delivered = [r \in Request |-> {}]

\* Request r arrives; its SELECT and the decision taken on the row are one step,
\* since nothing is awaited between them.
Get(r) ==
    /\ phase[r] = "new"
    /\ \E c \in Calls :
        /\ Generated(c)
        /\ call' = [call EXCEPT ![r] = c]
        /\ seen' = [seen EXCEPT ![r] = db[c.item]]
        /\ \/ /\ Refused(c)
              /\ phase' = [phase EXCEPT ![r] = "done"]
              /\ reply' = [reply EXCEPT ![r] = "refused"]
           \/ /\ ~Refused(c) /\ NoChange(c)
              /\ phase' = [phase EXCEPT ![r] = "done"]
              /\ reply' = [reply EXCEPT ![r] = "ok"]
           \/ /\ ~Refused(c) /\ ~NoChange(c)
              /\ phase' = [phase EXCEPT ![r] = IF c.op = "delete" THEN "marked" ELSE "pending"]
              /\ UNCHANGED reply
    /\ UNCHANGED <<db, lock, committed, running, delivered>>

\* A statement waits for the transaction that has the row locked.
Free(r) == lock[call[r].item] \in {r, NoOne}

\* faulty: a row that is gone is inserted again from the session's copy
FlushReinserts(r) ==
    LET i == call[r].item
        fits == StatementFits(r, db[i]) IN
    /\ phase[r] = "pending" /\ Free(r)
    /\ phase' = [phase EXCEPT ![r] = IF fits THEN "flushed" ELSE "done"]
    /\ lock' = [lock EXCEPT ![i] = IF fits THEN r ELSE @]
    /\ db' = [db EXCEPT ![i] = IF fits THEN @ ELSE Written(r, seen[r])]
    /\ UNCHANGED <<call, seen, reply, committed, running, delivered>>

\* session.flush(): the INSERT or UPDATE waits for the row's lock, then takes it.
Flush(r) ==
    /\ phase[r] = "pending"
    /\ Free(r)
    /\ IF StatementFits(r, db[call[r].item])
       THEN /\ phase' = [phase EXCEPT ![r] = "flushed"]
            /\ lock' = [lock EXCEPT ![call[r].item] = r]
            /\ UNCHANGED reply
       ELSE /\ phase' = [phase EXCEPT ![r] = "done"]
            /\ reply' = [reply EXCEPT ![r] = "failed"]
            /\ UNCHANGED lock
    /\ UNCHANGED <<db, call, seen, committed, running, delivered>>

\* The transaction of r commits: its row becomes visible and its lock is released.
CommitRow(r) ==
    LET i == call[r].item IN
    /\ db' = [db EXCEPT ![i] = Written(r, @)]
    /\ lock' = [lock EXCEPT ![i] = NoOne]
    /\ committed' = committed \cup {r}

\* The commit before the response; for a status change the event becomes a
\* background task of this request.
Commit(r) ==
    /\ phase[r] = "flushed" /\ call[r].op \in Explicit
    /\ CommitRow(r)
    /\ phase' = [phase EXCEPT ![r] = "saved"]
    /\ UNCHANGED <<call, seen, reply, running, delivered>>

\* The response is sent.  Background tasks run after it, and the teardown of
\* get_session after those.
Respond(r) ==
    /\ \/ phase[r] \in {"saved", "marked"}
       \/ phase[r] = "flushed" /\ call[r].op \notin Explicit
    /\ reply' = [reply EXCEPT ![r] = "ok"]
    /\ IF call[r].op = "status"
       THEN /\ phase' = [phase EXCEPT ![r] = "background"]
            /\ running' = [running EXCEPT ![r] = Handlers]
       ELSE /\ phase' = [phase EXCEPT ![r] = IF phase[r] = "saved" THEN "done" ELSE "open"]
            /\ UNCHANGED running
    /\ UNCHANGED <<db, lock, call, seen, committed, delivered>>

\* The commit in the teardown of get_session.  A DELETE is only issued here, and
\* one that matches no row is not an error.
Teardown(r) ==
    /\ phase[r] = "open"
    /\ Free(r)
    /\ CommitRow(r)
    /\ phase' = [phase EXCEPT ![r] = "done"]
    /\ UNCHANGED <<call, seen, reply, running, delivered>>

\* EventBus.publish gathers the handlers and logs the failures: one handler's
\* exception neither reaches the request nor the other handler.
HandlerReturns(r, h) ==
    /\ phase[r] = "background" /\ h \in running[r]
    /\ running' = [running EXCEPT ![r] = @ \ {h}]
    /\ phase' = [phase EXCEPT ![r] = IF running[r] = {h} THEN "done" ELSE @]
    /\ \/ delivered' = [delivered EXCEPT ![r] = @ \cup {h}]
       \/ UNCHANGED delivered
    /\ UNCHANGED <<db, lock, call, seen, reply, committed>>

\* What the database drops with a transaction that ends without a commit.
Release(r) == [i \in ItemId |-> IF lock[i] = r THEN NoOne ELSE lock[i]]

\* The database refuses a statement or the commit: rollback, and an error response
\* if none was sent yet.
DatabaseFails(r) ==
    /\ phase[r] \in {"pending", "flushed", "open"}
    /\ lock' = Release(r)
    /\ phase' = [phase EXCEPT ![r] = "done"]
    /\ reply' = [reply EXCEPT ![r] = IF phase[r] = "open" THEN @ ELSE "failed"]
    /\ UNCHANGED <<db, call, seen, committed, running, delivered>>

\* The process serving r dies: its transaction is rolled back and its background
\* tasks, which live in memory only, are gone.
Crash(r) ==
    /\ InFlight(r)
    /\ lock' = Release(r)
    /\ phase' = [phase EXCEPT ![r] = "crashed"]
    /\ running' = [running EXCEPT ![r] = {}]
    /\ UNCHANGED <<db, call, seen, reply, committed, delivered>>

AllServed ==
    /\ \A r \in Request : phase[r] \in {"done", "crashed"}
    /\ UNCHANGED vars

Serve(r) ==
    \/ Flush(r) \/ Commit(r) \/ Respond(r) \/ Teardown(r)
    \/ \E h \in Handlers : HandlerReturns(r, h)

Next ==
    \/ \E r \in Request : Get(r) \/ Serve(r) \/ DatabaseFails(r) \/ Crash(r)
    \/ AllServed

Spec == Init /\ [][Next]_vars

\* A coroutine that can run is scheduled, and a released lock wakes a waiter.
\* Arrivals, failures and crashes are the environment's and get no fairness.
FairSpec == Spec /\ \A r \in Request : WF_vars(Serve(r))

----------------------------------------------------------------------------------
Phase == {"new", "pending", "marked", "flushed", "saved", "open", "background",
          "done", "crashed"}

\* Every variable has its type.
TypeOK ==
    /\ db \in [ItemId -> Row \cup {NoRow}]
    /\ lock \in [ItemId -> Request \cup {NoOne}]
    /\ phase \in [Request -> Phase]
    /\ call \in [Request -> Call \cup {NoCall}]
    /\ seen \in [Request -> Row \cup {NoRow}]
    /\ reply \in [Request -> {"none", "ok", "refused", "failed"}]
    /\ committed \subseteq Request
    /\ running \in [Request -> SUBSET Handlers]
    /\ delivered \in [Request -> SUBSET Handlers]

\* No handler ever works on an event whose transaction did not commit, whatever
\* fails or crashes in between (publish_after_commit).
NothingFromRolledBack ==
    \A r \in Request : running[r] # {} \/ delivered[r] # {} => r \in committed

\* A client told that its status change, or its form, succeeded has been told the
\* truth: the transaction is committed, unless the item held that status already.
AckedIsDurable ==
    \A r \in Request :
        reply[r] = "ok" /\ call[r].op \in {"status", "submit"} =>
            r \in committed \/ (seen[r] # NoRow /\ call[r].arg = seen[r].status)

\* A row in the archive always carries the time it was archived.
ArchivedIsStamped ==
    \A i \in ItemId : db[i] # NoRow /\ IsTerminal(db[i].status) => db[i].archivedAt = "stamped"

Commits(r) == r \in committed' \ committed

\* An edit that was decided on an old copy of the row never undoes a status change,
\* an archive date or an owner committed in the meantime.
EditKeepsStatus ==
    [][\A r \in Request : Commits(r) /\ call[r].op = "edit" =>
          LET i == call[r].item IN
          db[i] # NoRow /\ db'[i] = [db[i] EXCEPT !.text = db'[i].text]]_vars

\* Only a create brings back a deleted row: a status change or an edit that read
\* the row before it was deleted does not.
OnlyCreateRevives ==
    [][\A i \in ItemId : db[i] = NoRow /\ db'[i] # NoRow =>
          \E r \in Request : Commits(r) /\ call[r].op \in Creates]_vars

\* Two creates that both found the id free do not overwrite each other.
CreateNeverOverwrites ==
    [][\A r \in Request :
          Commits(r) /\ call[r].op \in Creates => db[call[r].item] = NoRow]_vars

\* While a row lives its archive date is never lost and it is never a draft again,
\* however many stale decisions are committed onto it.
NoStepBack ==
    [][\A i \in ItemId : db[i] # NoRow /\ db'[i] # NoRow =>
          /\ db[i].archivedAt = "stamped" => db'[i].archivedAt = "stamped"
          /\ db[i].status # "draft" => db'[i].status # "draft"]_vars

\* A request that is not an admin's changes only rows its user owns at the moment of
\* the commit, although ownership is checked on the row read earlier: only a create that
\* pins the id again can put someone else's row in its place.
OwnerScoped ==
    [][\A r \in Request : Commits(r) /\ call[r].op \notin Creates =>
          LET row == db[call[r].item] IN
          \/ row = NoRow \/ call[r].viewer \in Admin \/ row.owner = call[r].viewer
          \/ \E q \in committed : call[q].op = "create" /\ call[q].item = call[r].item]_vars

\* service.change_status says a repeated request "is a no-op and emits nothing", so
\* none can "fire a second round of downstream work".
NoSecondRound ==
    [][\A r \in Request : Commits(r) /\ call[r].op = "status" =>
          db[call[r].item].status # call[r].arg]_vars

\* The status changes of a set of requests, as the event of change_status describes them.
ChangesOf(R) ==
    {[token |-> r, item |-> call[r].item, previous |-> seen[r].status, new |-> call[r].arg] :
        r \in {q \in R : call[q].op = "status"}}
Decided == ChangesOf({r \in Request : phase[r] \in {"pending", "flushed"}})
Announced == ChangesOf(committed)

Atomic == INSTANCE AtomicItems
          WITH row <- db, decided <- Decided, announced <- Announced, Token <- Request

\* However requests overlap, fail and die, each is one indivisible change of a row with
\* nothing or all of it done; an announced status change was legal when it was decided, has
\* taken effect with its announcement, and is announced once.
ImplementsAtomicItems == Atomic!Spec
===================================================================================
