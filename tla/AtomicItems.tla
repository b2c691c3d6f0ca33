------------------------------- MODULE AtomicItems -------------------------------
(***********************************************************************************)
(* What the items domain promises.  A create, an edit and a delete are each one    *)
(* indivisible change of one row.  A status change is decided at one moment, when  *)
(* it must be a legal move of the row as it is, and takes effect at a later one,   *)
(* together with its announcement, or not at all.                                  *)
(***********************************************************************************)
CONSTANTS ItemId, User, Text, NoRow,
          Token   \* identities of the status changes

VARIABLES row,
          decided,   \* the moves that are decided and have yet to take effect
          announced  \* the moves that took effect

Lifecycle == {<<"draft", "active">>, <<"draft", "archived">>, <<"active", "archived">>}

Rows == [status: {"draft", "active", "archived"}, archivedAt: {"null", "stamped"},
         owner: User, text: Text]

Init ==
    /\ row \in [ItemId -> {NoRow} \cup
                    {x \in Rows : x.status = "archived" <=> x.archivedAt = "stamped"}]
    /\ decided = {}
    /\ announced = {}

Create(i) ==
    /\ row[i] = NoRow
    /\ \E u \in User, t \in Text :
        row' = [row EXCEPT ![i] = [status |-> "draft", archivedAt |-> "null",
                                   owner |-> u, text |-> t]]
    /\ UNCHANGED <<decided, announced>>

Edit(i) ==
    /\ row[i] # NoRow
    /\ \E t \in Text : row' = [row EXCEPT ![i].text = t]
    /\ UNCHANGED <<decided, announced>>

Delete(i) ==
    /\ row[i] # NoRow
    /\ row' = [row EXCEPT ![i] = NoRow]
    /\ UNCHANGED <<decided, announced>>

\* The move is legal now; each has a token of its own.
Decide(i, s) ==
    /\ row[i] # NoRow /\ <<row[i].status, s>> \in Lifecycle
    /\ \E t \in Token :
        /\ \A e \in decided \cup announced : e.token # t
        /\ decided' = decided \cup
               {[token |-> t, item |-> i, previous |-> row[i].status, new |-> s]}
    /\ UNCHANGED <<row, announced>>

\* It takes effect on the row as it is by then, and is announced as it was decided.
Move(e) ==
    /\ row[e.item] # NoRow
    /\ row' = [row EXCEPT ![e.item].status = e.new,
                          ![e.item].archivedAt = IF e.new = "archived" THEN "stamped" ELSE @]
    /\ decided' = decided \ {e}
    /\ announced' = announced \cup {e}

GiveUp(e) ==
    /\ decided' = decided \ {e}
    /\ UNCHANGED <<row, announced>>

Next ==
    \/ \E i \in ItemId :
          Create(i) \/ Edit(i) \/ Delete(i) \/ \E s \in {"active", "archived"} : Decide(i, s)
    \/ \E e \in decided : Move(e) \/ GiveUp(e)

Spec == Init /\ [][Next]_<<row, decided, announced>>
===================================================================================
