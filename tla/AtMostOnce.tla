-------------------------------- MODULE AtMostOnce --------------------------------
(***********************************************************************************)
(* What the inbound endpoint promises its senders: however often a delivery is     *)
(* sent, it is recorded once and gives rise to at most one audit entry, never      *)
(* before it is recorded.                                                          *)
(***********************************************************************************)
EXTENDS Naturals

CONSTANT DeliveryId
VARIABLES recorded, entries

Init == recorded = {} /\ entries = [d \in DeliveryId |-> 0]

Record(d) == d \notin recorded /\ recorded' = recorded \cup {d} /\ UNCHANGED entries

Audit(d) ==
    /\ d \in recorded /\ entries[d] = 0
    /\ entries' = [entries EXCEPT ![d] = 1]
    /\ UNCHANGED recorded

Next == \E d \in DeliveryId : Record(d) \/ Audit(d)

Spec == Init /\ [][Next]_<<recorded, entries>>
===================================================================================
