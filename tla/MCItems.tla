--------------------------------- MODULE MCItems ---------------------------------
(***********************************************************************************)
(* Instances of Items small enough for TLC.                                        *)
(***********************************************************************************)
EXTENDS Items, TLC

CONSTANTS i1, ann, bob, root, t1, t2

\* Ann drives the item through its lifecycle, edits it and submits the form; bob and the
\* administrator interfere; the id may be pinned again after a delete.
CallsOnOneItem ==
    [op: {"status"}, item: {i1}, viewer: {ann}, arg: {"draft", "active", "archived"}]
    \cup [op: {"status"}, item: {i1}, viewer: {bob}, arg: {"archived"}]
    \cup [op: {"edit"}, item: {i1}, viewer: {ann}, arg: {t2}]
    \cup [op: {"delete"}, item: {i1}, viewer: {root}, arg: {t1}]
    \cup [op: {"create"}, item: {i1}, viewer: {bob, root}, arg: {t1}]
    \cup [op: {"post", "submit"}, item: {i1}, viewer: {ann}, arg: {t1}]

\* Only status changes of one user.
StatusCalls ==
    [op: {"status"}, item: ItemId, viewer: {ann}, arg: {"active", "archived"}]

RequestSymmetry == Permutations(Request)
===================================================================================
