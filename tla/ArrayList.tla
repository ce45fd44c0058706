----------------------------- MODULE ArrayList -----------------------------
(***************************************************************************)
(* What the arrays of a node promise the rest of the tree: a list that each  *)
(* call changes in the place it names, and nowhere else.                     *)
(***************************************************************************)
EXTENDS Arrays

CONSTANT Items

VARIABLES
    list,
    call        \* the last one: what it did, where, and with which items

Called(op, i, items) == [op |-> op, index |-> i, items |-> items]

Init == list \in Seq(Items) /\ call = Called("none", 0, <<>>)

(* The call of a step says where, and with what. *)
Insert ==
    /\ call'.op = "insert" /\ call'.index \in 0..Len(list)
    /\ call'.items \in Seq(Items) /\ Len(call'.items) = 1
    /\ list' = Inserted(list, call'.index, call'.items[1])
Replace ==
    /\ call'.op = "replace" /\ call'.index \in 0..(Len(list) - 1)
    /\ call'.items \in Seq(Items) /\ Len(call'.items) = 1
    /\ list' = Replaced(list, call'.index, call'.items[1])
Remove ==
    LET n == Len(call'.items)
    IN  /\ call'.op = "remove" /\ call'.index \in 0..(Len(list) - n)
        /\ call'.items = SubSeq(list, call'.index + 1, call'.index + n)
        /\ list' = Without(list, call'.index, n)
AppendAll ==
    /\ call'.op = "append" /\ call'.index = Len(list)
    /\ call'.items \in Seq(Items)
    /\ list' = list \o call'.items

Next == Insert \/ Replace \/ Remove \/ AppendAll

Spec == Init /\ [][Next]_<<list, call>>
=============================================================================
