------------------------------- MODULE Arrays -------------------------------
(***************************************************************************)
(* Lists, and the JavaScript arrays that hold them.  An array is a sequence; *)
(* a slot is counted from 0, as in the source, and slot p of a is a[p + 1].  *)
(* Everything is given element by element, as LeafArrayProofs.tla needs it.  *)
(***************************************************************************)
EXTENDS Integers, Sequences

(* The list with x behind its first i items; without the n behind them; with *)
(* x in the place of item i + 1.                                             *)
Inserted(list, i, x) ==
    [j \in 1..(Len(list) + 1) |->
        IF j <= i THEN list[j] ELSE IF j = i + 1 THEN x ELSE list[j - 1]]
Without(list, i, n) ==
    [j \in 1..(Len(list) - n) |-> IF j <= i THEN list[j] ELSE list[j + n]]
Replaced(list, i, x) == [list EXCEPT ![i + 1] = x]
Shortened(list, n) == [j \in 1..n |-> list[j]]

(* array.copyWithin(target, start, end), and array.length = n.               *)
CopyWithin(a, target, start, end) ==
    [j \in 1..Len(a) |->
        IF target < j /\ j <= target + (end - start) THEN a[j - target + start] ELSE a[j]]
Truncated(a, n) == Shortened(a, n)
Pushed(a, x) == [j \in 1..(Len(a) + 1) |-> IF j = Len(a) + 1 THEN x ELSE a[j]]

(* The slots from an offset on: those in front of it are dead.               *)
LiveFrom(a, offset) == [j \in 1..(Len(a) - offset) |-> a[offset + j]]
=============================================================================
