---------------------------- MODULE MCIterators ----------------------------
(* Iterators for TLC: seven entries in three leaves, every kind of traversal *)
(* and calls that change the leaf in front of it, under it and behind it.    *)
EXTENDS MCBPlusTree, Iterators

WalkKinds == {"put", "remove", "deleteRange", "clear", "putMany"}
WalkLoaded == Run(7)
WalkBatches == {<<Item(3)>>, <<Item(5), Item(9)>>, <<Item(8), Item(8)>>}
WalkRanges == {Closed(4, 5)}
WalkTraversals ==
    [kind : {"entries", "entriesReversed", "keys"}, range : {Null}]
    \union [kind : {"forEachRange"}, range : {RangeOf(2, 6, "inclusive", "exclusive")}]
EntriesOnly == [kind : {"entries"}, range : {Null}]

LoadedTraverseSpec == LoadedInit /\ TraverseInit /\ [][TraverseNext]_vars
=============================================================================
