---------------------------- MODULE MCBPlusTree ----------------------------
(* BPlusTree for TLC: capacities near the smallest, and batches that build   *)
(* trees of up to four levels.  MaxSequence bounds the entries ever put.     *)
EXTENDS Serialization

CONSTANTS Keys, Batches, Ranges, Kinds,
          Loaded                        \* the batch the tree starts with

Item(k) == [key |-> k, value |-> "v"]
Run(n) == [i \in 1..n |-> Item(i)]
RangeOf(lo, hi, lower, upper) ==
    [type |-> "deleteRange", startKey |-> lo, endKey |-> hi,
     options |-> [lowerBound |-> lower, upperBound |-> upper]]
Closed(lo, hi) == RangeOf(lo, hi, "inclusive", "inclusive")
Open(lo, hi) == RangeOf(lo, hi, "exclusive", "exclusive")

MCMutations == {m \in
    [type : {"putMany"}, entries : Batches]
    \union [type : {"put"}, key : Keys, value : {"v"}]
    \union [type : {"remove"}, key : Keys]
    \union [type : {"removeById"}, entryId : 0..MaxSequence]
    \union [type : {"updateById"}, entryId : 0..MaxSequence, value : {"v"}]
    \union [type : {"popFirst", "popLast", "clear"}]
    \union Ranges : m.type \in Kinds}

(* The bulk load of Loaded is the first call of every behaviour. *)
LoadedInit == state = Collect(PutManyEntries(CreateInitialState, Loaded).tree)
LoadedSpec == LoadedInit /\ [][Next]_state

NoTiers == <<[threshold |-> 0, maxLeaf |-> 3, maxBranch |-> 3]>>
SmallTiers == <<[threshold |-> 0, maxLeaf |-> 3, maxBranch |-> 3],
                [threshold |-> 5, maxLeaf |-> 5, maxBranch |-> 3],
                [threshold |-> 9, maxLeaf |-> 5, maxBranch |-> 5]>>

(* Every call on few entries, equal keys among them. *)
AllKinds == {"put", "putMany", "remove", "removeById", "updateById", "popFirst", "popLast",
             "clear", "deleteRange"}
FewLoaded == <<>>
FewBatches == {<<>>, Run(2), Run(5), <<Item(2), Item(1)>>, <<Item(2), Item(2)>>}
FewRanges == {RangeOf(1, 3, "inclusive", "exclusive"), Open(1, 1), Closed(2, 1)}

(* Nine full leaves of nine in three full branches: the next put splits up   *)
(* to a new root.  A batch from one end to the other walks farther than the  *)
(* hint may, and with the lazy threshold of two leaves are refilled late.    *)
(* The keys are even: an odd one can be put once, an even one is refused.    *)
DeepKinds == {"put", "putMany", "remove", "deleteRange"}
DeepLoaded == [i \in 1..81 |-> Item(2 * i)]
DeepBatches == {<<Item(1), Item(161)>>}
DeepRanges == {RangeOf(4, 56, "inclusive", "exclusive"),
               RangeOf(54, 102, "exclusive", "inclusive"), Closed(34, 138)}

(* Two branches of five full leaves, so that branches lend more than one     *)
(* child; the keys are even to leave room between them.                      *)
WideKinds == {"put", "putMany", "remove", "popLast", "deleteRange"}
WideLoaded == [i \in 1..30 |-> Item(2 * i)]
WideBatches == {<<Item(53), Item(62), Item(63)>>, <<Item(8), Item(8)>>}
WideRanges == {Closed(8, 18), RangeOf(34, 46, "exclusive", "inclusive")}

NoPayloads == {}

(* Payloads by hand: capacities of no tier and of the greatest size allowed, *)
(* more entries than the first tier has, and one fault in each of the rest.  *)
PayloadOf(entries, maxLeaf, maxBranch) ==
    [version |-> 1, entries |-> entries,
     config |-> [ConfigOf(CreateInitialState) EXCEPT !.maxLeafEntries = maxLeaf,
                                                     !.maxBranchChildren = maxBranch]]
ScalePayloads ==
    LET good == PayloadOf(Run(8), 4, 3)
        Bad(field, value) == [good EXCEPT !.config = [@ EXCEPT ![field] = value]]
    IN  {good, PayloadOf(Run(9), 3, 3), PayloadOf(<<Item(3)>>, 16384, 4),
         PayloadOf(<<Item(2), Item(1)>>, 3, 3), PayloadOf(<<Item(2), Item(2)>>, 3, 3),
         PayloadOf(Run(10), 3, 3), PayloadOf(<<Item(1), Null>>, 3, 3),
         PayloadOf(Null, 3, 3), [good EXCEPT !.version = 2], [good EXCEPT !.config = Null],
         Bad("maxLeafEntries", 2), Bad("maxLeafEntries", 16385), Bad("maxBranchChildren", Null),
         Bad("duplicateKeys", Null), Bad("autoScale", Null), Bad("enableEntryIdLookup", Null),
         Bad("deleteRebalancePolicy", "eager")}

(* Growing through two tiers and shrinking again, on the tree and its clone. *)
ScaleKinds == {"put", "putMany", "remove", "popLast", "clear", "deleteRange"}
ScaleBatches == {Run(7), Run(10)}
ScaleRanges == {Closed(2, 5)}
=============================================================================
