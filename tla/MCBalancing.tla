---------------------------- MODULE MCBalancing ----------------------------
(* BPlusTree and Balancing for TLC: a behaviour makes the calls of the one   *)
(* on a loaded tree, or the steps of the other, and leaves the other alone:  *)
(* on a tree that starts empty, to which entries are added as well, or on    *)
(* one that has grown at its left end to three levels.                       *)
EXTENDS MCBPlusTree, Balancing

CONSTANTS Grown,        \* how many entries the grown tree has
          Fewest,       \* how many of them stay, unless all go
          MaxAdded      \* how many are added to the empty one

OneEntry == {[key |-> 1, entryId |-> 0, value |-> "v"]}

GrownTree ==
    LET Grow(s, e) == Finish(AddEntry(s, s.leftmostLeaf, 1, e))
    IN  Seqs!FoldLeft(Grow, CreateInitialState, [i \in 1..Grown |-> CHOOSE e \in NewEntries : TRUE])

RECURSIVE HeightOf(_, _)
HeightOf(s, n) == IF IsLeaf(s, n) THEN 0 ELSE 1 + HeightOf(s, Head(Children(s, n)))

VARIABLE start

MCInit ==
    /\ start \in {"calls", "empty", "grown"}
    /\ IF start = "calls" THEN LoadedInit ELSE Init
    /\ IF start # "grown" THEN BalancingInit
       ELSE /\ tree = GrownTree /\ call = AtRest
            /\ height = [n \in NodesOf(tree) |-> HeightOf(tree, n)]
MCNext ==
    \/ start = "calls" /\ Next /\ UNCHANGED <<balancingVars, start>>
    \/ /\ start # "calls" /\ BalancingNext /\ UNCHANGED <<state, start>>
       /\ IF start = "empty" THEN tree'.nextSequence <= MaxAdded
          ELSE tree'.nextSequence <= Grown /\ tree'.entryCount \in {0} \union Fewest..Grown
MCSpec == MCInit /\ [][MCNext]_<<state, balancingVars, start>>
=============================================================================
