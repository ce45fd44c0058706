---------------------------- MODULE MCNodeArrays ----------------------------
(* LeafArray and BranchArray for TLC: a node is a leaf or a branch for all   *)
(* of its life, and the array of the other kind is left alone.               *)
EXTENDS LeafArray, BranchArray

VARIABLE isLeaf

MCInit ==
    /\ isLeaf \in BOOLEAN /\ LeafInit /\ BranchInit
    /\ IF isLeaf THEN Count = 2 ELSE LeafEntryCount(leaf) = 0

MCNext ==
    \/ isLeaf /\ LeafNext /\ UNCHANGED <<branchVars, isLeaf>>
    \/ ~isLeaf /\ BranchNext /\ UNCHANGED <<leafVars, isLeaf>>

MCSpec == MCInit /\ [][MCNext]_<<leafVars, branchVars, isLeaf>>
=============================================================================
