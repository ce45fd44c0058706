----------------------------- MODULE Balancing -----------------------------
(***************************************************************************)
(* How the nodes of the B+ tree stay balanced, one step of Nodes.tla at a     *)
(* time: an entry is put into or taken out of any leaf, or a run of entries  *)
(* spliced out of it, whatever the key; then come the splits, borrows and    *)
(* merges of each level, and for a splice the loop that refills the leaf.    *)
(* BPlusTree.tla runs the same steps to their end within one call, at the    *)
(* leaf and the index its lookups find, and only while there are ids.        *)
(***************************************************************************)
EXTENDS Nodes

CONSTANT NewEntries           \* what is put: the nodes do not look at it
ASSUME NewEntriesAssumption ==
    \A e \in NewEntries : e.key \in Int /\ e.entryId \in Nat
ASSUME NullAssumption == Null \notin [key : Int, entryId : Nat]

VARIABLES
    tree,                     \* BTreeState, as in Nodes.tla
    height,                   \* the height above the leaves of each node in the tree
    call                      \* the call under way
balancingVars == <<tree, height, call>>

AtRest == [op |-> "none", leaf |-> None, guard |-> 0]

Least == LET min == Half(InitialCapacity.maxLeaf)
         IN  [leaf |-> IF DeleteRebalancePolicy = "lazy" THEN LazyThreshold(min) ELSE min,
              branch |-> Half(InitialCapacity.maxBranch)]

-----------------------------------------------------------------------------
BalancingInit ==
    /\ tree = CreateInitialState
    /\ height = [n \in {1} |-> 0]
    /\ call = AtRest

(* A history: a new node is a leaf, or one above its first child, which is   *)
(* not new; the child that RemoveFromParent takes out is gone, and so is a   *)
(* root that gave way to its only child.                                     *)
HeightsIn(next) ==
    LET new == DOMAIN next.nodes \ DOMAIN tree.nodes
        gone == {n \in DOMAIN height : \/ tree.todo = ToRemove(n)
                                       \/ n = tree.root /\ next.root \in DOMAIN height \ {n}}
        Above(n) == IF IsLeaf(next, n) THEN 0 ELSE height[Head(Children(next, n))] + 1
    IN  [n \in (DOMAIN height \ gone) \union new |->
            IF n \in new THEN Above(n) ELSE height[n]]

Becomes(next) == tree' = next /\ height' = HeightsIn(next)

LiveLeaves == {n \in DOMAIN height : IsLeaf(tree, n)}
Size(n) == Len(Entries(tree, n))

AddAnEntry ==
    /\ call = AtRest
    /\ \E leaf \in LiveLeaves, e \in NewEntries : \E index \in 1..Size(leaf) + 1 :
          Becomes(AddEntry(tree, leaf, index, e))
    /\ call' = [AtRest EXCEPT !.op = "add"]

TakeAnEntry ==
    /\ call = AtRest
    /\ \E leaf \in LiveLeaves : \E index \in 1..Size(leaf) :
          Becomes(RemoveEntry(tree, leaf, index))
    /\ call' = [AtRest EXCEPT !.op = "take"]

(* A call in last position. *)
Continue ==
    /\ tree.todo # Nothing
    /\ Becomes(Resume(tree))
    /\ UNCHANGED call

EndOfAdd ==
    /\ call.op = "add" /\ tree.todo = Nothing
    /\ tree' = MaybeAutoScale(tree)
    /\ call' = AtRest
    /\ UNCHANGED height

EndOfTake ==
    /\ call.op = "take" /\ tree.todo = Nothing
    /\ call' = AtRest
    /\ UNCHANGED <<tree, height>>

(* spliceLeafAndRebalance: a range of entries of one leaf, and the refill.   *)
DeleteRun ==
    /\ call = AtRest
    /\ \E leaf \in LiveLeaves : \E first \in 1..Size(leaf) : \E last \in first..Size(leaf) :
          /\ Becomes(Splice(tree, leaf, first, last))
          /\ call' = [op |-> "refill", leaf |-> leaf, guard |-> tree.minLeafEntries + 4]

(* Faulty variant of IsRefilled: one entry more than the threshold. *)
IsRefilledBeyond(s, leaf) == leaf = s.root \/ Len(Entries(s, leaf)) > LeafRebalanceThreshold(s)
IsRefilled(s, leaf) == leaf = s.root \/ Len(Entries(s, leaf)) >= LeafRebalanceThreshold(s)
WasMerged(s, leaf) == Parent(s, leaf) # None /\ ~IsLeafStillValid(s, leaf)
MustRefill ==
    call.guard > 0 /\ ~IsRefilled(tree, call.leaf) /\ ~WasMerged(tree, call.leaf)

RefillOnce ==
    /\ call.op = "refill" /\ tree.todo = Nothing /\ MustRefill
    /\ Becomes(RebalanceAfterLeafRemoval(tree, call.leaf))
    /\ call' = [call EXCEPT !.guard = @ - 1]

EndOfRefill ==
    /\ call.op = "refill" /\ tree.todo = Nothing /\ ~MustRefill
    /\ call' = AtRest
    /\ UNCHANGED <<tree, height>>

ClearAll ==
    /\ call = AtRest
    /\ tree' = ClearTree(tree).tree
    /\ height' = [n \in {1} |-> 0]
    /\ UNCHANGED call

BalancingNext ==
    \/ AddAnEntry \/ TakeAnEntry \/ Continue \/ EndOfAdd \/ EndOfTake
    \/ DeleteRun \/ RefillOnce \/ EndOfRefill \/ ClearAll

BalancingSpec == BalancingInit /\ [][BalancingNext]_balancingVars

-----------------------------------------------------------------------------
LiveBranches == DOMAIN height \ LiveLeaves

(* Parent and child point to each other, and a child is one lower.           *)
ChildrenAreInPlace ==
    /\ tree.root \in DOMAIN height /\ Parent(tree, tree.root) = None
    /\ \A n \in LiveLeaves : height[n] = 0
    /\ \A b \in LiveBranches : \A i \in DOMAIN Children(tree, b) :
          LET child == Children(tree, b)[i]
          IN  /\ child \in DOMAIN height /\ height[child] = height[b] - 1
              /\ Parent(tree, child) = b /\ Position(tree, child) = i
    /\ \A n \in DOMAIN height \ {tree.root} :
          /\ Parent(tree, n) \in LiveBranches
          /\ \E i \in DOMAIN Children(tree, Parent(tree, n)) : Children(tree, Parent(tree, n))[i] = n

NodesAreFilled ==
    /\ \A n \in LiveLeaves :
          Size(n) \in (IF n = tree.root THEN 0 ELSE Least.leaf)..tree.maxLeafEntries
    /\ \A b \in LiveBranches :
          Len(Children(tree, b)) \in
              (IF b = tree.root THEN 2 ELSE Least.branch)..tree.maxBranchChildren

(* Whenever no call is under way the tree is one of which every leaf is as   *)
(* deep as every other, every child and parent point to each other, no node  *)
(* is fuller than the capacity and none but the root emptier than the        *)
(* minimum of integrity.ts; and no call meets a state it takes for           *)
(* impossible (the BTreeInvariantErrors of rebalance.ts and                  *)
(* rebalance-branch.ts).                                                     *)
BalanceIsKept == ~tree.broken /\ (call = AtRest => ChildrenAreInPlace /\ NodesAreFilled)

(* The guard of the refill loop never ends it: the leaf is full enough or    *)
(* merged away after minLeafEntries steps at most, two fewer than the        *)
(* comment allows for (deleteRange.ts:86).                                   *)
RefillConverges == call.op = "refill" => call.guard >= 4
=============================================================================
