------------------------------- MODULE Nodes -------------------------------
(***************************************************************************)
(* The nodes of the B+ tree: how a tree splits, borrows and merges while it  *)
(* keeps pointers between nodes and, in every branch, the least key of each  *)
(* child.  A tree is a record with the fields of BTreeState; nodes maps the  *)
(* identity of a node to the node.  Every operator takes a tree and yields   *)
(* the next one, as the functions of the source do in place.                 *)
(*                                                                         *)
(* Of the offset arrays of node-ops.ts a branch keeps its live children and  *)
(* childOffset, since indexInParent counts the dead slots; a leaf keeps its  *)
(* live entries alone, since no decision depends on its dead slots.          *)
(*                                                                         *)
(* A split or a merge goes up the tree by calls in last position, one for    *)
(* each level.  Here such a call is left in the field todo of the tree, and   *)
(* Resume makes it: no operator is recursive.                                *)
(***************************************************************************)
EXTENDS Capacities

CONSTANT DeleteRebalancePolicy    \* "standard" or "lazy"
ASSUME RebalanceAssumption == DeleteRebalancePolicy \in {"standard", "lazy"}

None == 0                         \* no node

LeafNode(entries, parent) ==
    [kind |-> "leaf", entries |-> entries, parent |-> parent, indexInParent |-> 0,
     prev |-> None, next |-> None]

IsLeaf(s, n) == s.nodes[n].kind = "leaf"
Entries(s, leaf) == s.nodes[leaf].entries
Children(s, b) == s.nodes[b].children
Parent(s, n) == s.nodes[n].parent
Fresh(s) == Len(s.nodes) + 1                        \* nodes are numbered from 1 on

WithNewNode(s, node) == [s EXCEPT !.nodes = Append(@, node)]

(* The tree with other nodes in the place of some.  The nodes are a sequence, *)
(* and SubSeq has TLC work them out once.                                    *)
WithNodes(s, changed) ==
    [s EXCEPT !.nodes =
        SubSeq([n \in DOMAIN @ |-> IF n \in DOMAIN changed THEN changed[n] ELSE @[n]], 1, Len(@))]

(* The call in last position that is still to be made. *)
Nothing == [op |-> "nothing", parent |-> None, existing |-> None, child |-> None]
ToInsert(parent, existing, child) ==
    [op |-> "insert", parent |-> parent, existing |-> existing, child |-> child]
ToRemove(child) == [op |-> "remove", parent |-> None, existing |-> None, child |-> child]

(* A BTreeInvariantError: the code is in a state it takes for impossible. *)
Broken(s) == [s EXCEPT !.broken = TRUE]

NodeKey(e) == [key |-> e.key, entryId |-> e.entryId]

(* writeMinKeyTo: a branch answers from its cached keys. *)
MinKey(s, n) ==
    LET keys == IF IsLeaf(s, n) THEN Entries(s, n) ELSE s.nodes[n].keys
    IN  IF keys = <<>> THEN Null ELSE NodeKey(Head(keys))

(* The logical position, from 1, of a node among the live children. *)
Position(s, n) == s.nodes[n].indexInParent - s.nodes[Parent(s, n)].childOffset + 1

(* children.length of the array that holds the dead slots as well. *)
ArrayLength(s, b) == s.nodes[b].childOffset + Len(Children(s, b))

-----------------------------------------------------------------------------
(* createInitialState of autoScale.ts, and clear of InMemoryBTree.ts *)

CreateInitialState ==
    [nodes |-> <<LeafNode(<<>>, None)>>, root |-> 1, leftmostLeaf |-> 1, rightmostLeaf |-> 1,
     entryCount |-> 0, nextSequence |-> 0,
     entryKeys |-> IF EnableEntryIdLookup THEN <<>> ELSE Null,
     maxLeafEntries |-> InitialCapacity.maxLeaf,
     minLeafEntries |-> Half(InitialCapacity.maxLeaf),
     maxBranchChildren |-> InitialCapacity.maxBranch,
     minBranchChildren |-> Half(InitialCapacity.maxBranch),
     nextAutoScaleThreshold |->
         IF AutoScale THEN ComputeNextAutoScaleThreshold(0) ELSE NoThreshold,
     todo |-> Nothing, broken |-> FALSE]

(* Faulty variant of ClearTree: the counter starts again. *)
ClearRestartsIds(s) == Returned(CreateInitialState, Null)
ClearTree(s) ==
    LET cleared == [s EXCEPT !.nodes = <<LeafNode(<<>>, None)>>, !.root = 1,
                             !.leftmostLeaf = 1, !.rightmostLeaf = 1, !.entryCount = 0,
                             !.entryKeys = IF EnableEntryIdLookup THEN <<>> ELSE @]
    IN  Returned(IF AutoScale THEN ResetAutoScaleToTier0(cleared) ELSE cleared, Null)

-----------------------------------------------------------------------------
(* node-ops.ts: the branch array. *)

(* The children in the slots from first to last get their indexInParent anew.*)
Reindex(s, b, first, last) ==
    LET At(i) == Children(s, b)[i - s.nodes[b].childOffset + 1]
        Slot(n) == CHOOSE i \in first..last : At(i) = n
    IN  WithNodes(s, [n \in {At(i) : i \in first..last} |->
                         [s.nodes[n] EXCEPT !.indexInParent = Slot(n)]])

(* Faulty variant of BranchCompact: the children that move keep their index. *)
CompactWithoutReindex(s, b) ==
    [s EXCEPT !.nodes[b].childOffset = IF @ <= 1 THEN 0 ELSE 1]

BranchCompact(s, b) ==
    LET off == s.nodes[b].childOffset
        gap == IF off <= 1 THEN 0 ELSE 1
        moved == [s EXCEPT !.nodes[b].childOffset = gap]
    IN  IF off = 0 THEN s ELSE Reindex(moved, b, gap, ArrayLength(moved, b) - 1)

(* The shorter side moves: into a dead slot on the left, or to the right. *)
BranchInsertAt(s, b, logical, child, key) ==
    LET off == s.nodes[b].childOffset
        leftward == off > 0 /\ logical < Len(Children(s, b)) \div 2
        moved == [s EXCEPT !.nodes[b].children = Seqs!InsertAt(@, logical + 1, child),
                           !.nodes[b].keys = Seqs!InsertAt(@, logical + 1, key),
                           !.nodes[b].childOffset = IF leftward THEN @ - 1 ELSE @]
    IN  IF leftward
        THEN Reindex(moved, b, off - 1, off + logical - 1)
        ELSE Reindex(moved, b, off + logical, ArrayLength(moved, b) - 1)

BranchRemoveAt(s, b, index) ==
    LET off == s.nodes[b].childOffset
        logical == index - off
        leftward == logical < Len(Children(s, b)) - 1 - logical
        moved == [s EXCEPT !.nodes[b].children = Seqs!RemoveAt(@, logical + 1),
                           !.nodes[b].keys = Seqs!RemoveAt(@, logical + 1),
                           !.nodes[b].childOffset = IF leftward THEN @ + 1 ELSE @]
        shifted == Reindex(moved, b, off + 1, index)
    IN  CASE leftward /\ off + 1 >= ArrayLength(moved, b) \div 2 -> BranchCompact(shifted, b)
          [] leftward /\ off + 1 < ArrayLength(moved, b) \div 2 -> shifted
          [] OTHER -> Reindex(moved, b, index, ArrayLength(moved, b) - 1)

(* The nodes of a sequence become children of b, in slots from first on.     *)
Adopt(s, b, children, first) ==
    LET Slot(n) == first + (CHOOSE i \in DOMAIN children : children[i] = n) - 1
    IN  WithNodes(s, [n \in Seqs!ToSet(children) |->
                         [s.nodes[n] EXCEPT !.parent = b, !.indexInParent = Slot(n)]])

CreateBranchNode(s, children, parent) ==
    LET b == Fresh(s)
        keys == [i \in DOMAIN children |-> MinKey(s, children[i])]
        branch == [kind |-> "branch", children |-> children, keys |-> keys,
                   childOffset |-> 0, parent |-> parent, indexInParent |-> 0]
    IN  [WithNewNode(Adopt(s, b, children, 0), branch) EXCEPT
            !.broken = @ \/ \E i \in DOMAIN keys : keys[i] = Null]

CreateRoot(s, children) == [CreateBranchNode(s, children, None) EXCEPT !.root = Fresh(s)]

-----------------------------------------------------------------------------
(* split.ts *)

(* The dead slot that compaction leaves counts when the array is halved. *)
SplitBranch(s, b) ==
    LET c == BranchCompact(s, b)
        live == Children(c, b)
        kept == Half(ArrayLength(c, b)) - c.nodes[b].childOffset
        split == CreateBranchNode(c, SubSeq(live, kept + 1, Len(live)), Parent(c, b))
        cut == [split EXCEPT !.nodes[b].children = SubSeq(@, 1, kept),
                             !.nodes[b].keys = SubSeq(@, 1, kept)]
    IN  IF Parent(c, b) = None
        THEN CreateRoot(cut, <<b, Fresh(c)>>)
        ELSE [cut EXCEPT !.todo = ToInsert(Parent(c, b), b, Fresh(c))]

InsertChildAfter(s, parent, existing, child) ==
    LET adopted == [s EXCEPT !.nodes[child].parent = parent,
                             !.broken = @ \/ MinKey(s, child) = Null]
        done == BranchInsertAt(adopted, parent, Position(s, existing), child, MinKey(s, child))
    IN  IF Len(Children(done, parent)) > s.maxBranchChildren
        THEN SplitBranch(done, parent)
        ELSE done

SplitLeaf(s, leaf) ==
    LET node == s.nodes[leaf]
        kept == Half(Len(node.entries))
        sibling == Fresh(s)
        rest == [LeafNode(SubSeq(node.entries, kept + 1, Len(node.entries)), node.parent)
                     EXCEPT !.prev = leaf, !.next = node.next]
        halved == [WithNewNode(s, rest) EXCEPT
                      !.nodes[leaf].entries = SubSeq(@, 1, kept), !.nodes[leaf].next = sibling]
        linked == IF node.next # None
                  THEN [halved EXCEPT !.nodes[node.next].prev = sibling]
                  ELSE [halved EXCEPT !.rightmostLeaf = sibling]
    IN  IF node.parent = None
        THEN CreateRoot(linked, <<leaf, sibling>>)
        ELSE [linked EXCEPT !.todo = ToInsert(node.parent, leaf, sibling)]

-----------------------------------------------------------------------------
(* rebalance-branch.ts *)

(* The node, and those above it as long as they are reached from a first      *)
(* child: None stands for what is beyond.                                    *)
Climb(s, n) ==
    LET up[i \in 0..Len(s.nodes)] ==
            LET below == up[i - 1]
            IN  CASE i = 0 -> n
                  [] i > 0 /\ (below = None \/ Parent(s, below) = None) -> None
                  [] OTHER -> IF Position(s, below) = 1 THEN Parent(s, below) ELSE None
    IN  {up[i] : i \in DOMAIN up}

(* The cached key of a node, and those above it while it is the first child. *)
UpdateMinKeyInAncestors(s, n) ==
    LET known == {m \in Climb(s, n) : m # None /\ Parent(s, m) # None}
        Child(b) == CHOOSE m \in known : Parent(s, m) = b
    IN  IF MinKey(s, n) = Null THEN s
        ELSE WithNodes(s, [b \in {Parent(s, m) : m \in known} |->
                 [s.nodes[b] EXCEPT !.keys[Position(s, Child(b))] = MinKey(s, n)]])

Sibling(s, n, distance) ==
    LET i == Position(s, n) + distance
        siblings == Children(s, Parent(s, n))
    IN  IF i \in DOMAIN siblings THEN siblings[i] ELSE None

BorrowFromRightBranch(s, b, right) ==
    LET parent == Parent(s, b)
        child == Head(Children(s, right))
        taken == [s EXCEPT !.nodes[right] = [s.nodes[right] EXCEPT
                                   !.children = Tail(@), !.keys = Tail(@), !.childOffset = @ + 1]]
        packed == IF taken.nodes[right].childOffset >= ArrayLength(taken, right) \div 2
                  THEN BranchCompact(taken, right) ELSE taken
        given == [packed EXCEPT
                     !.nodes[b] = [packed.nodes[b] EXCEPT !.children = Append(@, child),
                                                          !.keys = Append(@, MinKey(s, child))],
                     !.nodes[child] = [packed.nodes[child] EXCEPT
                                         !.parent = b, !.indexInParent = ArrayLength(s, b)]]
    IN  [given EXCEPT !.nodes[parent].keys[Position(s, b) + 1] = MinKey(given, right)]

BorrowFromLeftBranch(s, b, left) ==
    LET child == Seqs!Last(Children(s, left))
        off == s.nodes[b].childOffset
        taken == [s EXCEPT
                     !.nodes[left] = [s.nodes[left] EXCEPT !.children = Seqs!Front(@),
                                                           !.keys = Seqs!Front(@)],
                     !.nodes[child] = [s.nodes[child] EXCEPT !.parent = b,
                                                             !.indexInParent = off - 1],
                     !.nodes[b] = [s.nodes[b] EXCEPT !.children = <<child>> \o @,
                                                     !.keys = <<MinKey(s, child)>> \o @,
                                                     !.childOffset = IF off > 0 THEN @ - 1 ELSE @]]
        given == IF off > 0 THEN taken ELSE Reindex(taken, b, 0, ArrayLength(taken, b) - 1)
    IN  UpdateMinKeyInAncestors(
            [given EXCEPT !.nodes[Parent(s, b)].keys[Position(s, b)] = MinKey(s, child)], b)

(* The children of from move behind those of into, whose index they take. *)
MoveChildren(s, from, into) ==
    [Adopt(s, into, Children(s, from), ArrayLength(s, into)) EXCEPT
        !.nodes[into].children = @ \o Children(s, from),
        !.nodes[into].keys = @ \o s.nodes[from].keys]

(* A root with one child gives way to it. *)
CollapseRoot(s, b) ==
    LET only == Head(Children(s, b))
        lowered == [s EXCEPT !.nodes[only].parent = None, !.root = only]
    IN  CASE Len(Children(s, b)) # 1 -> s
          [] Len(Children(s, b)) = 1 /\ IsLeaf(s, only) ->
               [lowered EXCEPT !.leftmostLeaf = only, !.rightmostLeaf = only]
          [] OTHER -> lowered

RebalanceAfterBranchRemoval(s, b) ==
    LET left == Sibling(s, b, -1)
        right == Sibling(s, b, 1)
        Spares(n) == n # None /\ Len(Children(s, n)) > s.minBranchChildren
    IN  CASE b = s.root -> CollapseRoot(s, b)
          [] b # s.root /\ Len(Children(s, b)) >= s.minBranchChildren -> s
          [] OTHER ->
               CASE Spares(right) -> BorrowFromRightBranch(s, b, right)
                 [] ~Spares(right) /\ Spares(left) -> BorrowFromLeftBranch(s, b, left)
                 [] ~Spares(right) /\ left # None /\ ~Spares(left) ->
                      [MoveChildren(s, b, left) EXCEPT !.todo = ToRemove(b)]
                 [] left = None /\ right # None /\ ~Spares(right) ->
                      [MoveChildren(s, right, b) EXCEPT !.todo = ToRemove(right)]
                 [] OTHER -> Broken(s)

(* Faulty variant of RemoveFromParent: the level above is left as it is.     *)
RemoveFromParentOnly(s, n) == BranchRemoveAt(s, Parent(s, n), s.nodes[n].indexInParent)
RemoveFromParent(s, n) ==
    LET parent == Parent(s, n)
    IN  RebalanceAfterBranchRemoval(
            BranchRemoveAt(s, parent, s.nodes[n].indexInParent), parent)

(* The call that is still to be made. *)
Resume(s) ==
    LET taken == [s EXCEPT !.todo = Nothing]
    IN  CASE s.todo.op = "insert" ->
               InsertChildAfter(taken, s.todo.parent, s.todo.existing, s.todo.child)
          [] s.todo.op = "remove" -> RemoveFromParent(taken, s.todo.child)
          [] OTHER -> s

-----------------------------------------------------------------------------
(* rebalance.ts *)

(* Faulty variant of DetachLeafFromChain: the last leaf is forgotten.        *)
DetachLeafKeepingRightmost(s, leaf) ==
    LET prev == s.nodes[leaf].prev
        next == s.nodes[leaf].next
        fromLeft == IF prev # None THEN [s EXCEPT !.nodes[prev].next = next]
                    ELSE [s EXCEPT !.leftmostLeaf = next]
    IN  IF next # None THEN [fromLeft EXCEPT !.nodes[next].prev = prev] ELSE fromLeft

DetachLeafFromChain(s, leaf) ==
    LET prev == s.nodes[leaf].prev
        next == s.nodes[leaf].next
        fromLeft == CASE prev # None -> [s EXCEPT !.nodes[prev].next = next]
                      [] prev = None /\ next # None -> [s EXCEPT !.leftmostLeaf = next]
                      [] OTHER -> s
        fromRight == CASE next # None -> [fromLeft EXCEPT !.nodes[next].prev = prev]
                       [] next = None /\ prev # None -> [fromLeft EXCEPT !.rightmostLeaf = prev]
                       [] OTHER -> fromLeft
    IN  [fromRight EXCEPT !.nodes[leaf].prev = None, !.nodes[leaf].next = None]

LazyThreshold(min) == LET quarter == (min + 3) \div 4 IN IF quarter > 1 THEN quarter ELSE 1
(* Faulty variant of LeafRebalanceThreshold: the quarter is rounded down.    *)
ThresholdRoundedDown(s) ==
    IF DeleteRebalancePolicy = "lazy" THEN s.minLeafEntries \div 4 ELSE s.minLeafEntries
LeafRebalanceThreshold(s) ==
    IF DeleteRebalancePolicy = "lazy" THEN LazyThreshold(s.minLeafEntries) ELSE s.minLeafEntries

(* Faulty variant of RefreshIfEmptied: the cached keys stay those of entries *)
(* that are gone.                                                            *)
LeaveKeysStale(s, before, leaf) == s
(* A leaf that was emptied takes its least key from the entry it is given. *)
RefreshIfEmptied(s, before, leaf) ==
    IF Entries(before, leaf) = <<>> THEN UpdateMinKeyInAncestors(s, leaf) ELSE s

BorrowFromRightLeaf(s, leaf, right) ==
    LET given == [s EXCEPT !.nodes[leaf].entries = Append(@, Head(Entries(s, right))),
                           !.nodes[right].entries = Tail(@)]
        cached == [given EXCEPT
                      !.nodes[Parent(s, leaf)].keys[Position(s, leaf) + 1] = MinKey(given, right)]
    IN  RefreshIfEmptied(cached, s, leaf)

BorrowFromLeftLeaf(s, leaf, left) ==
    LET borrowed == Seqs!Last(Entries(s, left))
        given == [s EXCEPT !.nodes[leaf].entries = <<borrowed>> \o @,
                           !.nodes[left].entries = Seqs!Front(@),
                           !.nodes[Parent(s, leaf)].keys[Position(s, leaf)] = NodeKey(borrowed)]
    IN  UpdateMinKeyInAncestors(given, leaf)

(* The right one of two leaves is absorbed by the left one. *)
AbsorbLeaf(s, target, source) ==
    DetachLeafFromChain([s EXCEPT !.nodes[target].entries = @ \o Entries(s, source)], source)

RebalanceAfterLeafRemoval(s, leaf) ==
    LET left == Sibling(s, leaf, -1)
        right == Sibling(s, leaf, 1)
        Spares(n) == n # None /\ Len(Entries(s, n)) > s.minLeafEntries
    IN  CASE leaf = s.root /\ s.entryCount = 0 ->
               [s EXCEPT !.leftmostLeaf = leaf, !.rightmostLeaf = leaf]
          [] leaf = s.root /\ s.entryCount # 0 -> s
          [] leaf # s.root /\ Len(Entries(s, leaf)) >= LeafRebalanceThreshold(s) -> s
          [] OTHER ->
               CASE Spares(right) -> BorrowFromRightLeaf(s, leaf, right)
                 [] ~Spares(right) /\ Spares(left) -> BorrowFromLeftLeaf(s, leaf, left)
                 [] ~Spares(right) /\ left # None /\ ~Spares(left) ->
                      [AbsorbLeaf(s, left, leaf) EXCEPT !.todo = ToRemove(leaf)]
                 [] left = None /\ right # None /\ ~Spares(right) ->
                      [RefreshIfEmptied(AbsorbLeaf(s, leaf, right), s, leaf)
                           EXCEPT !.todo = ToRemove(right)]
                 [] OTHER -> Broken(s)

-----------------------------------------------------------------------------
(* What the calls do to one leaf: mutations.ts and deleteRange.ts. *)

Learn(s, e) ==
    IF EnableEntryIdLookup
    THEN [s EXCEPT !.entryKeys = [id \in DOMAIN @ \union {e.entryId} |->
                                     IF id = e.entryId THEN e.key ELSE @[id]]]
    ELSE s
Forget(s, ids) ==
    IF EnableEntryIdLookup
    THEN [s EXCEPT !.entryKeys = [id \in DOMAIN @ \ ids |-> @[id]]] ELSE s

AddEntry(s, leaf, index, e) ==
    LET inserted == Learn([s EXCEPT !.nextSequence = @ + 1, !.entryCount = @ + 1,
                                    !.nodes[leaf].entries = Seqs!InsertAt(@, index, e)], e)
        guided == IF index = 1 THEN UpdateMinKeyInAncestors(inserted, leaf) ELSE inserted
    IN  IF Len(Entries(guided, leaf)) > s.maxLeafEntries THEN SplitLeaf(guided, leaf) ELSE guided

(* Every removal of one entry ends this way; a caller leaves the root and a  *)
(* leaf that is full enough alone.                                           *)
RemoveEntry(s, leaf, index) ==
    LET removed == Forget([s EXCEPT !.nodes[leaf].entries = Seqs!RemoveAt(@, index),
                                    !.entryCount = @ - 1], {Entries(s, leaf)[index].entryId})
        guided == IF index = 1 THEN UpdateMinKeyInAncestors(removed, leaf) ELSE removed
        short == leaf # s.root /\ Len(Entries(guided, leaf)) < s.minLeafEntries
    IN  IF short THEN RebalanceAfterLeafRemoval(guided, leaf) ELSE guided

(* Faulty variant of Splice: the ids are looked up after the entries moved.  *)
SpliceThenForget(s, leaf, first, last) ==
    LET cut == [s EXCEPT !.nodes[leaf].entries =
                             SubSeq(@, 1, first - 1) \o SubSeq(@, last + 1, Len(@)),
                         !.entryCount = @ - (last - first + 1)]
        gone == {Entries(cut, leaf)[i].entryId :
                    i \in (first..last) \intersect DOMAIN Entries(cut, leaf)}
    IN  IF first = 1 THEN UpdateMinKeyInAncestors(Forget(cut, gone), leaf) ELSE Forget(cut, gone)

(* The entries from the first index up to the last are taken out. *)
Splice(s, leaf, first, last) ==
    LET gone == {Entries(s, leaf)[i].entryId : i \in first..last}
        cut == Forget([s EXCEPT !.nodes[leaf].entries =
                                    SubSeq(@, 1, first - 1) \o SubSeq(@, last + 1, Len(@)),
                                !.entryCount = @ - (last - first + 1)], gone)
    IN  IF first = 1 THEN UpdateMinKeyInAncestors(cut, leaf) ELSE cut

(* Whether the parent of the leaf, or the root, still points to it.  The     *)
(* dead slots of the parent never hold a leaf that was absorbed: that leaf   *)
(* had a sibling on its left.                                                *)
IsLeafStillValid(s, leaf) ==
    IF Parent(s, leaf) = None THEN leaf = s.root
    ELSE /\ Position(s, leaf) \in DOMAIN Children(s, Parent(s, leaf))
         /\ Children(s, Parent(s, leaf))[Position(s, leaf)] = leaf
=============================================================================
