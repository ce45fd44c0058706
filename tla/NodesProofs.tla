---------------------------- MODULE NodesProofs ----------------------------
(***************************************************************************)
(* What each operator of Nodes.tla does to a tree.  A node has a content (its *)
(* entries, or its children and as many cached keys) and a place (its parent *)
(* and its slot there); a lemma says which nodes an operator gives another    *)
(* content or another place.  BalancingProofs.tla builds on these lemmas.     *)
(***************************************************************************)
EXTENDS Balancing, SequenceTheorems, TLAPS

NodeKeys == [key : Int, entryId : Nat]
LeafNodes == [kind : {"leaf"}, entries : Seq(NewEntries), parent : Nat, indexInParent : Int,
              prev : Nat, next : Nat]
BranchNodes == [kind : {"branch"}, children : Seq(Nat), keys : Seq(NodeKeys),
                childOffset : Nat, parent : Nat, indexInParent : Int]

IsTree(s) ==
    /\ s = [nodes |-> s.nodes, root |-> s.root, leftmostLeaf |-> s.leftmostLeaf,
            rightmostLeaf |-> s.rightmostLeaf, entryCount |-> s.entryCount,
            nextSequence |-> s.nextSequence, entryKeys |-> s.entryKeys,
            maxLeafEntries |-> s.maxLeafEntries, minLeafEntries |-> s.minLeafEntries,
            maxBranchChildren |-> s.maxBranchChildren,
            minBranchChildren |-> s.minBranchChildren,
            nextAutoScaleThreshold |-> s.nextAutoScaleThreshold,
            todo |-> s.todo, broken |-> s.broken]
    /\ s.nodes \in Seq(LeafNodes \union BranchNodes)

Ids(s) == DOMAIN s.nodes
Slot(s, n) == s.nodes[n].indexInParent
Offset(s, b) == s.nodes[b].childOffset
Keys(s, b) == s.nodes[b].keys
Held(list) == {list[i] : i \in DOMAIN list}

SameCapacity(s, t) ==
    /\ t.maxLeafEntries = s.maxLeafEntries /\ t.minLeafEntries = s.minLeafEntries
    /\ t.maxBranchChildren = s.maxBranchChildren
    /\ t.minBranchChildren = s.minBranchChildren
    /\ t.nextAutoScaleThreshold = s.nextAutoScaleThreshold

(* But for the nodes, and for what no node depends on, the trees are the same.*)
SameButNodes(s, t) ==
    /\ IsTree(t) /\ t.root = s.root /\ t.todo = s.todo /\ t.broken = s.broken
    /\ t.entryCount = s.entryCount /\ SameCapacity(s, t)

SameContent(s, t, n) ==
    /\ IsLeaf(t, n) <=> IsLeaf(s, n)
    /\ IsLeaf(s, n) => Entries(t, n) = Entries(s, n)
    /\ ~IsLeaf(s, n) => /\ Children(t, n) = Children(s, n) /\ Offset(t, n) = Offset(s, n)
                        /\ Len(Keys(t, n)) = Len(Keys(s, n))
SamePlace(s, t, n) == Parent(t, n) = Parent(s, n) /\ Slot(t, n) = Slot(s, n)

-----------------------------------------------------------------------------
(* Sequences. *)

LEMMA PieceIs ==
  ASSUME NEW T, NEW q \in Seq(T), NEW m \in 1..Len(q) + 1, NEW n \in 0..Len(q), m <= n + 1
  PROVE  /\ SubSeq(q, m, n) \in Seq(T) /\ Len(SubSeq(q, m, n)) = n - m + 1
         /\ \A j \in 1..n - m + 1 : SubSeq(q, m, n)[j] = q[m + j - 1]
OBVIOUS

LEMMA JoinIs ==
  ASSUME NEW T, NEW p \in Seq(T), NEW q \in Seq(T)
  PROVE  /\ p \o q \in Seq(T) /\ Len(p \o q) = Len(p) + Len(q)
         /\ \A j \in 1..Len(p) + Len(q) : (p \o q)[j] = IF j <= Len(p) THEN p[j] ELSE q[j - Len(p)]
OBVIOUS

LEMMA InsertAtIs ==
  ASSUME NEW T, NEW q \in Seq(T), NEW e \in T, NEW i \in 1..Len(q) + 1
  PROVE  /\ Seqs!InsertAt(q, i, e) \in Seq(T)
         /\ Len(Seqs!InsertAt(q, i, e)) = Len(q) + 1
         /\ \A j \in 1..Len(q) + 1 :
               Seqs!InsertAt(q, i, e)[j] = IF j < i THEN q[j] ELSE IF j = i THEN e ELSE q[j - 1]
<1> DEFINE front == SubSeq(q, 1, i - 1)
           back == SubSeq(q, i, Len(q))
           before == front \o <<e>>
<1>1. /\ front \in Seq(T) /\ Len(front) = i - 1 /\ Len(q) \in Nat /\ i \in Nat
      /\ \A j \in 1..i - 1 : front[j] = q[j]
  BY PieceIs
<1>2. /\ back \in Seq(T) /\ Len(back) = Len(q) - i + 1
      /\ \A j \in 1..Len(q) - i + 1 : back[j] = q[i + j - 1]
  BY PieceIs
<1>3. <<e>> \in Seq(T) /\ Len(<<e>>) = 1 /\ <<e>>[1] = e
  OBVIOUS
<1> HIDE DEF front, back
<1>4. /\ before \in Seq(T) /\ Len(before) = i
      /\ \A j \in 1..i : before[j] = IF j < i THEN q[j] ELSE e
  <2>1. /\ before \in Seq(T) /\ Len(before) = i - 1 + 1
        /\ \A j \in 1..i - 1 + 1 : before[j] = IF j <= i - 1 THEN front[j] ELSE <<e>>[j - (i - 1)]
    BY <1>1, <1>3, JoinIs
  <2> HIDE DEF before
  <2> QED BY <1>1, <1>3, <2>1
<1> HIDE DEF before
<1>5. /\ before \o back \in Seq(T) /\ Len(before \o back) = i + Len(q) - i + 1
      /\ \A j \in 1..i + Len(q) - i + 1 :
            (before \o back)[j] = IF j <= i THEN before[j] ELSE back[j - i]
  BY <1>1, <1>2, <1>4, JoinIs
<1>6. Seqs!InsertAt(q, i, e) = before \o back
  BY DEF Seqs!InsertAt, before, front, back
<1> QED BY <1>1, <1>2, <1>4, <1>5, <1>6

LEMMA RemoveAtIs ==
  ASSUME NEW T, NEW q \in Seq(T), NEW i \in 1..Len(q)
  PROVE  /\ Seqs!RemoveAt(q, i) \in Seq(T)
         /\ Len(Seqs!RemoveAt(q, i)) = Len(q) - 1
         /\ \A j \in 1..Len(q) - 1 :
               Seqs!RemoveAt(q, i)[j] = IF j < i THEN q[j] ELSE q[j + 1]
<1> DEFINE front == SubSeq(q, 1, i - 1)
           back == SubSeq(q, i + 1, Len(q))
<1>1. /\ front \in Seq(T) /\ Len(front) = i - 1 /\ Len(q) \in Nat /\ i \in Nat
      /\ \A j \in 1..i - 1 : front[j] = q[j]
  BY PieceIs
<1>2. /\ back \in Seq(T) /\ Len(back) = Len(q) - i
      /\ \A j \in 1..Len(q) - i : back[j] = q[i + j]
  BY PieceIs
<1>3. Seqs!RemoveAt(q, i) = front \o back
  BY DEF Seqs!RemoveAt
<1> HIDE DEF front, back
<1>4. /\ front \o back \in Seq(T) /\ Len(front \o back) = Len(q) - 1
      /\ \A j \in 1..Len(q) - 1 :
            (front \o back)[j] = IF j <= i - 1 THEN front[j] ELSE back[j - (i - 1)]
  <2>1. /\ front \o back \in Seq(T) /\ Len(front \o back) = Len(front) + Len(back)
        /\ \A j \in 1..Len(front) + Len(back) :
              (front \o back)[j] = IF j <= Len(front) THEN front[j] ELSE back[j - Len(front)]
    BY <1>1, <1>2, JoinIs
  <2> QED BY <1>1, <1>2, <2>1
<1> QED BY <1>1, <1>2, <1>3, <1>4

LEMMA FrontIs ==
  ASSUME NEW T, NEW q \in Seq(T), Len(q) > 0
  PROVE  /\ Seqs!Front(q) \in Seq(T) /\ Len(Seqs!Front(q)) = Len(q) - 1
         /\ \A j \in 1..Len(q) - 1 : Seqs!Front(q)[j] = q[j]
         /\ Seqs!Last(q) \in T /\ Seqs!Last(q) = q[Len(q)]
<1> DEFINE n == Len(q) - 1
<1>1. n \in 0..Len(q) /\ 1 \in 1..Len(q) + 1 /\ 1 <= n + 1 /\ q[Len(q)] \in T
  OBVIOUS
<1> HIDE DEF n
<1>2. /\ SubSeq(q, 1, n) \in Seq(T) /\ Len(SubSeq(q, 1, n)) = n - 1 + 1
      /\ \A j \in 1..n - 1 + 1 : SubSeq(q, 1, n)[j] = q[1 + j - 1]
  BY <1>1, PieceIs
<1>3. Seqs!Front(q) = SubSeq(q, 1, n) /\ Seqs!Last(q) = q[Len(q)]
  BY DEF n, Seqs!Front, Seqs!Last
<1>4. n = Len(q) - 1 /\ n \in Int
  BY <1>1 DEF n
<1> QED BY <1>1, <1>2, <1>3, <1>4

LEMMA SameSeq ==
  ASSUME NEW T, NEW q \in Seq(T)
  PROVE  SubSeq(q, 1, Len(q)) = q
OBVIOUS

-----------------------------------------------------------------------------
(* Trees. *)

LEMMA NodesAre ==
  ASSUME NEW s, IsTree(s)
  PROVE  /\ Len(s.nodes) \in Nat /\ Ids(s) = 1..Len(s.nodes)
         /\ \A n \in Ids(s) :
               /\ Parent(s, n) \in Nat /\ Slot(s, n) \in Int
               /\ IsLeaf(s, n) => s.nodes[n] \in LeafNodes /\ Entries(s, n) \in Seq(NewEntries)
               /\ ~IsLeaf(s, n) => /\ s.nodes[n] \in BranchNodes /\ Children(s, n) \in Seq(Nat)
                                   /\ Keys(s, n) \in Seq(NodeKeys) /\ Offset(s, n) \in Nat
BY DEF IsTree, Ids, IsLeaf, LeafNodes, BranchNodes, Parent, Slot, Entries, Children, Keys, Offset

LEMMA OtherNodes ==
  ASSUME NEW s, IsTree(s), NEW f, f \in Seq(LeafNodes \union BranchNodes)
  PROVE  SameButNodes(s, [s EXCEPT !.nodes = f]) /\ [s EXCEPT !.nodes = f].nodes = f
<1> DEFINE t == [s EXCEPT !.nodes = f]
<1>1. /\ t.nodes = f /\ t.root = s.root /\ t.todo = s.todo /\ t.broken = s.broken
      /\ t.entryCount = s.entryCount /\ SameCapacity(s, t)
  BY DEF IsTree, SameCapacity
<1>2. t = [nodes |-> t.nodes, root |-> t.root, leftmostLeaf |-> t.leftmostLeaf,
            rightmostLeaf |-> t.rightmostLeaf, entryCount |-> t.entryCount,
            nextSequence |-> t.nextSequence, entryKeys |-> t.entryKeys,
            maxLeafEntries |-> t.maxLeafEntries, minLeafEntries |-> t.minLeafEntries,
            maxBranchChildren |-> t.maxBranchChildren,
            minBranchChildren |-> t.minBranchChildren,
            nextAutoScaleThreshold |-> t.nextAutoScaleThreshold,
            todo |-> t.todo, broken |-> t.broken]
  BY DEF IsTree
<1> QED BY <1>1, <1>2 DEF IsTree, SameButNodes

(* The tree with other nodes in the place of some. *)
Changed(s, t, changed) ==
    /\ SameButNodes(s, t) /\ Ids(t) = Ids(s)
    /\ \A n \in Ids(s) : t.nodes[n] = IF n \in DOMAIN changed THEN changed[n] ELSE s.nodes[n]

LEMMA WithNodesIs ==
  ASSUME NEW s, IsTree(s), NEW changed,
         \A n \in DOMAIN changed \intersect Ids(s) : changed[n] \in LeafNodes \union BranchNodes
  PROVE  Changed(s, WithNodes(s, changed), changed)
<1> DEFINE f == [n \in DOMAIN s.nodes |-> IF n \in DOMAIN changed THEN changed[n] ELSE s.nodes[n]]
<1>1. Len(s.nodes) \in Nat /\ DOMAIN s.nodes = 1..Len(s.nodes)
  BY DEF IsTree
<1>2. f \in Seq(LeafNodes \union BranchNodes) /\ Len(f) = Len(s.nodes)
  <2>1. s.nodes \in Seq(LeafNodes \union BranchNodes)
    BY DEF IsTree
  <2>2. \A n \in 1..Len(s.nodes) : f[n] \in LeafNodes \union BranchNodes
    BY <1>1, <2>1 DEF Ids
  <2> HIDE DEF f
  <2>3. f = [n \in 1..Len(s.nodes) |-> f[n]]
    BY <1>1 DEF f
  <2> QED BY <1>1, <2>2, <2>3, IsASeq
<1>3. WithNodes(s, changed) = [s EXCEPT !.nodes = f]
  <2>1. WithNodes(s, changed) = [s EXCEPT !.nodes = SubSeq(f, 1, Len(s.nodes))]
    BY DEF WithNodes, IsTree
  <2>2. SubSeq(f, 1, Len(s.nodes)) = f
    BY <1>2, SameSeq
  <2> QED BY <2>1, <2>2
<1> HIDE DEF f
<1>4. SameButNodes(s, [s EXCEPT !.nodes = f]) /\ [s EXCEPT !.nodes = f].nodes = f
  BY <1>2, OtherNodes
<1> QED BY <1>3, <1>4 DEF f, Changed, Ids

LEMMA WithNewNodeIs ==
  ASSUME NEW s, IsTree(s), NEW node \in LeafNodes \union BranchNodes
  PROVE  /\ SameButNodes(s, WithNewNode(s, node))
         /\ Fresh(s) \in Nat \ {None} /\ Fresh(s) \notin Ids(s)
         /\ Ids(WithNewNode(s, node)) = Ids(s) \union {Fresh(s)}
         /\ WithNewNode(s, node).nodes[Fresh(s)] = node
         /\ \A n \in Ids(s) : WithNewNode(s, node).nodes[n] = s.nodes[n]
<1> DEFINE f == Append(s.nodes, node)
<1>1. /\ f \in Seq(LeafNodes \union BranchNodes)
      /\ DOMAIN f = DOMAIN s.nodes \union {Fresh(s)} /\ f[Fresh(s)] = node
      /\ Fresh(s) \in Nat \ {None} /\ Fresh(s) \notin DOMAIN s.nodes
      /\ \A n \in DOMAIN s.nodes : f[n] = s.nodes[n]
  BY DEF IsTree, Fresh, None
<1>2. WithNewNode(s, node) = [s EXCEPT !.nodes = f]
  BY DEF WithNewNode, IsTree
<1> HIDE DEF f
<1>3. SameButNodes(s, [s EXCEPT !.nodes = f]) /\ [s EXCEPT !.nodes = f].nodes = f
  BY <1>1, OtherNodes
<1> QED BY <1>1, <1>2, <1>3 DEF Ids

(* A step of one node. *)
OneChanged(s, t, n, node) ==
    /\ SameButNodes(s, t) /\ Ids(t) = Ids(s) /\ t.nodes[n] = node
    /\ \A m \in Ids(s) \ {n} : t.nodes[m] = s.nodes[m]

LEMMA OneNodeIs ==
  ASSUME NEW s, IsTree(s), NEW n \in Ids(s), NEW node \in LeafNodes \union BranchNodes
  PROVE  OneChanged(s, [s EXCEPT !.nodes[n] = node], n, node)
<1> DEFINE f == [s.nodes EXCEPT ![n] = node]
<1>1. /\ f \in Seq(LeafNodes \union BranchNodes)
      /\ DOMAIN f = DOMAIN s.nodes /\ f[n] = node
      /\ \A m \in DOMAIN s.nodes \ {n} : f[m] = s.nodes[m]
  BY DEF IsTree, Ids
<1>2. [s EXCEPT !.nodes[n] = node] = [s EXCEPT !.nodes = f]
  BY DEF IsTree
<1> HIDE DEF f
<1>3. SameButNodes(s, [s EXCEPT !.nodes = f]) /\ [s EXCEPT !.nodes = f].nodes = f
  BY <1>1, OtherNodes
<1> QED BY <1>1, <1>2, <1>3 DEF OneChanged, Ids

(* The branch array. *)

Distinct(list) == \A i, j \in DOMAIN list : list[i] = list[j] => i = j

(* But for the slots of the nodes in S the trees are the same. *)
Reslotted(s, t, S) ==
    /\ SameButNodes(s, t) /\ Ids(t) = Ids(s)
    /\ \A n \in Ids(s) : SameContent(s, t, n) /\ Parent(t, n) = Parent(s, n)
    /\ \A n \in Ids(s) \ S : Slot(t, n) = Slot(s, n)

LEMMA NewSlotIs ==
  ASSUME NEW s, IsTree(s), NEW n \in Ids(s), NEW x \in Int
  PROVE  LET node == [s.nodes[n] EXCEPT !.indexInParent = x]
         IN  /\ node \in LeafNodes \union BranchNodes
             /\ node.indexInParent = x /\ node.parent = Parent(s, n)
             /\ node.kind = s.nodes[n].kind
             /\ IsLeaf(s, n) => node.entries = Entries(s, n)
             /\ ~IsLeaf(s, n) => /\ node.children = Children(s, n)
                                 /\ node.keys = Keys(s, n) /\ node.childOffset = Offset(s, n)
<1>1. CASE IsLeaf(s, n)
  <2>1. s.nodes[n] \in LeafNodes
    BY <1>1, NodesAre
  <2> QED BY <1>1, <2>1 DEF LeafNodes, IsLeaf, Entries, Parent
<1>2. CASE ~IsLeaf(s, n)
  <2>1. s.nodes[n] \in BranchNodes
    BY <1>2, NodesAre
  <2> QED BY <1>2, <2>1 DEF BranchNodes, IsLeaf, Children, Keys, Offset, Parent
<1> QED BY <1>1, <1>2

LEMMA ReindexIs ==
  ASSUME NEW s, IsTree(s), NEW b \in Ids(s), ~IsLeaf(s, b),
         Distinct(Children(s, b)), Held(Children(s, b)) \subseteq Ids(s),
         NEW first \in Int, NEW last \in Int,
         first >= Offset(s, b), last <= Offset(s, b) + Len(Children(s, b)) - 1
  PROVE  /\ Reslotted(s, Reindex(s, b, first, last), Held(Children(s, b)))
         /\ \A i \in DOMAIN Children(s, b) :
               Slot(Reindex(s, b, first, last), Children(s, b)[i]) =
                  IF Offset(s, b) + i - 1 \in first..last
                  THEN Offset(s, b) + i - 1 ELSE Slot(s, Children(s, b)[i])
<1> DEFINE off == Offset(s, b)
           kids == Children(s, b)
           At(i) == kids[i - off + 1]
           Place(n) == CHOOSE i \in first..last : At(i) = n
           changed == [n \in {At(i) : i \in first..last} |->
                          [s.nodes[n] EXCEPT !.indexInParent = Place(n)]]
           t == Reindex(s, b, first, last)
<1>0. t = WithNodes(s, changed)
  BY DEF Reindex, Offset
<1>1. /\ off \in Nat /\ kids \in Seq(Nat) /\ Len(kids) \in Nat /\ DOMAIN kids = 1..Len(kids)
  BY NodesAre
<1>2. \A i \in first..last : i - off + 1 \in DOMAIN kids
  BY <1>1
<1>3. \A i \in first..last : At(i) \in Ids(s) /\ At(i) \in Held(kids)
  BY <1>2 DEF Held
<1>4. ASSUME NEW i \in first..last
      PROVE  Place(At(i)) = i
  <2> DEFINE j == Place(At(i))
  <2>1. j \in first..last /\ At(j) = At(i)
    OBVIOUS
  <2> HIDE DEF j
  <2>2. j - off + 1 = i - off + 1
    BY <1>2, <2>1 DEF Distinct
  <2>3. j = i
    BY <1>1, <2>1, <2>2
  <2> QED BY <2>3 DEF j
<1> HIDE DEF Place
<1>5. DOMAIN changed = {At(i) : i \in first..last}
  OBVIOUS
<1>6. \A n \in DOMAIN changed : /\ n \in Ids(s) /\ n \in Held(kids) /\ Place(n) \in Int
                               /\ changed[n] = [s.nodes[n] EXCEPT !.indexInParent = Place(n)]
  BY <1>3, <1>4
<1> HIDE DEF changed
<1>7. \A n \in DOMAIN changed \intersect Ids(s) : changed[n] \in LeafNodes \union BranchNodes
  BY <1>6, NewSlotIs
<1>8. Changed(s, t, changed)
  BY <1>0, <1>7, WithNodesIs
<1> HIDE DEF t
<1>9. ASSUME NEW n \in Ids(s)
      PROVE  /\ SameContent(s, t, n) /\ Parent(t, n) = Parent(s, n)
             /\ Slot(t, n) = IF n \in DOMAIN changed THEN Place(n) ELSE Slot(s, n)
  <2>1. CASE n \notin DOMAIN changed
    <3>1. t.nodes[n] = s.nodes[n]
      BY <1>8, <2>1 DEF Changed
    <3> QED BY <2>1, <3>1 DEF SameContent, Parent, Slot, IsLeaf, Entries, Children, Keys, Offset
  <2>2. CASE n \in DOMAIN changed
    <3>1. t.nodes[n] = [s.nodes[n] EXCEPT !.indexInParent = Place(n)] /\ Place(n) \in Int
      BY <1>6, <1>8, <2>2 DEF Changed
    <3> HIDE DEF Place
    <3>2. /\ t.nodes[n].indexInParent = Place(n) /\ t.nodes[n].parent = Parent(s, n)
          /\ t.nodes[n].kind = s.nodes[n].kind
          /\ IsLeaf(s, n) => t.nodes[n].entries = Entries(s, n)
          /\ ~IsLeaf(s, n) => /\ t.nodes[n].children = Children(s, n)
                              /\ t.nodes[n].keys = Keys(s, n)
                              /\ t.nodes[n].childOffset = Offset(s, n)
      BY <3>1, NewSlotIs
    <3> QED BY <2>2, <3>2 DEF SameContent, Parent, Slot, IsLeaf, Entries, Children, Keys, Offset
  <2> QED BY <2>1, <2>2
<1>10. Reslotted(s, t, Held(kids))
  BY <1>6, <1>8, <1>9 DEF Reslotted, Changed
<1>11. ASSUME NEW i \in DOMAIN kids
       PROVE  Slot(t, kids[i]) = IF off + i - 1 \in first..last THEN off + i - 1
                                 ELSE Slot(s, kids[i])
  <2>1. kids[i] \in Ids(s)
    BY DEF Held
  <2>2. CASE off + i - 1 \in first..last
    <3>1. At(off + i - 1) = kids[i]
      BY <1>1
    <3>2. kids[i] \in DOMAIN changed /\ Place(kids[i]) = off + i - 1
      BY <1>4, <1>5, <2>2, <3>1
    <3> QED BY <1>9, <2>1, <2>2, <3>2
  <2>3. CASE off + i - 1 \notin first..last
    <3>1. kids[i] \notin DOMAIN changed
      <4>1. ASSUME NEW j \in first..last, At(j) = kids[i] PROVE FALSE
        <5>1. j - off + 1 = i
          BY <1>2, <4>1 DEF Distinct
        <5> QED BY <1>1, <2>3, <5>1
      <4> QED BY <1>5, <4>1
    <3> QED BY <1>9, <2>1, <2>3, <3>1
  <2> QED BY <2>2, <2>3
<1> QED BY <1>10, <1>11 DEF t

Rewritten(s, t, b, kids, keys, off) ==
    /\ SameButNodes(s, t) /\ Ids(t) = Ids(s) /\ SamePlace(s, t, b) /\ ~IsLeaf(t, b)
    /\ Children(t, b) = kids /\ Keys(t, b) = keys /\ Offset(t, b) = off
    /\ \A n \in Ids(s) \ {b} : t.nodes[n] = s.nodes[n]

LEMMA RewrittenIs ==
  ASSUME NEW s, IsTree(s), NEW b \in Ids(s), ~IsLeaf(s, b),
         NEW kids \in Seq(Nat), NEW keys \in Seq(NodeKeys), NEW off \in Nat
  PROVE  Rewritten(s, [s EXCEPT !.nodes[b].children = kids, !.nodes[b].keys = keys,
                                !.nodes[b].childOffset = off], b, kids, keys, off)
<1> DEFINE node == [s.nodes[b] EXCEPT !.children = kids, !.keys = keys, !.childOffset = off]
<1>1. s.nodes[b] \in BranchNodes
  BY NodesAre
<1>2. [s EXCEPT !.nodes[b].children = kids, !.nodes[b].keys = keys, !.nodes[b].childOffset = off]
      = [s EXCEPT !.nodes[b] = node]
  BY <1>1 DEF IsTree, Ids
<1>3. /\ node \in BranchNodes /\ node.children = kids /\ node.keys = keys
      /\ node.childOffset = off /\ node.parent = s.nodes[b].parent
      /\ node.indexInParent = s.nodes[b].indexInParent /\ node.kind = s.nodes[b].kind
  BY <1>1 DEF BranchNodes
<1> HIDE DEF node
<1>4. OneChanged(s, [s EXCEPT !.nodes[b] = node], b, node)
  BY <1>3, OneNodeIs
<1> QED BY <1>2, <1>3, <1>4
        DEF Rewritten, OneChanged, SamePlace, IsLeaf, Children, Keys, Offset, Parent, Slot

(* The children know their slots. *)
Placed(s, b) ==
    /\ b \in Ids(s) /\ ~IsLeaf(s, b) /\ Len(Keys(s, b)) = Len(Children(s, b))
    /\ \A i \in DOMAIN Children(s, b) :
          /\ Children(s, b)[i] \in Ids(s) \ {b}
          /\ Slot(s, Children(s, b)[i]) = Offset(s, b) + i - 1

(* Only the children of b are others, and know it. *)
Rearranged(s, t, b) ==
    /\ SameButNodes(s, t) /\ Ids(t) = Ids(s) /\ Placed(t, b)
    /\ \A n \in Ids(s) : Parent(t, n) = Parent(s, n)
    /\ \A n \in Ids(s) \ {b} : SameContent(s, t, n)
    /\ \A n \in Ids(s) \ (Held(Children(s, b)) \union Held(Children(t, b))) :
          Slot(t, n) = Slot(s, n)

LEMMA PlacedAreDistinct ==
  ASSUME NEW s, IsTree(s), NEW b, Placed(s, b)
  PROVE  Distinct(Children(s, b)) /\ Held(Children(s, b)) \subseteq Ids(s) \ {b}
<1>1. Offset(s, b) \in Nat /\ DOMAIN Children(s, b) \subseteq Nat
  BY NodesAre DEF Placed
<1>2. ASSUME NEW i \in DOMAIN Children(s, b), NEW j \in DOMAIN Children(s, b),
             Children(s, b)[i] = Children(s, b)[j]
      PROVE  i = j
  <2>1. Offset(s, b) + i - 1 = Offset(s, b) + j - 1
    BY <1>2 DEF Placed
  <2> QED BY <1>1, <2>1
<1> QED BY <1>2 DEF Placed, Distinct, Held

(* Whether the slots from first to last are all that may be wrong. *)
CoversTheRest(s, kids, off, first, last) ==
    /\ first \in Int /\ last \in Int /\ first >= off /\ last <= off + Len(kids) - 1
    /\ \A i \in DOMAIN kids :
          off + i - 1 \in first..last \/ Slot(s, kids[i]) = off + i - 1

LEMMA RearrangedIs ==
  ASSUME NEW s, IsTree(s), NEW b \in Ids(s), ~IsLeaf(s, b),
         NEW m, NEW kids \in Seq(Nat), NEW keys \in Seq(NodeKeys), NEW off \in Nat,
         Rewritten(s, m, b, kids, keys, off), Len(keys) = Len(kids),
         Distinct(kids), Held(kids) \subseteq Ids(s) \ {b},
         NEW first, NEW last, CoversTheRest(s, kids, off, first, last)
  PROVE  /\ Rearranged(s, Reindex(m, b, first, last), b)
         /\ Children(Reindex(m, b, first, last), b) = kids
         /\ Offset(Reindex(m, b, first, last), b) = off
<1> DEFINE t == Reindex(m, b, first, last)
<1>1. /\ IsTree(m) /\ b \in Ids(m) /\ ~IsLeaf(m, b) /\ Children(m, b) = kids
      /\ Keys(m, b) = keys /\ Offset(m, b) = off /\ Ids(m) = Ids(s) /\ SameButNodes(s, m)
  BY DEF Rewritten, SameButNodes
<1>2. Distinct(Children(m, b)) /\ Held(Children(m, b)) \subseteq Ids(m)
  BY <1>1
<1>3. /\ Reslotted(m, t, Held(kids))
      /\ \A i \in DOMAIN kids :
            Slot(t, kids[i]) = IF off + i - 1 \in first..last THEN off + i - 1 ELSE Slot(m, kids[i])
  <2>1. /\ first \in Int /\ last \in Int /\ first >= Offset(m, b)
        /\ last <= Offset(m, b) + Len(Children(m, b)) - 1
    BY <1>1 DEF CoversTheRest
  <2> HIDE DEF t
  <2>2. /\ Reslotted(m, Reindex(m, b, first, last), Held(Children(m, b)))
        /\ \A i \in DOMAIN Children(m, b) :
              Slot(Reindex(m, b, first, last), Children(m, b)[i]) =
                 IF Offset(m, b) + i - 1 \in first..last
                 THEN Offset(m, b) + i - 1 ELSE Slot(m, Children(m, b)[i])
    BY <1>1, <1>2, <2>1, ReindexIs
  <2> QED BY <1>1, <2>2 DEF t
<1> HIDE DEF t
<1>4. \A n \in Ids(s) \ {b} : /\ Slot(m, n) = Slot(s, n) /\ Parent(m, n) = Parent(s, n)
                              /\ SameContent(s, m, n)
  BY DEF Rewritten, Slot, Parent, SameContent, IsLeaf, Entries, Children, Keys, Offset
<1>5. Slot(m, b) = Slot(s, b) /\ Parent(m, b) = Parent(s, b)
  BY DEF Rewritten, SamePlace
<1>6. /\ Children(t, b) = kids /\ Offset(t, b) = off /\ Len(Keys(t, b)) = Len(kids)
      /\ ~IsLeaf(t, b) /\ Ids(t) = Ids(s) /\ SameButNodes(s, t)
  BY <1>1, <1>3 DEF Reslotted, SameContent, SameButNodes, SameCapacity
<1>7. Placed(t, b)
  <2>1. \A i \in DOMAIN kids : kids[i] \in Ids(s) \ {b}
    BY DEF Held
  <2> QED BY <1>3, <1>4, <1>6, <2>1 DEF Placed, CoversTheRest
<1>8. \A n \in Ids(s) : Parent(t, n) = Parent(s, n)
  BY <1>1, <1>3, <1>4, <1>5 DEF Reslotted
<1>9. \A n \in Ids(s) \ {b} : SameContent(s, t, n)
  BY <1>1, <1>3, <1>4 DEF Reslotted, SameContent
<1>10. \A n \in Ids(s) \ (Held(Children(s, b)) \union Held(Children(t, b))) : Slot(t, n) = Slot(s, n)
  BY <1>1, <1>3, <1>4, <1>5, <1>6 DEF Reslotted
<1> QED BY <1>6, <1>7, <1>8, <1>9, <1>10 DEF Rearranged, t

LEMMA BranchCompactIs ==
  ASSUME NEW s, IsTree(s), NEW b, Placed(s, b)
  PROVE  /\ Rearranged(s, BranchCompact(s, b), b)
         /\ Children(BranchCompact(s, b), b) = Children(s, b)
         /\ Offset(BranchCompact(s, b), b) \in {0, 1}
<1> DEFINE off == Offset(s, b)
           kids == Children(s, b)
           keys == Keys(s, b)
           gap == IF off <= 1 THEN 0 ELSE 1
           moved == [s EXCEPT !.nodes[b].childOffset = gap]
<1>1. /\ b \in Ids(s) /\ ~IsLeaf(s, b) /\ kids \in Seq(Nat) /\ keys \in Seq(NodeKeys)
      /\ off \in Nat /\ s.nodes[b] \in BranchNodes
      /\ Len(keys) = Len(kids)
  BY NodesAre DEF Placed
<1>2. Distinct(kids) /\ Held(kids) \subseteq Ids(s) \ {b}
  BY PlacedAreDistinct
<1>3. CASE off = 0
  <2>1. BranchCompact(s, b) = s
    BY <1>3 DEF BranchCompact, Offset
  <2> QED BY <1>3, <2>1
          DEF Rearranged, SameButNodes, SameCapacity, SameContent
<1>4. CASE off # 0
  <2>1. moved = [s EXCEPT !.nodes[b].children = kids, !.nodes[b].keys = keys,
                          !.nodes[b].childOffset = gap]
    <3> HIDE DEF gap
    <3>1. [s.nodes[b] EXCEPT !.childOffset = gap]
          = [s.nodes[b] EXCEPT !.children = kids, !.keys = keys, !.childOffset = gap]
      BY <1>1 DEF BranchNodes, Children, Keys
    <3>2. moved = [s EXCEPT !.nodes[b] = [s.nodes[b] EXCEPT !.childOffset = gap]]
      BY <1>1 DEF IsTree, Ids
    <3>3. [s EXCEPT !.nodes[b].children = kids, !.nodes[b].keys = keys, !.nodes[b].childOffset = gap]
          = [s EXCEPT !.nodes[b] =
                [s.nodes[b] EXCEPT !.children = kids, !.keys = keys, !.childOffset = gap]]
      BY <1>1 DEF IsTree, Ids
    <3> QED BY <3>1, <3>2, <3>3
  <2>2. gap \in Nat /\ gap \in {0, 1}
    OBVIOUS
  <2>5. BranchCompact(s, b) = Reindex(moved, b, gap, ArrayLength(moved, b) - 1)
    BY <1>4 DEF BranchCompact, Offset
  <2> HIDE DEF moved, gap
  <2>3. Rewritten(s, moved, b, kids, keys, gap)
    BY <1>1, <2>1, <2>2, RewrittenIs
  <2> DEFINE last == ArrayLength(moved, b) - 1
  <2>4. last = gap + Len(kids) - 1
    <3>1. Children(moved, b) = kids /\ Offset(moved, b) = gap
      BY <2>3 DEF Rewritten
    <3>2. ArrayLength(moved, b) = Offset(moved, b) + Len(Children(moved, b))
      BY DEF ArrayLength, Offset
    <3> HIDE DEF kids
    <3> QED BY <1>1, <2>2, <3>1, <3>2
  <2>5a. BranchCompact(s, b) = Reindex(moved, b, gap, last)
    BY <2>5
  <2> HIDE DEF last
  <2>6. CoversTheRest(s, kids, gap, gap, last)
    BY <1>1, <2>2, <2>4 DEF CoversTheRest
  <2>8. /\ Rearranged(s, Reindex(moved, b, gap, last), b)
        /\ Children(Reindex(moved, b, gap, last), b) = kids
        /\ Offset(Reindex(moved, b, gap, last), b) = gap
    <3> HIDE DEF kids, keys
    <3> QED BY <1>1, <1>2, <2>2, <2>3, <2>6, RearrangedIs
  <2> QED BY <2>2, <2>5a, <2>8
<1> QED BY <1>3, <1>4

LEMMA InsertedIs ==
  ASSUME NEW T, NEW q \in Seq(T), NEW e \in T, NEW i \in 0..Len(q),
         Distinct(q), e \notin Held(q)
  PROVE  /\ Seqs!InsertAt(q, i + 1, e) \in Seq(T)
         /\ Len(Seqs!InsertAt(q, i + 1, e)) = Len(q) + 1
         /\ \A j \in 1..i : Seqs!InsertAt(q, i + 1, e)[j] = q[j]
         /\ Seqs!InsertAt(q, i + 1, e)[i + 1] = e
         /\ \A j \in i + 2..Len(q) + 1 : Seqs!InsertAt(q, i + 1, e)[j] = q[j - 1]
         /\ Distinct(Seqs!InsertAt(q, i + 1, e))
         /\ Held(Seqs!InsertAt(q, i + 1, e)) = Held(q) \union {e}
<1> DEFINE new == Seqs!InsertAt(q, i + 1, e)
           n == Len(q)
<1>1. n \in Nat /\ DOMAIN q = 1..n /\ i \in Int /\ i + 1 \in 1..n + 1
  OBVIOUS
<1>2. /\ new \in Seq(T) /\ Len(new) = n + 1
      /\ \A j \in 1..n + 1 : new[j] = IF j < i + 1 THEN q[j] ELSE IF j = i + 1 THEN e ELSE q[j - 1]
  <2> DEFINE k == i + 1
  <2>1. k \in 1..Len(q) + 1
    BY <1>1
  <2> HIDE DEF k
  <2>2. /\ Seqs!InsertAt(q, k, e) \in Seq(T) /\ Len(Seqs!InsertAt(q, k, e)) = Len(q) + 1
        /\ \A j \in 1..Len(q) + 1 :
              Seqs!InsertAt(q, k, e)[j] = IF j < k THEN q[j] ELSE IF j = k THEN e ELSE q[j - 1]
    BY <2>1, InsertAtIs
  <2> QED BY <2>2 DEF k
<1> HIDE DEF new
<1>3. DOMAIN new = 1..n + 1
  BY <1>2
<1> HIDE DEF n
<1>4. /\ \A j \in 1..i : new[j] = q[j]
      /\ new[i + 1] = e
      /\ \A j \in i + 2..n + 1 : new[j] = q[j - 1]
  BY <1>1, <1>2 DEF n
<1>5. \A j \in 1..n : q[j] # e
  BY <1>1 DEF Held
<1>6. ASSUME NEW j \in 1..n + 1, NEW k \in 1..n + 1, new[j] = new[k], j < k PROVE FALSE
  <2>1. CASE k <= i
    <3>1. j \in 1..i /\ k \in 1..i /\ j \in 1..n /\ k \in 1..n
      BY <1>1, <1>6, <2>1
    <3> QED BY <1>1, <1>4, <1>6, <3>1 DEF Distinct
  <2>2. CASE k = i + 1
    <3>1. j \in 1..i /\ j \in 1..n
      BY <1>1, <1>6, <2>2
    <3> QED BY <1>4, <1>5, <1>6, <2>2, <3>1
  <2>3. CASE k >= i + 2
    <3>1. k \in i + 2..n + 1 /\ k - 1 \in 1..n
      BY <1>1, <1>6, <2>3
    <3>2. new[k] = q[k - 1]
      BY <1>4, <3>1
    <3>3. CASE j <= i
      <4>1. j \in 1..i /\ j \in 1..n /\ j # k - 1
        BY <1>1, <1>6, <2>3, <3>3
      <4> QED BY <1>1, <1>4, <1>6, <3>1, <3>2, <4>1 DEF Distinct
    <3>4. CASE j = i + 1
      BY <1>4, <1>5, <1>6, <3>1, <3>2, <3>4
    <3>5. CASE j >= i + 2
      <4>1. j \in i + 2..n + 1 /\ j - 1 \in 1..n /\ j - 1 # k - 1
        BY <1>1, <1>6, <2>3, <3>5
      <4> QED BY <1>1, <1>4, <1>6, <3>1, <3>2, <4>1 DEF Distinct
    <3> QED BY <1>1, <3>3, <3>4, <3>5
  <2> QED BY <1>1, <2>1, <2>2, <2>3
<1>7. Distinct(new)
  <2>1. ASSUME NEW j \in 1..n + 1, NEW k \in 1..n + 1, new[j] = new[k] PROVE j = k
    <3>1. ~(j < k)
      BY <1>6, <2>1
    <3>2. ~(k < j)
      BY <1>6, <2>1
    <3> QED BY <3>1, <3>2
  <2> QED BY <1>3, <2>1 DEF Distinct
<1>8. Held(new) \subseteq Held(q) \union {e}
  <2>1. ASSUME NEW j \in 1..n + 1 PROVE new[j] \in Held(q) \union {e}
    <3>1. CASE j <= i
      <4>1. j \in 1..i /\ j \in 1..n
        BY <1>1, <3>1
      <4> QED BY <1>1, <1>4, <4>1 DEF Held
    <3>2. CASE j = i + 1
      BY <1>4, <3>2
    <3>3. CASE j >= i + 2
      <4>1. j \in i + 2..n + 1 /\ j - 1 \in 1..n
        BY <1>1, <3>3
      <4> QED BY <1>1, <1>4, <4>1 DEF Held
    <3> QED BY <1>1, <3>1, <3>2, <3>3
  <2> QED BY <1>3, <2>1 DEF Held
<1>9. Held(q) \union {e} \subseteq Held(new)
  <2>1. e \in Held(new)
    BY <1>1, <1>3, <1>4 DEF Held
  <2>2. ASSUME NEW j \in 1..n PROVE q[j] \in Held(new)
    <3>1. CASE j <= i
      <4>1. j \in 1..i /\ j \in 1..n + 1
        BY <1>1, <3>1
      <4> QED BY <1>3, <1>4, <4>1 DEF Held
    <3>2. CASE j > i
      <4>1. j + 1 \in i + 2..n + 1 /\ j + 1 \in 1..n + 1 /\ j + 1 - 1 = j
        BY <1>1, <3>2
      <4>2. new[j + 1] = q[j]
        BY <1>4, <4>1
      <4> QED BY <1>3, <4>1, <4>2 DEF Held
    <3> QED BY <1>1, <3>1, <3>2
  <2> QED BY <1>1, <2>1, <2>2 DEF Held
<1> QED BY <1>2, <1>4, <1>7, <1>8, <1>9 DEF new, n

LEMMA RemovedIs ==
  ASSUME NEW T, NEW q \in Seq(T), NEW i \in 1..Len(q), Distinct(q)
  PROVE  /\ Seqs!RemoveAt(q, i) \in Seq(T)
         /\ Len(Seqs!RemoveAt(q, i)) = Len(q) - 1
         /\ \A j \in 1..i - 1 : Seqs!RemoveAt(q, i)[j] = q[j]
         /\ \A j \in i..Len(q) - 1 : Seqs!RemoveAt(q, i)[j] = q[j + 1]
         /\ Distinct(Seqs!RemoveAt(q, i))
         /\ Held(Seqs!RemoveAt(q, i)) = Held(q) \ {q[i]}
<1> DEFINE new == Seqs!RemoveAt(q, i)
           n == Len(q)
<1>1. n \in Nat /\ DOMAIN q = 1..n /\ i \in 1..n
  OBVIOUS
<1>2. /\ new \in Seq(T) /\ Len(new) = n - 1
      /\ \A j \in 1..n - 1 : new[j] = IF j < i THEN q[j] ELSE q[j + 1]
  BY <1>1, RemoveAtIs
<1> HIDE DEF new
<1>3. DOMAIN new = 1..n - 1
  BY <1>1, <1>2
<1> HIDE DEF n
<1> DEFINE Old(j) == IF j < i THEN j ELSE j + 1
<1>4. \A j \in 1..n - 1 : Old(j) \in 1..n /\ Old(j) # i /\ new[j] = q[Old(j)]
  BY <1>1, <1>2
<1>5. \A j, k \in 1..n - 1 : Old(j) = Old(k) => j = k
  BY <1>1
<1>6. \A j \in 1..n : j # i => \E k \in 1..n - 1 : Old(k) = j
  <2> TAKE j \in 1..n
  <2>1. CASE j < i
    <3>1. j \in 1..n - 1 /\ Old(j) = j
      BY <1>1, <2>1
    <3> QED BY <3>1
  <2>2. CASE j > i
    <3>1. j - 1 \in 1..n - 1 /\ Old(j - 1) = j
      BY <1>1, <2>2
    <3> QED BY <3>1
  <2> QED BY <1>1, <2>1, <2>2
<1> HIDE DEF Old
<1>7. Distinct(new)
  BY <1>1, <1>3, <1>4, <1>5 DEF Distinct
<1>8. Held(new) = Held(q) \ {q[i]}
  <2>1. \A j \in 1..n - 1 : new[j] \in Held(q) /\ new[j] # q[i]
    BY <1>1, <1>4 DEF Held, Distinct
  <2>2. \A j \in 1..n : q[j] # q[i] => q[j] \in Held(new)
    BY <1>1, <1>3, <1>4, <1>6 DEF Held
  <2> QED BY <1>1, <1>3, <2>1, <2>2 DEF Held
<1> QED BY <1>1, <1>2, <1>7, <1>8 DEF new, n

LEMMA RearrangedTwice ==
  ASSUME NEW s, NEW t, NEW u, NEW b, Rearranged(s, t, b), Rearranged(t, u, b),
         Children(u, b) = Children(t, b)
  PROVE  Rearranged(s, u, b)
BY DEF Rearranged, SameButNodes, SameCapacity, SameContent

LEMMA BranchInsertAtIs ==
  ASSUME NEW s, IsTree(s), NEW b, Placed(s, b), NEW child \in Ids(s) \ {b}, child \in Nat,
         child \notin Held(Children(s, b)), NEW key \in NodeKeys,
         NEW logical \in 0..Len(Children(s, b))
  PROVE  /\ Rearranged(s, BranchInsertAt(s, b, logical, child, key), b)
         /\ Children(BranchInsertAt(s, b, logical, child, key), b)
               = Seqs!InsertAt(Children(s, b), logical + 1, child)
<1> DEFINE off == Offset(s, b)
           kids == Children(s, b)
           keys == Keys(s, b)
           new == Seqs!InsertAt(kids, logical + 1, child)
           newKeys == Seqs!InsertAt(keys, logical + 1, key)
           leftward == off > 0 /\ logical < Len(kids) \div 2
           newOff == IF leftward THEN off - 1 ELSE off
           moved == [s EXCEPT !.nodes[b].children = new, !.nodes[b].keys = newKeys,
                              !.nodes[b].childOffset = newOff]
           first == IF leftward THEN off - 1 ELSE off + logical
           last == IF leftward THEN off + logical - 1 ELSE ArrayLength(moved, b) - 1
<1>1. /\ b \in Ids(s) /\ ~IsLeaf(s, b) /\ kids \in Seq(Nat) /\ keys \in Seq(NodeKeys)
      /\ off \in Nat /\ Len(keys) = Len(kids) /\ Len(kids) \in Nat
  BY NodesAre DEF Placed
<1>2. Distinct(kids) /\ Held(kids) \subseteq Ids(s) \ {b}
  BY PlacedAreDistinct
<1>3. /\ new \in Seq(Nat) /\ Len(new) = Len(kids) + 1
      /\ \A j \in 1..logical : new[j] = kids[j]
      /\ \A j \in logical + 2..Len(kids) + 1 : new[j] = kids[j - 1]
      /\ Distinct(new) /\ Held(new) = Held(kids) \union {child}
  <2>1. logical \in 0..Len(kids) /\ child \notin Held(kids)
    OBVIOUS
  <2> HIDE DEF kids
  <2>2. /\ Seqs!InsertAt(kids, logical + 1, child) \in Seq(Nat)
        /\ Len(Seqs!InsertAt(kids, logical + 1, child)) = Len(kids) + 1
        /\ \A j \in 1..logical : Seqs!InsertAt(kids, logical + 1, child)[j] = kids[j]
        /\ Seqs!InsertAt(kids, logical + 1, child)[logical + 1] = child
        /\ \A j \in logical + 2..Len(kids) + 1 :
              Seqs!InsertAt(kids, logical + 1, child)[j] = kids[j - 1]
        /\ Distinct(Seqs!InsertAt(kids, logical + 1, child))
        /\ Held(Seqs!InsertAt(kids, logical + 1, child)) = Held(kids) \union {child}
    <3>1. kids \in Seq(Nat) /\ child \in Nat /\ Distinct(kids)
      BY <1>1, <1>2
    <3> QED BY <2>1, <3>1, InsertedIs
  <2> QED BY <2>2
<1>4. newKeys \in Seq(NodeKeys) /\ Len(newKeys) = Len(new)
  <2>1. logical + 1 \in 1..Len(keys) + 1
    BY <1>1
  <2> HIDE DEF keys
  <2>2. newKeys \in Seq(NodeKeys) /\ Len(newKeys) = Len(keys) + 1
    BY <1>1, <2>1, InsertAtIs
  <2> QED BY <1>1, <1>3, <2>2
<1>5. newOff \in Nat
  BY <1>1
<1>6. BranchInsertAt(s, b, logical, child, key) = Reindex(moved, b, first, last)
  <2>1. moved = [s EXCEPT !.nodes[b].children = Seqs!InsertAt(@, logical + 1, child),
                          !.nodes[b].keys = Seqs!InsertAt(@, logical + 1, key),
                          !.nodes[b].childOffset = IF leftward THEN @ - 1 ELSE @]
    <3> HIDE DEF leftward
    <3>1. s.nodes[b] \in BranchNodes
      BY <1>1, NodesAre
    <3> QED BY <1>1, <3>1 DEF IsTree, Ids, Children, Keys, Offset, BranchNodes
  <2> HIDE DEF moved
  <2>2. CASE leftward
    <3>1. first = off - 1 /\ last = off + logical - 1
      BY <2>2
    <3> HIDE DEF first, last
    <3> QED BY <2>1, <2>2, <3>1 DEF BranchInsertAt, Offset
  <2>3. CASE ~leftward
    <3>1. first = off + logical /\ last = ArrayLength(moved, b) - 1
      BY <2>3
    <3> HIDE DEF first, last
    <3> QED BY <2>1, <2>3, <3>1 DEF BranchInsertAt, Offset
  <2> QED BY <2>2, <2>3
<1> HIDE DEF new, newKeys
<1>7. Rewritten(s, moved, b, new, newKeys, newOff)
  <2> HIDE DEF newOff
  <2> QED BY <1>1, <1>3, <1>4, <1>5, RewrittenIs
<1>8. ArrayLength(moved, b) = newOff + Len(kids) + 1
  <2> HIDE DEF newOff, moved
  <2>1. ArrayLength(moved, b) = Offset(moved, b) + Len(Children(moved, b))
    BY DEF ArrayLength, Offset
  <2> QED BY <1>1, <1>3, <1>5, <1>7, <2>1 DEF Rewritten
<1> HIDE DEF moved
<1>9. Distinct(new) /\ Held(new) \subseteq Ids(s) \ {b}
  BY <1>2, <1>3
<1>10. CoversTheRest(s, new, newOff, first, last)
  <2>1. DOMAIN new = 1..Len(kids) + 1 /\ DOMAIN kids = 1..Len(kids)
    BY <1>1, <1>3
  <2>2. \A i \in 1..Len(kids) : Slot(s, kids[i]) = off + i - 1
    BY <2>1 DEF Placed
  <2>3. CASE leftward
    <3>1. newOff = off - 1 /\ first = off - 1 /\ last = off + logical - 1
      BY <2>3
    <3> HIDE DEF newOff, first, last
    <3>2. ASSUME NEW i \in 1..Len(kids) + 1
          PROVE  newOff + i - 1 \in first..last \/ Slot(s, new[i]) = newOff + i - 1
      <4>1. CASE i <= logical + 1
        BY <1>1, <3>1, <4>1
      <4>2. CASE i > logical + 1
        <5>1. new[i] = kids[i - 1] /\ i - 1 \in 1..Len(kids)
          BY <1>1, <1>3, <4>2
        <5>2. Slot(s, kids[i - 1]) = off + (i - 1) - 1
          BY <2>2, <5>1
        <5> QED BY <1>1, <3>1, <5>1, <5>2
      <4> QED BY <1>1, <4>1, <4>2
    <3> QED BY <1>1, <1>3, <2>1, <3>1, <3>2 DEF CoversTheRest
  <2>4. CASE ~leftward
    <3>1. newOff = off /\ first = off + logical /\ last = off + Len(kids)
      BY <1>1, <1>8, <2>4
    <3> HIDE DEF newOff, first, last
    <3>2. ASSUME NEW i \in 1..Len(kids) + 1
          PROVE  newOff + i - 1 \in first..last \/ Slot(s, new[i]) = newOff + i - 1
      <4>1. CASE i > logical
        BY <1>1, <3>1, <4>1
      <4>2. CASE i <= logical
        <5>1. new[i] = kids[i] /\ i \in 1..Len(kids)
          BY <1>1, <1>3, <4>2
        <5> QED BY <1>1, <2>2, <3>1, <5>1
      <4> QED BY <1>1, <4>1, <4>2
    <3> QED BY <1>1, <1>3, <2>1, <3>1, <3>2 DEF CoversTheRest
  <2> QED BY <2>3, <2>4
<1> HIDE DEF newOff, first, last, leftward
<1>11. /\ Rearranged(s, Reindex(moved, b, first, last), b)
       /\ Children(Reindex(moved, b, first, last), b) = new
  BY <1>1, <1>3, <1>4, <1>5, <1>7, <1>9, <1>10, RearrangedIs
<1> QED BY <1>6, <1>11 DEF new

LEMMA BranchRemoveAtIs ==
  ASSUME NEW s, IsTree(s), NEW b, Placed(s, b), NEW p \in DOMAIN Children(s, b),
         NEW index, index = Offset(s, b) + p - 1
  PROVE  /\ Rearranged(s, BranchRemoveAt(s, b, index), b)
         /\ Children(BranchRemoveAt(s, b, index), b) = Seqs!RemoveAt(Children(s, b), p)
<1> DEFINE off == Offset(s, b)
           kids == Children(s, b)
           keys == Keys(s, b)
           new == Seqs!RemoveAt(kids, p)
           newKeys == Seqs!RemoveAt(keys, p)
           leftward == p - 1 < Len(kids) - p
           newOff == IF leftward THEN off + 1 ELSE off
           moved == [s EXCEPT !.nodes[b].children = new, !.nodes[b].keys = newKeys,
                              !.nodes[b].childOffset = newOff]
           first == IF leftward THEN off + 1 ELSE index
           last == IF leftward THEN index ELSE ArrayLength(moved, b) - 1
           shifted == Reindex(moved, b, first, last)
<1>1. /\ b \in Ids(s) /\ ~IsLeaf(s, b) /\ kids \in Seq(Nat) /\ keys \in Seq(NodeKeys)
      /\ off \in Nat /\ Len(keys) = Len(kids) /\ Len(kids) \in Nat /\ p \in 1..Len(kids)
      /\ index \in Int
  BY NodesAre DEF Placed
<1>2. Distinct(kids) /\ Held(kids) \subseteq Ids(s) \ {b}
  BY PlacedAreDistinct
<1>3. /\ new \in Seq(Nat) /\ Len(new) = Len(kids) - 1
      /\ \A j \in 1..p - 1 : new[j] = kids[j]
      /\ \A j \in p..Len(kids) - 1 : new[j] = kids[j + 1]
      /\ Distinct(new) /\ Held(new) = Held(kids) \ {kids[p]}
  <2> HIDE DEF kids
  <2>1. /\ Seqs!RemoveAt(kids, p) \in Seq(Nat) /\ Len(Seqs!RemoveAt(kids, p)) = Len(kids) - 1
        /\ \A j \in 1..p - 1 : Seqs!RemoveAt(kids, p)[j] = kids[j]
        /\ \A j \in p..Len(kids) - 1 : Seqs!RemoveAt(kids, p)[j] = kids[j + 1]
        /\ Distinct(Seqs!RemoveAt(kids, p))
        /\ Held(Seqs!RemoveAt(kids, p)) = Held(kids) \ {kids[p]}
    <3>1. kids \in Seq(Nat) /\ p \in 1..Len(kids) /\ Distinct(kids)
      BY <1>1, <1>2
    <3> QED BY <3>1, RemovedIs
  <2> QED BY <2>1
<1>4. newKeys \in Seq(NodeKeys) /\ Len(newKeys) = Len(new)
  <2>1. p \in 1..Len(keys)
    BY <1>1
  <2> HIDE DEF keys
  <2>2. newKeys \in Seq(NodeKeys) /\ Len(newKeys) = Len(keys) - 1
    BY <1>1, <2>1, RemoveAtIs
  <2> QED BY <1>1, <1>3, <2>2
<1>5. newOff \in Nat
  BY <1>1
<1>6. moved = [s EXCEPT !.nodes[b].children = Seqs!RemoveAt(@, p),
                        !.nodes[b].keys = Seqs!RemoveAt(@, p),
                        !.nodes[b].childOffset = IF leftward THEN @ + 1 ELSE @]
  <2> HIDE DEF leftward
  <2>1. s.nodes[b] \in BranchNodes
    BY <1>1, NodesAre
  <2> QED BY <1>1, <2>1 DEF IsTree, Ids, Children, Keys, Offset, BranchNodes
<1>7. index - off + 1 = p /\ (index - off < Len(kids) - 1 - (index - off) <=> leftward)
  BY <1>1
<1> HIDE DEF new, newKeys
<1>9. Rewritten(s, moved, b, new, newKeys, newOff)
  <2> HIDE DEF newOff
  <2> QED BY <1>1, <1>3, <1>4, <1>5, RewrittenIs
<1>10. ArrayLength(moved, b) = newOff + Len(kids) - 1
  <2> HIDE DEF newOff, moved
  <2>1. ArrayLength(moved, b) = Offset(moved, b) + Len(Children(moved, b))
    BY DEF ArrayLength, Offset
  <2> QED BY <1>1, <1>3, <1>5, <1>9, <2>1 DEF Rewritten
<1> HIDE DEF moved
<1>8. BranchRemoveAt(s, b, index) \in {shifted, BranchCompact(shifted, b)}
  <2> DEFINE gone == index - off + 1
             under == index - off < Len(kids) - 1 - (index - off)
             other == [s EXCEPT !.nodes[b].children = Seqs!RemoveAt(@, gone),
                                !.nodes[b].keys = Seqs!RemoveAt(@, gone),
                                !.nodes[b].childOffset = IF under THEN @ + 1 ELSE @]
             below == off + 1 >= ArrayLength(other, b) \div 2
  <2>1. other = moved
    <3>1. gone = p /\ under = leftward
      BY <1>7
    <3> HIDE DEF gone, under, leftward
    <3> QED BY <1>6, <3>1
  <2>2. BranchRemoveAt(s, b, index) =
           CASE under /\ off + 1 >= ArrayLength(other, b) \div 2 ->
                  BranchCompact(Reindex(other, b, off + 1, index), b)
             [] under /\ off + 1 < ArrayLength(other, b) \div 2 ->
                  Reindex(other, b, off + 1, index)
             [] OTHER -> Reindex(other, b, index, ArrayLength(other, b) - 1)
    BY DEF BranchRemoveAt, Offset
  <2>3. under <=> leftward
    BY <1>7
  <2>4. CASE leftward
    <3>1. first = off + 1 /\ last = index
      BY <2>4
    <3>2. ArrayLength(moved, b) \in Int
      BY <1>1, <1>5, <1>10
    <3> HIDE DEF other, moved, first, last, under, leftward
    <3> QED BY <2>1, <2>2, <2>3, <1>1, <2>4, <3>1, <3>2
  <2>5. CASE ~leftward
    <3>1. first = index /\ last = ArrayLength(moved, b) - 1
      BY <2>5
    <3> HIDE DEF other, moved, first, last, under, leftward
    <3> QED BY <2>1, <2>2, <2>3, <2>5, <3>1
  <2> QED BY <2>4, <2>5
<1>11. CoversTheRest(s, new, newOff, first, last)
  <2>1. DOMAIN new = 1..Len(kids) - 1 /\ DOMAIN kids = 1..Len(kids)
    BY <1>1, <1>3
  <2>2. \A i \in 1..Len(kids) : Slot(s, kids[i]) = off + i - 1
    BY <2>1 DEF Placed
  <2>3. CASE leftward
    <3>1. newOff = off + 1 /\ first = off + 1 /\ last = off + p - 1
      BY <2>3
    <3> HIDE DEF newOff, first, last
    <3>2. ASSUME NEW i \in 1..Len(kids) - 1
          PROVE  newOff + i - 1 \in first..last \/ Slot(s, new[i]) = newOff + i - 1
      <4>1. CASE i < p
        BY <1>1, <3>1, <4>1
      <4>2. CASE i >= p
        <5>1. new[i] = kids[i + 1] /\ i + 1 \in 1..Len(kids)
          BY <1>1, <1>3, <4>2
        <5>2. Slot(s, kids[i + 1]) = off + (i + 1) - 1
          BY <2>2, <5>1
        <5> QED BY <1>1, <3>1, <5>1, <5>2
      <4> QED BY <1>1, <4>1, <4>2
    <3>3. first \in Int /\ last \in Int /\ first >= newOff /\ last <= newOff + Len(new) - 1
      BY <1>1, <1>3, <3>1
    <3> QED BY <2>1, <3>2, <3>3 DEF CoversTheRest
  <2>4. CASE ~leftward
    <3>1. newOff = off /\ first = off + p - 1 /\ last = off + Len(kids) - 1 - 1
      BY <1>1, <1>10, <2>4
    <3> HIDE DEF newOff, first, last
    <3>2. ASSUME NEW i \in 1..Len(kids) - 1
          PROVE  newOff + i - 1 \in first..last \/ Slot(s, new[i]) = newOff + i - 1
      <4>1. CASE i >= p
        BY <1>1, <3>1, <4>1
      <4>2. CASE i < p
        <5>1. new[i] = kids[i] /\ i \in 1..Len(kids)
          BY <1>1, <1>3, <4>2
        <5> QED BY <1>1, <2>2, <3>1, <5>1
      <4> QED BY <1>1, <4>1, <4>2
    <3>3. first \in Int /\ last \in Int /\ first >= newOff /\ last <= newOff + Len(new) - 1
      BY <1>1, <1>3, <3>1
    <3> QED BY <2>1, <3>2, <3>3 DEF CoversTheRest
  <2> QED BY <2>3, <2>4
<1>12. Held(new) \subseteq Ids(s) \ {b}
  BY <1>2, <1>3
<1> HIDE DEF newOff, first, last, leftward
<1>13. Rearranged(s, shifted, b) /\ Children(shifted, b) = new
  <2>1. /\ Rearranged(s, Reindex(moved, b, first, last), b)
        /\ Children(Reindex(moved, b, first, last), b) = new
    <3>1. /\ b \in Ids(s) /\ ~IsLeaf(s, b) /\ new \in Seq(Nat) /\ newKeys \in Seq(NodeKeys)
          /\ newOff \in Nat /\ Len(newKeys) = Len(new) /\ Distinct(new)
      BY <1>1, <1>3, <1>4, <1>5
    <3> QED BY <3>1, <1>9, <1>11, <1>12, RearrangedIs
  <2> QED BY <2>1
<1> HIDE DEF shifted
<1>14. /\ Rearranged(s, BranchCompact(shifted, b), b)
       /\ Children(BranchCompact(shifted, b), b) = new
  <2>1. IsTree(shifted) /\ Placed(shifted, b)
    BY <1>13 DEF Rearranged, SameButNodes
  <2>2. /\ Rearranged(shifted, BranchCompact(shifted, b), b)
        /\ Children(BranchCompact(shifted, b), b) = Children(shifted, b)
    BY <2>1, BranchCompactIs
  <2> QED BY <1>13, <2>2, RearrangedTwice
<1> QED BY <1>8, <1>13, <1>14 DEF new

(* Cached keys. *)

NonEmpty(s, n) == IF IsLeaf(s, n) THEN Entries(s, n) # <<>> ELSE Keys(s, n) # <<>>

LEMMA MinKeyIs ==
  ASSUME NEW s, IsTree(s), NEW n \in Ids(s)
  PROVE  /\ NonEmpty(s, n) => MinKey(s, n) \in NodeKeys /\ MinKey(s, n) # Null
         /\ ~NonEmpty(s, n) => MinKey(s, n) = Null
<1>1. \A e \in NewEntries : NodeKey(e) \in NodeKeys
  BY NewEntriesAssumption DEF NodeKey, NodeKeys
<1>2. \A e \in NodeKeys : NodeKey(e) \in NodeKeys
  BY DEF NodeKey, NodeKeys
<1>3. \A e \in NodeKeys : e # Null
  BY NullAssumption DEF NodeKeys
<1>4. CASE IsLeaf(s, n)
  <2>1. Entries(s, n) \in Seq(NewEntries)
    BY <1>4, NodesAre
  <2>2. Entries(s, n) # <<>> => Head(Entries(s, n)) \in NewEntries
    BY <2>1
  <2> QED BY <1>1, <1>3, <1>4, <2>2 DEF MinKey, NonEmpty
<1>5. CASE ~IsLeaf(s, n)
  <2>1. Keys(s, n) \in Seq(NodeKeys)
    BY <1>5, NodesAre
  <2>2. Keys(s, n) # <<>> => Head(Keys(s, n)) \in NodeKeys
    BY <2>1
  <2> QED BY <1>2, <1>3, <1>5, <2>2 DEF MinKey, NonEmpty, Keys
<1> QED BY <1>4, <1>5

WithKey(node, i, key) == [node EXCEPT !.keys[i] = key]

LEMMA NewKeyIs ==
  ASSUME NEW s, IsTree(s), NEW n \in Ids(s), NEW i, NEW key \in NodeKeys
  PROVE  LET node == WithKey(s.nodes[n], i, key)
         IN  /\ node \in LeafNodes \union BranchNodes
             /\ node.kind = s.nodes[n].kind /\ node.parent = Parent(s, n)
             /\ node.indexInParent = Slot(s, n)
             /\ IsLeaf(s, n) => node.entries = Entries(s, n)
             /\ ~IsLeaf(s, n) => /\ node.children = Children(s, n)
                                 /\ node.childOffset = Offset(s, n)
                                 /\ Len(node.keys) = Len(Keys(s, n))
<1> DEFINE node == WithKey(s.nodes[n], i, key)
<1>1. CASE IsLeaf(s, n)
  <2>1. s.nodes[n] \in LeafNodes
    BY <1>1, NodesAre
  <2>2. node = s.nodes[n]
    BY <2>1 DEF LeafNodes, WithKey
  <2> QED BY <1>1, <2>1, <2>2 DEF Entries, Parent, Slot
<1>2. CASE ~IsLeaf(s, n)
  <2>1. s.nodes[n] \in BranchNodes /\ Keys(s, n) \in Seq(NodeKeys)
    BY <1>2, NodesAre
  <2> DEFINE keys == Keys(s, n)
             new == [keys EXCEPT ![i] = key]
  <2>2. node = [s.nodes[n] EXCEPT !.keys = new]
    BY DEF Keys, WithKey
  <2>3. new \in Seq(NodeKeys) /\ Len(new) = Len(keys)
    <3>1. Len(keys) \in Nat /\ DOMAIN keys = 1..Len(keys)
      BY <2>1
    <3>2. DOMAIN new = 1..Len(keys)
      BY <3>1
    <3>3. \A j \in 1..Len(keys) : new[j] \in NodeKeys
      BY <2>1, <3>1
    <3>4. new = [j \in 1..Len(keys) |-> new[j]]
      BY <3>1
    <3> HIDE DEF new
    <3> QED BY <3>1, <3>3, <3>4, IsASeq
  <2> HIDE DEF new
  <2> QED BY <1>2, <2>1, <2>2, <2>3 DEF BranchNodes, Children, Offset, Parent, Slot
<1> QED BY <1>1, <1>2

(* Only cached keys are others. *)
Alike(s, t) ==
    /\ SameButNodes(s, t) /\ Ids(t) = Ids(s)
    /\ \A n \in Ids(s) : SameContent(s, t, n) /\ SamePlace(s, t, n)

LEMMA NewKeysAre ==
  ASSUME NEW s, IsTree(s), NEW key \in NodeKeys, NEW changed,
         \A n \in DOMAIN changed : \E i : changed[n] = WithKey(s.nodes[n], i, key)
  PROVE  Alike(s, WithNodes(s, changed))
<1> DEFINE t == WithNodes(s, changed)
<1>1. \A n \in DOMAIN changed \intersect Ids(s) : changed[n] \in LeafNodes \union BranchNodes
  BY NewKeyIs
<1>2. Changed(s, t, changed)
  BY <1>1, WithNodesIs
<1> HIDE DEF t
<1>3. ASSUME NEW n \in Ids(s)
      PROVE  SameContent(s, t, n) /\ SamePlace(s, t, n)
  <2>1. CASE n \notin DOMAIN changed
    <3>1. t.nodes[n] = s.nodes[n]
      BY <1>2, <2>1 DEF Changed
    <3> QED BY <3>1 DEF SameContent, SamePlace, Parent, Slot, IsLeaf, Entries, Children, Keys, Offset
  <2>2. CASE n \in DOMAIN changed
    <3>1. PICK i : t.nodes[n] = WithKey(s.nodes[n], i, key)
      BY <1>2, <2>2 DEF Changed
    <3> DEFINE node == WithKey(s.nodes[n], i, key)
    <3>2. /\ node.kind = s.nodes[n].kind /\ node.parent = Parent(s, n)
          /\ node.indexInParent = Slot(s, n)
          /\ IsLeaf(s, n) => node.entries = Entries(s, n)
          /\ ~IsLeaf(s, n) => /\ node.children = Children(s, n)
                              /\ node.childOffset = Offset(s, n)
                              /\ Len(node.keys) = Len(Keys(s, n))
      BY NewKeyIs
    <3>3. t.nodes[n] = node
      BY <3>1
    <3> HIDE DEF node
    <3> QED BY <3>2, <3>3 DEF SameContent, SamePlace, Parent, Slot, IsLeaf, Entries, Children, Keys, Offset
  <2> QED BY <2>1, <2>2
<1> QED BY <1>2, <1>3 DEF Alike, Changed, t

LEMMA SameIsAlike ==
  ASSUME NEW s, IsTree(s)
  PROVE  Alike(s, s)
BY DEF Alike, SameButNodes, SameCapacity, SameContent, SamePlace

LEMMA UpdateMinKeyIs ==
  ASSUME NEW s, IsTree(s), NEW n \in Ids(s)
  PROVE  Alike(s, UpdateMinKeyInAncestors(s, n))
<1> DEFINE known == {m \in Climb(s, n) : m # None /\ Parent(s, m) # None}
           Child(b) == CHOOSE m \in known : Parent(s, m) = b
           key == MinKey(s, n)
           changed == [b \in {Parent(s, m) : m \in known} |->
                          [s.nodes[b] EXCEPT !.keys[Position(s, Child(b))] = key]]
<1>0. UpdateMinKeyInAncestors(s, n) = IF key = Null THEN s ELSE WithNodes(s, changed)
  BY DEF UpdateMinKeyInAncestors, key, changed, known, Child
<1> HIDE DEF key
<1>1. CASE key = Null
  <2> HIDE DEF changed
  <2> QED BY <1>0, <1>1, SameIsAlike
<1>2. CASE key # Null
  <2>1. key \in NodeKeys
    BY <1>2, MinKeyIs DEF key
  <2>3. \A b \in DOMAIN changed : \E i : changed[b] = WithKey(s.nodes[b], i, key)
    <3> HIDE DEF known, Child, key
    <3> QED BY DEF WithKey
  <2> HIDE DEF changed
  <2> QED BY <1>0, <1>2, <2>1, <2>3, NewKeysAre
<1> QED BY <1>1, <1>2

(* New parents. *)

NewPlace(node, parent, slot) == [node EXCEPT !.parent = parent, !.indexInParent = slot]

LEMMA NewPlaceIs ==
  ASSUME NEW s, IsTree(s), NEW n \in Ids(s), NEW p \in Nat, NEW x \in Int
  PROVE  LET node == NewPlace(s.nodes[n], p, x)
         IN  /\ node \in LeafNodes \union BranchNodes
             /\ node.indexInParent = x /\ node.parent = p
             /\ node.kind = s.nodes[n].kind
             /\ IsLeaf(s, n) => node.entries = Entries(s, n)
             /\ ~IsLeaf(s, n) => /\ node.children = Children(s, n)
                                 /\ node.keys = Keys(s, n) /\ node.childOffset = Offset(s, n)
<1>1. CASE IsLeaf(s, n)
  <2>1. s.nodes[n] \in LeafNodes
    BY <1>1, NodesAre
  <2> QED BY <1>1, <2>1 DEF LeafNodes, IsLeaf, Entries, NewPlace
<1>2. CASE ~IsLeaf(s, n)
  <2>1. s.nodes[n] \in BranchNodes
    BY <1>2, NodesAre
  <2> QED BY <1>2, <2>1 DEF BranchNodes, IsLeaf, Children, Keys, Offset, NewPlace
<1> QED BY <1>1, <1>2

(* The nodes of kids are now children of b, in slots from first on. *)
Adopted(s, t, b, kids, first) ==
    /\ SameButNodes(s, t) /\ Ids(t) = Ids(s)
    /\ \A n \in Ids(s) : SameContent(s, t, n)
    /\ \A n \in Ids(s) \ Held(kids) : SamePlace(s, t, n)
    /\ \A i \in DOMAIN kids : Parent(t, kids[i]) = b /\ Slot(t, kids[i]) = first + i - 1

LEMMA AdoptIs ==
  ASSUME NEW s, IsTree(s), NEW b \in Nat, NEW kids \in Seq(Nat), NEW first \in Int,
         Distinct(kids), Held(kids) \subseteq Ids(s)
  PROVE  Adopted(s, Adopt(s, b, kids, first), b, kids, first)
<1> DEFINE At(n) == CHOOSE i \in DOMAIN kids : kids[i] = n
           Place(n) == first + At(n) - 1
           changed == [n \in Seqs!ToSet(kids) |->
                          [s.nodes[n] EXCEPT !.parent = b, !.indexInParent = Place(n)]]
           t == Adopt(s, b, kids, first)
<1>0. t = WithNodes(s, changed)
  BY DEF Adopt
<1>1. Seqs!ToSet(kids) = Held(kids)
  BY DEF Seqs!ToSet, Held
<1>2. ASSUME NEW i \in DOMAIN kids
      PROVE  Place(kids[i]) = first + i - 1 /\ Place(kids[i]) \in Int
  <2>1. At(kids[i]) \in DOMAIN kids /\ kids[At(kids[i])] = kids[i]
    OBVIOUS
  <2> HIDE DEF At
  <2>2. At(kids[i]) = i
    BY <2>1 DEF Distinct
  <2> QED BY <2>2
<1> HIDE DEF Place
<1>3. /\ DOMAIN changed = Held(kids)
      /\ \A n \in Held(kids) : changed[n] = NewPlace(s.nodes[n], b, Place(n))
  BY <1>1 DEF NewPlace
<1> HIDE DEF changed
<1>4. \A n \in Held(kids) : n \in Ids(s) /\ Place(n) \in Int
  BY <1>2 DEF Held
<1>5. \A n \in DOMAIN changed \intersect Ids(s) : changed[n] \in LeafNodes \union BranchNodes
  BY <1>3, <1>4, NewPlaceIs
<1>6. Changed(s, t, changed)
  BY <1>0, <1>5, WithNodesIs
<1> HIDE DEF t
<1>7. ASSUME NEW n \in Ids(s) \ Held(kids)
      PROVE  SameContent(s, t, n) /\ SamePlace(s, t, n)
  <2>1. t.nodes[n] = s.nodes[n]
    BY <1>3, <1>6 DEF Changed
  <2> QED BY <2>1 DEF SameContent, SamePlace, Parent, Slot, IsLeaf, Entries, Children, Keys, Offset
<1>8. ASSUME NEW n \in Held(kids)
      PROVE  SameContent(s, t, n) /\ Parent(t, n) = b /\ Slot(t, n) = Place(n)
  <2> DEFINE node == NewPlace(s.nodes[n], b, Place(n))
  <2>1. /\ node.indexInParent = Place(n) /\ node.parent = b
        /\ node.kind = s.nodes[n].kind
        /\ IsLeaf(s, n) => node.entries = Entries(s, n)
        /\ ~IsLeaf(s, n) => /\ node.children = Children(s, n)
                            /\ node.keys = Keys(s, n) /\ node.childOffset = Offset(s, n)
    BY <1>4, NewPlaceIs
  <2>2. t.nodes[n] = node
    BY <1>3, <1>4, <1>6 DEF Changed
  <2> HIDE DEF node
  <2> QED BY <2>1, <2>2 DEF SameContent, Parent, Slot, IsLeaf, Entries, Children, Keys, Offset
<1>9. \A i \in DOMAIN kids : kids[i] \in Held(kids)
  BY DEF Held
<1>10. \A i \in DOMAIN kids : Parent(t, kids[i]) = b /\ Slot(t, kids[i]) = first + i - 1
  BY <1>2, <1>8, <1>9
<1>11. \A n \in Ids(s) : SameContent(s, t, n)
  BY <1>7, <1>8
<1> QED BY <1>6, <1>7, <1>10, <1>11 DEF Adopted, Changed, t

(* But for the root and the nodes, the trees are the same. *)
SameButRoot(s, t) ==
    /\ IsTree(t) /\ t.todo = s.todo /\ t.broken = s.broken
    /\ t.entryCount = s.entryCount /\ SameCapacity(s, t)

(* A new branch, over children that are not new. *)
NewBranch(s, t, kids, parent) ==
    /\ Ids(t) = Ids(s) \union {Fresh(s)} /\ Fresh(s) \notin Ids(s) /\ Fresh(s) \in Nat \ {None}
    /\ \A n \in Ids(s) : SameContent(s, t, n)
    /\ \A n \in Ids(s) \ Held(kids) : SamePlace(s, t, n)
    /\ \A i \in DOMAIN kids : Parent(t, kids[i]) = Fresh(s)
    /\ Placed(t, Fresh(s)) /\ Children(t, Fresh(s)) = kids /\ Parent(t, Fresh(s)) = parent
    /\ Offset(t, Fresh(s)) = 0

LEMMA CreateBranchNodeIs ==
  ASSUME NEW s, IsTree(s), s.broken = FALSE, NEW kids \in Seq(Nat), NEW parent \in Nat,
         Distinct(kids), Held(kids) \subseteq Ids(s), \A n \in Held(kids) : NonEmpty(s, n)
  PROVE  /\ SameButNodes(s, CreateBranchNode(s, kids, parent))
         /\ NewBranch(s, CreateBranchNode(s, kids, parent), kids, parent)
<1> DEFINE b == Fresh(s)
           a == Adopt(s, b, kids, 0)
           keys == [i \in DOMAIN kids |-> MinKey(s, kids[i])]
           branch == [kind |-> "branch", children |-> kids, keys |-> keys,
                      childOffset |-> 0, parent |-> parent, indexInParent |-> 0]
           w == WithNewNode(a, branch)
           t == CreateBranchNode(s, kids, parent)
<1>1. t = [w EXCEPT !.broken = @ \/ \E i \in DOMAIN keys : keys[i] = Null]
  BY DEF CreateBranchNode
<1>2. b \in Nat \ {None} /\ b \notin Ids(s)
  BY DEF IsTree, Fresh, None, Ids
<1>3. Adopted(s, a, b, kids, 0)
  BY <1>2, AdoptIs
<1> HIDE DEF a
<1>4. \A i \in DOMAIN kids : kids[i] \in Held(kids) /\ kids[i] \in Ids(s)
  BY DEF Held
<1>5. \A i \in DOMAIN kids : MinKey(s, kids[i]) \in NodeKeys /\ MinKey(s, kids[i]) # Null
  BY <1>4, MinKeyIs
<1>6. /\ keys \in Seq(NodeKeys) /\ Len(keys) = Len(kids)
      /\ \A i \in DOMAIN keys : keys[i] # Null
  <2>1. Len(kids) \in Nat /\ DOMAIN kids = 1..Len(kids)
    OBVIOUS
  <2>2. DOMAIN keys = 1..Len(kids) /\ \A i \in 1..Len(kids) : keys[i] \in NodeKeys /\ keys[i] # Null
    BY <1>5, <2>1
  <2>3. keys = [i \in 1..Len(kids) |-> keys[i]]
    BY <2>1
  <2> HIDE DEF keys
  <2> QED BY <2>1, <2>2, <2>3, IsASeq
<1> HIDE DEF keys
<1>7. branch \in BranchNodes
  BY <1>6 DEF BranchNodes
<1>8. /\ IsTree(a) /\ Ids(a) = Ids(s) /\ Fresh(a) = b /\ SameButNodes(s, a)
  <2>1. IsTree(a) /\ Ids(a) = Ids(s) /\ SameButNodes(s, a)
    BY <1>3 DEF Adopted, SameButNodes
  <2>2. /\ Len(a.nodes) \in Nat /\ Ids(a) = 1..Len(a.nodes)
        /\ Len(s.nodes) \in Nat /\ Ids(s) = 1..Len(s.nodes)
    BY <2>1, NodesAre
  <2> DEFINE m == Len(a.nodes)
             n == Len(s.nodes)
  <2>3. m = n
    <3>1. m \in Nat /\ n \in Nat /\ 1..m = 1..n
      BY <2>1, <2>2
    <3> HIDE DEF m, n
    <3>2. m > 0 => m \in 1..n
      BY <3>1
    <3>3. n > 0 => n \in 1..m
      BY <3>1
    <3> QED BY <3>1, <3>2, <3>3
  <2> QED BY <2>1, <2>3 DEF Fresh
<1>9. /\ SameButNodes(a, w) /\ Ids(w) = Ids(a) \union {b} /\ w.nodes[b] = branch
      /\ \A n \in Ids(a) : w.nodes[n] = a.nodes[n]
  BY <1>7, <1>8, WithNewNodeIs
<1> HIDE DEF w
<1>10. w.broken = FALSE /\ IsTree(w)
  BY <1>8, <1>9 DEF SameButNodes
<1>11. t = w
  <2>1. t = [w EXCEPT !.broken = FALSE]
    BY <1>1, <1>6, <1>10
  <2> QED BY <1>10, <2>1 DEF IsTree
<1> HIDE DEF t
<1>12. SameButNodes(s, t)
  BY <1>8, <1>9, <1>11 DEF SameButNodes, SameCapacity
<1>13. \A n \in Ids(s) : SameContent(a, t, n) /\ SamePlace(a, t, n)
  BY <1>8, <1>9, <1>11 DEF SameContent, SamePlace, Parent, Slot, IsLeaf, Entries, Children, Keys, Offset
<1>14. \A n \in Ids(s) : SameContent(s, t, n)
  BY <1>3, <1>13 DEF SameContent, Adopted
<1>15. \A n \in Ids(s) \ Held(kids) : SamePlace(s, t, n)
  BY <1>3, <1>13 DEF SamePlace, Adopted
<1>16. \A i \in DOMAIN kids : Parent(t, kids[i]) = b /\ Slot(t, kids[i]) = 0 + i - 1
  BY <1>3, <1>4, <1>13 DEF SamePlace, Adopted
<1>17. /\ ~IsLeaf(t, b) /\ Children(t, b) = kids /\ Keys(t, b) = keys /\ Offset(t, b) = 0
       /\ Parent(t, b) = parent
  <2>1. t.nodes[b] = branch
    BY <1>9, <1>11
  <2> QED BY <2>1 DEF IsLeaf, Children, Keys, Offset, Parent
<1> HIDE DEF b
<1>18. Placed(t, b)
  BY <1>2, <1>4, <1>6, <1>8, <1>9, <1>11, <1>16, <1>17 DEF Placed
<1>19. NewBranch(s, t, kids, parent)
  BY <1>2, <1>8, <1>9, <1>11, <1>14, <1>15, <1>16, <1>17, <1>18 DEF NewBranch, b
<1> QED BY <1>12, <1>19 DEF t

(* Changes that no decision about the nodes depends on. *)

LEMMA AlikeTwice ==
  ASSUME NEW s, NEW t, NEW u, Alike(s, t), Alike(t, u)
  PROVE  Alike(s, u)
BY DEF Alike, SameButNodes, SameCapacity, SameContent, SamePlace

LEMMA SameNodesAreAlike ==
  ASSUME NEW s, IsTree(s), NEW t, SameButNodes(s, t), t.nodes = s.nodes
  PROVE  Alike(s, t)
BY DEF Alike, Ids, SameContent, SamePlace, Parent, Slot, IsLeaf, Entries, Children, Keys, Offset

LEMMA EndsAre ==
  ASSUME NEW s, IsTree(s), NEW x
  PROVE  /\ Alike(s, [s EXCEPT !.leftmostLeaf = x])
         /\ Alike(s, [s EXCEPT !.rightmostLeaf = x])
<1>1. ASSUME NEW t, t \in {[s EXCEPT !.leftmostLeaf = x], [s EXCEPT !.rightmostLeaf = x]}
      PROVE  Alike(s, t)
  <2>1. SameButNodes(s, t) /\ t.nodes = s.nodes
    BY <1>1 DEF IsTree, SameButNodes, SameCapacity
  <2> QED BY <2>1, SameNodesAreAlike
<1> QED BY <1>1

(* A node with another field that no decision depends on. *)
LEMMA OneNodeAlike ==
  ASSUME NEW s, IsTree(s), NEW n \in Ids(s), NEW node \in LeafNodes \union BranchNodes,
         node.kind = s.nodes[n].kind, node.parent = Parent(s, n),
         node.indexInParent = Slot(s, n),
         IsLeaf(s, n) => node.entries = Entries(s, n),
         ~IsLeaf(s, n) => /\ node.children = Children(s, n) /\ node.childOffset = Offset(s, n)
                          /\ Len(node.keys) = Len(Keys(s, n))
  PROVE  Alike(s, [s EXCEPT !.nodes[n] = node])
<1> DEFINE t == [s EXCEPT !.nodes[n] = node]
<1>1. OneChanged(s, t, n, node)
  BY OneNodeIs
<1> HIDE DEF t
<1>2. SameContent(s, t, n) /\ SamePlace(s, t, n)
  BY <1>1 DEF OneChanged, SameContent, SamePlace, Parent, Slot, IsLeaf, Entries, Children, Keys, Offset
<1>3. ASSUME NEW m \in Ids(s) \ {n} PROVE SameContent(s, t, m) /\ SamePlace(s, t, m)
  <2>1. t.nodes[m] = s.nodes[m]
    BY <1>1 DEF OneChanged
  <2> QED BY <2>1 DEF SameContent, SamePlace, Parent, Slot, IsLeaf, Entries, Children, Keys, Offset
<1>4. SameButNodes(s, t) /\ Ids(t) = Ids(s)
  BY <1>1 DEF OneChanged
<1>5. Alike(s, t)
  BY <1>2, <1>3, <1>4 DEF Alike
<1> QED BY <1>5 DEF t

LEMMA LinksAre ==
  ASSUME NEW s, IsTree(s), NEW m, NEW x \in Nat
  PROVE  /\ Alike(s, [s EXCEPT !.nodes[m].prev = x])
         /\ Alike(s, [s EXCEPT !.nodes[m].next = x])
<1>1. CASE m \notin Ids(s)
  <2>1. [s EXCEPT !.nodes[m].prev = x] = s /\ [s EXCEPT !.nodes[m].next = x] = s
    BY <1>1 DEF IsTree, Ids
  <2> QED BY <2>1, SameIsAlike
<1>2. CASE m \in Ids(s) /\ IsLeaf(s, m)
  <2>1. s.nodes[m] \in LeafNodes
    BY <1>2, NodesAre
  <2>2. ASSUME NEW node, node \in {[s.nodes[m] EXCEPT !.prev = x], [s.nodes[m] EXCEPT !.next = x]}
        PROVE  Alike(s, [s EXCEPT !.nodes[m] = node])
    <3>1. /\ node \in LeafNodes /\ node.kind = s.nodes[m].kind /\ node.parent = s.nodes[m].parent
          /\ node.indexInParent = s.nodes[m].indexInParent /\ node.entries = s.nodes[m].entries
      BY <2>1, <2>2 DEF LeafNodes
    <3> QED BY <1>2, <3>1, OneNodeAlike DEF Parent, Slot, Entries
  <2>3. /\ [s EXCEPT !.nodes[m].prev = x] = [s EXCEPT !.nodes[m] = [s.nodes[m] EXCEPT !.prev = x]]
        /\ [s EXCEPT !.nodes[m].next = x] = [s EXCEPT !.nodes[m] = [s.nodes[m] EXCEPT !.next = x]]
    BY <1>2 DEF IsTree, Ids
  <2> QED BY <2>2, <2>3
<1>3. CASE m \in Ids(s) /\ ~IsLeaf(s, m)
  <2>1. s.nodes[m] \in BranchNodes
    BY <1>3, NodesAre
  <2>2. [s.nodes[m] EXCEPT !.prev = x] = s.nodes[m] /\ [s.nodes[m] EXCEPT !.next = x] = s.nodes[m]
    BY <2>1 DEF BranchNodes
  <2>3. [s EXCEPT !.nodes[m].prev = x] = s /\ [s EXCEPT !.nodes[m].next = x] = s
    BY <1>3, <2>2 DEF IsTree, Ids
  <2> QED BY <2>3, SameIsAlike
<1> QED BY <1>1, <1>2, <1>3

LEMMA OneKeyIs ==
  ASSUME NEW s, IsTree(s), NEW m, NEW i, NEW key \in NodeKeys
  PROVE  Alike(s, [s EXCEPT !.nodes[m].keys[i] = key])
<1>1. CASE m \notin Ids(s)
  <2>1. [s EXCEPT !.nodes[m].keys[i] = key] = s
    BY <1>1 DEF IsTree, Ids
  <2> QED BY <2>1, SameIsAlike
<1>2. CASE m \in Ids(s)
  <2> DEFINE node == WithKey(s.nodes[m], i, key)
  <2>1. /\ node \in LeafNodes \union BranchNodes
        /\ node.kind = s.nodes[m].kind /\ node.parent = Parent(s, m)
        /\ node.indexInParent = Slot(s, m)
        /\ IsLeaf(s, m) => node.entries = Entries(s, m)
        /\ ~IsLeaf(s, m) => /\ node.children = Children(s, m)
                            /\ node.childOffset = Offset(s, m)
                            /\ Len(node.keys) = Len(Keys(s, m))
    BY <1>2, NewKeyIs
  <2>2. [s EXCEPT !.nodes[m].keys[i] = key] = [s EXCEPT !.nodes[m] = node]
    BY <1>2 DEF IsTree, Ids, WithKey
  <2> HIDE DEF node
  <2> QED BY <1>2, <2>1, <2>2, OneNodeAlike
<1> QED BY <1>1, <1>2

(* Leaf n holds other entries. *)
Reentered(s, t, n, list) ==
    /\ SameButNodes(s, t) /\ Ids(t) = Ids(s)
    /\ IsLeaf(t, n) /\ Entries(t, n) = list
    /\ \A m \in Ids(s) : SamePlace(s, t, m)
    /\ \A m \in Ids(s) \ {n} : SameContent(s, t, m)

LEMMA EntriesAre ==
  ASSUME NEW s, IsTree(s), NEW n \in Ids(s), IsLeaf(s, n), NEW list \in Seq(NewEntries)
  PROVE  Reentered(s, [s EXCEPT !.nodes[n].entries = list], n, list)
<1> DEFINE node == [s.nodes[n] EXCEPT !.entries = list]
           t == [s EXCEPT !.nodes[n] = node]
<1>1. s.nodes[n] \in LeafNodes
  BY NodesAre
<1>2. /\ node \in LeafNodes /\ node.kind = s.nodes[n].kind /\ node.parent = s.nodes[n].parent
      /\ node.indexInParent = s.nodes[n].indexInParent /\ node.entries = list
  BY <1>1 DEF LeafNodes
<1>3. [s EXCEPT !.nodes[n].entries = list] = t
  BY DEF IsTree, Ids
<1> HIDE DEF node
<1>4. OneChanged(s, t, n, node)
  BY <1>2, OneNodeIs
<1> HIDE DEF t
<1>5. IsLeaf(t, n) /\ Entries(t, n) = list /\ SamePlace(s, t, n)
  BY <1>2, <1>4 DEF OneChanged, SamePlace, Parent, Slot, IsLeaf, Entries
<1>6. ASSUME NEW m \in Ids(s) \ {n} PROVE SameContent(s, t, m) /\ SamePlace(s, t, m)
  <2>1. t.nodes[m] = s.nodes[m]
    BY <1>4 DEF OneChanged
  <2> QED BY <2>1 DEF SameContent, SamePlace, Parent, Slot, IsLeaf, Entries, Children, Keys, Offset
<1> QED BY <1>3, <1>4, <1>5, <1>6 DEF Reentered, OneChanged

(* Splits. *)

LEMMA HalfIs ==
  ASSUME NEW n \in Nat
  PROVE  Half(n) \in Nat /\ 2 * Half(n) >= n /\ 2 * Half(n) <= n + 1
BY DEF Half

LEMMA HalvesAre ==
  ASSUME NEW n \in Nat, n >= 2
  PROVE  /\ Half(n) \in Nat /\ Half(n) >= 1 /\ Half(n) <= n - 1
         /\ Half(n - 1) <= Half(n) /\ Half(n - 1) <= n - Half(n)
<1>1. /\ Half(n) \in Nat /\ 2 * Half(n) >= n /\ 2 * Half(n) <= n + 1
      /\ Half(n - 1) \in Nat /\ 2 * Half(n - 1) >= n - 1 /\ 2 * Half(n - 1) <= n
  BY HalfIs
<1> QED BY <1>1

Count(s, n) == IF IsLeaf(s, n) THEN Len(Entries(s, n)) ELSE Len(Children(s, n))

(* The new node f took the second part of what n held. *)
Halved(s, t, n, f) ==
    /\ f \in Nat \ {None} /\ f \notin Ids(s) /\ Ids(t) = Ids(s) \union {f}
    /\ IsLeaf(t, n) <=> IsLeaf(s, n)
    /\ IsLeaf(t, f) <=> IsLeaf(s, n)
    /\ NonEmpty(t, n) /\ NonEmpty(t, f)
    /\ Parent(t, f) = Parent(s, n)
    /\ \A m \in Ids(s) \ {n} : SameContent(s, t, m)
    /\ IsLeaf(s, n) => \A m \in Ids(s) : SamePlace(s, t, m)
    /\ ~IsLeaf(s, n) =>
          /\ Placed(t, n) /\ Placed(t, f)
          /\ Held(Children(t, n)) \union Held(Children(t, f)) = Held(Children(s, n))
          /\ \A m \in Held(Children(t, n)) : Parent(t, m) = Parent(s, m)
          /\ \A m \in Held(Children(t, f)) : Parent(t, m) = f
          /\ \A m \in Ids(s) \ Held(Children(s, n)) : SamePlace(s, t, m)

(* What is done once the node is in two. *)
Raised(s, n, u) ==
    IF Parent(s, n) = None THEN CreateRoot(u, <<n, Fresh(s)>>)
    ELSE [u EXCEPT !.todo = ToInsert(Parent(s, n), n, Fresh(s))]

Splits(s, t, n) ==
    \E u : /\ SameButNodes(s, u) /\ Halved(s, u, n, Fresh(s))
           /\ \A m \in {n, Fresh(s)} :
                 Half(Count(s, n) - 1) <= Count(u, m) /\ Count(u, m) <= Count(s, n) - 1
           /\ t = Raised(s, n, u)

LinkedLeaf(list, p, prev, next) == [LeafNode(list, p) EXCEPT !.prev = prev, !.next = next]

LEMMA LinkedLeafIs ==
  ASSUME NEW list \in Seq(NewEntries), NEW p \in Nat, NEW prev \in Nat, NEW next \in Nat
  PROVE  /\ LinkedLeaf(list, p, prev, next) \in LeafNodes
         /\ LinkedLeaf(list, p, prev, next).entries = list
         /\ LinkedLeaf(list, p, prev, next).parent = p
         /\ LinkedLeaf(list, p, prev, next).kind = "leaf"
<1> DEFINE new == LeafNode(list, p)
           leaf == [new EXCEPT !.prev = prev, !.next = next]
<1>1. new \in LeafNodes /\ new.entries = list /\ new.parent = p /\ new.kind = "leaf"
  BY DEF LeafNode, LeafNodes, None
<1> HIDE DEF new
<1>2. /\ leaf \in LeafNodes /\ leaf.entries = list /\ leaf.parent = p
      /\ leaf.kind = "leaf"
  BY <1>1 DEF LeafNodes
<1> QED BY <1>2 DEF new, LinkedLeaf

LEMMA SplitLeafIs ==
  ASSUME NEW s, IsTree(s), NEW leaf \in Ids(s), IsLeaf(s, leaf), Len(Entries(s, leaf)) >= 2
  PROVE  Splits(s, SplitLeaf(s, leaf), leaf)
<1> DEFINE node == s.nodes[leaf]
           list == Entries(s, leaf)
           total == Len(list)
           kept == Half(total)
           sibling == Fresh(s)
           rest == LinkedLeaf(SubSeq(list, kept + 1, total), node.parent, leaf, node.next)
           w == WithNewNode(s, rest)
           cut == [w EXCEPT !.nodes[leaf].entries = SubSeq(list, 1, kept)]
           halved == [w EXCEPT !.nodes[leaf].entries = SubSeq(@, 1, kept),
                              !.nodes[leaf].next = sibling]
           linked == IF node.next # None
                     THEN [halved EXCEPT !.nodes[node.next].prev = sibling]
                     ELSE [halved EXCEPT !.rightmostLeaf = sibling]
<1>1. /\ list \in Seq(NewEntries) /\ total \in Nat /\ total >= 2 /\ node \in LeafNodes
      /\ node.entries = list
  BY NodesAre DEF Entries
<1>2. /\ kept \in Nat /\ kept >= 1 /\ kept <= total - 1
      /\ Half(total - 1) <= kept /\ Half(total - 1) <= total - kept
  <2> HIDE DEF total
  <2> QED BY <1>1, HalvesAre
<1>3. /\ SubSeq(list, 1, kept) \in Seq(NewEntries) /\ Len(SubSeq(list, 1, kept)) = kept
      /\ SubSeq(list, kept + 1, total) \in Seq(NewEntries)
      /\ Len(SubSeq(list, kept + 1, total)) = total - kept
  <2> HIDE DEF kept, list
  <2> QED BY <1>1, <1>2, PieceIs
<1>4. /\ rest \in LeafNodes /\ rest.entries = SubSeq(list, kept + 1, total)
      /\ rest.parent = Parent(s, leaf) /\ rest.kind = "leaf"
  <2>1. leaf \in Nat /\ node.next \in Nat /\ node.parent \in Nat
    BY <1>1, NodesAre DEF LeafNodes
  <2> DEFINE tail == SubSeq(list, kept + 1, total)
             r == LinkedLeaf(tail, node.parent, leaf, node.next)
  <2>2. r \in LeafNodes /\ r.entries = tail /\ r.parent = node.parent /\ r.kind = "leaf"
    <3>1. tail \in Seq(NewEntries)
      BY <1>3
    <3> DEFINE p == node.parent
               x == node.next
    <3>2. p \in Nat /\ x \in Nat /\ leaf \in Nat
      BY <2>1
    <3> HIDE DEF tail, p, x
    <3>3. /\ LinkedLeaf(tail, p, leaf, x) \in LeafNodes
          /\ LinkedLeaf(tail, p, leaf, x).entries = tail
          /\ LinkedLeaf(tail, p, leaf, x).parent = p
          /\ LinkedLeaf(tail, p, leaf, x).kind = "leaf"
      BY <3>1, <3>2, LinkedLeafIs
    <3> QED BY <3>3 DEF p, x
  <2> QED BY <2>2 DEF Parent
<1>5. /\ SameButNodes(s, w) /\ sibling \in Nat \ {None} /\ sibling \notin Ids(s)
      /\ Ids(w) = Ids(s) \union {sibling} /\ w.nodes[sibling] = rest
      /\ \A n \in Ids(s) : w.nodes[n] = s.nodes[n]
  <2> HIDE DEF rest
  <2> QED BY <1>4, WithNewNodeIs
<1>6. SplitLeaf(s, leaf) = Raised(s, leaf, linked)
  BY DEF SplitLeaf, Raised, Entries, Parent, LinkedLeaf
<1>6a. halved = [cut EXCEPT !.nodes[leaf].next = sibling]
  <2>1. /\ w.nodes \in Seq(LeafNodes \union BranchNodes) /\ leaf \in DOMAIN w.nodes
        /\ w.nodes[leaf] = node
    <3> HIDE DEF w
    <3> QED BY <1>5 DEF SameButNodes, IsTree, Ids
  <2> DEFINE piece == SubSeq(list, 1, kept)
  <2>2. SubSeq(w.nodes[leaf].entries, 1, kept) = piece
    BY <1>1, <2>1
  <2>3. cut = [w EXCEPT !.nodes[leaf].entries = piece]
    OBVIOUS
  <2> HIDE DEF w, piece, list, kept, sibling, cut
  <2> QED BY <2>1, <2>2, <2>3, <1>5 DEF SameButNodes, IsTree
<1> HIDE DEF rest, w, kept
<1>7. Reentered(w, cut, leaf, SubSeq(list, 1, kept))
  <2>1. IsTree(w) /\ leaf \in Ids(w) /\ IsLeaf(w, leaf)
    BY <1>5 DEF SameButNodes, IsLeaf
  <2> HIDE DEF list, cut
  <2> QED BY <1>3, <2>1, EntriesAre DEF cut
<1> HIDE DEF cut
<1>8. Alike(cut, linked)
  <2>1. IsTree(cut) /\ sibling \in Nat
    BY <1>5, <1>7 DEF Reentered, SameButNodes
  <2>2. Alike(cut, halved)
    BY <1>6a, <2>1, LinksAre
  <2>3. IsTree(halved)
    BY <2>2 DEF Alike, SameButNodes
  <2> HIDE DEF halved
  <2>4. Alike(halved, linked)
    BY <2>1, <2>3, LinksAre, EndsAre
  <2> QED BY <2>2, <2>4, AlikeTwice
<1> HIDE DEF linked
<1>9. SameButNodes(s, linked)
  BY <1>5, <1>7, <1>8 DEF Reentered, Alike, SameButNodes, SameCapacity
<1>10. Ids(linked) = Ids(s) \union {sibling}
  BY <1>5, <1>7, <1>8 DEF Reentered, Alike
<1>11. /\ IsLeaf(linked, leaf) /\ Entries(linked, leaf) = SubSeq(list, 1, kept)
  <2>1. IsLeaf(cut, leaf) /\ Entries(cut, leaf) = SubSeq(list, 1, kept) /\ leaf \in Ids(cut)
    BY <1>5, <1>7 DEF Reentered
  <2> HIDE DEF list
  <2> QED BY <2>1, <1>8 DEF Alike, SameContent
<1>12. /\ IsLeaf(linked, sibling) /\ Entries(linked, sibling) = SubSeq(list, kept + 1, total)
       /\ Parent(linked, sibling) = Parent(s, leaf)
  <2>1. /\ IsLeaf(w, sibling) /\ Entries(w, sibling) = SubSeq(list, kept + 1, total)
        /\ Parent(w, sibling) = Parent(s, leaf)
    BY <1>4, <1>5 DEF IsLeaf, Entries, Parent
  <2> HIDE DEF list, total
  <2>2. sibling \in Ids(w) \ {leaf} /\ sibling \in Ids(cut)
    BY <1>5, <1>7 DEF Reentered
  <2> QED BY <2>1, <2>2, <1>7, <1>8 DEF Reentered, Alike, SameContent, SamePlace
<1>13. \A m \in Ids(s) : SamePlace(w, linked, m) /\ (m # leaf => SameContent(w, linked, m))
  BY <1>5, <1>7, <1>8 DEF Reentered, Alike, SamePlace, SameContent
<1>14. \A m \in Ids(s) : SamePlace(s, w, m) /\ SameContent(s, w, m)
  BY <1>5 DEF SamePlace, SameContent, Parent, Slot, IsLeaf, Entries, Children, Keys, Offset
<1>15. \A m \in Ids(s) : SamePlace(s, linked, m) /\ (m # leaf => SameContent(s, linked, m))
  BY <1>13, <1>14 DEF SamePlace, SameContent
<1> HIDE DEF list, total, sibling
<1>16. NonEmpty(linked, leaf) /\ NonEmpty(linked, sibling)
  <2>1. \A q \in Seq(NewEntries) : Len(q) >= 1 => q # <<>>
    OBVIOUS
  <2>2. SubSeq(list, 1, kept) # <<>>
    BY <1>2, <1>3, <2>1
  <2>3. total - kept >= 1
    BY <1>1, <1>2
  <2>4. SubSeq(list, kept + 1, total) # <<>>
    BY <1>3, <2>1, <2>3
  <2>5. Entries(linked, leaf) # <<>> /\ Entries(linked, sibling) # <<>>
    BY <1>11, <1>12, <2>2, <2>4
  <2> QED BY <1>11, <1>12, <2>5 DEF NonEmpty
<1>17. Halved(s, linked, leaf, sibling)
  <2>1. sibling \in Nat \ {None} /\ sibling \notin Ids(s)
    BY <1>5
  <2>2. \A m \in Ids(s) : SamePlace(s, linked, m)
    BY <1>15
  <2>3. \A m \in Ids(s) \ {leaf} : SameContent(s, linked, m)
    BY <1>15
  <2>4. IsLeaf(linked, leaf) /\ IsLeaf(linked, sibling) /\ IsLeaf(s, leaf)
    BY <1>11, <1>12
  <2> DEFINE t == linked
  <2>5. Parent(t, sibling) = Parent(s, leaf) /\ Ids(t) = Ids(s) \union {sibling}
    BY <1>10, <1>12
  <2>6. NonEmpty(t, leaf) /\ NonEmpty(t, sibling)
    BY <1>16
  <2>7. IsLeaf(t, leaf) <=> IsLeaf(s, leaf)
    BY <2>4
  <2>8. IsLeaf(t, sibling) <=> IsLeaf(s, leaf)
    BY <2>4
  <2>9. IsLeaf(s, leaf) => \A m \in Ids(s) : SamePlace(s, t, m)
    BY <2>2
  <2>10. \A m \in Ids(s) \ {leaf} : SameContent(s, t, m)
    BY <2>3
  <2> HIDE DEF t
  <2>11. Halved(s, t, leaf, sibling)
    BY <2>1, <2>4, <2>5, <2>6, <2>7, <2>8, <2>9, <2>10 DEF Halved
  <2> QED BY <2>11 DEF t
<1>18. /\ Count(linked, leaf) = kept /\ Count(linked, sibling) = total - kept
       /\ Count(s, leaf) = total
  BY <1>3, <1>11, <1>12 DEF Count, list, total
<1>19. \A m \in {leaf, sibling} : Half(Count(s, leaf) - 1) <= Count(linked, m)
                                  /\ Count(linked, m) <= Count(s, leaf) - 1
  BY <1>1, <1>2, <1>18
<1> QED BY <1>6, <1>9, <1>17, <1>19 DEF Splits, sibling

LEMMA NonEmptyIs ==
  ASSUME NEW s, IsTree(s), NEW n \in Ids(s)
  PROVE  NonEmpty(s, n) <=> IF IsLeaf(s, n) THEN Len(Entries(s, n)) >= 1 ELSE Len(Keys(s, n)) >= 1
<1>1. \A T : \A q \in Seq(T) : q # <<>> <=> Len(q) >= 1
  OBVIOUS
<1>2. CASE IsLeaf(s, n)
  <2>1. Entries(s, n) \in Seq(NewEntries)
    BY <1>2, NodesAre
  <2> QED BY <1>1, <1>2, <2>1 DEF NonEmpty
<1>3. CASE ~IsLeaf(s, n)
  <2>1. Keys(s, n) \in Seq(NodeKeys)
    BY <1>3, NodesAre
  <2> QED BY <1>1, <1>3, <2>1 DEF NonEmpty
<1> QED BY <1>2, <1>3

LEMMA SameNonEmpty ==
  ASSUME NEW s, IsTree(s), NEW t, IsTree(t), NEW n \in Ids(s), n \in Ids(t), SameContent(s, t, n)
  PROVE  NonEmpty(t, n) <=> NonEmpty(s, n)
<1>1. NonEmpty(s, n) <=> IF IsLeaf(s, n) THEN Len(Entries(s, n)) >= 1 ELSE Len(Keys(s, n)) >= 1
  BY NonEmptyIs
<1>2. NonEmpty(t, n) <=> IF IsLeaf(t, n) THEN Len(Entries(t, n)) >= 1 ELSE Len(Keys(t, n)) >= 1
  BY NonEmptyIs
<1> QED BY <1>1, <1>2 DEF SameContent

LEMMA SameFresh ==
  ASSUME NEW s, IsTree(s), NEW t, IsTree(t), Ids(t) = Ids(s)
  PROVE  Fresh(t) = Fresh(s)
<1> DEFINE m == Len(t.nodes)
           n == Len(s.nodes)
<1>1. m \in Nat /\ n \in Nat /\ 1..m = 1..n
  BY NodesAre
<1> HIDE DEF m, n
<1>2. m > 0 => m \in 1..n
  BY <1>1
<1>3. n > 0 => n \in 1..m
  BY <1>1
<1>4. m = n
  BY <1>1, <1>2, <1>3
<1> QED BY <1>4 DEF Fresh, m, n

(* A sequence in two. *)
InTwo(T, q, k, p, r) ==
    /\ p \in Seq(T) /\ Len(p) = k /\ \A i \in 1..k : p[i] = q[i]
    /\ r \in Seq(T) /\ Len(r) = Len(q) - k /\ \A i \in 1..Len(q) - k : r[i] = q[k + i]
    /\ Distinct(p) /\ Distinct(r) /\ Held(p) \union Held(r) = Held(q)
    /\ Held(p) \intersect Held(r) = {}

LEMMA PiecesAre ==
  ASSUME NEW T, NEW q \in Seq(T), NEW k \in 0..Len(q), Distinct(q)
  PROVE  InTwo(T, q, k, SubSeq(q, 1, k), SubSeq(q, k + 1, Len(q)))
<1> DEFINE p == SubSeq(q, 1, k)
           r == SubSeq(q, k + 1, Len(q))
           n == Len(q)
<1>1. n \in Nat /\ k \in Nat /\ k <= n /\ DOMAIN q = 1..n
  OBVIOUS
<1>2. /\ p \in Seq(T) /\ Len(p) = k /\ \A i \in 1..k : p[i] = q[i]
      /\ r \in Seq(T) /\ Len(r) = n - k /\ \A i \in 1..n - k : r[i] = q[k + i]
  <2> HIDE DEF n
  <2>1. /\ SubSeq(q, 1, k) \in Seq(T) /\ Len(SubSeq(q, 1, k)) = k - 1 + 1
        /\ \A j \in 1..k - 1 + 1 : SubSeq(q, 1, k)[j] = q[1 + j - 1]
    BY <1>1, PieceIs DEF n
  <2>2. k + 1 \in 1..n + 1 /\ n \in 0..n /\ k + 1 <= n + 1
    BY <1>1
  <2>3. /\ SubSeq(q, k + 1, n) \in Seq(T) /\ Len(SubSeq(q, k + 1, n)) = n - (k + 1) + 1
        /\ \A j \in 1..n - (k + 1) + 1 : SubSeq(q, k + 1, n)[j] = q[k + 1 + j - 1]
    BY <2>2, PieceIs DEF n
  <2>4. p = SubSeq(q, 1, k) /\ r = SubSeq(q, k + 1, n)
    BY DEF n
  <2> HIDE DEF p, r
  <2>5. k - 1 + 1 = k /\ n - (k + 1) + 1 = n - k /\ \A j \in Int : 1 + j - 1 = j /\ k + 1 + j - 1 = k + j
    BY <1>1
  <2> QED BY <1>1, <2>1, <2>3, <2>4, <2>5
<1>3. DOMAIN p = 1..k /\ DOMAIN r = 1..n - k
  BY <1>2
<1> HIDE DEF p, r, n
<1>4. Distinct(p)
  BY <1>1, <1>2, <1>3 DEF Distinct
<1>5. Distinct(r)
  <2>1. ASSUME NEW i \in 1..n - k, NEW j \in 1..n - k, r[i] = r[j] PROVE i = j
    <3>1. q[k + i] = q[k + j] /\ k + i \in 1..n /\ k + j \in 1..n
      BY <1>1, <1>2, <2>1
    <3>2. k + i = k + j
      BY <1>1, <3>1 DEF Distinct
    <3> QED BY <1>1, <3>2
  <2> QED BY <1>3, <2>1 DEF Distinct
<1>6. Held(p) \union Held(r) \subseteq Held(q)
  <2>1. \A i \in 1..k : i \in 1..n /\ p[i] = q[i]
    BY <1>1, <1>2
  <2>2. \A i \in 1..n - k : k + i \in 1..n /\ r[i] = q[k + i]
    BY <1>1, <1>2
  <2> QED BY <1>1, <1>3, <2>1, <2>2 DEF Held
<1>7. ASSUME NEW i \in 1..n PROVE q[i] \in Held(p) \union Held(r)
  <2>1. CASE i <= k
    BY <1>1, <1>2, <1>3, <2>1 DEF Held
  <2>2. CASE i > k
    <3>1. i - k \in 1..n - k /\ q[k + (i - k)] = q[i]
      BY <1>1, <2>2
    <3> QED BY <1>2, <1>3, <3>1 DEF Held
  <2> QED BY <1>1, <2>1, <2>2
<1>8. \A i \in 1..k, j \in 1..n - k : p[i] # r[j]
  <2>1. ASSUME NEW i \in 1..k, NEW j \in 1..n - k, p[i] = r[j] PROVE FALSE
    <3>1. q[i] = q[k + j] /\ i \in 1..n /\ k + j \in 1..n
      BY <1>1, <1>2, <2>1
    <3>2. i = k + j
      BY <1>1, <3>1 DEF Distinct
    <3> QED BY <1>1, <3>2
  <2> QED BY <2>1
<1>9. Held(p) \union Held(r) = Held(q)
  BY <1>1, <1>6, <1>7 DEF Held
<1>10. Held(p) \intersect Held(r) = {}
  BY <1>3, <1>8 DEF Held
<1>11. InTwo(T, q, k, p, r)
  BY <1>2, <1>4, <1>5, <1>9, <1>10 DEF InTwo, n
<1> QED BY <1>11 DEF p, r, n

LEMMA KeptIs ==
  ASSUME NEW n \in Nat, n >= 2, NEW off \in {0, 1}
  PROVE  LET kept == Half(off + n) - off
         IN  /\ kept \in Nat /\ 1 <= kept /\ kept <= n - 1
             /\ Half(n - 1) <= kept /\ Half(n - 1) <= n - kept
<1>1. \A m \in Nat : Half(m) \in Nat /\ 2 * Half(m) >= m /\ 2 * Half(m) <= m + 1
  BY HalfIs
<1>2. CASE off = 0
  BY <1>2, HalvesAre
<1>3. CASE off = 1
  <2>1. Half(1 + n) = Half(n - 1) + 1
    BY DEF Half
  <2>2. Half(n - 1) \in Nat /\ 2 * Half(n - 1) >= n - 1 /\ 2 * Half(n - 1) <= n
    BY <1>1
  <2> QED BY <1>3, <2>1, <2>2
<1> QED BY <1>2, <1>3

LEMMA CutIs ==
  ASSUME NEW s, IsTree(s), NEW b \in Ids(s), ~IsLeaf(s, b),
         NEW kids \in Seq(Nat), NEW keys \in Seq(NodeKeys)
  PROVE  Rewritten(s, [s EXCEPT !.nodes[b].children = kids, !.nodes[b].keys = keys],
                   b, kids, keys, Offset(s, b))
<1> DEFINE off == Offset(s, b)
<1>1. s.nodes[b] \in BranchNodes /\ off \in Nat
  BY NodesAre
<1>2. [s EXCEPT !.nodes[b].children = kids, !.nodes[b].keys = keys]
      = [s EXCEPT !.nodes[b].children = kids, !.nodes[b].keys = keys, !.nodes[b].childOffset = off]
  <2>1. [s.nodes[b] EXCEPT !.children = kids, !.keys = keys]
        = [s.nodes[b] EXCEPT !.children = kids, !.keys = keys, !.childOffset = off]
    BY <1>1 DEF BranchNodes, Offset
  <2>2. [s EXCEPT !.nodes[b].children = kids, !.nodes[b].keys = keys]
        = [s EXCEPT !.nodes[b] = [s.nodes[b] EXCEPT !.children = kids, !.keys = keys]]
    BY <1>1 DEF IsTree, Ids
  <2>3. [s EXCEPT !.nodes[b].children = kids, !.nodes[b].keys = keys, !.nodes[b].childOffset = off]
        = [s EXCEPT !.nodes[b] =
              [s.nodes[b] EXCEPT !.children = kids, !.keys = keys, !.childOffset = off]]
    BY <1>1 DEF IsTree, Ids
  <2> QED BY <2>1, <2>2, <2>3
<1> HIDE DEF off
<1>3. Rewritten(s, [s EXCEPT !.nodes[b].children = kids, !.nodes[b].keys = keys,
                             !.nodes[b].childOffset = off], b, kids, keys, off)
  BY <1>1, RewrittenIs
<1> QED BY <1>2, <1>3 DEF off

LEMMA SplitBranchIs ==
  ASSUME NEW s, IsTree(s), s.broken = FALSE, NEW b, Placed(s, b), Len(Children(s, b)) >= 2,
         \A n \in Held(Children(s, b)) : NonEmpty(s, n)
  PROVE  Splits(s, SplitBranch(s, b), b)
<1> DEFINE kids == Children(s, b)
           total == Len(kids)
           c == BranchCompact(s, b)
           off == Offset(c, b)
           kept == Half(ArrayLength(c, b)) - off
           first == SubSeq(kids, 1, kept)
           rest == SubSeq(kids, kept + 1, total)
           f == Fresh(s)
           split == CreateBranchNode(c, rest, Parent(c, b))
           cut == [split EXCEPT !.nodes[b].children = SubSeq(@, 1, kept),
                                !.nodes[b].keys = SubSeq(@, 1, kept)]
<1>1. /\ b \in Ids(s) /\ ~IsLeaf(s, b) /\ kids \in Seq(Nat) /\ total \in Nat /\ total >= 2
      /\ DOMAIN kids = 1..total
  BY NodesAre DEF Placed
<1>2. Distinct(kids) /\ Held(kids) \subseteq Ids(s) \ {b}
  BY PlacedAreDistinct
<1>3. Rearranged(s, c, b) /\ Children(c, b) = kids /\ off \in {0, 1}
  BY BranchCompactIs
<1>4. /\ IsTree(c) /\ Ids(c) = Ids(s) /\ SameButNodes(s, c) /\ Placed(c, b)
      /\ c.broken = FALSE /\ Fresh(c) = f /\ Parent(c, b) = Parent(s, b) /\ Parent(c, b) \in Nat
  <2> HIDE DEF c
  <2>1. IsTree(c) /\ Ids(c) = Ids(s) /\ SameButNodes(s, c) /\ Placed(c, b) /\ c.broken = FALSE
    BY <1>3 DEF Rearranged, SameButNodes
  <2>2. Parent(c, b) = Parent(s, b) /\ Parent(c, b) \in Nat
    BY <1>1, <1>3, <2>1, NodesAre DEF Rearranged
  <2> QED BY <2>1, <2>2, SameFresh
<1>5. ArrayLength(c, b) = off + total
  BY <1>3 DEF ArrayLength, Offset
<1>6. /\ kept \in Nat /\ 1 <= kept /\ kept <= total - 1
      /\ Half(total - 1) <= kept /\ Half(total - 1) <= total - kept
  <2> HIDE DEF total, off, c
  <2> QED BY <1>1, <1>3, <1>5, KeptIs
<1>6a. SplitBranch(s, b) = Raised(s, b, cut)
  <2>1. SubSeq(Children(c, b), kept + 1, Len(Children(c, b))) = rest
    BY <1>3
  <2>2. SplitBranch(s, b) = IF Parent(c, b) = None THEN CreateRoot(cut, <<b, Fresh(c)>>)
                            ELSE [cut EXCEPT !.todo = ToInsert(Parent(c, b), b, Fresh(c))]
    <3>1. cut = [CreateBranchNode(c, SubSeq(Children(c, b), kept + 1, Len(Children(c, b))), Parent(c, b))
                    EXCEPT !.nodes[b].children = SubSeq(@, 1, kept),
                           !.nodes[b].keys = SubSeq(@, 1, kept)]
      BY <2>1
    <3> HIDE DEF cut
    <3> QED BY <3>1 DEF SplitBranch, Offset
  <2> HIDE DEF cut, c
  <2> QED BY <1>4, <2>2 DEF Raised
<1> HIDE DEF kept
<1>7. /\ first \in Seq(Nat) /\ Len(first) = kept /\ \A i \in 1..kept : first[i] = kids[i]
      /\ rest \in Seq(Nat) /\ Len(rest) = total - kept
      /\ Distinct(first) /\ Distinct(rest) /\ Held(first) \union Held(rest) = Held(kids)
      /\ Held(first) \intersect Held(rest) = {}
  <2>1. kept \in 0..Len(kids)
    BY <1>1, <1>6
  <2>2. InTwo(Nat, kids, kept, first, rest)
    <3> HIDE DEF kids
    <3> QED BY <1>1, <1>2, <2>1, PiecesAre
  <2> HIDE DEF kids, first, rest
  <2> QED BY <2>2 DEF InTwo
<1> HIDE DEF first, rest, c, split
<1>8. SameButNodes(c, split) /\ NewBranch(c, split, rest, Parent(c, b))
  <2>1. Held(rest) \subseteq Ids(c)
    BY <1>2, <1>4, <1>7
  <2>2. ASSUME NEW n \in Held(rest) PROVE NonEmpty(c, n)
    <3>1. n \in Ids(s) \ {b} /\ NonEmpty(s, n)
      BY <1>2, <1>7
    <3>2. SameContent(s, c, n)
      BY <1>3, <3>1 DEF Rearranged
    <3> QED BY <1>4, <3>1, <3>2, SameNonEmpty
  <2> DEFINE p == Parent(c, b)
  <2>3. p \in Nat
    BY <1>4
  <2>4. \A n \in Held(rest) : NonEmpty(c, n)
    BY <2>2
  <2> HIDE DEF p
  <2>5. /\ SameButNodes(c, CreateBranchNode(c, rest, p))
        /\ NewBranch(c, CreateBranchNode(c, rest, p), rest, p)
    BY <1>4, <1>7, <2>1, <2>3, <2>4, CreateBranchNodeIs
  <2> QED BY <2>5 DEF p, split
<1> HIDE DEF split
<1>9. /\ IsTree(split) /\ Ids(split) = Ids(s) \union {f} /\ f \notin Ids(s) /\ f \in Nat \ {None}
      /\ b \in Ids(split) /\ ~IsLeaf(split, b)
      /\ Children(split, b) = kids /\ Offset(split, b) = off /\ SamePlace(c, split, b)
      /\ SameContent(c, split, b)
  <2>1. IsTree(split) /\ Ids(split) = Ids(s) \union {f} /\ f \notin Ids(s) /\ f \in Nat \ {None}
    BY <1>4, <1>8 DEF SameButNodes, NewBranch
  <2>2. SameContent(c, split, b) /\ SamePlace(c, split, b)
    BY <1>1, <1>2, <1>4, <1>7, <1>8 DEF NewBranch
  <2>3. ~IsLeaf(c, b)
    BY <1>4 DEF Placed
  <2> QED BY <1>1, <1>3, <2>1, <2>2, <2>3 DEF SameContent
<1>10. Len(Keys(split, b)) = total /\ Keys(split, b) \in Seq(NodeKeys)
  <2>1. Len(Keys(c, b)) = total /\ ~IsLeaf(c, b)
    BY <1>3, <1>4 DEF Placed
  <2> QED BY <1>9, <2>1, NodesAre DEF SameContent
<1> DEFINE keys == SubSeq(Keys(split, b), 1, kept)
<1>11. keys \in Seq(NodeKeys) /\ Len(keys) = kept
  <2> DEFINE old == Keys(split, b)
  <2>1. old \in Seq(NodeKeys) /\ Len(old) = total
    BY <1>10
  <2> HIDE DEF old, total
  <2>2. kept \in 0..Len(old) /\ 1 \in 1..Len(old) + 1 /\ 1 <= kept + 1
    BY <1>1, <1>6, <2>1
  <2>3. SubSeq(old, 1, kept) \in Seq(NodeKeys) /\ Len(SubSeq(old, 1, kept)) = kept - 1 + 1
    BY <2>1, <2>2, PieceIs
  <2> QED BY <1>6, <2>3 DEF old
<1>12. cut = [split EXCEPT !.nodes[b].children = first, !.nodes[b].keys = keys]
  <2>1. split.nodes[b].children = kids /\ split.nodes[b].keys = Keys(split, b)
    BY <1>9 DEF Children, Keys
  <2>2. SubSeq(split.nodes[b].children, 1, kept) = first /\ SubSeq(split.nodes[b].keys, 1, kept) = keys
    BY <2>1 DEF first
  <2>3. split.nodes[b] \in BranchNodes
    BY <1>9, NodesAre
  <2>4. [split EXCEPT !.nodes[b].children = SubSeq(@, 1, kept),
                      !.nodes[b].keys = SubSeq(@, 1, kept)]
        = [split EXCEPT !.nodes[b].children = SubSeq(split.nodes[b].children, 1, kept),
                        !.nodes[b].keys = SubSeq(split.nodes[b].keys, 1, kept)]
    <3> HIDE DEF kids
    <3> QED BY <1>9, <2>3 DEF IsTree, Ids, BranchNodes
  <2> QED BY <2>2, <2>4
<1> HIDE DEF keys
<1>13. Rewritten(split, cut, b, first, keys, off)
  <2> HIDE DEF cut
  <2> QED BY <1>7, <1>9, <1>11, <1>12, CutIs
<1> HIDE DEF cut
<1>14. SameButNodes(s, cut) /\ Ids(cut) = Ids(s) \union {f}
  BY <1>4, <1>8, <1>9, <1>13 DEF SameButNodes, SameCapacity, Rewritten
<1>15. \A n \in Ids(s) \ {b} : SameContent(split, cut, n) /\ SamePlace(split, cut, n)
  BY <1>9, <1>13 DEF Rewritten, SamePlace, SameContent, Parent, Slot, IsLeaf, Entries, Children, Keys, Offset
<1>16. \A n \in Ids(s) \ {b} : SameContent(s, cut, n)
  BY <1>3, <1>4, <1>8, <1>15 DEF SameContent, NewBranch, Rearranged
<1>17. \A n \in Ids(s) : Parent(c, n) = Parent(s, n)
  BY <1>3 DEF Rearranged
<1>18. SamePlace(split, cut, b) /\ SamePlace(c, split, b)
  BY <1>9, <1>13 DEF Rewritten
<1>19. \A n \in Ids(s) \ Held(rest) : SamePlace(c, cut, n)
  BY <1>4, <1>8, <1>15, <1>18 DEF NewBranch, SamePlace
<1>20. Placed(cut, b)
  <2>1. /\ b \in Ids(cut) /\ ~IsLeaf(cut, b) /\ Children(cut, b) = first /\ Len(Keys(cut, b)) = Len(first)
        /\ Offset(cut, b) = off
    BY <1>7, <1>9, <1>11, <1>13 DEF Rewritten
  <2>2. ASSUME NEW i \in DOMAIN first
        PROVE  first[i] \in Ids(cut) \ {b} /\ Slot(cut, first[i]) = off + i - 1
    <3>1. i \in 1..kept /\ first[i] = kids[i] /\ i \in DOMAIN kids
      BY <1>1, <1>6, <1>7
    <3>2. first[i] \in Held(first) /\ first[i] \in Held(kids)
      BY <3>1 DEF Held
    <3>3. first[i] \in Ids(s) \ {b} /\ first[i] \notin Held(rest)
      BY <1>2, <1>7, <3>2
    <3>4. Slot(c, kids[i]) = off + i - 1
      BY <1>3, <1>4, <3>1 DEF Placed
    <3> QED BY <1>14, <1>19, <3>1, <3>3, <3>4 DEF SamePlace
  <2> QED BY <2>1, <2>2 DEF Placed
<1>21. f # b /\ f \in Ids(split) \ {b}
  BY <1>1, <1>9
<1>22. /\ ~IsLeaf(cut, f) /\ Children(cut, f) = rest /\ Parent(cut, f) = Parent(c, b)
       /\ Len(Keys(cut, f)) = Len(rest) /\ Offset(cut, f) = 0
  <2>1. /\ ~IsLeaf(split, f) /\ Children(split, f) = rest /\ Parent(split, f) = Parent(c, b)
        /\ Len(Keys(split, f)) = Len(rest) /\ Offset(split, f) = 0
    BY <1>4, <1>8 DEF NewBranch, Placed
  <2>2. cut.nodes[f] = split.nodes[f]
    BY <1>13, <1>21 DEF Rewritten
  <2> QED BY <2>1, <2>2 DEF IsLeaf, Children, Parent, Keys, Offset
<1>23. \A n \in Held(rest) : n \in Ids(s) \ {b} /\ n # f
  BY <1>2, <1>7, <1>9
<1>24. Placed(cut, f)
  <2>1. ASSUME NEW i \in DOMAIN rest
        PROVE  rest[i] \in Ids(cut) \ {f} /\ Slot(cut, rest[i]) = 0 + i - 1
    <3>1. rest[i] \in Held(rest)
      BY DEF Held
    <3>2. rest[i] \in Ids(s) \ {b} /\ rest[i] # f
      BY <1>23, <3>1
    <3>3. Slot(split, rest[i]) = 0 + i - 1
      BY <1>4, <1>8 DEF NewBranch, Placed
    <3> QED BY <1>14, <1>15, <3>2, <3>3 DEF SamePlace
  <2> QED BY <1>14, <1>22, <2>1 DEF Placed
<1>25. Children(cut, b) = first /\ ~IsLeaf(cut, b)
  BY <1>13 DEF Rewritten
<1>26. \A m \in Held(first) : Parent(cut, m) = Parent(s, m)
  <2>1. ASSUME NEW m \in Held(first) PROVE m \in Ids(s) \ Held(rest)
    BY <1>2, <1>7
  <2> QED BY <1>17, <1>19, <2>1 DEF SamePlace
<1>27. \A m \in Held(rest) : Parent(cut, m) = f
  <2>1. ASSUME NEW i \in DOMAIN rest PROVE Parent(cut, rest[i]) = f
    <3>1. rest[i] \in Held(rest)
      BY DEF Held
    <3>2. Parent(split, rest[i]) = f
      BY <1>4, <1>8 DEF NewBranch
    <3> QED BY <1>15, <1>23, <3>1, <3>2 DEF SamePlace
  <2> QED BY <2>1 DEF Held
<1>28. \A m \in Ids(s) \ Held(kids) : SamePlace(s, cut, m)
  <2>1. \A m \in Ids(s) \ Held(kids) : Slot(c, m) = Slot(s, m) /\ Parent(c, m) = Parent(s, m)
    BY <1>3 DEF Rearranged
  <2>2. \A m \in Ids(s) \ Held(kids) : m \notin Held(rest)
    BY <1>7
  <2> QED BY <1>19, <2>1, <2>2 DEF SamePlace
<1>29. NonEmpty(cut, b) /\ NonEmpty(cut, f)
  <2>1. IsTree(cut) /\ b \in Ids(cut) /\ f \in Ids(cut)
    BY <1>1, <1>14 DEF SameButNodes
  <2>2. Len(Keys(cut, b)) >= 1
    BY <1>6, <1>11, <1>13 DEF Rewritten
  <2>3. Len(Keys(cut, f)) >= 1
    <3> HIDE DEF total
    <3> QED BY <1>1, <1>6, <1>7, <1>22
  <2> QED BY <1>22, <1>25, <2>1, <2>2, <2>3, NonEmptyIs
<1> HIDE DEF f
<1>30. Halved(s, cut, b, f)
  <2>1. IsLeaf(cut, b) <=> IsLeaf(s, b)
    BY <1>1, <1>25
  <2>2. IsLeaf(cut, f) <=> IsLeaf(s, b)
    BY <1>1, <1>22
  <2> QED BY <1>1, <1>4, <1>7, <1>9, <1>14, <1>16, <1>20, <1>22, <1>24, <1>25, <1>26, <1>27, <1>28,
             <1>29, <2>1, <2>2 DEF Halved
<1>31. \A m \in {b, f} : Half(Count(s, b) - 1) <= Count(cut, m) /\ Count(cut, m) <= Count(s, b) - 1
  <2>1. Count(s, b) = total /\ Count(cut, b) = kept /\ Count(cut, f) = total - kept
    BY <1>1, <1>7, <1>22, <1>25 DEF Count
  <2> HIDE DEF total
  <2> QED BY <1>1, <1>6, <2>1
<1> QED BY <1>6a, <1>14, <1>30, <1>31 DEF Splits, f

LEMMA PositionIs ==
  ASSUME NEW s, IsTree(s), NEW b, Placed(s, b), NEW i \in DOMAIN Children(s, b),
         Parent(s, Children(s, b)[i]) = b
  PROVE  Position(s, Children(s, b)[i]) = i
<1>1. Slot(s, Children(s, b)[i]) = Offset(s, b) + i - 1
  BY DEF Placed
<1>2. Offset(s, b) \in Nat /\ i \in Nat
  BY NodesAre DEF Placed
<1>3. Position(s, Children(s, b)[i]) = Slot(s, Children(s, b)[i]) - Offset(s, b) + 1
  BY DEF Position, Slot, Offset
<1> QED BY <1>1, <1>2, <1>3

(* The child is between the others. *)
Inserts(s, t, b, child) ==
    /\ Rearranged(s, t, b)
    /\ Held(Children(t, b)) = Held(Children(s, b)) \union {child}
    /\ Len(Children(t, b)) = Len(Children(s, b)) + 1

LEMMA InsertChildAfterIs ==
  ASSUME NEW s, IsTree(s), s.broken = FALSE, NEW p, Placed(s, p),
         NEW existing \in Held(Children(s, p)), Parent(s, existing) = p,
         NEW child \in Ids(s) \ {p}, child \notin Held(Children(s, p)),
         Parent(s, child) = p, NonEmpty(s, child)
  PROVE  \E d : /\ Inserts(s, d, p, child)
                /\ InsertChildAfter(s, p, existing, child) =
                      IF Len(Children(d, p)) > s.maxBranchChildren THEN SplitBranch(d, p) ELSE d
<1> DEFINE key == MinKey(s, child)
           adopted == [s EXCEPT !.nodes[child].parent = p, !.broken = @ \/ key = Null]
           kids == Children(s, p)
<1>1. key \in NodeKeys /\ key # Null
  BY MinKeyIs
<1>2. PICK i \in DOMAIN kids : existing = kids[i]
  BY DEF Held
<1>3. Position(s, existing) = i /\ i \in 0..Len(kids) /\ kids \in Seq(Nat)
  <2>1. kids \in Seq(Nat)
    BY NodesAre DEF Placed
  <2>2. Parent(s, Children(s, p)[i]) = p
    BY <1>2
  <2>3. Position(s, Children(s, p)[i]) = i
    BY <2>2, PositionIs
  <2> QED BY <1>2, <2>1, <2>3
<1>4. adopted = s
  <2>1. s.nodes[child] \in LeafNodes \union BranchNodes /\ s.nodes[child].parent = p
    BY DEF IsTree, Ids, Parent
  <2>2. [s.nodes[child] EXCEPT !.parent = p] = s.nodes[child]
    BY <2>1 DEF LeafNodes, BranchNodes
  <2> DEFINE f == [s.nodes EXCEPT ![child].parent = p]
  <2>3. f = s.nodes
    BY <2>2 DEF IsTree, Ids
  <2>4. adopted = [s EXCEPT !.nodes = f, !.broken = FALSE]
    <3> HIDE DEF key
    <3> QED BY <1>1 DEF IsTree
  <2> QED BY <2>3, <2>4 DEF IsTree
<1> DEFINE d == BranchInsertAt(s, p, i, child, key)
<1>5. InsertChildAfter(s, p, existing, child) =
         IF Len(Children(d, p)) > s.maxBranchChildren THEN SplitBranch(d, p) ELSE d
  <2>1. InsertChildAfter(s, p, existing, child) =
           LET done == BranchInsertAt(adopted, p, Position(s, existing), child, key)
           IN  IF Len(Children(done, p)) > s.maxBranchChildren THEN SplitBranch(done, p) ELSE done
    BY DEF InsertChildAfter
  <2> HIDE DEF adopted, key
  <2> QED BY <1>3, <1>4, <2>1
<1> HIDE DEF key
<1>6. Rearranged(s, d, p) /\ Children(d, p) = Seqs!InsertAt(kids, i + 1, child)
  <2>1. child \in Nat
    BY NodesAre
  <2> QED BY <1>1, <1>3, <2>1, BranchInsertAtIs
<1> HIDE DEF d
<1>7. /\ Held(Seqs!InsertAt(kids, i + 1, child)) = Held(kids) \union {child}
      /\ Len(Seqs!InsertAt(kids, i + 1, child)) = Len(kids) + 1
  <2>1. child \in Nat /\ Distinct(kids)
    BY NodesAre, PlacedAreDistinct
  <2> HIDE DEF kids
  <2> QED BY <1>3, <2>1, InsertedIs DEF kids
<1>8. Inserts(s, d, p, child)
  BY <1>6, <1>7 DEF Inserts
<1> QED BY <1>5, <1>8

(* The child is taken out. *)
Removes(s, t, b, child) ==
    /\ Rearranged(s, t, b)
    /\ Held(Children(t, b)) = Held(Children(s, b)) \ {child}
    /\ Len(Children(t, b)) = Len(Children(s, b)) - 1

LEMMA RemoveFromParentIs ==
  ASSUME NEW s, IsTree(s), NEW p, Placed(s, p), NEW child \in Held(Children(s, p)),
         Parent(s, child) = p
  PROVE  \E d : /\ Removes(s, d, p, child)
                /\ RemoveFromParent(s, child) = RebalanceAfterBranchRemoval(d, p)
<1> DEFINE kids == Children(s, p)
           d == BranchRemoveAt(s, p, s.nodes[child].indexInParent)
<1>1. RemoveFromParent(s, child) = RebalanceAfterBranchRemoval(d, p)
  BY DEF RemoveFromParent
<1>2. PICK i \in DOMAIN kids : child = kids[i]
  BY DEF Held
<1>3. s.nodes[child].indexInParent = Offset(s, p) + i - 1
  BY <1>2 DEF Placed, Slot
<1>4. Rearranged(s, d, p) /\ Children(d, p) = Seqs!RemoveAt(kids, i)
  BY <1>3, BranchRemoveAtIs
<1> HIDE DEF d
<1>5. /\ Held(Seqs!RemoveAt(kids, i)) = Held(kids) \ {kids[i]}
      /\ Len(Seqs!RemoveAt(kids, i)) = Len(kids) - 1
  <2>1. kids \in Seq(Nat) /\ Distinct(kids)
    BY NodesAre, PlacedAreDistinct DEF Placed
  <2>2. i \in 1..Len(kids)
    BY <2>1
  <2> HIDE DEF kids
  <2> QED BY <2>1, <2>2, RemovedIs DEF kids
<1>6. Removes(s, d, p, child)
  BY <1>2, <1>4, <1>5 DEF Removes
<1> QED BY <1>1, <1>6

LEMMA JoinedAre ==
  ASSUME NEW T, NEW p \in Seq(T), NEW q \in Seq(T), Distinct(p), Distinct(q),
         Held(p) \intersect Held(q) = {}
  PROVE  Distinct(p \o q) /\ Held(p \o q) = Held(p) \union Held(q)
<1> DEFINE m == Len(p)
           n == Len(q)
           r == p \o q
<1>1. m \in Nat /\ n \in Nat /\ DOMAIN p = 1..m /\ DOMAIN q = 1..n
  OBVIOUS
<1>2. r \in Seq(T) /\ Len(r) = m + n /\ \A j \in 1..m + n : r[j] = IF j <= m THEN p[j] ELSE q[j - m]
  BY JoinIs
<1>3. DOMAIN r = 1..m + n
  BY <1>2
<1> HIDE DEF m, n, r
<1>4. \A j \in 1..m : r[j] = p[j] /\ j \in 1..m + n
  BY <1>1, <1>2
<1>5. \A j \in 1..n : r[m + j] = q[j] /\ m + j \in 1..m + n
  <2> TAKE j \in 1..n
  <2> DEFINE k == m + j
  <2>1. k \in 1..m + n /\ ~(k <= m) /\ k - m = j
    BY <1>1
  <2> HIDE DEF k
  <2>2. r[k] = q[k - m]
    BY <1>2, <2>1
  <2> QED BY <2>1, <2>2 DEF k
<1>6. \A j \in 1..m + n : j \in 1..m \/ (j - m \in 1..n /\ j = m + (j - m))
  BY <1>1
<1>7. \A j \in 1..m : p[j] \in Held(p)
  BY <1>1 DEF Held
<1>8. \A j \in 1..n : q[j] \in Held(q)
  BY <1>1 DEF Held
<1>9. ASSUME NEW i \in 1..m + n, NEW j \in 1..m + n, r[i] = r[j] PROVE i = j
  <2>1. CASE i \in 1..m /\ j \in 1..m
    BY <1>1, <1>4, <1>9, <2>1 DEF Distinct
  <2>2. CASE i - m \in 1..n /\ j - m \in 1..n
    <3>1. q[i - m] = q[j - m]
      BY <1>5, <1>6, <1>9, <1>1, <2>2
    <3>2. i - m = j - m
      BY <1>1, <2>2, <3>1 DEF Distinct
    <3> QED BY <1>1, <3>2
  <2>3. CASE i \in 1..m /\ j - m \in 1..n
    <3>1. r[i] \in Held(p) /\ r[j] \in Held(q)
      <4>1. r[m + (j - m)] = q[j - m] /\ j = m + (j - m)
        BY <1>1, <1>5, <2>3
      <4> QED BY <1>4, <1>7, <1>8, <2>3, <4>1
    <3> QED BY <1>9, <3>1
  <2>4. CASE i - m \in 1..n /\ j \in 1..m
    <3>1. r[j] \in Held(p) /\ r[i] \in Held(q)
      <4>1. r[m + (i - m)] = q[i - m] /\ i = m + (i - m)
        BY <1>1, <1>5, <2>4
      <4> QED BY <1>4, <1>7, <1>8, <2>4, <4>1
    <3> QED BY <1>9, <3>1
  <2> QED BY <1>6, <2>1, <2>2, <2>3, <2>4
<1>10. Distinct(r)
  BY <1>3, <1>9 DEF Distinct
<1>11. Held(r) \subseteq Held(p) \union Held(q)
  <2>1. ASSUME NEW j \in 1..m + n PROVE r[j] \in Held(p) \union Held(q)
    <3>1. CASE j \in 1..m
      BY <1>4, <1>7, <3>1
    <3>2. CASE j - m \in 1..n
      <4>1. r[m + (j - m)] = q[j - m] /\ j = m + (j - m)
        BY <1>1, <1>5, <3>2
      <4> QED BY <1>8, <3>2, <4>1
    <3> QED BY <1>6, <3>1, <3>2
  <2> QED BY <1>3, <2>1 DEF Held
<1>12. Held(p) \union Held(q) \subseteq Held(r)
  <2>1. \A j \in 1..m : p[j] \in Held(r)
    BY <1>3, <1>4 DEF Held
  <2>2. \A j \in 1..n : q[j] \in Held(r)
    <3> TAKE j \in 1..n
    <3>1. q[j] = r[m + j] /\ m + j \in DOMAIN r
      BY <1>3, <1>5
    <3> QED BY <3>1 DEF Held
  <2> QED BY <1>1, <2>1, <2>2 DEF Held
<1>13. Held(r) = Held(p) \union Held(q)
  BY <1>11, <1>12
<1> QED BY <1>10, <1>13 DEF r

LEMMA OneIs ==
  ASSUME NEW T, NEW e \in T
  PROVE  <<e>> \in Seq(T) /\ Len(<<e>>) = 1 /\ <<e>>[1] = e /\ Distinct(<<e>>) /\ Held(<<e>>) = {e}
<1>1. <<e>> \in Seq(T) /\ Len(<<e>>) = 1 /\ DOMAIN <<e>> = {1} /\ <<e>>[1] = e
  OBVIOUS
<1> DEFINE q == <<e>>
<1> HIDE DEF q
<1>2. Distinct(q) /\ Held(q) = {e}
  BY <1>1 DEF q, Distinct, Held
<1> QED BY <1>1, <1>2 DEF q

LEMMA AppendedIs ==
  ASSUME NEW T, NEW q \in Seq(T), NEW e \in T, Distinct(q), e \notin Held(q)
  PROVE  /\ Append(q, e) \in Seq(T) /\ Len(Append(q, e)) = Len(q) + 1
         /\ \A i \in 1..Len(q) : Append(q, e)[i] = q[i]
         /\ Append(q, e)[Len(q) + 1] = e
         /\ Distinct(Append(q, e)) /\ Held(Append(q, e)) = Held(q) \union {e}
<1>1. /\ Append(q, e) \in Seq(T) /\ Len(Append(q, e)) = Len(q) + 1
      /\ \A i \in 1..Len(q) : Append(q, e)[i] = q[i]
      /\ Append(q, e)[Len(q) + 1] = e
  OBVIOUS
<1>2. Append(q, e) = q \o <<e>>
  OBVIOUS
<1>3. Distinct(q \o <<e>>) /\ Held(q \o <<e>>) = Held(q) \union {e}
  <2> DEFINE one == <<e>>
  <2>1. one \in Seq(T) /\ Distinct(one) /\ Held(one) = {e}
    BY OneIs
  <2> HIDE DEF one
  <2>2. Held(q) \intersect Held(one) = {}
    BY <2>1
  <2>3. Distinct(q \o one) /\ Held(q \o one) = Held(q) \union Held(one)
    BY <2>1, <2>2, JoinedAre
  <2> QED BY <2>1, <2>3 DEF one
<1> QED BY <1>1, <1>2, <1>3

LEMMA PrependedIs ==
  ASSUME NEW T, NEW q \in Seq(T), NEW e \in T, Distinct(q), e \notin Held(q)
  PROVE  /\ <<e>> \o q \in Seq(T) /\ Len(<<e>> \o q) = Len(q) + 1
         /\ (<<e>> \o q)[1] = e
         /\ \A i \in 2..Len(q) + 1 : (<<e>> \o q)[i] = q[i - 1]
         /\ Distinct(<<e>> \o q) /\ Held(<<e>> \o q) = Held(q) \union {e}
<1> DEFINE one == <<e>>
<1>1. one \in Seq(T) /\ Distinct(one) /\ Held(one) = {e} /\ Len(one) = 1 /\ one[1] = e
  BY OneIs
<1> HIDE DEF one
<1>2. Held(one) \intersect Held(q) = {}
  BY <1>1
<1>3. Distinct(one \o q) /\ Held(one \o q) = Held(one) \union Held(q)
  BY <1>1, <1>2, JoinedAre
<1>4. /\ one \o q \in Seq(T) /\ Len(one \o q) = Len(one) + Len(q)
      /\ \A j \in 1..Len(one) + Len(q) :
            (one \o q)[j] = IF j <= Len(one) THEN one[j] ELSE q[j - Len(one)]
  BY <1>1, JoinIs
<1>5. Len(q) \in Nat
  OBVIOUS
<1>6. /\ one \o q \in Seq(T) /\ Len(one \o q) = Len(q) + 1
      /\ (one \o q)[1] = e /\ \A i \in 2..Len(q) + 1 : (one \o q)[i] = q[i - 1]
  BY <1>1, <1>4, <1>5
<1> QED BY <1>1, <1>3, <1>6 DEF one

LEMMA TailIs ==
  ASSUME NEW T, NEW q \in Seq(T), Len(q) >= 1, Distinct(q)
  PROVE  /\ Tail(q) \in Seq(T) /\ Len(Tail(q)) = Len(q) - 1 /\ Head(q) = q[1] /\ Head(q) \in T
         /\ \A i \in 1..Len(q) - 1 : Tail(q)[i] = q[i + 1]
         /\ Distinct(Tail(q)) /\ Held(Tail(q)) = Held(q) \ {Head(q)} /\ Head(q) \in Held(q)
<1> DEFINE t == Tail(q)
           n == Len(q)
<1>1. /\ t \in Seq(T) /\ Len(t) = n - 1 /\ Head(q) = q[1] /\ q[1] \in T
      /\ \A i \in 1..n - 1 : t[i] = q[i + 1]
  OBVIOUS
<1>2. n \in Nat /\ n >= 1 /\ DOMAIN q = 1..n /\ DOMAIN t = 1..n - 1
  BY <1>1
<1> HIDE DEF t, n
<1>3. ASSUME NEW i \in 1..n - 1, NEW j \in 1..n - 1, t[i] = t[j] PROVE i = j
  <2>1. q[i + 1] = q[j + 1] /\ i + 1 \in 1..n /\ j + 1 \in 1..n
    BY <1>1, <1>2, <1>3
  <2>2. i + 1 = j + 1
    BY <1>2, <2>1 DEF Distinct
  <2> QED BY <1>2, <2>2
<1>4. \A i \in 1..n - 1 : i + 1 \in 1..n /\ i + 1 # 1
  BY <1>2
<1>5. \A i \in 1..n - 1 : t[i] \in Held(q) /\ t[i] # q[1]
  <2> TAKE i \in 1..n - 1
  <2>1. t[i] = q[i + 1] /\ i + 1 \in 1..n /\ i + 1 # 1 /\ 1 \in 1..n
    BY <1>1, <1>2, <1>4
  <2>2. q[i + 1] # q[1]
    BY <1>2, <2>1 DEF Distinct
  <2> QED BY <1>2, <2>1, <2>2 DEF Held
<1>6. \A i \in 1..n : q[i] = q[1] \/ q[i] \in Held(t)
  <2> TAKE i \in 1..n
  <2>1. i = 1 \/ (i - 1 \in 1..n - 1 /\ (i - 1) + 1 = i)
    BY <1>2
  <2>2. i - 1 \in 1..n - 1 => t[i - 1] = q[(i - 1) + 1]
    BY <1>1
  <2> QED BY <1>2, <2>1, <2>2 DEF Held
<1>7. Held(t) = Held(q) \ {q[1]} /\ q[1] \in Held(q)
  <2>1. q[1] \in Held(q)
    BY <1>2 DEF Held
  <2>2. Held(t) \subseteq Held(q) \ {q[1]}
    BY <1>2, <1>5 DEF Held
  <2>3. Held(q) \ {q[1]} \subseteq Held(t)
    BY <1>2, <1>6 DEF Held
  <2> QED BY <2>1, <2>2, <2>3
<1>8. Distinct(t)
  BY <1>2, <1>3 DEF Distinct
<1> QED BY <1>1, <1>7, <1>8 DEF t, n

LEMMA WithoutLastIs ==
  ASSUME NEW T, NEW q \in Seq(T), Len(q) >= 1, Distinct(q)
  PROVE  /\ Seqs!Front(q) \in Seq(T) /\ Len(Seqs!Front(q)) = Len(q) - 1
         /\ \A i \in 1..Len(q) - 1 : Seqs!Front(q)[i] = q[i]
         /\ Seqs!Last(q) = q[Len(q)] /\ Seqs!Last(q) \in T
         /\ Distinct(Seqs!Front(q)) /\ Held(Seqs!Front(q)) = Held(q) \ {Seqs!Last(q)}
         /\ Seqs!Last(q) \in Held(q)
<1> DEFINE t == Seqs!Front(q)
           n == Len(q)
<1>1. /\ t \in Seq(T) /\ Len(t) = n - 1 /\ Seqs!Last(q) = q[n] /\ q[n] \in T
      /\ \A i \in 1..n - 1 : t[i] = q[i]
  <2>1. Len(q) > 0
    OBVIOUS
  <2> QED BY <2>1, FrontIs
<1>2. n \in Nat /\ n >= 1 /\ DOMAIN q = 1..n /\ DOMAIN t = 1..n - 1
  BY <1>1
<1> HIDE DEF t, n
<1>3. \A i \in 1..n - 1 : i \in 1..n /\ i # n
  BY <1>2
<1>4. Distinct(t)
  BY <1>1, <1>2, <1>3 DEF Distinct
<1>5. \A i \in 1..n - 1 : t[i] \in Held(q) /\ t[i] # q[n]
  <2> TAKE i \in 1..n - 1
  <2>1. t[i] = q[i] /\ i \in 1..n /\ i # n /\ n \in 1..n
    BY <1>1, <1>2, <1>3
  <2> QED BY <1>2, <2>1 DEF Held, Distinct
<1>6. \A i \in 1..n : q[i] = q[n] \/ q[i] \in Held(t)
  <2> TAKE i \in 1..n
  <2>1. i = n \/ i \in 1..n - 1
    BY <1>2
  <2> QED BY <1>1, <1>2, <2>1 DEF Held
<1>7. Held(t) = Held(q) \ {q[n]} /\ q[n] \in Held(q)
  <2>1. q[n] \in Held(q)
    BY <1>2 DEF Held
  <2>2. Held(t) \subseteq Held(q) \ {q[n]}
    BY <1>2, <1>5 DEF Held
  <2>3. Held(q) \ {q[n]} \subseteq Held(t)
    BY <1>2, <1>6 DEF Held
  <2> QED BY <2>1, <2>2, <2>3
<1> QED BY <1>1, <1>4, <1>7 DEF t, n

-----------------------------------------------------------------------------
(* One node gets another place. *)
Moved(s, t, n, p, x) ==
    /\ SameButNodes(s, t) /\ Ids(t) = Ids(s)
    /\ \A m \in Ids(s) : SameContent(s, t, m)
    /\ \A m \in Ids(s) \ {n} : t.nodes[m] = s.nodes[m]
    /\ Parent(t, n) = p /\ Slot(t, n) = x

LEMMA OnePlaceIs ==
  ASSUME NEW s, IsTree(s), NEW n \in Ids(s), NEW p \in Nat, NEW x \in Int
  PROVE  Moved(s, [s EXCEPT !.nodes[n].parent = p, !.nodes[n].indexInParent = x], n, p, x)
<1> DEFINE node == NewPlace(s.nodes[n], p, x)
           t == [s EXCEPT !.nodes[n] = node]
<1>1. /\ node \in LeafNodes \union BranchNodes
      /\ node.indexInParent = x /\ node.parent = p
      /\ node.kind = s.nodes[n].kind
      /\ IsLeaf(s, n) => node.entries = Entries(s, n)
      /\ ~IsLeaf(s, n) => /\ node.children = Children(s, n)
                          /\ node.keys = Keys(s, n) /\ node.childOffset = Offset(s, n)
  BY NewPlaceIs
<1>2. [s EXCEPT !.nodes[n].parent = p, !.nodes[n].indexInParent = x] = t
  <2>1. s.nodes[n] \in LeafNodes \union BranchNodes
    BY DEF IsTree, Ids
  <2> QED BY <2>1 DEF IsTree, Ids, NewPlace
<1> HIDE DEF node
<1>3. OneChanged(s, t, n, node)
  BY <1>1, OneNodeIs
<1> HIDE DEF t
<1>4. SameContent(s, t, n) /\ Parent(t, n) = p /\ Slot(t, n) = x
  BY <1>1, <1>3 DEF OneChanged, SameContent, Parent, Slot, IsLeaf, Entries, Children, Keys, Offset
<1>5. ASSUME NEW m \in Ids(s) \ {n} PROVE SameContent(s, t, m) /\ t.nodes[m] = s.nodes[m]
  <2>1. t.nodes[m] = s.nodes[m]
    BY <1>3 DEF OneChanged
  <2> QED BY <2>1 DEF SameContent, IsLeaf, Entries, Children, Keys, Offset
<1>6. Moved(s, t, n, p, x)
  BY <1>3, <1>4, <1>5 DEF Moved, OneChanged
<1> QED BY <1>2, <1>6

(* Two branches next to each other that may share their children. *)
Siblings(s, b, c) ==
    /\ IsTree(s) /\ Placed(s, b) /\ Placed(s, c) /\ b # c
    /\ b \notin Held(Children(s, c)) /\ c \notin Held(Children(s, b))
    /\ Held(Children(s, b)) \intersect Held(Children(s, c)) = {}
    /\ \A n \in Held(Children(s, b)) \union Held(Children(s, c)) : NonEmpty(s, n)

(* A child of from is now one of b. *)
Borrows(s, t, b, from, child) ==
    /\ SameButNodes(s, t) /\ Ids(t) = Ids(s)
    /\ Placed(t, b) /\ Placed(t, from) /\ child \in Held(Children(s, from))
    /\ Held(Children(t, b)) = Held(Children(s, b)) \union {child}
    /\ Len(Children(t, b)) = Len(Children(s, b)) + 1
    /\ Held(Children(t, from)) = Held(Children(s, from)) \ {child}
    /\ Len(Children(t, from)) = Len(Children(s, from)) - 1
    /\ \A n \in Ids(s) \ {b, from} : SameContent(s, t, n)
    /\ Parent(t, child) = b
    /\ \A n \in Ids(s) \ {child} : Parent(t, n) = Parent(s, n)
    /\ \A n \in Ids(s) \ (Held(Children(s, b)) \union Held(Children(s, from))) :
          Slot(t, n) = Slot(s, n)

LEMMA AlikeBorrows ==
  ASSUME NEW s, IsTree(s), NEW t, NEW u, NEW b, NEW from, NEW child, Borrows(s, t, b, from, child),
         Alike(t, u)
  PROVE  Borrows(s, u, b, from, child)
<1>1. IsTree(t) /\ Ids(t) = Ids(s) /\ Ids(u) = Ids(s)
  BY DEF Borrows, Alike, SameButNodes
<1>2. ASSUME NEW x, Placed(t, x) PROVE Placed(u, x) /\ Children(u, x) = Children(t, x)
  <2>1. x \in Ids(t) /\ SameContent(t, u, x) /\ ~IsLeaf(t, x)
    BY <1>1, <1>2 DEF Alike, Placed
  <2>2. \A i \in DOMAIN Children(t, x) : Children(t, x)[i] \in Ids(t)
    BY <1>2 DEF Placed
  <2> QED BY <1>1, <1>2, <2>1, <2>2 DEF Placed, Alike, SameContent, SamePlace
<1>3. SameButNodes(s, u)
  BY DEF Borrows, Alike, SameButNodes, SameCapacity
<1>4. \A n \in Ids(s) \ {b, from} : SameContent(s, u, n)
  BY <1>1 DEF Borrows, Alike, SameContent
<1>5. \A n \in Ids(s) : Parent(u, n) = Parent(t, n) /\ Slot(u, n) = Slot(t, n)
  BY <1>1 DEF Alike, SamePlace
<1>6. child \in Ids(s)
  <2>1. PICK i \in DOMAIN Children(t, b) : child = Children(t, b)[i]
    BY DEF Borrows, Held
  <2> QED BY <1>1, <2>1 DEF Borrows, Placed
<1> QED BY <1>1, <1>2, <1>3, <1>4, <1>5, <1>6 DEF Borrows

LEMMA SiblingsAre ==
  ASSUME NEW s, NEW b, NEW c, Siblings(s, b, c)
  PROVE  /\ IsTree(s) /\ b \in Ids(s) /\ c \in Ids(s) /\ ~IsLeaf(s, b) /\ ~IsLeaf(s, c)
         /\ Children(s, b) \in Seq(Nat) /\ Children(s, c) \in Seq(Nat)
         /\ Keys(s, b) \in Seq(NodeKeys) /\ Keys(s, c) \in Seq(NodeKeys)
         /\ Len(Keys(s, b)) = Len(Children(s, b)) /\ Len(Keys(s, c)) = Len(Children(s, c))
         /\ Offset(s, b) \in Nat /\ Offset(s, c) \in Nat /\ b \in Nat /\ c \in Nat
         /\ Distinct(Children(s, b)) /\ Distinct(Children(s, c))
         /\ Held(Children(s, b)) \subseteq Ids(s) \ {b, c}
         /\ Held(Children(s, c)) \subseteq Ids(s) \ {b, c}
<1>1. /\ IsTree(s) /\ b \in Ids(s) /\ c \in Ids(s) /\ ~IsLeaf(s, b) /\ ~IsLeaf(s, c)
      /\ Len(Keys(s, b)) = Len(Children(s, b)) /\ Len(Keys(s, c)) = Len(Children(s, c))
  BY DEF Siblings, Placed
<1>2. /\ Children(s, b) \in Seq(Nat) /\ Children(s, c) \in Seq(Nat)
      /\ Keys(s, b) \in Seq(NodeKeys) /\ Keys(s, c) \in Seq(NodeKeys)
      /\ Offset(s, b) \in Nat /\ Offset(s, c) \in Nat /\ b \in Nat /\ c \in Nat
  BY <1>1, NodesAre
<1>3. Distinct(Children(s, b)) /\ Held(Children(s, b)) \subseteq Ids(s) \ {b}
  BY <1>1, PlacedAreDistinct DEF Siblings
<1>4. Distinct(Children(s, c)) /\ Held(Children(s, c)) \subseteq Ids(s) \ {c}
  BY <1>1, PlacedAreDistinct DEF Siblings
<1> QED BY <1>1, <1>2, <1>3, <1>4 DEF Siblings

LEMMA TakenFromTheLeftIs ==
  ASSUME NEW s, IsTree(s), NEW c, Placed(s, c), Len(Children(s, c)) >= 2
  PROVE  LET taken == [s EXCEPT !.nodes[c] = [s.nodes[c] EXCEPT
                                !.children = Tail(@), !.keys = Tail(@), !.childOffset = @ + 1]]
             packed == IF taken.nodes[c].childOffset >= ArrayLength(taken, c) \div 2
                       THEN BranchCompact(taken, c) ELSE taken
         IN  Rearranged(s, packed, c) /\ Children(packed, c) = Tail(Children(s, c))
<1> DEFINE kids == Children(s, c)
           keys == Keys(s, c)
           off == Offset(s, c)
           taken == [s EXCEPT !.nodes[c] = [s.nodes[c] EXCEPT
                                !.children = Tail(@), !.keys = Tail(@), !.childOffset = @ + 1]]
           packed == IF taken.nodes[c].childOffset >= ArrayLength(taken, c) \div 2
                     THEN BranchCompact(taken, c) ELSE taken
<1>1. /\ c \in Ids(s) /\ ~IsLeaf(s, c) /\ kids \in Seq(Nat) /\ keys \in Seq(NodeKeys)
      /\ Len(keys) = Len(kids) /\ off \in Nat /\ s.nodes[c] \in BranchNodes
  BY NodesAre DEF Placed
<1>2. Distinct(kids) /\ Held(kids) \subseteq Ids(s) \ {c}
  BY PlacedAreDistinct
<1>3. /\ Tail(kids) \in Seq(Nat) /\ Len(Tail(kids)) = Len(kids) - 1
      /\ \A i \in 1..Len(kids) - 1 : Tail(kids)[i] = kids[i + 1]
      /\ Distinct(Tail(kids)) /\ Held(Tail(kids)) = Held(kids) \ {Head(kids)}
  <2>1. Len(kids) >= 1
    BY <1>1
  <2> HIDE DEF kids
  <2> QED BY <1>1, <1>2, <2>1, TailIs
<1>4. Tail(keys) \in Seq(NodeKeys) /\ Len(Tail(keys)) = Len(kids) - 1
  <2> HIDE DEF keys, kids
  <2> QED BY <1>1 DEF kids
<1> DEFINE newKids == Tail(kids)
           newKeys == Tail(keys)
<1>5. taken = [s EXCEPT !.nodes[c].children = newKids, !.nodes[c].keys = newKeys,
                        !.nodes[c].childOffset = off + 1]
  <2>1. s.nodes[c].children = kids /\ s.nodes[c].keys = keys /\ s.nodes[c].childOffset = off
    BY DEF Children, Keys, Offset
  <2>2. taken = [s EXCEPT !.nodes[c] =
                   [s.nodes[c] EXCEPT !.children = newKids, !.keys = newKeys, !.childOffset = off + 1]]
    <3> DEFINE a1 == Tail(s.nodes[c].children)
               a2 == Tail(s.nodes[c].keys)
               a3 == s.nodes[c].childOffset + 1
               b3 == off + 1
    <3>1. a1 = newKids /\ a2 = newKeys /\ a3 = b3
      BY <2>1
    <3>2. taken = [s EXCEPT !.nodes[c] =
                     [s.nodes[c] EXCEPT !.children = a1, !.keys = a2, !.childOffset = a3]]
      OBVIOUS
    <3> HIDE DEF taken, a1, a2, a3, b3, newKids, newKeys
    <3>3. taken = [s EXCEPT !.nodes[c] =
                     [s.nodes[c] EXCEPT !.children = newKids, !.keys = newKeys, !.childOffset = b3]]
      BY <3>1, <3>2
    <3> QED BY <3>3 DEF b3
  <2> HIDE DEF kids, keys, off, taken, newKids, newKeys
  <2>3. [s EXCEPT !.nodes[c].children = newKids, !.nodes[c].keys = newKeys,
                  !.nodes[c].childOffset = off + 1]
        = [s EXCEPT !.nodes[c] =
              [s.nodes[c] EXCEPT !.children = newKids, !.keys = newKeys, !.childOffset = off + 1]]
    BY <1>1 DEF IsTree, Ids
  <2> QED BY <2>2, <2>3
<1> HIDE DEF newKids, newKeys
<1>6. Rewritten(s, taken, c, newKids, newKeys, off + 1)
  <2> DEFINE o == off + 1
  <2>1. o \in Nat /\ newKids \in Seq(Nat) /\ newKeys \in Seq(NodeKeys)
    BY <1>1, <1>3, <1>4 DEF newKids, newKeys
  <2>2. taken = [s EXCEPT !.nodes[c].children = newKids, !.nodes[c].keys = newKeys,
                          !.nodes[c].childOffset = o]
    BY <1>5
  <2> HIDE DEF o, taken
  <2> QED BY <1>1, <2>1, <2>2, RewrittenIs DEF o
<1> HIDE DEF taken
<1>7. /\ SameButNodes(s, taken) /\ Ids(taken) = Ids(s) /\ IsTree(taken) /\ c \in Ids(taken)
      /\ ~IsLeaf(taken, c) /\ Children(taken, c) = newKids /\ Keys(taken, c) = newKeys
      /\ Offset(taken, c) = off + 1
  BY <1>1, <1>6 DEF Rewritten, SameButNodes
<1>8. \A n \in Ids(s) \ {c} : SameContent(s, taken, n) /\ SamePlace(s, taken, n)
  BY <1>6 DEF Rewritten, SameContent, SamePlace, Parent, Slot, IsLeaf, Entries, Children, Keys, Offset
<1>9. SamePlace(s, taken, c)
  BY <1>6 DEF Rewritten
<1>10. Placed(taken, c)
  <2>1. ASSUME NEW i \in DOMAIN newKids
        PROVE  newKids[i] \in Ids(taken) \ {c} /\ Slot(taken, newKids[i]) = off + 1 + i - 1
    <3>1. i \in 1..Len(kids) - 1 /\ newKids[i] = kids[i + 1] /\ i + 1 \in DOMAIN kids
      BY <1>1, <1>3 DEF newKids
    <3>2. kids[i + 1] \in Ids(s) \ {c} /\ Slot(s, kids[i + 1]) = off + (i + 1) - 1
      BY <3>1 DEF Placed
    <3>3. Slot(taken, newKids[i]) = off + (i + 1) - 1
      BY <1>8, <3>1, <3>2 DEF SamePlace
    <3>4. i \in Int /\ off \in Int
      BY <1>1, <3>1
    <3> HIDE DEF off
    <3>5. off + (i + 1) - 1 = off + 1 + i - 1
      BY <3>4
    <3> QED BY <1>7, <3>1, <3>2, <3>3, <3>5
  <2>2. Len(newKeys) = Len(newKids)
    BY <1>3, <1>4 DEF newKids, newKeys
  <2> QED BY <1>7, <2>1, <2>2 DEF Placed
<1>11. Rearranged(s, taken, c)
  BY <1>7, <1>8, <1>9, <1>10 DEF Rearranged, SamePlace
<1>12. Rearranged(s, packed, c) /\ Children(packed, c) = newKids
  <2>1. CASE packed = taken
    BY <1>7, <1>11, <2>1
  <2>2. CASE packed = BranchCompact(taken, c)
    <3>1. Rearranged(taken, BranchCompact(taken, c), c) /\ Children(BranchCompact(taken, c), c) = Children(taken, c)
      BY <1>7, <1>10, BranchCompactIs
    <3>2. Rearranged(s, BranchCompact(taken, c), c)
      BY <1>11, <3>1, RearrangedTwice
    <3> QED BY <1>7, <2>2, <3>1, <3>2
  <2> QED BY <2>1, <2>2
<1> QED BY <1>12 DEF newKids, taken

(* The child that c no longer holds is put at one end of b. *)
Given(s, p, t, b, c, child, kids, off) ==
    /\ SameButNodes(p, t) /\ Ids(t) = Ids(p)
    /\ ~IsLeaf(t, b) /\ Children(t, b) = kids /\ Len(Keys(t, b)) = Len(kids) /\ Offset(t, b) = off
    /\ Parent(t, child) = b
    /\ \A n \in Ids(p) \ {b} : SameContent(p, t, n)
    /\ \A n \in Ids(p) \ {child} : Parent(t, n) = Parent(p, n)
    /\ \A n \in Ids(p) \ Held(kids) : Slot(t, n) = Slot(p, n)

LEMMA GivenBorrows ==
  ASSUME NEW s, NEW b, NEW c, Siblings(s, b, c), NEW child \in Held(Children(s, c)),
         NEW p, Rearranged(s, p, c), Held(Children(p, c)) = Held(Children(s, c)) \ {child},
         Len(Children(p, c)) = Len(Children(s, c)) - 1,
         NEW t, NEW kids, NEW off, Given(s, p, t, b, c, child, kids, off), Placed(t, b),
         Held(kids) = Held(Children(s, b)) \union {child},
         Len(kids) = Len(Children(s, b)) + 1
  PROVE  Borrows(s, t, b, c, child)
<1>1. /\ IsTree(s) /\ b \in Ids(s) /\ c \in Ids(s) /\ b # c
      /\ Held(Children(s, b)) \subseteq Ids(s) \ {b, c}
      /\ Held(Children(s, c)) \subseteq Ids(s) \ {b, c}
  BY SiblingsAre DEF Siblings
<1>2. Ids(p) = Ids(s) /\ Ids(t) = Ids(s) /\ SameButNodes(s, t)
  BY DEF Rearranged, Given, SameButNodes, SameCapacity
<1>3. child \in Ids(s) \ {b, c}
  BY <1>1
<1>4. Placed(p, c)
  BY DEF Rearranged
<1>5. SameContent(p, t, c)
  BY <1>1, <1>2 DEF Given
<1>6. Placed(t, c) /\ Children(t, c) = Children(p, c)
  <2>1. ~IsLeaf(p, c) /\ Children(t, c) = Children(p, c) /\ Offset(t, c) = Offset(p, c)
        /\ Len(Keys(t, c)) = Len(Keys(p, c)) /\ ~IsLeaf(t, c)
    BY <1>4, <1>5 DEF Placed, SameContent
  <2>2. ASSUME NEW i \in DOMAIN Children(p, c)
        PROVE  /\ Children(p, c)[i] \in Ids(t) \ {c}
               /\ Slot(t, Children(p, c)[i]) = Offset(p, c) + i - 1
    <3>1. Children(p, c)[i] \in Held(Children(p, c))
      BY DEF Held
    <3>2. Children(p, c)[i] \in Ids(p) \ Held(kids)
      BY <1>1, <1>2, <3>1 DEF Siblings
    <3>3. Children(p, c)[i] \in Ids(p) \ {c} /\ Slot(p, Children(p, c)[i]) = Offset(p, c) + i - 1
      BY <1>4 DEF Placed
    <3> QED BY <1>2, <3>2, <3>3 DEF Given
  <2> QED BY <1>1, <1>2, <1>4, <2>1, <2>2 DEF Placed
<1>7. \A n \in Ids(s) \ {b, c} : SameContent(s, t, n)
  BY <1>2 DEF Rearranged, Given, SameContent
<1>8. \A n \in Ids(s) \ {child} : Parent(t, n) = Parent(s, n)
  BY <1>2 DEF Rearranged, Given
<1>9. \A n \in Ids(s) \ (Held(Children(s, b)) \union Held(Children(s, c))) : Slot(t, n) = Slot(s, n)
  <2> TAKE n \in Ids(s) \ (Held(Children(s, b)) \union Held(Children(s, c)))
  <2>1. n \notin Held(Children(p, c)) /\ n \notin Held(kids)
    OBVIOUS
  <2> QED BY <1>2, <2>1 DEF Rearranged, Given
<1>10. Children(t, b) = kids /\ Parent(t, child) = b
  BY DEF Given
<1> QED BY <1>2, <1>6, <1>7, <1>8, <1>9, <1>10 DEF Borrows

LEMMA BorrowFromRightBranchIs ==
  ASSUME NEW s, NEW b, NEW right, Siblings(s, b, right), Len(Children(s, right)) >= 2
  PROVE  \E child : Borrows(s, BorrowFromRightBranch(s, b, right), b, right, child)
<1> DEFINE kids == Children(s, b)
           keys == Keys(s, b)
           off == Offset(s, b)
           child == Head(Children(s, right))
           key == MinKey(s, child)
           taken == [s EXCEPT !.nodes[right] = [s.nodes[right] EXCEPT
                                !.children = Tail(@), !.keys = Tail(@), !.childOffset = @ + 1]]
           packed == IF taken.nodes[right].childOffset >= ArrayLength(taken, right) \div 2
                     THEN BranchCompact(taken, right) ELSE taken
           x == ArrayLength(s, b)
           given == [packed EXCEPT !.nodes[b] = [packed.nodes[b] EXCEPT !.children = Append(@, child),
                                                      !.keys = Append(@, key)],
                                   !.nodes[child] = [packed.nodes[child] EXCEPT !.parent = b,
                                                              !.indexInParent = x]]
           t == BorrowFromRightBranch(s, b, right)
<1>0. t = [given EXCEPT !.nodes[Parent(s, b)].keys[Position(s, b) + 1] = MinKey(given, right)]
  BY DEF BorrowFromRightBranch
<1>1. /\ IsTree(s) /\ b \in Ids(s) /\ right \in Ids(s) /\ ~IsLeaf(s, b) /\ ~IsLeaf(s, right)
      /\ kids \in Seq(Nat) /\ Children(s, right) \in Seq(Nat) /\ keys \in Seq(NodeKeys)
      /\ Len(keys) = Len(kids) /\ off \in Nat /\ Distinct(kids) /\ Distinct(Children(s, right))
      /\ Held(kids) \subseteq Ids(s) \ {b, right}
      /\ Held(Children(s, right)) \subseteq Ids(s) \ {b, right} /\ b \in Nat
      /\ b # right /\ Placed(s, b) /\ Placed(s, right)
  BY SiblingsAre DEF Siblings
<1>2. /\ Len(Tail(Children(s, right))) = Len(Children(s, right)) - 1
      /\ Held(Tail(Children(s, right))) = Held(Children(s, right)) \ {child}
      /\ child \in Held(Children(s, right)) /\ child \in Nat
  <2>1. Len(Children(s, right)) >= 1
    BY <1>1
  <2> QED BY <1>1, <2>1, TailIs
<1> HIDE DEF child
<1>3. child \in Ids(s) \ {b, right} /\ child \notin Held(kids)
  BY <1>1, <1>2 DEF Siblings
<1>4. key \in NodeKeys
  <2>1. NonEmpty(s, child)
    BY <1>2 DEF Siblings
  <2> QED BY <1>1, <1>3, <2>1, MinKeyIs
<1> HIDE DEF key
<1>5. Rearranged(s, packed, right) /\ Children(packed, right) = Tail(Children(s, right))
  BY <1>1, TakenFromTheLeftIs
<1> HIDE DEF packed, taken
<1>6. /\ IsTree(packed) /\ Ids(packed) = Ids(s) /\ ~IsLeaf(packed, b)
      /\ Children(packed, b) = kids /\ Offset(packed, b) = off
      /\ Len(Keys(packed, b)) = Len(kids)
      /\ packed.nodes[b] \in BranchNodes /\ Keys(packed, b) \in Seq(NodeKeys)
  <2>1. IsTree(packed) /\ Ids(packed) = Ids(s) /\ SameContent(s, packed, b)
    BY <1>1, <1>5 DEF Rearranged, SameButNodes
  <2>2. ~IsLeaf(packed, b) /\ Children(packed, b) = kids /\ Offset(packed, b) = off
        /\ Len(Keys(packed, b)) = Len(kids)
    BY <1>1, <2>1 DEF SameContent
  <2> QED BY <1>1, <2>1, <2>2, NodesAre
<1> DEFINE newKids == Append(kids, child)
           newKeys == Append(Keys(packed, b), key)
           mid == [packed EXCEPT !.nodes[b].children = newKids, !.nodes[b].keys = newKeys]
<1>7. /\ newKids \in Seq(Nat) /\ Len(newKids) = Len(kids) + 1
      /\ \A i \in 1..Len(kids) : newKids[i] = kids[i]
      /\ newKids[Len(kids) + 1] = child /\ Held(newKids) = Held(kids) \union {child}
  <2>1. kids \in Seq(Nat) /\ child \in Nat /\ Distinct(kids) /\ child \notin Held(kids)
    BY <1>1, <1>2, <1>3
  <2> HIDE DEF kids
  <2>2. /\ Append(kids, child) \in Seq(Nat) /\ Len(Append(kids, child)) = Len(kids) + 1
        /\ \A i \in 1..Len(kids) : Append(kids, child)[i] = kids[i]
        /\ Append(kids, child)[Len(kids) + 1] = child
        /\ Distinct(Append(kids, child)) /\ Held(Append(kids, child)) = Held(kids) \union {child}
    BY <2>1, AppendedIs
  <2> QED BY <2>2
<1>8. newKeys \in Seq(NodeKeys) /\ Len(newKeys) = Len(kids) + 1
  <2> DEFINE old == Keys(packed, b)
  <2>1. old \in Seq(NodeKeys) /\ Len(old) = Len(kids)
    BY <1>6
  <2> HIDE DEF old, kids
  <2>2. Append(old, key) \in Seq(NodeKeys) /\ Len(Append(old, key)) = Len(kids) + 1
    BY <1>4, <2>1
  <2> QED BY <2>2 DEF old
<1>9. given = [mid EXCEPT !.nodes[child].parent = b, !.nodes[child].indexInParent = x]
  <2>1. packed.nodes[b].children = kids /\ packed.nodes[b].keys = Keys(packed, b)
    BY <1>6 DEF Children, Keys
  <2>2. mid = [packed EXCEPT !.nodes[b] =
                 [packed.nodes[b] EXCEPT !.children = newKids, !.keys = newKeys]]
    BY <1>6, <1>1 DEF IsTree, Ids
  <2>3. given = [packed EXCEPT !.nodes[b] =
                    [packed.nodes[b] EXCEPT !.children = newKids, !.keys = newKeys],
                               !.nodes[child] =
                    [packed.nodes[child] EXCEPT !.parent = b, !.indexInParent = x]]
    <3> DEFINE a1 == Append(packed.nodes[b].children, child)
               a2 == Append(packed.nodes[b].keys, key)
    <3>1. a1 = newKids /\ a2 = newKeys
      BY <2>1
    <3>2. given = [packed EXCEPT !.nodes[b] = [packed.nodes[b] EXCEPT !.children = a1, !.keys = a2],
                                 !.nodes[child] =
                      [packed.nodes[child] EXCEPT !.parent = b, !.indexInParent = x]]
      BY <1>3
    <3> HIDE DEF given, a1, a2, newKids, newKeys, x
    <3> QED BY <3>1, <3>2
  <2>4. child # b /\ child \in Ids(packed) /\ IsTree(packed)
    BY <1>3, <1>6
  <2> DEFINE node == [packed.nodes[b] EXCEPT !.children = newKids, !.keys = newKeys]
  <2> HIDE DEF x, mid, given, newKids, newKeys, node
  <2>5. mid.nodes[child] = packed.nodes[child] /\ child \in DOMAIN mid.nodes
    BY <2>2, <2>4 DEF IsTree, Ids
  <2>6. [mid EXCEPT !.nodes[child].parent = b, !.nodes[child].indexInParent = x]
        = [mid EXCEPT !.nodes[child] = [packed.nodes[child] EXCEPT !.parent = b, !.indexInParent = x]]
    BY <2>5
  <2>7. given = [packed EXCEPT !.nodes[b] = node,
                   !.nodes[child] = [packed.nodes[child] EXCEPT !.parent = b, !.indexInParent = x]]
    BY <2>3 DEF node
  <2>8. mid = [packed EXCEPT !.nodes[b] = node]
    BY <2>2 DEF node
  <2> QED BY <2>6, <2>7, <2>8
<1> HIDE DEF newKids, newKeys
<1>10. Rewritten(packed, mid, b, newKids, newKeys, off)
  <2>1. newKids \in Seq(Nat) /\ newKeys \in Seq(NodeKeys) /\ b \in Ids(packed)
    BY <1>1, <1>6, <1>7, <1>8
  <2>2. Rewritten(packed, mid, b, newKids, newKeys, Offset(packed, b))
    BY <1>6, <2>1, CutIs
  <2> HIDE DEF mid
  <2> QED BY <1>6, <2>2
<1> HIDE DEF mid, given
<1>11. x = off + Len(kids) /\ x \in Int
  BY <1>1 DEF ArrayLength, Offset
<1>12. Moved(mid, given, child, b, x)
  <2>1. IsTree(mid) /\ child \in Ids(mid) /\ b \in Nat
    BY <1>1, <1>3, <1>6, <1>10 DEF Rewritten, SameButNodes
  <2> HIDE DEF x
  <2> QED BY <1>9, <1>11, <2>1, OnePlaceIs
<1> HIDE DEF x
<1>13. Given(s, packed, given, b, right, child, newKids, off)
  <2>1. SameButNodes(packed, given) /\ Ids(given) = Ids(packed)
    BY <1>10, <1>12 DEF Rewritten, Moved, SameButNodes, SameCapacity
  <2>2. /\ ~IsLeaf(given, b) /\ Children(given, b) = newKids /\ Len(Keys(given, b)) = Len(newKids)
        /\ Offset(given, b) = off
    BY <1>1, <1>6, <1>7, <1>8, <1>10, <1>12 DEF Rewritten, Moved, SameContent
  <2>3. ASSUME NEW n \in Ids(packed) \ {b} PROVE SameContent(packed, mid, n) /\ SamePlace(packed, mid, n)
    <3>1. mid.nodes[n] = packed.nodes[n]
      BY <1>10, <2>3 DEF Rewritten
    <3> QED BY <3>1 DEF SameContent, SamePlace, Parent, Slot, IsLeaf, Entries, Children, Keys, Offset
  <2>4. SamePlace(packed, mid, b) /\ Ids(mid) = Ids(packed)
    BY <1>10 DEF Rewritten
  <2>5. \A n \in Ids(packed) \ {child} : SamePlace(mid, given, n)
    BY <1>12, <2>4 DEF Moved, SamePlace, Parent, Slot
  <2>6. \A n \in Ids(packed) \ {b} : SameContent(packed, given, n)
    BY <1>12, <2>3, <2>4 DEF Moved, SameContent
  <2>7. \A n \in Ids(packed) \ {child} : SamePlace(packed, given, n)
    BY <2>3, <2>4, <2>5 DEF SamePlace
  <2>8. Parent(given, child) = b /\ child \in Held(newKids)
    BY <1>7, <1>12 DEF Moved
  <2> QED BY <2>1, <2>2, <2>6, <2>7, <2>8 DEF Given, SamePlace
<1>13a. \A n \in Ids(s) \ {b, child} : Slot(given, n) = Slot(packed, n)
  <2>1. ASSUME NEW n \in Ids(s) \ {b, child} PROVE Slot(given, n) = Slot(packed, n)
    <3>1. mid.nodes[n] = packed.nodes[n] /\ n \in Ids(mid)
      BY <1>6, <1>10, <2>1 DEF Rewritten
    <3>2. given.nodes[n] = mid.nodes[n]
      BY <1>12, <2>1, <3>1 DEF Moved
    <3> QED BY <3>1, <3>2 DEF Slot
  <2> QED BY <2>1
<1>14. Slot(given, child) = x
  BY <1>12 DEF Moved
<1>15. Placed(given, b)
  <2>1. ASSUME NEW i \in DOMAIN newKids
        PROVE  newKids[i] \in Ids(given) \ {b} /\ Slot(given, newKids[i]) = off + i - 1
    <3>1. Len(kids) \in Nat /\ DOMAIN kids = 1..Len(kids) /\ i \in 1..Len(kids) + 1
      BY <1>1, <1>7
    <3>2. Ids(given) = Ids(s)
      BY <1>6, <1>13 DEF Given
    <3>3. CASE i = Len(kids) + 1
      <4>1. newKids[i] = child
        BY <1>7, <3>3
      <4>2. off + (Len(kids) + 1) - 1 = off + Len(kids)
        <5> HIDE DEF off, kids
        <5> QED BY <1>1, <3>1
      <4> QED BY <1>3, <1>11, <1>14, <3>2, <3>3, <4>1, <4>2
    <3>4. CASE i \in 1..Len(kids)
      <4>1. newKids[i] = kids[i] /\ kids[i] \in Held(kids)
        BY <1>7, <3>1, <3>4 DEF Held
      <4>2. kids[i] \in Ids(s) \ {b, right} /\ kids[i] # child /\ Slot(s, kids[i]) = off + i - 1
        BY <1>1, <1>3, <3>1, <3>4, <4>1 DEF Placed
      <4>3. kids[i] \notin Held(Children(s, right)) \union Held(Children(packed, right))
        BY <1>2, <1>5, <4>1 DEF Siblings
      <4>4. Slot(packed, kids[i]) = Slot(s, kids[i])
        BY <1>5, <4>2, <4>3 DEF Rearranged
      <4>5. Slot(given, kids[i]) = Slot(packed, kids[i])
        BY <1>13a, <4>2
      <4> QED BY <3>2, <4>1, <4>2, <4>4, <4>5
    <3> QED BY <3>1, <3>3, <3>4
  <2> QED BY <1>1, <1>6, <1>13, <2>1 DEF Given, Placed
<1>16. Borrows(s, given, b, right, child)
  BY <1>2, <1>5, <1>7, <1>13, <1>15, GivenBorrows
<1>17. Alike(given, t)
  <2>1. IsTree(given) /\ right \in Ids(given)
    BY <1>1, <1>16 DEF Borrows, SameButNodes
  <2>2. Len(Keys(given, right)) >= 1 /\ ~IsLeaf(given, right)
    <3>1. Len(Keys(given, right)) = Len(Children(given, right)) /\ ~IsLeaf(given, right)
      BY <1>16 DEF Borrows, Placed
    <3>2. Len(Children(given, right)) = Len(Children(s, right)) - 1
      BY <1>16 DEF Borrows
    <3> QED BY <1>1, <3>1, <3>2
  <2>3. NonEmpty(given, right)
    BY <2>1, <2>2, NonEmptyIs
  <2>4. MinKey(given, right) \in NodeKeys
    BY <2>1, <2>3, MinKeyIs
  <2> HIDE DEF t
  <2> QED BY <1>0, <2>1, <2>4, OneKeyIs
<1> HIDE DEF t
<1>18. Borrows(s, t, b, right, child)
  BY <1>1, <1>16, <1>17, AlikeBorrows
<1> QED BY <1>18 DEF t

LEMMA BorrowFromLeftBranchIs ==
  ASSUME NEW s, NEW b, NEW left, Siblings(s, b, left), Len(Children(s, left)) >= 2
  PROVE  \E child : Borrows(s, BorrowFromLeftBranch(s, b, left), b, left, child)
<1> DEFINE kids == Children(s, b)
           keys == Keys(s, b)
           off == Offset(s, b)
           child == Seqs!Last(Children(s, left))
           key == MinKey(s, child)
           newKids == <<child>> \o kids
           newKeys == <<key>> \o keys
           newOff == IF off > 0 THEN off - 1 ELSE off
           rest == Seqs!Front(Children(s, left))
           restKeys == Seqs!Front(Keys(s, left))
           p == [s EXCEPT !.nodes[left].children = rest, !.nodes[left].keys = restKeys]
           m == [p EXCEPT !.nodes[child].parent = b, !.nodes[child].indexInParent = off - 1]
           taken == [m EXCEPT !.nodes[b].children = newKids, !.nodes[b].keys = newKeys,
                              !.nodes[b].childOffset = newOff]
           given == IF off > 0 THEN taken ELSE Reindex(taken, b, 0, ArrayLength(taken, b) - 1)
           guided == [given EXCEPT !.nodes[Parent(s, b)].keys[Position(s, b)] = key]
           t == BorrowFromLeftBranch(s, b, left)
<1>1. /\ IsTree(s) /\ b \in Ids(s) /\ left \in Ids(s) /\ ~IsLeaf(s, b) /\ ~IsLeaf(s, left)
      /\ kids \in Seq(Nat) /\ Children(s, left) \in Seq(Nat) /\ keys \in Seq(NodeKeys)
      /\ Keys(s, left) \in Seq(NodeKeys) /\ Len(Keys(s, left)) = Len(Children(s, left))
      /\ Len(keys) = Len(kids) /\ off \in Nat /\ Distinct(kids) /\ Distinct(Children(s, left))
      /\ Held(kids) \subseteq Ids(s) \ {b, left} /\ Offset(s, left) \in Nat
      /\ Held(Children(s, left)) \subseteq Ids(s) \ {b, left} /\ b \in Nat
      /\ b # left /\ Placed(s, b) /\ Placed(s, left)
  BY SiblingsAre DEF Siblings
<1>2. /\ rest \in Seq(Nat) /\ Len(rest) = Len(Children(s, left)) - 1
      /\ \A i \in 1..Len(Children(s, left)) - 1 : rest[i] = Children(s, left)[i]
      /\ Held(rest) = Held(Children(s, left)) \ {child}
      /\ child \in Held(Children(s, left)) /\ child \in Nat
  <2>1. Len(Children(s, left)) >= 1
    BY <1>1
  <2> QED BY <1>1, <2>1, WithoutLastIs
<1>3. restKeys \in Seq(NodeKeys) /\ Len(restKeys) = Len(Children(s, left)) - 1
  <2>1. Len(Keys(s, left)) > 0
    BY <1>1
  <2> QED BY <1>1, <2>1, FrontIs
<1>4. child \in Ids(s) \ {b, left} /\ child \notin Held(kids)
  BY <1>1, <1>2 DEF Siblings
<1>5. key \in NodeKeys
  <2>1. NonEmpty(s, child)
    BY <1>2 DEF Siblings
  <2> HIDE DEF child
  <2> QED BY <1>1, <1>4, <2>1, MinKeyIs
<1>6. t = UpdateMinKeyInAncestors(guided, b)
  <2>1. /\ s.nodes[left].children = Children(s, left) /\ s.nodes[left].keys = Keys(s, left)
        /\ s.nodes[b].children = kids /\ s.nodes[b].keys = keys /\ s.nodes[b].childOffset = off
    BY DEF Children, Keys, Offset
  <2>2. s.nodes[left] \in BranchNodes /\ s.nodes[b] \in BranchNodes
    BY <1>1, NodesAre
  <2> DEFINE code == [s EXCEPT
                         !.nodes[left] = [s.nodes[left] EXCEPT !.children = Seqs!Front(@),
                                                               !.keys = Seqs!Front(@)],
                         !.nodes[child] = [s.nodes[child] EXCEPT !.parent = b,
                                                                 !.indexInParent = off - 1],
                         !.nodes[b] = [s.nodes[b] EXCEPT
                                         !.children = <<child>> \o @,
                                         !.keys = <<key>> \o @,
                                         !.childOffset = IF off > 0 THEN @ - 1 ELSE @]]
  <2>3. code = taken
    <3> DEFINE a1 == Seqs!Front(s.nodes[left].children)
               a2 == Seqs!Front(s.nodes[left].keys)
               b1 == <<child>> \o s.nodes[b].children
               b2 == <<key>> \o s.nodes[b].keys
               b3 == IF off > 0 THEN s.nodes[b].childOffset - 1 ELSE s.nodes[b].childOffset
    <3>1. a1 = rest /\ a2 = restKeys /\ b1 = newKids /\ b2 = newKeys /\ b3 = newOff
      BY <2>1
    <3>2. code = [s EXCEPT
                    !.nodes[left] = [s.nodes[left] EXCEPT !.children = a1, !.keys = a2],
                    !.nodes[child] = [s.nodes[child] EXCEPT !.parent = b, !.indexInParent = off - 1],
                    !.nodes[b] = [s.nodes[b] EXCEPT !.children = b1, !.keys = b2, !.childOffset = b3]]
      OBVIOUS
    <3> DEFINE i == off - 1
               lessLeft == [s.nodes[left] EXCEPT !.children = rest, !.keys = restKeys]
               hung == [s.nodes[child] EXCEPT !.parent = b, !.indexInParent = i]
               grown == [s.nodes[b] EXCEPT !.children = newKids, !.keys = newKeys,
                                           !.childOffset = newOff]
    <3> HIDE DEF code, a1, a2, b1, b2, b3, rest, restKeys, newKids, newKeys, newOff, child
    <3>3. code = [s EXCEPT !.nodes[left] = lessLeft, !.nodes[child] = hung, !.nodes[b] = grown]
      BY <3>1, <3>2
    <3> HIDE DEF lessLeft, hung, grown, i, p, m, taken
    <3>4. p = [s EXCEPT !.nodes[left] = lessLeft] /\ IsTree(s)
      BY <1>1 DEF p, lessLeft, IsTree, Ids
    <3>5. left # child /\ b # child /\ left # b /\ {left, b, child} \subseteq DOMAIN s.nodes
      BY <1>1, <1>4 DEF Ids
    <3>6. p.nodes[child] = s.nodes[child] /\ p.nodes[b] = s.nodes[b] /\ DOMAIN p.nodes = DOMAIN s.nodes
      BY <3>4, <3>5 DEF IsTree
    <3>7. m = [p EXCEPT !.nodes[child] = hung]
      BY <3>5, <3>6 DEF m, hung, i
    <3>8. m.nodes[b] = s.nodes[b] /\ b \in DOMAIN m.nodes
      BY <3>4, <3>5, <3>6, <3>7 DEF IsTree
    <3>9. taken = [m EXCEPT !.nodes[b] = grown]
      BY <3>8 DEF taken, grown
    <3> QED BY <3>3, <3>4, <3>5, <3>7, <3>9
  <2>4. t = UpdateMinKeyInAncestors(
               [(IF off > 0 THEN code ELSE Reindex(code, b, 0, ArrayLength(code, b) - 1))
                   EXCEPT !.nodes[Parent(s, b)].keys[Position(s, b)] = key], b)
    BY DEF BorrowFromLeftBranch, Offset
  <2>5. guided = [(IF off > 0 THEN taken ELSE Reindex(taken, b, 0, ArrayLength(taken, b) - 1))
                     EXCEPT !.nodes[Parent(s, b)].keys[Position(s, b)] = key]
    OBVIOUS
  <2> HIDE DEF code, taken, guided, off, key
  <2> QED BY <2>3, <2>4, <2>5
<1> HIDE DEF key, child, rest, restKeys, newKids, newKeys, t
<1>7. /\ newKids \in Seq(Nat) /\ Len(newKids) = Len(kids) + 1 /\ newKids[1] = child
      /\ \A i \in 2..Len(kids) + 1 : newKids[i] = kids[i - 1]
      /\ Distinct(newKids) /\ Held(newKids) = Held(kids) \union {child}
  <2>1. kids \in Seq(Nat) /\ child \in Nat /\ Distinct(kids) /\ child \notin Held(kids)
    BY <1>1, <1>2, <1>4
  <2> HIDE DEF kids
  <2>2. /\ <<child>> \o kids \in Seq(Nat) /\ Len(<<child>> \o kids) = Len(kids) + 1
        /\ (<<child>> \o kids)[1] = child
        /\ \A i \in 2..Len(kids) + 1 : (<<child>> \o kids)[i] = kids[i - 1]
        /\ Distinct(<<child>> \o kids) /\ Held(<<child>> \o kids) = Held(kids) \union {child}
    BY <2>1, PrependedIs
  <2> QED BY <2>2 DEF newKids
<1>8. newKeys \in Seq(NodeKeys) /\ Len(newKeys) = Len(kids) + 1
  <2> DEFINE one == <<key>>
  <2>1. one \in Seq(NodeKeys) /\ Len(one) = 1
    BY <1>5, OneIs
  <2> HIDE DEF one, keys, kids
  <2>2. one \o keys \in Seq(NodeKeys) /\ Len(one \o keys) = Len(one) + Len(keys)
    BY <1>1, <2>1, JoinIs
  <2> QED BY <1>1, <2>1, <2>2 DEF newKeys, one
<1>9. newOff \in Nat
  BY <1>1
<1>10. Rewritten(s, p, left, rest, restKeys, Offset(s, left))
  <2>1. rest \in Seq(Nat) /\ restKeys \in Seq(NodeKeys)
    BY <1>2, <1>3
  <2>2. p = [s EXCEPT !.nodes[left].children = rest, !.nodes[left].keys = restKeys]
    OBVIOUS
  <2> HIDE DEF p
  <2> QED BY <1>1, <2>1, <2>2, CutIs
<1> HIDE DEF p
<1>11. /\ IsTree(p) /\ Ids(p) = Ids(s) /\ ~IsLeaf(p, left) /\ Children(p, left) = rest
       /\ Keys(p, left) = restKeys /\ Offset(p, left) = Offset(s, left)
       /\ SameButNodes(s, p) /\ SamePlace(s, p, left)
  BY <1>10 DEF Rewritten, SameButNodes
<1>12. \A n \in Ids(s) \ {left} : SameContent(s, p, n) /\ SamePlace(s, p, n)
  BY <1>10 DEF Rewritten, SameContent, SamePlace, Parent, Slot, IsLeaf, Entries, Children, Keys, Offset
<1>13. Placed(p, left)
  <2>1. ASSUME NEW i \in DOMAIN rest
        PROVE  rest[i] \in Ids(p) \ {left} /\ Slot(p, rest[i]) = Offset(s, left) + i - 1
    <3>1. rest[i] = Children(s, left)[i] /\ i \in DOMAIN Children(s, left)
      <4> DEFINE q == Children(s, left)
      <4>1. q \in Seq(Nat) /\ rest \in Seq(Nat) /\ Len(rest) = Len(q) - 1
            /\ \A j \in 1..Len(q) - 1 : rest[j] = q[j]
        BY <1>1, <1>2
      <4> HIDE DEF q
      <4>2. i \in 1..Len(q) - 1 /\ i \in DOMAIN q
        BY <4>1
      <4> QED BY <4>1, <4>2 DEF q
    <3>2. rest[i] \in Ids(s) \ {left} /\ Slot(s, rest[i]) = Offset(s, left) + i - 1
      BY <1>1, <3>1 DEF Placed
    <3> QED BY <1>11, <1>12, <3>2 DEF SamePlace
  <2> QED BY <1>1, <1>2, <1>3, <1>11, <2>1 DEF Placed
<1>14. Rearranged(s, p, left)
  BY <1>11, <1>12, <1>13 DEF Rearranged, SamePlace
<1>15. Moved(p, m, child, b, off - 1)
  <2> DEFINE x == off - 1
  <2>1. x \in Int
    BY <1>1
  <2>2. m = [p EXCEPT !.nodes[child].parent = b, !.nodes[child].indexInParent = x]
    OBVIOUS
  <2> HIDE DEF x, m
  <2>3. Moved(p, m, child, b, x)
    BY <1>1, <1>4, <1>11, <2>1, <2>2, OnePlaceIs
  <2> QED BY <2>3 DEF x
<1> HIDE DEF m
<1>16. IsTree(m) /\ Ids(m) = Ids(s) /\ ~IsLeaf(m, b)
  <2>1. IsTree(m) /\ Ids(m) = Ids(s) /\ SameContent(p, m, b) /\ SameContent(s, p, b)
    BY <1>1, <1>11, <1>12, <1>15 DEF Moved, SameButNodes
  <2> QED BY <1>1, <2>1 DEF SameContent
<1>17. Rewritten(m, taken, b, newKids, newKeys, newOff)
  <2> HIDE DEF newOff, taken
  <2> QED BY <1>1, <1>7, <1>8, <1>9, <1>16, RewrittenIs DEF taken
<1> HIDE DEF taken
<1>18. /\ IsTree(taken) /\ Ids(taken) = Ids(s) /\ ~IsLeaf(taken, b) /\ Children(taken, b) = newKids
       /\ Keys(taken, b) = newKeys /\ Offset(taken, b) = newOff /\ SameButNodes(s, taken)
       /\ SamePlace(m, taken, b)
  BY <1>11, <1>15, <1>16, <1>17 DEF Rewritten, Moved, SameButNodes, SameCapacity
<1>19. \A n \in Ids(s) \ {b} : SameContent(p, taken, n) /\ SamePlace(m, taken, n)
  <2>1. ASSUME NEW n \in Ids(s) \ {b} PROVE SameContent(p, taken, n) /\ SamePlace(m, taken, n)
    <3>1. taken.nodes[n] = m.nodes[n]
      BY <1>16, <1>17, <2>1 DEF Rewritten
    <3>2. SameContent(m, taken, n) /\ SamePlace(m, taken, n)
      BY <3>1 DEF SameContent, SamePlace, Parent, Slot, IsLeaf, Entries, Children, Keys, Offset
    <3>3. SameContent(p, m, n)
      BY <1>11, <1>15, <2>1 DEF Moved
    <3> QED BY <3>2, <3>3 DEF SameContent
  <2> QED BY <2>1
<1>20. \A n \in Ids(s) \ {child} : SamePlace(p, taken, n)
  <2>1. \A n \in Ids(s) \ {child} : SamePlace(p, m, n)
    BY <1>11, <1>15 DEF Moved, SamePlace, Parent, Slot
  <2> QED BY <1>18, <1>19, <2>1 DEF SamePlace
<1>21. Parent(taken, child) = b /\ Slot(taken, child) = off - 1
  BY <1>4, <1>15, <1>19 DEF Moved, SamePlace
<1>22. Held(newKids) \subseteq Ids(s) \ {b}
  BY <1>1, <1>4, <1>7
<1>23. Len(kids) \in Nat /\ DOMAIN kids = 1..Len(kids) /\ DOMAIN newKids = 1..Len(kids) + 1
  BY <1>1, <1>7
<1>24. \A i \in 1..Len(kids) : Slot(taken, kids[i]) = off + i - 1
  <2>1. ASSUME NEW i \in 1..Len(kids) PROVE Slot(taken, kids[i]) = off + i - 1
    <3>1. kids[i] \in Held(kids) /\ Slot(s, kids[i]) = off + i - 1
      BY <1>1, <1>23 DEF Held, Placed
    <3>2. kids[i] \in Ids(s) \ {left, child}
      BY <1>1, <1>4, <3>1
    <3> QED BY <1>12, <1>20, <3>1, <3>2 DEF SamePlace
  <2> QED BY <2>1
<1>25. /\ SameButNodes(s, given) /\ Ids(given) = Ids(s) /\ Placed(given, b)
       /\ Children(given, b) = newKids /\ Offset(given, b) = newOff
       /\ Len(Keys(given, b)) = Len(newKids)
       /\ \A n \in Ids(s) : SameContent(taken, given, n) /\ Parent(given, n) = Parent(taken, n)
       /\ \A n \in Ids(s) \ Held(newKids) : Slot(given, n) = Slot(taken, n)
  <2>1. CASE off > 0
    <3>1. given = taken /\ newOff = off - 1
      BY <2>1
    <3>2. ASSUME NEW i \in DOMAIN newKids
          PROVE  newKids[i] \in Ids(taken) \ {b} /\ Slot(taken, newKids[i]) = newOff + i - 1
      <4>1. newKids[i] \in Ids(s) \ {b}
        BY <1>22 DEF Held
      <4>2. CASE i = 1
        <5>1. newOff + 1 - 1 = off - 1
          BY <1>1, <3>1
        <5> QED BY <1>7, <1>18, <1>21, <4>1, <4>2, <5>1
      <4>3. CASE i \in 2..Len(kids) + 1
        <5>1. i - 1 \in 1..Len(kids) /\ i \in Int
          BY <1>23, <4>3
        <5>2. Slot(taken, newKids[i]) = off + (i - 1) - 1
          BY <1>7, <1>24, <4>3, <5>1
        <5>3. off \in Int
          BY <1>1
        <5> HIDE DEF off, newOff
        <5>4. off + (i - 1) - 1 = newOff + i - 1
          BY <3>1, <5>1, <5>3
        <5> QED BY <1>18, <4>1, <5>2, <5>4
      <4> QED BY <1>23, <4>2, <4>3
    <3>3. Placed(taken, b)
      BY <1>1, <1>7, <1>8, <1>18, <3>2 DEF Placed
    <3> QED BY <1>7, <1>8, <1>18, <3>1, <3>3 DEF SameContent
  <2>2. CASE ~(off > 0)
    <3> DEFINE last == ArrayLength(taken, b) - 1
    <3>1. newOff = 0 /\ off = 0 /\ given = Reindex(taken, b, 0, last)
      BY <1>1, <2>2
    <3>2. last = Len(kids) /\ Len(newKids) = Len(kids) + 1
      <4>1. ArrayLength(taken, b) = newOff + Len(newKids)
        BY <1>18 DEF ArrayLength, Offset
      <4>2. newOff = 0
        BY <3>1
      <4> HIDE DEF newOff, kids
      <4> QED BY <1>7, <1>23, <4>1, <4>2
    <3> HIDE DEF last, given, newOff
    <3>3. /\ Distinct(Children(taken, b)) /\ Held(Children(taken, b)) \subseteq Ids(taken)
          /\ 0 >= Offset(taken, b) /\ last <= Offset(taken, b) + Len(Children(taken, b)) - 1
          /\ b \in Ids(taken) /\ 0 \in Int /\ last \in Int
      BY <1>1, <1>7, <1>18, <1>22, <1>23, <3>1, <3>2
    <3>4. /\ Reslotted(taken, given, Held(newKids))
          /\ \A i \in DOMAIN newKids :
                Slot(given, newKids[i]) =
                   IF newOff + i - 1 \in 0..last THEN newOff + i - 1 ELSE Slot(taken, newKids[i])
      BY <1>18, <3>1, <3>3, ReindexIs
    <3>5. SameButNodes(s, given) /\ Ids(given) = Ids(s)
      BY <1>18, <3>4 DEF Reslotted, SameButNodes, SameCapacity
    <3>6. /\ ~IsLeaf(given, b) /\ Children(given, b) = newKids /\ Offset(given, b) = newOff
          /\ Len(Keys(given, b)) = Len(newKids)
      BY <1>1, <1>7, <1>8, <1>18, <3>4 DEF Reslotted, SameContent
    <3>7. ASSUME NEW i \in DOMAIN newKids
          PROVE  newKids[i] \in Ids(given) \ {b} /\ Slot(given, newKids[i]) = newOff + i - 1
      <4>1. newKids[i] \in Ids(s) \ {b}
        BY <1>22 DEF Held
      <4>2. newOff + i - 1 \in 0..last
        BY <1>23, <3>1, <3>2
      <4> QED BY <3>4, <3>5, <4>1, <4>2
    <3>8. Placed(given, b)
      BY <1>1, <3>5, <3>6, <3>7 DEF Placed
    <3> QED BY <1>18, <3>4, <3>5, <3>6, <3>8 DEF Reslotted
  <2> QED BY <2>1, <2>2
<1> HIDE DEF given, newOff
<1>26. Given(s, p, given, b, left, child, newKids, newOff)
  <2>1. SameButNodes(p, given)
    BY <1>11, <1>25 DEF SameButNodes, SameCapacity
  <2>2. \A n \in Ids(p) \ {b} : SameContent(p, given, n)
    BY <1>11, <1>19, <1>25 DEF SameContent
  <2>3. \A n \in Ids(p) \ {child} : Parent(given, n) = Parent(p, n)
    BY <1>11, <1>20, <1>25 DEF SamePlace
  <2>4. \A n \in Ids(p) \ Held(newKids) : Slot(given, n) = Slot(p, n)
    BY <1>7, <1>11, <1>20, <1>25 DEF SamePlace
  <2>5. Parent(given, child) = b
    BY <1>4, <1>21, <1>25
  <2> QED BY <1>11, <1>25, <2>1, <2>2, <2>3, <2>4, <2>5 DEF Given, Placed
<1>27. Borrows(s, given, b, left, child)
  BY <1>2, <1>7, <1>11, <1>14, <1>25, <1>26, GivenBorrows
<1>28. Alike(given, t)
  <2>1. IsTree(given) /\ Ids(given) = Ids(s)
    BY <1>27 DEF Borrows, SameButNodes
  <2>2. Alike(given, guided)
    BY <1>5, <2>1, OneKeyIs
  <2>3. IsTree(guided) /\ b \in Ids(guided)
    BY <1>1, <2>1, <2>2 DEF Alike, SameButNodes
  <2> HIDE DEF guided
  <2>4. Alike(guided, t)
    BY <1>6, <2>3, UpdateMinKeyIs
  <2> QED BY <2>2, <2>4, AlikeTwice
<1>29. Borrows(s, t, b, left, child)
  BY <1>1, <1>27, <1>28, AlikeBorrows
<1> QED BY <1>29 DEF t

(* All children of from are now children of into. *)
MovesAll(s, t, from, into) ==
    /\ SameButNodes(s, t) /\ Ids(t) = Ids(s)
    /\ Placed(t, into)
    /\ Held(Children(t, into)) = Held(Children(s, into)) \union Held(Children(s, from))
    /\ Len(Children(t, into)) = Len(Children(s, into)) + Len(Children(s, from))
    /\ \A n \in Ids(s) \ {into} : SameContent(s, t, n)
    /\ \A n \in Held(Children(s, from)) : Parent(t, n) = into
    /\ \A n \in Ids(s) \ Held(Children(s, from)) : SamePlace(s, t, n)

LEMMA MoveChildrenIs ==
  ASSUME NEW s, NEW from, NEW into, Siblings(s, into, from)
  PROVE  MovesAll(s, MoveChildren(s, from, into), from, into)
<1> DEFINE kids == Children(s, into)
           more == Children(s, from)
           off == Offset(s, into)
           x == ArrayLength(s, into)
           a == Adopt(s, into, more, x)
           newKids == kids \o more
           newKeys == Keys(a, into) \o Keys(s, from)
           t == MoveChildren(s, from, into)
           n == Len(kids)
           m == Len(more)
<1>1. /\ IsTree(s) /\ into \in Ids(s) /\ from \in Ids(s) /\ ~IsLeaf(s, into) /\ ~IsLeaf(s, from)
      /\ kids \in Seq(Nat) /\ more \in Seq(Nat) /\ Keys(s, into) \in Seq(NodeKeys)
      /\ Keys(s, from) \in Seq(NodeKeys) /\ Len(Keys(s, from)) = m /\ Len(Keys(s, into)) = n
      /\ off \in Nat /\ Distinct(kids) /\ Distinct(more)
      /\ Held(kids) \subseteq Ids(s) \ {into, from}
      /\ Held(more) \subseteq Ids(s) \ {into, from} /\ into \in Nat
      /\ into # from /\ Placed(s, into) /\ Placed(s, from)
      /\ Held(kids) \intersect Held(more) = {}
  BY SiblingsAre DEF Siblings
<1>2. n \in Nat /\ m \in Nat /\ DOMAIN kids = 1..n /\ DOMAIN more = 1..m
  BY <1>1
<1>3. x = off + n /\ x \in Int
  BY <1>1, <1>2 DEF ArrayLength, Offset
<1>4. Adopted(s, a, into, more, x)
  <2> HIDE DEF x, more
  <2>1. Held(more) \subseteq Ids(s)
    BY <1>1
  <2> QED BY <1>1, <1>3, <2>1, AdoptIs
<1>5. t = [a EXCEPT !.nodes[into].children = @ \o more, !.nodes[into].keys = @ \o s.nodes[from].keys]
  BY DEF MoveChildren
<1> HIDE DEF a, t
<1>6. /\ IsTree(a) /\ Ids(a) = Ids(s) /\ SameButNodes(s, a) /\ ~IsLeaf(a, into)
      /\ Children(a, into) = kids /\ Offset(a, into) = off /\ Len(Keys(a, into)) = n
      /\ Keys(a, into) \in Seq(NodeKeys) /\ a.nodes[into] \in BranchNodes
  <2>1. IsTree(a) /\ Ids(a) = Ids(s) /\ SameButNodes(s, a) /\ SameContent(s, a, into)
    BY <1>1, <1>4 DEF Adopted, SameButNodes
  <2>2. /\ ~IsLeaf(a, into) /\ Children(a, into) = kids /\ Offset(a, into) = off
        /\ Len(Keys(a, into)) = n
    BY <1>1, <2>1 DEF SameContent
  <2> QED BY <1>1, <2>1, <2>2, NodesAre
<1>7. t = [a EXCEPT !.nodes[into].children = newKids, !.nodes[into].keys = newKeys]
  <2> DEFINE c == a.nodes[into].children \o more
             k == a.nodes[into].keys \o s.nodes[from].keys
  <2>1. c = newKids /\ k = newKeys
    BY <1>6 DEF Children, Keys
  <2>2. t = [a EXCEPT !.nodes[into].children = c, !.nodes[into].keys = k]
    <3> HIDE DEF more
    <3> QED BY <1>1, <1>5, <1>6 DEF IsTree, Ids, BranchNodes
  <2> HIDE DEF c, k, newKids, newKeys
  <2> QED BY <2>1, <2>2
<1>8. /\ newKids \in Seq(Nat) /\ Len(newKids) = n + m
      /\ \A j \in 1..n + m : newKids[j] = IF j <= n THEN kids[j] ELSE more[j - n]
      /\ Distinct(newKids) /\ Held(newKids) = Held(kids) \union Held(more)
  <2> HIDE DEF kids, more
  <2>1. Distinct(kids \o more) /\ Held(kids \o more) = Held(kids) \union Held(more)
    BY <1>1, JoinedAre
  <2>2. /\ kids \o more \in Seq(Nat) /\ Len(kids \o more) = Len(kids) + Len(more)
        /\ \A j \in 1..Len(kids) + Len(more) :
              (kids \o more)[j] = IF j <= Len(kids) THEN kids[j] ELSE more[j - Len(kids)]
    BY <1>1, JoinIs
  <2> QED BY <2>1, <2>2
<1>9. newKeys \in Seq(NodeKeys) /\ Len(newKeys) = n + m
  <2> DEFINE p == Keys(a, into)
             q == Keys(s, from)
  <2>1. p \in Seq(NodeKeys) /\ q \in Seq(NodeKeys) /\ Len(p) = n /\ Len(q) = m
    BY <1>1, <1>6
  <2> HIDE DEF p, q, n, m
  <2>2. p \o q \in Seq(NodeKeys) /\ Len(p \o q) = Len(p) + Len(q)
    BY <2>1, JoinIs
  <2> QED BY <2>1, <2>2 DEF p, q
<1> HIDE DEF newKids, newKeys
<1>10. Rewritten(a, t, into, newKids, newKeys, off)
  <2>1. into \in Ids(a)
    BY <1>1, <1>6
  <2>2. Rewritten(a, t, into, newKids, newKeys, Offset(a, into))
    BY <1>6, <1>7, <1>8, <1>9, <2>1, CutIs
  <2> QED BY <1>6, <2>2
<1>11. SameButNodes(s, t) /\ Ids(t) = Ids(s)
  BY <1>4, <1>6, <1>10 DEF Rewritten, SameButNodes, SameCapacity
<1>12. \A i \in Ids(s) \ {into} : SameContent(a, t, i) /\ SamePlace(a, t, i)
  <2>1. ASSUME NEW i \in Ids(s) \ {into} PROVE SameContent(a, t, i) /\ SamePlace(a, t, i)
    <3>1. t.nodes[i] = a.nodes[i]
      BY <1>6, <1>10, <2>1 DEF Rewritten
    <3> QED BY <3>1 DEF SameContent, SamePlace, Parent, Slot, IsLeaf, Entries, Children, Keys, Offset
  <2> QED BY <2>1
<1>13. \A i \in Ids(s) : SamePlace(a, t, i)
  BY <1>10, <1>12 DEF Rewritten
<1>14. \A i \in Ids(s) \ {into} : SameContent(s, t, i)
  BY <1>4, <1>12 DEF Adopted, SameContent
<1>15. \A i \in Ids(s) \ Held(more) : SamePlace(s, t, i)
  BY <1>4, <1>13 DEF Adopted, SamePlace
<1>16. \A j \in 1..m : Parent(t, more[j]) = into /\ Slot(t, more[j]) = x + j - 1
  <2>1. ASSUME NEW j \in 1..m PROVE Parent(t, more[j]) = into /\ Slot(t, more[j]) = x + j - 1
    <3>1. more[j] \in Ids(s)
      BY <1>1, <1>2 DEF Held
    <3> HIDE DEF x, more
    <3> QED BY <1>2, <1>4, <1>13, <3>1 DEF Adopted, SamePlace
  <2> QED BY <2>1
<1>17. \A i \in Held(more) : Parent(t, i) = into
  BY <1>2, <1>16 DEF Held
<1>18. Placed(t, into) /\ Children(t, into) = newKids
  <2>1. ASSUME NEW i \in DOMAIN newKids
        PROVE  newKids[i] \in Ids(t) \ {into} /\ Slot(t, newKids[i]) = off + i - 1
    <3>1. i \in 1..n + m
      BY <1>8
    <3>2. CASE i <= n
      <4>1. i \in 1..n /\ newKids[i] = kids[i]
        BY <1>2, <1>8, <3>1, <3>2
      <4>2. kids[i] \in Held(kids) /\ Slot(s, kids[i]) = off + i - 1
        BY <1>1, <1>2, <4>1 DEF Held, Placed
      <4>3. kids[i] \in Ids(s) \ {into} /\ kids[i] \notin Held(more)
        BY <1>1, <4>2
      <4> QED BY <1>11, <1>15, <4>1, <4>2, <4>3 DEF SamePlace
    <3>3. CASE ~(i <= n)
      <4>1. i - n \in 1..m /\ newKids[i] = more[i - n]
        BY <1>2, <1>8, <3>1, <3>3
      <4>2. more[i - n] \in Ids(s) \ {into}
        BY <1>1, <1>2, <4>1 DEF Held
      <4>3. Slot(t, more[i - n]) = x + (i - n) - 1
        BY <1>16, <4>1
      <4>4. x + (i - n) - 1 = off + i - 1
        <5>1. n \in Int /\ off \in Int /\ i \in Int /\ x = off + n
          BY <1>1, <1>2, <1>3, <3>1
        <5> HIDE DEF x, off, n
        <5> QED BY <5>1
      <4> QED BY <1>11, <4>1, <4>2, <4>3, <4>4
    <3> QED BY <3>2, <3>3
  <2>2. ~IsLeaf(t, into) /\ Children(t, into) = newKids /\ Keys(t, into) = newKeys /\ Offset(t, into) = off
    BY <1>10 DEF Rewritten
  <2> QED BY <1>1, <1>8, <1>9, <1>11, <2>1, <2>2 DEF Placed
<1>19. MovesAll(s, t, from, into)
  BY <1>8, <1>11, <1>14, <1>15, <1>17, <1>18 DEF MovesAll
<1> QED BY <1>19 DEF t

(* The only child of the root is the root. *)
Collapses(s, t, only) ==
    /\ SameButRoot(s, t) /\ Ids(t) = Ids(s) /\ t.root = only
    /\ \A n \in Ids(s) : SameContent(s, t, n) /\ Slot(t, n) = Slot(s, n)
    /\ \A n \in Ids(s) \ {only} : Parent(t, n) = Parent(s, n)
    /\ Parent(t, only) = None

LEMMA CollapseRootIs ==
  ASSUME NEW s, IsTree(s), NEW b, Placed(s, b), Len(Children(s, b)) = 1
  PROVE  /\ Head(Children(s, b)) \in Held(Children(s, b))
         /\ Collapses(s, CollapseRoot(s, b), Head(Children(s, b)))
<1> DEFINE only == Head(Children(s, b))
           node == NewPlace(s.nodes[only], None, Slot(s, only))
           lowered == [s EXCEPT !.nodes[only].parent = None, !.root = only]
           m == [s EXCEPT !.nodes[only] = node]
           t == CollapseRoot(s, b)
<1>1. Children(s, b) \in Seq(Nat) /\ b \in Ids(s)
  BY NodesAre DEF Placed
<1>2. only \in Held(Children(s, b)) /\ only \in Ids(s)
  <2>1. only = Children(s, b)[1] /\ 1 \in DOMAIN Children(s, b)
    BY <1>1
  <2> HIDE DEF only
  <2> QED BY <2>1 DEF Held, Placed
<1>3. t = IF IsLeaf(s, only)
          THEN [lowered EXCEPT !.leftmostLeaf = only, !.rightmostLeaf = only] ELSE lowered
  BY DEF CollapseRoot
<1> HIDE DEF only, t
<1>4. None \in Nat /\ Slot(s, only) \in Int
  BY <1>2, NodesAre DEF None
<1>5. Moved(s, [s EXCEPT !.nodes[only].parent = None, !.nodes[only].indexInParent = Slot(s, only)],
            only, None, Slot(s, only))
  BY <1>2, <1>4, OnePlaceIs
<1> DEFINE p == [s EXCEPT !.nodes[only].parent = None, !.nodes[only].indexInParent = Slot(s, only)]
<1>6. [s EXCEPT !.nodes[only].parent = None] = p
  <2>1. s.nodes[only] \in LeafNodes \union BranchNodes /\ s.nodes[only].indexInParent = Slot(s, only)
    BY <1>2 DEF IsTree, Ids, Slot
  <2>2. [s.nodes[only] EXCEPT !.parent = None]
        = [s.nodes[only] EXCEPT !.parent = None, !.indexInParent = Slot(s, only)]
    BY <2>1 DEF LeafNodes, BranchNodes
  <2>3. [s EXCEPT !.nodes[only].parent = None]
        = [s EXCEPT !.nodes[only] = [s.nodes[only] EXCEPT !.parent = None]]
    BY <1>2 DEF IsTree, Ids
  <2>4. p = [s EXCEPT !.nodes[only] =
                [s.nodes[only] EXCEPT !.parent = None, !.indexInParent = Slot(s, only)]]
    BY <1>2 DEF IsTree, Ids
  <2> HIDE DEF p
  <2> QED BY <2>2, <2>3, <2>4
<1>7. lowered = [p EXCEPT !.root = only]
  <2> DEFINE q == [s EXCEPT !.nodes[only].parent = None]
  <2>1. lowered = [q EXCEPT !.root = only]
    BY DEF IsTree
  <2> HIDE DEF q, p, lowered
  <2> QED BY <1>6, <2>1 DEF q
<1> HIDE DEF p, lowered
<1>8. IsTree(p) /\ SameButNodes(s, p)
  BY <1>5 DEF Moved, SameButNodes, p
<1>9. /\ t.nodes = p.nodes /\ t.root = only /\ IsTree(t) /\ t.todo = p.todo /\ t.broken = p.broken
      /\ t.entryCount = p.entryCount /\ SameCapacity(p, t)
  <2>1. t \in {[p EXCEPT !.root = only],
               [p EXCEPT !.root = only, !.leftmostLeaf = only, !.rightmostLeaf = only]}
    BY <1>3, <1>7
  <2> QED BY <1>8, <2>1 DEF IsTree, SameCapacity
<1>10. SameButRoot(s, t) /\ Ids(t) = Ids(s)
  BY <1>5, <1>8, <1>9 DEF SameButRoot, SameButNodes, SameCapacity, Moved, Ids, p
<1>11. /\ \A n \in Ids(s) : SameContent(s, p, n) /\ Slot(p, n) = Slot(s, n)
       /\ \A n \in Ids(s) \ {only} : Parent(p, n) = Parent(s, n)
       /\ Parent(p, only) = None
  BY <1>5 DEF Moved, Slot, Parent, p
<1>12. \A n \in Ids(s) : SameContent(p, t, n) /\ SamePlace(p, t, n)
  BY <1>9 DEF SameContent, SamePlace, Parent, Slot, IsLeaf, Entries, Children, Keys, Offset
<1>13. \A n \in Ids(s) : SameContent(s, t, n) /\ Slot(t, n) = Slot(s, n)
  BY <1>11, <1>12 DEF SameContent, SamePlace
<1>14. /\ \A n \in Ids(s) \ {only} : Parent(t, n) = Parent(s, n)
       /\ Parent(t, only) = None
  BY <1>2, <1>11, <1>12 DEF SamePlace
<1>15. Collapses(s, t, only)
  BY <1>9, <1>10, <1>13, <1>14 DEF Collapses
<1> QED BY <1>2, <1>15 DEF t, only

(* Leaves. *)

(* What the shape of a tree depends on besides the nodes. *)
Kept(s, t) ==
    IsTree(t) /\ t.root = s.root /\ t.todo = s.todo /\ t.broken = s.broken /\ SameCapacity(s, t)

(* The leaves of S may hold other entries, and any branch other cached keys. *)
Resized(s, t, S) ==
    /\ Kept(s, t) /\ Ids(t) = Ids(s)
    /\ \A n \in Ids(s) : SamePlace(s, t, n) /\ (IsLeaf(t, n) <=> IsLeaf(s, n))
    /\ \A n \in Ids(s) \ S : SameContent(s, t, n)
Resizes(s, t, leaf, count) ==
    Resized(s, t, {leaf}) /\ IsLeaf(t, leaf) /\ Len(Entries(t, leaf)) = count

LEMMA SameNodesAreResized ==
  ASSUME NEW s, NEW t, Kept(s, t), t.nodes = s.nodes, NEW S
  PROVE  Resized(s, t, S)
BY DEF Resized, Ids, SameContent, SamePlace, Parent, Slot, IsLeaf, Entries, Children, Keys, Offset

LEMMA AlikeIsResized ==
  ASSUME NEW s, NEW t, Alike(s, t), NEW S
  PROVE  Resized(s, t, S)
BY DEF Alike, Resized, Kept, SameButNodes, SameContent

LEMMA ReenteredIsResized ==
  ASSUME NEW s, NEW n, IsLeaf(s, n), NEW list, NEW t, Reentered(s, t, n, list), NEW S, n \in S
  PROVE  Resized(s, t, S)
BY DEF Reentered, Resized, Kept, SameButNodes, SameContent

LEMMA ResizedTwice ==
  ASSUME NEW s, NEW t, NEW u, NEW S, Resized(s, t, S), Resized(t, u, S)
  PROVE  Resized(s, u, S)
BY DEF Resized, Kept, SameCapacity, SameContent, SamePlace

LEMMA AlikeResizes ==
  ASSUME NEW s, NEW t, NEW u, NEW leaf \in Ids(s), NEW count, Resizes(s, t, leaf, count), Alike(t, u)
  PROVE  Resizes(s, u, leaf, count)
<1>1. Resized(t, u, {leaf})
  BY AlikeIsResized
<1>2. Resized(s, u, {leaf})
  BY <1>1, ResizedTwice DEF Resizes
<1>3. SameContent(t, u, leaf)
  BY DEF Alike, Resizes, Resized
<1> QED BY <1>2, <1>3 DEF Resizes, SameContent

LEMMA SameNodesResize ==
  ASSUME NEW s, NEW t, NEW u, NEW leaf, NEW count, Resizes(s, t, leaf, count), Kept(t, u),
         u.nodes = t.nodes
  PROVE  Resizes(s, u, leaf, count)
<1>1. Resized(t, u, {leaf})
  BY SameNodesAreResized
<1>2. Resized(s, u, {leaf})
  BY <1>1, ResizedTwice DEF Resizes
<1> QED BY <1>2 DEF Resizes, IsLeaf, Entries

-----------------------------------------------------------------------------
(* Fields that no node depends on. *)

LEMMA CountersAre ==
  ASSUME NEW s, IsTree(s), NEW a, NEW b, NEW t,
         \/ t = [s EXCEPT !.nextSequence = a, !.entryCount = b]
         \/ t = [s EXCEPT !.entryCount = b]
         \/ t = [s EXCEPT !.entryKeys = a]
  PROVE  Kept(s, t) /\ t.nodes = s.nodes
BY DEF IsTree, Kept, SameCapacity

LEMMA TodoIs ==
  ASSUME NEW s, IsTree(s), NEW rest
  PROVE  LET t == [s EXCEPT !.todo = rest]
         IN  /\ IsTree(t) /\ t.nodes = s.nodes /\ t.root = s.root /\ t.todo = rest
             /\ t.broken = s.broken /\ SameCapacity(s, t)
BY DEF IsTree, SameCapacity

LEMMA LearnIs ==
  ASSUME NEW s, IsTree(s), NEW e
  PROVE  Kept(s, Learn(s, e)) /\ Learn(s, e).nodes = s.nodes
<1>1. Kept(s, s) /\ s.nodes = s.nodes
  BY DEF Kept, SameCapacity
<1>2. \A a : Kept(s, [s EXCEPT !.entryKeys = a]) /\ [s EXCEPT !.entryKeys = a].nodes = s.nodes
  BY CountersAre
<1> QED BY <1>1, <1>2 DEF Learn

LEMMA ForgetIs ==
  ASSUME NEW s, IsTree(s), NEW ids
  PROVE  Kept(s, Forget(s, ids)) /\ Forget(s, ids).nodes = s.nodes
<1>1. Kept(s, s) /\ s.nodes = s.nodes
  BY DEF Kept, SameCapacity
<1>2. \A a : Kept(s, [s EXCEPT !.entryKeys = a]) /\ [s EXCEPT !.entryKeys = a].nodes = s.nodes
  BY CountersAre
<1> QED BY <1>1, <1>2 DEF Forget

(* A leaf with other entries, and another count of entries. *)
LEMMA ReenteredAndCountedIs ==
  ASSUME NEW s, IsTree(s), NEW leaf \in Ids(s), IsLeaf(s, leaf), NEW list \in Seq(NewEntries),
         NEW c, Kept(s, c), c.nodes = s.nodes
  PROVE  Resizes(s, [c EXCEPT !.nodes[leaf].entries = list], leaf, Len(list))
<1> DEFINE t == [c EXCEPT !.nodes[leaf].entries = list]
<1>1. IsTree(c) /\ leaf \in Ids(c) /\ IsLeaf(c, leaf)
  BY DEF Kept, Ids, IsLeaf
<1>2. Reentered(c, t, leaf, list)
  BY <1>1, EntriesAre
<1> HIDE DEF t
<1>3. Resized(c, t, {leaf})
  BY <1>1, <1>2, ReenteredIsResized
<1>4. Resized(s, c, {leaf})
  BY SameNodesAreResized
<1>5. Resized(s, t, {leaf})
  BY <1>3, <1>4, ResizedTwice
<1>6. IsLeaf(t, leaf) /\ Entries(t, leaf) = list
  BY <1>2 DEF Reentered
<1>7. Resizes(s, t, leaf, Len(list))
  BY <1>5, <1>6 DEF Resizes
<1> QED BY <1>7 DEF t

LEMMA AddEntryIs ==
  ASSUME NEW s, IsTree(s), NEW leaf \in Ids(s), IsLeaf(s, leaf), NEW e \in NewEntries,
         NEW index \in 1..Len(Entries(s, leaf)) + 1
  PROVE  \E d : /\ Resizes(s, d, leaf, Len(Entries(s, leaf)) + 1)
                /\ AddEntry(s, leaf, index, e) =
                      IF Len(Entries(d, leaf)) > s.maxLeafEntries THEN SplitLeaf(d, leaf) ELSE d
<1> DEFINE list == Seqs!InsertAt(Entries(s, leaf), index, e)
           c == [s EXCEPT !.nextSequence = s.nextSequence + 1, !.entryCount = s.entryCount + 1]
           r == [c EXCEPT !.nodes[leaf].entries = list]
           inserted == Learn(r, e)
           d == IF index = 1 THEN UpdateMinKeyInAncestors(inserted, leaf) ELSE inserted
           count == Len(Entries(s, leaf)) + 1
<1>1. Entries(s, leaf) \in Seq(NewEntries) /\ list \in Seq(NewEntries) /\ Len(list) = count
  <2>1. Entries(s, leaf) \in Seq(NewEntries)
    BY NodesAre
  <2> QED BY <2>1, InsertAtIs
<1>2. Kept(s, c) /\ c.nodes = s.nodes
  <2> DEFINE a == s.nextSequence + 1
             b == s.entryCount + 1
             made == [s EXCEPT !.nextSequence = a, !.entryCount = b]
  <2> HIDE DEF a, b
  <2>1. ASSUME NEW m, m = made PROVE Kept(s, m) /\ m.nodes = s.nodes
    BY <2>1 DEF IsTree, Kept, SameCapacity
  <2> QED BY <2>1 DEF a, b
<1>3. AddEntry(s, leaf, index, e) =
         IF Len(Entries(d, leaf)) > s.maxLeafEntries THEN SplitLeaf(d, leaf) ELSE d
  <2>1. [s EXCEPT !.nextSequence = @ + 1, !.entryCount = @ + 1,
                  !.nodes[leaf].entries = Seqs!InsertAt(@, index, e)] = r
    BY DEF IsTree, Ids, Entries
  <2> HIDE DEF r
  <2> QED BY <2>1 DEF AddEntry
<1> HIDE DEF list, c, count
<1>4. Resizes(s, r, leaf, count)
  <2>1. Resizes(s, r, leaf, Len(list))
    BY <1>1, <1>2, ReenteredAndCountedIs
  <2> QED BY <1>1, <2>1
<1> HIDE DEF r
<1>5. Resizes(s, inserted, leaf, count)
  <2>1. IsTree(r)
    BY <1>4 DEF Resizes, Resized, Kept
  <2>2. Kept(r, inserted) /\ inserted.nodes = r.nodes
    BY <2>1, LearnIs
  <2> HIDE DEF inserted
  <2> QED BY <1>4, <2>2, SameNodesResize
<1> HIDE DEF inserted
<1>6. Resizes(s, d, leaf, count)
  <2>1. IsTree(inserted) /\ leaf \in Ids(inserted)
    BY <1>5 DEF Resizes, Resized, Kept
  <2>2. Alike(inserted, UpdateMinKeyInAncestors(inserted, leaf))
    BY <2>1, UpdateMinKeyIs
  <2>3. Resizes(s, UpdateMinKeyInAncestors(inserted, leaf), leaf, count)
    BY <1>5, <2>2, AlikeResizes
  <2> QED BY <1>5, <2>3
<1> HIDE DEF d
<1> QED BY <1>3, <1>6 DEF count

LEMMA RemoveEntryIs ==
  ASSUME NEW s, IsTree(s), NEW leaf \in Ids(s), IsLeaf(s, leaf),
         NEW index \in 1..Len(Entries(s, leaf))
  PROVE  \E d : /\ Resizes(s, d, leaf, Len(Entries(s, leaf)) - 1)
                /\ RemoveEntry(s, leaf, index) =
                      IF leaf # s.root /\ Len(Entries(d, leaf)) < s.minLeafEntries
                      THEN RebalanceAfterLeafRemoval(d, leaf) ELSE d
<1> DEFINE list == Seqs!RemoveAt(Entries(s, leaf), index)
           c == [s EXCEPT !.entryCount = s.entryCount - 1]
           r == [c EXCEPT !.nodes[leaf].entries = list]
           gone == {Entries(s, leaf)[index].entryId}
           removed == Forget(r, gone)
           d == IF index = 1 THEN UpdateMinKeyInAncestors(removed, leaf) ELSE removed
           count == Len(Entries(s, leaf)) - 1
<1>1. Entries(s, leaf) \in Seq(NewEntries) /\ list \in Seq(NewEntries) /\ Len(list) = count
  <2>1. Entries(s, leaf) \in Seq(NewEntries)
    BY NodesAre
  <2> QED BY <2>1, RemoveAtIs
<1>2. Kept(s, c) /\ c.nodes = s.nodes
  <2> DEFINE b == s.entryCount - 1
             made == [s EXCEPT !.entryCount = b]
  <2> HIDE DEF b
  <2>1. Kept(s, made) /\ made.nodes = s.nodes
    BY CountersAre
  <2> QED BY <2>1 DEF b
<1>3. RemoveEntry(s, leaf, index) =
         IF leaf # s.root /\ Len(Entries(d, leaf)) < s.minLeafEntries
         THEN RebalanceAfterLeafRemoval(d, leaf) ELSE d
  <2>1. [s EXCEPT !.nodes[leaf].entries = Seqs!RemoveAt(@, index), !.entryCount = @ - 1] = r
    BY DEF IsTree, Ids, Entries
  <2> HIDE DEF r, gone
  <2> QED BY <2>1 DEF RemoveEntry, gone
<1> HIDE DEF list, c, count, gone
<1>4. Resizes(s, r, leaf, count)
  <2>1. Resizes(s, r, leaf, Len(list))
    BY <1>1, <1>2, ReenteredAndCountedIs
  <2> QED BY <1>1, <2>1
<1> HIDE DEF r
<1>5. Resizes(s, removed, leaf, count)
  <2>1. IsTree(r)
    BY <1>4 DEF Resizes, Resized, Kept
  <2>2. Kept(r, removed) /\ removed.nodes = r.nodes
    BY <2>1, ForgetIs
  <2> HIDE DEF removed
  <2> QED BY <1>4, <2>2, SameNodesResize
<1> HIDE DEF removed
<1>6. Resizes(s, d, leaf, count)
  <2>1. IsTree(removed) /\ leaf \in Ids(removed)
    BY <1>5 DEF Resizes, Resized, Kept
  <2>2. Alike(removed, UpdateMinKeyInAncestors(removed, leaf))
    BY <2>1, UpdateMinKeyIs
  <2>3. Resizes(s, UpdateMinKeyInAncestors(removed, leaf), leaf, count)
    BY <1>5, <2>2, AlikeResizes
  <2> QED BY <1>5, <2>3
<1> HIDE DEF d
<1> QED BY <1>3, <1>6 DEF count

LEMMA SpliceIs ==
  ASSUME NEW s, IsTree(s), NEW leaf \in Ids(s), IsLeaf(s, leaf),
         NEW first \in 1..Len(Entries(s, leaf)), NEW last \in first..Len(Entries(s, leaf))
  PROVE  Resizes(s, Splice(s, leaf, first, last), leaf,
                 Len(Entries(s, leaf)) - (last - first + 1))
<1> DEFINE old == Entries(s, leaf)
           front == SubSeq(old, 1, first - 1)
           back == SubSeq(old, last + 1, Len(old))
           list == front \o back
           c == [s EXCEPT !.entryCount = s.entryCount - (last - first + 1)]
           r == [c EXCEPT !.nodes[leaf].entries = list]
           gone == {old[i].entryId : i \in first..last}
           cut == Forget(r, gone)
           d == Splice(s, leaf, first, last)
           count == Len(old) - (last - first + 1)
<1>1. list \in Seq(NewEntries) /\ Len(list) = count
  <2>1. old \in Seq(NewEntries)
    BY NodesAre
  <2>2. front \in Seq(NewEntries) /\ Len(front) = first - 1
    <3> HIDE DEF old
    <3> QED BY <2>1, PieceIs DEF old
  <2>3. back \in Seq(NewEntries) /\ Len(back) = Len(old) - last
    <3>1. first \in 1..Len(old) /\ last \in first..Len(old)
      OBVIOUS
    <3> HIDE DEF old
    <3>2. /\ SubSeq(old, last + 1, Len(old)) \in Seq(NewEntries)
          /\ Len(SubSeq(old, last + 1, Len(old))) = Len(old) - (last + 1) + 1
      BY <2>1, <3>1, PieceIs
    <3> QED BY <2>1, <3>1, <3>2
  <2>4. first \in Int /\ last \in Int /\ Len(old) \in Int
    BY <2>1
  <2> HIDE DEF front, back, old
  <2>5. list \in Seq(NewEntries) /\ Len(list) = Len(front) + Len(back)
    BY <2>2, <2>3, JoinIs
  <2> QED BY <2>2, <2>3, <2>4, <2>5
<1>2. Kept(s, c) /\ c.nodes = s.nodes
  <2> DEFINE b == s.entryCount - (last - first + 1)
             made == [s EXCEPT !.entryCount = b]
  <2> HIDE DEF b
  <2>1. Kept(s, made) /\ made.nodes = s.nodes
    BY CountersAre
  <2> QED BY <2>1 DEF b
<1>3. d = IF first = 1 THEN UpdateMinKeyInAncestors(cut, leaf) ELSE cut
  <2>1. [s EXCEPT !.nodes[leaf].entries = SubSeq(@, 1, first - 1) \o SubSeq(@, last + 1, Len(@)),
                  !.entryCount = @ - (last - first + 1)] = r
    BY DEF IsTree, Ids, Entries
  <2> HIDE DEF r
  <2> QED BY <2>1 DEF Splice
<1> HIDE DEF list, c, count, gone, d
<1>4. Resizes(s, r, leaf, count)
  <2>1. Resizes(s, r, leaf, Len(list))
    BY <1>1, <1>2, ReenteredAndCountedIs
  <2> QED BY <1>1, <2>1
<1> HIDE DEF r
<1>5. Resizes(s, cut, leaf, count)
  <2>1. IsTree(r)
    BY <1>4 DEF Resizes, Resized, Kept
  <2>2. Kept(r, cut) /\ cut.nodes = r.nodes
    BY <2>1, ForgetIs
  <2> HIDE DEF cut
  <2> QED BY <1>4, <2>2, SameNodesResize
<1> HIDE DEF cut
<1>6. Resizes(s, d, leaf, count)
  <2>1. IsTree(cut) /\ leaf \in Ids(cut)
    BY <1>5 DEF Resizes, Resized, Kept
  <2>2. Alike(cut, UpdateMinKeyInAncestors(cut, leaf))
    BY <2>1, UpdateMinKeyIs
  <2>3. Resizes(s, UpdateMinKeyInAncestors(cut, leaf), leaf, count)
    BY <1>5, <2>2, AlikeResizes
  <2> QED BY <1>3, <1>5, <2>3
<1> QED BY <1>6 DEF count, d

(* One entry of a leaf is now an entry of another one. *)
Trades(s, t, leaf, from) ==
    /\ Resized(s, t, {leaf, from}) /\ IsLeaf(t, leaf) /\ IsLeaf(t, from)
    /\ Len(Entries(t, leaf)) = Len(Entries(s, leaf)) + 1
    /\ Len(Entries(t, from)) = Len(Entries(s, from)) - 1

LEMMA TwoReenteredTrade ==
  ASSUME NEW s, IsTree(s), NEW leaf \in Ids(s), NEW from \in Ids(s), leaf # from,
         IsLeaf(s, leaf), IsLeaf(s, from),
         NEW more \in Seq(NewEntries), Len(more) = Len(Entries(s, leaf)) + 1,
         NEW less \in Seq(NewEntries), Len(less) = Len(Entries(s, from)) - 1
  PROVE  Trades(s, [s EXCEPT !.nodes[leaf].entries = more, !.nodes[from].entries = less], leaf, from)
<1> DEFINE m == [s EXCEPT !.nodes[leaf].entries = more]
           t == [m EXCEPT !.nodes[from].entries = less]
           both == [s EXCEPT !.nodes[leaf].entries = more, !.nodes[from].entries = less]
<1>1. both = t
  BY DEF IsTree, Ids
<1>2. Reentered(s, m, leaf, more)
  BY EntriesAre
<1> HIDE DEF m, both
<1>3. IsTree(m) /\ from \in Ids(m) /\ IsLeaf(m, from) /\ Entries(m, leaf) = more /\ IsLeaf(m, leaf)
  BY <1>2 DEF Reentered, SameButNodes, SameContent
<1>4. Reentered(m, t, from, less)
  BY <1>3, EntriesAre
<1> HIDE DEF t
<1>5. Resized(s, m, {leaf, from}) /\ Resized(m, t, {leaf, from})
  BY <1>2, <1>3, <1>4, ReenteredIsResized
<1>6. Resized(s, t, {leaf, from})
  BY <1>5, ResizedTwice
<1>7. Entries(t, leaf) = more /\ IsLeaf(t, leaf)
  BY <1>2, <1>3, <1>4 DEF Reentered, SameContent
<1>8. Entries(t, from) = less /\ IsLeaf(t, from)
  BY <1>4 DEF Reentered
<1>9. Trades(s, both, leaf, from)
  BY <1>1, <1>6, <1>7, <1>8 DEF Trades
<1> QED BY <1>9 DEF both

LEMMA AlikeTrades ==
  ASSUME NEW s, NEW t, NEW u, NEW leaf \in Ids(s), NEW from \in Ids(s), Trades(s, t, leaf, from),
         Alike(t, u)
  PROVE  Trades(s, u, leaf, from)
<1>1. Resized(t, u, {leaf, from})
  BY AlikeIsResized
<1>2. Resized(s, u, {leaf, from})
  BY <1>1, ResizedTwice DEF Trades
<1>3. SameContent(t, u, leaf) /\ SameContent(t, u, from)
  BY DEF Alike, Trades, Resized
<1> QED BY <1>2, <1>3 DEF Trades, SameContent

LEMMA BorrowFromRightLeafIs ==
  ASSUME NEW s, IsTree(s), NEW leaf \in Ids(s), NEW right \in Ids(s), leaf # right,
         IsLeaf(s, leaf), IsLeaf(s, right), Len(Entries(s, right)) >= 2
  PROVE  Trades(s, BorrowFromRightLeaf(s, leaf, right), leaf, right)
<1> DEFINE own == Entries(s, leaf)
           theirs == Entries(s, right)
           more == Append(own, Head(theirs))
           less == Tail(theirs)
           given == [s EXCEPT !.nodes[leaf].entries = more, !.nodes[right].entries = less]
           cached == [given EXCEPT
                         !.nodes[Parent(s, leaf)].keys[Position(s, leaf) + 1] = MinKey(given, right)]
           t == BorrowFromRightLeaf(s, leaf, right)
<1>1. own \in Seq(NewEntries) /\ theirs \in Seq(NewEntries)
  BY NodesAre
<1>2. /\ more \in Seq(NewEntries) /\ Len(more) = Len(own) + 1
      /\ less \in Seq(NewEntries) /\ Len(less) = Len(theirs) - 1
  <2>1. Len(theirs) >= 2
    OBVIOUS
  <2> HIDE DEF own, theirs
  <2>2. more \in Seq(NewEntries) /\ Len(more) = Len(own) + 1
    BY <1>1, <2>1
  <2>3. less \in Seq(NewEntries) /\ Len(less) = Len(theirs) - 1
    BY <1>1, <2>1
  <2> QED BY <2>2, <2>3
<1>3. t = RefreshIfEmptied(cached, s, leaf)
  <2>1. /\ more = Append(s.nodes[leaf].entries, Head(Entries(s, right)))
        /\ less = Tail(s.nodes[right].entries)
    BY DEF Entries
  <2>2. [s EXCEPT !.nodes[leaf].entries = Append(@, Head(Entries(s, right))),
                  !.nodes[right].entries = Tail(@)] = given
    <3> HIDE DEF more, less
    <3> QED BY <2>1
  <2> HIDE DEF given
  <2> QED BY <2>2 DEF BorrowFromRightLeaf
<1> HIDE DEF more, less, t
<1>4. Trades(s, given, leaf, right)
  <2>1. more \in Seq(NewEntries) /\ Len(more) = Len(Entries(s, leaf)) + 1
    BY <1>2
  <2>2. less \in Seq(NewEntries) /\ Len(less) = Len(Entries(s, right)) - 1
    BY <1>2
  <2> QED BY <2>1, <2>2, TwoReenteredTrade
<1> HIDE DEF given
<1>5. Trades(s, cached, leaf, right)
  <2>1. IsTree(given) /\ right \in Ids(given) /\ IsLeaf(given, right)
        /\ Len(Entries(given, right)) = Len(theirs) - 1
    BY <1>4 DEF Trades, Resized, Kept
  <2>2a. NonEmpty(given, right)
    <3>1. Len(Entries(given, right)) >= 1
      BY <1>1, <2>1
    <3> QED BY <2>1, <3>1, NonEmptyIs
  <2>2. MinKey(given, right) \in NodeKeys
    BY <2>1, <2>2a, MinKeyIs
  <2>3. Alike(given, cached)
    BY <2>1, <2>2, OneKeyIs
  <2> HIDE DEF cached
  <2> QED BY <1>4, <2>3, AlikeTrades
<1> HIDE DEF cached
<1>6. Trades(s, t, leaf, right)
  <2>1. IsTree(cached) /\ leaf \in Ids(cached)
    BY <1>5 DEF Trades, Resized, Kept
  <2>2. Alike(cached, t)
    BY <1>3, <2>1, UpdateMinKeyIs, SameIsAlike DEF RefreshIfEmptied
  <2> QED BY <1>5, <2>2, AlikeTrades
<1> QED BY <1>6 DEF t

LEMMA BorrowFromLeftLeafIs ==
  ASSUME NEW s, IsTree(s), NEW leaf \in Ids(s), NEW left \in Ids(s), leaf # left,
         IsLeaf(s, leaf), IsLeaf(s, left), Len(Entries(s, left)) >= 2
  PROVE  Trades(s, BorrowFromLeftLeaf(s, leaf, left), leaf, left)
<1> DEFINE own == Entries(s, leaf)
           theirs == Entries(s, left)
           borrowed == Seqs!Last(theirs)
           more == <<borrowed>> \o own
           less == Seqs!Front(theirs)
           given == [s EXCEPT !.nodes[leaf].entries = more, !.nodes[left].entries = less]
           cached == [given EXCEPT
                         !.nodes[Parent(s, leaf)].keys[Position(s, leaf)] = NodeKey(borrowed)]
           t == BorrowFromLeftLeaf(s, leaf, left)
<1>1. own \in Seq(NewEntries) /\ theirs \in Seq(NewEntries)
  BY NodesAre
<1>2. /\ more \in Seq(NewEntries) /\ Len(more) = Len(own) + 1
      /\ less \in Seq(NewEntries) /\ Len(less) = Len(theirs) - 1
      /\ borrowed \in NewEntries
  <2>1. Len(theirs) > 0
    BY <1>1
  <2> HIDE DEF own, theirs
  <2>2. /\ less \in Seq(NewEntries) /\ Len(less) = Len(theirs) - 1 /\ borrowed \in NewEntries
    BY <1>1, <2>1, FrontIs
  <2> HIDE DEF borrowed, less
  <2>3. more \in Seq(NewEntries) /\ Len(more) = Len(own) + 1
    BY <1>1, <2>2
  <2> QED BY <2>2, <2>3
<1>3. t = UpdateMinKeyInAncestors(cached, leaf)
  <2> DEFINE p == Parent(s, leaf)
             i == Position(s, leaf)
             key == NodeKey(borrowed)
  <2>1. Entries(s, leaf) = s.nodes[leaf].entries /\ Seqs!Front(s.nodes[left].entries) = less
    BY DEF Entries
  <2>2. [s EXCEPT !.nodes[leaf].entries = <<borrowed>> \o @,
                  !.nodes[left].entries = Seqs!Front(@),
                  !.nodes[p].keys[i] = key] = cached
    <3> HIDE DEF borrowed, p, i, key
    <3> QED BY DEF IsTree, Ids, Entries, p, i, key
  <2> HIDE DEF cached
  <2> QED BY <2>2 DEF BorrowFromLeftLeaf
<1> HIDE DEF more, less, t, borrowed
<1>4. Trades(s, given, leaf, left)
  BY <1>2, TwoReenteredTrade
<1> HIDE DEF given
<1>5. Trades(s, cached, leaf, left)
  <2>1. IsTree(given)
    BY <1>4 DEF Trades, Resized, Kept
  <2>2. NodeKey(borrowed) \in NodeKeys
    BY <1>2, NewEntriesAssumption DEF NodeKey, NodeKeys
  <2>3. Alike(given, cached)
    BY <2>1, <2>2, OneKeyIs
  <2> HIDE DEF cached
  <2> QED BY <1>4, <2>3, AlikeTrades
<1> HIDE DEF cached
<1>6. Trades(s, t, leaf, left)
  <2>1. IsTree(cached) /\ leaf \in Ids(cached)
    BY <1>5 DEF Trades, Resized, Kept
  <2>2. Alike(cached, t)
    BY <1>3, <2>1, UpdateMinKeyIs
  <2> QED BY <1>5, <2>2, AlikeTrades
<1> QED BY <1>6 DEF t

LEMMA DetachLeafIs ==
  ASSUME NEW s, IsTree(s), NEW leaf \in Ids(s), IsLeaf(s, leaf)
  PROVE  Alike(s, DetachLeafFromChain(s, leaf))
<1> DEFINE prev == s.nodes[leaf].prev
           next == s.nodes[leaf].next
           fromLeft == CASE prev # None -> [s EXCEPT !.nodes[prev].next = next]
                         [] prev = None /\ next # None -> [s EXCEPT !.leftmostLeaf = next]
                         [] OTHER -> s
           fromRight == CASE next # None -> [fromLeft EXCEPT !.nodes[next].prev = prev]
                          [] next = None /\ prev # None -> [fromLeft EXCEPT !.rightmostLeaf = prev]
                          [] OTHER -> fromLeft
           unlinked == [fromRight EXCEPT !.nodes[leaf].prev = None]
           t == [unlinked EXCEPT !.nodes[leaf].next = None]
<1>1. prev \in Nat /\ next \in Nat /\ None \in Nat
  BY NodesAre DEF LeafNodes, None
<1>2. DetachLeafFromChain(s, leaf) = [fromRight EXCEPT !.nodes[leaf].prev = None,
                                                       !.nodes[leaf].next = None]
  BY DEF DetachLeafFromChain
<1> HIDE DEF prev, next
<1>3. Alike(s, fromLeft)
  BY <1>1, LinksAre, EndsAre, SameIsAlike
<1>4. IsTree(fromLeft)
  BY <1>3 DEF Alike, SameButNodes
<1> HIDE DEF fromLeft
<1>5. Alike(fromLeft, fromRight)
  BY <1>1, <1>4, LinksAre, EndsAre, SameIsAlike
<1>6. IsTree(fromRight)
  BY <1>5 DEF Alike, SameButNodes
<1> HIDE DEF fromRight
<1>7. Alike(fromRight, unlinked)
  BY <1>1, <1>6, LinksAre
<1>8. IsTree(unlinked)
  BY <1>7 DEF Alike, SameButNodes
<1>9. DetachLeafFromChain(s, leaf) = t
  BY <1>2
<1> HIDE DEF unlinked
<1>10. Alike(unlinked, t)
  BY <1>1, <1>8, LinksAre
<1> HIDE DEF t
<1> QED BY <1>3, <1>5, <1>7, <1>9, <1>10, AlikeTwice

LEMMA AbsorbLeafIs ==
  ASSUME NEW s, IsTree(s), NEW target \in Ids(s), NEW source \in Ids(s), target # source,
         IsLeaf(s, target), IsLeaf(s, source)
  PROVE  Resizes(s, AbsorbLeaf(s, target, source), target,
                 Len(Entries(s, target)) + Len(Entries(s, source)))
<1> DEFINE list == Entries(s, target) \o Entries(s, source)
           m == [s EXCEPT !.nodes[target].entries = list]
           t == DetachLeafFromChain(m, source)
           count == Len(Entries(s, target)) + Len(Entries(s, source))
<1>1. list \in Seq(NewEntries) /\ Len(list) = count
  <2>1. Entries(s, target) \in Seq(NewEntries) /\ Entries(s, source) \in Seq(NewEntries)
    BY NodesAre
  <2> QED BY <2>1, JoinIs
<1>2. AbsorbLeaf(s, target, source) = t
  <2>1. [s EXCEPT !.nodes[target].entries = @ \o Entries(s, source)] = m
    BY DEF IsTree, Ids, Entries
  <2> HIDE DEF m
  <2> QED BY <2>1 DEF AbsorbLeaf
<1> HIDE DEF list, t, count
<1>3. Reentered(s, m, target, list)
  BY <1>1, EntriesAre
<1> HIDE DEF m
<1>4. Resizes(s, m, target, count)
  <2>1. Resized(s, m, {target})
    BY <1>3, ReenteredIsResized
  <2> QED BY <1>1, <1>3, <2>1 DEF Reentered, Resizes
<1>5. Alike(m, t)
  <2>1. IsTree(m) /\ source \in Ids(m) /\ IsLeaf(m, source)
    BY <1>3 DEF Reentered, SameButNodes, SameContent
  <2> QED BY <2>1, DetachLeafIs DEF t
<1>6. Resizes(s, t, target, count)
  BY <1>4, <1>5, AlikeResizes
<1> QED BY <1>2, <1>6 DEF count
=============================================================================
