----------------------------- MODULE Integrity -----------------------------
(***************************************************************************)
(* assertInvariants and getStats, the two walks over the whole tree.  The    *)
(* first is what the tests of the repository and the users of the library    *)
(* trust to find a broken tree, so it is translated check by check and asked *)
(* about trees that are broken in one place, not only about reachable ones.  *)
(* The checks of the comparator always pass here: keys are integers.         *)
(***************************************************************************)
EXTENDS BPlusTree

-----------------------------------------------------------------------------
(* integrity.ts.  A report is what validateNode returns; valid is FALSE when *)
(* it throws.                                                                *)

Increasing(seq) == \A i \in 2..Len(seq) : Precedes(seq[i - 1], seq[i])
SameKeyAllowed(d, e) == DuplicateKeys = "allow" \/ d.key # e.key

(* validateLeafNodeOrdering *)
LeafIsOrdered(s, leaf) ==
    LET entries == Entries(s, leaf)
    IN  /\ Increasing(entries)
        /\ \A i \in 2..Len(entries) : SameKeyAllowed(entries[i - 1], entries[i])
        /\ Len(entries) <= s.maxLeafEntries

ValidateLeaf(s, leaf, depth) ==
    LET entries == Entries(s, leaf)
    IN  [valid |-> /\ LeafIsOrdered(s, leaf)
                   /\ leaf = s.root \/ Len(entries) >= LeastLeafEntries(s),
         minKey |-> MinKey(s, leaf),
         maxKey |-> IF entries = <<>> THEN Null ELSE NodeKey(Seqs!Last(entries)),
         leafDepth |-> depth, leafCount |-> 1, entryCount |-> Len(entries)]

ValidateBranchStructure(s, b) ==
    LET liveCount == Len(Children(s, b))
    IN  /\ liveCount > 0 /\ liveCount <= s.maxBranchChildren
        /\ b = s.root \/ liveCount >= LeastBranchChildren(s)
        /\ Len(s.nodes[b].keys) = liveCount

(* The i-th child: it points back, is not empty and is known by its key. *)
ValidateBranchChild(s, b, i, report) ==
    LET child == Children(s, b)[i]
    IN  /\ Parent(s, child) = b /\ Position(s, child) = i
        /\ report.valid /\ report.minKey # Null
        /\ s.nodes[b].keys[i] = MinKey(s, child)

(* mergeChildValidation over all children. *)
ChildrenFit(reports) ==
    /\ \A i, j \in DOMAIN reports : reports[i].leafDepth = reports[j].leafDepth
    /\ \A i \in 2..Len(reports) : Precedes(reports[i - 1].maxKey, reports[i].minKey)

Total(reports, Count1(_)) == Seqs!FoldLeft(LAMBDA sum, r : sum + Count1(r), 0, reports)
MergeReports(reports, valid) ==
    [valid |-> valid, minKey |-> Head(reports).minKey, maxKey |-> Seqs!Last(reports).maxKey,
     leafDepth |-> Head(reports).leafDepth,
     leafCount |-> Total(reports, LAMBDA r : r.leafCount),
     entryCount |-> Total(reports, LAMBDA r : r.entryCount)]

Unsound == [valid |-> FALSE, minKey |-> Null, maxKey |-> Null,
            leafDepth |-> 0, leafCount |-> 0, entryCount |-> 0]

RECURSIVE ValidateNode(_, _, _)
ValidateBranch(s, b, reports) ==
    IF \E i \in DOMAIN reports : ~ValidateBranchChild(s, b, i, reports[i]) THEN Unsound
    ELSE MergeReports(reports, ChildrenFit(reports))
ValidateNode(s, n, depth) ==
    CASE IsLeaf(s, n) -> ValidateLeaf(s, n, depth)
      [] ~IsLeaf(s, n) /\ ~ValidateBranchStructure(s, n) -> Unsound
      [] OTHER -> ValidateBranch(s, n,
                      [i \in DOMAIN Children(s, n) |->
                          ValidateNode(s, Children(s, n)[i], depth + 1)])

-----------------------------------------------------------------------------
(* integrity-helpers.ts *)

(* validateAdjacentLeafOrdering *)
AdjacentLeavesAreOrdered(s, previous, cursor) ==
    LET last == Seqs!Last(Entries(s, previous))
        first == Head(Entries(s, cursor))
    IN  /\ Entries(s, previous) # <<>> /\ Entries(s, cursor) # <<>>
        /\ ~Precedes(first, last)
        /\ SameKeyAllowed(last, first)

(* Faulty variant of ValidateLeafChainStep: prev is not compared. *)
StepIgnoresPrev(s, cursor, walked) ==
    /\ IsLeaf(s, cursor)
    /\ \A i \in DOMAIN walked : walked[i] # cursor
    /\ walked # <<>> => AdjacentLeavesAreOrdered(s, Seqs!Last(walked), cursor)

ValidateLeafChainStep(s, cursor, walked) ==
    /\ IsLeaf(s, cursor)
    /\ \A i \in DOMAIN walked : walked[i] # cursor
    /\ PrevLeaf(s, cursor) = IF walked = <<>> THEN None ELSE Seqs!Last(walked)
    /\ walked # <<>> => AdjacentLeavesAreOrdered(s, Seqs!Last(walked), cursor)

(* The leaves walked when the chain ends, Null when a step throws. *)
RECURSIVE WalkLeafLinks(_, _, _)
WalkLeafLinks(s, cursor, walked) ==
    CASE cursor = None -> walked
      [] cursor # None /\ ~ValidateLeafChainStep(s, cursor, walked) -> Null
      [] OTHER -> WalkLeafLinks(s, NextLeaf(s, cursor), Append(walked, cursor))

WalkedAll(walked, last, expectedLeafCount) ==
    walked # Null /\ Seqs!Last(walked) = last /\ Len(walked) = expectedLeafCount

ValidateLeafLinks(s, expectedLeafCount) ==
    IF s.entryCount = 0
    THEN IsLeaf(s, s.root) /\ s.leftmostLeaf = s.root /\ s.rightmostLeaf = s.root
    ELSE /\ PrevLeaf(s, s.leftmostLeaf) = None /\ NextLeaf(s, s.rightmostLeaf) = None
         /\ WalkedAll(WalkLeafLinks(s, s.leftmostLeaf, <<>>), s.rightmostLeaf, expectedLeafCount)

Accepts(s, report) ==
    /\ report.valid
    /\ report.entryCount = s.entryCount
    /\ ValidateLeafLinks(s, report.leafCount)
AssertInvariants(s) == Accepts(s, ValidateNode(s, s.root, 0))

-----------------------------------------------------------------------------
(* stats.ts *)

MaxOf(counts) == Seqs!FoldLeft(Larger, 0, counts)
RECURSIVE CollectStats(_, _)
MergeStats(below) ==
    [height |-> 1 + MaxOf([i \in DOMAIN below |-> below[i].height]),
     leafCount |-> Total(below, LAMBDA r : r.leafCount),
     branchCount |-> 1 + Total(below, LAMBDA r : r.branchCount)]
CollectStats(s, n) ==
    IF IsLeaf(s, n) THEN [height |-> 1, leafCount |-> 1, branchCount |-> 0]
    ELSE MergeStats([i \in DOMAIN Children(s, n) |-> CollectStats(s, Children(s, n)[i])])

GetStats(s) == CollectStats(s, s.root) @@ [entryCount |-> s.entryCount]

-----------------------------------------------------------------------------
(* Trees that differ from s in one place, as a bug or a caller that reaches   *)
(* into the nodes would leave them.                                          *)

Without(s, n, i) == [s EXCEPT !.nodes[n].entries = Seqs!RemoveAt(@, i)]
Moved(s, n, i) ==
    [Without(s, n, i) EXCEPT !.nodes[NextLeaf(s, n)].entries = <<Entries(s, n)[i]>> \o @]
Rekeyed(s, n, i, key) == [s EXCEPT !.nodes[n].entries[i].key = key]

DamagedLeaf(s, n) ==
    LET others == {None} \union {l \in NodesOf(s) : l # n /\ IsLeaf(s, l)}
    IN  {[s EXCEPT !.nodes[n].prev = l] : l \in others}
        \union {[s EXCEPT !.nodes[n].next = l] : l \in others}
        \union {Without(s, n, i) : i \in 1..Count(s, n)}
        \union {Moved(s, n, i) : i \in {j \in 1..Count(s, n) : NextLeaf(s, n) # None}}
        \union {Rekeyed(s, n, p[1], p[2]) : p \in (1..Count(s, n)) \X Probes}

DamagedChild(s, n) ==
    {[s EXCEPT !.nodes[n].parent = b] : b \in {None} \union Branches(s)}
    \union {[s EXCEPT !.nodes[n].indexInParent = i] : i \in 0..s.maxBranchChildren}
    \union {[s EXCEPT !.nodes[Parent(s, n)].keys[Position(s, n)] = [key |-> k, entryId |-> id]] :
                k \in Probes, id \in {0, s.nextSequence}}

DamagedState(s) ==
    {[s EXCEPT !.leftmostLeaf = l] : l \in Seqs!ToSet(Leaves(s))}
    \union {[s EXCEPT !.rightmostLeaf = l] : l \in Seqs!ToSet(Leaves(s))}
    \union {[s EXCEPT !.entryCount = c] : c \in 1..(s.entryCount + 1)}

Damaged(s) ==
    DamagedState(s)
    \union UNION {DamagedLeaf(s, n) : n \in Seqs!ToSet(Leaves(s))}
    \union UNION {DamagedChild(s, n) : n \in NodesOf(s) \ {s.root}}

Sound(s) ==
    /\ PointersAgreeIn(s) /\ KeysGuideTheDescentIn(s) /\ OccupancyIsKeptIn(s)
    /\ LET entries == Contents(s)
       IN  /\ s.entryCount = Len(entries)
           /\ \A i \in 2..Len(entries) : SameKeyAllowed(entries[i - 1], entries[i])

(* After any sequence of calls the tree is sound: pointers, kept keys,       *)
(* order, occupancy, count and, under reject and replace, one entry per key. *)
TreeIsSound == Sound(state)

(* assertInvariants accepts every tree that calls can build, and of the      *)
(* trees damaged in one place exactly those that are still sound: its local  *)
(* checks together leave no broken pointer, order, occupancy or count unseen *)
(* (integrity.ts:279), and call nothing broken that is not.                  *)
AssertInvariantsDecides ==
    \A s \in {state} \union Damaged(state) : AssertInvariants(s) = Sound(s)

(* The lookups answer what a search of all entries would answer, and         *)
(* getStats counts what a look at all nodes counts, after any change of the  *)
(* height (stats.ts:46).                                                     *)
QueriesAgree ==
    /\ LookupsAgree
    /\ GetStats(state) =
          [height |-> 1 + (CHOOSE d \in LeafDepths(state, state.root) : TRUE),
           leafCount |-> Len(Leaves(state)), branchCount |-> Cardinality(Branches(state)),
           entryCount |-> Len(Contents(state))]
=============================================================================
