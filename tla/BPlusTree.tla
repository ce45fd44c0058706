----------------------------- MODULE BPlusTree -----------------------------
(***************************************************************************)
(* InMemoryBTree with its nodes: every mutating call as the code carries it  *)
(* out on the B+ tree of Nodes.tla, and the lookups.  state is BTreeState    *)
(* without _cursor, the object in which a lookup hands its answer to its     *)
(* caller.  A call takes a tree and yields what OrderedTree.tla calls an     *)
(* outcome: the next tree, the result and whether it threw.                  *)
(***************************************************************************)
EXTENDS Nodes, TLC

CONSTANTS
    Mutations, Cloning, \* the calls the callers make (InMemoryBTree.tla)
    Probes              \* the keys the lookups are asked for

ASSUME MutationsAssumption == \A m \in Mutations : IsMutation(m)

VARIABLE state

-----------------------------------------------------------------------------
(* navigation.ts.  A target is a key and a sequence; a place is a leaf and   *)
(* the index of an entry in it, from 1.  The binary searches are given by    *)
(* what they find in ordered keys (KeysGuideTheDescent).                     *)

Target(key, sequence) == [key |-> key, entryId |-> sequence]
First(key) == Target(key, 0)
Last(key) == Target(key, MaxSequence)
Place(leaf, index) == [leaf |-> leaf, index |-> index]
Count(s, leaf) == Len(Entries(s, leaf))
IsPlace(s, at) == at # Null /\ at.index \in 1..Count(s, at.leaf)
EntryAt(s, at) == Entries(s, at.leaf)[at.index]
NextLeaf(s, leaf) == s.nodes[leaf].next
PrevLeaf(s, leaf) == s.nodes[leaf].prev

(* The last child whose key is not beyond the target, or the first child. *)
SelectBranchChild(s, b, target) ==
    LET within == {i \in DOMAIN Children(s, b) : ~Precedes(target, s.nodes[b].keys[i])}
    IN  Children(s, b)[Larger(1, Cardinality(within))]

RECURSIVE Descend(_, _, _)
Descend(s, n, target) ==
    IF IsLeaf(s, n) THEN n ELSE Descend(s, SelectBranchChild(s, n, target), target)
FindLeafForKey(s, target) == Descend(s, s.root, target)

(* How many entries of the leaf come before, or not after, the target. *)
LowerBound(s, leaf, target) ==
    Cardinality({i \in 1..Count(s, leaf) : Precedes(Entries(s, leaf)[i], target)})
UpperBound(s, leaf, target) ==
    Cardinality({i \in 1..Count(s, leaf) : ~Precedes(target, Entries(s, leaf)[i])})

(* 32 - Math.clz32(n), below 2^32. *)
BitLength(n) == CHOOSE b \in 0..32 : 2^b > n /\ (b = 0 \/ 2^(b - 1) <= n)

(* Faulty variant of WalkFromHint: the walk ends where the budget does.      *)
RECURSIVE WalkWithinBudget(_, _, _, _)
WalkWithinBudget(s, leaf, target, budget) ==
    LET next == NextLeaf(s, leaf)
    IN  IF budget > 0 /\ next # None /\ ~Precedes(target, Head(Entries(s, next)))
        THEN WalkWithinBudget(s, next, target, budget - 1) ELSE leaf

(* From the leaf of the previous entry along the chain while the target is   *)
(* not before the next leaf, for so many leaves, and then from the root.     *)
RECURSIVE WalkFromHint(_, _, _, _)
WalkFromHint(s, leaf, target, budget) ==
    LET next == NextLeaf(s, leaf)
        follows == /\ next # None /\ Entries(s, next) # <<>>
                   /\ ~Precedes(target, Head(Entries(s, next)))
    IN  CASE ~follows -> leaf
          [] follows /\ budget > 0 -> WalkFromHint(s, next, target, budget - 1)
          [] OTHER -> FindLeafForKey(s, target)
FindLeafFromHint(s, hint, target) ==
    WalkFromHint(s, hint, target, BitLength(s.entryCount + 1))

(* Faulty variant of FindFirstMatchingUserKey: the next leaf is not looked at. *)
FindFirstInLeaf(s, key) ==
    LET leaf == FindLeafForKey(s, First(key))
        here == Place(leaf, LowerBound(s, leaf, First(key)) + 1)
    IN  IF IsPlace(s, here) /\ EntryAt(s, here).key = key THEN here ELSE Null

FindFirstMatchingUserKey(s, key) ==
    LET leaf == FindLeafForKey(s, First(key))
        here == Place(leaf, LowerBound(s, leaf, First(key)) + 1)
        next == NextLeaf(s, leaf)
        at == CASE IsPlace(s, here) -> here
                [] ~IsPlace(s, here) /\ next # None ->
                     Place(next, LowerBound(s, next, First(key)) + 1)
                [] OTHER -> Null
    IN  IF s.entryCount # 0 /\ IsPlace(s, at) /\ EntryAt(s, at).key = key THEN at ELSE Null

FindLastMatchingUserKey(s, key) ==
    LET leaf == FindLeafForKey(s, Last(key))
        index == UpperBound(s, leaf, Last(key))
        prev == PrevLeaf(s, leaf)
        at == CASE index > 0 -> Place(leaf, index)
                [] index = 0 /\ prev # None -> Place(prev, Count(s, prev))
                [] OTHER -> Null
    IN  IF s.entryCount # 0 /\ IsPlace(s, at) /\ EntryAt(s, at).key = key THEN at ELSE Null

(* The entries from a place on, and those up to a place, along the chain. *)
RECURSIVE EntriesFrom(_, _, _)
EntriesFrom(s, leaf, index) ==
    IF leaf = None THEN <<>>
    ELSE SubSeq(Entries(s, leaf), index, Count(s, leaf)) \o EntriesFrom(s, NextLeaf(s, leaf), 1)
RECURSIVE EntriesUpTo(_, _, _)
EntriesUpTo(s, leaf, index) ==
    IF leaf = None THEN <<>>
    ELSE LET prev == PrevLeaf(s, leaf)
         IN  EntriesUpTo(s, prev, IF prev = None THEN 0 ELSE Count(s, prev))
                 \o SubSeq(Entries(s, leaf), 1, index)

(* Faulty variant of FindNextHigherKey: only the leaf of the key is scanned. *)
NextHigherInLeaf(s, key) ==
    LET leaf == FindLeafForKey(s, Last(key))
        at == Place(leaf, UpperBound(s, leaf, Last(key)) + 1)
    IN  IF IsPlace(s, at) THEN EntryAt(s, at).key ELSE Null

FindNextHigherKey(s, key) ==
    LET leaf == FindLeafForKey(s, Last(key))
        Higher(e) == e.key > key
        scan == SelectSeq(EntriesFrom(s, leaf, UpperBound(s, leaf, Last(key)) + 1), Higher)
    IN  IF s.entryCount = 0 \/ scan = <<>> THEN Null ELSE Head(scan).key

FindNextLowerKey(s, key) ==
    LET leaf == FindLeafForKey(s, First(key))
        Lower(e) == e.key < key
        scan == SelectSeq(EntriesUpTo(s, leaf, LowerBound(s, leaf, First(key))), Lower)
    IN  IF s.entryCount = 0 \/ scan = <<>> THEN Null ELSE Seqs!Last(scan).key

(* The entry with the key, here or at the head of the next leaf, or else the *)
(* one before it, here or at the end of the previous leaf.                   *)
FindPairOrNextLower(s, key) ==
    LET leaf == FindLeafForKey(s, First(key))
        index == LowerBound(s, leaf, First(key))
        next == NextLeaf(s, leaf)
        prev == PrevLeaf(s, leaf)
        exact == IF index < Count(s, leaf) THEN Place(leaf, index + 1)
                 ELSE IF next # None THEN Place(next, LowerBound(s, next, First(key)) + 1)
                 ELSE Null
        lower == IF index > 0 THEN Place(leaf, index)
                 ELSE IF prev # None THEN Place(prev, Count(s, prev))
                 ELSE Null
    IN  CASE s.entryCount # 0 /\ IsPlace(s, exact) /\ EntryAt(s, exact).key = key -> exact
          [] s.entryCount # 0 /\ ~(IsPlace(s, exact) /\ EntryAt(s, exact).key = key)
               /\ IsPlace(s, lower) -> lower
          [] OTHER -> Null

-----------------------------------------------------------------------------
(* rangeQuery.ts *)

IsEmptyRange(r) ==
    \/ r.startKey > r.endKey
    \/ /\ r.startKey = r.endKey
       /\ r.options.lowerBound = "exclusive" /\ r.options.upperBound = "exclusive"

StartPlace(s, r) ==
    LET exclusive == r.options.lowerBound = "exclusive"
        target == IF exclusive THEN Last(r.startKey) ELSE First(r.startKey)
        leaf == FindLeafForKey(s, target)
    IN  Place(leaf, 1 + IF exclusive THEN UpperBound(s, leaf, target)
                                     ELSE LowerBound(s, leaf, target))

(* How many entries of the leaf the end of the range leaves in it. *)
FindBoundaryEnd(s, leaf, r) ==
    IF r.options.upperBound = "exclusive"
    THEN LowerBound(s, leaf, First(r.endKey)) ELSE UpperBound(s, leaf, Last(r.endKey))

RECURSIVE RangeFrom(_, _, _, _)
RangeFrom(s, leaf, index, r) ==
    LET end == FindBoundaryEnd(s, leaf, r)
        taken == SubSeq(Entries(s, leaf), index, end)
    IN  CASE leaf = None -> <<>>
          [] leaf # None /\ (index > Count(s, leaf) \/ end = Count(s, leaf)) ->
               taken \o RangeFrom(s, NextLeaf(s, leaf), 1, r)
          [] OTHER -> taken

RangeQueryPublicEntries(s, r) ==
    LET start == StartPlace(s, r)
    IN  IF s.entryCount = 0 \/ IsEmptyRange(r) THEN <<>>
        ELSE RangeFrom(s, start.leaf, start.index, r)

RECURSIVE CountFrom(_, _, _, _)
CountFrom(s, leaf, index, r) ==
    LET end == FindBoundaryEnd(s, leaf, r)
    IN  CASE leaf = None -> 0
          [] leaf # None /\ index > Count(s, leaf) -> CountFrom(s, NextLeaf(s, leaf), 1, r)
          [] leaf # None /\ index <= Count(s, leaf) /\ end = Count(s, leaf) ->
               end - index + 1 + CountFrom(s, NextLeaf(s, leaf), 1, r)
          [] OTHER -> end - index + 1

CountRangeEntries(s, r) ==
    LET start == StartPlace(s, r)
    IN  IF s.entryCount = 0 \/ IsEmptyRange(r) THEN 0
        ELSE CountFrom(s, start.leaf, start.index, r)

-----------------------------------------------------------------------------
(* mutations.ts and entry-lookup.ts *)

(* The calls in last position, up to the root. *)
RECURSIVE Finish(_)
Finish(s) == IF s.todo = Nothing THEN s ELSE Finish(Resume(s))

(* The entry in front of the insertion point, here or at the end of the      *)
(* previous leaf, when it has the key.                                       *)
FindDuplicateEntry(s, leaf, key, index) ==
    LET prev == PrevLeaf(s, leaf)
        at == CASE index > 1 -> Place(leaf, index - 1)
                [] index = 1 /\ prev # None -> Place(prev, Count(s, prev))
                [] OTHER -> Null
    IN  IF DuplicateKeys # "allow" /\ IsPlace(s, at) /\ EntryAt(s, at).key = key
        THEN at ELSE Null

(* Faulty variant of PutEntryIntoLeaf: the counter is checked first, also    *)
(* for an entry that is there to be replaced.                                *)
PutIfCounterAllows(s, leaf, key, value) ==
    LET id == s.nextSequence
        index == UpperBound(s, leaf, Target(key, id)) + 1
        hit == FindDuplicateEntry(s, leaf, key, index)
        new == [key |-> key, entryId |-> id, value |-> value]
    IN  CASE id >= MaxSequence \/ (hit # Null /\ DuplicateKeys = "reject") -> Thrown(s)
          [] id < MaxSequence /\ hit # Null /\ DuplicateKeys = "replace" ->
               Returned([s EXCEPT !.nodes[hit.leaf].entries[hit.index].value = value],
                        EntryAt(s, hit).entryId)
          [] OTHER -> Returned(MaybeAutoScale(Finish(AddEntry(s, leaf, index, new))), id)
PutEntryIntoLeaf(s, leaf, key, value) ==
    LET id == s.nextSequence
        index == UpperBound(s, leaf, Target(key, id)) + 1
        hit == FindDuplicateEntry(s, leaf, key, index)
        new == [key |-> key, entryId |-> id, value |-> value]
    IN  CASE hit # Null /\ DuplicateKeys = "reject" -> Thrown(s)
          [] hit # Null /\ DuplicateKeys = "replace" ->
               Returned([s EXCEPT !.nodes[hit.leaf].entries[hit.index].value = value],
                        EntryAt(s, hit).entryId)
          [] hit = Null /\ id >= MaxSequence -> Thrown(s)
          [] OTHER -> Returned(MaybeAutoScale(Finish(AddEntry(s, leaf, index, new))), id)

PutEntry(s, key, value) ==
    PutEntryIntoLeaf(s, FindLeafForKey(s, Target(key, s.nextSequence)), key, value)

TakeOut(s, at) == Returned(Finish(RemoveEntry(s, at.leaf, at.index)), EntryAt(s, at))

PopFirstEntry(s) ==
    CASE s.entryCount = 0 -> Returned(s, Null)
      [] s.entryCount # 0 /\ Count(s, s.leftmostLeaf) = 0 -> Thrown(Broken(s))
      [] OTHER -> TakeOut(s, Place(s.leftmostLeaf, 1))
PopLastEntry(s) ==
    CASE s.entryCount = 0 -> Returned(s, Null)
      [] s.entryCount # 0 /\ Count(s, s.rightmostLeaf) = 0 -> Thrown(Broken(s))
      [] OTHER -> TakeOut(s, Place(s.rightmostLeaf, Count(s, s.rightmostLeaf)))
RemoveFirstMatchingEntry(s, key) ==
    LET at == FindFirstMatchingUserKey(s, key)
    IN  IF at = Null THEN Returned(s, Null) ELSE TakeOut(s, at)

(* entryKeys gives the key, the key and the id give the place. *)
FindEntryById(s, id) ==
    LET target == Target(s.entryKeys[id], id)
        leaf == FindLeafForKey(s, target)
        at == Place(leaf, LowerBound(s, leaf, target) + 1)
    IN  IF id \in DOMAIN s.entryKeys /\ IsPlace(s, at) /\ EntryAt(s, at).entryId = id
        THEN at ELSE Null

RemoveEntryById(s, id) ==
    LET at == FindEntryById(s, id)
    IN  CASE ~EnableEntryIdLookup -> Thrown(s)
          [] EnableEntryIdLookup /\ at = Null -> Returned(s, Null)
          [] OTHER -> TakeOut(s, at)
UpdateEntryById(s, id, value) ==
    LET at == FindEntryById(s, id)
    IN  CASE ~EnableEntryIdLookup -> Thrown(s)
          [] EnableEntryIdLookup /\ at = Null -> Returned(s, Null)
          [] OTHER -> Returned([s EXCEPT !.nodes[at.leaf].entries[at.index].value = value],
                               [EntryAt(s, at) EXCEPT !.value = value])

-----------------------------------------------------------------------------
(* bulkLoad.ts and putManyEntries *)

Chunk(seq, ends, c) == SubSeq(seq, IF c = 1 THEN 1 ELSE ends[c - 1] + 1, ends[c])

(* The leaves take the names from 1 on: the node of the empty tree is gone.  *)
BuildLeaves(s, entries) ==
    LET ends == ComputeChunkBoundaries(Len(entries), s.maxLeafEntries, s.minLeafEntries)
    IN  [c \in DOMAIN ends |->
            [LeafNode(Chunk(entries, ends, c), None)
                EXCEPT !.prev = c - 1, !.next = IF c = Len(ends) THEN None ELSE c + 1]]

RECURSIVE BuildBranches(_, _)
BuildBranches(s, level) ==
    LET ends == ComputeChunkBoundaries(Len(level), s.maxBranchChildren, s.minBranchChildren)
        Build(built, c) == [tree |-> CreateBranchNode(built.tree, Chunk(level, ends, c), None),
                            level |-> Append(built.level, Fresh(built.tree))]
        above == Seqs!FoldLeftDomain(Build, [tree |-> s, level |-> <<>>], ends)
    IN  IF Len(level) = 1 THEN [s EXCEPT !.root = level[1]]
        ELSE BuildBranches(above.tree, above.level)

LoadedTree(s, entries) ==
    LET base == s.nextSequence
        new == [i \in DOMAIN entries |->
                   [key |-> entries[i].key, entryId |-> base + i - 1, value |-> entries[i].value]]
        leaves == BuildLeaves(s, new)
        known == Seqs!FoldLeft(Learn, s, new)
        loaded == [known EXCEPT !.nodes = leaves, !.nextSequence = base + Len(entries),
                                !.entryCount = Len(entries),
                                !.leftmostLeaf = 1, !.rightmostLeaf = Len(leaves)]
    IN  Returned(MaybeAutoScale(BuildBranches(loaded, [c \in DOMAIN leaves |-> c])),
                 [i \in DOMAIN new |-> new[i].entryId])

(* Faulty variant of BulkLoadEntries: the last id is never handed out.       *)
BulkLoadStopsEarly(s, entries) ==
    IF s.nextSequence + Len(entries) >= MaxSequence THEN Thrown(s) ELSE LoadedTree(s, entries)
BulkLoadEntries(s, entries) ==
    IF s.nextSequence + Len(entries) > MaxSequence THEN Thrown(s) ELSE LoadedTree(s, entries)

(* The hint is the leaf the previous entry went to, split or not. *)
AfterPut(done, put, leaf) ==
    IF put.threw THEN [done EXCEPT !.tree = put.tree, !.result = Null, !.threw = TRUE]
    ELSE [done EXCEPT !.tree = put.tree, !.result = Append(@, put.result), !.hint = leaf]

PutFromHint(done, e) ==
    LET leaf == FindLeafFromHint(done.tree, done.hint, Target(e.key, done.tree.nextSequence))
    IN  IF done.threw THEN done
        ELSE AfterPut(done, PutEntryIntoLeaf(done.tree, leaf, e.key, e.value), leaf)

PutEachFromHint(s, entries) ==
    LET hint == FindLeafForKey(s, Target(Head(entries).key, s.nextSequence))
        start == [tree |-> s, result |-> <<>>, threw |-> FALSE, hint |-> hint]
    IN  Seqs!Restrict(Seqs!FoldLeft(PutFromHint, start, entries), {"tree", "result", "threw"})

PutManyEntries(s, entries) ==
    CASE entries = <<>> -> Returned(s, <<>>)
      [] entries # <<>> /\ ~Ascending(entries) -> Thrown(s)
      [] entries # <<>> /\ Ascending(entries) /\ s.entryCount = 0 -> BulkLoadEntries(s, entries)
      [] OTHER -> PutEachFromHint(s, entries)

-----------------------------------------------------------------------------
(* deleteRange.ts *)

NavigateToStart(s, r) ==
    LET at == StartPlace(s, r)
        next == NextLeaf(s, at.leaf)
    IN  CASE IsPlace(s, at) -> at
          [] ~IsPlace(s, at) /\ next # None -> Place(next, 1)
          [] OTHER -> Null

(* A step borrows one entry or merges; guard bounds the number of steps.     *)
RECURSIVE Refill(_, _, _)
RefillFurther(s, leaf, guard) ==
    IF Parent(s, leaf) # None /\ ~IsLeafStillValid(s, leaf) THEN s ELSE Refill(s, leaf, guard)
Refill(s, leaf, guard) ==
    IF guard = 0 \/ leaf = s.root \/ Count(s, leaf) >= LeafRebalanceThreshold(s) THEN s
    ELSE RefillFurther(Finish(RebalanceAfterLeafRemoval(s, leaf)), leaf, guard - 1)

(* Whether rebalancing gave the leaf entries of a sibling; and the faulty    *)
(* variant that does not look.                                               *)
AssumeSettled(s, full, leaf) == FALSE
HasGrown(s, full, leaf) == Count(full, leaf) > Count(s, leaf)

(* One pass of the loop: from the cursor, or from the root when it is Null.  *)
(* A leaf that rebalancing took away, or that grew by entries of a sibling,  *)
(* is no place to go on from.                                                *)
RECURSIVE DeleteFrom(_, _, _, _)
GoOn(cut, full, leaf, r, deleted) ==
    CASE ~IsLeafStillValid(full, leaf) \/ HasGrown(cut, full, leaf) ->
           DeleteFrom(full, r, Null, deleted)
      [] IsLeafStillValid(full, leaf) /\ ~HasGrown(cut, full, leaf)
           /\ NextLeaf(full, leaf) = None -> Returned(full, deleted)
      [] OTHER -> DeleteFrom(full, r, Place(NextLeaf(full, leaf), 1), deleted)

DeleteUpTo(cut, leaf, ends, r, deleted) ==
    LET full == Refill(cut, leaf, cut.minLeafEntries + 4)
    IN  IF ends THEN Returned(full, deleted) ELSE GoOn(cut, full, leaf, r, deleted)

DeleteFrom(s, r, cursor, deleted) ==
    LET at == IF cursor = Null THEN NavigateToStart(s, r) ELSE cursor
        end == FindBoundaryEnd(s, at.leaf, r)
    IN  IF s.entryCount = 0 \/ ~IsPlace(s, at) \/ end < at.index THEN Returned(s, deleted)
        ELSE DeleteUpTo(Splice(s, at.leaf, at.index, end), at.leaf, end < Count(s, at.leaf), r,
                        deleted + end - at.index + 1)

DeleteRangeEntries(s, r) ==
    IF s.entryCount = 0 \/ IsEmptyRange(r) THEN Returned(s, 0) ELSE DeleteFrom(s, r, Null, 0)

-----------------------------------------------------------------------------
(* InMemoryBTree.ts *)

(* clone: the entries are loaded into a new tree, with new ids, after the    *)
(* capacities have been taken over.                                          *)
CloneTree(s) ==
    LET entries == EntriesFrom(s, s.leftmostLeaf, 1)
        new == WithCapacity(CreateInitialState, s.maxLeafEntries, s.maxBranchChildren)
    IN  IF s.entryCount > 0 THEN PutManyEntries(new, entries).tree ELSE new

Perform(s, m) ==
    CASE m.type = "put" -> PutEntry(s, m.key, m.value)
      [] m.type = "putMany" -> PutManyEntries(s, m.entries)
      [] m.type = "remove" -> RemoveFirstMatchingEntry(s, m.key)
      [] m.type = "removeById" -> RemoveEntryById(s, m.entryId)
      [] m.type = "updateById" -> UpdateEntryById(s, m.entryId, m.value)
      [] m.type = "popFirst" -> PopFirstEntry(s)
      [] m.type = "popLast" -> PopLastEntry(s)
      [] m.type = "deleteRange" -> DeleteRangeEntries(s, m)
      [] m.type = "clear" -> ClearTree(s)

(* The nodes a tree can reach, renamed in the order of a descent; a pointer  *)
(* to any other node shows as Dangling.                                      *)
Dangling == -1
RECURSIVE Subtree(_, _)
Subtree(s, n) ==
    <<n>> \o IF IsLeaf(s, n) THEN <<>>
             ELSE Seqs!FlattenSeq([i \in DOMAIN Children(s, n) |-> Subtree(s, Children(s, n)[i])])

Collect(s) ==
    LET order == Subtree(s, s.root)
        Name(n) == IF n = None THEN None
                   ELSE IF \E i \in DOMAIN order : order[i] = n
                   THEN CHOOSE i \in DOMAIN order : order[i] = n ELSE Dangling
        Renamed(n) ==
            IF n.kind = "leaf"
            THEN [n EXCEPT !.parent = Name(@), !.prev = Name(@), !.next = Name(@)]
            ELSE [n EXCEPT !.parent = Name(@),
                           !.children = [i \in DOMAIN @ |-> Name(@[i])]]
    IN  [s EXCEPT !.nodes = [i \in DOMAIN order |-> Renamed(s.nodes[order[i]])],
                  !.root = Name(@), !.leftmostLeaf = Name(@), !.rightmostLeaf = Name(@)]

Init == state = CreateInitialState

Call(m) == state' = Collect(Perform(state, m).tree)

Clone == Cloning /\ state' = Collect(CloneTree(state))

Next == Clone \/ \E m \in Mutations : Call(m)

Spec == Init /\ [][Next]_state

-----------------------------------------------------------------------------
(* What holds between two calls, of any tree s: Integrity.tla asks it of     *)
(* damaged trees too.  Leaves are in the order of a descent from the root.   *)

NodesOf(s) == Seqs!ToSet(Subtree(s, s.root))
Branches(s) == {n \in NodesOf(s) : ~IsLeaf(s, n)}
Leaves(s) == SelectSeq(Subtree(s, s.root), LAMBDA n : IsLeaf(s, n))
Contents(s) ==
    LET leaves == Leaves(s)
    IN  Seqs!FlattenSeq([i \in DOMAIN leaves |-> Entries(s, leaves[i])])
Abs(s) ==
    [entries |-> UNION {Seqs!ToSet(s.nodes[n].entries) : n \in {l \in DOMAIN s.nodes : IsLeaf(s, l)}},
     nextSequence |-> s.nextSequence]

RECURSIVE TrueMinKey(_, _)
TrueMinKey(s, n) ==
    IF IsLeaf(s, n) THEN MinKey(s, n) ELSE TrueMinKey(s, Head(Children(s, n)))

(* The depths at which a descent from n meets leaves. *)
RECURSIVE LeafDepths(_, _)
LeafDepths(s, n) ==
    IF IsLeaf(s, n) THEN {0}
    ELSE UNION {{d + 1 : d \in LeafDepths(s, c)} : c \in Seqs!ToSet(Children(s, n))}

PointersAgreeIn(s) ==
    /\ Parent(s, s.root) = None
    /\ Cardinality(LeafDepths(s, s.root)) = 1
    /\ \A b \in Branches(s) : \A i \in DOMAIN Children(s, b) :
          LET child == s.nodes[Children(s, b)[i]]
          IN  child.parent = b /\ child.indexInParent = s.nodes[b].childOffset + i - 1
    /\ LET chain == Leaves(s)
       IN  /\ s.leftmostLeaf = Head(chain) /\ s.rightmostLeaf = Seqs!Last(chain)
           /\ \A i \in DOMAIN chain :
                 /\ PrevLeaf(s, chain[i]) = IF i = 1 THEN None ELSE chain[i - 1]
                 /\ NextLeaf(s, chain[i]) = IF i = Len(chain) THEN None ELSE chain[i + 1]

(* Every pointer has its counterpart: a child its parent and its slot there, *)
(* a leaf its neighbours, the tree its first and last leaf, and every leaf   *)
(* is equally deep (integrity.ts), after any split, borrow, merge, collapse  *)
(* or load.                                                                  *)
PointersAgree == PointersAgreeIn(state)

KeysGuideTheDescentIn(s) ==
    /\ \A b \in Branches(s) : \A i \in DOMAIN Children(s, b) :
          s.nodes[b].keys[i] = TrueMinKey(s, Children(s, b)[i])
    /\ LET entries == Contents(s)
       IN  \A i \in 2..Len(entries) : Precedes(entries[i - 1], entries[i])

(* The keys a branch keeps are the least keys below its children, and the    *)
(* entries are in order from the first leaf to the last: a descent that      *)
(* compares with the kept keys alone finds the leaf (navigation.ts:12,       *)
(* updateMinKeyInAncestors).                                                 *)
KeysGuideTheDescent == KeysGuideTheDescentIn(state)

(* The minimum that is checked: with autoScale that of the first tier, since *)
(* scaling up leaves nodes as they are; for leaves the lazy one if lazy.     *)
LeastBranchChildren(s) == IF AutoScale THEN Half(Tiers[1].maxBranch) ELSE s.minBranchChildren
LeastLeafEntries(s) ==
    LET min == IF AutoScale THEN Half(Tiers[1].maxLeaf) ELSE s.minLeafEntries
    IN  IF DeleteRebalancePolicy = "lazy" THEN LazyThreshold(min) ELSE min

OccupancyIsKeptIn(s) ==
    \A n \in NodesOf(s) :
        IF IsLeaf(s, n)
        THEN Count(s, n) \in (IF n = s.root THEN 0 ELSE LeastLeafEntries(s))..s.maxLeafEntries
        ELSE Len(Children(s, n)) \in
               (IF n = s.root THEN 2 ELSE LeastBranchChildren(s))..s.maxBranchChildren

(* No node is fuller than the capacity, and none but the root emptier than   *)
(* the minimum.  The root has two children or is a leaf.                     *)
OccupancyIsKept == OccupancyIsKeptIn(state)

(* The counter and the id index say what the leaves say, the capacities are  *)
(* no smaller than the size asks for and will follow it up, whatever was     *)
(* cleared, cloned or loaded, and the code has met none of the states it     *)
(* takes for impossible (BTreeInvariantError).                               *)
BookkeepingAgrees ==
    LET entries == Contents(state)
    IN  /\ ~state.broken
        /\ state.entryCount = Len(entries)
        /\ \A i \in DOMAIN entries : entries[i].entryId < state.nextSequence
        /\ EnableEntryIdLookup =>
              /\ DOMAIN state.entryKeys = {entries[i].entryId : i \in DOMAIN entries}
              /\ \A i \in DOMAIN entries : state.entryKeys[entries[i].entryId] = entries[i].key
        /\ \/ state.entryCount < state.nextAutoScaleThreshold
           \/ state.nextAutoScaleThreshold = NoThreshold
        /\ AutoScale =>
              LET tier == ComputeAutoScaleTier(state.entryCount)
              IN  /\ state.maxLeafEntries >= tier.maxLeaf
                  /\ state.maxBranchChildren >= tier.maxBranch

(* Any call, on any tree that calls can build, has the result of the ordered *)
(* tree and throws when that throws; and so does the tree it leaves, entry   *)
(* for entry, a half-done putMany included.                                  *)
EveryCallDoesWhatItPromises ==
    \A m \in Mutations :
        LET done == Perform(state, m)
        IN  [done EXCEPT !.tree = Abs(Collect(@))] = Apply(Abs(state), m)

(* Every lookup answers from one leaf, or from it and a neighbour, what a    *)
(* search of all entries would answer; a range comes in order, complete and   *)
(* counted.                                                                  *)
LookupsAgree ==
    LET t == Abs(state)
        Found(at) == IF at = Null THEN Null ELSE EntryAt(state, at)
        KeyOf(e) == IF e = Null THEN Null ELSE e.key
        Lower(k) == {e \in t.entries : e.key < k}
    IN  /\ \A k \in Probes :
              /\ Found(FindFirstMatchingUserKey(state, k)) = FirstOf(Matching(t, k))
              /\ Found(FindLastMatchingUserKey(state, k)) = LastOf(Matching(t, k))
              /\ FindNextHigherKey(state, k) = KeyOf(FirstOf({e \in t.entries : e.key > k}))
              /\ FindNextLowerKey(state, k) = KeyOf(LastOf(Lower(k)))
              /\ Found(FindPairOrNextLower(state, k)) =
                     IF HasKey(t, k) THEN FirstOf(Matching(t, k)) ELSE LastOf(Lower(k))
        /\ \A r \in {m \in Mutations : m.type = "deleteRange"} :
              LET found == RangeQueryPublicEntries(state, r)
              IN  /\ Seqs!ToSet(found) = InRange(t, r.startKey, r.endKey, r.options)
                  /\ CountRangeEntries(state, r) = Len(found)
                  /\ \A i \in 2..Len(found) : Precedes(found[i - 1], found[i])

PutEachEntry(s, entries) ==
    LET PutNext(done, e) ==
            LET put == PutEntry(done.tree, e.key, e.value)
            IN  CASE done.threw -> done
                  [] ~done.threw /\ put.threw -> Thrown(put.tree)
                  [] OTHER -> Returned(put.tree, Append(done.result, put.result))
    IN  Seqs!FoldLeft(PutNext, Returned(s, <<>>), entries)

(* putMany has the ids, the policy and the entries of one put per entry,     *)
(* whether it walks from a hint or, on an empty tree, loads in bulk; only    *)
(* when the counter runs out is the bulk load all or nothing                 *)
(* (mutations.ts:207-230).                                                   *)
PutManyIsPutEach ==
    \A m \in {n \in Mutations : n.type = "putMany" /\ Ascending(n.entries)} :
        LET many == PutManyEntries(state, m.entries)
            each == PutEachEntry(state, m.entries)
        IN  /\ many.threw = each.threw /\ many.result = each.result
            /\ Abs(Collect(many.tree)) = IF many.threw /\ state.entryCount = 0
                                         THEN Abs(state) ELSE Abs(Collect(each.tree))

(* Seen without its nodes the tree is the ordered tree of InMemoryBTree.tla: *)
(* every call, and clone, is a step of that specification.  So an id that    *)
(* has left the tree never comes back, not through clear, not through the    *)
(* bulk load of an emptied tree (InMemoryBTree.ts:152, bulkLoad.ts:81).      *)
Promised == INSTANCE InMemoryBTree WITH tree <- Abs(state)
ImplementsInMemoryBTree == Promised!Spec

(* The evaluators of writeOps.ts foresee what the nodes will do: at what     *)
(* they refuse the nodes throw, by what they skip the nodes are left as they *)
(* are, and what they append the nodes do as the ordered tree does, stopping *)
(* half way through a putMany included, and throw only when the counter is   *)
(* exhausted (mutations.ts:96, mutations.ts:213).                            *)
EvaluatorsForeseeTheNodes ==
    LET plain == Abs(state)
    IN  \A m \in Mutations :
            LET verdict == Evaluate(plain, m)
                done == Perform(state, m)
            IN  /\ verdict = "invalid" => done.threw
                /\ verdict = "nothing" => ~done.threw /\ Collect(done.tree) = state
                /\ verdict = "append" =>
                      /\ [done EXCEPT !.tree = Abs(Collect(@))] = Apply(plain, m)
                      /\ done.threw => Overflows(plain, m)
=============================================================================
