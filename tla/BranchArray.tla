---------------------------- MODULE BranchArray ----------------------------
(***************************************************************************)
(* The children and the keys of a branch in their two arrays (node-ops.ts,   *)
(* rebalance-branch.ts).  A child knows its parent and its slot there; a key *)
(* is an object that is written in place when the least key below the child  *)
(* changes, so that no other live slot may hold it, although copyWithin      *)
(* copies references.                                                        *)
(***************************************************************************)
EXTENDS Arrays, FiniteSets

CONSTANTS
    Children,           \* numbers for the nodes that are or were children
    KeyObjects,         \* numbers for the NodeKey objects
    NodeKeys,           \* what a NodeKey object may say
    MaxBranch           \* maxBranchChildren; the insertion that exceeds it splits

ASSUME MaxBranchAssumption == MaxBranch \in Nat /\ MaxBranch >= 3
(* There is always another node, and another key object, to be had.          *)
ASSUME NumbersAssumption ==
    /\ Children \subseteq Nat /\ KeyObjects \subseteq Nat
    /\ 1..(2 * MaxBranch) \subseteq Children /\ 1..(2 * MaxBranch) \subseteq KeyObjects
ASSUME NodeKeysAssumption == NodeKeys \subseteq Nat /\ NodeKeys # {}

VARIABLES
    branch,             \* [children, keys, childOffset]
    indexInParent,      \* of each child
    mine,               \* the nodes whose parent pointer is this branch
    keyOf,              \* what each NodeKey object says
    turn                \* the last call, for ArrayList.tla
branchVars == <<branch, indexInParent, mine, keyOf, turn>>

BranchChildCount(b) == Len(b.children) - b.childOffset
LiveSlots(b) == b.childOffset..(Len(b.children) - 1)
ChildIn(b, slot) == b.children[slot + 1]
KeyIn(b, slot) == b.keys[slot + 1]
LiveChildren(b) == {ChildIn(b, p) : p \in LiveSlots(b)}

(* Each child with the key that the branch keeps for it. *)
Link(n, k) == [child |-> n, key |-> k]
Links == [i \in 1..BranchChildCount(branch) |->
            LET slot == branch.childOffset + i - 1
            IN  Link(ChildIn(branch, slot), keyOf[KeyIn(branch, slot)])]

-----------------------------------------------------------------------------
(* The arrays. *)

(* The same is done to both of them. *)
Moved(b, target, start, end, offset) ==
    [children |-> CopyWithin(b.children, target, start, end),
     keys |-> CopyWithin(b.keys, target, start, end), childOffset |-> offset]
Cut(b, n) ==
    [children |-> Truncated(b.children, n), keys |-> Truncated(b.keys, n),
     childOffset |-> b.childOffset]
Put(b, slot, n, o) ==
    [children |-> [b.children EXCEPT ![slot + 1] = n],
     keys |-> [b.keys EXCEPT ![slot + 1] = o], childOffset |-> b.childOffset]
Spliced(b, slot, n, o) ==
    [children |-> Inserted(b.children, slot, n), keys |-> Inserted(b.keys, slot, o),
     childOffset |-> b.childOffset]

(* The children in the slots from first to last get their indexInParent.     *)
Arranged(b, first, last) ==
    [branch |-> b,
     index |-> [n \in Children |->
                  IF \E p \in first..last : ChildIn(b, p) = n
                  THEN CHOOSE p \in first..last : ChildIn(b, p) = n ELSE indexInParent[n]]]

(* Faulty variant of BranchCompacted: the children keep their old index. *)
CompactedInPlace(b) ==
    LET gap == IF b.childOffset <= 1 THEN 0 ELSE 1
        len == Len(b.children)
    IN  Arranged(Cut(Moved(b, gap, b.childOffset, len, gap), len - (b.childOffset - gap)), 0, -1)

(* BRANCH_COMPACT_GAP: one dead slot is left if there was more than one. *)
BranchCompacted(b) ==
    LET gap == IF b.childOffset <= 1 THEN 0 ELSE 1
        len == Len(b.children)
        left == len - (b.childOffset - gap)
    IN  IF b.childOffset = 0 THEN Arranged(b, 0, -1)
        ELSE Arranged(Cut(Moved(b, gap, b.childOffset, len, gap), left), gap, left - 1)

(* childOffset >= children.length >>> 1 *)
CompactedIfHalfDead(a) ==
    IF a.branch.childOffset >= Len(a.branch.children) \div 2
    THEN BranchCompacted(a.branch) ELSE a

(* Into a dead slot if there is one and the front is the shorter side. *)
BranchInserted(b, i, n, o) ==
    LET off == b.childOffset
        phys == off + i
    IN  IF off > 0 /\ i < BranchChildCount(b) \div 2
        THEN Arranged(Put(Moved(b, off - 1, off, phys, off - 1), phys - 1, n, o),
                      off - 1, phys - 1)
        ELSE Arranged(Spliced(b, phys, n, o), phys, Len(b.children))

(* The children on the shorter side move over the one that is removed. *)
BranchRemoved(b, i) ==
    LET off == b.childOffset
        phys == off + i
        len == Len(b.children)
    IN  IF i < BranchChildCount(b) - 1 - i
        THEN CompactedIfHalfDead(
                 Arranged(Moved(b, off + 1, off, phys, off + 1), off + 1, phys))
        ELSE Arranged(Cut(Moved(b, phys, phys + 1, len, off), len - 1), phys, len - 2)

FirstTaken(b) == CompactedIfHalfDead(Arranged([b EXCEPT !.childOffset = @ + 1], 0, -1))

(* borrowFromLeftBranch fills the gap, or moves every child to the right. *)
Unshifted(b, n, o) ==
    LET off == b.childOffset
    IN  IF off > 0
        THEN Arranged(Put([b EXCEPT !.childOffset = off - 1], off - 1, n, o), off - 1, off - 1)
        ELSE Arranged(Spliced(b, 0, n, o), 0, Len(b.children))

(* splitBranch halves the array, the dead slot included. *)
BranchHalved(b) ==
    LET c == BranchCompacted(b)
    IN  [c EXCEPT !.branch = Cut(@, (Len(@.children) + 1) \div 2)]

-----------------------------------------------------------------------------
(* The calls.  A new child, or key, is any that is in no slot; of those that *)
(* are in none nothing is remembered, nor what the keys in dead slots say,   *)
(* and an object goes by the first slot that holds it.                       *)

Least(S) == CHOOSE n \in S : \A m \in S : n <= m
Holds(list) == {list[i] : i \in DOMAIN list}
NewChild == Least(Children \ Holds(branch.children))
(* Faulty variant of NewKey: the object left in a dead slot is used again.   *)
KeyLeftBehind ==
    IF branch.childOffset > 0 THEN KeyIn(branch, branch.childOffset - 1)
    ELSE Least(KeyObjects \ Holds(branch.keys))
NewKey == Least(KeyObjects \ Holds(branch.keys))

Becomes(arranged, parented, keys, op, i, items) ==
    LET b == arranged.branch
        FirstSlot(o) == Least({s \in DOMAIN b.keys : b.keys[s] = o})
    IN  /\ branch' = [b EXCEPT !.keys = [s \in DOMAIN @ |-> FirstSlot(@[s])]]
        /\ mine' = parented \intersect Holds(b.children)
        /\ indexInParent' = [n \in Children |->
                               IF n \in Holds(b.children) THEN arranged.index[n] ELSE 0]
        /\ keyOf' = [o \in KeyObjects |->
                       IF \E p \in LiveSlots(b) : FirstSlot(KeyIn(b, p)) = o
                       THEN keys[b.keys[o]] ELSE Least(NodeKeys)]
        /\ turn' = [op |-> op, index |-> i, items |-> items]

(* A new child comes with the least key: what the keys say does not matter,  *)
(* only which of them change together.                                       *)
Adding(arranged, i) ==
    LET k == Least(NodeKeys)
    IN  Becomes(arranged, mine \union {NewChild}, [keyOf EXCEPT ![NewKey] = k],
                "insert", i, <<Link(NewChild, k)>>)
(* A child that is dropped keeps its parent pointer, one that another branch *)
(* takes over does not.                                                      *)
Dropping(arranged, i) ==
    Becomes(arranged, mine, keyOf, "remove", i, SubSeq(Links, i + 1, i + 1))
Giving(arranged, i, n) ==
    LET given == SubSeq(Links, i + 1, i + n)
    IN  Becomes(arranged, mine \ {given[j].child : j \in DOMAIN given}, keyOf, "remove", i, given)

Count == BranchChildCount(branch)
Spares == Count > (MaxBranch + 1) \div 2

(* createBranchNode, of at least two children. *)
BranchInit ==
    \E n \in 2..MaxBranch :
        /\ branch = [children |-> [i \in 1..n |-> i], keys |-> [i \in 1..n |-> i],
                     childOffset |-> 0]
        /\ indexInParent = [c \in Children |-> IF c \in 1..n THEN c - 1 ELSE 0]
        /\ mine = 1..n
        /\ keyOf = [o \in KeyObjects |-> Least(NodeKeys)]
        /\ turn = [op |-> "none", index |-> 0, items |-> <<>>]

(* insertChildAfter puts no child in front, and none but one with a sibling  *)
(* on its left is removed.                                                   *)
BranchInsertAt(i) ==
    /\ Count <= MaxBranch
    /\ Adding(BranchInserted(branch, i, NewChild, NewKey), i)
BranchRemoveAt(i) == Count <= MaxBranch /\ Dropping(BranchRemoved(branch, i), i)
ShiftChild == Spares /\ Count <= MaxBranch /\ Giving(FirstTaken(branch), 0, 1)
PopChild ==
    /\ Spares /\ Count <= MaxBranch
    /\ Giving(Arranged(Cut(branch, Len(branch.children) - 1), 0, -1), Count - 1, 1)
PushChild ==
    /\ Count < MaxBranch
    /\ LET len == Len(branch.children)
       IN  Adding(Arranged(Spliced(branch, len, NewChild, NewKey), len, len), Count)
UnshiftChild == Count < MaxBranch /\ Adding(Unshifted(branch, NewChild, NewKey), 0)
SplitBranch ==
    LET halved == BranchHalved(branch)
        kept == BranchChildCount(halved.branch)
    IN  Count > MaxBranch /\ Giving(halved, kept, Count - kept)

(* One key at a time is another than the rest (a bound). *)
KeysFor(i) ==
    IF \E p \in LiveSlots(branch) \ {branch.childOffset + i} :
           keyOf[KeyIn(branch, p)] # Least(NodeKeys)
    THEN {Least(NodeKeys)} ELSE NodeKeys

(* writeMinKeyTo writes the object; borrowing from a sibling on the left     *)
(* replaces it.                                                              *)
WriteKey(i, k) ==
    LET slot == branch.childOffset + i
    IN  Becomes(Arranged(branch, 0, -1), mine, [keyOf EXCEPT ![KeyIn(branch, slot)] = k],
                "replace", i, <<Link(ChildIn(branch, slot), k)>>)
ReplaceKey(i, k) ==
    LET slot == branch.childOffset + i
        n == ChildIn(branch, slot)
    IN  /\ i > 0
        /\ Becomes(Arranged(Put(branch, slot, n, NewKey), 0, -1), mine,
                   [keyOf EXCEPT ![NewKey] = k], "replace", i, <<Link(n, k)>>)

BranchNext ==
    \/ ShiftChild \/ PopChild \/ SplitBranch \/ PushChild \/ UnshiftChild
    \/ \E i \in 1..Count : BranchInsertAt(i)
    \/ \E i \in 1..(Count - 1) : BranchRemoveAt(i)
    \/ \E i \in 0..(Count - 1) : \E k \in KeysFor(i) :
          WriteKey(i, k) \/ ReplaceKey(i, k)

BranchSpec == BranchInit /\ [][BranchNext]_branchVars
-----------------------------------------------------------------------------
(* A node finds itself in its parent, at its own indexInParent, exactly when *)
(* it is a child: the test by which deleteRange tells that the leaf it works *)
(* on was merged away (isLeafStillValid), dead slots included.               *)
FoundInParent(n) ==
    indexInParent[n] < Len(branch.children) /\ ChildIn(branch, indexInParent[n]) = n
ChildrenKnowTheirSlot ==
    /\ LiveChildren(branch) \subseteq mine
    /\ \A n \in mine : FoundInParent(n) <=> n \in LiveChildren(branch)
    /\ \A p \in LiveSlots(branch) : indexInParent[ChildIn(branch, p)] = p

(* The keys stay in step with the children, whatever moved, and a key that   *)
(* is written in place is the key of one child.                              *)
ChildList == INSTANCE ArrayList WITH Items <- [child : Children, key : NodeKeys],
                                     list <- Links, call <- turn
ChildrenAreAList == ChildList!Spec
=============================================================================
