----------------------------- MODULE LeafArray -----------------------------
(***************************************************************************)
(* The entries of a leaf in their array (node-ops.ts): entries that leave at *)
(* the front stay behind as dead slots, which entryOffset counts and which   *)
(* are given up when they are half of the array.  An action is one function  *)
(* of node-ops.ts, or one place elsewhere that writes the array.             *)
(***************************************************************************)
EXTENDS Arrays

CONSTANTS
    LeafItems,          \* the entries
    MaxLeaf             \* maxLeafEntries; the put that exceeds it splits the leaf

ASSUME MaxLeafAssumption == MaxLeaf \in Nat \ {0}

VARIABLES
    leaf,               \* [entries, entryOffset]
    call                \* the last call, for ArrayList.tla
leafVars == <<leaf, call>>

LiveEntries(a) == LiveFrom(a.entries, a.entryOffset)
LeafEntryCount(a) == Len(a.entries) - a.entryOffset
Called(op, i, items) == [op |-> op, index |-> i, items |-> items]

(* createLeafNode, from as many entries as fit. *)
LeafInit ==
    /\ \E n \in 0..MaxLeaf : \E es \in [1..n -> LeafItems] :
          leaf = [entries |-> es, entryOffset |-> 0]
    /\ call = Called("none", 0, <<>>)

(* Faulty variant of LeafCompact: one slot too few is cut off. *)
LeafCompactShort(a) ==
    LET len == Len(a.entries)
        off == a.entryOffset
    IN  IF off = 0 THEN a
        ELSE [entries |-> Truncated(CopyWithin(a.entries, 0, off, len), len - off + 1),
              entryOffset |-> 0]

LeafCompact(a) ==
    LET len == Len(a.entries)
        off == a.entryOffset
    IN  [entries |-> Truncated(CopyWithin(a.entries, 0, off, len), len - off),
         entryOffset |-> 0]

(* Faulty variant of CompactIfHalfDead: it waits until the leaf is empty.    *)
CompactIfAllDead(a) ==
    IF a.entryOffset >= Len(a.entries) THEN LeafCompact(a) ELSE a

(* entryOffset >= entries.length >>> 1 *)
CompactIfHalfDead(a) ==
    IF a.entryOffset >= Len(a.entries) \div 2 THEN LeafCompact(a) ELSE a

LeafShift(a) == CompactIfHalfDead([a EXCEPT !.entryOffset = @ + 1])

LeafPop(a) == [a EXCEPT !.entries = Truncated(@, Len(@) - 1)]

LeafUnshift(a, e) ==
    IF a.entryOffset > 0
    THEN [entries |-> [a.entries EXCEPT ![a.entryOffset] = e],
          entryOffset |-> a.entryOffset - 1]
    ELSE [a EXCEPT !.entries = Inserted(@, 0, e)]

(* The entries on the shorter side move over the one that is removed. *)
LeafRemove(a, i) ==
    LET len == Len(a.entries)
        off == a.entryOffset
        phys == off + i
    IN  IF i < LeafEntryCount(a) - 1 - i
        THEN CompactIfHalfDead([entries |-> CopyWithin(a.entries, off + 1, off, phys),
                                entryOffset |-> off + 1])
        ELSE [a EXCEPT !.entries = Truncated(CopyWithin(@, phys, phys + 1, len), len - 1)]

(* Into a dead slot if there is one and the front is the shorter side. *)
LeafInsert(a, i, e) ==
    LET len == Len(a.entries)
        off == a.entryOffset
        phys == off + i
    IN  CASE off > 0 /\ i < (len - off) \div 2 ->
               [entries |-> [CopyWithin(a.entries, off - 1, off, phys) EXCEPT ![phys] = e],
                entryOffset |-> off - 1]
          [] ~(off > 0 /\ i < (len - off) \div 2) /\ phys >= len ->
               [a EXCEPT !.entries = Pushed(@, e)]
          [] OTHER ->
               [a EXCEPT !.entries = [CopyWithin(Pushed(@, @[len]), phys + 1, phys, len)
                                         EXCEPT ![phys + 1] = e]]

(* spliceLeafAndRebalance takes n entries out at once. *)
LeafSplice(a, i, n) ==
    LET len == Len(a.entries)
        phys == a.entryOffset + i
    IN  [a EXCEPT !.entries = Truncated(CopyWithin(@, phys, phys + n, len), len - n)]

(* splitLeaf keeps the first half; mergeLeafEntries takes over a sibling's.  *)
LeafSplit(a) ==
    LET c == LeafCompact(a)
    IN  [c EXCEPT !.entries = Truncated(@, (Len(@) + 1) \div 2)]
LeafAbsorb(a, es) ==
    LET c == LeafCompact(a)
    IN  [c EXCEPT !.entries = @ \o es]

(* putEntry and updateEntryById write a new entry into the slot of the old. *)
LeafWrite(a, i, e) == [a EXCEPT !.entries = [@ EXCEPT ![a.entryOffset + i + 1] = e]]

-----------------------------------------------------------------------------
Fits == LeafEntryCount(leaf) <= MaxLeaf

Inserting(a, i, e) == leaf' = a /\ call' = Called("insert", i, <<e>>)
Removing(a, i, n) ==
    leaf' = a /\ call' = Called("remove", i, SubSeq(LiveEntries(leaf), i + 1, i + n))

LeafShiftEntry ==
    Fits /\ LeafEntryCount(leaf) > 0 /\ Removing(LeafShift(leaf), 0, 1)
LeafPopEntry ==
    Fits /\ LeafEntryCount(leaf) > 0 /\ Removing(LeafPop(leaf), LeafEntryCount(leaf) - 1, 1)
LeafUnshiftEntry(e) ==
    LeafEntryCount(leaf) < MaxLeaf /\ Inserting(LeafUnshift(leaf, e), 0, e)
(* At the end it is also how a leaf borrows from its right sibling. *)
LeafInsertAt(i, e) == Fits /\ Inserting(LeafInsert(leaf, i, e), i, e)
LeafRemoveAt(i) == Fits /\ Removing(LeafRemove(leaf, i), i, 1)
LeafSpliceAt(i, n) == Fits /\ Removing(LeafSplice(leaf, i, n), i, n)
SplitLeaf ==
    LET kept == (LeafEntryCount(leaf) + 1) \div 2
    IN  ~Fits /\ Removing(LeafSplit(leaf), kept, LeafEntryCount(leaf) - kept)
MergeLeafEntries(es) ==
    /\ LeafEntryCount(leaf) + Len(es) <= MaxLeaf
    /\ leaf' = LeafAbsorb(leaf, es)
    /\ call' = Called("append", LeafEntryCount(leaf), es)
WriteEntry(i, e) ==
    Fits /\ leaf' = LeafWrite(leaf, i, e) /\ call' = Called("replace", i, <<e>>)

LeafNext ==
    \/ LeafShiftEntry \/ LeafPopEntry \/ SplitLeaf
    \/ \E i \in 0..(LeafEntryCount(leaf) - 1) :
          \/ LeafRemoveAt(i)
          \/ \E n \in 1..(LeafEntryCount(leaf) - i) : LeafSpliceAt(i, n)
    \/ \E e \in LeafItems :
          \/ LeafUnshiftEntry(e)
          \/ \E i \in 0..LeafEntryCount(leaf) : LeafInsertAt(i, e)
          \/ \E i \in 0..(LeafEntryCount(leaf) - 1) : WriteEntry(i, e)
    \/ \E n \in 1..MaxLeaf : \E es \in [1..n -> LeafItems] : MergeLeafEntries(es)

LeafSpec == LeafInit /\ [][LeafNext]_leafVars
-----------------------------------------------------------------------------
LeafTypeOK ==
    /\ leaf \in [entries : Seq(LeafItems), entryOffset : Nat]
    /\ leaf.entryOffset <= Len(leaf.entries)
    /\ LeafEntryCount(leaf) <= MaxLeaf + 1

(* Dead slots are given up in time: however the calls mix, a leaf never      *)
(* drags along as many dead slots as it may have entries                     *)
(* (leafShiftEntry, leafRemoveAt).                                           *)
DeadEntriesAreFew == leaf.entryOffset < MaxLeaf

(* Whatever moves in the array, and whatever is left in dead slots: seen     *)
(* from the first live slot each call does to the entries what it says, and  *)
(* to no others.                                                             *)
List == INSTANCE ArrayList WITH Items <- LeafItems, list <- LiveEntries(leaf), call <- call
EntriesAreAList == List!Spec
=============================================================================
