----------------------------- MODULE Capacities -----------------------------
(***************************************************************************)
(* How many entries a leaf and how many children a branch may hold: the       *)
(* capacities, which follow the number of entries when autoScale is set, and  *)
(* the chunks into which a bulk load cuts a sequence.  A tree is a record     *)
(* with the fields of BTreeState, as in Nodes.tla.                            *)
(***************************************************************************)
EXTENDS OrderedTree

CONSTANTS
    MaxLeafEntries, MaxBranchChildren,
    AutoScale,          \* TRUE: the two capacities follow Tiers
    Tiers               \* AUTO_SCALE_TIERS: [threshold, maxLeaf, maxBranch]

ASSUME CapacityAssumption ==
    /\ MaxLeafEntries \in Nat /\ MaxLeafEntries >= 3
    /\ MaxBranchChildren \in Nat /\ MaxBranchChildren >= 3
    /\ AutoScale \in BOOLEAN
ASSUME TiersAssumption ==
    /\ Tiers \in Seq([threshold : Nat, maxLeaf : Nat, maxBranch : Nat]) /\ Tiers # <<>>
    /\ Tiers[1].maxLeaf >= 3 /\ Tiers[1].maxBranch >= 3
    /\ \A i \in 2..Len(Tiers) :
          /\ Tiers[i - 1].threshold < Tiers[i].threshold
          /\ Tiers[i - 1].maxLeaf <= Tiers[i].maxLeaf
          /\ Tiers[i - 1].maxBranch <= Tiers[i].maxBranch

Half(n) == (n + 1) \div 2         \* Math.ceil(n / 2)
Larger(a, b) == IF a > b THEN a ELSE b

-----------------------------------------------------------------------------
(* autoScale.ts *)

(* _nextAutoScaleThreshold when there is none: Number.MAX_SAFE_INTEGER, as    *)
(* many entries as there are ids.                                            *)
NoThreshold == MaxSequence

Reached(count) == {i \in DOMAIN Tiers : i = 1 \/ count >= Tiers[i].threshold}
ComputeAutoScaleTier(count) == Tiers[Cardinality(Reached(count))]
ComputeNextAutoScaleThreshold(count) ==
    IF Reached(count) = DOMAIN Tiers
    THEN NoThreshold ELSE Tiers[Cardinality(Reached(count)) + 1].threshold

InitialCapacity ==
    IF AutoScale THEN Tiers[1]
    ELSE [threshold |-> 0, maxLeaf |-> MaxLeafEntries, maxBranch |-> MaxBranchChildren]

WithCapacity(s, maxLeaf, maxBranch) ==
    [s EXCEPT !.maxLeafEntries = maxLeaf, !.minLeafEntries = Half(maxLeaf),
              !.maxBranchChildren = maxBranch, !.minBranchChildren = Half(maxBranch)]

(* Capacities only grow, and no node is touched when they do. *)
MaybeAutoScale(s) ==
    LET tier == ComputeAutoScaleTier(s.entryCount)
        grown == WithCapacity(s, Larger(tier.maxLeaf, s.maxLeafEntries),
                                 Larger(tier.maxBranch, s.maxBranchChildren))
    IN  IF s.entryCount < s.nextAutoScaleThreshold THEN s
        ELSE [grown EXCEPT !.nextAutoScaleThreshold = ComputeNextAutoScaleThreshold(s.entryCount)]

(* Faulty variant of ResetAutoScaleToTier0: the next tier is not reached again. *)
ResetWithoutThreshold(s) == WithCapacity(s, Tiers[1].maxLeaf, Tiers[1].maxBranch)
ResetAutoScaleToTier0(s) ==
    [WithCapacity(s, Tiers[1].maxLeaf, Tiers[1].maxBranch)
        EXCEPT !.nextAutoScaleThreshold = ComputeNextAutoScaleThreshold(0)]

-----------------------------------------------------------------------------
(* computeChunkBoundaries of bulkLoad.ts *)

(* Faulty variant of EndsTheLoop: the last chunk is what is left.            *)
EndsWhenItFits(left, max, min) == left <= max
(* Whether what is left is one chunk, or two that share it since the second  *)
(* would have fewer than min.                                                *)
EndsTheLoop(left, max, min) == left <= max \/ left - max < min

(* How many chunks of max the loop takes before. *)
FullChunks(total, max, min) ==
    CHOOSE n \in 0..total :
        /\ EndsTheLoop(total - n * max, max, min)
        /\ \A m \in 0..n - 1 : ~EndsTheLoop(total - m * max, max, min)

(* The ends of the chunks. *)
ComputeChunkBoundaries(total, max, min) ==
    LET full == FullChunks(total, max, min)
        left == total - full * max
        last == CASE left = 0 -> <<>>
                  [] left # 0 /\ left <= max -> <<total>>
                  [] OTHER -> <<full * max + Half(left), total>>
    IN  [c \in 1..full |-> c * max] \o last
=============================================================================
