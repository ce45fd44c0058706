# Formal verification of frostpillar-btree

TLA+ models of `frostpillar-btree`, a B+ tree for TypeScript with a coordinator
that keeps many instances of one tree consistent through a shared log. The
modules here are translated from `src/src/`; they are model-checked with TLC and
their central theorems are proved with TLAPS. Two ladders of refinement run
through the project. Upwards from the memory of a node: its arrays behave as
lists (`LeafArray`, `BranchArray` => `ArrayList`), and the tree made of such nodes
behaves as an ordered set of entries (`BPlusTree` => `InMemoryBTree`). Upwards from
the shared log: instances that replay it behave as one such tree
(`Coordinator` => `LinearTree`).

## 1. Inventory

| Part | State it keeps | Operations | Talks to |
|---|---|---|---|
| `InMemoryBTree.ts` | one `BTreeState` | put, putMany, remove(ById), updateById, pop, clear, deleteRange, lookups, ranges, iterators, clone, JSON | the functions under `btree/` |
| `btree/mutations`, `entry-lookup`, `deleteRange`, `bulkLoad` | leaves, `entryCount`, `nextSequence`, `entryKeys` | the writes above | split, rebalance, auto-scale |
| `btree/node-ops`, `split`, `rebalance`, `rebalance-branch` | offset arrays, parent/sibling pointers, cached minimum keys | insert, split, borrow, merge | each other, recursively up the tree |
| `btree/navigation`, `rangeQuery`, `traversal` | the shared `_cursor` | descent, bounds, hint walk, leaf walk | none |
| `btree/autoScale` | node capacities, next threshold | grow, reset on clear, snapshot restore | `mutations`, `bulkLoad`, facade |
| generators and callbacks of `InMemoryBTree.ts`, `traversal`, `rangeQuery` | a leaf, an index and a count, held while the caller runs | `entries`, `entriesReversed`, `keys`, `values`, `forEach`, `forEachRange` | the leaf chain, the caller's own mutations |
| `btree/integrity`, `integrity-helpers` | none | `assertInvariants` | none |
| `btree/stats` | none | `getStats` | none |
| `btree/serialization` | none | `toJSON`, validation for `fromJSON` | facade, `bulkLoad` |
| `concurrency/writeOps` | none | nine evaluators, `applyMutationLocal` | local tree |
| `concurrency/coordinator` | `tree`, `currentVersion`, `initSeen`, `corrupted`, `operationQueue` | `runExclusive`, `syncUnlocked`, `readOp`, `writeOp` | store (asynchronous), local tree |
| `concurrency/helpers`, `syncLogValidation` | none | fingerprint, mutation and contract checks | coordinator |
| `SharedTreeStore` (interface; test stores implement it) | the log of batches and its version | `getLogEntriesSince`, `append` (compare-and-set) | coordinators |

What is hard here:

* **Interleaving.** A write is sync, evaluate, append, apply with an `await` at
  every call of the store; other instances, and later calls of the same one, run
  in between.
* **Failure.** A store may refuse an append, reject a promise after it applied
  the append, serve an old log, or apply an append after its caller gave up.
* **Corruption.** A mutation is in the shared log before it is applied locally;
  one that throws corrupts its writer and every peer that replays it.
* **Boundaries.** Sequence counter, sync limit, retries, node occupancy.
* **Cached structure.** Minimum keys cached in branches, as objects that are
  written in place; offset arrays with dead slots; pointers that several
  operations maintain separately.
* **Re-entrancy.** A generator holds a place in a leaf while its caller mutates
  the tree.

What makes each part correct: the tree is an ordered set of entries with ids
that are never reused; an evaluator accepts exactly the writes that the tree
would take; a replica is a prefix of the log; an answer is that of one tree
running the log; a failed call is honest about whether it took effect; every
call settles; after every call the nodes satisfy what `assertInvariants` asserts,
and every lookup that descends by cached keys finds what a search of all
entries would find; a traversal misses nothing that stays put; a tree comes back
from its own payload. `PROJECT.json` lists the hazards with the properties aimed at each.

## 2. Modules

| Module | What it is |
|---|---|
| `OrderedTree` | The tree without its nodes: a set of entries `[key, entryId, value]` and `nextSequence`, with one function per operation that yields the next tree, the result and whether it threw; and the evaluators of `writeOps.ts` |
| `InMemoryBTree` | The state machine of one tree under a sequence of calls |
| `Capacities` | How much a node may hold: the capacities with the tiers they grow through, their thresholds, and the chunks of a bulk load; extends `OrderedTree` |
| `Nodes` | Leaves and branches with their pointers, cached keys and dead slots: split, borrow, merge, collapse, as functions from tree to tree; extends `Capacities` |
| `Balancing` | The state machine of the nodes alone: entries are put, removed and spliced at any leaf, and each level that splits or is refilled is a step |
| `BPlusTree` | The state machine of one tree with its nodes: every call as the code carries it out, the lookups, and the refinement of `InMemoryBTree`; extends `Nodes` |
| `Integrity` | `assertInvariants` and `getStats`, and the damaged trees the former is asked about; extends `BPlusTree` |
| `Serialization` | `toJSON`, `fromJSON` and the validation of a payload; extends `Integrity` |
| `Iterators` | A traversal held across the calls of its consumer; composed with `BPlusTree` |
| `Arrays` | `copyWithin`, `push` and truncation of a JavaScript array |
| `LeafArray`, `BranchArray` | The arrays of one leaf and of one branch under the functions of `node-ops.ts` and the other places that write them |
| `ArrayList` | What these arrays promise: a list that a call changes in the place it names |
| `Coordinator` | Instances, their queues, and the shared store; composes `OrderedTree` |
| `LinearTree` | The abstract promise: one tree, calls that take effect at most once inside their interval; what the tree does with a mutation is a parameter |
| `CoordinatorRefinesLinearTree` | The refinement mapping from `Coordinator` to `LinearTree` |
| `MCBPlusTree`, `MCBalancing`, `MCIterators`, `MCNodeArrays`, `MCCoordinator`, `MCLinear` | Keys, calls, payloads and configurations for TLC; `MCBalancing` runs `BPlusTree` and `Balancing` side by side |
| `CoordinatorProofs`, `ReplayProofs` | Theorems about `Coordinator`: what needs nothing of the trees, and, on top of it, what the replay of a log computes and the refinement of `LinearTree` |
| `OrderedTreeProofs`, `InMemoryBTreeProofs` | Lemmas about the operations of `OrderedTree`, on which `ReplayProofs` rests too, and the theorems about `InMemoryBTree` |
| `LeafArrayProofs`, `BranchArrayProofs` | Theorems about `LeafArray` and `BranchArray` |
| `NodesProofs`, `BalancingProofs` | What each operator of `Nodes` does to a tree, and on top of it the theorems about `Balancing` |

### Correspondence

`OrderedTree` works on an abstract tree. A key is an integer, since the code
uses only the sign of `compareKeys`; values are opaque. `Put` looks at the
duplicate policy before the sequence counter, as `putEntryIntoLeaf` does.
`PutMany` chooses the bulk load on an empty tree (all or nothing) and one put per
entry otherwise (what went in before a throw stays). `Rejected`, `Absent` and
`Evaluate` are the evaluators: throw, return null, or hand over the mutation.

`Nodes` and `BPlusTree` have the nodes. A tree is a record with the fields of
`BTreeState`, without `_cursor`, through which a lookup hands its place to its
caller: here a place is a value. `nodes` is the heap, a function from the identity
of a node to the node, and each function of `split.ts`, `rebalance.ts` and
`rebalance-branch.ts` is an operator from a tree to the tree it leaves, under the
name it has there where TLA+ allows. A call is one action; its helpers call each
other as in the code (`deleteRange` up to any number of rebalances, a merge up
to the root). What was abstracted:

* A branch keeps its live children and `childOffset`, because `indexInParent`
  counts dead slots, a split halves the array with them, and compaction leaves
  one. A leaf keeps its live entries alone: every use of `entryOffset` steps
  over its dead slots, and `splitLeaf` compacts before it halves. That both
  arrays can be seen so is what `LeafArray` and `BranchArray` establish.
* A binary search is the number of entries, or cached keys, on its left. That is
  what it finds in ordered keys, and `KeysGuideTheDescent` says they are ordered.
* `Collect` renames the nodes a tree reaches in the order of a descent, so that
  two heaps that differ in names, or in nodes nobody reaches, are one state. A
  pointer to an unreachable node becomes `Dangling` and breaks `PointersAgree`.
* `NoThreshold`, like `MaxSequence`, stands for `Number.MAX_SAFE_INTEGER`, the
  threshold behind the last capacity tier.
* A `BTreeInvariantError` sets `broken`, which `BookkeepingAgrees` forbids.
* Ids are bounded by `MaxSequence`, which bounds the entries ever put and so the
  states of a run; the overflow itself is part of the runs.

A split ends with the insertion of the new node into the parent (`insertChildAfter`), a
merge with the removal of a node from its parent (`removeChildFromBranch`), and so on up
the tree, each in last position. `Nodes` leaves such a call in the field `todo` of the
tree, and `Resume` makes it. `BPlusTree`
resumes until nothing is left (`Finish`) before anyone sees the tree. `Balancing` makes
each such call a step of its own (`Continue`), so that what holds between two levels can
be stated and proved. Its other steps are those by which the mutations touch
nodes: `AddAnEntry` (`putEntryIntoLeaf`), `TakeAnEntry` (`removeFirstMatchingEntry`), `DeleteRun`
with the rounds of `RefillOnce` (`spliceLeafAndRebalance`) and `ClearAll`. They take any leaf
and any place in it, where the code takes those its lookup found, so what holds
of `Balancing` does not depend on the lookups. `call` is the call under way with the
guard of its refill loop; `height` is a history variable, the height each node had
when it entered the tree.

In the model of a clone, and of `fromJSON`, the caller goes on with the copy, so
every call is also checked on trees that were cloned or loaded.

`Integrity` follows `assertInvariants` check by check: the recursion over the nodes
that merges the reports of the children, and the walk along the leaf links. It is
asked about the tree a behaviour is in and about every tree that differs from that
one in a pointer, an entry, a cached key, an index or the count; it must accept
exactly those that `Sound` describes. It does not look at the parent pointer of the
root, at `entryKeys`, at `nextSequence`, at the minimum capacities or at the next
auto-scale threshold, so none of these is damaged; `BookkeepingAgrees` states
them of the tree itself.

In `Serialization` a payload is a record with the fields of `BTreeJSON`, and `Null`
stands for a field of a wrong type. `Reload` replaces the tree by what `fromJSON`
makes of its own payload; `LoadPayload` does so with payloads of other origin,
most of them with one fault that the validation must refuse. The size
limit is a bound of the model (`MaxSerializedEntries`); that `toJSON` writes payloads
beyond it which `fromJSON` refuses is documented (the repository's `README.md:522`),
and `RoundTrips` says it is the only such case.

In `Iterators` a traversal is a record: the leaf it is in, how many entries it
counted on arrival, how many it has read. One action is one call of `next()`, or
one round of a callback; between two of them the consumer makes any call of
`BPlusTree`. A leaf that leaves the tree (merged away, or dropped by `clear` or a
bulk load) stays reachable through the traversal with the chain behind it
(`dropped`). The history variables inside the record (`seen`, `owed`, `disturbed`)
are there for the property: as long as no call changes the very leaf being read,
the traversal owes its caller every entry that stays.

In `LeafArray` and `BranchArray` an action is one function of `node-ops.ts`, or one
place elsewhere that writes the arrays (`splitLeaf`, `mergeLeafEntries`, the splice of
`deleteRange`, the borrows of `rebalance-branch.ts`), with the guard under which its
callers call it. A cached key is an object (`KeyObjects`) that `keyOf` gives its
content: the code writes it in place, so two live slots must never hold the same
one. `KeysFor` lets one key at a time differ from the rest, which is enough to see
a key move with the wrong child.

In `Coordinator` a call is a number, given in the order calls are made; arrays
indexed by calls hold what the call's closure holds. One action is one run of
the event loop between two awaits, or one step of the store:

| Action | Code |
|---|---|
| `Invoke`, `PutNothing` | a method of `ConcurrentInMemoryBTree` chains its operation (`runExclusive`); `putMany([])` returns at once |
| `Ready`, `RefuseCorrupted` | `operationQueue.then(run, run)`, and the `corrupted` check in `run` |
| `AnswerLocally`, `StartSync` | `readOp` in local mode; the call of `getLogEntriesSince` |
| `ServeLog`, `ApplyAppend`, `RefuseAppend` | the store |
| `RefuseOversized`, `RefuseMismatched`, `FailReplay` | the three ways a sync fails after its answer |
| `AnswerSynced` | the end of `sync`, `syncThenRead` and strong reads |
| `AnswerUnappended`, `SendAppend` | the rest of `appendAndApply` after the sync: evaluate, and append if there is something to append |
| `FinishAppend`, `FailApply` | the local apply of an applied append |
| `Retry`, `GiveUp` | the loop around it |
| `SyncRejects`, `AppendRejects` | a store promise rejects, or its answer breaks the contract checks |

The tree of an instance is not a variable: it is the replay of `applied[c]`, the
batches the instance has applied. A replay is deterministic, so this loses
nothing and lets "replica = prefix of the log" be stated on sequences. An init
mutation does not touch the tree; it is a field of the batch it was appended
with. The log's version is the number of its batches, as in the test stores; the
code only compares versions. A crashed instance is one that stops taking steps.
`AppendRejects` leaves an append that is under way (`wire = "sent"`) where it
is, so that the store may still apply it after its caller has failed.

## 3. Runs

| Run | Instance | Question |
|---|---|---|
| `nodes_standard` | nodes of 3, 6 ids, policy allow, every call and clone, equal keys | the structure of the nodes, results of calls, lookups and statistics, `putMany` against one put per entry, what `assertInvariants` decides about sound and damaged trees, refinement of `InMemoryBTree` |
| `nodes_deep` | 81 entries in 9 full leaves of 9, branches of 3, lazy rebalancing, policy reject | splits up to a new root, late refills in several steps, branch borrows, merges and collapses on 3 to 4 levels, hint walks past their budget; puts and batches that are refused on the way |
| `nodes_wide` | 30 entries in leaves of 3, branches of 5, policy replace; and, for `Balancing`, up to 7 entries added to an empty tree, or a tree grown to three levels | the dead slots of branches; each evaluator against what the nodes do with the call; balance and the refill loop, one step at a time at any leaf |
| `nodes_autoscale` | tiers 3/3, 5/3 from 5 entries, 5/5 from 9; 17 payloads, size limit 9 | capacities against occupancy; clear, clone, `toJSON` and `fromJSON` at each tier |
| `node_arrays` | a leaf of 5 entries, or a branch of 4 children with 8 nodes and 8 key objects | dead slots and copies in the arrays; each call as one change of a list; slots and key objects that go stale |
| `iterators` | 7 entries in 3 leaves, policy reject, every kind of traversal | what a traversal yields while its consumer changes the tree |
| `coord_core` | a strong and a local-mode instance, 4 calls, sync limit 2, reliable store | evaluation in place, answers, freshness, retries, laggards |
| `coord_faults` | 3 instances, one with another configuration, 3 calls, every store fault, policy allow, 2 ids, sync limit 2 | replicas, one configuration, at-most-once, honest failures, monotonic sessions, what corruption does, entry ids handed out once |
| `linear` | 2 strong instances, 3 calls, conflicts, rejected promises and late appends, fair | refinement of `LinearTree`; every call settles |
| `doc_iterator` | as `iterators`, `entries` only | a statement of the specification the code does not keep |
| `coord_doc_throws`, `coord_doc_recovers` | 2 instances, 1 id | two more of them |

Bounds. `MaxOps` bounds the calls of a behaviour and `MaxRetries = 2` the
retries, so all coordinator runs are finite and stop: `CHECK_DEADLOCK FALSE` in
their configurations says so. Three calls suffice for a conflict, its retry and
a bystander; four let a call of each instance queue behind another. `MaxSequence`
stands for `Number.MAX_SAFE_INTEGER`; at 1 or 2 the counter is exhausted within the
run, at 10 never. A sync limit of 2 is exceeded by a third mutation of others.
Symmetry is used only between instances of the same configuration, in a run whose
properties do not tell them apart.

The capacities of the node runs are the smallest the code accepts (3) and the
next odd ones, where `Math.ceil(n / 2)` and the off-by-one of a split show, and
9, the first leaf whose lazy threshold is above one. The runs that need a large
tree load it in one call (`LoadedSpec`), which is what a caller of `putMany`
does, and then make every sequence of calls until the ids run out. Each branch
of the rebalancing code was marked in turn to see that some run takes it, a
split that counts a dead slot and each case of a borrow included; the exceptions
are the branches the code itself takes for unreachable (`BTreeInvariantError`),
the loop of `deleteRange` that ends by its `safetyGuard`, and the previous-leaf cases of the duplicate
check and of the last-match lookup, which a descent by exact minimum keys never
needs. Real capacities (32 to 16384) differ in the depth of the tree for its
size, not in the cases. In `nodes_wide`, seven entries put anywhere into an empty tree
make a tree of two levels and take it down again, and twelve put at its left end leave one of three
levels, whose removals and splices (down to four entries, or to none) borrow, merge and collapse on
each of them; `Balance` and `Convergence` are proved for all sizes. The three duplicate policies are each
taken by one of the first three runs, and in each of them what the nodes do is compared
with the ordered tree: `EveryCallDoesWhatItPromises` under allow and reject,
`EvaluatorsForeseeTheNodes` under replace, for the mutations that an evaluator lets
through. For the arrays, a leaf of five entries and a branch of four children reach every case of the copies (shorter side in front or behind, into a dead slot
or not, compaction or not); what holds of arrays of every size is proved.

The faulty variants (`...Anyway`, `...Early`, `...BeforeSync`, ...) next to some
definitions are mutants: each replaces the definition below it and breaks the
property that is there to notice.

Fairness. `FairSpec` assumes weak fairness of each call's own steps, because a
promise reaction that is ready is run by the event loop, and of the store's
steps, because the interface returns promises that settle. Nothing is assumed
of callers, and no safety property needs fairness.

### Findings

* `docs/specs/01_in-memory-btree.md:356` says that all operations on a corrupted
  instance must throw. `putMany([])` answers `[]` on one
  (`ConcurrentInMemoryBTree.ts:100`); run `coord_doc_throws`.
* The same line says that a new instance recovers. A mutation that throws when
  applied (an exhausted sequence counter is enough, which no evaluator looks at)
  stays in the shared log, so each new instance replays it and is corrupted as
  well (`coordinator.ts:57`); run `coord_doc_recovers`. `OnlyOverflowPoisons` says
  that nothing else gets into the log that throws.
* `docs/specs/01_in-memory-btree.md:129` types what `entries()` yields as entries,
  and line 190 leaves only inclusion and order open when the caller mutates the
  tree. When the leaf that is being read shrinks, the generator goes on to the
  count it took on arrival and yields `undefined` (`InMemoryBTree.ts:225`); `keys`
  and `values` throw there. Run `doc_iterator`.

## 4. Proofs

### The coordinator

For all values of the constants (any number of instances, calls, retries, any
requests, all store faults on or off), from the named assumptions of
`OrderedTree` and `Coordinator`, each as a theorem about `Spec`:

| Module | Theorem | Property |
|---|---|---|
| `CoordinatorProofs` | `TypeCorrect`, `CallsAppendOnce`, `ReplicasFollowTheLog` | `TypeOK`, `AtMostOnce`, `ReplicaIsLogPrefix` |
| `CoordinatorProofs` | `NoTraceOfEffectlessCalls`, `SessionsAreMonotonic`, `AnswersNeverPredateTheirCall`, `OnlyContentionExhausts`, `CorruptedForGood`, `OneConfigurationPerLog` | `EffectlessCallsLeaveNoTrace`, `SessionIsMonotonic`, `AnswersAreFresh`, `GivingUpMeansOthersCommitted`, `CorruptionIsFinal`, `ConfigurationIsAgreed` |
| `ReplayProofs` | `AnswersAreThoseOfOneTree`, `WritesAreJudgedWhereApplied`, `CorruptionComesFromTheLog`, `LaggardsStayBehind`, `OnlyOverflowIsFatal`, `IdsAreUniqueAcrossInstances` | `AnswersAreSequential`, `WritesAreJudgedInPlace`, `CorruptionIsInTheLog`, `OversizedIsForGood`, `OnlyOverflowPoisons`, `IdsAreHandedOutOnce` |
| `ReplayProofs` | `InstancesAreLinearizable` | `ImplementsLinearTree`, when reads are strong and the store serves its latest log |
| `ReplayProofs` | `CallsAreShort`, `NobodyWaitsForEver` | the safety half of `EveryCallSettles` |

That is every safety property of the coordinator that the passing runs check. None
but the first is inductive. The argument is layered, each layer an invariant whose
step is proved from those below it:

1. `TypeInv`: `TypeOK`, and `CallPlaced`, what the place a call is in says of the
   rest of its record.
2. `QueueInv`: the calls of one instance form a chain through `after`, the last
   of which is `operationQueue[c]`, and a call runs only when those before it
   are done. `RunsAlone` follows: an instance has at most one call running. This
   is what the promise chain is for, and what the code's correctness rests on:
   nothing else of the instance moves while a call awaits the store.
3. `LogInv`: a call that has a batch in the log has had its append applied and is
   past the point where it could send it again. This gives `AtMostOnce`.
4. `ReplicaInv`: a healthy replica agrees with the log up to its version; a
   running call's `base` is its instance's version, and an append that has been
   applied sits exactly behind it. This gives `ReplicaIsLogPrefix`.
5. `TraceInv`, `SessionInv`, `FreshInv`, `ContentionInv` relate what callers are
   told to the log: an effectless call has no append under way or applied; an
   instance's version is no smaller than what any of its calls saw; a log that was
   served is no shorter than the log when the call was made; and each refused
   attempt has a batch of another call behind its base.
6. `ConfigurationInv` ties `initSeen`, from which an instance decides whether to
   prepend an init mutation, to what it has applied, and an append under way to
   the version it was made at, so that two inits cannot both land.
7. `AnswerInv`, `JudgedInv`, `CorruptionInv`, `LagInv`: a replica is a prefix of the
   log, so its tree is the replay of a prefix, and every answer, verdict and failure
   is a statement about that prefix. What `Apply` and `Evaluate` compute matters in
   one place: a write answered from its evaluator alone (`invalid`, `nothing`) would
   have thrown, or changed nothing, had the tree been asked (`VerdictIsRight`, below).
8. `MapInv` completes what the refinement needs. `LinearStep` maps every action to a
   step of `LinearTree` or to a stutter: `ApplyAppend` takes effect, settling
   answers, everything else stutters. `LinearTree` takes the tree as a parameter,
   so the theorem needs nothing about what a mutation does.
9. `OnlyOverflowIsFatal` and `IdsAreUniqueAcrossInstances` need no further invariant of
   `Coordinator`, but lemmas about the ordered tree. `JudgedInv` says that a logged
   mutation was judged on the tree it is applied to, and one judged `append` throws
   only when the counter is exhausted. `AnswerInv` says that the ids a call was
   told are those the replay of the log gives its batch; two batches have two places
   in the log, and the ids of the later one are not below the counter that the earlier
   one left behind. Under `replace` a put may answer the id of the entry it
   replaced, so the property excludes that policy.
10. `EveryCallSettles` itself is beyond the prover, since fairness speaks of enabled actions.
   What the code contributes to it is proved. `CallsAreShort`: `StepsLeft`, at most
   four steps an attempt and one more, gets smaller with each step of the call or of the
   store for it, retries included, and no step elsewhere changes it. `NobodyWaitsForEver`:
   of the pending calls of an instance the first can go on, because a call is chained
   behind an earlier one (`QueueInv`) and the guards of the steps leave no place uncovered.
   `CanGoOn` restates these guards one by one, as the prover has no `ENABLED`. With weak fairness
   of `Step` and `Serve`, either of which stays possible once it is, until the call
   moves, the two together say that every call settles; that last step is TLC's (run
   `linear`).

### The ordered tree

`OrderedTreeProofs` and `InMemoryBTreeProofs`, for every policy, counter limit and set of
calls, from the assumption that a call is one of `writeOps.ts` with keys that are
numbers (`IsMutation`: `WritesAssumption` in `Coordinator`, `MutationsAssumption` in `BPlusTree`):

| Theorem | Statement |
|---|---|
| `TreeIsWellFormed` | finitely many entries, distinct ids below the counter, one per key where the policy says so |
| `IdsAreNeverReused` | `IdsNeverReturn`: no id that left a tree comes back to it |
| `EvaluatorsAreRight` | `EvaluatorsAgreeWithTheTree`: a verdict is what the ordered tree would do |
| `ClonesAreFaithful` | a clone is the tree with its ids counted anew in the order of the entries, and never lacks ids |
| `EndsAreDetermined` | the first and the last entry of any range exist and are unique, so the `CHOOSE` in the answers of `pop`, `remove` and the peeks names one entry |

The theorems are about `InMemoryBTree`, the tree that the nodes are checked to implement
(`ImplementsInMemoryBTree`, run `nodes_standard`). A tree with nodes that implements it never
reuses an id either. What an evaluator foresees on nodes is checked of the nodes
themselves: `EvaluatorsForeseeTheNodes` (run `nodes_wide`) performs each mutation on the
heap of nodes and compares what comes of it with the verdict.

The invariant is `WellFormed(tree)`. For each operation a lemma says when it throws,
that the next tree is well-formed, and that it `Follows` the former: the counter does
not fall, and whatever id is new is not below it. That is plain case analysis but for `putMany` and
the replay of a log, which are folds of any length. `FoldUnfolds` turns a fold into the
sequence of its intermediate values, and an induction over that sequence is
stated as the absence of a least counterexample (`LeastNumber`, from `WFMin`).
`PutSoFar` is the invariant of a `putMany`: the counter grows by at most one an entry, and under
`reject` whatever was inserted on the way has a smaller key than the entries
still to come, so that a batch that was judged never collides with itself. For
the clone, `Rank` is a bijection between the entries and their places (`InOrder`).

### The leaf array

`LeafArrayProofs`, for leaves and entries of any number: `LeafTypeCorrect`,
`DeadEntriesStayFew` (fewer dead slots than a leaf may have entries) and
`LeafArrayIsAList` (the live entries change as a list would, call by call). The
invariant is `LeafTypeOK /\ DeadEntriesAreFew`: the bound on the entries in
`LeafTypeOK` is why the calls that add a dead slot compact in time, and the other
calls leave the offset as it was or smaller. For each function of `node-ops.ts` a lemma says what it does to the
live entries, in terms of `copyWithin` on either side of the place.

### The branch array

`BranchArrayProofs`, for branches of every capacity: `SlotsStayKnown` (`ChildrenKnowTheirSlot`)
and `BranchIsAList` (`ChildrenAreAList`). The assumptions are a capacity of at least three and that
there is always another node and another key object to be had (`NumbersAssumption`,
`NodeKeysAssumption`): nodes and key objects are numbered, and a new one is the least
that no slot holds. `AnotherIsLeft` shows by counting that there is one.

The two arrays of a branch move in step, so the lemmas about one array carry over.
What is new is where a child believes it is, and `ChildrenKnowTheirSlot` is not
inductive: a child finds itself at its index through a comparison
(`children[indexInParent] === child`), and a dead slot keeps the node that stood there, so
an index that went stale could find the right node in a dead slot. `Placed` is
the strengthening: the index of a live child is its slot, and every dead slot that
still holds a child of the branch lies in front of that child's index. `BranchInv` adds that the live
slots hold distinct key objects, since keys are written in place, and that the
dead slots stay under the bound of the compaction. Each function of `node-ops.ts` has a
lemma in the form `Does(a, parented, kids, keys)`, what it makes of the two lists; a
caller's lemma (`ChildAdded`, `ChildrenRemoved`, `KeyChanged`, `GivenAway`) composes them.
The model renames the key objects after each step to keep the runs small;
`BecomesPlaced` shows once that this changes nothing the invariant or the list can see.

### The nodes

`NodesProofs` and `BalancingProofs`, about `Balancing`: for trees of any size, any capacities
from three upwards, fixed or growing through any tiers, and both rebalance policies.

| Theorem | Property |
|---|---|
| `Balance` | `BalanceIsKept`: no call meets a state the code takes for impossible, and after each call all leaves are equally deep, parents and children point to each other, and every node is within its bounds |
| `Convergence` | `RefillConverges`: the guard of the refill loop never ends it: at least four rounds are left when the loop stops |

The assumptions are `CapacityAssumption` and `TiersAssumption` (capacities of three or more, tiers
that ascend), `RebalanceAssumption`, and that what is put has a key and an id
(`NewEntriesAssumption`, `NullAssumption`).

`NodesProofs` says of each operator of `Nodes` what it leaves alone. A node has a content (its
entries, or its children and as many cached keys) and a place (its parent and its slot
there). A step changes the content of two siblings and the places of the children
that change hands (`Borrows`), of one node and a new one (`Halved`), or of no more than the cached keys on a
path. That cached keys are right is not part of the invariant: what the steps do to
the shape of a tree does not depend on them.

Between two levels the tree is not balanced, and no bound in `BalanceIsKept` holds
there; so the invariant, `Balanced`, says what a call under way has left to do:

* `Shape(s, h, x, y)`: nodes and heights agree, each parent is one above its
  children and holds each of them once at the slot it knows, but for a node `x` that no parent
  holds yet, and a node `y` that was emptied and that its parent still holds. The height of a node never
  changes, so that leaves stay equally deep is a local fact about parent and child. Dead slots matter:
  the index a child knows counts them (`Placed`).
* `Filled(s, h, y, E)`: every node is within its bounds but those in `E`, which
  may hold too little: the parent of a node that was merged away, or the leaf a range was spliced from.
* `Ready`, `Adding` and `Removing` combine the two with what `todo` asks for: nothing, to hang
  `x` behind its sibling of the same height, or to take out `y`.
* `Refilling` counts: guard and entries of the leaf together are never fewer than
  `minLeafEntries + 4`, since each round that spends one of the guard borrows an entry; when a merge takes the
  leaf away, the code's test (`children[indexInParent] !== leaf`) notices it, because
  its parent no longer holds it (`Gone`); that no dead slot deceives the test is
  `SlotsStayKnown`, above.

For every operator there is one lemma that takes `Ready`, `Adding` or `Removing` to one
of them, and one step of `BalancedNext` for each action of `Balancing`. What is counted
(`HalvesAreFilled`, the sums of a merge) needs the capacities to be three or more, and that the
least occupancy is that of the first tier, while the capacities may have grown.

### Only model-checked

* Liveness (`EveryCallSettles`): outside the prover, but for its safety half (10 above).
* `BPlusTree`, `Integrity`, `Serialization` and `Iterators`, whose operators are
  recursive in the depth of the tree or the length of the leaf chain: a lemma about
  one of them would be an induction over the tree. So the leaf chain and the end
  pointers (`PointersAgree`), the cached keys (`KeysGuideTheDescent`) and `BookkeepingAgrees`,
  the answers of the calls and the lookups, the refinement of `InMemoryBTree`
  (`ImplementsInMemoryBTree`), what `assertInvariants` decides, the round trip and the
  traversals are checked by TLC. What is proved lies around them: the arrays a node is
  made of, the balance of the nodes, and the ordered tree that they implement.
* A traversal whose own leaf is changed: `EveryYieldIsAnEntry` says what it still promises,
  and the code breaks it (run `doc_iterator`). Nothing else is claimed of such a
  traversal.

## 5. Not modelled

* What the function given to `syncThenRead` does: one that awaits another call of
  the same instance would wait for itself if the queue awaited it.
* Aliasing: a caller that changes an array it has handed to a call still queued.
  Arguments are values here.
* Comparators that are not total orders, or throw, and with them the checks of the
  comparator in `integrity-helpers.ts`, which always pass. A comparator that throws
  in a `put` that was appended poisons the log as an overflow does.
* The shared `_cursor`: lookups answer with a place of their own. The binary
  searches themselves, modelled by the position they find.
* The shape checks of a mutation in `concurrency/helpers.ts`: one failure
  (`SyncRejects`) stands for all of them, and it may strike any sync; an instance
  itself only appends mutations that its own methods have built.
* `errors.ts` and the entry points, which have no behaviour, and the scripts for
  build, tests and benchmarks.

## 6. Plan

Done: the coordinator with its refinement, its liveness and the proofs of its
safety; the ordered tree with the proofs of its ids, its evaluators and its clone; the
nodes with their refinement, and the proofs that they stay balanced; the arrays under
them, with the proofs for leaves and branches; integrity checks and statistics;
serialization; traversals under mutation.

What is left, in this order:

1. The cached keys: `KeysGuideTheDescent` for trees of any size, on top of the lemmas of
   `NodesProofs`, which so far say only that there are as many keys as children.
2. The capacities under auto-scaling, which `BookkeepingAgrees` relates to the number of
   entries: a theorem about the operators of `Capacities` for every list of tiers.
3. The sizes of the nodes that a bulk load builds (`computeChunkBoundaries`): a theorem
   that every chunk is within the capacities for every number of entries. It needs
   the boundaries as a function of the chunk's number in place of the loop.
4. `Validation`: the checks of `concurrency/helpers.ts` on a log that others have
   written, so that `SyncRejects` splits into the failures it stands for.
