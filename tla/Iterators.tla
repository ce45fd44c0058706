----------------------------- MODULE Iterators -----------------------------
(***************************************************************************)
(* A traversal of the tree whose caller mutates the tree on the way: the     *)
(* generators entries, entriesReversed, keys and values between two calls of *)
(* next(), forEach and forEachRange inside a callback.  The traversal holds  *)
(* a leaf and, from the moment it arrived there, the number of entries it    *)
(* will read from it; a call may split, merge, refill or drop that leaf.     *)
(***************************************************************************)
EXTENDS BPlusTree

CONSTANT Traversals     \* [kind, range]; range is Null but for forEachRange

VARIABLE iter
vars == <<state, iter>>

(* The leaf is one of the tree, or one of the chain the tree has dropped,    *)
(* which only the traversal still holds and nothing changes any more.        *)
Home(it) == IF it.dropped = Null THEN state ELSE it.dropped

Behind(home, it, leaf) ==
    IF it.kind = "entriesReversed" THEN PrevLeaf(home, leaf) ELSE NextLeaf(home, leaf)

(* How many entries are read from the leaf, and whether it is the last one:  *)
(* leafEntryCount on arrival, for a range up to its end.                     *)
Limit(home, it, leaf) ==
    IF it.range = Null THEN Count(home, leaf) ELSE FindBoundaryEnd(home, leaf, it.range)

Finished(it) == [it EXCEPT !.phase = "done", !.leaf = None, !.limit = 0, !.taken = 0,
                           !.dropped = Null]

RECURSIVE Arrive(_, _, _, _)
Arrive(home, it, leaf, index) ==
    CASE leaf = None -> Finished(it)
      [] leaf # None /\ index >= Count(home, leaf) -> Arrive(home, it, Behind(home, it, leaf), 0)
      [] leaf # None /\ index < Count(home, leaf) /\ Limit(home, it, leaf) <= index ->
           Finished(it)
      [] OTHER -> [it EXCEPT !.leaf = leaf, !.taken = index, !.limit = Limit(home, it, leaf),
                             !.final = Limit(home, it, leaf) < Count(home, leaf)]

Start(it) ==
    LET running == [it EXCEPT !.phase = "running"]
        from == StartPlace(state, it.range)
    IN  CASE it.kind = "forEachRange" ->
               IF state.entryCount = 0 \/ IsEmptyRange(it.range) THEN Finished(it)
               ELSE Arrive(state, running, from.leaf, from.index - 1)
          [] it.kind = "entriesReversed" -> Arrive(state, running, state.rightmostLeaf, 0)
          [] OTHER -> Arrive(state, running, state.leftmostLeaf, 0)

(* Faulty variant of Proceed: the count of the first leaf serves for all.    *)
ProceedWithOldCount(it) ==
    LET next == Behind(Home(it), it, it.leaf)
    IN  CASE it.taken < it.limit -> it
          [] it.taken = it.limit /\ (it.final \/ next = None) -> Finished(it)
          [] OTHER -> [it EXCEPT !.leaf = next, !.taken = 0]
Proceed(it) ==
    CASE it.taken < it.limit -> it
      [] it.taken = it.limit /\ it.final -> Finished(it)
      [] OTHER -> Arrive(Home(it), it, Behind(Home(it), it, it.leaf), 0)

(* The entry in the next slot that was counted; a slot that the leaf no      *)
(* longer has yields undefined, and keys and values read a field of that.    *)
Read(it) ==
    LET slot == IF it.kind = "entriesReversed" THEN it.limit - it.taken ELSE it.taken + 1
        entries == Entries(Home(it), it.leaf)
        read == IF slot \in DOMAIN entries THEN NodeKey(entries[slot]) ELSE Null
    IN  IF read = Null /\ it.kind = "keys"
        THEN [Finished(it) EXCEPT !.phase = "threw"]
        ELSE [it EXCEPT !.taken = @ + 1, !.seen = Append(@, read)]

Tracked(s) == LET entries == Contents(s) IN {NodeKey(entries[i]) : i \in DOMAIN entries}
InTraversal(it, S) ==
    IF it.range = Null THEN S
    ELSE InRange([entries |-> S], it.range.startKey, it.range.endKey, it.range.options)

(* One call of next(), or one round of a callback. *)
Advance ==
    LET at == IF iter.phase = "ready" THEN Start(iter) ELSE Proceed(iter)
        owed == IF iter.phase = "ready" THEN InTraversal(iter, Tracked(state)) ELSE iter.owed
        tracked == [at EXCEPT !.owed = owed]
    IN  /\ iter.phase \in {"ready", "running"}
        /\ iter' = IF at.phase = "running" THEN Read(tracked) ELSE tracked
        /\ UNCHANGED state

-----------------------------------------------------------------------------
(* What a call does to the leaf the traversal holds. *)

(* clear and a bulk load begin new nodes and leave the old chain as it is.   *)
BeginsAnew(m, done) ==
    \/ m.type = "clear"
    \/ m.type = "putMany" /\ state.entryCount = 0 /\ ~done.threw /\ m.entries # <<>>

RECURSIVE ChainFrom(_, _, _)
ChainFrom(home, it, leaf) ==
    IF leaf = None THEN <<>>
    ELSE <<Entries(home, leaf)>> \o ChainFrom(home, it, Behind(home, it, leaf))

Dropped(home, it) ==
    LET chain == ChainFrom(home, it, it.leaf)
        After(i) == IF i = Len(chain) THEN None ELSE i + 1
        back == it.kind = "entriesReversed"
        Leaf(i) == [LeafNode(chain[i], None) EXCEPT !.prev = IF back THEN After(i) ELSE None,
                                                    !.next = IF back THEN None ELSE After(i)]
    IN  [it EXCEPT !.dropped = [nodes |-> [i \in DOMAIN chain |-> Leaf(i)]], !.leaf = 1]

Hold(it, m, done) ==
    LET order == Subtree(done.tree, done.tree.root)
    IN  CASE it.leaf = None \/ it.dropped # Null -> it
          [] it.leaf # None /\ it.dropped = Null /\ BeginsAnew(m, done) -> Dropped(state, it)
          [] it.leaf # None /\ it.dropped = Null /\ ~BeginsAnew(m, done)
               /\ it.leaf \in Seqs!ToSet(order) ->
               [it EXCEPT !.leaf = Seqs!SelectInSeq(order, LAMBDA n : n = it.leaf)]
          [] OTHER -> Dropped(done.tree, it)

(* The history: whether a call has changed the held leaf, or taken it from   *)
(* the tree, and the entries that the traversal still owes its caller if     *)
(* none has: those of the start that stay, and the new ones ahead of it.     *)
LeafKeys(s, leaf) == [i \in 1..Count(s, leaf) |-> NodeKey(Entries(s, leaf)[i])]
Ahead(it, e) ==
    IF it.kind = "entriesReversed" THEN Precedes(e, Head(Entries(state, it.leaf)))
    ELSE Precedes(Seqs!Last(Entries(state, it.leaf)), e)

Track(it, after, now) ==
    LET holds == it.leaf # None
        spoiled == holds /\ (it.dropped # Null \/ LeafKeys(after, it.leaf) # LeafKeys(state, iter.leaf))
        came == {e \in InTraversal(it, now \ Tracked(state)) : holds /\ Ahead(iter, e)}
    IN  IF it.disturbed \/ spoiled
        THEN [it EXCEPT !.disturbed = TRUE, !.owed = {}, !.seen = <<>>]
        ELSE [it EXCEPT !.owed = (@ \intersect now) \union came]

CallAnd(m, done, after) ==
    /\ state' = after
    /\ iter' = IF iter.phase = "running"
               THEN Track(Hold(iter, m, done), after, Tracked(after)) ELSE iter
CallMeanwhile(m) == LET done == Perform(state, m) IN CallAnd(m, done, Collect(done.tree))

Ready(t) == [kind |-> t.kind, range |-> t.range, phase |-> "ready", leaf |-> None,
             limit |-> 0, taken |-> 0, final |-> FALSE, dropped |-> Null,
             seen |-> <<>>, owed |-> {}, disturbed |-> FALSE]

TraverseInit == iter \in {Ready(t) : t \in Traversals}
TraverseNext == Advance \/ \E m \in Mutations : CallMeanwhile(m)
TraverseSpec == Init /\ TraverseInit /\ [][TraverseNext]_vars

-----------------------------------------------------------------------------
(* As long as no call changes the leaf that is being read, whatever calls do *)
(* to the others, split, refill and merge them, a traversal stays in order,  *)
(* reads no entry twice and, when it ends, has read every entry that was     *)
(* there all the time or came ahead of it.  Without any call that is each    *)
(* entry exactly once (InMemoryBTree.ts:221-256, rangeQuery.ts:238).         *)
TraversalIsFaithful ==
    LET backward == iter.kind = "entriesReversed"
    IN  ~iter.disturbed =>
          /\ iter.phase # "threw" /\ Null \notin Seqs!ToSet(iter.seen)
          /\ \A i \in 2..Len(iter.seen) :
                IF backward THEN Precedes(iter.seen[i], iter.seen[i - 1])
                            ELSE Precedes(iter.seen[i - 1], iter.seen[i])
          /\ iter.phase = "done" => iter.owed \subseteq Seqs!ToSet(iter.seen)

(* What the specification says of entries(): each value it yields is an      *)
(* entry, whatever calls come between (01_in-memory-btree.md:129).           *)
EveryYieldIsAnEntry == Null \notin Seqs!ToSet(iter.seen)
=============================================================================
