--------------------------- MODULE InMemoryBTree ---------------------------
(***************************************************************************)
(* InMemoryBTree as its callers see it: one tree, one mutating call at a     *)
(* time.  The calls are the mutations of OrderedTree.tla, and clone, after   *)
(* which the caller goes on with the copy.  BPlusTree.tla, which has the     *)
(* nodes, implements this specification.                                     *)
(***************************************************************************)
EXTENDS OrderedTree

CONSTANTS
    Mutations,          \* the calls the callers make
    Cloning             \* whether they go on with a clone

VARIABLE tree

Init == tree = EmptyTree

Call(m) == tree' = Apply(tree, m).tree

(* clone: the entries of collectInternalEntries, in a tree of their own.     *)
Rank(S, e) == 1 + Cardinality({d \in S : Precedes(d, e)})
InOrder(S) == [i \in 1..Cardinality(S) |-> CHOOSE e \in S : Rank(S, e) = i]
Clone == Cloning /\ tree' = PutMany(EmptyTree, InOrder(tree.entries)).tree

Next == Clone \/ \E m \in Mutations : Call(m)

Spec == Init /\ [][Next]_tree

-----------------------------------------------------------------------------
Ids(t) == {e.entryId : e \in t.entries}

(* An id that has left the tree never comes back: not through clear, not     *)
(* through the bulk load of an emptied tree (InMemoryBTree.ts:152,           *)
(* bulkLoad.ts:81).  A clone is another tree and starts its ids anew.        *)
IdsNeverReturn ==
    [][\/ Clone
       \/ /\ tree'.nextSequence >= tree.nextSequence
          /\ \A id \in Ids(tree') \ Ids(tree) : id >= tree.nextSequence]_tree

(* What the evaluators of writeOps.ts rely on, at every reachable tree: a    *)
(* call judged "invalid" would throw, one judged "nothing" would change      *)
(* nothing, and one judged "append" throws only when the sequence counter is *)
(* exhausted.  The last is why an appended mutation may be replayed by       *)
(* every peer without being judged again.                                    *)
EvaluatorsAgreeWithTheTree ==
    \A m \in Mutations :
        LET verdict == Evaluate(tree, m)
            done == Apply(tree, m)
        IN  /\ verdict = "invalid" => done.threw
            /\ verdict = "nothing" => ~done.threw /\ done.tree = tree
            /\ verdict = "append" => (done.threw => Overflows(tree, m))
=============================================================================
