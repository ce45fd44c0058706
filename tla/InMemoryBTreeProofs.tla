------------------------ MODULE InMemoryBTreeProofs ------------------------
(***************************************************************************)
(* Theorems about InMemoryBTree.tla, for every policy, every counter limit   *)
(* and every set of calls.  The invariant is WellFormed(tree): the lemmas of *)
(* OrderedTreeProofs.tla say what a mutation makes of a well-formed tree;    *)
(* what is left is clone, whose order of the entries is a bijection between  *)
(* them and their ranks.                                                     *)
(***************************************************************************)
EXTENDS InMemoryBTree, OrderedTreeProofs

-----------------------------------------------------------------------------
(* The order of the entries. *)

LEMMA PrecedesOrders ==
  ASSUME NEW t, WellFormed(t)
  PROVE  \A c, d, e \in t.entries :
            /\ d = e \/ Precedes(d, e) \/ Precedes(e, d)
            /\ Precedes(d, e) => ~Precedes(e, d) /\ d # e
            /\ Precedes(c, d) /\ Precedes(d, e) => Precedes(c, e)
<1>1. \A e \in t.entries : e.key \in Int /\ e.entryId \in Int
  BY DEF WellFormed, IsEntry
<1> QED BY <1>1 DEF WellFormed, Precedes

LEMMA RankTyped ==
  ASSUME NEW t, WellFormed(t), NEW S \in SUBSET t.entries, NEW e \in S
  PROVE  /\ Rank(S, e) \in 1..Cardinality(S)
         /\ IsFiniteSet(S) /\ Cardinality(S) \in Nat
         /\ \A d \in S : Precedes(d, e) => Rank(S, d) < Rank(S, e)
<1> DEFINE Below(d) == {c \in S : Precedes(c, d)}
<1>1. IsFiniteSet(S) /\ Cardinality(S) \in Nat
  BY FS_Subset, FS_CardinalityType DEF WellFormed
<1>2. \A d \in S : IsFiniteSet(Below(d)) /\ Cardinality(Below(d)) \in Nat
  BY <1>1, FS_Subset, FS_CardinalityType
<1>3. Cardinality(Below(e)) <= Cardinality(S) - 1
  <2>1. e \notin Below(e)
    BY PrecedesOrders
  <2>2. Below(e) \subseteq S \ {e}
    BY <2>1
  <2>3. IsFiniteSet(S \ {e}) /\ Cardinality(S \ {e}) = Cardinality(S) - 1
    BY <1>1, FS_RemoveElement
  <2> HIDE DEF Below
  <2>4. Cardinality(Below(e)) <= Cardinality(S \ {e})
    BY <2>2, <2>3, FS_Subset
  <2> QED BY <2>3, <2>4
<1>4. ASSUME NEW d \in S, Precedes(d, e) PROVE Cardinality(Below(d)) < Cardinality(Below(e))
  <2>1. d \in Below(e) /\ d \notin Below(d)
    BY <1>4, PrecedesOrders
  <2>2. Below(d) \subseteq Below(e)
    BY <1>4, PrecedesOrders
  <2>3. Below(d) \subseteq Below(e) \ {d}
    BY <2>1, <2>2
  <2> HIDE DEF Below
  <2>4. IsFiniteSet(Below(e) \ {d})
        /\ Cardinality(Below(e) \ {d}) = Cardinality(Below(e)) - 1
    BY <1>2, <2>1, FS_RemoveElement
  <2>5. Cardinality(Below(d)) <= Cardinality(Below(e) \ {d})
    BY <2>3, <2>4, FS_Subset
  <2> QED BY <1>2, <2>4, <2>5
<1>5. \A d \in S : Rank(S, d) = 1 + Cardinality(Below(d))
  BY DEF Rank
<1> HIDE DEF Below
<1> QED BY <1>1, <1>2, <1>3, <1>4, <1>5

(* InOrder lists each entry once, at its rank. *)
LEMMA InOrderLists ==
  ASSUME NEW t, WellFormed(t), NEW S \in SUBSET t.entries
  PROVE  /\ InOrder(S) \in [1..Cardinality(S) -> S] /\ Cardinality(S) \in Nat
         /\ \A i \in 1..Cardinality(S) : Rank(S, InOrder(S)[i]) = i
         /\ \A e \in S : InOrder(S)[Rank(S, e)] = e
<1> DEFINE n == Cardinality(S)
           f == [e \in S |-> Rank(S, e)]
<1>1. IsFiniteSet(S) /\ n \in Nat
  BY FS_Subset, FS_CardinalityType DEF WellFormed
<1>2. \A e \in S : /\ Rank(S, e) \in 1..n
                   /\ \A d \in S : Precedes(d, e) => Rank(S, d) < Rank(S, e)
  BY RankTyped
<1>3. \A d, e \in S : Rank(S, d) = Rank(S, e) => d = e
  BY <1>2, PrecedesOrders
<1>4. f \in [S -> 1..n] /\ \A e \in S : f[e] = Rank(S, e)
  BY <1>2
<1> HIDE DEF f
<1>5. f \in Injection(S, 1..n)
  BY <1>3, <1>4 DEF Injection, IsInjective
<1>6. IsFiniteSet(1..n) /\ Cardinality(1..n) = n
  BY <1>1, FS_Interval
<1>7. f \in Surjection(S, 1..n)
  BY <1>5, <1>6, FS_Injection
<1>8. \A i \in 1..n : \E e \in S : Rank(S, e) = i
  BY <1>4, <1>7 DEF Surjection
<1>9. \A i \in 1..n : InOrder(S)[i] \in S /\ Rank(S, InOrder(S)[i]) = i
  BY <1>8 DEF InOrder
<1>10. InOrder(S) \in [1..n -> S]
  <2>1. InOrder(S) = [i \in 1..n |-> InOrder(S)[i]]
    BY DEF InOrder
  <2> QED BY <1>9, <2>1
<1>11. \A e \in S : InOrder(S)[Rank(S, e)] = e
  BY <1>2, <1>3, <1>9
<1> QED BY <1>1, <1>9, <1>10, <1>11

(* The first and the last of some entries are the ends of that list. *)
LEMMA EndsOf ==
  ASSUME NEW t, WellFormed(t), NEW S \in SUBSET t.entries, S # {}
  PROVE  /\ FirstOf(S) \in S /\ \A d \in S : d = FirstOf(S) \/ Precedes(FirstOf(S), d)
         /\ LastOf(S) \in S /\ \A d \in S : d = LastOf(S) \/ Precedes(d, LastOf(S))
<1> DEFINE n == Cardinality(S)
           a == InOrder(S)[1]
           z == InOrder(S)[n]
<1>1. n \in Nat /\ n >= 1
  BY RankTyped
<1>2. 1 \in 1..n /\ n \in 1..n
  BY <1>1
<1>3. a \in S /\ z \in S /\ Rank(S, a) = 1 /\ Rank(S, z) = n
  BY <1>2, InOrderLists
<1>4. \A d \in S : Rank(S, d) \in 1..n
                   /\ \A e \in S : Precedes(e, d) => Rank(S, e) < Rank(S, d)
  BY RankTyped
<1> HIDE DEF a, z, n
<1>5. \A d \in S : d = a \/ Precedes(a, d)
  <2>1. \A d \in S : ~Precedes(d, a)
    BY <1>1, <1>3, <1>4
  <2> QED BY <1>3, <2>1, PrecedesOrders
<1>6. \A d \in S : d = z \/ Precedes(d, z)
  <2>1. \A d \in S : ~Precedes(z, d)
    BY <1>1, <1>3, <1>4
  <2> QED BY <1>3, <2>1, PrecedesOrders
<1> QED BY <1>3, <1>5, <1>6 DEF FirstOf, LastOf

-----------------------------------------------------------------------------
(* clone *)

LEMMA InOrderAscends ==
  ASSUME NEW t, WellFormed(t)
  PROVE  Entries(InOrder(t.entries)) /\ Ascending(InOrder(t.entries))
         /\ Len(InOrder(t.entries)) = Cardinality(t.entries)
<1> DEFINE n == Cardinality(t.entries)
           s == InOrder(t.entries)
<1>1. /\ s \in [1..n -> t.entries] /\ n \in Nat
      /\ \A i \in 1..n : Rank(t.entries, s[i]) = i
  BY InOrderLists
<1>2. \A i \in 1..n : s[i] \in t.entries /\ s[i].key \in Int /\ s[i].entryId \in Nat
  BY <1>1 DEF WellFormed, IsEntry
<1>3. \A d, e \in t.entries : Precedes(d, e) => Rank(t.entries, d) < Rank(t.entries, e)
  BY RankTyped
<1> HIDE DEF s, n
<1>4. s \in Seq(t.entries) /\ Len(s) = n /\ DOMAIN s = 1..n
  BY <1>1, SeqDef, LenProperties
<1>5. Entries(s)
  <2>1. \A i \in 1..n : s[i] \in Seqs!ToSet(s)
    BY <1>4 DEF Seqs!ToSet
  <2>2. s \in [1..n -> Seqs!ToSet(s)]
    BY <1>1, <2>1
  <2>3. s \in Seq(Seqs!ToSet(s))
    BY <1>1, <2>2, SeqDef
  <2> QED BY <1>2, <1>4, <2>3 DEF Entries
<1>6. ASSUME NEW i \in 2..Len(s)
      PROVE  \/ s[i - 1].key < s[i].key
             \/ s[i - 1].key = s[i].key /\ DuplicateKeys = "allow"
  <2>1. i \in 1..n /\ i - 1 \in 1..n /\ ~(i < i - 1)
    BY <1>1, <1>4
  <2>2. ~Precedes(s[i], s[i - 1]) /\ s[i] # s[i - 1]
    BY <1>1, <1>2, <1>3, <2>1
  <2>3. Precedes(s[i - 1], s[i])
    BY <1>2, <2>1, <2>2, PrecedesOrders
  <2>4. s[i - 1].key = s[i].key => DuplicateKeys = "allow"
    BY <1>2, <2>1, <2>2 DEF WellFormed
  <2> QED BY <2>3, <2>4 DEF Precedes
<1>7. Ascending(s)
  BY <1>6 DEF Ascending
<1> QED BY <1>4, <1>5, <1>7 DEF s, n

(* There are no more entries than ids. *)
LEMMA EntriesFit ==
  ASSUME NEW t, WellFormed(t)
  PROVE  Cardinality(t.entries) \in Nat /\ Cardinality(t.entries) <= MaxSequence
<1> DEFINE n == t.nextSequence
           f == [e \in t.entries |-> e.entryId]
<1>1. n \in Nat /\ n <= MaxSequence /\ MaxSequence \in Nat /\ IsFiniteSet(t.entries)
  BY SequenceAssumption DEF WellFormed, Counted
<1>2. \A e \in t.entries : e.entryId \in 0..(n - 1)
  BY <1>1 DEF WellFormed, IsEntry
<1>3. f \in [t.entries -> 0..(n - 1)] /\ \A e \in t.entries : f[e] = e.entryId
  BY <1>2
<1> HIDE DEF f
<1>4. f \in Injection(t.entries, 0..(n - 1))
  BY <1>3 DEF WellFormed, Injection, IsInjective
<1>5. IsFiniteSet(0..(n - 1)) /\ Cardinality(0..(n - 1)) = n
  <2>1. 0 \in Int /\ n - 1 \in Int /\ (IF 0 > n - 1 THEN 0 ELSE (n - 1) - 0 + 1) = n
    BY <1>1
  <2> QED BY <2>1, FS_Interval
<1>6. Cardinality(t.entries) <= n
  BY <1>4, <1>5, FS_Injection
<1> QED BY <1>1, <1>6, FS_CardinalityType

(* The copy: the same keys and values in the same order, under ids that      *)
(* start anew.                                                               *)
Renumbered(t) ==
    [entries |-> {[key |-> e.key, entryId |-> Rank(t.entries, e) - 1, value |-> e.value] :
                     e \in t.entries},
     nextSequence |-> Cardinality(t.entries)]

LEMMA CloneRenumbers ==
  ASSUME NEW t, WellFormed(t)
  PROVE  PutMany(EmptyTree, InOrder(t.entries)) =
           Returned(Renumbered(t), Numbered(0, Cardinality(t.entries)))
<1> DEFINE n == Cardinality(t.entries)
           s == InOrder(t.entries)
           E(e) == [key |-> e.key, entryId |-> Rank(t.entries, e) - 1, value |-> e.value]
           L(i) == [key |-> s[i].key, entryId |-> 0 + i - 1, value |-> s[i].value]
<1>1. n \in Nat /\ n <= MaxSequence /\ MaxSequence \in Nat
  BY EntriesFit, SequenceAssumption
<1>2. Entries(s) /\ Ascending(s) /\ Len(s) = n
  BY InOrderAscends
<1>3. /\ s \in [1..n -> t.entries]
      /\ \A i \in 1..n : Rank(t.entries, s[i]) = i
      /\ \A e \in t.entries : s[Rank(t.entries, e)] = e
  BY InOrderLists
<1>4. \A e \in t.entries : Rank(t.entries, e) \in 1..n
  BY RankTyped
<1>5. DOMAIN s = 1..n
  BY <1>3
<1> HIDE DEF s
<1>6. {L(i) : i \in 1..n} = {E(e) : e \in t.entries}
  <2>1. \A i \in 1..n : s[i] \in t.entries /\ L(i) = E(s[i])
    BY <1>3
  <2>2. \A e \in t.entries : Rank(t.entries, e) \in 1..n /\ E(e) = L(Rank(t.entries, e))
    BY <1>3, <1>4
  <2> HIDE DEF L, E
  <2> QED BY <2>1, <2>2
<1>7. LoadedFrom(0, s) = Returned(Renumbered(t), Numbered(0, n))
  <2>1. LoadedFrom(0, s) = Returned([entries |-> {L(i) : i \in 1..n}, nextSequence |-> 0 + n],
                                    [i \in 1..n |-> 0 + i - 1])
    BY <1>2, <1>5 DEF LoadedFrom
  <2>2. 0 + n = n
    BY <1>1
  <2> QED BY <1>6, <2>1, <2>2 DEF Renumbered, Numbered
<1>8. CASE s = <<>>
  <2>1. n = 0 /\ PutMany(EmptyTree, s) = Returned(EmptyTree, <<>>)
    BY <1>2, <1>8 DEF PutMany
  <2>2. t.entries = {}
    BY <1>4, <2>1
  <2>3. {E(e) : e \in t.entries} = {}
    BY <2>2
  <2>4. Renumbered(t) = EmptyTree
    BY <2>1, <2>3 DEF Renumbered, EmptyTree
  <2>5. Numbered(0, n) = <<>>
    BY <2>1 DEF Numbered
  <2> QED BY <2>1, <2>4, <2>5 DEF s
<1>9. CASE s # <<>>
  <2>1. EmptyTree.entries = {} /\ EmptyTree.nextSequence = 0
    BY DEF EmptyTree
  <2>2. PutMany(EmptyTree, s) = BulkLoad(EmptyTree, s)
    BY <1>2, <1>9, <2>1 DEF PutMany
  <2>3. ~(EmptyTree.nextSequence + Len(s) > MaxSequence)
    BY <1>1, <1>2, <2>1
  <2>4. PutMany(EmptyTree, s) = LoadedFrom(0, s)
    BY <2>1, <2>2, <2>3 DEF BulkLoad
  <2> QED BY <1>7, <2>4 DEF s
<1> QED BY <1>8, <1>9

LEMMA CloneIsWellFormed ==
  ASSUME NEW t, WellFormed(t)
  PROVE  WellFormed(PutMany(EmptyTree, InOrder(t.entries)).tree)
  BY InOrderAscends, EmptyIsWellFormed, PutManyFollows DEF Putting, Follows

-----------------------------------------------------------------------------
(* The theorems. *)

LEMMA TreeStep ==
  ASSUME \A m \in Mutations : IsMutation(m)
  PROVE  WellFormed(tree) /\ [Next]_tree => WellFormed(tree)'
<1> SUFFICES ASSUME WellFormed(tree), [Next]_tree PROVE WellFormed(tree')
  OBVIOUS
<1>1. CASE Clone
  BY <1>1, CloneIsWellFormed DEF Clone
<1>2. ASSUME NEW m \in Mutations, Call(m) PROVE WellFormed(tree')
  BY <1>2, ApplyFollows DEF Call, Follows
<1>3. CASE UNCHANGED tree
  BY <1>3
<1> QED BY <1>1, <1>2, <1>3 DEF Next

(* Whatever is called: the entries have ids of their own, below the counter, *)
(* and under reject and replace keys of their own.                           *)
THEOREM TreeIsWellFormed ==
  ASSUME \A m \in Mutations : IsMutation(m)
  PROVE  Spec => []WellFormed(tree)
<1>1. Init => WellFormed(tree)
  BY EmptyIsWellFormed DEF Init
<1> QED BY <1>1, TreeStep, PTL DEF Spec

(* The evaluators of writeOps.ts are right about every reachable tree and    *)
(* every mutation of any size, under every duplicate policy.                 *)
THEOREM EvaluatorsAreRight ==
  ASSUME \A m \in Mutations : IsMutation(m)
  PROVE  Spec => []EvaluatorsAgreeWithTheTree
<1>1. WellFormed(tree) => EvaluatorsAgreeWithTheTree
  BY VerdictIsRight DEF WellFormed, EvaluatorsAgreeWithTheTree
<1> QED BY <1>1, TreeIsWellFormed, PTL

(* No call brings back an id, a bulk load of an emptied tree and an update   *)
(* in place included.                                                        *)
THEOREM IdsAreNeverReused ==
  ASSUME \A m \in Mutations : IsMutation(m)
  PROVE  Spec => IdsNeverReturn
<1> DEFINE New == \/ Clone
                  \/ /\ tree'.nextSequence >= tree.nextSequence
                     /\ \A id \in Ids(tree') \ Ids(tree) : id >= tree.nextSequence
<1>1. WellFormed(tree) /\ [Next]_tree => [New]_tree
  <2> SUFFICES ASSUME WellFormed(tree), NEW m \in Mutations, Call(m) PROVE New
    BY DEF Next
  <2>1. Follows(tree', tree)
    BY ApplyFollows DEF Call
  <2> QED BY <2>1 DEF Follows, EntryIds, Ids
<1> QED BY <1>1, TreeIsWellFormed, PTL DEF Spec, IdsNeverReturn

(* A clone has the same keys and values in the same order, and ids that      *)
(* count from zero; it never fails for want of ids.                          *)
THEOREM ClonesAreFaithful ==
  ASSUME \A m \in Mutations : IsMutation(m)
  PROVE  Spec => [][Clone => tree' = Renumbered(tree)]_tree
<1>1. WellFormed(tree) => [Clone => tree' = Renumbered(tree)]_tree
  <2> SUFFICES ASSUME WellFormed(tree), Clone PROVE tree' = Renumbered(tree)
    OBVIOUS
  <2>1. PutMany(EmptyTree, InOrder(tree.entries)) =
          Returned(Renumbered(tree), Numbered(0, Cardinality(tree.entries)))
    BY CloneRenumbers
  <2>2. PutMany(EmptyTree, InOrder(tree.entries)).tree = Renumbered(tree)
    BY <2>1 DEF Returned
  <2> QED BY <2>2 DEF Clone
<1> QED BY <1>1, TreeIsWellFormed, PTL

(* Of any entries of the tree there is a first and a last one, so that what  *)
(* pop and remove take out is determined.                                    *)
THEOREM EndsAreDetermined ==
  ASSUME \A m \in Mutations : IsMutation(m)
  PROVE  Spec => [](\A S \in SUBSET tree.entries : S # {} =>
            /\ FirstOf(S) \in S /\ \A d \in S : d = FirstOf(S) \/ Precedes(FirstOf(S), d)
            /\ LastOf(S) \in S /\ \A d \in S : d = LastOf(S) \/ Precedes(d, LastOf(S)))
<1> DEFINE Ends == \A S \in SUBSET tree.entries : S # {} =>
            /\ FirstOf(S) \in S /\ \A d \in S : d = FirstOf(S) \/ Precedes(FirstOf(S), d)
            /\ LastOf(S) \in S /\ \A d \in S : d = LastOf(S) \/ Precedes(d, LastOf(S))
<1>1. WellFormed(tree) => Ends
  BY EndsOf
<1> QED BY <1>1, TreeIsWellFormed, PTL
=============================================================================
