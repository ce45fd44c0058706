-------------------------- MODULE OrderedTreeProofs --------------------------
(***************************************************************************)
(* Lemmas about the operations of OrderedTree.tla, for trees, batches and    *)
(* counters of every size.  A putMany is a fold, so this module first        *)
(* unfolds a fold, by induction in the form of the least counterexample.     *)
(* Then, for every operation: when it throws, that it leaves a well-formed   *)
(* tree, and that the ids it hands out are new.                              *)
(***************************************************************************)
EXTENDS OrderedTree, SequenceTheorems, FiniteSetTheorems, WellFoundedInduction, TLAPS

Less == {ss \in Nat \X Nat : ss[1] < ss[2]}

LEMMA LessIsWellFounded == IsWellFoundedOn(Less, Nat)
  BY NatLessThanWellFounded DEF OpToRel, Less

LEMMA LeastNumber ==
  ASSUME NEW T, T \subseteq Nat, T # {}
  PROVE  \E x \in T : \A y \in T : x <= y
<1>1. PICK x \in T : \A y \in T : <<y, x>> \notin Less
  BY LessIsWellFounded, WFMin
<1>2. ASSUME NEW y \in T, y < x PROVE FALSE
  BY <1>1, <1>2 DEF Less
<1> QED BY <1>2

-----------------------------------------------------------------------------
(* A fold from the left, as the sequence of its intermediate values. *)

(* One entry of a putMany, one mutation of a log. *)
PutStep(sofar, e) ==
    LET p == Put(sofar.tree, e.key, e.value)
    IN  CASE sofar.threw -> sofar
          [] ~sofar.threw /\ p.threw -> Thrown(sofar.tree)
          [] OTHER -> Returned(p.tree, Append(sofar.result, p.result))
StepOf(kind, v, x) == IF kind = "put" THEN PutStep(v, x) ELSE Apply(v, x).tree

(* The recursion inside FoldLeft, over the sets of positions. *)
Folds(g, kind, b, s, positions) ==
    g = [S \in SUBSET positions |->
            IF S = {} THEN b
            ELSE StepOf(kind, g[S \ {Seqs!Max(S)}], s[Seqs!Max(S)])]
Folded(kind, b, s) == (CHOOSE g : Folds(g, kind, b, s, DOMAIN s))[DOMAIN s]

(* r is the sequence of the intermediate values. *)
Unfolds(r, kind, b, s, n) ==
    /\ r[0] = b
    /\ \A k \in 1..n : r[k] = StepOf(kind, r[k - 1], s[k])

LEMMA GreatestPosition ==
  ASSUME NEW n \in Nat, NEW S \in SUBSET (1..n), n \in S
  PROVE  Seqs!Max(S) = n
<1>1. \A y \in S : n >= y /\ y \in Nat
  OBVIOUS
<1>2. \A x \in S : (\A y \in S : x >= y) => x = n
  BY <1>1
<1> QED BY <1>1, <1>2 DEF Seqs!Max

LEMMA FoldExtends ==
  ASSUME NEW kind, NEW b, NEW s, NEW n \in Nat, n > 0, NEW h, Folds(h, kind, b, s, 1..(n - 1))
  PROVE  \E g : Folds(g, kind, b, s, 1..n)
<1> DEFINE g == [S \in SUBSET (1..n) |->
                    IF n \in S THEN StepOf(kind, h[S \ {n}], s[n]) ELSE h[S]]
<1>1. ASSUME NEW S \in SUBSET (1..n)
      PROVE  g[S] = IF S = {} THEN b
                    ELSE StepOf(kind, g[S \ {Seqs!Max(S)}], s[Seqs!Max(S)])
  <2>1. CASE n \in S
    <3>1. Seqs!Max(S) = n
      BY <2>1, GreatestPosition
    <3>2. S \ {n} \in SUBSET (1..n) /\ n \notin S \ {n}
      OBVIOUS
    <3>3. g[S \ {n}] = h[S \ {n}]
      BY <3>2
    <3>4. g[S] = StepOf(kind, h[S \ {n}], s[n])
      BY <2>1
    <3> QED BY <2>1, <3>1, <3>3, <3>4
  <2>2. CASE n \notin S
    <3>1. S \in SUBSET (1..(n - 1))
      BY <2>2
    <3>2. S \ {Seqs!Max(S)} \in SUBSET (1..n) /\ n \notin S \ {Seqs!Max(S)}
      BY <2>2
    <3>3. g[S] = h[S] /\ g[S \ {Seqs!Max(S)}] = h[S \ {Seqs!Max(S)}]
      BY <2>2, <3>2
    <3>4. h[S] = IF S = {} THEN b
                 ELSE StepOf(kind, h[S \ {Seqs!Max(S)}], s[Seqs!Max(S)])
      BY <3>1 DEF Folds
    <3> QED BY <3>3, <3>4
  <2> QED BY <2>1, <2>2
<1>2. Folds(g, kind, b, s, 1..n)
  <2> DEFINE e == [S \in SUBSET (1..n) |->
                      IF S = {} THEN b
                      ELSE StepOf(kind, g[S \ {Seqs!Max(S)}], s[Seqs!Max(S)])]
  <2>1. \A S \in SUBSET (1..n) : g[S] = e[S]
    BY <1>1
  <2>2. g = [S \in SUBSET (1..n) |-> g[S]] /\ e = [S \in SUBSET (1..n) |-> e[S]]
    OBVIOUS
  <2> HIDE DEF g, e
  <2>3. g = e
    BY <2>1, <2>2, Zenon
  <2> QED BY <2>3 DEF Folds, e
<1> QED BY <1>2

LEMMA FoldExists ==
  ASSUME NEW kind, NEW b, NEW s, NEW n \in Nat
  PROVE  \E g : Folds(g, kind, b, s, 1..n)
<1> DEFINE T == {k \in Nat : ~\E g : Folds(g, kind, b, s, 1..k)}
<1>1. ASSUME T # {} PROVE FALSE
  <2>1. PICK k \in T : \A j \in T : k <= j
    BY <1>1, LeastNumber
  <2>2. CASE k = 0
    <3> DEFINE g == [S \in SUBSET (1..0) |-> b]
    <3>1. \A S \in SUBSET (1..0) : S = {}
      OBVIOUS
    <3>2. [S \in SUBSET (1..0) |-> IF S = {} THEN b
             ELSE StepOf(kind, g[S \ {Seqs!Max(S)}], s[Seqs!Max(S)])] = g
      BY <3>1
    <3>3. Folds(g, kind, b, s, 1..0)
      BY <3>2 DEF Folds
    <3>4. ~\E f : Folds(f, kind, b, s, 1..0)
      BY <2>1, <2>2
    <3> QED BY <3>3, <3>4
  <2>3. CASE k # 0
    <3>1. k \in Nat /\ k > 0 /\ k - 1 \in Nat /\ k - 1 \notin T
      BY <2>1, <2>3
    <3>2. PICK h : Folds(h, kind, b, s, 1..(k - 1))
      BY <3>1
    <3>3. \E g : Folds(g, kind, b, s, 1..k)
      BY <3>1, <3>2, FoldExtends
    <3> QED BY <2>1, <3>3
  <2> QED BY <2>2, <2>3
<1> QED BY <1>1

LEMMA FoldUnfolds ==
  ASSUME NEW kind, NEW b, NEW s, NEW n \in Nat, DOMAIN s = 1..n
  PROVE  \E r : Unfolds(r, kind, b, s, n) /\ r[n] = Folded(kind, b, s)
<1> DEFINE g == CHOOSE f : Folds(f, kind, b, s, DOMAIN s)
           r == [k \in 0..n |-> g[1..k]]
<1>1. Folds(g, kind, b, s, 1..n)
  BY FoldExists
<1> HIDE DEF g
<1>2. r[0] = b
  <2>1. 1..0 = {} /\ 0 \in 0..n /\ {} \in SUBSET (1..n)
    OBVIOUS
  <2>2. g[{}] = b
    BY <1>1, <2>1 DEF Folds
  <2>3. r[0] = g[1..0]
    BY <2>1
  <2> QED BY <2>1, <2>2, <2>3
<1>3. ASSUME NEW k \in 1..n PROVE r[k] = StepOf(kind, r[k - 1], s[k])
  <2>1. /\ k \in Nat /\ k \in 0..n /\ k - 1 \in 0..n /\ 1..k \in SUBSET (1..n)
        /\ k \in 1..k /\ 1..k # {}
    OBVIOUS
  <2>5. (1..k) \ {k} = 1..(k - 1)
    <3>1. \A i \in Int : i \in 1..k /\ i # k <=> i \in 1..(k - 1)
      OBVIOUS
    <3> QED BY <3>1
  <2>2. Seqs!Max(1..k) = k
    BY <2>1, GreatestPosition
  <2>3. g[1..k] = StepOf(kind, g[(1..k) \ {k}], s[k])
    <3>1. g[1..k] = IF 1..k = {} THEN b
                    ELSE StepOf(kind, g[(1..k) \ {Seqs!Max(1..k)}], s[Seqs!Max(1..k)])
      BY <1>1, <2>1 DEF Folds
    <3> QED BY <2>1, <2>2, <3>1
  <2>4. r[k] = g[1..k] /\ r[k - 1] = g[1..(k - 1)]
    BY <2>1
  <2> QED BY <2>3, <2>4, <2>5
<1>4. r[n] = Folded(kind, b, s)
  BY DEF g, Folded
<1> HIDE DEF r
<1> QED BY <1>2, <1>3, <1>4 DEF Unfolds

(* What is folded over equal elements is equal all along. *)
LEMMA UnfoldsAlike ==
  ASSUME NEW kind, NEW b, NEW s, NEW u, NEW n \in Nat, \A k \in 1..n : s[k] = u[k],
         NEW r, Unfolds(r, kind, b, s, n), NEW q, Unfolds(q, kind, b, u, n)
  PROVE  r[n] = q[n]
<1> DEFINE T == {k \in 0..n : r[k] # q[k]}
<1>1. ASSUME T # {} PROVE FALSE
  <2>1. PICK k \in T : \A j \in T : k <= j
    <3>1. T \subseteq Nat
      OBVIOUS
    <3> QED BY <1>1, <3>1, LeastNumber
  <2>2. k # 0
    BY <2>1 DEF Unfolds
  <2>3. k \in 1..n /\ k - 1 \in 0..n /\ k - 1 \notin T
    BY <2>1, <2>2
  <2>4. r[k - 1] = q[k - 1] /\ s[k] = u[k]
    BY <2>3
  <2>5. r[k] = q[k]
    BY <2>3, <2>4 DEF Unfolds
  <2> QED BY <2>1, <2>5
<1> QED BY <1>1

LEMMA PutEachIsFolded ==
  ASSUME NEW t, NEW entries
  PROVE  PutEach(t, entries) = Folded("put", Returned(t, <<>>), entries)
  BY DEF PutEach, Seqs!FoldLeft, Seqs!MapThenFoldSet, Folded, Folds, StepOf, PutStep

-----------------------------------------------------------------------------
(* What the writes do to the counter, and when they throw. *)

LEMMA PutCounts ==
  ASSUME NEW t, Counted(t), NEW key, NEW value
  PROVE  /\ Counted(Put(t, key, value).tree)
         /\ Put(t, key, value).tree.nextSequence \in t.nextSequence..(t.nextSequence + 1)
         /\ Put(t, key, value).threw \in BOOLEAN
         /\ Put(t, key, value).threw =>
              \/ DuplicateKeys = "reject" /\ HasKey(t, key)
              \/ t.nextSequence >= MaxSequence
         /\ \A e \in Put(t, key, value).tree.entries :
              e \in t.entries \/ e.key = key \/ DuplicateKeys # "reject"
<1> DEFINE id == t.nextSequence
           hit == LastOf(Matching(t, key))
           duplicate == DuplicateKeys # "allow" /\ HasKey(t, key)
<1>1. CASE duplicate /\ DuplicateKeys = "reject"
  <2>1. Put(t, key, value) = Thrown(t)
    BY <1>1 DEF Put
  <2>2. HasKey(t, key)
    BY <1>1
  <2> QED BY <1>1, <2>1, <2>2 DEF Thrown, Counted
<1>2. CASE duplicate /\ DuplicateKeys = "replace"
  <2>1. Put(t, key, value) =
          Returned([t EXCEPT !.entries = (@ \ {hit}) \union {[hit EXCEPT !.value = value]}],
                   hit.entryId)
    BY <1>2 DEF Put
  <2> QED BY <1>2, <2>1 DEF Returned, Counted
<1>3. CASE ~duplicate /\ id >= MaxSequence
  <2>1. Put(t, key, value) = Thrown(t)
    BY <1>3 DEF Put
  <2> QED BY <1>3, <2>1 DEF Thrown, Counted
<1>4. CASE ~duplicate /\ ~(id >= MaxSequence)
  <2>1. Put(t, key, value) =
          Returned([entries |-> t.entries \union
                                  {[key |-> key, entryId |-> id, value |-> value]},
                    nextSequence |-> id + 1], id)
    BY <1>4 DEF Put
  <2>2. id \in Nat /\ id + 1 \in Nat /\ id + 1 \in id..(id + 1)
    BY DEF Counted
  <2> DEFINE e == [key |-> key, entryId |-> id, value |-> value]
             u == [entries |-> t.entries \union {e}, nextSequence |-> id + 1]
  <2>3. Put(t, key, value).tree = u /\ Put(t, key, value).threw = FALSE
    BY <2>1 DEF Returned
  <2>4. e.key = key /\ u.entries = t.entries \union {e} /\ u.nextSequence = id + 1
    OBVIOUS
  <2>5. u = [entries |-> u.entries, nextSequence |-> u.nextSequence]
    BY <2>4
  <2> HIDE DEF e, u, id
  <2>6. Counted(u)
    BY <2>2, <2>4, <2>5 DEF Counted
  <2>7. \A d \in u.entries : d \in t.entries \/ d.key = key
    BY <2>4
  <2> QED BY <2>2, <2>3, <2>4, <2>6, <2>7 DEF id
<1> QED BY <1>1, <1>2, <1>3, <1>4, PolicyAssumption

(* putMany on a populated tree, entry by entry: the keys it put are behind,  *)
(* so that an entry in order meets none of them.                             *)
PutSoFar(t, entries, done, k) ==
    /\ Counted(done.tree) /\ done.threw \in BOOLEAN
    /\ done.tree.nextSequence <= t.nextSequence + k
    /\ DuplicateKeys = "reject" => \A e \in done.tree.entries :
          e \in t.entries \/ (k > 0 /\ e.key \in Int /\ e.key <= entries[k].key)

Entries(entries) ==
    /\ entries \in Seq(Seqs!ToSet(entries))
    /\ \A i \in DOMAIN entries : entries[i].key \in Int

LEMMA PutStepCounts ==
  ASSUME NEW t, Counted(t), NEW entries, Entries(entries), NEW k \in 1..Len(entries),
         NEW done, PutSoFar(t, entries, done, k - 1), Ascending(entries)
  PROVE  /\ PutSoFar(t, entries, PutStep(done, entries[k]), k)
         /\ /\ PutStep(done, entries[k]).threw /\ ~done.threw
            /\ DuplicateKeys = "reject" => ~HasKey(t, entries[k].key)
            => t.nextSequence + Len(entries) > MaxSequence
<1> DEFINE key == entries[k].key
           p == Put(done.tree, key, entries[k].value)
           next == PutStep(done, entries[k])
<1>1. /\ Len(entries) \in Nat /\ DOMAIN entries = 1..Len(entries)
      /\ k \in Nat /\ k >= 1 /\ k - 1 \in Nat /\ key \in Int
      /\ t.nextSequence \in Nat /\ done.tree.nextSequence \in Nat /\ MaxSequence \in Nat
  BY LenProperties, SequenceAssumption DEF Entries, PutSoFar, Counted
<1>2. k > 1 => entries[k - 1].key \in Int /\ entries[k - 1].key <= key
               /\ (DuplicateKeys = "reject" => entries[k - 1].key < key)
  <2> SUFFICES ASSUME k > 1
               PROVE  entries[k - 1].key \in Int /\ entries[k - 1].key <= key
                      /\ (DuplicateKeys = "reject" => entries[k - 1].key < key)
    OBVIOUS
  <2>1. k \in 2..Len(entries) /\ k - 1 \in 1..Len(entries)
    BY <1>1
  <2>2. entries[k - 1].key \in Int
    BY <1>1, <2>1 DEF Entries
  <2>3. \/ entries[k - 1].key < key
        \/ entries[k - 1].key = key /\ DuplicateKeys = "allow"
    BY <1>1, <2>1 DEF Ascending
  <2> QED BY <1>1, <2>2, <2>3
<1>3. \A e \in done.tree.entries : DuplicateKeys = "reject" =>
         e \in t.entries \/ (e.key \in Int /\ e.key < key)
  BY <1>1, <1>2 DEF PutSoFar
<1>4. /\ Counted(p.tree) /\ p.threw \in BOOLEAN
      /\ p.tree.nextSequence \in done.tree.nextSequence..(done.tree.nextSequence + 1)
      /\ p.threw => \/ DuplicateKeys = "reject" /\ HasKey(done.tree, key)
                    \/ done.tree.nextSequence >= MaxSequence
      /\ \A e \in p.tree.entries :
           e \in done.tree.entries \/ e.key = key \/ DuplicateKeys # "reject"
  BY PutCounts DEF PutSoFar
<1>5. /\ next.tree = IF done.threw \/ p.threw THEN done.tree ELSE p.tree
      /\ next.threw = (done.threw \/ p.threw)
  <2>1. done.threw \in BOOLEAN
    BY DEF PutSoFar
  <2>2. CASE done.threw
    BY <2>2 DEF PutStep
  <2>3. CASE ~done.threw /\ p.threw
    BY <2>3 DEF PutStep, Thrown
  <2>4. CASE ~done.threw /\ ~p.threw
    BY <2>4 DEF PutStep, Returned
  <2> QED BY <1>4, <2>1, <2>2, <2>3, <2>4
<1> HIDE DEF p, next
<1>6. PutSoFar(t, entries, next, k)
  <2>1. Counted(next.tree) /\ next.threw \in BOOLEAN
    BY <1>4, <1>5 DEF PutSoFar
  <2>2. next.tree.nextSequence <= t.nextSequence + k
    BY <1>1, <1>4, <1>5 DEF PutSoFar
  <2>3. ASSUME NEW e \in next.tree.entries, DuplicateKeys = "reject"
        PROVE  e \in t.entries \/ (k > 0 /\ e.key \in Int /\ e.key <= key)
    <3>1. e \in done.tree.entries \/ e.key = key
      BY <1>4, <1>5, <2>3
    <3> QED BY <1>1, <1>3, <2>3, <3>1
  <2> QED BY <2>1, <2>2, <2>3 DEF PutSoFar
<1>7. ASSUME next.threw, ~done.threw, DuplicateKeys = "reject" => ~HasKey(t, key)
      PROVE  t.nextSequence + Len(entries) > MaxSequence
  <2>1. p.threw
    BY <1>5, <1>7
  <2>2. ~(DuplicateKeys = "reject" /\ HasKey(done.tree, key))
    <3> SUFFICES ASSUME DuplicateKeys = "reject", HasKey(done.tree, key) PROVE FALSE
      OBVIOUS
    <3>1. PICK e \in done.tree.entries : e.key = key
      BY DEF HasKey, Matching
    <3>2. e \in t.entries
      BY <1>1, <1>3, <3>1
    <3>3. HasKey(t, key)
      BY <3>1, <3>2 DEF HasKey, Matching
    <3> QED BY <1>7, <3>3
  <2>3. done.tree.nextSequence >= MaxSequence
    BY <1>4, <2>1, <2>2
  <2>4. done.tree.nextSequence <= t.nextSequence + (k - 1)
    BY DEF PutSoFar
  <2> QED BY <1>1, <2>3, <2>4
<1> QED BY <1>6, <1>7 DEF next

LEMMA PutEachCounts ==
  ASSUME NEW t, Counted(t), NEW entries, Entries(entries), Ascending(entries)
  PROVE  /\ Counted(PutEach(t, entries).tree)
         /\ /\ PutEach(t, entries).threw
            /\ DuplicateKeys = "reject" =>
                  \A i \in DOMAIN entries : ~HasKey(t, entries[i].key)
            => t.nextSequence + Len(entries) > MaxSequence
<1> DEFINE n == Len(entries)
           fits == DuplicateKeys = "reject" =>
                      \A i \in DOMAIN entries : ~HasKey(t, entries[i].key)
<1>1. n \in Nat /\ DOMAIN entries = 1..n
  BY LenProperties DEF Entries
<1>2. PICK r : Unfolds(r, "put", Returned(t, <<>>), entries, n)
               /\ r[n] = Folded("put", Returned(t, <<>>), entries)
  BY <1>1, FoldUnfolds
<1>3. r[0] = Returned(t, <<>>) /\ \A k \in 1..n : r[k] = PutStep(r[k - 1], entries[k])
  BY <1>2 DEF Unfolds, StepOf
<1> DEFINE Good(k) == /\ PutSoFar(t, entries, r[k], k)
                      /\ r[k].threw /\ fits => t.nextSequence + n > MaxSequence
           T == {k \in 0..n : ~Good(k)}
<1>4. Good(0)
  <2>1. r[0].tree = t /\ r[0].threw = FALSE
    BY <1>3 DEF Returned
  <2>2. t.nextSequence <= t.nextSequence + 0
    BY DEF Counted
  <2> QED BY <2>1, <2>2 DEF PutSoFar
<1>5. ASSUME NEW k \in 1..n, Good(k - 1) PROVE Good(k)
  <2>1. r[k] = PutStep(r[k - 1], entries[k]) /\ r[k - 1].threw \in BOOLEAN
    BY <1>3, <1>5 DEF PutSoFar
  <2>2. /\ PutSoFar(t, entries, r[k], k)
        /\ r[k].threw /\ ~r[k - 1].threw /\ (DuplicateKeys = "reject" => ~HasKey(t, entries[k].key))
           => t.nextSequence + n > MaxSequence
    BY <1>5, <2>1, PutStepCounts
  <2>3. fits => (DuplicateKeys = "reject" => ~HasKey(t, entries[k].key))
    BY <1>1
  <2> QED BY <1>5, <2>1, <2>2, <2>3
<1> HIDE DEF Good
<1>6. T = {}
  <2> SUFFICES ASSUME T # {} PROVE FALSE
    OBVIOUS
  <2>1. T \subseteq Nat
    BY <1>1
  <2>2. PICK k \in T : \A j \in T : k <= j
    BY <2>1, LeastNumber
  <2>3. k # 0
    BY <1>4, <2>2
  <2>4. k \in 1..n /\ k - 1 \in 0..n /\ k - 1 \notin T
    BY <1>1, <2>2, <2>3
  <2>5. Good(k - 1)
    BY <2>4
  <2> QED BY <1>5, <2>2, <2>4, <2>5
<1>7. Good(n)
  BY <1>1, <1>6
<1>8. PutEach(t, entries) = r[n]
  BY <1>2, PutEachIsFolded
<1> QED BY <1>7, <1>8 DEF Good, PutSoFar

LEMMA PutManyCounts ==
  ASSUME NEW t, Counted(t), NEW entries, Entries(entries)
  PROVE  /\ Counted(PutMany(t, entries).tree)
         /\ /\ PutMany(t, entries).threw /\ Ascending(entries)
            /\ DuplicateKeys = "reject" =>
                  \A i \in DOMAIN entries : ~HasKey(t, entries[i].key)
            => t.nextSequence + Len(entries) > MaxSequence
<1>1. CASE entries = <<>>
  <2>1. PutMany(t, entries) = Returned(t, <<>>)
    BY <1>1 DEF PutMany
  <2> QED BY <2>1 DEF Returned
<1>2. CASE entries # <<>> /\ ~Ascending(entries)
  <2>1. PutMany(t, entries) = Thrown(t)
    BY <1>2 DEF PutMany
  <2> QED BY <1>2, <2>1 DEF Thrown
<1>3. CASE entries # <<>> /\ Ascending(entries) /\ t.entries = {}
  <2>1. PutMany(t, entries) = BulkLoad(t, entries)
    BY <1>3 DEF PutMany
  <2>2. Len(entries) \in Nat /\ t.nextSequence \in Nat
        /\ t.nextSequence + Len(entries) \in Nat
    BY LenProperties DEF Entries, Counted
  <2>3. CASE t.nextSequence + Len(entries) > MaxSequence
    BY <2>1, <2>3 DEF BulkLoad, Thrown
  <2>4. CASE ~(t.nextSequence + Len(entries) > MaxSequence)
    <3>1. PutMany(t, entries) = LoadedFrom(t.nextSequence, entries)
      BY <2>1, <2>4 DEF BulkLoad
    <3>2. PutMany(t, entries).threw = FALSE
      BY <3>1 DEF LoadedFrom, Returned
    <3> DEFINE u == LoadedFrom(t.nextSequence, entries).tree
    <3>3. /\ u = [entries |-> u.entries, nextSequence |-> u.nextSequence]
          /\ u.nextSequence = t.nextSequence + Len(entries)
      BY DEF LoadedFrom, Returned
    <3> HIDE DEF u
    <3>4. Counted(u)
      BY <2>2, <3>3 DEF Counted
    <3> QED BY <3>1, <3>2, <3>4 DEF u
  <2> QED BY <2>3, <2>4
<1>4. CASE entries # <<>> /\ Ascending(entries) /\ t.entries # {}
  <2>1. PutMany(t, entries) = PutEach(t, entries)
    BY <1>4 DEF PutMany
  <2> QED BY <1>4, <2>1, PutEachCounts
<1> QED BY <1>1, <1>2, <1>3, <1>4

(* The writes that take entries out, or change one in place. *)
LEMMA TakeCounts ==
  ASSUME NEW t, Counted(t), NEW e
  PROVE  Counted(Take(t, e).tree) /\ ~Take(t, e).threw
  BY DEF Take, Returned, Counted

LEMMA ApplyCounts ==
  ASSUME NEW t, Counted(t), NEW m, IsMutation(m)
  PROVE  /\ Counted(Apply(t, m).tree)
         /\ Apply(t, m).threw /\ Evaluate(t, m) = "append" =>
              Overflows(t, m)
<1>1. ASSUME Evaluate(t, m) = "append" PROVE ~Rejected(t, m)
  BY <1>1 DEF Evaluate
<1>2. CASE m.type = "put"
  <2>1. Apply(t, m) = Put(t, m.key, m.value)
    BY <1>2 DEF Apply
  <2>2. ~Rejected(t, m) => ~(DuplicateKeys = "reject" /\ HasKey(t, m.key))
    BY <1>2 DEF Rejected
  <2>3. t.nextSequence >= MaxSequence => Overflows(t, m)
    BY <1>2, SequenceAssumption DEF Overflows, Counted
  <2> QED BY <1>1, <2>1, <2>2, <2>3, PutCounts
<1>3. CASE m.type = "putMany"
  <2>1. /\ Apply(t, m) = PutMany(t, m.entries)
        /\ Overflows(t, m) <=> t.nextSequence + Len(m.entries) > MaxSequence
    BY <1>3 DEF Apply, Overflows
  <2>2. Entries(m.entries)
    BY <1>3 DEF IsMutation, Entries
  <2>3. ~Rejected(t, m) =>
          /\ Ascending(m.entries)
          /\ DuplicateKeys = "reject" =>
                \A i \in DOMAIN m.entries : ~HasKey(t, m.entries[i].key)
    BY <1>3 DEF Rejected
  <2> QED BY <1>1, <2>1, <2>2, <2>3, PutManyCounts
<1>4. CASE m.type \in {"remove", "popFirst", "popLast"}
  <2>1. \E e : Apply(t, m) = Take(t, e)
    BY <1>4 DEF Apply, Remove, PopFirst, PopLast
  <2> QED BY <2>1, TakeCounts
<1>5. CASE m.type = "removeById"
  <2>1. Apply(t, m) = RemoveById(t, m.entryId)
    BY <1>5 DEF Apply
  <2>2. ~Rejected(t, m) => EnableEntryIdLookup
    BY <1>5 DEF Rejected
  <2>3. CASE EnableEntryIdLookup
    BY <2>1, <2>3, TakeCounts DEF RemoveById
  <2>4. CASE ~EnableEntryIdLookup
    BY <1>1, <2>1, <2>2, <2>4 DEF RemoveById, Thrown
  <2> QED BY <2>3, <2>4
<1>6. CASE m.type = "updateById"
  <2>1. Apply(t, m) = UpdateById(t, m.entryId, m.value)
    BY <1>6 DEF Apply
  <2>2. ~Rejected(t, m) => EnableEntryIdLookup
    BY <1>6 DEF Rejected
  <2>3. CASE EnableEntryIdLookup
    BY <2>1, <2>3 DEF UpdateById, Returned, Counted
  <2>4. CASE ~EnableEntryIdLookup
    BY <1>1, <2>1, <2>2, <2>4 DEF UpdateById, Thrown
  <2> QED BY <2>3, <2>4
<1>7. CASE m.type = "deleteRange"
  <2>1. Apply(t, m) = DeleteRange(t, m.startKey, m.endKey, m.options)
    BY <1>7 DEF Apply
  <2> QED BY <2>1 DEF DeleteRange, Returned, Counted
<1>8. CASE m.type = "clear"
  <2>1. Apply(t, m) = Clear(t)
    BY <1>8 DEF Apply
  <2> QED BY <2>1 DEF Clear, Returned, Counted
<1>9. m.type \in WriteTypes
  BY DEF IsMutation
<1> QED BY <1>2, <1>3, <1>4, <1>5, <1>6, <1>7, <1>8, <1>9 DEF WriteTypes

-----------------------------------------------------------------------------
(* What comes after a well-formed tree: one that is well-formed and names    *)
(* nothing new by an old id.                                                 *)

EntryIds(t) == {e.entryId : e \in t.entries}

Follows(u, t) ==
    /\ WellFormed(u)
    /\ u.nextSequence >= t.nextSequence
    /\ \A e \in u.entries : e.entryId \in EntryIds(t) \/ e.entryId >= t.nextSequence

LEMMA EmptyIsWellFormed == WellFormed(EmptyTree)
  BY FS_EmptySet, SequenceAssumption DEF EmptyTree, WellFormed, Counted

LEMMA FollowsItself ==
  ASSUME NEW t, WellFormed(t)
  PROVE  Follows(t, t)
  BY DEF Follows, WellFormed, Counted, EntryIds

LEMMA FollowsThrough ==
  ASSUME NEW t, WellFormed(t), NEW u, Follows(u, t), NEW v, Follows(v, u)
  PROVE  Follows(v, t)
<1>1. t.nextSequence \in Nat /\ u.nextSequence \in Nat /\ v.nextSequence \in Nat
  BY DEF Follows, WellFormed, Counted
<1>2. ASSUME NEW e \in v.entries
      PROVE  e.entryId \in EntryIds(t) \/ e.entryId >= t.nextSequence
  <2>1. e.entryId \in Nat
    BY DEF Follows, WellFormed, IsEntry
  <2>2. CASE e.entryId >= u.nextSequence
    BY <1>1, <2>1, <2>2 DEF Follows
  <2>3. CASE e.entryId \in EntryIds(u)
    BY <2>3 DEF EntryIds, Follows
  <2> QED BY <2>2, <2>3 DEF Follows
<1> QED BY <1>1, <1>2 DEF Follows

(* Fewer entries. *)
LEMMA RemovedFollows ==
  ASSUME NEW t, WellFormed(t), NEW S
  PROVE  Follows([t EXCEPT !.entries = @ \ S], t)
<1> DEFINE u == [t EXCEPT !.entries = @ \ S]
<1>0. t = [entries |-> t.entries, nextSequence |-> t.nextSequence] /\ t.nextSequence \in Nat
  BY DEF WellFormed, Counted
<1>1. u.entries = t.entries \ S /\ u.nextSequence = t.nextSequence /\ Counted(u)
  <2>1. u = [entries |-> t.entries \ S, nextSequence |-> t.nextSequence]
    BY <1>0
  <2> QED BY <1>0, <2>1 DEF Counted
<1>2. IsFiniteSet(u.entries)
  BY <1>1, FS_Subset DEF WellFormed
<1> HIDE DEF u
<1>3. WellFormed(u)
  BY <1>1, <1>2 DEF WellFormed, IsEntry
<1>4. u.nextSequence >= t.nextSequence
  BY <1>1 DEF WellFormed, Counted
<1> QED BY <1>1, <1>3, <1>4 DEF Follows, EntryIds, u

(* An entry with another value in the place of one. *)
LEMMA ReplacedFollows ==
  ASSUME NEW t, WellFormed(t), NEW e \in t.entries, NEW value
  PROVE  /\ Follows([t EXCEPT !.entries = (@ \ {e}) \union {[e EXCEPT !.value = value]}], t)
         /\ [e EXCEPT !.value = value].entryId = e.entryId
         /\ [e EXCEPT !.value = value].key = e.key
<1> DEFINE f == [e EXCEPT !.value = value]
           u == [t EXCEPT !.entries = (@ \ {e}) \union {f}]
<1>0. e = [key |-> e.key, entryId |-> e.entryId, value |-> e.value]
  BY DEF WellFormed, IsEntry
<1>1. f = [key |-> e.key, entryId |-> e.entryId, value |-> value]
  BY <1>0
<1>2. f.key = e.key /\ f.entryId = e.entryId
      /\ f = [key |-> f.key, entryId |-> f.entryId, value |-> f.value]
  BY <1>1
<1> HIDE DEF f
<1>3. /\ u.entries = (t.entries \ {e}) \union {f} /\ u.nextSequence = t.nextSequence
      /\ Counted(u)
  BY DEF WellFormed, Counted
<1>4. IsFiniteSet(u.entries)
  <2>1. IsFiniteSet(t.entries \ {e})
    BY FS_RemoveElement DEF WellFormed
  <2> QED BY <1>3, <2>1, FS_AddElement
<1> HIDE DEF u
<1>5. \A d \in u.entries : IsEntry(d, u)
  BY <1>2, <1>3 DEF WellFormed, IsEntry
<1>6. \A d, g \in u.entries : d.entryId = g.entryId => d = g
  BY <1>2, <1>3 DEF WellFormed
<1>7. DuplicateKeys # "allow" => \A d, g \in u.entries : d.key = g.key => d = g
  BY <1>2, <1>3 DEF WellFormed
<1>8. WellFormed(u)
  BY <1>3, <1>4, <1>5, <1>6, <1>7 DEF WellFormed
<1>9. u.nextSequence >= t.nextSequence
  BY <1>3 DEF WellFormed, Counted
<1>10. \A d \in u.entries : d.entryId \in EntryIds(t)
  BY <1>2, <1>3 DEF EntryIds
<1> QED BY <1>2, <1>8, <1>9, <1>10 DEF Follows, u, f

(* With reject and replace the entry that is met is the only one. *)
LEMMA OnlyMatch ==
  ASSUME NEW t, WellFormed(t), NEW key, HasKey(t, key), DuplicateKeys # "allow"
  PROVE  /\ LastOf(Matching(t, key)) \in t.entries
         /\ LastOf(Matching(t, key)).key = key
<1>1. PICK e \in t.entries : e.key = key
  BY DEF HasKey, Matching
<1>2. Matching(t, key) = {e}
  BY <1>1 DEF Matching, WellFormed
<1>3. LastOf(Matching(t, key)) = e
  BY <1>2 DEF LastOf
<1> QED BY <1>1, <1>3

LEMMA OnlyId ==
  ASSUME NEW t, WellFormed(t), NEW id, WithId(t, id) # {}
  PROVE  /\ FirstOf(WithId(t, id)) \in t.entries
         /\ FirstOf(WithId(t, id)).entryId = id
<1>1. PICK e \in t.entries : e.entryId = id
  BY DEF WithId
<1>2. WithId(t, id) = {e}
  BY <1>1 DEF WithId, WellFormed
<1>3. FirstOf(WithId(t, id)) = e
  BY <1>2 DEF FirstOf
<1> QED BY <1>1, <1>3

(* A put: the id it returns is new, unless it replaced an entry. *)
LEMMA PutFollows ==
  ASSUME NEW t, WellFormed(t), NEW key \in Int, NEW value
  PROVE  /\ Follows(Put(t, key, value).tree, t)
         /\ ~Put(t, key, value).threw /\ DuplicateKeys # "replace" =>
              /\ Put(t, key, value).result = t.nextSequence
              /\ Put(t, key, value).tree.nextSequence = t.nextSequence + 1
<1> DEFINE id == t.nextSequence
           hit == LastOf(Matching(t, key))
           duplicate == DuplicateKeys # "allow" /\ HasKey(t, key)
<1>1. CASE (duplicate /\ DuplicateKeys = "reject") \/ (~duplicate /\ id >= MaxSequence)
  <2>1. Put(t, key, value) = Thrown(t)
    BY <1>1 DEF Put
  <2> QED BY <2>1, FollowsItself DEF Thrown
<1>2. CASE duplicate /\ DuplicateKeys = "replace"
  <2>1. Put(t, key, value) =
          Returned([t EXCEPT !.entries = (@ \ {hit}) \union {[hit EXCEPT !.value = value]}],
                   hit.entryId)
    BY <1>2 DEF Put
  <2>2. hit \in t.entries
    BY <1>2, OnlyMatch
  <2> HIDE DEF hit
  <2> QED BY SMTT(30), <1>2, <2>1, <2>2, ReplacedFollows DEF Returned
<1>3. CASE ~duplicate /\ ~(id >= MaxSequence)
  <2> DEFINE e == [key |-> key, entryId |-> id, value |-> value]
             u == [entries |-> t.entries \union {e}, nextSequence |-> id + 1]
  <2>1. Put(t, key, value) = Returned(u, id)
    BY <1>3 DEF Put
  <2>2. id \in Nat /\ MaxSequence \in Nat /\ id + 1 \in Nat /\ id + 1 <= MaxSequence
    BY <1>3, SequenceAssumption DEF WellFormed, Counted
  <2>3. /\ e.key = key /\ e.entryId = id
        /\ e = [key |-> e.key, entryId |-> e.entryId, value |-> e.value]
    OBVIOUS
  <2>4. u.entries = t.entries \union {e} /\ u.nextSequence = id + 1
        /\ u = [entries |-> u.entries, nextSequence |-> u.nextSequence]
    OBVIOUS
  <2>5. IsFiniteSet(t.entries \union {e})
    BY FS_AddElement DEF WellFormed
  <2> HIDE DEF e, u
  <2>6. \A d \in t.entries : IsEntry(d, t) /\ d.entryId # id
    BY <2>2 DEF WellFormed, IsEntry
  <2>7. \A d \in u.entries : IsEntry(d, u)
    BY <2>2, <2>3, <2>4, <2>6 DEF IsEntry
  <2>8. \A d, f \in u.entries : d.entryId = f.entryId => d = f
    BY <2>3, <2>4, <2>6 DEF WellFormed
  <2>9. DuplicateKeys # "allow" => \A d \in t.entries : d.key # key
    BY <1>3 DEF HasKey, Matching
  <2>10. DuplicateKeys # "allow" => \A d, f \in u.entries : d.key = f.key => d = f
    BY <2>3, <2>4, <2>9 DEF WellFormed
  <2>11. WellFormed(u)
    BY <2>2, <2>4, <2>5, <2>7, <2>8, <2>10 DEF WellFormed, Counted
  <2>12. \A d \in u.entries : d.entryId \in EntryIds(t) \/ d.entryId >= t.nextSequence
    BY <2>2, <2>3, <2>4 DEF EntryIds
  <2>13. Follows(u, t)
    BY <2>2, <2>4, <2>11, <2>12 DEF Follows
  <2> QED BY <2>1, <2>4, <2>13 DEF Returned
<1> QED BY <1>1, <1>2, <1>3, PolicyAssumption

-----------------------------------------------------------------------------
(* putMany, as the sequence of its puts. *)

Numbered(base, n) == [i \in 1..n |-> base + i - 1]

LEMMA NumberedNext ==
  ASSUME NEW base \in Nat, NEW n \in Nat, n > 0
  PROVE  Append(Numbered(base, n - 1), base + (n - 1)) = Numbered(base, n)
<1> DEFINE s == Numbered(base, n - 1)
<1>1. s \in Seq(Nat) /\ Len(s) = n - 1
  <2>1. s \in [1..(n - 1) -> Nat]
    BY DEF Numbered
  <2> QED BY <2>1, SeqDef, LenProperties
<1>2. \A i \in 1..(n - 1) : s[i] = base + i - 1
  BY DEF Numbered
<1> HIDE DEF s
<1> DEFINE a == Append(s, base + (n - 1))
<1>3. a \in Seq(Nat) /\ Len(a) = n /\ a[n] = base + (n - 1)
      /\ \A i \in 1..(n - 1) : a[i] = s[i]
  BY <1>1, AppendProperties
<1> HIDE DEF a
<1>4. a = [i \in 1..n |-> a[i]]
  BY <1>3, LenProperties
<1>5. \A i \in 1..n : a[i] = base + i - 1
  BY <1>2, <1>3
<1> QED BY <1>4, <1>5 DEF Numbered, a, s

(* What k puts have done to the tree t. *)
Putting(t, done, k) ==
    /\ Follows(done.tree, t) /\ done.threw \in BOOLEAN
    /\ ~done.threw /\ DuplicateKeys # "replace" =>
          /\ done.result = Numbered(t.nextSequence, k)
          /\ done.tree.nextSequence = t.nextSequence + k

LEMMA PutStepFollows ==
  ASSUME NEW t, WellFormed(t), NEW k \in Nat, k > 0, NEW done, Putting(t, done, k - 1),
         NEW e, e.key \in Int
  PROVE  Putting(t, PutStep(done, e), k)
<1> DEFINE p == Put(done.tree, e.key, e.value)
<1>1. WellFormed(done.tree) /\ t.nextSequence \in Nat /\ done.threw \in BOOLEAN
  BY DEF Putting, Follows, WellFormed, Counted
<1>2. /\ Follows(p.tree, done.tree)
      /\ ~p.threw /\ DuplicateKeys # "replace" =>
            /\ p.result = done.tree.nextSequence
            /\ p.tree.nextSequence = done.tree.nextSequence + 1
  BY <1>1, PutFollows
<1>3. p.threw \in BOOLEAN
  BY <1>1, PutCounts DEF WellFormed
<1>4. Follows(p.tree, t)
  BY <1>1, <1>2, FollowsThrough DEF Putting
<1> HIDE DEF p
<1>5. CASE done.threw
  BY <1>5 DEF PutStep, Putting
<1>6. CASE ~done.threw /\ p.threw
  <2>1. PutStep(done, e) = Thrown(done.tree)
    BY <1>6 DEF PutStep, p
  <2> QED BY <2>1 DEF Thrown, Putting
<1>7. CASE ~done.threw /\ ~p.threw
  <2>1. PutStep(done, e) = Returned(p.tree, Append(done.result, p.result))
    BY <1>7 DEF PutStep, p
  <2>2. ASSUME DuplicateKeys # "replace"
        PROVE  /\ Append(done.result, p.result) = Numbered(t.nextSequence, k)
               /\ p.tree.nextSequence = t.nextSequence + k
    <3>1. done.result = Numbered(t.nextSequence, k - 1)
          /\ done.tree.nextSequence = t.nextSequence + (k - 1)
      BY <1>7, <2>2 DEF Putting
    <3>2. p.result = t.nextSequence + (k - 1)
          /\ p.tree.nextSequence = t.nextSequence + (k - 1) + 1
      BY <1>2, <1>7, <2>2, <3>1
    <3>3. Append(done.result, p.result) = Numbered(t.nextSequence, k)
      BY <1>1, <3>1, <3>2, NumberedNext, Zenon
    <3>4. t.nextSequence + (k - 1) + 1 = t.nextSequence + k
      BY <1>1
    <3> QED BY <3>2, <3>3, <3>4
  <2> QED BY <1>4, <2>1, <2>2 DEF Returned, Putting
<1> QED BY <1>1, <1>3, <1>5, <1>6, <1>7

LEMMA PutEachFollows ==
  ASSUME NEW t, WellFormed(t), NEW entries, Entries(entries)
  PROVE  Putting(t, PutEach(t, entries), Len(entries))
<1> DEFINE n == Len(entries)
<1>1. n \in Nat /\ DOMAIN entries = 1..n
  BY LenProperties DEF Entries
<1>2. PICK r : Unfolds(r, "put", Returned(t, <<>>), entries, n)
               /\ r[n] = Folded("put", Returned(t, <<>>), entries)
  BY <1>1, FoldUnfolds
<1>3. r[0] = Returned(t, <<>>) /\ \A k \in 1..n : r[k] = PutStep(r[k - 1], entries[k])
  BY <1>2 DEF Unfolds, StepOf
<1> DEFINE T == {k \in 0..n : ~Putting(t, r[k], k)}
<1>4. Putting(t, r[0], 0)
  <2>1. r[0].tree = t /\ r[0].threw = FALSE /\ r[0].result = <<>>
    BY <1>3 DEF Returned
  <2>2. Numbered(t.nextSequence, 0) = <<>> /\ t.nextSequence + 0 = t.nextSequence
    BY DEF Numbered, WellFormed, Counted
  <2> QED BY <2>1, <2>2, FollowsItself DEF Putting
<1>5. T = {}
  <2> SUFFICES ASSUME T # {} PROVE FALSE
    OBVIOUS
  <2>1. T \subseteq Nat
    BY <1>1
  <2>2. PICK k \in T : \A j \in T : k <= j
    BY <2>1, LeastNumber
  <2>3. k # 0
    BY <1>4, <2>2
  <2>4. k \in 1..n /\ k \in Nat /\ k > 0 /\ k - 1 \in 0..n /\ k - 1 \notin T
    BY <1>1, <2>2, <2>3
  <2>5. Putting(t, r[k - 1], k - 1) /\ entries[k].key \in Int
    BY <1>1, <2>4 DEF Entries
  <2>6. Putting(t, r[k], k)
    BY <1>3, <2>4, <2>5, PutStepFollows
  <2> QED BY <2>2, <2>6
<1>6. PutEach(t, entries) = r[n]
  BY <1>2, PutEachIsFolded
<1> QED BY <1>1, <1>5, <1>6

(* Entries in order are in order from end to end. *)
LEMMA AscendingThroughout ==
  ASSUME NEW entries, Entries(entries), Ascending(entries)
  PROVE  \A j \in 1..Len(entries) : \A i \in 1..(j - 1) :
            \/ entries[i].key < entries[j].key
            \/ entries[i].key = entries[j].key /\ DuplicateKeys = "allow"
<1> DEFINE n == Len(entries)
           InOrder(i, j) == \/ entries[i].key < entries[j].key
                            \/ entries[i].key = entries[j].key /\ DuplicateKeys = "allow"
           T == {j \in 1..n : \E i \in 1..(j - 1) : ~InOrder(i, j)}
<1>1. n \in Nat /\ \A j \in 1..n : entries[j].key \in Int
  BY LenProperties DEF Entries
<1>2. \A j \in 2..n : InOrder(j - 1, j)
  BY DEF Ascending
<1>3. T = {}
  <2> SUFFICES ASSUME T # {} PROVE FALSE
    OBVIOUS
  <2>1. T \subseteq Nat
    BY <1>1
  <2>2. PICK j \in T : \A k \in T : j <= k
    BY <2>1, LeastNumber
  <2>3. PICK i \in 1..(j - 1) : ~InOrder(i, j)
    BY <2>2
  <2>4. j \in 2..n /\ j - 1 \in 1..n /\ j - 1 \notin T /\ i \in 1..n /\ j \in 1..n
    BY <1>1, <2>2
  <2>5. i \in 1..(j - 2)
    BY <1>2, <2>3, <2>4
  <2>6. InOrder(i, j - 1)
    BY <2>4, <2>5
  <2>7. InOrder(j - 1, j)
    BY <1>2, <2>4
  <2>8. /\ entries[i].key \in Int /\ entries[j - 1].key \in Int /\ entries[j].key \in Int
    BY <1>1, <2>4
  <2>9. InOrder(i, j)
    BY <2>6, <2>7, <2>8
  <2> QED BY <2>3, <2>9
<1> QED BY <1>3

LEMMA BulkLoadIsPutEach ==
  ASSUME NEW t, WellFormed(t), t.entries = {}, NEW entries, Entries(entries),
         Ascending(entries), t.nextSequence + Len(entries) <= MaxSequence
  PROVE  LoadedFrom(t.nextSequence, entries) = PutEach(t, entries)
<1> DEFINE n == Len(entries)
           base == t.nextSequence
           e(i) == [key |-> entries[i].key, entryId |-> base + i - 1, value |-> entries[i].value]
           Loaded(k) == Returned([entries |-> {e(i) : i \in 1..k}, nextSequence |-> base + k],
                                 Numbered(base, k))
<1>1. n \in Nat /\ DOMAIN entries = 1..n /\ base \in Nat /\ MaxSequence \in Nat
      /\ \A i \in 1..n : entries[i].key \in Int
  BY LenProperties, SequenceAssumption DEF Entries, WellFormed, Counted
<1>2. PICK r : Unfolds(r, "put", Returned(t, <<>>), entries, n)
               /\ r[n] = Folded("put", Returned(t, <<>>), entries)
  BY <1>1, FoldUnfolds
<1>3. r[0] = Returned(t, <<>>) /\ \A k \in 1..n : r[k] = PutStep(r[k - 1], entries[k])
  BY <1>2 DEF Unfolds, StepOf
<1> DEFINE T == {k \in 0..n : r[k] # Loaded(k)}
<1>4. r[0] = Loaded(0)
  <2>1. {e(i) : i \in 1..0} = {} /\ Numbered(base, 0) = <<>> /\ base + 0 = base
    BY <1>1 DEF Numbered
  <2>2. t = [entries |-> {}, nextSequence |-> base]
    BY DEF WellFormed, Counted
  <2> QED BY <1>3, <2>1, <2>2
<1>5. ASSUME NEW k \in 1..n, r[k - 1] = Loaded(k - 1) PROVE r[k] = Loaded(k)
  <2> DEFINE u == [entries |-> {e(i) : i \in 1..(k - 1)}, nextSequence |-> base + (k - 1)]
             key == entries[k].key
  <2>1. k \in Nat /\ k > 0 /\ k - 1 \in Nat /\ base + (k - 1) < MaxSequence
        /\ base + (k - 1) + 1 = base + k /\ ~(base + (k - 1) >= MaxSequence)
    BY <1>1
  <2>2. \A i \in 1..(k - 1) : entries[i].key # key \/ DuplicateKeys = "allow"
    BY <1>1, AscendingThroughout
  <2>3. ~(DuplicateKeys # "allow" /\ HasKey(u, key))
    <3> SUFFICES ASSUME DuplicateKeys # "allow", HasKey(u, key) PROVE FALSE
      OBVIOUS
    <3>1. PICK d \in u.entries : d.key = key
      BY DEF HasKey, Matching
    <3>2. PICK i \in 1..(k - 1) : d = e(i)
      OBVIOUS
    <3> QED BY <2>2, <3>1, <3>2
  <2> DEFINE v == [entries |-> u.entries \union {[key |-> key, entryId |-> base + (k - 1),
                                                 value |-> entries[k].value]},
                   nextSequence |-> base + (k - 1) + 1]
  <2>4. Put(u, key, entries[k].value) = Returned(v, base + (k - 1))
    <3>1. u.nextSequence = base + (k - 1)
      OBVIOUS
    <3> HIDE DEF u
    <3> QED BY <2>1, <2>3, <3>1 DEF Put
  <2>5. v = [entries |-> {e(i) : i \in 1..k}, nextSequence |-> base + k]
    <3>1. base + (k - 1) = base + k - 1
      BY <1>1, <2>1
    <3>2. u.entries \union {e(k)} = {e(i) : i \in 1..k}
      <4>1. \A i \in Int : i \in 1..k <=> i \in 1..(k - 1) \/ i = k
        BY <2>1
      <4> HIDE DEF e
      <4>2. u.entries = {e(i) : i \in 1..(k - 1)}
        BY DEF u
      <4> HIDE DEF u
      <4> QED BY <4>1, <4>2
    <3> QED BY <2>1, <3>1, <3>2
  <2>6. r[k - 1].tree = u /\ r[k - 1].threw = FALSE
        /\ r[k - 1].result = Numbered(base, k - 1)
    BY <1>5 DEF Returned
  <2>7. r[k] = PutStep(r[k - 1], entries[k])
    BY <1>3
  <2> HIDE DEF u, v, key
  <2>8. Put(r[k - 1].tree, entries[k].key, entries[k].value) = Returned(v, base + (k - 1))
    BY <2>4, <2>6 DEF key
  <2>9. PutStep(r[k - 1], entries[k])
          = Returned(v, Append(Numbered(base, k - 1), base + (k - 1)))
    BY <2>6, <2>8 DEF PutStep, Returned
  <2>10. Append(Numbered(base, k - 1), base + (k - 1)) = Numbered(base, k)
    BY <1>1, <2>1, NumberedNext
  <2> QED BY <2>5, <2>7, <2>9, <2>10
<1> HIDE DEF Loaded
<1>6. T = {}
  <2> SUFFICES ASSUME T # {} PROVE FALSE
    OBVIOUS
  <2>1. T \subseteq Nat
    BY <1>1
  <2>2. PICK k \in T : \A j \in T : k <= j
    BY <2>1, LeastNumber
  <2>3. k # 0
    BY <1>4, <2>2
  <2>4. k \in 1..n /\ k - 1 \in 0..n /\ k - 1 \notin T
    BY <1>1, <2>2, <2>3
  <2>5. r[k - 1] = Loaded(k - 1)
    BY <2>4
  <2> QED BY <1>5, <2>2, <2>4, <2>5
<1>7. r[n] = Loaded(n)
  BY <1>1, <1>6
<1>8. LoadedFrom(base, entries) = Loaded(n)
  BY <1>1 DEF LoadedFrom, Loaded, Numbered
<1> QED BY <1>2, <1>7, <1>8, PutEachIsFolded

LEMMA PutManyFollows ==
  ASSUME NEW t, WellFormed(t), NEW entries, Entries(entries)
  PROVE  Putting(t, PutMany(t, entries), Len(entries))
<1>1. CASE entries = <<>>
  <2>1. PutMany(t, entries) = Returned(t, <<>>) /\ Len(entries) = 0
    BY <1>1 DEF PutMany
  <2>2. Numbered(t.nextSequence, 0) = <<>> /\ t.nextSequence + 0 = t.nextSequence
    BY DEF Numbered, WellFormed, Counted
  <2> QED BY <2>1, <2>2, FollowsItself DEF Putting, Returned
<1>2. CASE PutMany(t, entries) = Thrown(t)
  BY <1>2, FollowsItself DEF Putting, Thrown
<1>3. CASE PutMany(t, entries) = PutEach(t, entries)
  BY <1>3, PutEachFollows
<1>4. CASE entries # <<>> /\ Ascending(entries) /\ t.entries = {}
  <2>1. PutMany(t, entries) = BulkLoad(t, entries)
    BY <1>4 DEF PutMany
  <2>2. CASE t.nextSequence + Len(entries) > MaxSequence
    BY <1>2, <2>1, <2>2 DEF BulkLoad
  <2>3. CASE ~(t.nextSequence + Len(entries) > MaxSequence)
    <3>1. Len(entries) \in Nat /\ t.nextSequence \in Nat /\ MaxSequence \in Nat
      BY LenProperties, SequenceAssumption DEF Entries, WellFormed, Counted
    <3>2. t.nextSequence + Len(entries) <= MaxSequence
      BY <2>3, <3>1
    <3>3. PutMany(t, entries) = LoadedFrom(t.nextSequence, entries)
      BY <2>1, <2>3 DEF BulkLoad
    <3> QED BY <1>3, <1>4, <3>2, <3>3, BulkLoadIsPutEach
  <2> QED BY <2>2, <2>3
<1> QED BY <1>1, <1>2, <1>3, <1>4 DEF PutMany

-----------------------------------------------------------------------------
(* Every mutation. *)

LEMMA TakeFollows ==
  ASSUME NEW t, WellFormed(t), NEW e
  PROVE  Follows(Take(t, e).tree, t)
<1>1. CASE e = Null
  BY <1>1, FollowsItself DEF Take, Returned
<1>2. CASE e # Null
  BY <1>2, RemovedFollows DEF Take, Returned
<1> QED BY <1>1, <1>2

LEMMA UpdateFollows ==
  ASSUME NEW t, WellFormed(t), NEW id, NEW value
  PROVE  Follows(UpdateById(t, id, value).tree, t)
<1> DEFINE e == FirstOf(WithId(t, id))
<1>1. CASE ~EnableEntryIdLookup
  BY <1>1, FollowsItself DEF UpdateById, Thrown
<1>2. CASE EnableEntryIdLookup /\ e = Null
  BY <1>2, FollowsItself DEF UpdateById, Returned
<1>3. CASE EnableEntryIdLookup /\ e # Null
  <2>1. WithId(t, id) # {}
    BY <1>3 DEF FirstOf
  <2>2. e \in t.entries
    BY <2>1, OnlyId
  <2>3. UpdateById(t, id, value).tree =
          [t EXCEPT !.entries = (@ \ {e}) \union {[e EXCEPT !.value = value]}]
    BY <1>3 DEF UpdateById, Returned
  <2> HIDE DEF e
  <2> QED BY <2>2, <2>3, ReplacedFollows
<1> QED BY <1>1, <1>2, <1>3

LEMMA ApplyFollows ==
  ASSUME NEW t, WellFormed(t), NEW m, IsMutation(m)
  PROVE  Follows(Apply(t, m).tree, t)
<1>1. CASE m.type = "put"
  <2>1. Apply(t, m) = Put(t, m.key, m.value) /\ m.key \in Int
    BY <1>1 DEF Apply, IsMutation
  <2> QED BY <2>1, PutFollows
<1>2. CASE m.type = "putMany"
  <2>1. Apply(t, m) = PutMany(t, m.entries) /\ Entries(m.entries)
    BY <1>2 DEF Apply, IsMutation, Entries
  <2> QED BY <2>1, PutManyFollows DEF Putting
<1>3. CASE m.type \in {"remove", "popFirst", "popLast"}
  <2>1. \E e : Apply(t, m) = Take(t, e)
    BY <1>3 DEF Apply, Remove, PopFirst, PopLast
  <2> QED BY <2>1, TakeFollows
<1>4. CASE m.type = "removeById"
  <2>1. Apply(t, m) = RemoveById(t, m.entryId)
    BY <1>4 DEF Apply
  <2>2. CASE EnableEntryIdLookup
    BY <2>1, <2>2, TakeFollows DEF RemoveById
  <2>3. CASE ~EnableEntryIdLookup
    BY <2>1, <2>3, FollowsItself DEF RemoveById, Thrown
  <2> QED BY <2>2, <2>3
<1>5. CASE m.type = "updateById"
  <2>1. Apply(t, m) = UpdateById(t, m.entryId, m.value)
    BY <1>5 DEF Apply
  <2> QED BY <2>1, UpdateFollows
<1>6. CASE m.type = "deleteRange"
  <2>1. Apply(t, m) = DeleteRange(t, m.startKey, m.endKey, m.options)
    BY <1>6 DEF Apply
  <2> QED BY <2>1, RemovedFollows DEF DeleteRange, Returned
<1>7. CASE m.type = "clear"
  <2>1. Apply(t, m) = Clear(t)
    BY <1>7 DEF Apply
  <2>2. [t EXCEPT !.entries = {}] = [t EXCEPT !.entries = @ \ t.entries]
    OBVIOUS
  <2> QED BY <2>1, <2>2, RemovedFollows DEF Clear, Returned
<1>8. m.type \in WriteTypes
  BY DEF IsMutation
<1> QED BY <1>1, <1>2, <1>3, <1>4, <1>5, <1>6, <1>7, <1>8 DEF WriteTypes

(* Under reject a batch with a key that is there already throws, wherever in *)
(* the batch the key is.                                                     *)
LEMMA PresentKeyThrows ==
  ASSUME NEW t, Counted(t), NEW entries, Entries(entries), DuplicateKeys = "reject",
         NEW j \in DOMAIN entries, HasKey(t, entries[j].key)
  PROVE  PutEach(t, entries).threw
<1> DEFINE n == Len(entries)
<1>1. n \in Nat /\ DOMAIN entries = 1..n /\ j \in 1..n
  BY LenProperties DEF Entries
<1>2. PICK r : Unfolds(r, "put", Returned(t, <<>>), entries, n)
               /\ r[n] = Folded("put", Returned(t, <<>>), entries)
  BY <1>1, FoldUnfolds
<1>3. r[0] = Returned(t, <<>>) /\ \A k \in 1..n : r[k] = PutStep(r[k - 1], entries[k])
  BY <1>2 DEF Unfolds, StepOf
<1> DEFINE Good(k) == /\ Counted(r[k].tree) /\ r[k].threw \in BOOLEAN
                      /\ ~r[k].threw => t.entries \subseteq r[k].tree.entries /\ k < j
           T == {k \in 0..n : ~Good(k)}
<1>4. Good(0)
  BY <1>1, <1>3 DEF Returned
<1>5. ASSUME NEW k \in 1..n, Good(k - 1) PROVE Good(k)
  <2> DEFINE done == r[k - 1]
             p == Put(done.tree, entries[k].key, entries[k].value)
  <2>1. /\ Counted(p.tree) /\ p.threw \in BOOLEAN
    BY <1>5, PutCounts
  <2>2. r[k] = PutStep(done, entries[k])
    BY <1>3
  <2>3. CASE done.threw
    BY <1>5, <2>2, <2>3 DEF PutStep
  <2>4. CASE ~done.threw /\ p.threw
    <3>1. r[k] = Thrown(done.tree)
      BY <2>2, <2>4 DEF PutStep
    <3> QED BY <1>5, <3>1 DEF Thrown
  <2>5. CASE ~done.threw /\ ~p.threw
    <3>1. r[k].tree = p.tree /\ r[k].threw = FALSE
      BY <2>2, <2>5 DEF PutStep, Returned
    <3>2. ~HasKey(done.tree, entries[k].key)
      <4> SUFFICES ASSUME HasKey(done.tree, entries[k].key) PROVE FALSE
        OBVIOUS
      <4>1. p = Thrown(done.tree)
        BY DEF Put
      <4> QED BY <2>5, <4>1 DEF Thrown
    <3>3. done.tree.entries \subseteq p.tree.entries
      BY <2>5, <3>2 DEF Put, Thrown, Returned
    <3>4. t.entries \subseteq done.tree.entries /\ k - 1 < j
      BY <1>5, <2>5
    <3>5. k # j
      BY <3>2, <3>4 DEF HasKey, Matching
    <3>6. k < j
      BY <1>1, <3>4, <3>5
    <3> HIDE DEF p, done
    <3> QED BY <2>1, <3>1, <3>3, <3>4, <3>6
  <2> QED BY <1>5, <2>1, <2>3, <2>4, <2>5
<1> HIDE DEF Good
<1>6. T = {}
  <2> SUFFICES ASSUME T # {} PROVE FALSE
    OBVIOUS
  <2>1. T \subseteq Nat
    BY <1>1
  <2>2. PICK k \in T : \A i \in T : k <= i
    BY <2>1, LeastNumber
  <2>3. k # 0
    BY <1>4, <2>2
  <2>4. k \in 1..n /\ k - 1 \in 0..n /\ k - 1 \notin T
    BY <1>1, <2>2, <2>3
  <2>5. Good(k - 1)
    BY <2>4
  <2> QED BY <1>5, <2>2, <2>4, <2>5
<1>7. Good(n)
  BY <1>1, <1>6
<1>8. r[n].threw
  BY <1>1, <1>7 DEF Good
<1> QED BY <1>2, <1>8, PutEachIsFolded

LEMMA RejectedThrows ==
  ASSUME NEW t, Counted(t), NEW m, IsMutation(m), Rejected(t, m)
  PROVE  Apply(t, m).threw
<1>1. CASE m.type = "put" /\ DuplicateKeys = "reject" /\ HasKey(t, m.key)
  <2>1. Apply(t, m) = Put(t, m.key, m.value)
    BY <1>1 DEF Apply
  <2>2. Put(t, m.key, m.value) = Thrown(t)
    BY <1>1 DEF Put
  <2> QED BY <2>1, <2>2 DEF Thrown
<1>2. CASE m.type = "putMany" /\ ~Ascending(m.entries)
  <2>1. Apply(t, m) = PutMany(t, m.entries)
    BY <1>2 DEF Apply
  <2>2. m.entries # <<>>
    BY <1>2 DEF Ascending
  <2>3. PutMany(t, m.entries) = Thrown(t)
    BY <1>2, <2>2 DEF PutMany
  <2> QED BY <2>1, <2>3 DEF Thrown
<1>3. CASE /\ m.type = "putMany" /\ Ascending(m.entries) /\ DuplicateKeys = "reject"
           /\ \E i \in DOMAIN m.entries : HasKey(t, m.entries[i].key)
  <2>1. Apply(t, m) = PutMany(t, m.entries) /\ Entries(m.entries)
    BY <1>3 DEF Apply, IsMutation, Entries
  <2>2. m.entries # <<>> /\ t.entries # {}
    BY <1>3 DEF HasKey, Matching
  <2>3. PutMany(t, m.entries) = PutEach(t, m.entries)
    BY <1>3, <2>2 DEF PutMany
  <2> QED BY <1>3, <2>1, <2>3, PresentKeyThrows
<1>4. CASE m.type \in {"removeById", "updateById"} /\ ~EnableEntryIdLookup
  BY <1>4 DEF Apply, RemoveById, UpdateById, Thrown
<1> QED BY <1>1, <1>2, <1>3, <1>4 DEF Rejected

LEMMA AbsentChangesNothing ==
  ASSUME NEW t, Counted(t), NEW m, IsMutation(m), ~Rejected(t, m), Absent(t, m)
  PROVE  /\ ~Apply(t, m).threw /\ Apply(t, m).tree = t
         /\ Apply(t, m).result = IF m.type = "deleteRange" THEN 0 ELSE Null
<1>1. CASE m.type = "remove" /\ ~HasKey(t, m.key)
  <2>1. FirstOf(Matching(t, m.key)) = Null
    BY <1>1 DEF HasKey, FirstOf
  <2> QED BY <1>1, <2>1 DEF Apply, Remove, Take, Returned
<1>2. CASE m.type \in {"removeById", "updateById"} /\ WithId(t, m.entryId) = {}
  <2>1. EnableEntryIdLookup
    BY <1>2 DEF Rejected
  <2>2. FirstOf(WithId(t, m.entryId)) = Null
    BY <1>2 DEF FirstOf
  <2> QED BY <1>2, <2>1, <2>2 DEF Apply, RemoveById, UpdateById, Take, Returned
<1>3. CASE m.type \in {"popFirst", "popLast"} /\ t.entries = {}
  <2>1. FirstOf(t.entries) = Null /\ LastOf(t.entries) = Null
    BY <1>3 DEF FirstOf, LastOf
  <2> QED BY <1>3, <2>1 DEF Apply, PopFirst, PopLast, Take, Returned
<1>4. CASE /\ m.type = "deleteRange"
           /\ InRange(t, m.startKey, m.endKey, m.options) = {}
  <2>1. Apply(t, m) = DeleteRange(t, m.startKey, m.endKey, m.options)
    BY <1>4 DEF Apply
  <2>2. [t EXCEPT !.entries = @ \ {}] = t
    BY DEF Counted
  <2>3. Cardinality({}) = 0
    BY FS_EmptySet
  <2> QED BY <1>4, <2>1, <2>2, <2>3 DEF DeleteRange, Returned
<1> QED BY <1>1, <1>2, <1>3, <1>4 DEF Absent

(* A mutation acts as it was judged. *)
LEMMA VerdictIsRight ==
  ASSUME NEW t, Counted(t), NEW m, IsMutation(m)
  PROVE  /\ Evaluate(t, m) = "invalid" => Apply(t, m).threw
         /\ Evaluate(t, m) = "nothing" =>
              /\ ~Apply(t, m).threw /\ Apply(t, m).tree = t
              /\ Apply(t, m).result = IF m.type = "deleteRange" THEN 0 ELSE Null
         /\ Evaluate(t, m) = "append" => (Apply(t, m).threw => Overflows(t, m))
<1>1. CASE Rejected(t, m)
  <2>1. Evaluate(t, m) = "invalid"
    BY <1>1 DEF Evaluate
  <2> QED BY <1>1, <2>1, RejectedThrows
<1>2. CASE ~Rejected(t, m) /\ Absent(t, m)
  <2>1. Evaluate(t, m) = "nothing"
    BY <1>2 DEF Evaluate
  <2> QED BY <1>2, <2>1, AbsentChangesNothing
<1>3. CASE ~Rejected(t, m) /\ ~Absent(t, m)
  <2>1. Evaluate(t, m) = "append"
    BY <1>3 DEF Evaluate
  <2> QED BY <2>1, ApplyCounts
<1> QED BY <1>1, <1>2, <1>3
=============================================================================
