------------------------- MODULE BranchArrayProofs -------------------------
(***************************************************************************)
(* Theorems about BranchArray.tla, for branches of every capacity.  The two  *)
(* arrays of a branch move in step, so the lemmas about one array in         *)
(* LeafArrayProofs.tla are used for each of them; what is new is where a     *)
(* child believes it is.  The invariant is that a child of this branch finds *)
(* itself at its index when its slot is live, and that every dead slot that  *)
(* still holds one lies in front of its index (Placed).                      *)
(***************************************************************************)
EXTENDS BranchArray, LeafArrayProofs, FiniteSetTheorems, WellFoundedInduction

-----------------------------------------------------------------------------
(* The invariant. *)

Kids(b) == LiveFrom(b.children, b.childOffset)
Keys(b) == LiveFrom(b.keys, b.childOffset)
Distinct(list) == \A j, k \in 1..Len(list) : list[j] = list[k] => j = k

Typed(b) ==
    /\ b \in [children : Seq(Children), keys : Seq(KeyObjects), childOffset : Nat]
    /\ b.childOffset <= Len(b.children)
    /\ Len(b.keys) = Len(b.children)

Live(b) == (b.childOffset + 1)..Len(b.children)

(* A dead slot that holds a child of this branch lies in front of its index. *)
Placed(b, index, parented) ==
    /\ \A j \in Live(b) : b.children[j] \in parented /\ index[b.children[j]] = j - 1
    /\ \A j \in 1..b.childOffset :
          b.children[j] \in parented => j <= index[b.children[j]]

BranchInv ==
    /\ Typed(branch)
    /\ indexInParent \in [Children -> Nat]
    /\ mine \subseteq Holds(branch.children)
    /\ keyOf \in [KeyObjects -> NodeKeys]
    /\ Placed(branch, indexInParent, mine)
    /\ Distinct(Keys(branch))
    /\ Len(Kids(branch)) >= 1 /\ Len(Kids(branch)) <= MaxBranch + 1
    /\ branch.childOffset <= MaxBranch - 2

-----------------------------------------------------------------------------
(* Lists. *)

LEMMA LeastIs ==
  ASSUME NEW T, T \subseteq Nat, T # {}
  PROVE  Least(T) \in T /\ \A m \in T : Least(T) <= m
<1> DEFINE R == {ss \in Nat \X Nat : ss[1] < ss[2]}
<1>1. IsWellFoundedOn(R, Nat)
  BY NatLessThanWellFounded DEF OpToRel
<1>2. PICK x \in T : \A y \in T : <<y, x>> \notin R
  BY <1>1, WFMin
<1>3. \A y \in T : x <= y
  <2>1. ASSUME NEW y \in T, y < x PROVE FALSE
    BY <1>2, <2>1
  <2> QED BY <2>1
<1> QED BY <1>3 DEF Least

LEMMA DistinctInserted ==
  ASSUME NEW S, NEW list \in Seq(S), Distinct(list), NEW i \in 0..Len(list), NEW x \in S,
         \A j \in 1..Len(list) : list[j] # x
  PROVE  Distinct(Inserted(list, i, x))
<1> DEFINE more == Inserted(list, i, x)
<1>1. /\ Len(list) \in Nat /\ Len(more) = Len(list) + 1 /\ i \in Nat
      /\ \A j \in 1..(Len(list) + 1) :
            more[j] = IF j <= i THEN list[j] ELSE IF j = i + 1 THEN x ELSE list[j - 1]
  BY LenProperties, InsertedTyped DEF Inserted
<1> HIDE DEF more
<1>2. ASSUME NEW j \in 1..(Len(list) + 1), NEW k \in 1..(Len(list) + 1), more[j] = more[k]
      PROVE  j = k
  <2>1. /\ j <= i => j \in 1..Len(list)
        /\ ~(j <= i) /\ j # i + 1 => j - 1 \in 1..Len(list)
        /\ k <= i => k \in 1..Len(list)
        /\ ~(k <= i) /\ k # i + 1 => k - 1 \in 1..Len(list)
    BY <1>1
  <2>2. CASE j = i + 1 \/ k = i + 1
    BY <1>1, <1>2, <2>1, <2>2
  <2>3. CASE j # i + 1 /\ k # i + 1
    <3> DEFINE a == IF j <= i THEN j ELSE j - 1
               b == IF k <= i THEN k ELSE k - 1
    <3>1. a \in 1..Len(list) /\ b \in 1..Len(list) /\ list[a] = list[b]
      BY <1>1, <1>2, <2>1, <2>3
    <3>2. a = b
      BY <3>1 DEF Distinct
    <3> QED BY <1>1, <2>3, <3>2
  <2> QED BY <2>2, <2>3
<1> QED BY <1>1, <1>2 DEF Distinct, more

LEMMA DistinctWithout ==
  ASSUME NEW S, NEW list \in Seq(S), Distinct(list), NEW i \in Nat, NEW n \in Nat,
         i + n <= Len(list)
  PROVE  /\ Distinct(Without(list, i, n))
         /\ \A j \in 1..(Len(list) - n) :
               /\ Without(list, i, n)[j] \in Holds(list)
               /\ \A k \in (i + 1)..(i + n) : Without(list, i, n)[j] # list[k]
<1> DEFINE less == Without(list, i, n)
<1>1. /\ Len(list) \in Nat /\ Len(less) = Len(list) - n
      /\ \A j \in 1..(Len(list) - n) : less[j] = IF j <= i THEN list[j] ELSE list[j + n]
  BY LenProperties, WithoutTyped DEF Without
<1> HIDE DEF less
<1> DEFINE At(j) == IF j <= i THEN j ELSE j + n
<1>2. \A j \in 1..(Len(list) - n) :
         At(j) \in 1..Len(list) /\ less[j] = list[At(j)] /\ ~(At(j) \in (i + 1)..(i + n))
  BY <1>1
<1>3. ASSUME NEW j \in 1..(Len(list) - n), NEW k \in 1..(Len(list) - n), less[j] = less[k]
      PROVE  j = k
  <2>1. At(j) = At(k)
    BY <1>2, <1>3 DEF Distinct
  <2> QED BY <2>1, <1>1
<1>4. ASSUME NEW j \in 1..(Len(list) - n), NEW k \in (i + 1)..(i + n), less[j] = list[k]
      PROVE  FALSE
  <2>1. k \in 1..Len(list)
    BY <1>1
  <2>2. list[At(j)] = list[k] /\ At(j) \in 1..Len(list) /\ At(j) # k
    BY <1>2, <1>4, <2>1
  <2> QED BY <2>1, <2>2 DEF Distinct
<1> HIDE DEF At
<1>5. \A j \in 1..(Len(list) - n) : less[j] \in Holds(list)
  <2>1. DOMAIN list = 1..Len(list)
    BY LenProperties
  <2> QED BY <1>2, <2>1 DEF Holds
<1>6. Distinct(less)
  BY <1>1, <1>3 DEF Distinct
<1>7. \A j \in 1..(Len(list) - n) : \A k \in (i + 1)..(i + n) : less[j] # list[k]
  BY <1>4
<1> QED BY <1>5, <1>6, <1>7 DEF less

LEMMA DistinctReplaced ==
  ASSUME NEW S, NEW list \in Seq(S), Distinct(list), NEW i \in 0..(Len(list) - 1), NEW x \in S,
         \A j \in 1..Len(list) : j # i + 1 => list[j] # x
  PROVE  Distinct(Replaced(list, i, x))
<1>1. /\ Len(list) \in Nat /\ i + 1 \in 1..Len(list)
  BY LenProperties
<1>2. /\ Len(Replaced(list, i, x)) = Len(list)
      /\ \A j \in 1..Len(list) : Replaced(list, i, x)[j] = IF j = i + 1 THEN x ELSE list[j]
  BY <1>1, ExceptSeq DEF Replaced
<1> QED BY <1>2 DEF Distinct

(* Children and keys side by side. *)
Linked(kids, keys, says) == [j \in 1..Len(kids) |-> Link(kids[j], says[keys[j]])]

Items == [child : Children, key : NodeKeys]
Sided(kids, keys) ==
    kids \in Seq(Children) /\ keys \in Seq(KeyObjects) /\ Len(kids) = Len(keys)
Says == [KeyObjects -> NodeKeys]

LEMMA LinkedTyped ==
  ASSUME NEW kids, NEW keys, Sided(kids, keys), NEW says \in Says
  PROVE  /\ Linked(kids, keys, says) \in Seq(Items)
         /\ Len(Linked(kids, keys, says)) = Len(kids)
<1>1. Len(kids) \in Nat /\ \A j \in 1..Len(kids) : kids[j] \in Children /\ keys[j] \in KeyObjects
  BY LenProperties, ElementOfSeq DEF Sided
<1>2. Linked(kids, keys, says) \in [1..Len(kids) -> Items]
  BY <1>1 DEF Linked, Link, Items, Says
<1> QED BY <1>1, <1>2, Tabulated

LEMMA LinkedInserted ==
  ASSUME NEW kids, NEW keys, Sided(kids, keys), NEW says \in Says, NEW i \in 0..Len(kids),
         NEW n \in Children, NEW o \in KeyObjects, NEW k \in NodeKeys,
         \A j \in 1..Len(keys) : keys[j] # o
  PROVE  Linked(Inserted(kids, i, n), Inserted(keys, i, o), [says EXCEPT ![o] = k])
            = Inserted(Linked(kids, keys, says), i, Link(n, k))
<1> DEFINE len == Len(kids)
           told == [says EXCEPT ![o] = k]
           a == Inserted(kids, i, n)
           b == Inserted(keys, i, o)
<1>1. /\ len \in Nat /\ Len(keys) = len /\ i \in Nat
      /\ \A j \in 1..len : keys[j] \in KeyObjects /\ told[keys[j]] = says[keys[j]]
      /\ told[o] = k
  BY LenProperties, ElementOfSeq DEF Sided, Says
<1>2. Len(a) = len + 1 /\ Len(Linked(kids, keys, says)) = len
  BY InsertedTyped, LinkedTyped DEF Sided
<1>3. ASSUME NEW j \in 1..(len + 1)
      PROVE  Link(a[j], told[b[j]]) = Inserted(Linked(kids, keys, says), i, Link(n, k))[j]
  <2>1. /\ a[j] = IF j <= i THEN kids[j] ELSE IF j = i + 1 THEN n ELSE kids[j - 1]
        /\ b[j] = IF j <= i THEN keys[j] ELSE IF j = i + 1 THEN o ELSE keys[j - 1]
        /\ Inserted(Linked(kids, keys, says), i, Link(n, k))[j] =
              IF j <= i THEN Linked(kids, keys, says)[j]
              ELSE IF j = i + 1 THEN Link(n, k) ELSE Linked(kids, keys, says)[j - 1]
    BY <1>1, <1>2 DEF Inserted
  <2>2. /\ j <= i => j \in 1..len
        /\ ~(j <= i) /\ j # i + 1 => j - 1 \in 1..len
    BY <1>1
  <2>3. \A x \in 1..len : Linked(kids, keys, says)[x] = Link(kids[x], told[keys[x]])
    BY <1>1 DEF Linked
  <2> HIDE DEF a, b, told
  <2> QED BY <1>1, <2>1, <2>2, <2>3
<1> HIDE DEF a, b, told
<1>4. Linked(a, b, told) = [j \in 1..(len + 1) |-> Link(a[j], told[b[j]])]
  BY <1>2 DEF Linked
<1>5. Inserted(Linked(kids, keys, says), i, Link(n, k))
        = [j \in 1..(len + 1) |-> Inserted(Linked(kids, keys, says), i, Link(n, k))[j]]
  BY <1>2 DEF Inserted
<1> QED BY <1>3, <1>4, <1>5 DEF a, b, told

LEMMA LinkedWithout ==
  ASSUME NEW kids, NEW keys, Sided(kids, keys), NEW says \in Says, NEW i \in Nat, NEW n \in Nat,
         i + n <= Len(kids)
  PROVE  Linked(Without(kids, i, n), Without(keys, i, n), says)
            = Without(Linked(kids, keys, says), i, n)
<1> DEFINE len == Len(kids)
           a == Without(kids, i, n)
           b == Without(keys, i, n)
<1>1. len \in Nat /\ Len(keys) = len
  BY LenProperties DEF Sided
<1>2. Len(a) = len - n /\ Len(Linked(kids, keys, says)) = len
  BY <1>1, WithoutTyped, LinkedTyped DEF Sided
<1>3. ASSUME NEW j \in 1..(len - n)
      PROVE  Link(a[j], says[b[j]]) = Without(Linked(kids, keys, says), i, n)[j]
  <2>1. /\ a[j] = IF j <= i THEN kids[j] ELSE kids[j + n]
        /\ b[j] = IF j <= i THEN keys[j] ELSE keys[j + n]
        /\ Without(Linked(kids, keys, says), i, n)[j] =
              IF j <= i THEN Linked(kids, keys, says)[j] ELSE Linked(kids, keys, says)[j + n]
    BY <1>1, <1>2 DEF Without
  <2>2. j \in 1..len /\ j + n \in 1..len
    BY <1>1
  <2>3. \A x \in 1..len : Linked(kids, keys, says)[x] = Link(kids[x], says[keys[x]])
    BY DEF Linked
  <2> HIDE DEF a, b
  <2> QED BY <2>1, <2>2, <2>3
<1> HIDE DEF a, b
<1>4. Linked(a, b, says) = [j \in 1..(len - n) |-> Link(a[j], says[b[j]])]
  BY <1>2 DEF Linked
<1>5. Without(Linked(kids, keys, says), i, n)
        = [j \in 1..(len - n) |-> Without(Linked(kids, keys, says), i, n)[j]]
  BY <1>2 DEF Without
<1> QED BY <1>3, <1>4, <1>5 DEF a, b

(* The key of one child is written, or replaced by another object. *)
LEMMA LinkedReplaced ==
  ASSUME NEW kids, NEW keys, Sided(kids, keys), NEW says \in Says, NEW i \in 0..(Len(kids) - 1),
         NEW o \in KeyObjects, NEW k \in NodeKeys,
         \A j \in 1..Len(keys) : j # i + 1 => keys[j] # o
  PROVE  Linked(kids, Replaced(keys, i, o), [says EXCEPT ![o] = k])
            = Replaced(Linked(kids, keys, says), i, Link(kids[i + 1], k))
<1> DEFINE len == Len(kids)
           told == [says EXCEPT ![o] = k]
           b == Replaced(keys, i, o)
           c == Linked(kids, keys, says)
           d == Replaced(c, i, Link(kids[i + 1], k))
<1>1. /\ len \in Nat /\ Len(keys) = len /\ i + 1 \in 1..len
      /\ \A j \in 1..len : keys[j] \in KeyObjects
  BY LenProperties, ElementOfSeq DEF Sided
<1>2. \A j \in 1..len : j # i + 1 => told[keys[j]] = says[keys[j]]
  BY <1>1 DEF Says
<1>3. told[o] = k
  BY DEF Says
<1>4. \A j \in 1..len : b[j] = IF j = i + 1 THEN o ELSE keys[j]
  <2>1. keys \in Seq(KeyObjects) /\ i + 1 \in 1..Len(keys)
    BY <1>1 DEF Sided
  <2> QED BY <1>1, <2>1, ExceptSeq DEF Replaced
<1>5. DOMAIN c = 1..len /\ \A j \in 1..len : c[j] = Link(kids[j], says[keys[j]])
  BY DEF Linked
<1> HIDE DEF c, b, told
<1>6. d = [j \in 1..len |-> IF j = i + 1 THEN Link(kids[i + 1], k) ELSE c[j]]
  BY <1>1, <1>5 DEF Replaced
<1>7. \A j \in 1..len :
         Link(kids[j], told[b[j]]) = IF j = i + 1 THEN Link(kids[i + 1], k) ELSE c[j]
  BY <1>2, <1>3, <1>4, <1>5
<1> QED BY <1>6, <1>7 DEF Linked, b, c, told

(* Slots that move up to the first live one, and the end cut off. *)
LEMMA LiveMovedUp ==
  ASSUME NEW S, NEW es \in Seq(S), NEW off \in 0..Len(es), NEW gap \in 0..off
  PROVE  /\ Without(es, gap, off - gap) \in Seq(S)
         /\ Len(Without(es, gap, off - gap)) = Len(es) - (off - gap)
         /\ LiveFrom(Without(es, gap, off - gap), gap) = LiveFrom(es, off)
         /\ \A j \in 1..gap : Without(es, gap, off - gap)[j] = es[j]
<1> DEFINE n == off - gap
           b == Without(es, gap, n)
<1>1. Len(es) \in Nat /\ n \in Nat /\ gap \in Nat /\ gap + n <= Len(es) /\ off = gap + n
  BY LenProperties
<1> HIDE DEF n
<1>2. b \in Seq(S) /\ Len(b) = Len(es) - n
  BY <1>1, WithoutTyped
<1>3. \A j \in 1..(Len(es) - n) : b[j] = IF j <= gap THEN es[j] ELSE es[j + n]
  BY DEF Without
<1> HIDE DEF b
<1>4. /\ LiveFrom(es, off) \in Seq(S) /\ Len(LiveFrom(es, off)) = Len(es) - off
      /\ \A j \in 1..(Len(es) - off) : LiveFrom(es, off)[j] = es[off + j]
  BY LiveIs
<1>5. \A j \in 1..(Len(es) - off) : b[gap + j] = es[off + j]
  <2> TAKE j \in 1..(Len(es) - off)
  <2>1. gap + j \in 1..(Len(es) - n) /\ ~(gap + j <= gap) /\ gap + j + n = off + j
    BY <1>1
  <2> QED BY <1>3, <2>1
<1>6. gap \in 0..Len(b) /\ Len(b) - gap = Len(es) - off
  BY <1>1, <1>2
<1>7. LiveFrom(b, gap) = LiveFrom(es, off)
  <2> DEFINE list == LiveFrom(es, off)
  <2>1. list \in Seq(S) /\ Len(list) = Len(b) - gap
    BY <1>4, <1>6
  <2>2. \A j \in 1..Len(list) : b[gap + j] = list[j]
    BY <1>4, <1>5
  <2> HIDE DEF list
  <2>3. LiveFrom(b, gap) = list
    BY <1>2, <1>6, <2>1, <2>2, SameList
  <2> QED BY <2>3 DEF list
<1>8. \A j \in 1..gap : b[j] = es[j]
  BY <1>1, <1>3
<1> QED BY <1>2, <1>7, <1>8 DEF n, b

LEMMA LiveCut ==
  ASSUME NEW S, NEW es \in Seq(S), NEW off \in 0..Len(es), NEW n \in off..Len(es)
  PROVE  /\ Truncated(es, n) \in Seq(S) /\ Len(Truncated(es, n)) = n
         /\ \A j \in 1..n : Truncated(es, n)[j] = es[j]
         /\ LiveFrom(Truncated(es, n), off) = Without(LiveFrom(es, off), n - off, Len(es) - n)
<1>1. Len(es) \in Nat /\ n \in 0..Len(es) /\ n \in Nat
  BY LenProperties
<1>2. Truncated(es, n) \in Seq(S) /\ Len(Truncated(es, n)) = n
  BY <1>1, ShortenedTyped DEF Truncated
<1>3. \A j \in 1..n : Truncated(es, n)[j] = es[j]
  BY DEF Truncated, Shortened
<1>4. Truncated(es, n) = Without(es, off + (n - off), Len(es) - n)
  <2>1. Len(es) - (Len(es) - n) = n /\ off + (n - off) = n /\ \A j \in 1..n : j <= n
    BY <1>1
  <2> QED BY <2>1 DEF Truncated, Shortened, Without
<1>5. n - off \in Nat /\ Len(es) - n \in Nat /\ off + (n - off) + (Len(es) - n) <= Len(es)
  BY <1>1
<1> QED BY <1>2, <1>3, <1>4, <1>5, LiveWithout

-----------------------------------------------------------------------------
(* Branches. *)

LEMMA BranchIs ==
  ASSUME NEW b, Typed(b)
  PROVE  /\ b = [children |-> b.children, keys |-> b.keys, childOffset |-> b.childOffset]
         /\ b.children \in Seq(Children) /\ b.keys \in Seq(KeyObjects)
         /\ Len(b.children) \in Nat /\ Len(b.keys) = Len(b.children)
         /\ b.childOffset \in 0..Len(b.children)
         /\ DOMAIN b.keys = 1..Len(b.children) /\ DOMAIN b.children = 1..Len(b.children)
         /\ \A j \in 1..Len(b.children) : b.children[j] \in Children /\ b.keys[j] \in KeyObjects
         /\ Sided(Kids(b), Keys(b)) /\ Len(Kids(b)) = Len(b.children) - b.childOffset
         /\ Len(Keys(b)) = Len(Kids(b))
         /\ BranchChildCount(b) = Len(Kids(b)) /\ BranchChildCount(b) \in Nat
         /\ \A j \in 1..Len(Kids(b)) : /\ Kids(b)[j] = b.children[b.childOffset + j]
                                       /\ Keys(b)[j] = b.keys[b.childOffset + j]
<1>1. /\ b.children \in Seq(Children) /\ b.keys \in Seq(KeyObjects) /\ b.childOffset \in Nat
      /\ b.childOffset <= Len(b.children) /\ Len(b.keys) = Len(b.children)
      /\ b = [children |-> b.children, keys |-> b.keys, childOffset |-> b.childOffset]
  BY DEF Typed
<1>2. /\ Len(b.children) \in Nat /\ DOMAIN b.children = 1..Len(b.children)
      /\ DOMAIN b.keys = 1..Len(b.children)
      /\ \A j \in 1..Len(b.children) : b.children[j] \in Children /\ b.keys[j] \in KeyObjects
  BY <1>1, LenProperties, ElementOfSeq
<1>3. b.childOffset \in 0..Len(b.children)
  BY <1>1, <1>2
<1>4. /\ Kids(b) \in Seq(Children) /\ Len(Kids(b)) = Len(b.children) - b.childOffset
      /\ \A j \in 1..(Len(b.children) - b.childOffset) :
            Kids(b)[j] = b.children[b.childOffset + j]
  BY <1>1, <1>3, LiveIs DEF Kids
<1>5. /\ Keys(b) \in Seq(KeyObjects) /\ Len(Keys(b)) = Len(b.children) - b.childOffset
      /\ \A j \in 1..(Len(b.children) - b.childOffset) :
            Keys(b)[j] = b.keys[b.childOffset + j]
  BY <1>1, <1>3, LiveIs DEF Keys
<1> QED BY <1>1, <1>2, <1>3, <1>4, <1>5 DEF Sided, BranchChildCount

LEMMA RecordTyped ==
  ASSUME NEW kids \in Seq(Children), NEW keys \in Seq(KeyObjects), Len(keys) = Len(kids),
         NEW off \in 0..Len(kids), NEW b, b = [children |-> kids, keys |-> keys, childOffset |-> off]
  PROVE  /\ Typed(b) /\ Kids(b) = LiveFrom(kids, off) /\ Keys(b) = LiveFrom(keys, off)
<1>1. Len(kids) \in Nat
  BY LenProperties
<1> QED BY <1>1 DEF Typed, Kids, Keys

LEMMA LinksAre ==
  ASSUME NEW b, Typed(b), NEW says
  PROVE  [i \in 1..BranchChildCount(b) |->
            LET slot == b.childOffset + i - 1
            IN  Link(ChildIn(b, slot), says[KeyIn(b, slot)])] = Linked(Kids(b), Keys(b), says)
<1>1. /\ BranchChildCount(b) = Len(Kids(b)) /\ Len(Kids(b)) \in Nat /\ b.childOffset \in Nat
      /\ \A j \in 1..Len(Kids(b)) : /\ Kids(b)[j] = b.children[b.childOffset + j]
                                    /\ Keys(b)[j] = b.keys[b.childOffset + j]
  BY BranchIs
<1>2. \A j \in 1..Len(Kids(b)) : b.childOffset + j - 1 + 1 = b.childOffset + j
  BY <1>1
<1> QED BY <1>1, <1>2 DEF Linked, ChildIn, KeyIn

LEMMA BranchNow ==
  ASSUME BranchInv
  PROVE  /\ Typed(branch) /\ Distinct(Kids(branch)) /\ Distinct(Keys(branch))
         /\ Links = Linked(Kids(branch), Keys(branch), keyOf)
         /\ Count = Len(Kids(branch)) /\ Count \in 1..(MaxBranch + 1)
         /\ Len(branch.children) = branch.childOffset + Count
         /\ MaxBranch \in Nat /\ MaxBranch >= 3 /\ branch.childOffset <= MaxBranch - 2
         /\ mine \subseteq Children /\ keyOf \in Says /\ indexInParent \in [Children -> Nat]
         /\ \A j \in 1..Count : Kids(branch)[j] \in mine
<1> DEFINE kids == Kids(branch)
           keys == Keys(branch)
           off == branch.childOffset
<1>1. /\ Typed(branch) /\ MaxBranch \in Nat /\ MaxBranch >= 3 /\ off <= MaxBranch - 2
      /\ Len(kids) >= 1 /\ Len(kids) <= MaxBranch + 1 /\ Placed(branch, indexInParent, mine)
      /\ Distinct(keys) /\ mine \subseteq Holds(branch.children) /\ keyOf \in Says
      /\ indexInParent \in [Children -> Nat]
  BY MaxBranchAssumption DEF BranchInv, Says
<1>2. /\ Len(branch.children) \in Nat /\ off \in 0..Len(branch.children)
      /\ DOMAIN branch.children = 1..Len(branch.children)
      /\ \A j \in 1..Len(branch.children) : branch.children[j] \in Children
      /\ Len(kids) = Len(branch.children) - off /\ Count = Len(kids)
      /\ \A j \in 1..Len(kids) : /\ kids[j] = branch.children[off + j]
                                 /\ keys[j] = branch.keys[off + j]
  BY <1>1, BranchIs DEF Count
<1>3. \A j \in 1..Len(kids) : kids[j] \in mine /\ indexInParent[kids[j]] = off + j - 1
  <2>1. \A j \in 1..Len(kids) : off + j \in Live(branch)
    BY <1>2 DEF Live
  <2>2. \A j \in Live(branch) : /\ branch.children[j] \in mine
                                /\ indexInParent[branch.children[j]] = j - 1
    BY <1>1 DEF Placed
  <2>3. off \in Int /\ Live(branch) \subseteq Int
    BY <1>2 DEF Live
  <2> HIDE DEF kids, keys, off
  <2> TAKE j \in 1..Len(kids)
  <2> DEFINE s == off + j
  <2>4. s \in Live(branch) /\ s \in Int /\ kids[j] = branch.children[s] /\ s = off + j
    BY <1>2, <2>1, <2>3
  <2> HIDE DEF s
  <2>5. kids[j] \in mine /\ indexInParent[kids[j]] = s - 1
    BY <2>2, <2>4
  <2> QED BY <2>3, <2>4, <2>5
<1> HIDE DEF kids, keys
<1>4. Distinct(kids)
  <2> SUFFICES ASSUME NEW j \in 1..Len(kids), NEW k \in 1..Len(kids), kids[j] = kids[k]
               PROVE  j = k
    BY DEF Distinct
  <2>1. off + j - 1 = off + k - 1
    BY <1>3
  <2> QED BY <2>1, <1>2
<1>5. mine \subseteq Children
  BY <1>1, <1>2 DEF Holds
<1>6. Links = Linked(kids, keys, keyOf)
  BY <1>1, LinksAre DEF Links, kids, keys
<1>7. Count \in 1..(MaxBranch + 1) /\ Len(branch.children) = off + Count
  <2>1. Count = Len(kids) /\ Len(kids) = Len(branch.children) - off
    BY <1>2
  <2> QED BY <1>1, <1>2, <2>1
<1>8. \A j \in 1..Count : kids[j] \in mine
  BY <1>2, <1>3
<1>9. Count = Len(kids)
  BY <1>2
<1> HIDE DEF off
<1>10. /\ Links = Linked(Kids(branch), Keys(branch), keyOf) /\ Distinct(Kids(branch))
       /\ Count = Len(Kids(branch)) /\ \A j \in 1..Count : Kids(branch)[j] \in mine
       /\ Distinct(Keys(branch))
  BY <1>1, <1>4, <1>6, <1>8, <1>9 DEF kids, keys
<1>11. /\ Len(branch.children) = branch.childOffset + Count
       /\ branch.childOffset <= MaxBranch - 2
  BY <1>1, <1>7 DEF off
<1> QED BY <1>1, <1>5, <1>7, <1>10, <1>11

-----------------------------------------------------------------------------
(* Where the children are. *)

(* The live slots hold children of this branch, each once; what a dead slot  *)
(* still holds is live too, or has its index behind it.                      *)
Sound(b, parented) ==
    /\ Typed(b) /\ Distinct(Kids(b))
    /\ \A j \in Live(b) : b.children[j] \in parented
    /\ \A j \in 1..b.childOffset : b.children[j] \in parented =>
          \/ \E k \in Live(b) : b.children[k] = b.children[j]
          \/ j <= indexInParent[b.children[j]]

(* The slots from first to last are those where a child does not know its    *)
(* index yet.                                                                *)
Untold(b, first, last) ==
    /\ first..last \subseteq LiveSlots(b)
    /\ \A j \in Live(b) : j - 1 \in first..last \/ indexInParent[b.children[j]] = j - 1

LEMMA ArrangedPlaces ==
  ASSUME BranchInv, NEW b, NEW parented, Sound(b, parented),
         NEW first \in Int, NEW last \in Int, Untold(b, first, last)
  PROVE  /\ Arranged(b, first, last).branch = b
         /\ Arranged(b, first, last).index \in [Children -> Nat]
         /\ Placed(b, Arranged(b, first, last).index, parented)
<1> DEFINE kids == b.children
           off == b.childOffset
           index == Arranged(b, first, last).index
           Here(n) == {p \in first..last : ChildIn(b, p) = n}
<1>s. /\ Typed(b) /\ Distinct(Kids(b))
      /\ \A j \in Live(b) : /\ kids[j] \in parented
                            /\ j - 1 \in first..last \/ indexInParent[kids[j]] = j - 1
      /\ \A j \in 1..off : kids[j] \in parented =>
            \/ \E k \in Live(b) : kids[k] = kids[j]
            \/ j <= indexInParent[kids[j]]
  BY DEF Sound, Untold
<1>1. /\ Len(kids) \in Nat /\ off \in 0..Len(kids) /\ \A j \in 1..Len(kids) : kids[j] \in Children
      /\ Len(Kids(b)) = Len(kids) - off
      /\ \A j \in 1..Len(Kids(b)) : Kids(b)[j] = kids[off + j]
  BY <1>s, BranchIs
<1>2. indexInParent \in [Children -> Nat]
  BY DEF BranchInv
<1>3. \A n \in Children :
         index[n] = IF \E p \in first..last : ChildIn(b, p) = n
                    THEN CHOOSE p \in first..last : ChildIn(b, p) = n ELSE indexInParent[n]
  BY DEF Arranged
<1>4. ASSUME NEW j \in Live(b), NEW k \in Live(b), kids[j] = kids[k] PROVE j = k
  <2>1. Live(b) = (off + 1)..Len(kids)
    BY DEF Live
  <2> HIDE DEF kids, off, index
  <2>2. j \in Int /\ k \in Int /\ off \in Int
    BY <1>1, <2>1
  <2>3. /\ j - off \in 1..(Len(kids) - off) /\ k - off \in 1..(Len(kids) - off)
        /\ off + (j - off) = j /\ off + (k - off) = k
    BY <1>1, <2>1, <2>2
  <2>4. Kids(b)[j - off] = Kids(b)[k - off]
    BY <1>1, <1>4, <2>3
  <2>5. j - off = k - off
    BY <1>1, <1>s, <2>3, <2>4 DEF Distinct
  <2> QED BY <2>2, <2>5
<1>5. \A p \in first..last : p \in Nat /\ p + 1 \in Live(b) /\ ChildIn(b, p) = kids[p + 1]
  BY <1>1 DEF Live, ChildIn, Untold, LiveSlots
<1>6. index \in [Children -> Nat]
  <2>1. \A n \in Children : index[n] \in Nat
    BY <1>2, <1>3, <1>5
  <2>2. index = [n \in Children |-> index[n]]
    BY DEF Arranged
  <2> HIDE DEF index
  <2> QED BY <2>1, <2>2
<1> HIDE DEF index
<1>7. ASSUME NEW j \in Live(b) PROVE kids[j] \in Children /\ index[kids[j]] = j - 1
  <2>1. j \in 1..Len(kids) /\ kids[j] \in Children /\ j \in Int
    BY <1>1 DEF Live
  <2>2. \A p \in first..last : ChildIn(b, p) = kids[j] => p = j - 1
    <3> TAKE p \in first..last
    <3> HAVE ChildIn(b, p) = kids[j]
    <3>1. p + 1 = j /\ p \in Nat
      BY <1>4, <1>5
    <3> QED BY <3>1
  <2>3. CASE j - 1 \in first..last
    <3>1. ChildIn(b, j - 1) = kids[j]
      <4>1. j - 1 + 1 = j
        BY <2>1
      <4> QED BY <4>1 DEF ChildIn
    <3> QED BY <1>3, <2>1, <2>2, <2>3, <3>1
  <2>4. CASE j - 1 \notin first..last
    <3>1. ~\E p \in first..last : ChildIn(b, p) = kids[j]
      BY <2>2, <2>4
    <3> QED BY <1>3, <1>s, <2>1, <2>4, <3>1
  <2> QED BY <2>3, <2>4
<1>8. ASSUME NEW j \in 1..off, kids[j] \in parented PROVE j <= index[kids[j]]
  <2>1. kids[j] \in Children /\ j \in Int /\ off \in Int
    BY <1>1
  <2>2. CASE \E k \in Live(b) : kids[k] = kids[j]
    <3>1. PICK k \in Live(b) : kids[k] = kids[j]
      BY <2>2
    <3>2. index[kids[j]] = k - 1 /\ k \in Int /\ k >= off + 1
      BY <1>1, <1>7, <3>1 DEF Live
    <3> QED BY <2>1, <3>2
  <2>3. CASE ~\E k \in Live(b) : kids[k] = kids[j]
    <3>1. ~\E p \in first..last : ChildIn(b, p) = kids[j]
      BY <1>5, <2>3
    <3> QED BY <1>3, <1>8, <1>s, <2>1, <2>3, <3>1
  <2> QED BY <2>2, <2>3
<1>9. Placed(b, index, parented)
  BY <1>7, <1>8, <1>s DEF Placed
<1>10. Arranged(b, first, last).branch = b
  BY DEF Arranged
<1> QED BY <1>6, <1>9, <1>10 DEF index

(* What the arrays become. *)
Does(a, parented, kids, keys) ==
    /\ Typed(a.branch) /\ a.index \in [Children -> Nat]
    /\ Kids(a.branch) = kids /\ Keys(a.branch) = keys
    /\ Placed(a.branch, a.index, parented)
    /\ a.branch.childOffset <= MaxBranch - 2

LEMMA ArrangedDoes ==
  ASSUME BranchInv, NEW b, NEW parented, Sound(b, parented),
         NEW first \in Int, NEW last \in Int, Untold(b, first, last),
         b.childOffset <= MaxBranch - 2
  PROVE  Does(Arranged(b, first, last), parented, Kids(b), Keys(b))
<1> DEFINE a == Arranged(b, first, last)
<1>1. /\ a.branch = b /\ a.index \in [Children -> Nat] /\ Placed(b, a.index, parented)
  BY ArrangedPlaces
<1> HIDE DEF a
<1>2. Does(a, parented, Kids(b), Keys(b))
  BY <1>1 DEF Does, Sound
<1> QED BY <1>2 DEF a

(* A dead slot is left behind only where there was one, so that what it      *)
(* holds is what it held.                                                    *)
LEMMA CompactedDoes ==
  ASSUME BranchInv, NEW b, NEW parented, Sound(b, parented),
         b.childOffset = 0 => Untold(b, 0, -1)
  PROVE  /\ Does(BranchCompacted(b), parented, Kids(b), Keys(b))
         /\ BranchCompacted(b).branch.childOffset = IF b.childOffset <= 1 THEN 0 ELSE 1
<1> DEFINE off == b.childOffset
           gap == IF off <= 1 THEN 0 ELSE 1
           len == Len(b.children)
           n == off - gap
           c == Cut(Moved(b, gap, off, len, gap), len - n)
           kids == Without(b.children, gap, n)
           keys == Without(b.keys, gap, n)
<1>1. /\ Typed(b) /\ Distinct(Kids(b))
      /\ b.children \in Seq(Children) /\ b.keys \in Seq(KeyObjects)
      /\ len \in Nat /\ Len(b.keys) = len /\ off \in 0..len
      /\ \A j \in Live(b) : b.children[j] \in parented
      /\ \A j \in 1..off : b.children[j] \in parented =>
            \/ \E k \in Live(b) : b.children[k] = b.children[j]
            \/ j <= indexInParent[b.children[j]]
  BY BranchIs DEF Sound
<1>2. /\ gap \in 0..off /\ gap \in Nat /\ n \in Nat /\ gap + n <= len /\ gap + n = off
      /\ gap <= 1 /\ off \in Nat
  BY <1>1
<1>3. MaxBranch \in Nat /\ MaxBranch >= 3
  BY MaxBranchAssumption
<1>4. CASE off = 0
  <2>1. BranchCompacted(b) = Arranged(b, 0, -1)
    BY <1>4 DEF BranchCompacted
  <2>2. BranchCompacted(b).branch = b
    BY <2>1 DEF Arranged
  <2> QED BY <1>3, <1>4, <2>1, <2>2, ArrangedDoes
<1>5. CASE off # 0
  <2>1. BranchCompacted(b) = Arranged(c, gap, len - n - 1)
    BY <1>5 DEF BranchCompacted
  <2>2. c = [children |-> Truncated(CopyWithin(b.children, gap, off, len), len - n),
             keys |-> Truncated(CopyWithin(b.keys, gap, off, len), len - n),
             childOffset |-> gap]
    BY DEF Cut, Moved
  <2> HIDE DEF c, gap
  <2>3. /\ Truncated(CopyWithin(b.children, gap, off, len), len - n) = kids
        /\ Truncated(CopyWithin(b.keys, gap, off, len), len - n) = keys
    <3> HIDE DEF kids, keys, n, off
    <3>1. /\ Truncated(CopyWithin(b.children, gap, gap + n, Len(b.children)),
                       Len(b.children) - n) = Without(b.children, gap, n)
          /\ Truncated(CopyWithin(b.keys, gap, gap + n, Len(b.keys)), Len(b.keys) - n)
                = Without(b.keys, gap, n)
      BY ZenonT(60), <1>1, <1>2, ClosedUp
    <3>2. gap + n = off /\ Len(b.keys) = len /\ Len(b.children) = len
      BY <1>1, <1>2
    <3> QED BY <3>1, <3>2 DEF kids, keys
  <2>4a. c = [children |-> kids, keys |-> keys, childOffset |-> gap]
    BY <2>2, <2>3
  <2>4b. /\ kids \in Seq(Children) /\ keys \in Seq(KeyObjects)
        /\ Len(kids) = len - n /\ Len(keys) = len - n
        /\ LiveFrom(kids, gap) = Kids(b) /\ LiveFrom(keys, gap) = Keys(b)
        /\ \A j \in 1..gap : kids[j] = b.children[j]
    <3>1. /\ b.children \in Seq(Children) /\ b.keys \in Seq(KeyObjects)
          /\ off \in 0..Len(b.children) /\ off \in 0..Len(b.keys) /\ gap \in 0..off
      BY <1>1, <1>2
    <3> HIDE DEF off
    <3>2. /\ Without(b.children, gap, off - gap) \in Seq(Children)
          /\ Len(Without(b.children, gap, off - gap)) = Len(b.children) - (off - gap)
          /\ LiveFrom(Without(b.children, gap, off - gap), gap) = LiveFrom(b.children, off)
          /\ \A j \in 1..gap : Without(b.children, gap, off - gap)[j] = b.children[j]
      BY <3>1, LiveMovedUp
    <3>3. /\ Without(b.keys, gap, off - gap) \in Seq(KeyObjects)
          /\ Len(Without(b.keys, gap, off - gap)) = Len(b.keys) - (off - gap)
          /\ LiveFrom(Without(b.keys, gap, off - gap), gap) = LiveFrom(b.keys, off)
      BY ZenonT(60), <3>1, LiveMovedUp
    <3> QED BY <1>1, <3>2, <3>3 DEF Kids, Keys, off
  <2> HIDE DEF kids, keys, n, off, len
  <2>4. Typed(c) /\ Kids(c) = Kids(b) /\ Keys(c) = Keys(b)
    <3>1. gap \in 0..Len(kids) /\ Len(keys) = Len(kids)
      BY <1>1, <1>2, <2>4b
    <3> QED BY <2>4a, <2>4b, <3>1, RecordTyped
  <2>5. /\ c.childOffset = gap /\ Live(c) = (gap + 1)..(len - n)
        /\ LiveSlots(c) = gap..(len - n - 1)
    BY <2>4a, <2>4b DEF Live, LiveSlots
  (* The live children are the same, wherever they are. *)
  <2>6. \A j \in Live(b) : j - n \in Live(c) /\ c.children[j - n] = b.children[j]
    <3> TAKE j \in Live(b)
    <3>1. j \in Int /\ j >= off + 1 /\ j <= len
      BY <1>1 DEF Live, off, len
    <3>2. /\ j - n \in Live(c) /\ j - off \in 1..(len - off)
          /\ gap + (j - off) = j - n /\ off + (j - off) = j /\ len - n - gap = len - off
      BY <1>1, <1>2, <2>5, <3>1
    <3>3. Kids(c)[j - off] = c.children[gap + (j - off)]
      <4>1. j - off \in 1..Len(Kids(c))
        BY <1>1, <2>4, <3>2, BranchIs DEF off, len
      <4> QED BY <2>4, <2>5, <4>1, BranchIs
    <3>4. Kids(b)[j - off] = b.children[off + (j - off)]
      BY <1>1, <3>2, BranchIs DEF off, len
    <3> QED BY <2>4, <3>2, <3>3, <3>4
  <2>7. \A j \in Live(c) : j + n \in Live(b) /\ c.children[j] = b.children[j + n]
    <3> TAKE j \in Live(c)
    <3>1. j \in Int /\ j + n \in (off + 1)..len /\ j + n - n = j
      BY <1>1, <1>2, <2>5
    <3>2. j + n \in Live(b)
      BY <3>1 DEF Live, off, len
    <3> DEFINE k == j + n
    <3>3. k \in Live(b) /\ k - n = j
      BY <1>2, <3>1, <3>2
    <3> HIDE DEF k
    <3>4. c.children[j] = b.children[k]
      BY <2>6, <3>3
    <3> QED BY <3>3, <3>4 DEF k
  <2>8. Sound(c, parented)
    <3>1. \A j \in Live(c) : c.children[j] \in parented
      BY <1>1, <2>7
    <3>2. ASSUME NEW j \in 1..gap, c.children[j] \in parented
          PROVE  \/ \E k \in Live(c) : c.children[k] = c.children[j]
                 \/ j <= indexInParent[c.children[j]]
      <4>1. j \in 1..off /\ c.children[j] = b.children[j]
        BY <1>1, <1>2, <2>4a, <2>4b
      <4>2. CASE \E k \in Live(b) : b.children[k] = b.children[j]
        BY <2>6, <4>1, <4>2
      <4>3. CASE ~\E k \in Live(b) : b.children[k] = b.children[j]
        BY <1>1, <3>2, <4>1, <4>3
      <4> QED BY <4>2, <4>3
    <3> QED BY <1>1, <2>4, <2>5, <3>1, <3>2 DEF Sound
  <2>9. gap \in Int /\ len - n - 1 \in Int /\ Untold(c, gap, len - n - 1)
    <3>1. \A j \in Live(c) : j - 1 \in gap..(len - n - 1)
      BY <1>1, <1>2, <2>5
    <3> QED BY <1>1, <1>2, <2>5, <3>1 DEF Untold
  <2>10. c.childOffset <= MaxBranch - 2
    BY <1>2, <1>3, <2>5
  <2>11. Does(BranchCompacted(b), parented, Kids(b), Keys(b))
    BY <2>1, <2>4, <2>8, <2>9, <2>10, ArrangedDoes
  <2>12. BranchCompacted(b).branch.childOffset = gap
    BY <2>1, <2>5 DEF Arranged
  <2> QED BY <2>11, <2>12 DEF gap, off
<1> QED BY <1>4, <1>5

LEMMA CompactedInTimeDoes ==
  ASSUME BranchInv, NEW b, NEW parented, Sound(b, parented),
         NEW first \in Int, NEW last \in Int, Untold(b, first, last),
         b.childOffset >= 1, Len(Kids(b)) <= MaxBranch
  PROVE  Does(CompactedIfHalfDead(Arranged(b, first, last)), parented, Kids(b), Keys(b))
<1> DEFINE off == b.childOffset
           len == Len(b.children)
<1>1. Typed(b) /\ off \in Nat /\ len \in Nat /\ Len(Kids(b)) = len - off /\ MaxBranch \in Nat
  BY BranchIs, MaxBranchAssumption DEF Sound
<1>2. Arranged(b, first, last).branch = b
  BY DEF Arranged
<1>3. CASE off >= len \div 2
  <2>1. CompactedIfHalfDead(Arranged(b, first, last)) = BranchCompacted(b)
    BY <1>2, <1>3 DEF CompactedIfHalfDead
  <2>2. b.childOffset # 0
    BY <1>1
  <2> QED BY <2>1, <2>2, CompactedDoes
<1>4. CASE ~(off >= len \div 2)
  <2>1. CompactedIfHalfDead(Arranged(b, first, last)) = Arranged(b, first, last)
    BY <1>2, <1>4 DEF CompactedIfHalfDead
  <2> HIDE DEF off, len
  <2>2. off <= MaxBranch - 2
    BY <1>1, <1>4
  <2> QED BY <2>1, <2>2, ArrangedDoes DEF off
<1> QED BY <1>3, <1>4

-----------------------------------------------------------------------------
(* What the functions do to the children and to the keys. *)

LEMMA LiveAre ==
  ASSUME NEW b, Typed(b)
  PROVE  /\ \A j \in Live(b) : /\ j \in Int /\ j - b.childOffset \in 1..Len(Kids(b))
                               /\ b.children[j] = Kids(b)[j - b.childOffset]
         /\ \A j \in 1..Len(Kids(b)) : /\ b.childOffset + j \in Live(b)
                                       /\ Kids(b)[j] = b.children[b.childOffset + j]
         /\ Live(b) = (b.childOffset + 1)..Len(b.children)
         /\ LiveSlots(b) = b.childOffset..(Len(b.children) - 1)
<1> DEFINE off == b.childOffset
           len == Len(b.children)
<1>1. /\ off \in 0..len /\ off \in Int /\ len \in Nat /\ Len(Kids(b)) = len - off
      /\ \A j \in 1..Len(Kids(b)) : Kids(b)[j] = b.children[off + j]
  BY BranchIs
<1>2. Live(b) = (off + 1)..len /\ LiveSlots(b) = off..(len - 1)
  BY DEF Live, LiveSlots
<1> HIDE DEF off, len
<1>3. \A j \in 1..Len(Kids(b)) : off + j \in Live(b)
  BY <1>1, <1>2
<1>4. ASSUME NEW j \in Live(b)
      PROVE  j \in Int /\ j - off \in 1..Len(Kids(b)) /\ b.children[j] = Kids(b)[j - off]
  <2>1. j \in Int /\ j - off \in 1..Len(Kids(b)) /\ off + (j - off) = j
    BY <1>1, <1>2
  <2> QED BY <1>1, <2>1
<1> QED BY <1>1, <1>2, <1>3, <1>4 DEF off, len

LEMMA NowSound ==
  ASSUME BranchInv
  PROVE  Sound(branch, mine) /\ Untold(branch, 0, -1)
<1>1. Typed(branch) /\ Distinct(Kids(branch)) /\ Placed(branch, indexInParent, mine)
  BY BranchNow DEF BranchInv
<1> QED BY <1>1 DEF Sound, Untold, Placed

LEMMA SoundAfter ==
  ASSUME BranchInv, NEW b, Typed(b), Distinct(Kids(b)), NEW parented,
         \A j \in 1..Len(Kids(b)) : Kids(b)[j] \in parented,
         \A j \in 1..b.childOffset : b.children[j] \in parented =>
            \/ \E k \in Live(b) : b.children[k] = b.children[j]
            \/ /\ j <= branch.childOffset /\ b.children[j] = branch.children[j]
               /\ b.children[j] \in mine
  PROVE  Sound(b, parented)
<1>1. \A j \in Live(b) : b.children[j] \in parented
  BY LiveAre
<1>2. ASSUME NEW j \in 1..b.childOffset, j <= branch.childOffset,
             b.children[j] = branch.children[j], b.children[j] \in mine
      PROVE  j <= indexInParent[b.children[j]]
  <2>1. branch.childOffset \in Int /\ j \in 1..branch.childOffset
    <3>1. branch.childOffset \in Nat /\ b.childOffset \in Nat
      BY BranchNow, BranchIs
    <3> QED BY <1>2, <3>1
  <2> QED BY <1>2, <2>1 DEF BranchInv, Placed
<1> QED BY <1>1, <1>2 DEF Sound

LEMMA InsertDoes ==
  ASSUME BranchInv, NEW i \in 0..Count, NEW n \in Children, n \notin Holds(branch.children),
         NEW o \in KeyObjects, NEW b, Typed(b), b.childOffset <= branch.childOffset,
         Kids(b) = Inserted(Kids(branch), i, n), Keys(b) = Inserted(Keys(branch), i, o),
         \A j \in 1..b.childOffset : b.children[j] = branch.children[j],
         NEW first \in Int, NEW last \in Int, Untold(b, first, last)
  PROVE  Does(Arranged(b, first, last), mine \union {n},
              Inserted(Kids(branch), i, n), Inserted(Keys(branch), i, o))
<1> DEFINE kids == Kids(branch)
           off == branch.childOffset
<1>1. /\ Typed(branch) /\ Distinct(kids) /\ Count = Len(kids) /\ Count \in Nat
      /\ MaxBranch \in Nat /\ off <= MaxBranch - 2 /\ \A j \in 1..Count : kids[j] \in mine
  BY BranchNow
<1>2. /\ kids \in Seq(Children) /\ off \in Nat /\ Len(branch.children) \in Nat
      /\ off <= Len(branch.children) /\ DOMAIN branch.children = 1..Len(branch.children)
      /\ \A j \in 1..Len(kids) : kids[j] = branch.children[off + j]
      /\ Len(kids) = Len(branch.children) - off
  BY <1>1, BranchIs DEF Sided
<1>3. b.childOffset \in Nat
  BY BranchIs
<1>4. \A j \in 1..Len(branch.children) : branch.children[j] # n
  BY <1>2 DEF Holds
<1>5. \A j \in 1..Len(kids) : kids[j] # n
  <2>1. \A j \in 1..Len(kids) : off + j \in 1..Len(branch.children)
    BY <1>2
  <2> QED BY <1>2, <1>4, <2>1
<1> HIDE DEF kids
<1>6. Distinct(Inserted(kids, i, n))
  BY <1>1, <1>2, <1>5, DistinctInserted
<1>7. \A j \in 1..Len(Kids(b)) : Kids(b)[j] \in mine \union {n}
  <2>1. /\ Len(Kids(b)) = Len(kids) + 1
        /\ \A j \in 1..(Len(kids) + 1) :
              Kids(b)[j] = IF j <= i THEN kids[j] ELSE IF j = i + 1 THEN n ELSE kids[j - 1]
    BY <1>1, <1>2, InsertedTyped DEF Inserted, kids
  <2>2. \A j \in 1..(Len(kids) + 1) : /\ j <= i => j \in 1..Len(kids)
                                      /\ ~(j <= i) /\ j # i + 1 => j - 1 \in 1..Len(kids)
    BY <1>1
  <2> QED BY <1>1, <2>1, <2>2
<1>8. ASSUME NEW j \in 1..b.childOffset, b.children[j] \in mine \union {n}
      PROVE  /\ j <= off /\ b.children[j] = branch.children[j]
             /\ b.children[j] \in mine
  <2>1. j \in 1..Len(branch.children) /\ j <= off
    BY <1>2, <1>3
  <2> QED BY <1>4, <1>8, <2>1
<1>9. Sound(b, mine \union {n})
  <2>1. Distinct(Kids(b))
    BY <1>6 DEF kids
  <2> QED BY <1>7, <1>8, <2>1, SoundAfter
<1>10. b.childOffset <= MaxBranch - 2
  BY <1>1, <1>2, <1>3
<1> QED BY <1>9, <1>10, ArrangedDoes

LEMMA BranchParts ==
  ASSUME BranchInv
  PROVE  /\ branch = [children |-> branch.children, keys |-> branch.keys,
                      childOffset |-> branch.childOffset]
         /\ branch.children \in Seq(Children) /\ branch.keys \in Seq(KeyObjects)
         /\ Len(branch.children) \in Nat /\ Len(branch.keys) = Len(branch.children)
         /\ branch.childOffset \in Nat /\ branch.childOffset <= Len(branch.children)
         /\ DOMAIN branch.children = 1..Len(branch.children)
         /\ Kids(branch) = LiveFrom(branch.children, branch.childOffset)
         /\ Keys(branch) = LiveFrom(branch.keys, branch.childOffset)
         /\ Count = Len(branch.children) - branch.childOffset /\ Count \in Nat /\ Count >= 1
         /\ BranchChildCount(branch) = Count
         /\ Live(branch) = (branch.childOffset + 1)..Len(branch.children)
<1>1. Typed(branch) /\ Count \in 1..(MaxBranch + 1) /\ MaxBranch \in Nat
  BY BranchNow
<1>2. Count = Len(branch.children) - branch.childOffset /\ Count \in Nat /\ Count >= 1
  BY <1>1 DEF Count, BranchChildCount
<1> QED BY <1>1, <1>2, BranchIs DEF Kids, Keys, Live, Count

LEMMA CopyWithinAt ==
  ASSUME NEW a, NEW target, NEW start, NEW end
  PROVE  /\ DOMAIN CopyWithin(a, target, start, end) = 1..Len(a)
         /\ \A j \in 1..Len(a) :
               CopyWithin(a, target, start, end)[j] =
                  IF target < j /\ j <= target + (end - start) THEN a[j - target + start]
                  ELSE a[j]
  BY DEF CopyWithin

LEMMA SplicedDoes ==
  ASSUME BranchInv, NEW i \in 0..Count, NEW n \in Children, n \notin Holds(branch.children),
         NEW o \in KeyObjects, NEW slot, slot = branch.childOffset + i
  PROVE  Does(Arranged(Spliced(branch, slot, n, o), slot, Len(branch.children)),
              mine \union {n}, Inserted(Kids(branch), i, n), Inserted(Keys(branch), i, o))
<1> DEFINE cs == branch.children
           os == branch.keys
           off == branch.childOffset
           len == Len(cs)
           es == Inserted(cs, off + i, n)
           ks == Inserted(os, off + i, o)
           b == Spliced(branch, slot, n, o)
<1>1. /\ cs \in Seq(Children) /\ os \in Seq(KeyObjects) /\ len \in Nat /\ Len(os) = len
      /\ off \in Nat /\ off <= len /\ Count = len - off /\ Live(branch) = (off + 1)..len
      /\ Kids(branch) = LiveFrom(cs, off) /\ Keys(branch) = LiveFrom(os, off)
  BY BranchParts
<1>2. b = [children |-> es, keys |-> ks, childOffset |-> off]
  BY DEF Spliced
<1> HIDE DEF b, cs, os, off
<1>3. /\ off \in 0..len /\ off \in 0..Len(os) /\ i \in 0..(len - off) /\ i \in 0..(Len(os) - off)
      /\ slot \in Nat /\ slot <= len /\ off <= slot /\ slot = off + i
  BY <1>1 DEF off
<1>4. /\ es \in Seq(Children) /\ Len(es) = len + 1
      /\ LiveFrom(es, off) = Inserted(Kids(branch), i, n)
  BY <1>1, <1>3, LiveInserted
<1>5. /\ ks \in Seq(KeyObjects) /\ Len(ks) = len + 1
      /\ LiveFrom(ks, off) = Inserted(Keys(branch), i, o)
  BY <1>1, <1>3, LiveInserted
<1>6. \A j \in 1..slot : es[j] = cs[j]
  BY <1>1, <1>3 DEF Inserted
<1> HIDE DEF es, ks, len
<1>7. /\ Typed(b) /\ Kids(b) = Inserted(Kids(branch), i, n)
      /\ Keys(b) = Inserted(Keys(branch), i, o)
  <2>1. off \in 0..Len(es) /\ Len(ks) = Len(es)
    BY <1>1, <1>3, <1>4, <1>5
  <2> QED BY <1>2, <1>4, <1>5, <2>1, RecordTyped
<1>8. b.childOffset = off /\ b.children = es
  BY <1>2
<1>9. /\ slot \in Int /\ len \in Int /\ b.childOffset <= branch.childOffset
      /\ \A j \in 1..b.childOffset : b.children[j] = branch.children[j]
  <2>1. \A j \in 1..off : j \in 1..slot
    BY <1>1, <1>3
  <2> QED BY <1>1, <1>3, <1>6, <1>8, <2>1 DEF off, cs
<1>10. Untold(b, slot, len)
  <2>1. LiveSlots(b) = off..len /\ Live(b) = (off + 1)..(len + 1)
    <3>1. Len(b.children) - 1 = len /\ Len(b.children) = len + 1
      BY <1>1, <1>4, <1>8
    <3>2. /\ LiveSlots(b) = b.childOffset..(Len(b.children) - 1)
          /\ Live(b) = (b.childOffset + 1)..Len(b.children)
      BY <1>7, LiveAre
    <3> QED BY <1>8, <3>1, <3>2
  <2>2. slot..len \subseteq LiveSlots(b)
    BY <1>1, <1>3, <2>1
  <2>4. \A j \in Live(b) : \/ j - 1 \in slot..len
                           \/ j \in Live(branch) /\ b.children[j] = branch.children[j]
    <3> TAKE j \in Live(b)
    <3>1. j \in Int /\ j >= 1 /\ (j - 1 \in slot..len \/ j <= slot)
      BY <1>1, <1>3, <2>1
    <3>2. CASE j <= slot
      <4>1. j \in 1..slot /\ j \in (off + 1)..len
        BY <1>1, <1>3, <2>1, <3>1, <3>2
      <4> QED BY <1>1, <1>6, <1>8, <4>1 DEF cs
    <3> QED BY <3>1, <3>2
  <2>5. \A j \in Live(branch) : indexInParent[branch.children[j]] = j - 1
    BY DEF BranchInv, Placed
  <2> QED BY <2>2, <2>4, <2>5 DEF Untold
<1>11. Does(Arranged(b, slot, len), mine \union {n}, Inserted(Kids(branch), i, n),
            Inserted(Keys(branch), i, o))
  BY <1>7, <1>9, <1>10, InsertDoes
<1> QED BY <1>11 DEF b, len, cs

LEMMA InsertedDoes ==
  ASSUME BranchInv, NEW i \in 0..Count, NEW n \in Children, n \notin Holds(branch.children),
         NEW o \in KeyObjects
  PROVE  Does(BranchInserted(branch, i, n, o), mine \union {n},
              Inserted(Kids(branch), i, n), Inserted(Keys(branch), i, o))
<1> DEFINE cs == branch.children
           os == branch.keys
           off == branch.childOffset
           len == Len(cs)
           es == InsertedLeft(cs, off, i, n)
           ks == InsertedLeft(os, off, i, o)
           first == off - 1
           last == (off + i) - 1
           b == Put(Moved(branch, first, off, off + i, first), last, n, o)
           left == off > 0 /\ i < BranchChildCount(branch) \div 2
<1>1. /\ cs \in Seq(Children) /\ os \in Seq(KeyObjects) /\ len \in Nat /\ Len(os) = len
      /\ off \in Nat /\ off <= len /\ Count = len - off /\ Live(branch) = (off + 1)..len
      /\ Kids(branch) = LiveFrom(cs, off) /\ Keys(branch) = LiveFrom(os, off)
  BY BranchParts
<1>2. /\ left => BranchInserted(branch, i, n, o) = Arranged(b, first, last)
      /\ ~left => BranchInserted(branch, i, n, o)
                    = Arranged(Spliced(branch, off + i, n, o), off + i, Len(branch.children))
  <2>1. BranchInserted(branch, i, n, o)
          = IF left THEN Arranged(b, first, last)
            ELSE Arranged(Spliced(branch, off + i, n, o), off + i, Len(branch.children))
    BY DEF BranchInserted
  <2> HIDE DEF left
  <2> QED BY <2>1
<1>3. ASSUME left
      PROVE  Does(Arranged(b, first, last), mine \union {n},
                  Inserted(Kids(branch), i, n), Inserted(Keys(branch), i, o))
  <2>1. off > 0
    BY <1>3
  <2>2. b = [children |-> [CopyWithin(cs, first, off, off + i) EXCEPT ![last + 1] = n],
             keys |-> [CopyWithin(os, first, off, off + i) EXCEPT ![last + 1] = o],
             childOffset |-> first]
    BY DEF Put, Moved
  <2> HIDE DEF b, cs, os, off, left
  <2>3. /\ off \in 1..len /\ off \in 1..Len(os) /\ i \in Int /\ i >= 0 /\ off + i <= len
        /\ i \in 0..(len - off) /\ i \in 0..(Len(os) - off)
        /\ first \in Int /\ last \in Int /\ first >= 0 /\ last + 1 = off + i /\ first + 1 = off
    BY <1>1, <2>1
  <2>4. b = [children |-> es, keys |-> ks, childOffset |-> first]
    BY <2>2, <2>3 DEF InsertedLeft
  <2>5. /\ es \in Seq(Children) /\ Len(es) = len
        /\ LiveFrom(es, first) = Inserted(Kids(branch), i, n)
    <3>1. cs \in Seq(Children) /\ off \in 1..Len(cs) /\ i \in 0..(Len(cs) - off)
      BY <1>1, <2>3
    <3> HIDE DEF es, len
    <3>2. /\ InsertedLeft(cs, off, i, n) \in Seq(Children)
          /\ Len(InsertedLeft(cs, off, i, n)) = Len(cs)
          /\ LiveFrom(InsertedLeft(cs, off, i, n), off - 1) = Inserted(LiveFrom(cs, off), i, n)
      BY <3>1, MovedLeft
    <3> QED BY <1>1, <3>2 DEF es, len
  <2>6. /\ ks \in Seq(KeyObjects) /\ Len(ks) = len
        /\ LiveFrom(ks, first) = Inserted(Keys(branch), i, o)
    <3>1. os \in Seq(KeyObjects) /\ off \in 1..Len(os) /\ i \in 0..(Len(os) - off)
      BY <1>1, <2>3
    <3> HIDE DEF ks, len
    <3>2. /\ InsertedLeft(os, off, i, o) \in Seq(KeyObjects)
          /\ Len(InsertedLeft(os, off, i, o)) = Len(os)
          /\ LiveFrom(InsertedLeft(os, off, i, o), off - 1) = Inserted(LiveFrom(os, off), i, o)
      BY <3>1, MovedLeft
    <3> QED BY <1>1, <3>2 DEF ks
  <2>7. \A j \in 1..len : j <= first \/ j > off + i => es[j] = cs[j]
    <3> DEFINE moved == CopyWithin(cs, off - 1, off, off + i)
    <3> TAKE j \in 1..len
    <3> HAVE j <= first \/ j > off + i
    <3>1. ~(off - 1 < j /\ j <= off - 1 + (off + i - off)) /\ j # off + i
      BY <1>1, <2>3
    <3>2. moved[j] = cs[j] /\ DOMAIN moved = 1..len
      BY <1>1, <2>3, <3>1, CopyWithinAt
    <3> HIDE DEF moved
    <3>3. [moved EXCEPT ![off + i] = n][j] = cs[j]
      BY <3>1, <3>2
    <3> QED BY <3>3 DEF InsertedLeft, moved
  <2> HIDE DEF es, ks, len, first, last
  <2>8. /\ Typed(b) /\ Kids(b) = Inserted(Kids(branch), i, n)
        /\ Keys(b) = Inserted(Keys(branch), i, o)
    <3>1. first \in 0..Len(es) /\ Len(ks) = Len(es)
      BY <1>1, <2>3, <2>5, <2>6
    <3> QED BY <2>4, <2>5, <2>6, <3>1, RecordTyped
  <2>9. b.childOffset = first /\ b.children = es
    BY <2>4
  <2>10. /\ b.childOffset <= branch.childOffset
         /\ \A j \in 1..b.childOffset : b.children[j] = branch.children[j]
    <3>1. \A j \in 1..first : j \in 1..len /\ j <= first
      BY <1>1, <2>3
    <3>2. first <= off
      BY <1>1, <2>3
    <3> QED BY <2>7, <2>9, <3>1, <3>2 DEF off, cs
  <2>11. Untold(b, first, last)
    <3>1. /\ LiveSlots(b) = b.childOffset..(Len(b.children) - 1)
          /\ Live(b) = (b.childOffset + 1)..Len(b.children)
      BY <2>8, LiveAre
    <3>2. LiveSlots(b) = first..(len - 1) /\ Live(b) = off..len
      BY <2>3, <2>5, <2>9, <3>1
    <3>3. first..last \subseteq LiveSlots(b)
      BY <1>1, <2>3, <3>2
    <3>4. \A j \in Live(b) : \/ j - 1 \in first..last
                             \/ j \in Live(branch) /\ b.children[j] = branch.children[j]
      <4> TAKE j \in Live(b)
      <4>1. j \in 1..len /\ (j - 1 \in first..last \/ j > off + i)
        BY <1>1, <2>3, <3>2
      <4>2. CASE j > off + i
        <5>1. j \in (off + 1)..len
          BY <1>1, <2>3, <4>1, <4>2
        <5> QED BY <1>1, <2>7, <2>9, <4>1, <4>2, <5>1 DEF cs
      <4> QED BY <4>1, <4>2
    <3>5. \A j \in Live(branch) : indexInParent[branch.children[j]] = j - 1
      BY DEF BranchInv, Placed
    <3> QED BY <3>3, <3>4, <3>5 DEF Untold
  <2> QED BY <2>3, <2>8, <2>10, <2>11, InsertDoes DEF first, last
<1> QED BY <1>2, <1>3, SplicedDoes

LEMMA UnshiftedDoes ==
  ASSUME BranchInv, NEW n \in Children, n \notin Holds(branch.children), NEW o \in KeyObjects
  PROVE  Does(Unshifted(branch, n, o), mine \union {n},
              Inserted(Kids(branch), 0, n), Inserted(Keys(branch), 0, o))
<1> DEFINE cs == branch.children
           os == branch.keys
           off == branch.childOffset
           len == Len(cs)
           es == [cs EXCEPT ![off] = n]
           ks == [os EXCEPT ![off] = o]
           first == off - 1
           b == Put([branch EXCEPT !.childOffset = first], first, n, o)
<1>1. /\ branch = [children |-> cs, keys |-> os, childOffset |-> off]
      /\ cs \in Seq(Children) /\ os \in Seq(KeyObjects) /\ len \in Nat /\ Len(os) = len
      /\ off \in Nat /\ off <= len /\ DOMAIN cs = 1..len /\ 0 \in 0..Count
      /\ Count = len - off /\ Live(branch) = (off + 1)..len
      /\ Kids(branch) = LiveFrom(cs, off) /\ Keys(branch) = LiveFrom(os, off)
  BY BranchParts
<1>2. /\ off > 0 => Unshifted(branch, n, o) = Arranged(b, first, first)
      /\ ~(off > 0) => Unshifted(branch, n, o)
                        = Arranged(Spliced(branch, 0, n, o), 0, Len(branch.children))
  BY Zenon DEF Unshifted
<1>3. ASSUME off > 0
      PROVE  Does(Arranged(b, first, first), mine \union {n},
                  Inserted(Kids(branch), 0, n), Inserted(Keys(branch), 0, o))
  <2>1. [branch EXCEPT !.childOffset = first]
          = [children |-> cs, keys |-> os, childOffset |-> first]
    BY <1>1
  <2>2. b = [children |-> [cs EXCEPT ![first + 1] = n], keys |-> [os EXCEPT ![first + 1] = o],
             childOffset |-> first]
    BY <2>1 DEF Put
  <2> HIDE DEF b, cs, os
  <2>3. /\ off \in 1..len /\ off \in 1..Len(os)
        /\ first \in Int /\ first >= 0 /\ first + 1 = off
    BY <1>1, <1>3
  <2> HIDE DEF off
  <2>4. b = [children |-> es, keys |-> ks, childOffset |-> first]
    BY <2>2, <2>3
  <2>5. /\ es \in Seq(Children) /\ Len(es) = len
        /\ LiveFrom(es, first) = Inserted(Kids(branch), 0, n)
    <3>1. cs \in Seq(Children) /\ off \in 1..Len(cs)
      BY <1>1, <2>3
    <3> HIDE DEF es, len
    <3>2. /\ [cs EXCEPT ![off] = n] \in Seq(Children) /\ Len([cs EXCEPT ![off] = n]) = Len(cs)
          /\ LiveFrom([cs EXCEPT ![off] = n], off - 1) = Inserted(LiveFrom(cs, off), 0, n)
      BY <3>1, LastDeadUsed
    <3> QED BY <1>1, <3>2 DEF es, len
  <2>6. /\ ks \in Seq(KeyObjects) /\ Len(ks) = len
        /\ LiveFrom(ks, first) = Inserted(Keys(branch), 0, o)
    BY <1>1, <2>3, LastDeadUsed
  <2>7. \A j \in 1..len : j # off => es[j] = cs[j]
    BY <1>1
  <2> HIDE DEF es, ks, len, first
  <2>8. /\ Typed(b) /\ Kids(b) = Inserted(Kids(branch), 0, n)
        /\ Keys(b) = Inserted(Keys(branch), 0, o)
    <3>1. first \in 0..Len(es) /\ Len(ks) = Len(es)
      BY <1>1, <2>3, <2>5, <2>6
    <3> QED BY <2>4, <2>5, <2>6, <3>1, RecordTyped
  <2>9. b.childOffset = first /\ b.children = es
    BY <2>4
  <2>10. /\ b.childOffset <= branch.childOffset
         /\ \A j \in 1..b.childOffset : b.children[j] = branch.children[j]
    <3>1. \A j \in 1..first : j \in 1..len /\ j # off
      BY <1>1, <2>3
    <3>2. first <= off
      BY <1>1, <2>3
    <3> QED BY <2>7, <2>9, <3>1, <3>2 DEF off, cs
  <2>11. Untold(b, first, first)
    <3>1. /\ LiveSlots(b) = b.childOffset..(Len(b.children) - 1)
          /\ Live(b) = (b.childOffset + 1)..Len(b.children)
      BY <2>8, LiveAre
    <3>2. LiveSlots(b) = first..(len - 1) /\ Live(b) = off..len
      BY <2>3, <2>5, <2>9, <3>1
    <3>3. first..first \subseteq LiveSlots(b)
      BY <1>1, <2>3, <3>2
    <3>4. \A j \in Live(b) : \/ j - 1 \in first..first
                             \/ j \in Live(branch) /\ b.children[j] = branch.children[j]
      <4> TAKE j \in Live(b)
      <4>1. j \in 1..len /\ (j - 1 \in first..first \/ j > off)
        BY <1>1, <2>3, <3>2
      <4>2. CASE j > off
        <5>1. j \in (off + 1)..len /\ j # off
          BY <1>1, <2>3, <4>1, <4>2
        <5> QED BY <1>1, <2>7, <2>9, <4>1, <5>1 DEF cs
      <4> QED BY <4>1, <4>2
    <3>5. \A j \in Live(branch) : indexInParent[branch.children[j]] = j - 1
      BY DEF BranchInv, Placed
    <3> QED BY <3>3, <3>4, <3>5 DEF Untold
  <2> QED BY <1>1, <2>3, <2>8, <2>10, <2>11, InsertDoes DEF first
<1>4. ASSUME ~(off > 0)
      PROVE  Does(Arranged(Spliced(branch, 0, n, o), 0, Len(branch.children)), mine \union {n},
                  Inserted(Kids(branch), 0, n), Inserted(Keys(branch), 0, o))
  <2>1. 0 = branch.childOffset + 0
    BY <1>1, <1>4
  <2> QED BY <1>1, <2>1, SplicedDoes
<1> QED BY <1>2, <1>3, <1>4

LEMMA RemoveSound ==
  ASSUME BranchInv, NEW i \in Nat, NEW n \in Nat, i + n <= Count, NEW parented,
         parented \subseteq mine,
         mine \ {Kids(branch)[i + j] : j \in 1..n} \subseteq parented,
         NEW b, Typed(b), Kids(b) = Without(Kids(branch), i, n),
         \A j \in 1..b.childOffset : b.children[j] \in parented =>
            \/ \E k \in Live(b) : b.children[k] = b.children[j]
            \/ j <= branch.childOffset /\ b.children[j] = branch.children[j]
  PROVE  Sound(b, parented)
<1> DEFINE kids == Kids(branch)
<1>1. /\ Distinct(kids) /\ Count = Len(kids) /\ Count \in Nat /\ kids \in Seq(Children)
      /\ \A j \in 1..Count : kids[j] \in mine
  <2>1. Typed(branch)
    BY BranchNow
  <2> QED BY <2>1, BranchNow, BranchIs DEF Sided
<1>2. /\ Len(Kids(b)) = Count - n
      /\ Distinct(Kids(b))
      /\ \A j \in 1..(Count - n) : /\ Kids(b)[j] \in Holds(kids)
                                   /\ \A k \in (i + 1)..(i + n) : Kids(b)[j] # kids[k]
  <2> HIDE DEF kids
  <2>1. Kids(b) = Without(kids, i, n) /\ i + n <= Len(kids)
    BY <1>1 DEF kids
  <2>2. Len(Without(kids, i, n)) = Len(kids) - n
    BY <1>1, <2>1, WithoutTyped
  <2>3. /\ Distinct(Without(kids, i, n))
        /\ \A j \in 1..(Len(kids) - n) :
              /\ Without(kids, i, n)[j] \in Holds(kids)
              /\ \A k \in (i + 1)..(i + n) : Without(kids, i, n)[j] # kids[k]
    <3>1. kids \in Seq(Children) /\ Distinct(kids)
      BY <1>1
    <3>2. Distinct(Without(kids, i, n))
      BY <2>1, <3>1, DistinctWithout
    <3>3. \A j \in 1..(Len(kids) - n) : Without(kids, i, n)[j] \in Holds(kids)
      BY <2>1, <3>1, DistinctWithout
    <3>4. \A j \in 1..(Len(kids) - n) :
             \A k \in (i + 1)..(i + n) : Without(kids, i, n)[j] # kids[k]
      BY <2>1, <3>1, DistinctWithout
    <3> QED BY <3>2, <3>3, <3>4
  <2> QED BY <1>1, <2>1, <2>2, <2>3
<1>3. \A j \in 1..Len(Kids(b)) : Kids(b)[j] \in parented
  <2> TAKE j \in 1..Len(Kids(b))
  <2>1. Kids(b)[j] \in mine
    <3>1. DOMAIN kids = 1..Len(kids)
      BY <1>1, LenProperties
    <3>2. Holds(kids) \subseteq mine
      BY <1>1, <3>1 DEF Holds
    <3>3. j \in 1..(Count - n)
      BY <1>2
    <3> QED BY <1>2, <3>2, <3>3
  <2>2. Kids(b)[j] \notin {kids[i + k] : k \in 1..n}
    <3>1. \A k \in 1..n : i + k \in (i + 1)..(i + n)
      OBVIOUS
    <3> QED BY <1>1, <1>2, <3>1
  <2> QED BY <2>1, <2>2
<1> QED BY <1>2, <1>3, SoundAfter

LEMMA RemovedDoes ==
  ASSUME BranchInv, Count <= MaxBranch, NEW i \in 1..(Count - 1)
  PROVE  Does(BranchRemoved(branch, i), mine,
              Without(Kids(branch), i, 1), Without(Keys(branch), i, 1))
<1> DEFINE cs == branch.children
           os == branch.keys
           off == branch.childOffset
           len == Len(cs)
           phys == off + i
           es == CopyWithin(cs, off + 1, off, phys)
           ks == CopyWithin(os, off + 1, off, phys)
           b == Moved(branch, off + 1, off, phys, off + 1)
           es2 == Without(cs, phys, 1)
           ks2 == Without(os, phys, 1)
           c == Cut(Moved(branch, phys, phys + 1, len, off), len - 1)
           left == i < BranchChildCount(branch) - 1 - i
<1>1. /\ cs \in Seq(Children) /\ os \in Seq(KeyObjects) /\ len \in Nat /\ Len(os) = len
      /\ off \in Nat /\ off <= len /\ Count = len - off /\ Live(branch) = (off + 1)..len
      /\ Kids(branch) = LiveFrom(cs, off) /\ Keys(branch) = LiveFrom(os, off)
      /\ Count \in Nat
  BY BranchParts
<1>m. MaxBranch \in Nat /\ off <= MaxBranch - 2 /\ \A j \in Live(branch) : indexInParent[cs[j]] = j - 1
  BY BranchNow DEF BranchInv, Placed
<1>2. BranchRemoved(branch, i) =
         IF left THEN CompactedIfHalfDead(Arranged(b, off + 1, phys))
         ELSE Arranged(c, phys, len - 2)
  BY DEF BranchRemoved
<1>3. /\ b = [children |-> es, keys |-> ks, childOffset |-> off + 1]
      /\ c = [children |-> Truncated(CopyWithin(cs, phys, phys + 1, len), len - 1),
              keys |-> Truncated(CopyWithin(os, phys, phys + 1, len), len - 1),
              childOffset |-> off]
  BY DEF Moved, Cut
<1> HIDE DEF b, c, cs, os, off, left
<1>4. /\ i \in Int /\ i >= 1 /\ off + 1 <= len /\ phys \in Nat /\ phys + 1 <= len
      /\ off \in 0..(len - 1) /\ off \in 0..(Len(os) - 1)
      /\ i \in 0..((len - off) - 1) /\ i \in 0..((Len(os) - off) - 1) /\ i \in Nat /\ 1 \in Nat
      /\ phys = off + i /\ i + 1 <= Count /\ phys <= len - 1
  BY <1>1
<1> HIDE DEF phys
<1>5. ASSUME left
      PROVE  Does(CompactedIfHalfDead(Arranged(b, off + 1, phys)), mine,
                  Without(Kids(branch), i, 1), Without(Keys(branch), i, 1))
  <2>1. /\ es \in Seq(Children) /\ Len(es) = len
        /\ LiveFrom(es, off + 1) = Without(Kids(branch), i, 1)
    <3>1. cs \in Seq(Children) /\ off \in 0..(Len(cs) - 1) /\ i \in 0..(Len(cs) - off - 1)
          /\ es = CopyWithin(cs, off + 1, off, off + i)
      BY <1>1, <1>4
    <3> HIDE DEF es, len
    <3>2. /\ es \in Seq(Children) /\ Len(es) = Len(cs)
          /\ LiveFrom(es, off + 1) = Without(LiveFrom(cs, off), i, 1)
      BY <3>1, MovedOver
    <3> QED BY <1>1, <3>2 DEF len
  <2>2. /\ ks \in Seq(KeyObjects) /\ Len(ks) = len
        /\ LiveFrom(ks, off + 1) = Without(Keys(branch), i, 1)
    <3>1. os \in Seq(KeyObjects) /\ off \in 0..(Len(os) - 1) /\ i \in 0..(Len(os) - off - 1)
          /\ ks = CopyWithin(os, off + 1, off, off + i)
      BY <1>1, <1>4
    <3> HIDE DEF ks, len
    <3>2. /\ ks \in Seq(KeyObjects) /\ Len(ks) = Len(os)
          /\ LiveFrom(ks, off + 1) = Without(LiveFrom(os, off), i, 1)
      BY <3>1, MovedOver
    <3> QED BY <1>1, <3>2
  (* The slots that changed are those behind the new first one up to phys. *)
  <2>3. \A j \in 1..len :
           es[j] = IF off + 1 < j /\ j <= phys + 1 THEN cs[j - 1] ELSE cs[j]
    <3> TAKE j \in 1..len
    <3>1. es[j] = IF off + 1 < j /\ j <= (off + 1) + (phys - off) THEN cs[(j - (off + 1)) + off]
                  ELSE cs[j]
      BY CopyWithinAt
    <3>2. (off + 1) + (phys - off) = phys + 1 /\ (j - (off + 1)) + off = j - 1
      BY <1>1, <1>4
    <3> QED BY <3>1, <3>2
  <2> HIDE DEF es, ks, len
  <2>4. /\ Typed(b) /\ Kids(b) = Without(Kids(branch), i, 1)
        /\ Keys(b) = Without(Keys(branch), i, 1)
    <3>1. off + 1 \in 0..Len(es) /\ Len(ks) = Len(es)
      BY <1>1, <1>4, <2>1, <2>2
    <3> QED BY <1>3, <2>1, <2>2, <3>1, RecordTyped
  <2>5. b.childOffset = off + 1 /\ b.children = es
    BY <1>3
  <2>6. /\ LiveSlots(b) = (off + 1)..(len - 1) /\ Live(b) = (off + 2)..len
    <3>1. /\ LiveSlots(b) = b.childOffset..(Len(b.children) - 1)
          /\ Live(b) = (b.childOffset + 1)..Len(b.children)
      BY <2>4, LiveAre
    <3>2. (off + 1) + 1 = off + 2
      BY <1>1
    <3> QED BY <2>1, <2>5, <3>1, <3>2
  <2>7. Sound(b, mine)
    <3>1. ASSUME NEW j \in 1..(off + 1)
          PROVE  \/ \E k \in Live(b) : b.children[k] = b.children[j]
                 \/ j <= branch.childOffset /\ b.children[j] = branch.children[j]
      <4>1. j \in 1..len /\ es[j] = cs[j] /\ (j <= off \/ j = off + 1)
        BY <1>1, <1>4, <2>3
      <4>2. CASE j = off + 1
        <5>1. off + 2 \in Live(b) /\ off + 2 \in 1..len /\ (off + 2) - 1 = off + 1
              /\ off + 1 < off + 2 /\ off + 2 <= phys + 1
          BY <1>1, <1>4, <2>6
        <5>2. es[off + 2] = cs[off + 1]
          BY <2>3, <5>1
        <5> QED BY <2>5, <4>1, <4>2, <5>1, <5>2
      <4>3. CASE j <= off
        BY <2>5, <4>1, <4>3 DEF off, cs
      <4> QED BY <4>1, <4>2, <4>3
    <3>2. mine \subseteq mine /\ mine \ {Kids(branch)[i + j] : j \in 1..1} \subseteq mine
      OBVIOUS
    <3>3. \A j \in 1..b.childOffset : b.children[j] \in mine =>
             \/ \E k \in Live(b) : b.children[k] = b.children[j]
             \/ j <= branch.childOffset /\ b.children[j] = branch.children[j]
      BY <2>5, <3>1
    <3> QED BY ZenonT(60), <1>4, <2>4, <3>2, <3>3, RemoveSound
  <2>8. off + 1 \in Int /\ phys \in Int /\ Untold(b, off + 1, phys)
    <3>1. (off + 1)..phys \subseteq LiveSlots(b)
      BY <1>1, <1>4, <2>6
    <3>2. \A j \in Live(b) : \/ j - 1 \in (off + 1)..phys
                             \/ j \in Live(branch) /\ b.children[j] = cs[j]
      <4> TAKE j \in Live(b)
      <4>1. j \in 1..len /\ (j - 1 \in (off + 1)..phys \/ (j > phys + 1 /\ j \in (off + 1)..len))
        BY <1>1, <1>4, <2>6
      <4>2. CASE j > phys + 1 /\ j \in (off + 1)..len
        <5>1. ~(j <= phys + 1) /\ j \in 1..len
          BY <1>1, <1>4, <4>1, <4>2
        <5> QED BY <1>1, <2>3, <2>5, <4>2, <5>1
      <4> QED BY <4>1, <4>2
    <3> QED BY <1>1, <1>4, <1>m, <3>1, <3>2 DEF Untold
  <2>9. b.childOffset >= 1 /\ Len(Kids(b)) <= MaxBranch
    <3>1. Len(Kids(b)) = len - (off + 1)
      BY <2>1, <2>4, <2>5, BranchIs
    <3> QED BY <1>1, <1>m, <2>5, <3>1
  <2> QED BY <2>4, <2>7, <2>8, <2>9, CompactedInTimeDoes
<1>6. Does(Arranged(c, phys, len - 2), mine,
           Without(Kids(branch), i, 1), Without(Keys(branch), i, 1))
  <2>1. /\ Truncated(CopyWithin(cs, phys, phys + 1, Len(cs)), Len(cs) - 1) = es2
        /\ Truncated(CopyWithin(os, phys, phys + 1, Len(os)), Len(os) - 1) = ks2
        /\ es2 \in Seq(Children) /\ Len(es2) = len - 1
        /\ ks2 \in Seq(KeyObjects) /\ Len(ks2) = len - 1
    <3>1. /\ phys + 1 <= Len(cs) /\ phys + 1 <= Len(os) /\ 1 \in Nat /\ phys \in Nat
          /\ cs \in Seq(Children) /\ os \in Seq(KeyObjects)
      BY <1>1, <1>4
    <3> HIDE DEF len
    <3>2. /\ Truncated(CopyWithin(cs, phys, phys + 1, Len(cs)), Len(cs) - 1) = Without(cs, phys, 1)
          /\ Without(cs, phys, 1) \in Seq(Children)
          /\ Len(Without(cs, phys, 1)) = Len(cs) - 1
      BY <3>1, ClosedUp
    <3>3. /\ Truncated(CopyWithin(os, phys, phys + 1, Len(os)), Len(os) - 1) = Without(os, phys, 1)
          /\ Without(os, phys, 1) \in Seq(KeyObjects)
          /\ Len(Without(os, phys, 1)) = Len(os) - 1
      BY <3>1, ClosedUp
    <3> QED BY <1>1, <3>2, <3>3 DEF len
  <2>2. c = [children |-> es2, keys |-> ks2, childOffset |-> off]
    BY <1>1, <1>3, <2>1
  <2>3. LiveFrom(es2, off) = Without(Kids(branch), i, 1)
    <3>1. es2 = Without(cs, off + i, 1) /\ off \in 0..Len(cs) /\ off + i + 1 <= Len(cs)
      BY <1>1, <1>4
    <3> HIDE DEF es2, len
    <3> QED BY <1>1, <1>4, <3>1, LiveWithout
  <2>4. LiveFrom(ks2, off) = Without(Keys(branch), i, 1)
    <3>1. ks2 = Without(os, off + i, 1) /\ off \in 0..Len(os) /\ off + i + 1 <= Len(os)
      BY <1>1, <1>4
    <3> HIDE DEF ks2, len
    <3> QED BY <1>1, <1>4, <3>1, LiveWithout
  <2>5. \A j \in 1..phys : es2[j] = cs[j]
    BY <1>1, <1>4 DEF Without
  <2> HIDE DEF es2, ks2, len
  <2>6. /\ Typed(c) /\ Kids(c) = Without(Kids(branch), i, 1)
        /\ Keys(c) = Without(Keys(branch), i, 1)
    <3>1. off \in 0..Len(es2) /\ Len(ks2) = Len(es2)
      BY <1>1, <1>4, <2>1
    <3> QED BY <2>1, <2>2, <2>3, <2>4, <3>1, RecordTyped
  <2>7. c.childOffset = off /\ c.children = es2
    BY <2>2
  <2>8. /\ LiveSlots(c) = off..(len - 2) /\ Live(c) = (off + 1)..(len - 1)
    <3>1. /\ LiveSlots(c) = c.childOffset..(Len(c.children) - 1)
          /\ Live(c) = (c.childOffset + 1)..Len(c.children)
      BY <2>6, LiveAre
    <3>2. (len - 1) - 1 = len - 2
      BY <1>1
    <3> QED BY <2>1, <2>7, <3>1, <3>2
  <2>9. Sound(c, mine)
    <3>1. \A j \in 1..off : j \in 1..phys /\ j <= off
      BY <1>1, <1>4
    <3>2. \A j \in 1..off : j <= branch.childOffset /\ c.children[j] = branch.children[j]
      BY <2>5, <2>7, <3>1 DEF off, cs
    <3>3. mine \subseteq mine /\ mine \ {Kids(branch)[i + j] : j \in 1..1} \subseteq mine
      OBVIOUS
    <3>4. \A j \in 1..c.childOffset : c.children[j] \in mine =>
             \/ \E k \in Live(c) : c.children[k] = c.children[j]
             \/ j <= branch.childOffset /\ c.children[j] = branch.children[j]
      BY <2>7, <3>2
    <3> QED BY ZenonT(60), <1>4, <2>6, <3>3, <3>4, RemoveSound
  <2>10. phys \in Int /\ len - 2 \in Int /\ Untold(c, phys, len - 2)
    <3>1. phys..(len - 2) \subseteq LiveSlots(c)
      BY <1>1, <1>4, <2>8
    <3>2. \A j \in Live(c) : \/ j - 1 \in phys..(len - 2)
                             \/ j \in Live(branch) /\ c.children[j] = cs[j]
      <4> TAKE j \in Live(c)
      <4>1. j \in Int /\ (j - 1 \in phys..(len - 2) \/ (j \in 1..phys /\ j \in (off + 1)..len))
        BY <1>1, <1>4, <2>8
      <4> QED BY <1>1, <2>5, <2>7, <4>1
    <3> QED BY <1>1, <1>4, <1>m, <3>1, <3>2 DEF Untold
  <2>11. c.childOffset <= MaxBranch - 2
    BY <1>m, <2>7
  <2> QED BY <2>6, <2>9, <2>10, <2>11, ArrangedDoes
<1> QED BY <1>2, <1>5, <1>6

(* A child that is given away is not of this branch any more. *)
Left(i, n) == mine \ {Kids(branch)[i + j] : j \in 1..n}

LEMMA FirstTakenDoes ==
  ASSUME BranchInv, Count <= MaxBranch
  PROVE  Does(FirstTaken(branch), Left(0, 1),
              Without(Kids(branch), 0, 1), Without(Keys(branch), 0, 1))
<1> DEFINE cs == branch.children
           os == branch.keys
           off == branch.childOffset
           len == Len(cs)
           b == [branch EXCEPT !.childOffset = off + 1]
<1>1. /\ cs \in Seq(Children) /\ os \in Seq(KeyObjects) /\ len \in Nat /\ Len(os) = len
      /\ off \in Nat /\ off <= len /\ Count = len - off /\ Live(branch) = (off + 1)..len
      /\ Kids(branch) = LiveFrom(cs, off) /\ Keys(branch) = LiveFrom(os, off)
      /\ Count \in Nat /\ Count >= 1
      /\ branch = [children |-> cs, keys |-> os, childOffset |-> off]
  BY BranchParts
<1>m. MaxBranch \in Nat /\ \A j \in Live(branch) : indexInParent[cs[j]] = j - 1
  BY BranchNow DEF BranchInv, Placed
<1>2. FirstTaken(branch) = CompactedIfHalfDead(Arranged(b, 0, -1))
  BY DEF FirstTaken
<1>3. b = [children |-> cs, keys |-> os, childOffset |-> off + 1]
  BY <1>1
<1> HIDE DEF b
<1>4. /\ LiveFrom(cs, off + 1) = Without(Kids(branch), 0, 1)
      /\ LiveFrom(os, off + 1) = Without(Keys(branch), 0, 1)
  <2>1. off \in 0..(Len(cs) - 1) /\ off \in 0..(Len(os) - 1)
    BY <1>1
  <2>2. LiveFrom(cs, off + 1) = Without(LiveFrom(cs, off), 0, 1)
    BY <1>1, <2>1, FirstDead
  <2>3. LiveFrom(os, off + 1) = Without(LiveFrom(os, off), 0, 1)
    BY <1>1, <2>1, FirstDead
  <2> QED BY <1>1, <2>2, <2>3
<1>5. /\ Typed(b) /\ Kids(b) = Without(Kids(branch), 0, 1)
      /\ Keys(b) = Without(Keys(branch), 0, 1)
  <2>1. off + 1 \in 0..Len(cs)
    BY <1>1
  <2> QED BY <1>1, <1>3, <1>4, <2>1, RecordTyped
<1>6. b.childOffset = off + 1 /\ b.children = cs
  BY <1>3
<1> HIDE DEF cs, os, off, len
<1>7. Kids(branch)[1] = cs[off + 1] /\ off + 1 \in Live(branch)
  <2>1. Typed(branch)
    BY BranchNow
  <2>2. 1 \in 1..Len(Kids(branch))
    BY <1>1, BranchNow
  <2> QED BY <2>1, <2>2, LiveAre DEF cs, off
<1>8. Sound(b, Left(0, 1))
  <2>1. Left(0, 1) \subseteq mine /\ cs[off + 1] \notin Left(0, 1)
    <3>1. 1 \in 1..1 /\ 0 + 1 = 1
      OBVIOUS
    <3> QED BY <1>7, <3>1 DEF Left
  <2>2. \A j \in 1..b.childOffset : b.children[j] \in Left(0, 1) =>
           \/ \E k \in Live(b) : b.children[k] = b.children[j]
           \/ j <= branch.childOffset /\ b.children[j] = branch.children[j]
    <3>1. \A j \in 1..(off + 1) : j <= off \/ j = off + 1
      BY <1>1
    <3> QED BY <1>6, <2>1, <3>1 DEF off, cs
  <2>3. mine \ {Kids(branch)[0 + j] : j \in 1..1} \subseteq Left(0, 1)
    BY DEF Left
  <2>4. 0 \in Nat /\ 1 \in Nat /\ 0 + 1 <= Count
    BY <1>1
  <2> QED BY <1>5, <2>1, <2>2, <2>3, <2>4, RemoveSound
<1>9. Untold(b, 0, -1)
  <2>1. Live(b) = ((off + 1) + 1)..len
    BY <1>6 DEF Live, len
  <2>2. \A j \in Live(b) : j \in Live(branch)
    BY <1>1, <2>1
  <2> QED BY <1>6, <1>m, <2>2 DEF Untold
<1>10. b.childOffset >= 1 /\ Len(Kids(b)) <= MaxBranch
  <2>1. Len(Kids(b)) = len - (off + 1)
    BY <1>5, <1>6, BranchIs DEF len
  <2> QED BY <1>1, <1>m, <1>6, <2>1
<1>11. 0 \in Int /\ -1 \in Int
  OBVIOUS
<1> QED BY <1>2, <1>5, <1>8, <1>9, <1>10, <1>11, CompactedInTimeDoes

LEMMA PoppedDoes ==
  ASSUME BranchInv, Count >= 2
  PROVE  Does(Arranged(Cut(branch, Len(branch.children) - 1), 0, -1), Left(Count - 1, 1),
              Without(Kids(branch), Count - 1, 1), Without(Keys(branch), Count - 1, 1))
<1> DEFINE cs == branch.children
           os == branch.keys
           off == branch.childOffset
           len == Len(cs)
           n == Count - 1
           b == Cut(branch, len - 1)
           es == Truncated(cs, len - 1)
           ks == Truncated(os, len - 1)
<1>1. /\ cs \in Seq(Children) /\ os \in Seq(KeyObjects) /\ len \in Nat /\ Len(os) = len
      /\ off \in Nat /\ off <= len /\ Count = len - off /\ Live(branch) = (off + 1)..len
      /\ Kids(branch) = LiveFrom(cs, off) /\ Keys(branch) = LiveFrom(os, off)
      /\ Count \in Nat
  BY BranchParts
<1>m. /\ MaxBranch \in Nat /\ off <= MaxBranch - 2
      /\ \A j \in Live(branch) : indexInParent[cs[j]] = j - 1
  BY BranchNow DEF BranchInv, Placed
<1>2. b = [children |-> es, keys |-> ks, childOffset |-> off]
  BY DEF Cut
<1> HIDE DEF b, es, ks
<1>3. /\ es \in Seq(Children) /\ Len(es) = len - 1 /\ \A j \in 1..(len - 1) : es[j] = cs[j]
      /\ ks \in Seq(KeyObjects) /\ Len(ks) = len - 1
      /\ LiveFrom(es, off) = Without(Kids(branch), n, 1)
      /\ LiveFrom(ks, off) = Without(Keys(branch), n, 1)
  <2>1. /\ off \in 0..Len(cs) /\ off \in 0..Len(os)
        /\ len - 1 \in off..Len(cs) /\ len - 1 \in off..Len(os)
        /\ (len - 1) - off = n /\ len - (len - 1) = 1
    BY <1>1
  <2>2. /\ es \in Seq(Children) /\ Len(es) = len - 1 /\ \A j \in 1..(len - 1) : es[j] = cs[j]
        /\ LiveFrom(es, off) = Without(LiveFrom(cs, off), (len - 1) - off, Len(cs) - (len - 1))
    BY ZenonT(60), <1>1, <2>1, LiveCut DEF es
  <2>3. /\ ks \in Seq(KeyObjects) /\ Len(ks) = len - 1
        /\ LiveFrom(ks, off) = Without(LiveFrom(os, off), (len - 1) - off, Len(os) - (len - 1))
    BY ZenonT(60), <1>1, <2>1, LiveCut DEF ks
  <2> QED BY <1>1, <2>1, <2>2, <2>3
<1> HIDE DEF cs, os, off, len, n
<1>4. /\ Typed(b) /\ Kids(b) = Without(Kids(branch), n, 1)
      /\ Keys(b) = Without(Keys(branch), n, 1)
  <2>1. off \in 0..Len(es) /\ Len(ks) = Len(es)
    BY <1>1, <1>3
  <2> QED BY <1>2, <1>3, <2>1, RecordTyped
<1>5. b.childOffset = off /\ b.children = es /\ Live(b) = (off + 1)..(len - 1)
  BY <1>2, <1>3 DEF Live
<1>6. \A j \in Live(b) : j \in Live(branch) /\ b.children[j] = cs[j]
  <2>1. \A j \in Live(b) : j \in Live(branch) /\ j \in 1..(len - 1)
    BY <1>1, <1>5
  <2> QED BY <1>3, <1>5, <2>1
<1>7. Sound(b, Left(n, 1))
  <2>1. Left(n, 1) \subseteq mine /\ mine \ {Kids(branch)[n + j] : j \in 1..1} \subseteq Left(n, 1)
    BY DEF Left
  <2>2. \A j \in 1..b.childOffset : j <= branch.childOffset /\ b.children[j] = branch.children[j]
    <3>1. \A j \in 1..off : j <= off /\ j \in 1..(len - 1)
      BY <1>1, <1>5
    <3> QED BY <1>3, <1>5, <3>1 DEF off, cs
  <2>3. n \in Nat /\ 1 \in Nat /\ n + 1 <= Count
    BY <1>1 DEF n
  <2> QED BY <1>4, <2>1, <2>2, <2>3, RemoveSound
<1>8. 0 \in Int /\ -1 \in Int /\ Untold(b, 0, -1) /\ b.childOffset <= MaxBranch - 2
  BY <1>5, <1>6, <1>m DEF Untold
<1>9. Does(Arranged(b, 0, -1), Left(n, 1),
           Without(Kids(branch), n, 1), Without(Keys(branch), n, 1))
  BY <1>4, <1>7, <1>8, ArrangedDoes
<1> QED BY <1>9 DEF b, n, len, cs

(* The children that the new sibling takes are those at the end.             *)
LEMMA HalvedDoes ==
  ASSUME BranchInv, Count > MaxBranch,
         NEW halved, halved = BranchHalved(branch),
         NEW kept, kept = BranchChildCount(halved.branch)
  PROVE  /\ kept \in 1..(Count - 1)
         /\ Does(halved, Left(kept, Count - kept),
                 Without(Kids(branch), kept, Count - kept),
                 Without(Keys(branch), kept, Count - kept))
<1> DEFINE c == BranchCompacted(branch)
           cs == c.branch.children
           os == c.branch.keys
           off == c.branch.childOffset
           len == Len(cs)
           m == (len + 1) \div 2
           b == Cut(c.branch, m)
           es == Truncated(cs, m)
           ks == Truncated(os, m)
           kids == Kids(branch)
           keys == Keys(branch)
           n == Count - kept
<1>1. /\ MaxBranch \in Nat /\ MaxBranch >= 3 /\ Count \in Nat /\ Count = MaxBranch + 1
      /\ Typed(branch) /\ Len(kids) = Count
  BY BranchNow
<1>2. /\ Does(c, mine, kids, keys)
      /\ off = IF branch.childOffset <= 1 THEN 0 ELSE 1
  BY NowSound, CompactedDoes
<1>3. c = [branch |-> c.branch, index |-> c.index]
  BY DEF BranchCompacted, Arranged
<1> HIDE DEF c
<1>4. halved = [branch |-> b, index |-> c.index]
  BY <1>3 DEF BranchHalved, c
<1>5. /\ Typed(c.branch) /\ c.index \in [Children -> Nat]
      /\ Kids(c.branch) = kids /\ Keys(c.branch) = keys /\ Placed(c.branch, c.index, mine)
  BY <1>2 DEF Does
<1>6. /\ cs \in Seq(Children) /\ os \in Seq(KeyObjects) /\ len \in Nat /\ Len(os) = len
      /\ off \in 0..1 /\ off \in 0..len /\ Count = len - off
      /\ kids = LiveFrom(cs, off) /\ keys = LiveFrom(os, off)
      /\ Live(c.branch) = (off + 1)..len
      /\ \A j \in 1..(len - off) : kids[j] = cs[off + j]
  <2>1. /\ cs \in Seq(Children) /\ os \in Seq(KeyObjects) /\ len \in Nat /\ Len(os) = len
        /\ off \in 0..len /\ Len(Kids(c.branch)) = len - off
        /\ \A j \in 1..Len(Kids(c.branch)) : Kids(c.branch)[j] = cs[off + j]
    BY <1>5, BranchIs
  <2>2. off \in 0..1
    BY <1>2
  <2>3. /\ kids = LiveFrom(cs, off) /\ keys = LiveFrom(os, off)
        /\ Live(c.branch) = (off + 1)..len
    BY <1>5 DEF Live, Kids, Keys
  <2> QED BY <1>1, <1>5, <2>1, <2>2, <2>3
<1>7. b = [children |-> es, keys |-> ks, childOffset |-> off]
  BY DEF Cut
<1> HIDE DEF b, es, ks, kids, keys, os
<1>8. m \in Nat /\ m >= off + 1 /\ m <= len - 1
  <2> HIDE DEF off, len
  <2>1. len >= 4 /\ off <= 1 /\ off \in Nat /\ len \in Nat
    BY <1>1, <1>6
  <2> QED BY <2>1
<1> HIDE DEF m
<1>9. /\ es \in Seq(Children) /\ Len(es) = m /\ \A j \in 1..m : es[j] = cs[j]
      /\ ks \in Seq(KeyObjects) /\ Len(ks) = m
      /\ LiveFrom(es, off) = Without(kids, m - off, len - m)
      /\ LiveFrom(ks, off) = Without(keys, m - off, len - m)
  <2>1. off \in 0..Len(cs) /\ off \in 0..Len(os) /\ m \in off..Len(cs) /\ m \in off..Len(os)
    BY <1>6, <1>8
  <2> HIDE DEF off
  <2>2. /\ es \in Seq(Children) /\ Len(es) = m /\ \A j \in 1..m : es[j] = cs[j]
        /\ LiveFrom(es, off) = Without(LiveFrom(cs, off), m - off, Len(cs) - m)
    BY ZenonT(60), <1>6, <2>1, LiveCut DEF es
  <2>3. /\ ks \in Seq(KeyObjects) /\ Len(ks) = m
        /\ LiveFrom(ks, off) = Without(LiveFrom(os, off), m - off, Len(os) - m)
    BY ZenonT(60), <1>6, <2>1, LiveCut DEF ks
  <2> QED BY <1>6, <2>2, <2>3
<1> HIDE DEF cs, off, len
<1>10. /\ Typed(b) /\ Kids(b) = Without(kids, m - off, len - m)
       /\ Keys(b) = Without(keys, m - off, len - m)
  <2>1. off \in 0..Len(es) /\ Len(ks) = Len(es)
    BY <1>6, <1>8, <1>9
  <2> QED BY <1>7, <1>9, <2>1, RecordTyped
<1>11. b.childOffset = off /\ b.children = es /\ Live(b) = (off + 1)..m
  BY <1>7, <1>9 DEF Live
<1>12. kept = m - off /\ n = len - m /\ kept \in 1..(Count - 1)
  <2>1. kept = Len(b.children) - b.childOffset
    BY <1>4 DEF BranchChildCount
  <2> QED BY <1>6, <1>8, <1>9, <1>11, <2>1
<1>13. ASSUME NEW j \in 1..n
       PROVE  kids[kept + j] \in Children /\ c.index[kids[kept + j]] >= m
  <2> DEFINE s == m + j
  <2>1. s \in 1..len /\ s \in (off + 1)..len /\ s - 1 >= m /\ kept + j \in 1..(len - off)
        /\ off + (kept + j) = s
    <3>1. off \in Int /\ len \in Int /\ m \in Int /\ off >= 0 /\ m >= off + 1
          /\ kept = m - off /\ n = len - m
      BY <1>6, <1>8, <1>12
    <3>2. j \in Int /\ j >= 1 /\ j <= len - m
      BY <3>1
    <3> QED BY <3>1, <3>2
  <2>2. kids[kept + j] = cs[s]
    <3>1. kids[kept + j] = cs[off + (kept + j)]
      BY <1>6, <2>1
    <3> QED BY <2>1, <3>1
  <2> HIDE DEF s
  <2>3. cs[s] \in Children
    BY <1>6, <2>1, ElementOfSeq DEF len
  <2>4. c.index[cs[s]] = s - 1
    BY <1>5, <1>6, <2>1 DEF Placed, cs
  <2> QED BY <2>1, <2>2, <2>3, <2>4
<1>14. Placed(b, c.index, Left(kept, n))
  <2>1. ASSUME NEW j \in Live(b)
        PROVE  b.children[j] \in Left(kept, n) /\ c.index[b.children[j]] = j - 1
    <3>1. j \in 1..m /\ j \in (off + 1)..len /\ j - 1 < m
      BY <1>6, <1>8, <1>11
    <3>2. b.children[j] = cs[j]
      BY <1>9, <1>11, <3>1
    <3>3. cs[j] \in mine /\ c.index[cs[j]] = j - 1
      BY <1>5, <1>6, <3>1 DEF Placed, cs
    <3>4. \A k \in 1..n : kids[kept + k] # cs[j]
      <4> TAKE k \in 1..n
      <4>1. c.index[kids[kept + k]] >= m /\ c.index[cs[j]] = j - 1 /\ j - 1 < m
        BY <1>13, <3>1, <3>3
      <4>2. c.index[kids[kept + k]] # j - 1
        <5> DEFINE x == c.index[kids[kept + k]]
        <5>1. x \in Int /\ x >= m
          BY <1>5, <1>13
        <5> HIDE DEF x
        <5>2. x # j - 1
          BY <1>8, <3>1, <5>1
        <5> QED BY <5>2 DEF x
      <4> QED BY <4>1, <4>2
    <3> QED BY <3>2, <3>3, <3>4 DEF Left, kids
  <2>2. ASSUME NEW j \in 1..b.childOffset, b.children[j] \in Left(kept, n)
        PROVE  j <= c.index[b.children[j]]
    <3>1. j \in 1..off /\ j \in 1..m
      BY <1>6, <1>8, <1>11
    <3>2. b.children[j] = cs[j] /\ cs[j] \in mine
      BY <1>9, <1>11, <2>2, <3>1 DEF Left
    <3> QED BY <1>5, <3>1, <3>2 DEF Placed, cs, off
  <2> QED BY <2>1, <2>2 DEF Placed
<1>15. b.childOffset <= MaxBranch - 2
  BY <1>1, <1>6, <1>11
<1>16. Does(halved, Left(kept, n), Without(kids, kept, n), Without(keys, kept, n))
  <2>1. halved.branch = b /\ halved.index = c.index
    BY <1>4
  <2>2. Kids(b) = Without(kids, kept, n) /\ Keys(b) = Without(keys, kept, n)
    BY <1>10, <1>12
  <2> HIDE DEF n
  <2> QED BY <1>5, <1>10, <1>14, <1>15, <2>1, <2>2 DEF Does
<1> QED BY <1>12, <1>16 DEF kids, keys

-----------------------------------------------------------------------------
(* There is always another node, and another key object: the slots of a      *)
(* branch are fewer than the numbers.                                        *)
LEMMA AnotherIsLeft ==
  ASSUME NEW S, S \subseteq Nat, NEW m \in Nat, 1..m \subseteq S,
         NEW list \in Seq(S), Len(list) < m
  PROVE  Least(S \ Holds(list)) \in S /\ Least(S \ Holds(list)) \notin Holds(list)
<1>1. Len(list) \in Nat /\ DOMAIN list = 1..Len(list)
  BY LenProperties
<1>2. IsFiniteSet(1..Len(list)) /\ Cardinality(1..Len(list)) = Len(list)
  <2> DEFINE n == Len(list)
  <2>1. n \in Nat /\ n \in Int /\ 1 \in Int /\ (IF 1 > n THEN 0 ELSE n - 1 + 1) = n
    BY <1>1
  <2> HIDE DEF n
  <2>2. IsFiniteSet(1..n) /\ Cardinality(1..n) = IF 1 > n THEN 0 ELSE n - 1 + 1
    BY <2>1, FS_Interval
  <2> QED BY <2>1, <2>2 DEF n
<1>3. IsFiniteSet(1..m) /\ Cardinality(1..m) = m
  <2>1. m \in Int /\ 1 \in Int /\ (IF 1 > m THEN 0 ELSE m - 1 + 1) = m
    OBVIOUS
  <2>2. IsFiniteSet(1..m) /\ Cardinality(1..m) = IF 1 > m THEN 0 ELSE m - 1 + 1
    BY <2>1, FS_Interval
  <2> QED BY <2>1, <2>2
<1>4. IsFiniteSet(Holds(list)) /\ Cardinality(Holds(list)) <= Len(list)
  <2>1. list \in Surjection(1..Len(list), Holds(list))
    BY <1>1 DEF Surjection, Holds
  <2> QED BY <1>2, <2>1, FS_Surjection
<1>5. ~(1..m \subseteq Holds(list))
  <2>1. ASSUME 1..m \subseteq Holds(list) PROVE FALSE
    <3>1. Cardinality(1..m) <= Cardinality(Holds(list))
      BY <1>4, <2>1, FS_Subset
    <3>2. Cardinality(Holds(list)) \in Nat
      BY <1>4, FS_CardinalityType
    <3> QED BY <1>1, <1>3, <1>4, <3>1, <3>2
  <2> QED BY <2>1
<1>6. S \ Holds(list) # {} /\ S \ Holds(list) \subseteq Nat
  BY <1>5
<1> QED BY <1>6, LeastIs

LEMMA NewOnes ==
  ASSUME BranchInv
  PROVE  /\ NewChild \in Children /\ NewChild \notin Holds(branch.children)
         /\ NewKey \in KeyObjects /\ NewKey \notin Holds(branch.keys)
         /\ \A j \in 1..Count : Keys(branch)[j] # NewKey
<1>1. /\ branch.children \in Seq(Children) /\ branch.keys \in Seq(KeyObjects)
      /\ Len(branch.keys) = Len(branch.children) /\ Typed(branch)
  BY BranchParts, BranchNow
<1>2. /\ 2 * MaxBranch \in Nat /\ Len(branch.children) < 2 * MaxBranch
      /\ Len(branch.keys) < 2 * MaxBranch
  <2>1. /\ MaxBranch \in Nat /\ branch.childOffset <= MaxBranch - 2
        /\ Count \in 1..(MaxBranch + 1) /\ Len(branch.children) = branch.childOffset + Count
        /\ branch.childOffset \in Nat
    BY BranchNow, BranchParts
  <2> QED BY <1>1, <2>1
<1>3. NewChild \in Children /\ NewChild \notin Holds(branch.children)
  BY <1>1, <1>2, NumbersAssumption, AnotherIsLeft DEF NewChild
<1>4. NewKey \in KeyObjects /\ NewKey \notin Holds(branch.keys)
  BY <1>1, <1>2, NumbersAssumption, AnotherIsLeft DEF NewKey
<1>5. \A j \in 1..Count : Keys(branch)[j] \in Holds(branch.keys)
  <2>1. /\ Count = Len(Kids(branch)) /\ DOMAIN branch.keys = 1..Len(branch.children)
        /\ \A j \in 1..Len(Kids(branch)) : Keys(branch)[j] = branch.keys[branch.childOffset + j]
        /\ Len(branch.children) = branch.childOffset + Count
        /\ branch.childOffset \in Nat /\ Count \in Nat
    BY <1>1, BranchIs, BranchNow
  <2>2. \A j \in 1..Count : branch.childOffset + j \in DOMAIN branch.keys
    BY <2>1
  <2> QED BY <2>1, <2>2 DEF Holds
<1> QED BY <1>3, <1>4, <1>5

(* The key of a child is another object: nothing moves.                      *)
LEMMA KeyPutDoes ==
  ASSUME BranchInv, NEW i \in 0..(Count - 1),
         NEW slot, slot = branch.childOffset + i
  PROVE  /\ Does(Arranged(Put(branch, slot, ChildIn(branch, slot), NewKey), 0, -1), mine,
                 Kids(branch), Replaced(Keys(branch), i, NewKey))
         /\ ChildIn(branch, slot) = Kids(branch)[i + 1]
         /\ KeyIn(branch, slot) = Keys(branch)[i + 1]
<1> DEFINE cs == branch.children
           os == branch.keys
           off == branch.childOffset
           len == Len(cs)
           p == slot + 1
           b == Put(branch, slot, ChildIn(branch, slot), NewKey)
           ks == [os EXCEPT ![p] = NewKey]
           keys == Keys(branch)
           new == Replaced(keys, i, NewKey)
<1>1. /\ cs \in Seq(Children) /\ os \in Seq(KeyObjects) /\ len \in Nat /\ Len(os) = len
      /\ off \in Nat /\ off <= len /\ Count = len - off /\ Live(branch) = (off + 1)..len
      /\ DOMAIN cs = 1..len /\ Count \in Nat /\ Kids(branch) = LiveFrom(cs, off)
  BY BranchParts
<1>2. /\ keys \in Seq(KeyObjects) /\ Len(keys) = Count
      /\ \A j \in 1..Count : keys[j] = os[off + j] /\ Kids(branch)[j] = cs[off + j]
  BY BranchNow, BranchIs DEF Sided
<1>3. /\ p \in 1..len /\ p = off + (i + 1) /\ i \in Int /\ i + 1 \in 1..Count
  BY SMTT(30), <1>1
<1>4. ChildIn(branch, slot) = cs[p] /\ KeyIn(branch, slot) = os[p]
  BY DEF ChildIn, KeyIn
<1>5. b = [children |-> [cs EXCEPT ![p] = cs[p]], keys |-> ks, childOffset |-> off]
  BY <1>4 DEF Put
<1>6. [cs EXCEPT ![p] = cs[p]] = cs
  BY SMTT(30), <1>1, <1>3
<1>7. b = [children |-> cs, keys |-> ks, childOffset |-> off]
  BY <1>5, <1>6
<1>n. NewKey \in KeyObjects
  BY NewOnes
<1>8. ks \in Seq(KeyObjects) /\ Len(ks) = len /\ \A j \in 1..len : ks[j] = IF j = p THEN NewKey ELSE os[j]
  <2>1. os \in Seq(KeyObjects) /\ p \in 1..Len(os) /\ NewKey \in KeyObjects
    BY <1>1, <1>3, <1>n
  <2> HIDE DEF os, p
  <2> QED BY <1>1, <2>1, ExceptSeq
<1>9. new \in Seq(KeyObjects) /\ Len(new) = Count
      /\ \A j \in 1..Count : new[j] = IF j = i + 1 THEN NewKey ELSE keys[j]
  BY <1>2, <1>3, <1>n, ExceptSeq DEF Replaced
<1> HIDE DEF b, ks, new, keys, cs, os, off, len, p
<1>10. LiveFrom(ks, off) = new
  <2>1. \A j \in 1..Len(new) : ks[off + j] = new[j]
    <3> TAKE j \in 1..Len(new)
    <3>1. j \in 1..Count /\ off + j \in 1..len /\ (off + j = p <=> j = i + 1)
      BY <1>1, <1>3, <1>9
    <3> QED BY <1>2, <1>8, <1>9, <3>1
  <2>2. off \in 0..Len(ks) /\ Len(new) = Len(ks) - off
    BY <1>1, <1>8, <1>9
  <2> QED BY <1>8, <1>9, <2>1, <2>2, SameList
<1>11. Typed(b) /\ Kids(b) = Kids(branch) /\ Keys(b) = new
  <2>1. off \in 0..Len(cs)
    BY <1>1 DEF len
  <2> QED BY <1>1, <1>7, <1>8, <1>10, <2>1, RecordTyped DEF len
<1>12. /\ b.children = branch.children /\ b.childOffset = branch.childOffset
       /\ Live(b) = Live(branch)
  BY <1>7 DEF Live, cs, off
<1>13. Sound(b, mine) /\ Untold(b, 0, -1)
  <2>1. Sound(branch, mine) /\ Untold(branch, 0, -1)
    BY NowSound
  <2> QED BY <1>11, <1>12, <2>1 DEF Sound, Untold
<1>14. b.childOffset <= MaxBranch - 2
  BY <1>12, BranchNow
<1>15. 0 \in Int /\ -1 \in Int
  OBVIOUS
<1>16. Does(Arranged(b, 0, -1), mine, Kids(b), Keys(b))
  BY <1>13, <1>14, <1>15, ArrangedDoes
<1>17. cs[p] = Kids(branch)[i + 1] /\ os[p] = keys[i + 1]
  BY <1>2, <1>3
<1> QED BY <1>4, <1>11, <1>16, <1>17 DEF b, new, keys

(* An array with the objects renamed holds the same keys. *)
LEMMA BecomesPlaced ==
  ASSUME NEW a, NEW parented, NEW kids, NEW keys, Does(a, parented, kids, keys),
         parented \subseteq Children, Distinct(keys),
         Len(kids) >= 1, Len(kids) <= MaxBranch + 1,
         NEW says \in Says, NEW op, NEW i, NEW items, Becomes(a, parented, says, op, i, items)
  PROVE  /\ BranchInv' /\ Links' = Linked(kids, keys, says)
         /\ turn' = [op |-> op, index |-> i, items |-> items]
<1> DEFINE b == a.branch
           off == b.childOffset
           len == Len(b.children)
           First(o) == Least({s \in DOMAIN b.keys : b.keys[s] = o})
           renamed == [s \in 1..len |-> First(b.keys[s])]
<1>1. /\ Typed(b) /\ Kids(b) = kids /\ Keys(b) = keys /\ Placed(b, a.index, parented)
      /\ a.index \in [Children -> Nat] /\ off <= MaxBranch - 2
  BY DEF Does
<1>2. /\ b = [children |-> b.children, keys |-> b.keys, childOffset |-> off]
      /\ b.children \in Seq(Children) /\ b.keys \in Seq(KeyObjects)
      /\ len \in Nat /\ Len(b.keys) = len /\ off \in 0..len /\ DOMAIN b.keys = 1..len
      /\ DOMAIN b.children = 1..len
      /\ \A j \in 1..len : b.children[j] \in Children /\ b.keys[j] \in KeyObjects
      /\ Sided(kids, keys) /\ Len(kids) = len - off /\ Len(keys) = len - off
      /\ \A j \in 1..(len - off) : kids[j] = b.children[off + j] /\ keys[j] = b.keys[off + j]
  BY <1>1, BranchIs
<1>3. /\ branch' = [b EXCEPT !.keys = [s \in DOMAIN b.keys |-> First(b.keys[s])]]
      /\ mine' = parented \intersect Holds(b.children)
      /\ indexInParent' = [n \in Children |->
                             IF n \in Holds(b.children) THEN a.index[n] ELSE 0]
      /\ keyOf' = [o \in KeyObjects |->
                     IF \E p \in LiveSlots(b) : First(KeyIn(b, p)) = o
                     THEN says[b.keys[o]] ELSE Least(NodeKeys)]
      /\ turn' = [op |-> op, index |-> i, items |-> items]
  BY DEF Becomes
<1> HIDE DEF b
<1>4. branch' = [children |-> b.children, keys |-> renamed, childOffset |-> off]
  BY <1>2, <1>3
<1>5. MaxBranch \in Nat /\ len <= 2 * MaxBranch
  <2>1. MaxBranch \in Nat
    BY MaxBranchAssumption
  <2> QED BY <1>1, <1>2, <2>1
<1>6. ASSUME NEW s \in 1..len
      PROVE  /\ First(b.keys[s]) \in 1..len /\ b.keys[First(b.keys[s])] = b.keys[s]
             /\ First(b.keys[s]) \in KeyObjects
  <2> DEFINE T == {x \in DOMAIN b.keys : b.keys[x] = b.keys[s]}
  <2>1. s \in T /\ T \subseteq 1..len /\ T \subseteq Nat
    BY <1>2
  <2>2. Least(T) \in T
    BY <2>1, LeastIs
  <2>3. Least(T) \in 1..(2 * MaxBranch)
    BY <1>2, <1>5, <2>1, <2>2
  <2> QED BY <2>1, <2>2, <2>3, NumbersAssumption
<1> HIDE DEF First
<1>7. renamed \in [1..len -> KeyObjects]
  BY <1>6
<1>8. renamed \in Seq(KeyObjects) /\ Len(renamed) = len
  BY <1>2, <1>7, Tabulated
<1>9. \A s \in 1..len : renamed[s] = First(b.keys[s])
  OBVIOUS
<1> HIDE DEF renamed
<1>10. /\ Typed(branch') /\ Kids(branch') = LiveFrom(b.children, off)
       /\ Keys(branch') = LiveFrom(renamed, off)
  BY <1>2, <1>4, <1>8, RecordTyped
<1>11. Kids(branch') = kids
  BY <1>1, <1>10 DEF Kids
<1>12. /\ Len(Keys(branch')) = len - off
       /\ \A j \in 1..(len - off) : /\ Keys(branch')[j] = First(keys[j])
                                    /\ off + j \in 1..len
  <2>1. /\ Len(Keys(branch')) = len - off
        /\ \A j \in 1..(len - off) : Keys(branch')[j] = renamed[off + j]
    BY <1>2, <1>8, <1>10, LiveIs
  <2>2. \A j \in 1..(len - off) : off + j \in 1..len
    BY <1>2
  <2> QED BY <1>2, <1>9, <2>1, <2>2
<1>13. Distinct(Keys(branch'))
  <2> SUFFICES ASSUME NEW j \in 1..(len - off), NEW k \in 1..(len - off),
                      Keys(branch')[j] = Keys(branch')[k]
               PROVE  j = k
    BY <1>12 DEF Distinct
  <2>1. First(keys[j]) = First(keys[k])
    BY <1>12
  <2>2. /\ off + j \in 1..len /\ keys[j] = b.keys[off + j]
        /\ off + k \in 1..len /\ keys[k] = b.keys[off + k]
    BY <1>2, <1>12
  <2>3. b.keys[First(keys[j])] = keys[j] /\ b.keys[First(keys[k])] = keys[k]
    BY <1>6, <2>2
  <2>4. keys[j] = keys[k]
    BY <2>1, <2>3
  <2> QED BY <1>2, <2>4 DEF Distinct
<1>14. Least(NodeKeys) \in NodeKeys
  BY LeastIs, NodeKeysAssumption
<1>15. keyOf' \in Says
  <2>1. \A p \in LiveSlots(b) : \E s \in 1..len : KeyIn(b, p) = b.keys[s]
    <3> TAKE p \in LiveSlots(b)
    <3>1. p + 1 \in 1..len
      BY <1>2 DEF LiveSlots
    <3> QED BY <3>1 DEF KeyIn
  <2>2. \A o \in KeyObjects : (\E p \in LiveSlots(b) : First(KeyIn(b, p)) = o) =>
           b.keys[o] \in KeyObjects
    BY <1>2, <1>6, <2>1
  <2> QED BY <1>3, <1>14, <2>2 DEF Says
<1>16. \A j \in 1..(len - off) : keyOf'[Keys(branch')[j]] = says[keys[j]]
  <2> TAKE j \in 1..(len - off)
  <2>1. off + j \in 1..len /\ keys[j] = b.keys[off + j]
    BY <1>2, <1>12
  <2>2. off + j - 1 \in LiveSlots(b) /\ KeyIn(b, off + j - 1) = keys[j]
    <3>1. off + j - 1 + 1 = off + j /\ off + j - 1 \in off..(len - 1)
      BY <1>2
    <3> QED BY <2>1, <3>1 DEF LiveSlots, KeyIn
  <2>3. First(keys[j]) \in KeyObjects /\ b.keys[First(keys[j])] = keys[j]
    BY <1>6, <2>1
  <2> QED BY <1>3, <1>12, <2>2, <2>3
<1>17. indexInParent' \in [Children -> Nat]
  BY <1>1, <1>3
<1>18. \A j \in 1..len : b.children[j] \in Holds(b.children)
  BY <1>2 DEF Holds
<1>19. Placed(branch', indexInParent', mine')
  <2>1. \A j \in 1..len : indexInParent'[b.children[j]] = a.index[b.children[j]]
    BY <1>2, <1>3, <1>18
  <2>2. branch'.children = b.children /\ branch'.childOffset = off /\ Live(branch') = Live(b)
    BY <1>4 DEF Live
  <2>3. Live(b) \subseteq 1..len /\ 1..off \subseteq 1..len
    BY <1>2 DEF Live
  <2>4. \A j \in Live(b) : b.children[j] \in parented /\ a.index[b.children[j]] = j - 1
    BY <1>1 DEF Placed
  <2>5. \A j \in 1..off : b.children[j] \in parented => j <= a.index[b.children[j]]
    BY <1>1 DEF Placed
  <2>6. \A j \in 1..len : b.children[j] \in mine' <=> b.children[j] \in parented
    BY <1>3, <1>18
  <2> QED BY <2>1, <2>2, <2>3, <2>4, <2>5, <2>6 DEF Placed
<1>20. mine' \subseteq Holds(branch'.children)
  BY <1>3, <1>4
<1>21. BranchInv'
  <2>1. branch'.childOffset <= MaxBranch - 2
    BY <1>1, <1>4
  <2> QED BY <1>10, <1>11, <1>13, <1>15, <1>17, <1>19, <1>20, <2>1 DEF BranchInv, Says
<1>22. Links' = Linked(kids, keys, says)
  <2>1. Links' = Linked(Kids(branch'), Keys(branch'), keyOf')
    BY <1>10, LinksAre DEF Links
  <2> QED BY <1>2, <1>11, <1>16, <2>1 DEF Linked
<1> QED BY <1>3, <1>21, <1>22

-----------------------------------------------------------------------------
(* The steps. *)

LEMMA ChildAdded ==
  ASSUME BranchInv, Count <= MaxBranch, NEW i \in 0..Count, NEW a,
         Does(a, mine \union {NewChild}, Inserted(Kids(branch), i, NewChild),
              Inserted(Keys(branch), i, NewKey)),
         Adding(a, i)
  PROVE  BranchInv' /\ ChildList!Insert
<1> DEFINE k == Least(NodeKeys)
           kids == Kids(branch)
           keys == Keys(branch)
           more == Inserted(kids, i, NewChild)
           others == Inserted(keys, i, NewKey)
           says == [keyOf EXCEPT ![NewKey] = k]
           items == <<Link(NewChild, k)>>
<1>1. /\ Distinct(keys) /\ Count = Len(kids) /\ Count \in Nat /\ MaxBranch \in Nat
      /\ mine \subseteq Children /\ keyOf \in Says /\ Links = Linked(kids, keys, keyOf)
  BY BranchNow
<1>2. Sided(kids, keys) /\ Len(keys) = Count /\ kids \in Seq(Children) /\ keys \in Seq(KeyObjects)
  BY <1>1, BranchNow, BranchIs DEF Sided
<1>3. k \in NodeKeys
  BY LeastIs, NodeKeysAssumption
<1>4. /\ NewChild \in Children /\ NewKey \in KeyObjects
      /\ \A j \in 1..Count : keys[j] # NewKey
  BY NewOnes
<1>5. says \in Says
  BY <1>1, <1>3 DEF Says
<1>6. Becomes(a, mine \union {NewChild}, says, "insert", i, items)
  BY DEF Adding
<1> HIDE DEF k, kids, keys, says, items
<1>7. Distinct(others) /\ Len(more) = Count + 1
  <2>1. i \in 0..Len(kids) /\ i \in 0..Len(keys)
    BY <1>1, <1>2
  <2>2. Distinct(others)
    BY <1>1, <1>2, <1>4, <2>1, DistinctInserted
  <2>3. Len(more) = Len(kids) + 1
    BY <1>2, <1>4, <2>1, InsertedTyped
  <2> QED BY <1>1, <2>2, <2>3
<1>8. Does(a, mine \union {NewChild}, more, others)
  BY DEF kids, keys
<1> HIDE DEF more, others
<1>9. /\ BranchInv' /\ Links' = Linked(more, others, says)
      /\ turn' = [op |-> "insert", index |-> i, items |-> items]
  <2>1. mine \union {NewChild} \subseteq Children
    BY <1>1, <1>4
  <2>2. Len(more) >= 1 /\ Len(more) <= MaxBranch + 1
    BY <1>1, <1>7
  <2> QED BY <1>5, <1>6, <1>7, <1>8, <2>1, <2>2, BecomesPlaced
<1>10. Linked(more, others, says) = Inserted(Links, i, Link(NewChild, k))
  <2>1. i \in 0..Len(kids) /\ \A j \in 1..Len(keys) : keys[j] # NewKey
    BY <1>1, <1>2, <1>4
  <2> QED BY <1>1, <1>2, <1>3, <1>4, <2>1, LinkedInserted DEF more, others, says
<1>11. Len(Links) = Count
  BY <1>1, <1>2, LinkedTyped
<1>12. Link(NewChild, k) \in Items
  BY <1>3, <1>4 DEF Link, Items
<1>13. items \in Seq(Items) /\ Len(items) = 1 /\ items[1] = Link(NewChild, k)
  BY <1>12 DEF items
<1>14. ChildList!Insert
  <2>1. /\ turn'.op = "insert" /\ turn'.index = i /\ turn'.items = items
    BY <1>9
  <2>2. ChildList!Inserted(Links, i, Link(NewChild, k)) = Inserted(Links, i, Link(NewChild, k))
    BY DEF ChildList!Inserted, Inserted
  <2>3. i \in 0..Len(Links)
    BY <1>11
  <2>4. Links' = Inserted(Links, i, Link(NewChild, k))
    BY <1>9, <1>10
  <2> QED BY <1>13, <2>1, <2>2, <2>3, <2>4 DEF ChildList!Insert, Items
<1> QED BY <1>9, <1>14

LEMMA ChildrenRemoved ==
  ASSUME BranchInv, NEW i \in Nat, NEW n \in Nat, i + n <= Count, n < Count, NEW a,
         NEW parented, parented \subseteq mine,
         Does(a, parented, Without(Kids(branch), i, n), Without(Keys(branch), i, n)),
         Becomes(a, parented, keyOf, "remove", i, SubSeq(Links, i + 1, i + n))
  PROVE  BranchInv' /\ ChildList!Remove
<1> DEFINE kids == Kids(branch)
           keys == Keys(branch)
           less == Without(kids, i, n)
           others == Without(keys, i, n)
           items == SubSeq(Links, i + 1, i + n)
<1>1. /\ Distinct(keys) /\ Count = Len(kids) /\ Count \in Nat /\ Count <= MaxBranch + 1
      /\ MaxBranch \in Nat
      /\ mine \subseteq Children /\ keyOf \in Says /\ Links = Linked(kids, keys, keyOf)
  BY BranchNow
<1>2. Sided(kids, keys) /\ Len(keys) = Count /\ kids \in Seq(Children) /\ keys \in Seq(KeyObjects)
  BY <1>1, BranchNow, BranchIs DEF Sided
<1>3. Does(a, parented, less, others) /\ Becomes(a, parented, keyOf, "remove", i, items)
  OBVIOUS
<1> HIDE DEF kids, keys, items
<1>4. Distinct(others) /\ Len(less) = Count - n
  <2>1. i + n <= Len(keys) /\ i + n <= Len(kids)
    BY <1>1, <1>2
  <2>2. Distinct(others)
    BY <1>1, <1>2, <2>1, DistinctWithout
  <2>3. Len(less) = Len(kids) - n
    BY <1>2, <2>1, WithoutTyped
  <2> QED BY <1>1, <2>2, <2>3
<1>5. Linked(less, others, keyOf) = Without(Links, i, n)
  <2>1. i + n <= Len(kids)
    BY <1>1
  <2> QED BY <1>1, <1>2, <2>1, LinkedWithout
<1> HIDE DEF less, others
<1>6. /\ BranchInv' /\ Links' = Linked(less, others, keyOf)
      /\ turn' = [op |-> "remove", index |-> i, items |-> items]
  <2>1. parented \subseteq Children
    BY <1>1
  <2>2. Len(less) >= 1 /\ Len(less) <= MaxBranch + 1
    BY <1>1, <1>4
  <2> QED BY <1>1, <1>3, <1>4, <2>1, <2>2, BecomesPlaced
<1>7. Links \in Seq(Items) /\ Len(Links) = Count
  BY <1>1, <1>2, LinkedTyped
<1>8. Len(items) = n
  <2>1. i + 1 \in 1..(Len(Links) + 1) /\ i + n \in i..Len(Links)
    BY <1>1, <1>7
  <2> QED BY <1>7, <2>1, SubSeqProperties DEF items
<1>9. ChildList!Remove
  <2>1. turn'.op = "remove" /\ turn'.index = i /\ turn'.items = items
    BY <1>6
  <2>2. i \in 0..(Len(Links) - n)
    BY <1>1, <1>7
  <2>3. items = SubSeq(Links, i + 1, i + n)
    BY DEF items
  <2>4. ChildList!Without(Links, i, n) = Without(Links, i, n)
    BY DEF ChildList!Without, Without
  <2>5. Links' = Without(Links, i, n)
    BY <1>5, <1>6
  <2> QED BY <1>8, <2>1, <2>2, <2>3, <2>4, <2>5 DEF ChildList!Remove
<1> QED BY <1>6, <1>9

LEMMA KeyChanged ==
  ASSUME BranchInv, Count <= MaxBranch + 1, NEW i \in 0..(Count - 1), NEW o \in KeyObjects,
         \A j \in 1..Count : j # i + 1 => Keys(branch)[j] # o, NEW k \in NodeKeys, NEW a,
         Does(a, mine, Kids(branch), Replaced(Keys(branch), i, o)),
         Becomes(a, mine, [keyOf EXCEPT ![o] = k], "replace", i, <<Link(Kids(branch)[i + 1], k)>>)
  PROVE  BranchInv' /\ ChildList!Replace
<1> DEFINE kids == Kids(branch)
           keys == Keys(branch)
           others == Replaced(keys, i, o)
           says == [keyOf EXCEPT ![o] = k]
           items == <<Link(kids[i + 1], k)>>
<1>1. /\ Distinct(keys) /\ Count = Len(kids) /\ Count \in Nat /\ Count >= 1
      /\ mine \subseteq Children /\ keyOf \in Says /\ Links = Linked(kids, keys, keyOf)
  BY BranchNow
<1>2. Sided(kids, keys) /\ Len(keys) = Count /\ kids \in Seq(Children) /\ keys \in Seq(KeyObjects)
  BY <1>1, BranchNow, BranchIs DEF Sided
<1>3. Does(a, mine, kids, others) /\ Becomes(a, mine, says, "replace", i, items)
  OBVIOUS
<1>4. says \in Says
  BY <1>1 DEF Says
<1> HIDE DEF kids, keys, items, says
<1>5. \A j \in 1..Len(keys) : j # i + 1 => keys[j] # o
  BY <1>2 DEF keys
<1>6. Distinct(others)
  <2>1. i \in 0..(Len(keys) - 1)
    BY <1>2
  <2> QED BY <1>1, <1>2, <1>5, <2>1, DistinctReplaced
<1>7. Linked(kids, others, says) = Replaced(Links, i, Link(kids[i + 1], k))
  <2>1. i \in 0..(Len(kids) - 1)
    BY <1>1
  <2>2. Linked(kids, Replaced(keys, i, o), [keyOf EXCEPT ![o] = k])
           = Replaced(Linked(kids, keys, keyOf), i, Link(kids[i + 1], k))
    <3>1. Sided(kids, keys) /\ keyOf \in Says /\ i \in 0..(Len(kids) - 1)
      BY <1>1, <1>2, <2>1
    <3> HIDE DEF others
    <3> QED BY <1>5, <3>1, LinkedReplaced
  <2> QED BY <1>1, <2>2 DEF says
<1> HIDE DEF others
<1>8. /\ BranchInv' /\ Links' = Linked(kids, others, says)
      /\ turn' = [op |-> "replace", index |-> i, items |-> items]
  <2>1. Len(kids) >= 1 /\ Len(kids) <= MaxBranch + 1
    BY <1>1
  <2> QED BY <1>1, <1>3, <1>4, <1>6, <2>1, BecomesPlaced
<1>9. Len(Links) = Count
  BY <1>1, <1>2, LinkedTyped
<1>10. Link(kids[i + 1], k) \in Items
  <2>1. i + 1 \in 1..Len(kids)
    BY <1>1
  <2>2. kids[i + 1] \in Children
    BY <1>2, <2>1, ElementOfSeq
  <2> QED BY <2>2 DEF Link, Items
<1>11. items \in Seq(Items) /\ Len(items) = 1 /\ items[1] = Link(kids[i + 1], k)
  BY <1>10 DEF items
<1>12. ChildList!Replace
  <2>1. turn'.op = "replace" /\ turn'.index = i /\ turn'.items = items
    BY <1>8
  <2>2. ChildList!Replaced(Links, i, Link(kids[i + 1], k))
           = Replaced(Links, i, Link(kids[i + 1], k))
    BY DEF ChildList!Replaced, Replaced
  <2>3. i \in 0..(Len(Links) - 1)
    BY <1>9
  <2>4. Links' = Replaced(Links, i, Link(kids[i + 1], k))
    BY <1>7, <1>8
  <2> QED BY <1>11, <2>1, <2>2, <2>3, <2>4 DEF ChildList!Replace, Items
<1> QED BY <1>8, <1>12
LEMMA GivenAway ==
  ASSUME BranchInv, NEW i \in Nat, NEW n \in Nat, i + n <= Count, NEW a, Giving(a, i, n)
  PROVE  Becomes(a, Left(i, n), keyOf, "remove", i, SubSeq(Links, i + 1, i + n))
<1> DEFINE kids == Kids(branch)
           given == SubSeq(Links, i + 1, i + n)
<1>1. /\ Links = Linked(kids, Keys(branch), keyOf) /\ Sided(kids, Keys(branch))
      /\ keyOf \in Says /\ Count = Len(kids) /\ Count \in Nat
  BY BranchNow, BranchIs
<1> HIDE DEF kids
<1>2. Links \in Seq(Items) /\ Len(Links) = Count /\ \A j \in 1..Count : Links[j].child = kids[j]
  <2>1. \A j \in 1..Count : Links[j].child = kids[j]
    BY <1>1 DEF Linked, Link
  <2> QED BY <1>1, <2>1, LinkedTyped
<1>3. DOMAIN given = 1..n /\ \A j \in 1..n : given[j] = Links[i + j]
  <2>1. i + 1 \in Int /\ i + n \in Int /\ \A j \in (i + 1)..(i + n) : Links[j] \in Items
    BY <1>1, <1>2, ElementOfSeq
  <2>2. /\ given \in Seq(Items)
        /\ Len(given) = IF i + 1 <= i + n THEN (i + n) - (i + 1) + 1 ELSE 0
        /\ \A j \in 1..((i + n) - (i + 1) + 1) : given[j] = Links[(i + 1) + j - 1]
    BY <1>2, <2>1, SubSeqProperties
  <2> HIDE DEF given
  <2>3. Len(given) = n /\ (i + n) - (i + 1) + 1 = n
    BY <2>2
  <2>4. \A j \in 1..n : (i + 1) + j - 1 = i + j
    OBVIOUS
  <2>5. DOMAIN given = 1..n
    BY <2>2, <2>3, LenProperties
  <2> QED BY <2>2, <2>3, <2>4, <2>5
<1> HIDE DEF given
<1>4. \A j \in 1..n : given[j].child = kids[i + j]
  <2>1. \A j \in 1..n : i + j \in 1..Count
    BY <1>1
  <2> QED BY <1>2, <1>3, <2>1
<1>5. mine \ {given[j].child : j \in DOMAIN given} = Left(i, n)
  BY <1>3, <1>4 DEF Left, kids
<1> QED BY <1>5 DEF Giving, given

LEMMA BranchInvInit ==
  ASSUME BranchInit
  PROVE  BranchInv /\ ChildList!Init
<1>1. PICK n \in 2..MaxBranch :
         /\ branch = [children |-> [i \in 1..n |-> i], keys |-> [i \in 1..n |-> i],
                      childOffset |-> 0]
         /\ indexInParent = [c \in Children |-> IF c \in 1..n THEN c - 1 ELSE 0]
         /\ mine = 1..n
         /\ keyOf = [o \in KeyObjects |-> Least(NodeKeys)]
         /\ turn = [op |-> "none", index |-> 0, items |-> <<>>]
  BY DEF BranchInit
<1> DEFINE ids == [i \in 1..n |-> i]
<1>2. MaxBranch \in Nat /\ MaxBranch >= 3 /\ n \in Nat /\ n >= 2 /\ n <= MaxBranch
  BY MaxBranchAssumption
<1>3. 1..n \subseteq Children /\ 1..n \subseteq KeyObjects
  <2>1. 1..n \subseteq 1..(2 * MaxBranch)
    BY <1>2
  <2> QED BY <2>1, NumbersAssumption
<1>4. ids \in Seq(Children) /\ Len(ids) = n /\ ids \in Seq(KeyObjects)
  <2>1. ids \in [1..n -> Children] /\ ids \in [1..n -> KeyObjects]
    BY <1>3
  <2> QED BY <1>2, <2>1, Tabulated
<1>5. DOMAIN ids = 1..n /\ \A j \in 1..n : ids[j] = j
  OBVIOUS
<1>6. branch = [children |-> ids, keys |-> ids, childOffset |-> 0]
  BY <1>1
<1> HIDE DEF ids
<1>7. LiveFrom(ids, 0) = ids
  <2>1. 0 \in 0..Len(ids) /\ Len(ids) = Len(ids) - 0 /\ \A j \in 1..Len(ids) : ids[0 + j] = ids[j]
    BY <1>2, <1>4
  <2> QED BY <1>4, <2>1, SameList
<1>8. Typed(branch) /\ Kids(branch) = ids /\ Keys(branch) = ids
  <2>1. 0 \in 0..Len(ids)
    BY <1>2, <1>4
  <2> QED BY <1>4, <1>6, <1>7, <2>1, RecordTyped
<1>9. branch.children = ids /\ branch.childOffset = 0 /\ Live(branch) = 1..n
  BY <1>4, <1>6 DEF Live
<1>10. Placed(branch, indexInParent, mine)
  <2>1. \A j \in 1..n : indexInParent[j] = j - 1
    BY <1>1, <1>3
  <2> QED BY <1>1, <1>5, <1>9, <2>1 DEF Placed
<1>11. indexInParent \in [Children -> Nat]
  BY <1>1, <1>2
<1>12. mine \subseteq Holds(branch.children)
  BY <1>1, <1>5, <1>9 DEF Holds
<1>13. keyOf \in Says
  <2>1. Least(NodeKeys) \in NodeKeys
    BY LeastIs, NodeKeysAssumption
  <2> QED BY <1>1, <2>1 DEF Says
<1>14. Distinct(ids)
  BY <1>4, <1>5 DEF Distinct
<1>15. BranchInv
  BY <1>2, <1>4, <1>8, <1>9, <1>10, <1>11, <1>12, <1>13, <1>14 DEF BranchInv, Says
<1>16. Links \in Seq(Items)
  BY <1>15, BranchNow, BranchIs, LinkedTyped
<1>17. turn = [op |-> "none", index |-> 0, items |-> <<>>]
  BY <1>1
<1> QED BY <1>15, <1>16, <1>17 DEF ChildList!Init, ChildList!Called, Items

LEMMA BranchInvStep ==
  ASSUME BranchInv, [BranchNext]_branchVars
  PROVE  BranchInv' /\ [ChildList!Next]_<<Links, turn>>
<1> DEFINE off == branch.childOffset
<1>1. /\ Count \in Nat /\ Count >= 1 /\ Count <= MaxBranch + 1 /\ MaxBranch \in Nat
      /\ MaxBranch >= 3 /\ mine \subseteq Children
      /\ Len(branch.children) = off + Count /\ off \in Nat
      /\ Count = Len(Kids(branch))
      /\ Len(Keys(branch)) = Count /\ Keys(branch) \in Seq(KeyObjects)
  BY BranchNow, BranchIs, BranchParts DEF Sided
<1>2. /\ NewChild \in Children /\ NewChild \notin Holds(branch.children)
      /\ NewKey \in KeyObjects /\ \A j \in 1..Count : Keys(branch)[j] # NewKey
  BY NewOnes
<1>3. ASSUME NEW i \in Nat, NEW n \in Nat
      PROVE  Left(i, n) \subseteq mine
  BY DEF Left
<1>4. Spares => Count >= 2
  BY <1>1 DEF Spares
<1> HIDE DEF off
<1>5. CASE UNCHANGED branchVars
  <2>1. BranchInv'
    BY <1>5 DEF branchVars, BranchInv, Typed, Placed, Live, Distinct, Kids, Keys, Holds
  <2>2. UNCHANGED <<Links, turn>>
    BY <1>5 DEF branchVars, Links, BranchChildCount, ChildIn, KeyIn, Link
  <2> QED BY <2>1, <2>2
<1>6. CASE ShiftChild
  <2>1. Count >= 2 /\ Count <= MaxBranch /\ Giving(FirstTaken(branch), 0, 1)
    BY <1>4, <1>6 DEF ShiftChild
  <2>2. Does(FirstTaken(branch), Left(0, 1), Without(Kids(branch), 0, 1),
             Without(Keys(branch), 0, 1))
    BY <2>1, FirstTakenDoes
  <2>3. 0 \in Nat /\ 1 \in Nat /\ 0 + 1 <= Count /\ 1 < Count
    BY <1>1, <2>1
  <2>4. Becomes(FirstTaken(branch), Left(0, 1), keyOf, "remove", 0, SubSeq(Links, 0 + 1, 0 + 1))
    BY <2>1, <2>3, GivenAway
  <2>5. BranchInv' /\ ChildList!Remove
    BY <1>3, <2>2, <2>3, <2>4, ChildrenRemoved
  <2> QED BY <2>5 DEF ChildList!Next
<1>7. CASE PopChild
  <2> DEFINE a == Arranged(Cut(branch, Len(branch.children) - 1), 0, -1)
             i == Count - 1
  <2>1. Count >= 2 /\ Giving(a, i, 1)
    BY <1>4, <1>7 DEF PopChild
  <2>2. Does(a, Left(i, 1), Without(Kids(branch), i, 1), Without(Keys(branch), i, 1))
    BY <2>1, PoppedDoes
  <2>3. i \in Nat /\ 1 \in Nat /\ i + 1 <= Count /\ 1 < Count
    BY <1>1, <2>1
  <2> HIDE DEF a, i
  <2>4. Becomes(a, Left(i, 1), keyOf, "remove", i, SubSeq(Links, i + 1, i + 1))
    BY <2>1, <2>3, GivenAway
  <2>5. BranchInv' /\ ChildList!Remove
    BY <1>3, <2>2, <2>3, <2>4, ChildrenRemoved
  <2> QED BY <2>5 DEF ChildList!Next
<1>8. CASE SplitBranch
  <2> DEFINE halved == BranchHalved(branch)
             kept == BranchChildCount(halved.branch)
             n == Count - kept
  <2>1. Count > MaxBranch /\ Giving(halved, kept, n)
    BY <1>8 DEF SplitBranch
  <2>2. /\ kept \in 1..(Count - 1)
        /\ Does(halved, Left(kept, n), Without(Kids(branch), kept, n),
                Without(Keys(branch), kept, n))
    <3> HIDE DEF halved
    <3>1. halved = BranchHalved(branch)
      BY DEF halved
    <3> HIDE DEF kept
    <3>2. kept = BranchChildCount(halved.branch)
      BY DEF kept
    <3> QED BY <2>1, <3>1, <3>2, HalvedDoes
  <2> HIDE DEF halved, kept
  <2>3. kept \in Nat /\ n \in Nat /\ kept + n <= Count /\ n < Count
    BY <1>1, <2>2
  <2> HIDE DEF n
  <2>4. Becomes(halved, Left(kept, n), keyOf, "remove", kept, SubSeq(Links, kept + 1, kept + n))
    BY <2>1, <2>3, GivenAway
  <2>5. BranchInv' /\ ChildList!Remove
    BY <1>3, <2>2, <2>3, <2>4, ChildrenRemoved
  <2> QED BY <2>5 DEF ChildList!Next
<1>9. CASE PushChild
  <2> DEFINE len == Len(branch.children)
             a == Arranged(Spliced(branch, len, NewChild, NewKey), len, len)
  <2>1. Count <= MaxBranch /\ Adding(a, Count)
    BY <1>1, <1>9 DEF PushChild
  <2>2. Does(a, mine \union {NewChild}, Inserted(Kids(branch), Count, NewChild),
             Inserted(Keys(branch), Count, NewKey))
    <3>1. Count \in 0..Count /\ len = branch.childOffset + Count
      BY <1>1 DEF off
    <3> QED BY <1>2, <3>1, SplicedDoes
  <2> HIDE DEF a
  <2>3. Count \in 0..Count
    BY <1>1
  <2>4. BranchInv' /\ ChildList!Insert
    BY <2>1, <2>2, <2>3, ChildAdded
  <2> QED BY <2>4 DEF ChildList!Next
<1>10. CASE UnshiftChild
  <2>1. Count <= MaxBranch /\ Adding(Unshifted(branch, NewChild, NewKey), 0) /\ 0 \in 0..Count
    BY <1>1, <1>10 DEF UnshiftChild
  <2>2. Does(Unshifted(branch, NewChild, NewKey), mine \union {NewChild},
             Inserted(Kids(branch), 0, NewChild), Inserted(Keys(branch), 0, NewKey))
    BY <1>2, UnshiftedDoes
  <2>3. BranchInv' /\ ChildList!Insert
    BY <2>1, <2>2, ChildAdded
  <2> QED BY <2>3 DEF ChildList!Next
<1>11. ASSUME NEW i \in 1..Count, BranchInsertAt(i)
       PROVE  BranchInv' /\ ChildList!Insert
  <2>1. /\ Count <= MaxBranch /\ i \in 0..Count
        /\ Adding(BranchInserted(branch, i, NewChild, NewKey), i)
    BY <1>1, <1>11 DEF BranchInsertAt
  <2>2. Does(BranchInserted(branch, i, NewChild, NewKey), mine \union {NewChild},
             Inserted(Kids(branch), i, NewChild), Inserted(Keys(branch), i, NewKey))
    BY <1>2, <2>1, InsertedDoes
  <2> QED BY <2>1, <2>2, ChildAdded
<1>12. ASSUME NEW i \in 1..(Count - 1), BranchRemoveAt(i)
       PROVE  BranchInv' /\ ChildList!Remove
  <2>1. /\ Count <= MaxBranch
        /\ Becomes(BranchRemoved(branch, i), mine, keyOf, "remove", i,
                   SubSeq(Links, i + 1, i + 1))
    BY <1>12 DEF BranchRemoveAt, Dropping
  <2>2. Does(BranchRemoved(branch, i), mine, Without(Kids(branch), i, 1),
             Without(Keys(branch), i, 1))
    BY <2>1, RemovedDoes
  <2>3. i \in Nat /\ 1 \in Nat /\ i + 1 <= Count /\ 1 < Count /\ mine \subseteq mine
    BY <1>1
  <2> QED BY <2>1, <2>2, <2>3, ChildrenRemoved
<1>13. ASSUME NEW i \in 0..(Count - 1), NEW k \in NodeKeys, WriteKey(i, k)
       PROVE  BranchInv' /\ ChildList!Replace
  <2> DEFINE slot == off + i
             keys == Keys(branch)
             o == keys[i + 1]
  <2>1. ChildIn(branch, slot) = Kids(branch)[i + 1] /\ KeyIn(branch, slot) = o
    BY KeyPutDoes DEF off
  <2>2. Becomes(Arranged(branch, 0, -1), mine, [keyOf EXCEPT ![o] = k], "replace", i,
                <<Link(Kids(branch)[i + 1], k)>>)
    BY <1>13, <2>1 DEF WriteKey, off
  <2>3. i + 1 \in 1..Count
    BY <1>1
  <2>4. o \in KeyObjects /\ \A j \in 1..Count : j # i + 1 => keys[j] # o
    <3>1. Distinct(keys)
      BY BranchNow
    <3> QED BY <1>1, <2>3, <3>1, ElementOfSeq DEF Distinct
  <2>5. Replaced(keys, i, o) = keys
    <3>1. [keys EXCEPT ![i + 1] = keys[i + 1]] = keys
      BY <1>1, <2>3, LenProperties
    <3> QED BY <3>1 DEF Replaced
  <2>6. Does(Arranged(branch, 0, -1), mine, Kids(branch), keys)
    <3>1. 0 \in Int /\ -1 \in Int /\ branch.childOffset <= MaxBranch - 2
      BY BranchNow
    <3> QED BY <3>1, NowSound, ArrangedDoes
  <2>7. Count <= MaxBranch + 1
    BY <1>1
  <2> QED BY <2>2, <2>4, <2>5, <2>6, <2>7, KeyChanged
<1>14. ASSUME NEW i \in 0..(Count - 1), NEW k \in NodeKeys, ReplaceKey(i, k)
       PROVE  BranchInv' /\ ChildList!Replace
  <2> DEFINE slot == off + i
             a == Arranged(Put(branch, slot, ChildIn(branch, slot), NewKey), 0, -1)
  <2>1. /\ ChildIn(branch, slot) = Kids(branch)[i + 1]
        /\ Does(a, mine, Kids(branch), Replaced(Keys(branch), i, NewKey))
    BY KeyPutDoes DEF off
  <2>2. Becomes(a, mine, [keyOf EXCEPT ![NewKey] = k], "replace", i,
                <<Link(Kids(branch)[i + 1], k)>>)
    BY <1>14, <2>1 DEF ReplaceKey, off
  <2>3. Count <= MaxBranch + 1
    BY <1>1
  <2> HIDE DEF a
  <2> QED BY <1>2, <2>1, <2>2, <2>3, KeyChanged
<1>15. \A i \in 0..(Count - 1) : KeysFor(i) \subseteq NodeKeys
  <2>1. Least(NodeKeys) \in NodeKeys
    BY LeastIs, NodeKeysAssumption
  <2> QED BY <2>1 DEF KeysFor
<1>16. CASE \E i \in 1..Count : BranchInsertAt(i)
  BY <1>11, <1>16 DEF ChildList!Next
<1>17. CASE \E i \in 1..(Count - 1) : BranchRemoveAt(i)
  BY <1>12, <1>17 DEF ChildList!Next
<1>18. CASE \E i \in 0..(Count - 1) : \E k \in KeysFor(i) : WriteKey(i, k) \/ ReplaceKey(i, k)
  BY <1>13, <1>14, <1>15, <1>18 DEF ChildList!Next
<1> QED BY <1>5, <1>6, <1>7, <1>8, <1>9, <1>10, <1>16, <1>17, <1>18 DEF BranchNext

-----------------------------------------------------------------------------
(* The theorems. *)

(* A child in front of its index would not find itself there.                *)
LEMMA SlotsAreKnown ==
  ASSUME BranchInv
  PROVE  ChildrenKnowTheirSlot
<1> DEFINE cs == branch.children
           off == branch.childOffset
           len == Len(cs)
<1>1. /\ len \in Nat /\ off \in Nat /\ off <= len
      /\ Live(branch) = (off + 1)..len /\ LiveSlots(branch) = off..(len - 1)
  BY BranchParts DEF LiveSlots
<1>2. /\ mine \subseteq Children /\ indexInParent \in [Children -> Nat]
      /\ \A j \in Live(branch) : cs[j] \in mine /\ indexInParent[cs[j]] = j - 1
      /\ \A j \in 1..off : cs[j] \in mine => j <= indexInParent[cs[j]]
  BY BranchNow DEF BranchInv, Placed
<1>3. LiveChildren(branch) = {cs[p + 1] : p \in LiveSlots(branch)}
  BY DEF LiveChildren, ChildIn
<1> HIDE DEF cs, off, len
<1>4. ASSUME NEW p \in LiveSlots(branch)
      PROVE  cs[p + 1] \in mine /\ indexInParent[cs[p + 1]] = p /\ p < len
  <2>1. p \in Int /\ p + 1 \in Live(branch) /\ p + 1 - 1 = p /\ p < len
    BY <1>1
  <2> DEFINE j == p + 1
  <2>2. j \in Live(branch) /\ j - 1 = p
    BY <2>1
  <2> HIDE DEF j
  <2>3. cs[j] \in mine /\ indexInParent[cs[j]] = j - 1
    BY <1>2, <2>2
  <2> QED BY <2>1, <2>2, <2>3 DEF j
<1>5. ASSUME NEW n \in mine, FoundInParent(n)
      PROVE  n \in LiveChildren(branch)
  <2> DEFINE p == indexInParent[n]
             j == p + 1
  <2>1. p \in Nat /\ p < len /\ cs[j] = n
    BY <1>2, <1>5 DEF FoundInParent, ChildIn, cs, len
  <2> HIDE DEF p
  <2>2. ~(j \in 1..off)
    <3>1. ASSUME j \in 1..off PROVE FALSE
      <4>1. j <= indexInParent[cs[j]]
        BY <1>2, <2>1, <3>1
      <4>2. j <= p
        BY <2>1, <4>1 DEF p
      <4> QED BY <2>1, <4>2
    <3> QED BY <3>1
  <2>3. p \in LiveSlots(branch)
    BY <1>1, <2>1, <2>2
  <2> QED BY <1>3, <2>1, <2>3
<1>6. ASSUME NEW n \in LiveChildren(branch)
      PROVE  FoundInParent(n)
  <2>1. PICK p \in LiveSlots(branch) : n = cs[p + 1]
    BY <1>3
  <2>2. indexInParent[n] = p /\ p < len
    BY <1>4, <2>1
  <2> QED BY <2>1, <2>2 DEF FoundInParent, ChildIn, cs, len
<1>7. LiveChildren(branch) \subseteq mine
  BY <1>3, <1>4
<1>8. \A p \in LiveSlots(branch) : indexInParent[ChildIn(branch, p)] = p
  BY <1>4 DEF ChildIn, cs
<1> QED BY <1>5, <1>6, <1>7, <1>8 DEF ChildrenKnowTheirSlot

(* A child finds itself at its own index exactly while it is a child:        *)
(* inserting, removing, borrowing, splitting and compacting all keep         *)
(* indexInParent right, and what is left in a dead slot never matches it.    *)
THEOREM SlotsStayKnown == BranchSpec => []ChildrenKnowTheirSlot
<1>1. BranchInit => BranchInv
  BY BranchInvInit
<1>2. BranchInv /\ [BranchNext]_branchVars => BranchInv'
  BY BranchInvStep
<1>3. BranchInv => ChildrenKnowTheirSlot
  BY SlotsAreKnown
<1> QED BY <1>1, <1>2, <1>3, PTL DEF BranchSpec

(* The two arrays with their dead slots implement one list of children, each *)
(* with its own key, of which every call changes what it names and no more:  *)
(* writing a NodeKey in place changes the key of one child.                  *)
THEOREM BranchIsAList == BranchSpec => ChildrenAreAList
<1>1. BranchInit => BranchInv /\ ChildList!Init
  BY BranchInvInit
<1>2. BranchInv /\ [BranchNext]_branchVars => BranchInv' /\ [ChildList!Next]_<<Links, turn>>
  BY BranchInvStep
<1> QED BY <1>1, <1>2, PTL DEF BranchSpec, ChildrenAreAList, ChildList!Spec
=============================================================================
