-------------------------- MODULE LeafArrayProofs --------------------------
(***************************************************************************)
(* Theorems about LeafArray.tla, for leaves of every size and entries of     *)
(* every kind: its array is a list, and its dead slots are bounded.          *)
(***************************************************************************)
EXTENDS LeafArray, SequenceTheorems, TLAPS

-----------------------------------------------------------------------------
(* Arrays. *)

LEMMA Tabulated ==
  ASSUME NEW S, NEW n \in Nat, NEW f \in [1..n -> S]
  PROVE  f \in Seq(S) /\ Len(f) = n
<1>1. f \in Seq(S)
  BY SeqDef
<1>2. Len(f) \in Nat /\ DOMAIN f = 1..Len(f)
  BY <1>1, LenProperties
<1> QED BY <1>1, <1>2

LEMMA CopyWithinTyped ==
  ASSUME NEW S, NEW a \in Seq(S), NEW target \in Nat, NEW start \in Nat, NEW end \in Nat,
         end <= Len(a), target + (end - start) <= Len(a)
  PROVE  /\ CopyWithin(a, target, start, end) \in Seq(S)
         /\ Len(CopyWithin(a, target, start, end)) = Len(a)
<1>1. Len(a) \in Nat /\ \A j \in 1..Len(a) : a[j] \in S
  BY LenProperties, ElementOfSeq
<1>2. CopyWithin(a, target, start, end) \in [1..Len(a) -> S]
  BY <1>1 DEF CopyWithin
<1> QED BY <1>1, <1>2, Tabulated

LEMMA ShortenedTyped ==
  ASSUME NEW S, NEW a \in Seq(S), NEW n \in 0..Len(a)
  PROVE  /\ Shortened(a, n) \in Seq(S) /\ Len(Shortened(a, n)) = n
<1>1. Len(a) \in Nat /\ \A j \in 1..Len(a) : a[j] \in S
  BY LenProperties, ElementOfSeq
<1>2. Shortened(a, n) \in [1..n -> S] /\ n \in Nat
  BY <1>1 DEF Shortened
<1> QED BY <1>2, Tabulated

LEMMA PushedTyped ==
  ASSUME NEW S, NEW a \in Seq(S), NEW x \in S
  PROVE  /\ Pushed(a, x) \in Seq(S) /\ Len(Pushed(a, x)) = Len(a) + 1
<1>1. Len(a) \in Nat /\ \A j \in 1..Len(a) : a[j] \in S
  BY LenProperties, ElementOfSeq
<1>2. Pushed(a, x) \in [1..(Len(a) + 1) -> S] /\ Len(a) + 1 \in Nat
  BY <1>1 DEF Pushed
<1> QED BY <1>2, Tabulated

LEMMA InsertedTyped ==
  ASSUME NEW S, NEW a \in Seq(S), NEW i \in 0..Len(a), NEW x \in S
  PROVE  /\ Inserted(a, i, x) \in Seq(S) /\ Len(Inserted(a, i, x)) = Len(a) + 1
<1>1. Len(a) \in Nat /\ \A j \in 1..Len(a) : a[j] \in S
  BY LenProperties, ElementOfSeq
<1>2. Inserted(a, i, x) \in [1..(Len(a) + 1) -> S] /\ Len(a) + 1 \in Nat
  BY <1>1 DEF Inserted
<1> QED BY <1>2, Tabulated

LEMMA WithoutTyped ==
  ASSUME NEW S, NEW s \in Seq(S), NEW n \in Nat, NEW i \in Nat, i + n <= Len(s)
  PROVE  /\ Without(s, i, n) \in Seq(S) /\ Len(Without(s, i, n)) = Len(s) - n
<1>1. Len(s) \in Nat /\ \A j \in 1..Len(s) : s[j] \in S
  BY LenProperties, ElementOfSeq
<1>2. Without(s, i, n) \in [1..(Len(s) - n) -> S] /\ Len(s) - n \in Nat
  BY <1>1 DEF Without
<1> QED BY <1>2, Tabulated

LEMMA LiveIs ==
  ASSUME NEW S, NEW es \in Seq(S), NEW off \in 0..Len(es)
  PROVE  /\ LiveFrom(es, off) \in Seq(S) /\ Len(LiveFrom(es, off)) = Len(es) - off
         /\ \A j \in 1..(Len(es) - off) : LiveFrom(es, off)[j] = es[off + j]
<1>1. Len(es) \in Nat /\ \A j \in 1..Len(es) : es[j] \in S
  BY LenProperties, ElementOfSeq
<1>2. LiveFrom(es, off) \in [1..(Len(es) - off) -> S] /\ Len(es) - off \in Nat
  BY <1>1 DEF LiveFrom
<1>3. LiveFrom(es, off) \in Seq(S) /\ Len(LiveFrom(es, off)) = Len(es) - off
  BY <1>2, Tabulated
<1> QED BY <1>3 DEF LiveFrom

(* An array shows a list when they have the same items. *)
LEMMA SameList ==
  ASSUME NEW S, NEW es \in Seq(S), NEW off \in 0..Len(es), NEW list \in Seq(S),
         Len(list) = Len(es) - off, \A j \in 1..Len(list) : es[off + j] = list[j]
  PROVE  LiveFrom(es, off) = list
<1>1. LiveFrom(es, off) \in Seq(S) /\ Len(LiveFrom(es, off)) = Len(list)
  BY LiveIs
<1>2. \A j \in 1..Len(LiveFrom(es, off)) : LiveFrom(es, off)[j] = list[j]
  BY <1>1, LiveIs
<1> QED BY <1>1, <1>2, SeqEqual

-----------------------------------------------------------------------------
(* What becomes of the live slots. *)

(* n items leave the middle, and those behind them close up.  With no item   *)
(* in front this is also a compaction.                                       *)
LEMMA ClosedUp ==
  ASSUME NEW S, NEW es \in Seq(S), NEW p \in Nat, NEW n \in Nat, p + n <= Len(es)
  PROVE  /\ Truncated(CopyWithin(es, p, p + n, Len(es)), Len(es) - n) = Without(es, p, n)
         /\ Without(es, p, n) \in Seq(S) /\ Len(Without(es, p, n)) = Len(es) - n
<1> DEFINE len == Len(es)
           moved == CopyWithin(es, p, p + n, len)
<1>1. len \in Nat
  BY LenProperties
<1>2. moved \in Seq(S) /\ Len(moved) = len
  BY <1>1, CopyWithinTyped
<1>3. ASSUME NEW j \in 1..(len - n)
      PROVE  moved[j] = IF j <= p THEN es[j] ELSE es[j + n]
  <2>1. j \in 1..len /\ j - p + (p + n) = j + n /\ j <= p + (len - (p + n))
    BY <1>1
  <2>2. moved[j] = IF p < j /\ j <= p + (len - (p + n)) THEN es[j - p + (p + n)] ELSE es[j]
    BY <2>1 DEF CopyWithin
  <2> QED BY <1>1, <2>1, <2>2
<1> HIDE DEF moved, len
<1>4. Truncated(moved, len - n) = [j \in 1..(len - n) |-> IF j <= p THEN es[j] ELSE es[j + n]]
  BY <1>3 DEF Truncated, Shortened
<1>5. Without(es, p, n) = [j \in 1..(len - n) |-> IF j <= p THEN es[j] ELSE es[j + n]]
  BY DEF Without, len
<1> QED BY <1>4, <1>5, WithoutTyped DEF moved, len

LEMMA LiveWithout ==
  ASSUME NEW S, NEW es \in Seq(S), NEW off \in 0..Len(es), NEW i \in Nat, NEW n \in Nat,
         off + i + n <= Len(es)
  PROVE  LiveFrom(Without(es, off + i, n), off) = Without(LiveFrom(es, off), i, n)
<1> DEFINE len == Len(es)
           rest == Without(es, off + i, n)
           live == LiveFrom(es, off)
           list == Without(live, i, n)
<1>1. len \in Nat /\ off \in Nat /\ off + i \in Nat
  BY LenProperties
<1>2. live \in Seq(S) /\ Len(live) = len - off /\ \A j \in 1..(len - off) : live[j] = es[off + j]
  BY LiveIs
<1>3. /\ rest \in Seq(S) /\ Len(rest) = len - n
      /\ \A j \in 1..(len - n) : rest[j] = IF j <= off + i THEN es[j] ELSE es[j + n]
  <2>1. off + i \in Nat /\ (off + i) + n <= Len(es)
    BY <1>1
  <2>2. rest \in Seq(S) /\ Len(rest) = len - n
    BY <2>1, WithoutTyped
  <2> QED BY <2>2 DEF Without
<1> HIDE DEF len, live, rest
<1>4. /\ list \in Seq(S) /\ Len(list) = len - off - n
      /\ \A j \in 1..(len - off - n) : list[j] = IF j <= i THEN live[j] ELSE live[j + n]
  <2>1. i + n <= Len(live) /\ Len(live) - n = len - off - n
    BY <1>1, <1>2 DEF len
  <2>2. /\ list \in Seq(S) /\ Len(list) = Len(live) - n
        /\ \A j \in 1..(Len(live) - n) : list[j] = IF j <= i THEN live[j] ELSE live[j + n]
    BY <1>2, <2>1, WithoutTyped DEF Without
  <2> HIDE DEF list
  <2> QED BY <2>1, <2>2
<1> HIDE DEF list
<1>5. ASSUME NEW j \in 1..(len - off - n)
      PROVE  rest[off + j] = list[j]
  <2>1. /\ off + j \in 1..(len - n) /\ (off + j) + n = off + (j + n)
        /\ j \in 1..(len - off) /\ j + n \in 1..(len - off) /\ (off + j <= off + i <=> j <= i)
    BY <1>1
  <2>2. live[j] = es[off + j] /\ live[j + n] = es[off + (j + n)]
    BY <1>2, <2>1
  <2>3. rest[off + j] = IF j <= i THEN es[off + j] ELSE es[off + (j + n)]
    BY <1>3, <2>1
  <2> QED BY <1>4, <2>2, <2>3
<1>6. off \in 0..Len(rest) /\ Len(list) = Len(rest) - off
  BY <1>1, <1>3, <1>4 DEF len
<1>7. LiveFrom(rest, off) = list
  BY <1>3, <1>4, <1>5, <1>6, SameList
<1> QED BY <1>7 DEF rest, list, live

(* With an item put in between, in any of the ways node-ops.ts does it. *)
LEMMA LiveInserted ==
  ASSUME NEW S, NEW es \in Seq(S), NEW off \in 0..Len(es), NEW i \in 0..(Len(es) - off),
         NEW x \in S
  PROVE  /\ Inserted(es, off + i, x) \in Seq(S)
         /\ Len(Inserted(es, off + i, x)) = Len(es) + 1
         /\ LiveFrom(Inserted(es, off + i, x), off) = Inserted(LiveFrom(es, off), i, x)
<1> DEFINE len == Len(es)
           more == Inserted(es, off + i, x)
           live == LiveFrom(es, off)
           list == Inserted(live, i, x)
<1>1. len \in Nat /\ off \in Nat /\ off <= len /\ off + i \in 0..len /\ i \in Nat
  BY LenProperties
<1>2. live \in Seq(S) /\ Len(live) = len - off /\ \A j \in 1..(len - off) : live[j] = es[off + j]
  BY LiveIs
<1>3. /\ more \in Seq(S) /\ Len(more) = len + 1
      /\ \A j \in 1..(len + 1) :
            more[j] = IF j <= off + i THEN es[j] ELSE IF j = off + i + 1 THEN x ELSE es[j - 1]
  <2>1. more \in Seq(S) /\ Len(more) = len + 1
    BY <1>1, InsertedTyped
  <2> QED BY <2>1 DEF Inserted
<1> HIDE DEF len, live, more
<1>4. /\ list \in Seq(S) /\ Len(list) = len - off + 1
      /\ \A j \in 1..(len - off + 1) :
            list[j] = IF j <= i THEN live[j] ELSE IF j = i + 1 THEN x ELSE live[j - 1]
  <2>1. i \in 0..Len(live) /\ Len(live) + 1 = len - off + 1
    BY <1>1, <1>2 DEF len
  <2>2. list \in Seq(S) /\ Len(list) = Len(live) + 1
    BY <1>2, <2>1, InsertedTyped
  <2>3. \A j \in 1..(Len(live) + 1) :
           list[j] = IF j <= i THEN live[j] ELSE IF j = i + 1 THEN x ELSE live[j - 1]
    BY DEF Inserted
  <2> HIDE DEF list
  <2> QED BY <2>1, <2>2, <2>3
<1> HIDE DEF list
<1>5. ASSUME NEW j \in 1..(len - off + 1)
      PROVE  more[off + j] = list[j]
  <2>1. /\ off + j \in 1..(len + 1) /\ (off + j) - 1 = off + (j - 1)
        /\ (off + j <= off + i <=> j <= i) /\ (off + j = off + i + 1 <=> j = i + 1)
        /\ (j <= i => j \in 1..(len - off)) /\ (i + 1 < j => j - 1 \in 1..(len - off))
    BY <1>1
  <2>2. /\ j <= i => live[j] = es[off + j]
        /\ i + 1 < j => live[j - 1] = es[off + (j - 1)]
    BY <1>2, <2>1
  <2>3. more[off + j] = IF j <= i THEN es[off + j]
                        ELSE IF j = i + 1 THEN x ELSE es[off + (j - 1)]
    BY <1>3, <2>1
  <2>4. j <= i \/ j = i + 1 \/ i + 1 < j
    BY <1>1
  <2> QED BY <1>1, <1>4, <2>2, <2>3, <2>4
<1>6. off \in 0..Len(more) /\ Len(list) = Len(more) - off
  BY <1>1, <1>3, <1>4
<1>7. LiveFrom(more, off) = list
  BY <1>3, <1>4, <1>5, <1>6, SameList
<1> QED BY <1>3, <1>7 DEF more, list, live, len

LEMMA MovedRight ==
  ASSUME NEW S, NEW es \in Seq(S), NEW p \in 0..(Len(es) - 1), NEW x \in S
  PROVE  [CopyWithin(Pushed(es, es[Len(es)]), p + 1, p, Len(es)) EXCEPT ![p + 1] = x]
            = Inserted(es, p, x)
<1> DEFINE len == Len(es)
           pushed == Pushed(es, es[len])
           moved == CopyWithin(pushed, p + 1, p, len)
           written == [moved EXCEPT ![p + 1] = x]
<1>1. len \in Nat /\ len > 0 /\ p \in Nat /\ p < len /\ es[len] \in S
  BY LenProperties, ElementOfSeq
<1>2. /\ pushed \in Seq(S) /\ Len(pushed) = len + 1
      /\ \A j \in 1..(len + 1) : pushed[j] = IF j = len + 1 THEN es[len] ELSE es[j]
  <2>1. pushed \in Seq(S) /\ Len(pushed) = len + 1
    BY <1>1, PushedTyped
  <2> QED BY <2>1 DEF Pushed
<1> HIDE DEF pushed
<1>3. /\ moved \in Seq(S) /\ Len(moved) = len + 1
      /\ \A j \in 1..(len + 1) :
            moved[j] = IF p + 1 < j /\ j <= p + 1 + (len - p) THEN pushed[j - (p + 1) + p]
                       ELSE pushed[j]
  <2>1. p + 1 \in Nat /\ p + 1 + (len - p) <= Len(pushed) /\ len <= Len(pushed)
    BY <1>1, <1>2
  <2>2. moved \in Seq(S) /\ Len(moved) = Len(pushed)
    BY <1>1, <1>2, <2>1, CopyWithinTyped
  <2> QED BY <1>2, <2>2 DEF CopyWithin
<1> HIDE DEF moved
<1>4. /\ written \in Seq(S) /\ Len(written) = len + 1
      /\ \A j \in 1..(len + 1) : written[j] = IF j = p + 1 THEN x ELSE moved[j]
  <2>1. p + 1 \in 1..Len(moved)
    BY <1>1, <1>3
  <2> QED BY <1>3, <2>1, ExceptSeq
<1> HIDE DEF written
<1>5. /\ Inserted(es, p, x) \in Seq(S) /\ Len(Inserted(es, p, x)) = len + 1
      /\ \A j \in 1..(len + 1) : Inserted(es, p, x)[j] =
            IF j <= p THEN es[j] ELSE IF j = p + 1 THEN x ELSE es[j - 1]
  <2>1. p \in 0..Len(es)
    BY <1>1
  <2>2. Inserted(es, p, x) \in Seq(S) /\ Len(Inserted(es, p, x)) = len + 1
    BY <2>1, InsertedTyped
  <2> QED BY <2>2 DEF Inserted
<1>6. ASSUME NEW j \in 1..(len + 1)
      PROVE  written[j] = Inserted(es, p, x)[j]
  <2>1. CASE j <= p
    BY <1>1, <1>2, <1>3, <1>4, <1>5, <2>1
  <2>2. CASE j = p + 1
    BY <1>1, <1>4, <1>5, <2>2
  <2>3. CASE p + 1 < j
    <3>1. /\ j <= p + 1 + (len - p) /\ j - (p + 1) + p = j - 1 /\ j - 1 \in 1..(len + 1)
          /\ j - 1 # len + 1 /\ j # p + 1 /\ ~(j <= p)
      BY <1>1, <2>3
    <3>2. written[j] = pushed[j - 1]
      BY <1>3, <1>4, <2>3, <3>1
    <3>3. pushed[j - 1] = es[j - 1]
      BY <1>2, <3>1
    <3> QED BY <1>5, <3>1, <3>2, <3>3
  <2> QED BY <1>1, <2>1, <2>2, <2>3
<1>7. written = Inserted(es, p, x)
  BY <1>4, <1>5, <1>6, SeqEqual
<1> QED BY <1>7 DEF written, moved, pushed

(* Into the dead slot in front: the items before the place move to the left. *)
InsertedLeft(es, off, i, x) ==
    [CopyWithin(es, off - 1, off, off + i) EXCEPT ![off + i] = x]

LEMMA MovedLeft ==
  ASSUME NEW S, NEW es \in Seq(S), NEW off \in 1..Len(es), NEW i \in 0..(Len(es) - off),
         NEW x \in S
  PROVE  /\ InsertedLeft(es, off, i, x) \in Seq(S)
         /\ Len(InsertedLeft(es, off, i, x)) = Len(es)
         /\ LiveFrom(InsertedLeft(es, off, i, x), off - 1) = Inserted(LiveFrom(es, off), i, x)
<1> DEFINE len == Len(es)
           moved == CopyWithin(es, off - 1, off, off + i)
           b == [moved EXCEPT ![off + i] = x]
           live == LiveFrom(es, off)
           list == Inserted(live, i, x)
<1>1. /\ len \in Nat /\ off \in Nat /\ off - 1 \in Nat /\ off + i \in Nat /\ i \in Nat
      /\ off + i <= len /\ off - 1 + (off + i - off) <= len
  BY LenProperties
<1>2. live \in Seq(S) /\ Len(live) = len - off /\ \A j \in 1..(len - off) : live[j] = es[off + j]
  BY LiveIs
<1>3. moved \in Seq(S) /\ Len(moved) = len
  BY <1>1, CopyWithinTyped
<1>4. \A j \in 1..len :
         moved[j] = IF off - 1 < j /\ j <= off - 1 + (off + i - off) THEN es[j - (off - 1) + off]
                    ELSE es[j]
  BY DEF CopyWithin
<1> HIDE DEF moved, live, len
<1>5. /\ b \in Seq(S) /\ Len(b) = len
      /\ \A j \in 1..len : b[j] = IF j = off + i THEN x ELSE moved[j]
  <2>1. off + i \in 1..Len(moved)
    BY <1>1, <1>3
  <2> QED BY <1>3, <2>1, ExceptSeq
<1> HIDE DEF b
<1>6. /\ list \in Seq(S) /\ Len(list) = len - off + 1
      /\ \A j \in 1..(len - off + 1) :
            list[j] = IF j <= i THEN live[j] ELSE IF j = i + 1 THEN x ELSE live[j - 1]
  <2>1. i \in 0..Len(live) /\ Len(live) + 1 = len - off + 1
    BY <1>1, <1>2 DEF len
  <2>2. list \in Seq(S) /\ Len(list) = Len(live) + 1
    BY <1>2, <2>1, InsertedTyped
  <2>3. \A j \in 1..(Len(live) + 1) :
           list[j] = IF j <= i THEN live[j] ELSE IF j = i + 1 THEN x ELSE live[j - 1]
    BY DEF Inserted
  <2> HIDE DEF list
  <2> QED BY <2>1, <2>2, <2>3
<1> HIDE DEF list
<1>7. ASSUME NEW j \in 1..(len - off + 1)
      PROVE  b[(off - 1) + j] = list[j]
  <2> DEFINE k == (off - 1) + j
  <2>1. k \in 1..len /\ off - 1 < k
    BY <1>1
  <2>2. CASE j <= i
    <3>1. /\ k # off + i /\ k <= off - 1 + (off + i - off) /\ k - (off - 1) + off = off + j
          /\ j \in 1..(len - off)
      BY <1>1, <2>2
    <3> HIDE DEF k
    <3>2. b[k] = es[off + j]
      BY <1>4, <1>5, <2>1, <3>1
    <3> QED BY <1>2, <1>6, <2>2, <3>1, <3>2 DEF k
  <2>3. CASE j = i + 1
    <3>1. k = off + i /\ ~(j <= i)
      BY <1>1, <2>3
    <3> HIDE DEF k
    <3>2. b[k] = x
      BY <1>5, <2>1, <3>1
    <3> QED BY <1>6, <2>3, <3>1, <3>2 DEF k
  <2>4. CASE i + 1 < j
    <3>1. /\ k # off + i /\ ~(k <= off - 1 + (off + i - off)) /\ k = off + (j - 1)
          /\ j - 1 \in 1..(len - off) /\ ~(j <= i) /\ j # i + 1
      BY <1>1, <2>4
    <3> HIDE DEF k
    <3>2. b[k] = es[k]
      BY <1>4, <1>5, <2>1, <3>1
    <3>3. list[j] = live[j - 1] /\ live[j - 1] = es[off + (j - 1)]
      BY <1>2, <1>6, <3>1
    <3> QED BY <3>1, <3>2, <3>3 DEF k
  <2> QED BY <1>1, <2>2, <2>3, <2>4
<1>8. off - 1 \in 0..Len(b) /\ Len(list) = Len(b) - (off - 1)
  <2>1. off - 1 <= len /\ len - off + 1 = len - (off - 1)
    BY <1>1
  <2> QED BY <1>1, <1>5, <1>6, <2>1
<1>9. LiveFrom(b, off - 1) = list
  <2>1. \A j \in 1..Len(list) : b[(off - 1) + j] = list[j]
    BY <1>6, <1>7
  <2>2. b \in Seq(S) /\ list \in Seq(S)
    BY <1>5, <1>6
  <2> QED BY <1>8, <2>1, <2>2, SameList
<1> QED BY <1>5, <1>9 DEF list, live, len, b, moved, InsertedLeft

(* An item leaves, and those before it move to the right over it. *)
LEMMA MovedOver ==
  ASSUME NEW S, NEW es \in Seq(S), NEW off \in 0..(Len(es) - 1),
         NEW i \in 0..(Len(es) - off - 1), NEW b, b = CopyWithin(es, off + 1, off, off + i)
  PROVE  /\ b \in Seq(S) /\ Len(b) = Len(es)
         /\ LiveFrom(b, off + 1) = Without(LiveFrom(es, off), i, 1)
<1> DEFINE len == Len(es)
           live == LiveFrom(es, off)
           list == Without(live, i, 1)
<1>1. /\ len \in Nat /\ off \in Nat /\ off + 1 \in Nat /\ off + i \in Nat /\ i \in Nat
      /\ off + i <= len /\ off + 1 + (off + i - off) <= len /\ off \in 0..len
      /\ off + i + 1 <= len
  BY LenProperties
<1>2. live \in Seq(S) /\ Len(live) = len - off /\ \A j \in 1..(len - off) : live[j] = es[off + j]
  BY <1>1, LiveIs
<1>3. b \in Seq(S) /\ Len(b) = len
  BY <1>1, CopyWithinTyped
<1>4. \A j \in 1..len :
         b[j] = IF off + 1 < j /\ j <= off + 1 + (off + i - off) THEN es[j - (off + 1) + off]
                ELSE es[j]
  BY DEF CopyWithin
<1> HIDE DEF live, len
<1>5. /\ list \in Seq(S) /\ Len(list) = len - off - 1
      /\ \A j \in 1..(len - off - 1) : list[j] = IF j <= i THEN live[j] ELSE live[j + 1]
  <2>1. i + 1 <= Len(live) /\ Len(live) - 1 = len - off - 1
    BY <1>1, <1>2
  <2>2. list \in Seq(S) /\ Len(list) = Len(live) - 1
    <3>1. live \in Seq(S) /\ i \in Nat /\ 1 \in Nat
      BY <1>1, <1>2
    <3> QED BY <2>1, <3>1, WithoutTyped
  <2>3. \A j \in 1..(Len(live) - 1) : list[j] = IF j <= i THEN live[j] ELSE live[j + 1]
    BY DEF Without
  <2> HIDE DEF list
  <2> QED BY <2>1, <2>2, <2>3
<1> HIDE DEF list
<1>6. ASSUME NEW j \in 1..(len - off - 1)
      PROVE  b[(off + 1) + j] = list[j]
  <2> DEFINE k == (off + 1) + j
  <2>1. /\ k \in 1..len /\ off + 1 < k /\ j \in 1..(len - off) /\ j + 1 \in 1..(len - off)
        /\ k = off + (j + 1) /\ k - (off + 1) + off = off + j
        /\ (j <= i <=> k <= off + 1 + (off + i - off))
    BY <1>1
  <2> HIDE DEF k
  <2>2. b[k] = IF j <= i THEN es[off + j] ELSE es[off + (j + 1)]
    BY <1>4, <2>1
  <2>3. live[j] = es[off + j] /\ live[j + 1] = es[off + (j + 1)]
    BY <1>2, <2>1
  <2> QED BY <1>5, <2>2, <2>3 DEF k
<1>7. off + 1 \in 0..Len(b) /\ Len(list) = Len(b) - (off + 1) /\ Len(list) = len - off - 1
  BY <1>1, <1>3, <1>5
<1>8. LiveFrom(b, off + 1) = list
  BY <1>3, <1>5, <1>6, <1>7, SameList
<1> QED BY <1>3, <1>8 DEF list, live, len

LEMMA FirstDead ==
  ASSUME NEW S, NEW es \in Seq(S), NEW off \in 0..(Len(es) - 1)
  PROVE  LiveFrom(es, off + 1) = Without(LiveFrom(es, off), 0, 1)
<1> DEFINE len == Len(es)
           live == LiveFrom(es, off)
           list == Without(live, 0, 1)
<1>1. len \in Nat /\ off \in Nat /\ off \in 0..len /\ off + 1 \in 0..len
  BY LenProperties
<1>2. live \in Seq(S) /\ Len(live) = len - off /\ \A j \in 1..(len - off) : live[j] = es[off + j]
  BY <1>1, LiveIs
<1> HIDE DEF live
<1>3. list \in Seq(S) /\ Len(list) = len - (off + 1)
  <2>1. 0 \in Nat /\ 1 \in Nat /\ 0 + 1 <= Len(live) /\ Len(live) - 1 = len - (off + 1)
    BY <1>1, <1>2
  <2> QED BY <1>2, <2>1, WithoutTyped
<1>4. ASSUME NEW j \in 1..Len(list)
      PROVE  es[(off + 1) + j] = list[j]
  <2>1. /\ j \in 1..(Len(live) - 1) /\ ~(j <= 0) /\ j + 1 \in 1..(len - off)
        /\ (off + 1) + j = off + (j + 1)
    BY <1>1, <1>2, <1>3
  <2>2. list[j] = live[j + 1]
    BY <2>1 DEF Without
  <2>3. live[j + 1] = es[off + (j + 1)]
    BY <1>2, <2>1
  <2> QED BY <2>1, <2>2, <2>3
<1> HIDE DEF list
<1>5. LiveFrom(es, off + 1) = list
  BY <1>1, <1>3, <1>4, SameList
<1> QED BY <1>5 DEF list, live

LEMMA LastDeadUsed ==
  ASSUME NEW S, NEW es \in Seq(S), NEW off \in 1..Len(es), NEW x \in S
  PROVE  /\ [es EXCEPT ![off] = x] \in Seq(S) /\ Len([es EXCEPT ![off] = x]) = Len(es)
         /\ LiveFrom([es EXCEPT ![off] = x], off - 1) = Inserted(LiveFrom(es, off), 0, x)
<1> DEFINE len == Len(es)
           b == [es EXCEPT ![off] = x]
           live == LiveFrom(es, off)
           list == Inserted(live, 0, x)
<1>1. len \in Nat /\ off \in Nat /\ off \in 0..len /\ off - 1 \in 0..len
  BY LenProperties
<1>2. live \in Seq(S) /\ Len(live) = len - off /\ \A j \in 1..(len - off) : live[j] = es[off + j]
  BY <1>1, LiveIs
<1>3. /\ b \in Seq(S) /\ Len(b) = len
      /\ \A j \in 1..len : b[j] = IF j = off THEN x ELSE es[j]
  BY <1>1, ExceptSeq
<1> HIDE DEF live, b
<1>4. list \in Seq(S) /\ Len(list) = len - (off - 1)
  <2>1. 0 \in 0..Len(live) /\ Len(live) + 1 = len - (off - 1)
    BY <1>1, <1>2
  <2> QED BY <1>2, <2>1, InsertedTyped
<1>5. ASSUME NEW j \in 1..Len(list)
      PROVE  b[(off - 1) + j] = list[j]
  <2>1. /\ j \in 1..(Len(live) + 1) /\ ~(j <= 0) /\ (off - 1) + j \in 1..len
        /\ ((off - 1) + j = off <=> j = 1) /\ (j = 0 + 1 <=> j = 1)
        /\ j # 1 => j - 1 \in 1..(len - off) /\ (off - 1) + j = off + (j - 1)
    BY <1>1, <1>2, <1>4
  <2>2. list[j] = IF j = 1 THEN x ELSE live[j - 1]
    BY <2>1 DEF Inserted
  <2>3. j # 1 => live[j - 1] = es[off + (j - 1)]
    BY <1>2, <2>1
  <2>4. b[(off - 1) + j] = IF j = 1 THEN x ELSE es[(off - 1) + j]
    BY <1>3, <2>1
  <2> QED BY <2>1, <2>2, <2>3, <2>4
<1> HIDE DEF list, len
<1>6. LiveFrom(b, off - 1) = list
  BY <1>1, <1>3, <1>4, <1>5, SameList
<1> QED BY <1>3, <1>6 DEF list, live, b, len

LEMMA LiveReplaced ==
  ASSUME NEW S, NEW es \in Seq(S), NEW off \in 0..Len(es),
         NEW i \in 0..(Len(es) - off - 1), NEW x \in S
  PROVE  /\ [es EXCEPT ![off + i + 1] = x] \in Seq(S)
         /\ Len([es EXCEPT ![off + i + 1] = x]) = Len(es)
         /\ LiveFrom([es EXCEPT ![off + i + 1] = x], off) = Replaced(LiveFrom(es, off), i, x)
<1> DEFINE len == Len(es)
           b == [es EXCEPT ![off + i + 1] = x]
           live == LiveFrom(es, off)
           list == Replaced(live, i, x)
<1>1. len \in Nat /\ off \in Nat /\ i \in Nat /\ off + i + 1 \in 1..len /\ i + 1 \in 1..(len - off)
  BY LenProperties
<1>2. live \in Seq(S) /\ Len(live) = len - off /\ \A j \in 1..(len - off) : live[j] = es[off + j]
  BY LiveIs
<1>3. /\ b \in Seq(S) /\ Len(b) = len
      /\ \A j \in 1..len : b[j] = IF j = off + i + 1 THEN x ELSE es[j]
  BY <1>1, ExceptSeq
<1>4. /\ list \in Seq(S) /\ Len(list) = len - off
      /\ \A j \in 1..(len - off) : list[j] = IF j = i + 1 THEN x ELSE live[j]
  <2> HIDE DEF live, len
  <2> QED BY <1>1, <1>2, ExceptSeq DEF Replaced
<1> HIDE DEF live, len, list, b
<1>5. ASSUME NEW j \in 1..(len - off)
      PROVE  b[off + j] = list[j]
  <2>1. off + j \in 1..len /\ (off + j = off + i + 1 <=> j = i + 1)
    BY <1>1
  <2> QED BY <1>2, <1>3, <1>4, <2>1
<1>6. off \in 0..Len(b) /\ Len(list) = Len(b) - off
  BY <1>1, <1>3, <1>4 DEF len
<1>7. LiveFrom(b, off) = list
  <2>1. \A j \in 1..Len(list) : b[off + j] = list[j]
    BY <1>4, <1>5
  <2>2. b \in Seq(S) /\ list \in Seq(S)
    BY <1>3, <1>4
  <2> QED BY <1>6, <2>1, <2>2, SameList
<1> QED BY <1>3, <1>7 DEF list, live, len, b

-----------------------------------------------------------------------------
(* What the functions of node-ops.ts make of the entries of a leaf.          *)

Array(a) ==
    /\ a \in [entries : Seq(LeafItems), entryOffset : Nat]
    /\ a.entryOffset <= Len(a.entries)
Shows(a, list) == Array(a) /\ LiveEntries(a) = list

LEMMA ArrayIs ==
  ASSUME NEW a, Array(a)
  PROVE  /\ a.entries \in Seq(LeafItems) /\ Len(a.entries) \in Nat
         /\ a.entryOffset \in 0..Len(a.entries)
         /\ a = [entries |-> a.entries, entryOffset |-> a.entryOffset]
         /\ LiveEntries(a) = LiveFrom(a.entries, a.entryOffset)
         /\ LiveEntries(a) \in Seq(LeafItems)
         /\ LeafEntryCount(a) = Len(a.entries) - a.entryOffset
         /\ LeafEntryCount(a) \in Nat /\ Len(LiveEntries(a)) = LeafEntryCount(a)
<1>1. a.entries \in Seq(LeafItems) /\ a.entryOffset \in Nat /\ a.entryOffset <= Len(a.entries)
  BY DEF Array
<1>2. Len(a.entries) \in Nat
  BY <1>1, LenProperties
<1>3. LiveEntries(a) = LiveFrom(a.entries, a.entryOffset)
  BY DEF LiveEntries
<1>4. /\ LiveFrom(a.entries, a.entryOffset) \in Seq(LeafItems)
      /\ Len(LiveFrom(a.entries, a.entryOffset)) = Len(a.entries) - a.entryOffset
  BY <1>1, <1>2, LiveIs
<1>5. a = [entries |-> a.entries, entryOffset |-> a.entryOffset]
  BY DEF Array
<1> QED BY <1>1, <1>2, <1>3, <1>4, <1>5 DEF LeafEntryCount

LEMMA RecordShows ==
  ASSUME NEW es \in Seq(LeafItems), NEW off \in 0..Len(es), NEW list, LiveFrom(es, off) = list
  PROVE  Shows([entries |-> es, entryOffset |-> off], list)
<1>1. Len(es) \in Nat
  BY LenProperties
<1> QED BY <1>1 DEF Shows, Array, LiveEntries

LEMMA EntriesSet ==
  ASSUME NEW a, Array(a), NEW es
  PROVE  [a EXCEPT !.entries = es] = [entries |-> es, entryOffset |-> a.entryOffset]
  BY DEF Array

(* All dead slots go at once. *)
LEMMA Compacted ==
  ASSUME NEW a, Array(a)
  PROVE  /\ LeafCompact(a) = [entries |-> LiveEntries(a), entryOffset |-> 0]
         /\ Shows(LeafCompact(a), LiveEntries(a))
<1> DEFINE es == a.entries
           off == a.entryOffset
           live == LiveEntries(a)
<1>1. /\ es \in Seq(LeafItems) /\ Len(es) \in Nat /\ off \in 0..Len(es) /\ off \in Nat
      /\ 0 + off <= Len(es) /\ 0 \in Nat /\ 0 + off = off
      /\ live = LiveFrom(es, off) /\ live \in Seq(LeafItems)
  BY ArrayIs
<1>2. Truncated(CopyWithin(es, 0, 0 + off, Len(es)), Len(es) - off) = Without(es, 0, off)
  <2> HIDE DEF es, off
  <2> QED BY <1>1, ClosedUp
<1>3. Without(es, 0, off) = live
  <2>1. \A j \in 1..(Len(es) - off) : ~(j <= 0) /\ j + off = off + j
    BY <1>1
  <2>2. Without(es, 0, off) = [j \in 1..(Len(es) - off) |-> es[off + j]]
    BY <2>1 DEF Without
  <2> QED BY <1>1, <2>2 DEF LiveFrom
<1>4. LeafCompact(a) = [entries |-> live, entryOffset |-> 0]
  BY <1>1, <1>2, <1>3 DEF LeafCompact
<1>5. LiveFrom(live, 0) = live
  <2> HIDE DEF live
  <2>1. Len(live) \in Nat /\ \A j \in 1..Len(live) : 0 + j = j
    BY <1>1, LenProperties
  <2>2. 0 \in 0..Len(live) /\ Len(live) = Len(live) - 0
    BY <2>1
  <2> QED BY <1>1, <2>1, <2>2, SameList
<1>6. 0 \in 0..Len(live)
  BY <1>1, LenProperties
<1> QED BY <1>1, <1>4, <1>5, <1>6, RecordShows

(* The arithmetic of DeadEntriesAreFew: an array that is not half dead has   *)
(* fewer dead slots than live ones.                                          *)
LEMMA CompactedInTime ==
  ASSUME NEW a, Array(a), LeafEntryCount(a) <= MaxLeaf
  PROVE  /\ Shows(CompactIfHalfDead(a), LiveEntries(a))
         /\ CompactIfHalfDead(a).entryOffset < MaxLeaf
<1> DEFINE len == Len(a.entries)
           off == a.entryOffset
<1>1. /\ len \in Nat /\ off \in Nat /\ LeafEntryCount(a) = len - off
      /\ MaxLeaf \in Nat /\ 0 < MaxLeaf
  BY ArrayIs, MaxLeafAssumption
<1>2. CASE off >= len \div 2
  BY <1>1, <1>2, Compacted DEF CompactIfHalfDead
<1>3. CASE ~(off >= len \div 2)
  <2>1. CompactIfHalfDead(a) = a
    BY <1>3 DEF CompactIfHalfDead
  <2>2. off < MaxLeaf
    <3> HIDE DEF len, off
    <3> QED BY <1>1, <1>3
  <2> QED BY <2>1, <2>2 DEF Shows
<1> QED BY <1>2, <1>3

LEMMA Shifted ==
  ASSUME NEW a, Array(a), LeafEntryCount(a) > 0, LeafEntryCount(a) <= MaxLeaf
  PROVE  /\ Shows(LeafShift(a), Without(LiveEntries(a), 0, 1))
         /\ LeafShift(a).entryOffset < MaxLeaf
<1> DEFINE es == a.entries
           off == a.entryOffset
           c == [a EXCEPT !.entryOffset = @ + 1]
<1>1. /\ es \in Seq(LeafItems) /\ Len(es) \in Nat /\ off \in 0..(Len(es) - 1)
      /\ off + 1 \in 0..Len(es)
      /\ LeafEntryCount(a) = Len(es) - off
  BY ArrayIs
<1>2. LiveFrom(es, off + 1) = Without(LiveFrom(es, off), 0, 1)
  <2> HIDE DEF es, off
  <2> QED BY <1>1, FirstDead
<1>4. c = [entries |-> es, entryOffset |-> off + 1] /\ LiveEntries(a) = LiveFrom(es, off)
  BY ArrayIs
<1>5. Shows(c, Without(LiveEntries(a), 0, 1))
  BY <1>1, <1>2, <1>4, RecordShows
<1>6. Array(c) /\ LeafEntryCount(c) <= MaxLeaf
  BY <1>1, <1>4, <1>5, MaxLeafAssumption DEF LeafEntryCount, Shows
<1>7. LiveEntries(c) = Without(LiveEntries(a), 0, 1)
  BY <1>5 DEF Shows
<1> HIDE DEF c
<1>8. LeafShift(a) = CompactIfHalfDead(c)
  BY DEF LeafShift, c
<1> QED BY <1>6, <1>7, <1>8, CompactedInTime

LEMMA ClosedUpShows ==
  ASSUME NEW a, Array(a), NEW i \in Nat, NEW n \in Nat, i + n <= LeafEntryCount(a), NEW b,
         b = [a EXCEPT !.entries =
                Truncated(CopyWithin(@, a.entryOffset + i, a.entryOffset + i + n, Len(@)),
                          Len(@) - n)]
  PROVE  Shows(b, Without(LiveEntries(a), i, n)) /\ b.entryOffset = a.entryOffset
<1> DEFINE es == a.entries
           off == a.entryOffset
           cut == Truncated(CopyWithin(es, off + i, off + i + n, Len(es)), Len(es) - n)
<1>1. /\ es \in Seq(LeafItems) /\ Len(es) \in Nat /\ off \in 0..Len(es) /\ off + i \in Nat
      /\ off + i + n <= Len(es) /\ LiveEntries(a) = LiveFrom(es, off)
  BY ArrayIs
<1>2. b = [entries |-> cut, entryOffset |-> off]
  <2>1. b = [a EXCEPT !.entries = cut]
    OBVIOUS
  <2> HIDE DEF cut
  <2> QED BY <2>1, EntriesSet
<1> HIDE DEF es, off
<1>3. /\ cut = Without(es, off + i, n)
      /\ cut \in Seq(LeafItems) /\ Len(cut) = Len(es) - n
  BY <1>1, ClosedUp
<1>4. LiveFrom(cut, off) = Without(LiveFrom(es, off), i, n)
  BY <1>1, <1>3, LiveWithout
<1> HIDE DEF cut
<1>5. off \in 0..Len(cut)
  BY <1>1, <1>3
<1>6. Shows([entries |-> cut, entryOffset |-> off], Without(LiveEntries(a), i, n))
  BY <1>1, <1>3, <1>4, <1>5, RecordShows
<1> QED BY <1>2, <1>6 DEF off

LEMMA SplicedOut ==
  ASSUME NEW a, Array(a), NEW i \in Nat, NEW n \in Nat, i + n <= LeafEntryCount(a)
  PROVE  /\ Shows(LeafSplice(a, i, n), Without(LiveEntries(a), i, n))
         /\ LeafSplice(a, i, n).entryOffset = a.entryOffset
  BY ClosedUpShows DEF LeafSplice

LEMMA Popped ==
  ASSUME NEW a, Array(a), LeafEntryCount(a) > 0
  PROVE  /\ Shows(LeafPop(a), Without(LiveEntries(a), LeafEntryCount(a) - 1, 1))
         /\ LeafPop(a).entryOffset = a.entryOffset
<1> DEFINE es == a.entries
           off == a.entryOffset
           n == LeafEntryCount(a)
           cut == Truncated(es, Len(es) - 1)
<1>1. /\ es \in Seq(LeafItems) /\ Len(es) \in Nat /\ off \in 0..(Len(es) - 1)
      /\ n = Len(es) - off /\ n - 1 \in Nat /\ LiveEntries(a) = LiveFrom(es, off)
      /\ Len(es) - 1 \in Nat /\ 1 \in Nat
  BY ArrayIs
<1>2. LeafPop(a) = [entries |-> cut, entryOffset |-> off]
  BY ArrayIs DEF LeafPop
<1> HIDE DEF es, off, n
<1>3. cut = Without(es, off + (n - 1), 1)
  <2>1. off + (n - 1) = Len(es) - 1 /\ \A j \in 1..(Len(es) - 1) : j <= Len(es) - 1
    BY <1>1
  <2>2. Without(es, Len(es) - 1, 1) = [j \in 1..(Len(es) - 1) |-> es[j]]
    BY <2>1 DEF Without
  <2> QED BY <2>1, <2>2 DEF Truncated, Shortened
<1>4. LiveFrom(cut, off) = Without(LiveFrom(es, off), n - 1, 1)
  <2>1. off + (n - 1) + 1 <= Len(es) /\ off \in 0..Len(es)
    BY <1>1
  <2> QED BY <1>1, <1>3, <2>1, LiveWithout
<1>5. cut \in Seq(LeafItems) /\ Len(cut) = Len(es) - 1
  <2>1. Len(es) - 1 \in 0..Len(es)
    BY <1>1
  <2> QED BY <1>1, <2>1, ShortenedTyped DEF Truncated
<1> HIDE DEF cut
<1>6. off \in 0..Len(cut)
  BY <1>1, <1>5
<1>7. Shows([entries |-> cut, entryOffset |-> off], Without(LiveEntries(a), n - 1, 1))
  BY <1>1, <1>4, <1>5, <1>6, RecordShows
<1> QED BY <1>2, <1>7 DEF off, n

LEMMA Removed ==
  ASSUME NEW a, Array(a), NEW i \in 0..(LeafEntryCount(a) - 1), LeafEntryCount(a) <= MaxLeaf
  PROVE  /\ Shows(LeafRemove(a, i), Without(LiveEntries(a), i, 1))
         /\ a.entryOffset < MaxLeaf => LeafRemove(a, i).entryOffset < MaxLeaf
<1> DEFINE es == a.entries
           off == a.entryOffset
           n == LeafEntryCount(a)
<1>1. /\ es \in Seq(LeafItems) /\ Len(es) \in Nat /\ off \in 0..(Len(es) - 1)
      /\ n = Len(es) - off /\ LiveEntries(a) = LiveFrom(es, off) /\ n \in Nat
      /\ i \in 0..(Len(es) - off - 1) /\ i \in Nat /\ 1 \in Nat /\ i + 1 <= n
  BY ArrayIs
<1>2. CASE i < n - 1 - i
  <2> DEFINE b == CopyWithin(es, off + 1, off, off + i)
             c == [entries |-> b, entryOffset |-> off + 1]
  <2>1. LeafRemove(a, i) = CompactIfHalfDead(c)
    BY <1>2 DEF LeafRemove
  <2>2. /\ b \in Seq(LeafItems) /\ Len(b) = Len(es)
        /\ LiveFrom(b, off + 1) = Without(LiveFrom(es, off), i, 1)
    <3> HIDE DEF es, off
    <3> QED BY <1>1, MovedOver
  <2>3. off + 1 \in 0..Len(b)
    BY <1>1, <2>2
  <2> HIDE DEF b
  <2>4. Shows(c, Without(LiveEntries(a), i, 1))
    BY <1>1, <2>2, <2>3, RecordShows
  <2>5. Array(c) /\ LeafEntryCount(c) <= MaxLeaf /\ LiveEntries(c) = Without(LiveEntries(a), i, 1)
    BY <1>1, <2>2, <2>4, MaxLeafAssumption DEF LeafEntryCount, Shows
  <2> HIDE DEF c
  <2> QED BY <2>1, <2>5, CompactedInTime
<1>3. CASE ~(i < n - 1 - i)
  <2>1. LeafRemove(a, i) =
          [a EXCEPT !.entries =
             Truncated(CopyWithin(@, a.entryOffset + i, a.entryOffset + i + 1, Len(@)),
                       Len(@) - 1)]
    BY <1>3 DEF LeafRemove
  <2> QED BY <1>1, <2>1, ClosedUpShows
<1> QED BY <1>2, <1>3

LEMMA LeafInserted ==
  ASSUME NEW a, Array(a), NEW i \in 0..LeafEntryCount(a), NEW e \in LeafItems
  PROVE  /\ Shows(LeafInsert(a, i, e), Inserted(LiveEntries(a), i, e))
         /\ LeafInsert(a, i, e).entryOffset <= a.entryOffset
<1> DEFINE es == a.entries
           off == a.entryOffset
           n == LeafEntryCount(a)
           list == Inserted(LiveEntries(a), i, e)
<1>1. /\ es \in Seq(LeafItems) /\ Len(es) \in Nat /\ off \in 0..Len(es)
      /\ n = Len(es) - off /\ LiveEntries(a) = LiveFrom(es, off)
      /\ i \in 0..(Len(es) - off) /\ i \in Nat
  BY ArrayIs
<1>2. CASE off > 0 /\ i < n \div 2
  <2> DEFINE b == InsertedLeft(es, off, i, e)
  <2>1. LeafInsert(a, i, e) = [entries |-> b, entryOffset |-> off - 1]
    BY <1>1, <1>2 DEF LeafInsert, InsertedLeft
  <2>2. off \in 1..Len(es)
    BY <1>1, <1>2
  <2>3. /\ b \in Seq(LeafItems) /\ Len(b) = Len(es)
        /\ LiveFrom(b, off - 1) = Inserted(LiveFrom(es, off), i, e)
    <3>1. es \in Seq(LeafItems) /\ i \in 0..(Len(es) - off)
      BY <1>1
    <3> HIDE DEF es, off
    <3> QED BY <2>2, <3>1, MovedLeft
  <2> HIDE DEF b
  <2>4. off - 1 \in 0..Len(b) /\ off - 1 <= off
    BY <2>2, <2>3
  <2>5. Shows([entries |-> b, entryOffset |-> off - 1], list)
    BY <1>1, <2>3, <2>4, RecordShows
  <2> QED BY <2>1, <2>4, <2>5
<1>3. CASE ~(off > 0 /\ i < n \div 2)
  <2> DEFINE b == Inserted(es, off + i, e)
  <2>1. b \in Seq(LeafItems) /\ Len(b) = Len(es) + 1 /\ LiveFrom(b, off) = list
    <3> HIDE DEF es, off
    <3> QED BY <1>1, LiveInserted
  <2>2. LeafInsert(a, i, e) = [entries |-> b, entryOffset |-> off]
    <3>1. CASE off + i >= Len(es)
      <4>1. LeafInsert(a, i, e) = [a EXCEPT !.entries = Pushed(es, e)]
        BY <1>1, <1>3, <3>1 DEF LeafInsert
      <4>2. off + i = Len(es)
        BY <1>1, <3>1
      <4>3. Pushed(es, e) = b
        <5> HIDE DEF es
        <5>1. \A j \in 1..(Len(es) + 1) : j <= Len(es) <=> j # Len(es) + 1
          BY <1>1
        <5> QED BY <4>2, <5>1 DEF Pushed, Inserted
      <4> QED BY <4>1, <4>3, EntriesSet
    <3>2. CASE ~(off + i >= Len(es))
      <4> DEFINE w == [CopyWithin(Pushed(es, es[Len(es)]), off + i + 1, off + i, Len(es))
                          EXCEPT ![off + i + 1] = e]
      <4>1. LeafInsert(a, i, e) = [a EXCEPT !.entries = w]
        BY <1>1, <1>3, <3>2 DEF LeafInsert
      <4>2. off + i \in 0..(Len(es) - 1)
        BY <1>1, <3>2
      <4>3. w = b
        <5> HIDE DEF es, off
        <5> QED BY <1>1, <4>2, MovedRight
      <4> HIDE DEF w, b
      <4> QED BY <4>1, <4>3, EntriesSet
    <3> QED BY <3>1, <3>2
  <2> HIDE DEF b
  <2>3. off \in 0..Len(b) /\ off <= off
    BY <1>1, <2>1
  <2>4. Shows([entries |-> b, entryOffset |-> off], list)
    BY <1>1, <2>1, <2>3, RecordShows
  <2> QED BY <2>2, <2>3, <2>4
<1> QED BY <1>2, <1>3

LEMMA PutInFront ==
  ASSUME NEW a, Array(a), NEW e \in LeafItems
  PROVE  /\ Shows(LeafUnshift(a, e), Inserted(LiveEntries(a), 0, e))
         /\ LeafUnshift(a, e).entryOffset <= a.entryOffset
<1> DEFINE es == a.entries
           off == a.entryOffset
           list == Inserted(LiveEntries(a), 0, e)
<1>1. /\ es \in Seq(LeafItems) /\ Len(es) \in Nat /\ off \in 0..Len(es)
      /\ LiveEntries(a) = LiveFrom(es, off) /\ 0 \in 0..(Len(es) - off) /\ off + 0 = off
  BY ArrayIs
<1>2. CASE off > 0
  <2> DEFINE b == [es EXCEPT ![off] = e]
  <2>1. LeafUnshift(a, e) = [entries |-> b, entryOffset |-> off - 1]
    BY <1>1, <1>2 DEF LeafUnshift
  <2>2. off \in 1..Len(es)
    BY <1>1, <1>2
  <2>4. /\ b \in Seq(LeafItems) /\ Len(b) = Len(es)
        /\ LiveFrom(b, off - 1) = Inserted(LiveFrom(es, off), 0, e)
    <3> HIDE DEF es, off
    <3> QED BY <1>1, <2>2, LastDeadUsed
  <2> HIDE DEF b
  <2>5. off - 1 \in 0..Len(b) /\ off - 1 <= off
    BY <2>2, <2>4
  <2>6. Shows([entries |-> b, entryOffset |-> off - 1], list)
    BY <1>1, <2>4, <2>5, RecordShows
  <2> QED BY <2>1, <2>5, <2>6
<1>3. CASE ~(off > 0)
  <2> DEFINE b == Inserted(es, 0, e)
  <2>1. off = 0 /\ off + 0 = 0 /\ LeafUnshift(a, e) = [a EXCEPT !.entries = b]
    BY <1>1, <1>3 DEF LeafUnshift
  <2>2. b \in Seq(LeafItems) /\ Len(b) = Len(es) + 1 /\ LiveFrom(b, off) = list
    <3> HIDE DEF es, off
    <3> QED BY <1>1, <2>1, LiveInserted
  <2> HIDE DEF b
  <2>3. off \in 0..Len(b) /\ off <= off
    BY <1>1, <2>2
  <2>4. Shows([entries |-> b, entryOffset |-> off], list)
    BY <1>1, <2>2, <2>3, RecordShows
  <2> QED BY <2>1, <2>3, <2>4, EntriesSet
<1> QED BY <1>2, <1>3

LEMMA Written ==
  ASSUME NEW a, Array(a), NEW i \in 0..(LeafEntryCount(a) - 1), NEW e \in LeafItems
  PROVE  /\ Shows(LeafWrite(a, i, e), Replaced(LiveEntries(a), i, e))
         /\ LeafWrite(a, i, e).entryOffset = a.entryOffset
<1> DEFINE es == a.entries
           off == a.entryOffset
           b == [es EXCEPT ![off + i + 1] = e]
<1>1. /\ es \in Seq(LeafItems) /\ Len(es) \in Nat /\ off \in 0..Len(es)
      /\ LiveEntries(a) = LiveFrom(es, off) /\ i \in 0..(Len(es) - off - 1)
  BY ArrayIs
<1>2. LeafWrite(a, i, e) = [entries |-> b, entryOffset |-> off]
  BY EntriesSet DEF LeafWrite
<1>3. /\ b \in Seq(LeafItems) /\ Len(b) = Len(es)
      /\ LiveFrom(b, off) = Replaced(LiveFrom(es, off), i, e)
  <2> HIDE DEF es, off
  <2> QED BY <1>1, LiveReplaced
<1> HIDE DEF b
<1>4. off \in 0..Len(b)
  BY <1>1, <1>3
<1>5. Shows([entries |-> b, entryOffset |-> off], Replaced(LiveEntries(a), i, e))
  BY <1>1, <1>3, <1>4, RecordShows
<1> QED BY <1>2, <1>5

LEMMA Halved ==
  ASSUME NEW a, Array(a), LeafEntryCount(a) > MaxLeaf
  PROVE  LET kept == (LeafEntryCount(a) + 1) \div 2
         IN  /\ Shows(LeafSplit(a), Without(LiveEntries(a), kept, LeafEntryCount(a) - kept))
             /\ LeafSplit(a).entryOffset = 0
<1> DEFINE live == LiveEntries(a)
           n == LeafEntryCount(a)
           kept == (n + 1) \div 2
           cut == Truncated(live, kept)
<1>1. live \in Seq(LeafItems) /\ Len(live) = n /\ n \in Nat
  BY ArrayIs
<1>2. kept \in 0..n /\ n - kept \in Nat /\ kept \in Nat /\ kept + (n - kept) <= n
  <2> HIDE DEF n
  <2>1. n >= 1
    BY <1>1, MaxLeafAssumption DEF n
  <2> QED BY <1>1, <2>1
<1>3. LeafSplit(a) = [entries |-> cut, entryOffset |-> 0]
  <2> DEFINE c == LeafCompact(a)
  <2>1. c = [entries |-> live, entryOffset |-> 0] /\ Array(c)
    BY Compacted DEF Shows
  <2>2. LeafSplit(a) =
          [c EXCEPT !.entries = Truncated(c.entries, (Len(c.entries) + 1) \div 2)]
    BY DEF LeafSplit
  <2> HIDE DEF c, live
  <2>3. c.entries = live /\ c.entryOffset = 0
    BY <2>1
  <2> QED BY <1>1, <2>1, <2>2, <2>3, EntriesSet
<1> HIDE DEF live, n, kept
<1>4. cut \in Seq(LeafItems) /\ Len(cut) = kept
  BY <1>1, <1>2, ShortenedTyped DEF Truncated
<1>5. cut = Without(live, kept, n - kept)
  <2>1. Len(live) - (n - kept) = kept /\ \A j \in 1..kept : j <= kept
    BY <1>1, <1>2
  <2> QED BY <2>1 DEF Truncated, Shortened, Without
<1>6. LiveFrom(cut, 0) = cut
  <2> HIDE DEF cut
  <2>1. Len(cut) \in Nat /\ \A j \in 1..Len(cut) : 0 + j = j
    BY <1>2, <1>4
  <2>2. 0 \in 0..Len(cut) /\ Len(cut) = Len(cut) - 0
    BY <2>1
  <2> QED BY <1>4, <2>1, <2>2, SameList
<1>7. 0 \in 0..Len(cut)
  BY <1>2, <1>4
<1> HIDE DEF cut
<1>8. Shows([entries |-> cut, entryOffset |-> 0], Without(live, kept, n - kept))
  BY <1>4, <1>5, <1>6, <1>7, RecordShows
<1> QED BY <1>3, <1>8 DEF live, n, kept

LEMMA Absorbed ==
  ASSUME NEW a, Array(a), NEW es \in Seq(LeafItems)
  PROVE  Shows(LeafAbsorb(a, es), LiveEntries(a) \o es) /\ LeafAbsorb(a, es).entryOffset = 0
<1> DEFINE all == LiveEntries(a) \o es
<1>1. LeafAbsorb(a, es) = [entries |-> all, entryOffset |-> 0]
  <2> DEFINE c == LeafCompact(a)
  <2>1. c = [entries |-> LiveEntries(a), entryOffset |-> 0] /\ Array(c)
    BY Compacted DEF Shows
  <2>2. LeafAbsorb(a, es) = [c EXCEPT !.entries = c.entries \o es]
    BY DEF LeafAbsorb
  <2> HIDE DEF c
  <2>3. c.entries = LiveEntries(a) /\ c.entryOffset = 0
    BY <2>1
  <2> QED BY <2>1, <2>2, <2>3, EntriesSet
<1>2. all \in Seq(LeafItems)
  BY ArrayIs, ConcatProperties
<1> HIDE DEF all
<1>3. LiveFrom(all, 0) = all /\ 0 \in 0..Len(all)
  <2>1. Len(all) \in Nat /\ \A j \in 1..Len(all) : 0 + j = j
    BY <1>2, LenProperties
  <2>2. 0 \in 0..Len(all) /\ Len(all) = Len(all) - 0
    BY <2>1
  <2> QED BY <1>2, <2>1, <2>2, SameList
<1>4. Shows([entries |-> all, entryOffset |-> 0], all)
  BY <1>2, <1>3, RecordShows
<1> QED BY <1>1, <1>4 DEF all

-----------------------------------------------------------------------------
(* The leaf under every call. *)

LeafInv == LeafTypeOK /\ DeadEntriesAreFew

LEMMA LeafInvInit == LeafInit => LeafInv /\ List!Init
<1> SUFFICES ASSUME LeafInit PROVE LeafInv /\ List!Init
  OBVIOUS
<1>1. PICK n \in 0..MaxLeaf : \E es \in [1..n -> LeafItems] :
         leaf = [entries |-> es, entryOffset |-> 0]
  BY DEF LeafInit
<1>2. PICK es \in [1..n -> LeafItems] : leaf = [entries |-> es, entryOffset |-> 0]
  BY <1>1
<1>3. MaxLeaf \in Nat /\ 0 < MaxLeaf /\ n \in Nat /\ n <= MaxLeaf
  BY MaxLeafAssumption
<1>4. es \in Seq(LeafItems) /\ Len(es) = n
  BY <1>3, Tabulated
<1>5. LeafInv
  BY <1>2, <1>3, <1>4 DEF LeafInv, LeafTypeOK, DeadEntriesAreFew, LeafEntryCount
<1>6. LiveEntries(leaf) \in Seq(LeafItems)
  BY <1>5, ArrayIs DEF LeafInv, LeafTypeOK, Array
<1>7. call = Called("none", 0, <<>>)
  BY DEF LeafInit
<1> QED BY <1>5, <1>6, <1>7 DEF List!Init, List!Called, Called

(* How a leaf that shows another list keeps the invariant. *)
LEMMA StillInv ==
  ASSUME LeafInv, NEW list \in Seq(LeafItems), Shows(leaf', list), Len(list) <= MaxLeaf + 1,
         leaf'.entryOffset < MaxLeaf
  PROVE  LeafInv'
<1>1. Array(leaf') /\ LiveEntries(leaf') = list
  BY DEF Shows
<1>2. LeafEntryCount(leaf') = Len(list)
  BY <1>1, ArrayIs
<1> QED BY <1>1, <1>2 DEF LeafInv, LeafTypeOK, DeadEntriesAreFew, Array

LEMMA InsertingSteps ==
  ASSUME LeafInv, NEW a, NEW i \in 0..LeafEntryCount(leaf), NEW e \in LeafItems,
         LeafEntryCount(leaf) <= MaxLeaf, Inserting(a, i, e),
         Shows(a, Inserted(LiveEntries(leaf), i, e)), a.entryOffset <= leaf.entryOffset
  PROVE  LeafInv' /\ List!Insert
<1> DEFINE live == LiveEntries(leaf)
           n == LeafEntryCount(leaf)
<1>1. /\ Array(leaf) /\ live \in Seq(LeafItems) /\ Len(live) = n /\ n \in Nat
      /\ leaf.entryOffset < MaxLeaf /\ leaf.entryOffset \in Nat /\ MaxLeaf \in Nat
  BY ArrayIs, MaxLeafAssumption DEF LeafInv, LeafTypeOK, DeadEntriesAreFew, Array
<1>2. leaf' = a /\ call' = Called("insert", i, <<e>>)
  BY DEF Inserting
<1>3. Inserted(live, i, e) \in Seq(LeafItems) /\ Len(Inserted(live, i, e)) = n + 1
  <2>1. live \in Seq(LeafItems) /\ i \in 0..Len(live)
    BY <1>1
  <2> HIDE DEF live
  <2>2. Inserted(live, i, e) \in Seq(LeafItems) /\ Len(Inserted(live, i, e)) = Len(live) + 1
    BY <2>1, InsertedTyped
  <2> QED BY <1>1, <2>2
<1>4. a.entryOffset < MaxLeaf
  <2>1. a.entryOffset \in Nat
    BY DEF Shows, Array
  <2> QED BY <1>1, <2>1
<1>5. LeafInv'
  BY <1>1, <1>2, <1>3, <1>4, StillInv
<1>6. call'.op = "insert" /\ call'.index = i /\ call'.items = <<e>>
  BY <1>2 DEF Called
<1>7. <<e>> \in Seq(LeafItems) /\ Len(<<e>>) = 1 /\ <<e>>[1] = e
  OBVIOUS
<1>8. LiveEntries(leaf)' = Inserted(live, i, e)
  BY <1>2 DEF Shows
<1>9. List!Inserted(live, i, e) = Inserted(live, i, e)
  BY DEF List!Inserted, Inserted
<1> HIDE DEF live
<1>10. List!Insert
  BY <1>1, <1>6, <1>7, <1>8, <1>9 DEF List!Insert, live
<1> QED BY <1>5, <1>10

LEMMA RemovingSteps ==
  ASSUME LeafInv, NEW a, NEW i \in Nat, NEW n \in Nat, i + n <= LeafEntryCount(leaf),
         LeafEntryCount(leaf) - n <= MaxLeaf, Removing(a, i, n),
         Shows(a, Without(LiveEntries(leaf), i, n)), a.entryOffset < MaxLeaf
  PROVE  LeafInv' /\ List!Remove
<1> DEFINE live == LiveEntries(leaf)
           gone == SubSeq(live, i + 1, i + n)
<1>1. /\ Array(leaf) /\ live \in Seq(LeafItems) /\ Len(live) = LeafEntryCount(leaf)
      /\ LeafEntryCount(leaf) \in Nat /\ MaxLeaf \in Nat
  BY ArrayIs, MaxLeafAssumption DEF LeafInv, LeafTypeOK, Array
<1>2. leaf' = a /\ call' = Called("remove", i, gone)
  BY DEF Removing
<1>3. /\ Without(live, i, n) \in Seq(LeafItems)
      /\ Len(Without(live, i, n)) = LeafEntryCount(leaf) - n
  BY <1>1, WithoutTyped
<1>4. LeafInv'
  BY <1>1, <1>2, <1>3, StillInv
<1>5. call'.op = "remove" /\ call'.index = i /\ call'.items = gone
  BY <1>2 DEF Called
<1> HIDE DEF live
<1>6. Len(gone) = n
  <2>1. i + 1 \in Int /\ i + n \in Int /\ \A j \in (i + 1)..(i + n) : live[j] \in LeafItems
    BY <1>1, ElementOfSeq
  <2>2. Len(gone) = IF i + 1 <= i + n THEN (i + n) - (i + 1) + 1 ELSE 0
    BY <2>1, SubSeqProperties
  <2> HIDE DEF gone
  <2> QED BY <2>2
<1>7. LiveEntries(leaf)' = Without(live, i, n)
  BY <1>2 DEF Shows, live
<1>8. List!Without(live, i, n) = Without(live, i, n)
  BY DEF List!Without, Without
<1>9. i \in 0..(Len(live) - n)
  BY <1>1
<1> HIDE DEF gone
<1>10. List!Remove
  BY <1>5, <1>6, <1>7, <1>8, <1>9 DEF List!Remove, live, gone
<1> QED BY <1>4, <1>10

LEMMA LeafInvStep ==
  ASSUME LeafInv, [LeafNext]_leafVars
  PROVE  LeafInv' /\ [List!Next]_<<LiveEntries(leaf), call>>
<1> DEFINE live == LiveEntries(leaf)
           n == LeafEntryCount(leaf)
<1>1. /\ Array(leaf) /\ live \in Seq(LeafItems) /\ Len(live) = n /\ n \in Nat
      /\ n <= MaxLeaf + 1 /\ leaf.entryOffset < MaxLeaf /\ leaf.entryOffset \in Nat
      /\ MaxLeaf \in Nat /\ 0 < MaxLeaf /\ 0 \in Nat /\ 1 \in Nat
  BY ArrayIs, MaxLeafAssumption DEF LeafInv, LeafTypeOK, DeadEntriesAreFew, Array
<1>2. CASE UNCHANGED leafVars
  BY <1>2 DEF leafVars, LeafInv, LeafTypeOK, DeadEntriesAreFew, LeafEntryCount, LiveEntries
<1>3. CASE LeafShiftEntry
  <2>1. n > 0 /\ n <= MaxLeaf /\ Removing(LeafShift(leaf), 0, 1)
    BY <1>3 DEF LeafShiftEntry, Fits
  <2>2. /\ Shows(LeafShift(leaf), Without(live, 0, 1))
        /\ LeafShift(leaf).entryOffset < MaxLeaf
    BY <1>1, <2>1, Shifted
  <2>3. 0 + 1 <= n /\ n - 1 <= MaxLeaf
    BY <1>1, <2>1
  <2>4. LeafInv' /\ List!Remove
    BY <1>1, <2>1, <2>2, <2>3, RemovingSteps
  <2> QED BY <2>4 DEF List!Next
<1>4. CASE LeafPopEntry
  <2>1. n > 0 /\ n <= MaxLeaf /\ Removing(LeafPop(leaf), n - 1, 1)
    BY <1>4 DEF LeafPopEntry, Fits
  <2>2. /\ Shows(LeafPop(leaf), Without(live, n - 1, 1))
        /\ LeafPop(leaf).entryOffset = leaf.entryOffset
    BY <1>1, <2>1, Popped
  <2>3. n - 1 \in Nat /\ (n - 1) + 1 <= n /\ n - 1 <= MaxLeaf
    BY <1>1, <2>1
  <2>4. LeafInv' /\ List!Remove
    BY <1>1, <2>1, <2>2, <2>3, RemovingSteps
  <2> QED BY <2>4 DEF List!Next
<1>5. CASE SplitLeaf
  <2> DEFINE kept == (n + 1) \div 2
  <2>1. n > MaxLeaf /\ Removing(LeafSplit(leaf), kept, n - kept)
    BY <1>1, <1>5 DEF SplitLeaf, Fits
  <2>2. /\ Shows(LeafSplit(leaf), Without(live, kept, n - kept))
        /\ LeafSplit(leaf).entryOffset < MaxLeaf
    BY <1>1, <2>1, Halved
  <2>3. kept \in Nat /\ n - kept \in Nat /\ kept + (n - kept) <= n /\ n - (n - kept) <= MaxLeaf
    <3> HIDE DEF n
    <3> QED BY <1>1, <2>1
  <2> HIDE DEF kept
  <2>4. LeafInv' /\ List!Remove
    BY <1>1, <2>1, <2>2, <2>3, RemovingSteps
  <2> QED BY <2>4 DEF List!Next
<1>6. ASSUME NEW i \in 0..(n - 1), LeafRemoveAt(i)
      PROVE  LeafInv' /\ List!Next
  <2>1. n <= MaxLeaf /\ Removing(LeafRemove(leaf, i), i, 1)
    BY <1>6 DEF LeafRemoveAt, Fits
  <2>2. /\ Shows(LeafRemove(leaf, i), Without(live, i, 1))
        /\ LeafRemove(leaf, i).entryOffset < MaxLeaf
    BY <1>1, <2>1, Removed
  <2>3. i \in Nat /\ i + 1 <= n /\ n - 1 <= MaxLeaf
    BY <1>1, <2>1
  <2>4. LeafInv' /\ List!Remove
    BY <1>1, <2>1, <2>2, <2>3, RemovingSteps
  <2> QED BY <2>4 DEF List!Next
<1>7. ASSUME NEW i \in 0..(n - 1), NEW m \in 1..(n - i), LeafSpliceAt(i, m)
      PROVE  LeafInv' /\ List!Next
  <2>1. n <= MaxLeaf /\ Removing(LeafSplice(leaf, i, m), i, m)
    BY <1>7 DEF LeafSpliceAt, Fits
  <2>2. i \in Nat /\ m \in Nat /\ i + m <= n /\ n - m <= MaxLeaf
    BY <1>1, <2>1
  <2>3. /\ Shows(LeafSplice(leaf, i, m), Without(live, i, m))
        /\ LeafSplice(leaf, i, m).entryOffset = leaf.entryOffset
    BY <1>1, <2>2, SplicedOut
  <2>4. LeafInv' /\ List!Remove
    BY <1>1, <2>1, <2>2, <2>3, RemovingSteps
  <2> QED BY <2>4 DEF List!Next
<1>8. ASSUME NEW e \in LeafItems, LeafUnshiftEntry(e)
      PROVE  LeafInv' /\ List!Next
  <2>1. n < MaxLeaf /\ Inserting(LeafUnshift(leaf, e), 0, e)
    BY <1>8 DEF LeafUnshiftEntry
  <2>2. 0 \in 0..n /\ n <= MaxLeaf
    BY <1>1, <2>1
  <2>3. /\ Shows(LeafUnshift(leaf, e), Inserted(live, 0, e))
        /\ LeafUnshift(leaf, e).entryOffset <= leaf.entryOffset
    BY <1>1, PutInFront
  <2>4. LeafInv' /\ List!Insert
    BY <2>1, <2>2, <2>3, InsertingSteps
  <2> QED BY <2>4 DEF List!Next
<1>9. ASSUME NEW e \in LeafItems, NEW i \in 0..n, LeafInsertAt(i, e)
      PROVE  LeafInv' /\ List!Next
  <2>1. n <= MaxLeaf /\ Inserting(LeafInsert(leaf, i, e), i, e)
    BY <1>9 DEF LeafInsertAt, Fits
  <2>2. /\ Shows(LeafInsert(leaf, i, e), Inserted(live, i, e))
        /\ LeafInsert(leaf, i, e).entryOffset <= leaf.entryOffset
    BY <1>1, LeafInserted
  <2>3. LeafInv' /\ List!Insert
    BY <2>1, <2>2, InsertingSteps
  <2> QED BY <2>3 DEF List!Next
<1>10. ASSUME NEW e \in LeafItems, NEW i \in 0..(n - 1), WriteEntry(i, e)
       PROVE  LeafInv' /\ List!Next
  <2>1. /\ n <= MaxLeaf /\ leaf' = LeafWrite(leaf, i, e)
        /\ call' = Called("replace", i, <<e>>)
    BY <1>10 DEF WriteEntry, Fits
  <2>2. /\ Shows(LeafWrite(leaf, i, e), Replaced(live, i, e))
        /\ LeafWrite(leaf, i, e).entryOffset = leaf.entryOffset
    BY <1>1, Written
  <2>3. Replaced(live, i, e) \in Seq(LeafItems) /\ Len(Replaced(live, i, e)) = n
    <3>1. i + 1 \in 1..Len(live)
      BY <1>1
    <3> HIDE DEF live
    <3> QED BY <1>1, <3>1, ExceptSeq DEF Replaced
  <2>4. LeafInv'
    BY <1>1, <2>1, <2>2, <2>3, StillInv
  <2>5. LiveEntries(leaf)' = Replaced(live, i, e)
    BY <2>1, <2>2 DEF Shows
  <2>6. call'.op = "replace" /\ call'.index = i /\ call'.items = <<e>>
    BY <2>1 DEF Called
  <2>7. <<e>> \in Seq(LeafItems) /\ Len(<<e>>) = 1 /\ <<e>>[1] = e
    OBVIOUS
  <2>8. List!Replaced(live, i, e) = Replaced(live, i, e)
    BY DEF List!Replaced, Replaced
  <2> HIDE DEF live
  <2>9. List!Replace
    BY <1>1, <2>5, <2>6, <2>7, <2>8 DEF List!Replace, live
  <2> QED BY <2>4, <2>9 DEF List!Next
<1>11. ASSUME NEW m \in 1..MaxLeaf, NEW es \in [1..m -> LeafItems], MergeLeafEntries(es)
       PROVE  LeafInv' /\ List!Next
  <2>1. es \in Seq(LeafItems) /\ Len(es) = m /\ m \in Nat
    <3>1. m \in Nat
      OBVIOUS
    <3> QED BY <3>1, Tabulated
  <2>2. /\ n + m <= MaxLeaf /\ leaf' = LeafAbsorb(leaf, es)
        /\ call' = Called("append", n, es)
    BY <1>11, <2>1 DEF MergeLeafEntries
  <2>3. Shows(LeafAbsorb(leaf, es), live \o es) /\ LeafAbsorb(leaf, es).entryOffset < MaxLeaf
    BY <1>1, <2>1, Absorbed
  <2>4. live \o es \in Seq(LeafItems) /\ Len(live \o es) = n + m
    BY <1>1, <2>1, ConcatProperties
  <2>5. LeafInv'
    <3>1. n + m <= MaxLeaf + 1
      BY <1>1, <2>1, <2>2
    <3> QED BY <2>2, <2>3, <2>4, <3>1, StillInv
  <2>6. LiveEntries(leaf)' = live \o es
    BY <2>2, <2>3 DEF Shows
  <2>7. call'.op = "append" /\ call'.index = n /\ call'.items = es
    BY <2>2 DEF Called
  <2> HIDE DEF live
  <2>8. List!AppendAll
    BY <1>1, <2>1, <2>6, <2>7 DEF List!AppendAll, live
  <2> QED BY <2>5, <2>8 DEF List!Next
<1>12. CASE LeafNext
  BY <1>3, <1>4, <1>5, <1>6, <1>7, <1>8, <1>9, <1>10, <1>11, <1>12 DEF LeafNext
<1> QED BY <1>2, <1>12

(* The array of a leaf keeps its type and never holds more than one entry    *)
(* too many, whatever its callers do.                                        *)
THEOREM LeafTypeCorrect == LeafSpec => []LeafTypeOK
<1>1. LeafInit => LeafInv
  BY LeafInvInit
<1>2. LeafInv /\ [LeafNext]_leafVars => LeafInv'
  BY LeafInvStep
<1>3. LeafInv => LeafTypeOK
  BY DEF LeafInv
<1> QED BY <1>1, <1>2, <1>3, PTL DEF LeafSpec

(* However leafShiftEntry, leafRemoveAt and the rest are mixed, a leaf of    *)
(* any capacity has fewer dead slots than it may have entries.               *)
THEOREM DeadEntriesStayFew == LeafSpec => []DeadEntriesAreFew
<1>1. LeafInit => LeafInv
  BY LeafInvInit
<1>2. LeafInv /\ [LeafNext]_leafVars => LeafInv'
  BY LeafInvStep
<1>3. LeafInv => DeadEntriesAreFew
  BY DEF LeafInv
<1> QED BY <1>1, <1>2, <1>3, PTL DEF LeafSpec

(* The array with its dead slots implements a list: for leaves of any        *)
(* capacity, each function of node-ops.ts changes the entries in the place   *)
(* it names and nowhere else.                                                *)
THEOREM LeafArrayIsAList == LeafSpec => EntriesAreAList
<1>1. LeafInit => LeafInv /\ List!Init
  BY LeafInvInit
<1>2. LeafInv /\ [LeafNext]_leafVars => LeafInv' /\ [List!Next]_<<LiveEntries(leaf), call>>
  BY LeafInvStep
<1> QED BY <1>1, <1>2, PTL DEF LeafSpec, EntriesAreAList, List!Spec
=============================================================================
