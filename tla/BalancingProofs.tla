-------------------------- MODULE BalancingProofs --------------------------
(***************************************************************************)
(* That the nodes stay balanced, for trees of any size and any capacities.   *)
(* Shape says that the nodes of a tree point to each other and are as high   *)
(* as they should be, but for one node that is about to be hung in the tree  *)
(* or taken out of it; Filled that they are full enough and not too full;    *)
(* then what each call, and each rest of a call, does to both.               *)
(***************************************************************************)
EXTENDS NodesProofs, FiniteSetTheorems

(* The tree the live nodes make. *)

(* The branch b and its children point to each other, but for the new node x.*)
Over(s, h, x, b) ==
    /\ Placed(s, b)
    /\ \A c \in Held(Children(s, b)) : c \in DOMAIN h \ {x} /\ Parent(s, c) = b /\ h[b] = h[c] + 1
(* The node n is a child of its parent, which is not the merged node y. *)
Under(s, h, y, n) ==
    /\ Parent(s, n) \in DOMAIN h \ {y} /\ ~IsLeaf(s, Parent(s, n))
    /\ n \in Held(Children(s, Parent(s, n)))

(* The nodes of DOMAIN h make a tree in which h is the height above the leaves,*)
(* except that x is not yet a child of its parent, and that y, whose content  *)
(* another node took, is still a child of its own.                           *)
Shape(s, h, x, y) ==
    /\ IsTree(s) /\ s.broken = FALSE
    /\ DOMAIN h \subseteq Ids(s) /\ \A n \in DOMAIN h : h[n] \in Nat
    /\ s.root \in DOMAIN h \ {x, y} /\ Parent(s, s.root) = None
    /\ \A n \in DOMAIN h : IsLeaf(s, n) <=> h[n] = 0
    /\ \A b \in DOMAIN h \ {y} : ~IsLeaf(s, b) => Over(s, h, x, b)
    /\ \A n \in DOMAIN h \ {s.root, x} : Under(s, h, y, n)

LEMMA NoneIsNoNode ==
  ASSUME NEW s, IsTree(s)
  PROVE  None \notin Ids(s) /\ Ids(s) \subseteq Nat
BY NodesAre DEF None

(* Placed depends on the content of a branch and on the slots of its children.*)
LEMMA PlacedStays ==
  ASSUME NEW s, NEW t, NEW b, Placed(s, b), Ids(s) \subseteq Ids(t), SameContent(s, t, b),
         \A c \in Held(Children(s, b)) : Slot(t, c) = Slot(s, c)
  PROVE  Placed(t, b) /\ ~IsLeaf(t, b) /\ Children(t, b) = Children(s, b)
BY DEF Placed, SameContent, Held

LEMMA OverStays ==
  ASSUME NEW s, NEW t, NEW h, NEW g, NEW x, NEW z, NEW b, Over(s, h, x, b), Ids(s) \subseteq Ids(t),
         SameContent(s, t, b), g[b] = h[b],
         \A c \in Held(Children(s, b)) :
            SamePlace(s, t, c) /\ c \in DOMAIN g \ {z} /\ g[c] = h[c]
  PROVE  Over(t, g, z, b) /\ ~IsLeaf(t, b)
BY PlacedStays DEF Over, SamePlace

LEMMA UnderStays ==
  ASSUME NEW s, NEW t, NEW h, NEW g, NEW y, NEW z, NEW n, Under(s, h, y, n),
         Parent(t, n) = Parent(s, n), SameContent(s, t, Parent(s, n)),
         Parent(s, n) \in DOMAIN g \ {z}
  PROVE  Under(t, g, z, n)
BY DEF Under, SameContent

-----------------------------------------------------------------------------
(* Steps that leave every node where it is. *)

LEMMA ResizedShape ==
  ASSUME NEW s, NEW h, NEW x, NEW y, Shape(s, h, x, y), NEW t, NEW S, Resized(s, t, S),
         \A n \in S \intersect DOMAIN h : IsLeaf(s, n)
  PROVE  Shape(t, h, x, y)
<1>1. /\ IsTree(t) /\ t.broken = FALSE /\ t.root = s.root
      /\ Ids(t) = Ids(s) /\ DOMAIN h \subseteq Ids(s)
  BY DEF Shape, Resized, Kept
<1>2. \A n \in DOMAIN h : IsLeaf(t, n) <=> IsLeaf(s, n)
  BY <1>1 DEF Resized
<1>3. \A n \in DOMAIN h : ~IsLeaf(s, n) => SameContent(s, t, n)
  BY <1>1 DEF Resized
<1>4. \A n \in DOMAIN h : SamePlace(s, t, n)
  BY <1>1 DEF Resized
<1>5. ASSUME NEW b \in DOMAIN h \ {y}, ~IsLeaf(t, b) PROVE Over(t, h, x, b)
  <2>1. Over(s, h, x, b) /\ SameContent(s, t, b)
    BY <1>2, <1>3, <1>5 DEF Shape
  <2>2. \A c \in Held(Children(s, b)) : SamePlace(s, t, c) /\ c \in DOMAIN h \ {x}
    BY <1>4, <2>1 DEF Over
  <2> QED BY <1>1, <2>1, <2>2, OverStays
<1>6. ASSUME NEW n \in DOMAIN h \ {t.root, x} PROVE Under(t, h, y, n)
  <2>1. Under(s, h, y, n)
    BY <1>1 DEF Shape
  <2>2. SameContent(s, t, Parent(s, n)) /\ Parent(s, n) \in DOMAIN h \ {y}
    BY <1>3, <2>1 DEF Under
  <2>3. Parent(t, n) = Parent(s, n)
    BY <1>4 DEF SamePlace
  <2> QED BY <2>1, <2>2, <2>3, UnderStays
<1>7. Parent(t, t.root) = None /\ t.root \in DOMAIN h \ {x, y}
  BY <1>1, <1>4 DEF Shape, SamePlace
<1>8. \A n \in DOMAIN h : h[n] \in Nat /\ (IsLeaf(t, n) <=> h[n] = 0)
  BY <1>2 DEF Shape
<1> QED BY <1>1, <1>5, <1>6, <1>7, <1>8 DEF Shape

(* The call that is left to be made is no part of the shape. *)
LEMMA TodoShape ==
  ASSUME NEW s, NEW h, NEW x, NEW y, Shape(s, h, x, y), NEW t,
         IsTree(t), t.nodes = s.nodes, t.root = s.root, t.broken = s.broken
  PROVE  Shape(t, h, x, y)
<1>1. Ids(t) = Ids(s)
  BY DEF Ids
<1>2. \A n : /\ IsLeaf(t, n) <=> IsLeaf(s, n)
             /\ Parent(t, n) = Parent(s, n) /\ Slot(t, n) = Slot(s, n)
             /\ Children(t, n) = Children(s, n) /\ Keys(t, n) = Keys(s, n)
             /\ Offset(t, n) = Offset(s, n)
  BY DEF IsLeaf, Parent, Slot, Children, Keys, Offset
<1>3. \A b : Placed(t, b) <=> Placed(s, b)
  BY <1>1, <1>2 DEF Placed
<1>4. \A b : Over(t, h, x, b) <=> Over(s, h, x, b)
  BY <1>2, <1>3 DEF Over
<1>5. \A n : Under(t, h, y, n) <=> Under(s, h, y, n)
  BY <1>2 DEF Under
<1> QED BY <1>1, <1>2, <1>4, <1>5 DEF Shape

(* The entries of a leaf are those of another one. *)
LEMMA MergedLeafShape ==
  ASSUME NEW s, NEW h, Shape(s, h, None, None), NEW y \in DOMAIN h \ {s.root}, IsLeaf(s, y)
  PROVE  Shape(s, h, None, y)
<1>1. \A n \in DOMAIN h \ {s.root, None} : Under(s, h, y, n)
  BY DEF Shape, Under
<1>2. None \notin DOMAIN h
  BY NoneIsNoNode DEF Shape
<1> QED BY <1>1, <1>2 DEF Shape

-----------------------------------------------------------------------------
(* Steps of one branch. *)

LEMMA InsertedShape ==
  ASSUME NEW s, NEW h, NEW x \in DOMAIN h, Shape(s, h, x, None),
         NEW p \in DOMAIN h, ~IsLeaf(s, p), Parent(s, x) = p, h[p] = h[x] + 1,
         NEW d, Inserts(s, d, p, x)
  PROVE  Shape(d, h, None, None)
<1>1. /\ IsTree(d) /\ d.broken = FALSE /\ d.root = s.root
      /\ Ids(d) = Ids(s) /\ DOMAIN h \subseteq Ids(s) /\ None \notin DOMAIN h
      /\ \A n \in Ids(s) : Parent(d, n) = Parent(s, n)
      /\ \A n \in Ids(s) \ {p} : SameContent(s, d, n)
      /\ Placed(d, p)
      /\ Held(Children(d, p)) = Held(Children(s, p)) \union {x}
  BY NoneIsNoNode DEF Shape, Inserts, Rearranged, SameButNodes
<1>2. Over(s, h, x, p)
  BY <1>1 DEF Shape
<1>3. \A n \in DOMAIN h : IsLeaf(d, n) <=> IsLeaf(s, n)
  BY <1>1 DEF SameContent, Placed
<1>4. \A n \in Ids(s) : Parent(s, n) # p => SamePlace(s, d, n)
  <2>1. \A n \in Held(Children(s, p)) \union {x} : Parent(s, n) = p
    BY <1>2 DEF Over
  <2> QED BY <1>1, <2>1 DEF Inserts, Rearranged, SamePlace
<1>5. ASSUME NEW b \in DOMAIN h, ~IsLeaf(d, b) PROVE Over(d, h, None, b)
  <2>1. CASE b = p
    BY <1>1, <1>2, <2>1 DEF Over
  <2>2. CASE b # p
    <3>1. Over(s, h, x, b) /\ SameContent(s, d, b)
      BY <1>1, <1>3, <1>5, <2>2 DEF Shape
    <3>2. \A c \in Held(Children(s, b)) : SamePlace(s, d, c) /\ c \in DOMAIN h \ {None}
      BY <1>1, <1>4, <2>2, <3>1 DEF Over
    <3> QED BY <1>1, <3>1, <3>2, OverStays
  <2> QED BY <2>1, <2>2
<1>6. ASSUME NEW n \in DOMAIN h \ {d.root} PROVE Under(d, h, None, n)
  <2>1. CASE n = x
    BY <1>1, <1>3, <2>1 DEF Under, Placed
  <2>2. CASE n # x /\ Parent(s, n) = p
    <3>1. Under(s, h, None, n)
      BY <1>1, <2>2 DEF Shape
    <3> QED BY <1>1, <2>2, <3>1 DEF Under, Placed
  <2>3. CASE n # x /\ Parent(s, n) # p
    <3>1. Under(s, h, None, n)
      BY <1>1, <2>3 DEF Shape
    <3>2. SameContent(s, d, Parent(s, n)) /\ Parent(d, n) = Parent(s, n)
      BY <1>1, <2>3, <3>1 DEF Under
    <3> QED BY <3>1, <3>2, UnderStays DEF Under
  <2> QED BY <2>1, <2>2, <2>3
<1>7. Parent(d, d.root) = None /\ d.root \in DOMAIN h
  BY <1>1 DEF Shape
<1>8. \A n \in DOMAIN h : h[n] \in Nat /\ (IsLeaf(d, n) <=> h[n] = 0)
  BY <1>3 DEF Shape
<1> QED BY <1>1, <1>5, <1>6, <1>7, <1>8 DEF Shape

LEMMA RemovedShape ==
  ASSUME NEW s, NEW h, NEW y \in DOMAIN h \ {s.root}, Shape(s, h, None, y),
         NEW d, Removes(s, d, Parent(s, y), y),
         NEW g, DOMAIN g = DOMAIN h \ {y}, \A n \in DOMAIN g : g[n] = h[n]
  PROVE  Shape(d, g, None, None)
<1> DEFINE p == Parent(s, y)
<1>1. /\ IsTree(d) /\ d.broken = FALSE /\ d.root = s.root
      /\ Ids(d) = Ids(s) /\ DOMAIN h \subseteq Ids(s) /\ None \notin DOMAIN h
      /\ \A n \in Ids(s) : Parent(d, n) = Parent(s, n)
      /\ \A n \in Ids(s) \ {p} : SameContent(s, d, n)
      /\ Placed(d, p)
      /\ Held(Children(d, p)) = Held(Children(s, p)) \ {y}
  BY NoneIsNoNode DEF Shape, Removes, Rearranged, SameButNodes
<1>2. Under(s, h, y, y) /\ p \in DOMAIN g /\ ~IsLeaf(s, p)
  BY <1>1 DEF Shape, Under
<1> HIDE DEF p
<1>3. Over(s, h, None, p)
  BY <1>2 DEF Shape
<1>4. \A n \in DOMAIN h : IsLeaf(d, n) <=> IsLeaf(s, n)
  BY <1>1, <1>2 DEF SameContent, Placed
<1>5. \A n \in Ids(s) : Parent(s, n) # p => SamePlace(s, d, n)
  <2>1. \A n \in Held(Children(s, p)) : Parent(s, n) = p
    BY <1>3 DEF Over
  <2> QED BY <1>1, <2>1 DEF Removes, Rearranged, SamePlace, p
<1>6. ASSUME NEW b \in DOMAIN g, ~IsLeaf(d, b) PROVE Over(d, g, None, b)
  <2>1. CASE b = p
    BY <1>1, <1>3, <2>1 DEF Over
  <2>2. CASE b # p
    <3>1. Over(s, h, None, b) /\ SameContent(s, d, b)
      BY <1>1, <1>4, <1>6, <2>2 DEF Shape
    <3>2. \A c \in Held(Children(s, b)) : SamePlace(s, d, c) /\ c \in DOMAIN g \ {None} /\ g[c] = h[c]
      <4>1. \A c \in Held(Children(s, b)) : c \in DOMAIN h \ {None} /\ Parent(s, c) = b
        BY <3>1 DEF Over
      <4>2. y \notin Held(Children(s, b))
        BY <2>2, <4>1 DEF p
      <4> QED BY <1>1, <1>5, <2>2, <4>1, <4>2
    <3> QED BY <1>1, <3>1, <3>2, OverStays
  <2> QED BY <2>1, <2>2
<1>7. ASSUME NEW n \in DOMAIN g \ {d.root} PROVE Under(d, g, None, n)
  <2>1. Under(s, h, y, n)
    BY <1>1, <1>7 DEF Shape
  <2>2. CASE Parent(s, n) = p
    BY <1>1, <1>2, <2>1, <2>2 DEF Under, Placed
  <2>3. CASE Parent(s, n) # p
    <3>1. /\ SameContent(s, d, Parent(s, n)) /\ Parent(d, n) = Parent(s, n)
          /\ Parent(s, n) \in DOMAIN g \ {None}
      BY <1>1, <2>1, <2>3 DEF Under
    <3> QED BY <2>1, <3>1, UnderStays
  <2> QED BY <2>2, <2>3
<1>8. Parent(d, d.root) = None /\ d.root \in DOMAIN g
  BY <1>1 DEF Shape
<1>9. \A n \in DOMAIN g : g[n] \in Nat /\ (IsLeaf(d, n) <=> g[n] = 0)
  BY <1>4 DEF Shape
<1> QED BY <1>1, <1>6, <1>7, <1>8, <1>9 DEF Shape

(* A child of one branch is now a child of another one as high. *)
LEMMA BorrowedShape ==
  ASSUME NEW s, NEW h, Shape(s, h, None, None), NEW b \in DOMAIN h, NEW from \in DOMAIN h, b # from,
         ~IsLeaf(s, b), ~IsLeaf(s, from), h[b] = h[from],
         NEW t, NEW child, Borrows(s, t, b, from, child)
  PROVE  Shape(t, h, None, None)
<1>1. /\ IsTree(t) /\ t.broken = FALSE /\ t.root = s.root
      /\ Ids(t) = Ids(s) /\ DOMAIN h \subseteq Ids(s) /\ None \notin DOMAIN h
      /\ \A n \in Ids(s) \ {child} : Parent(t, n) = Parent(s, n)
      /\ Parent(t, child) = b
      /\ \A n \in Ids(s) \ {b, from} : SameContent(s, t, n)
      /\ Placed(t, b) /\ Placed(t, from) /\ child \in Held(Children(s, from))
      /\ Held(Children(t, b)) = Held(Children(s, b)) \union {child}
      /\ Held(Children(t, from)) = Held(Children(s, from)) \ {child}
  BY NoneIsNoNode DEF Shape, Borrows, SameButNodes
<1>2. Over(s, h, None, b) /\ Over(s, h, None, from)
  BY <1>1 DEF Shape
<1>3. \A n \in DOMAIN h : IsLeaf(t, n) <=> IsLeaf(s, n)
  BY <1>1 DEF SameContent, Placed
<1>4. \A n \in Ids(s) : Parent(s, n) \notin {b, from} => SamePlace(s, t, n)
  <2>1. /\ \A n \in Held(Children(s, b)) : Parent(s, n) = b
        /\ \A n \in Held(Children(s, from)) : Parent(s, n) = from
    BY <1>2 DEF Over
  <2> QED BY <1>1, <2>1 DEF Borrows, SamePlace
<1>5. child \in DOMAIN h /\ Parent(s, child) = from
  BY <1>1, <1>2 DEF Over
<1>6. ASSUME NEW c \in DOMAIN h, ~IsLeaf(t, c) PROVE Over(t, h, None, c)
  <2>1. CASE c \in {b, from}
    <3>1. \A n \in Held(Children(t, c)) : n \in DOMAIN h \ {None} /\ Parent(t, n) = c /\ h[c] = h[n] + 1
      BY <1>1, <1>2, <2>1 DEF Over
    <3> QED BY <1>1, <2>1, <3>1 DEF Over
  <2>2. CASE c \notin {b, from}
    <3>1. Over(s, h, None, c) /\ SameContent(s, t, c)
      BY <1>1, <1>3, <1>6, <2>2 DEF Shape
    <3>2. \A n \in Held(Children(s, c)) : SamePlace(s, t, n) /\ n \in DOMAIN h \ {None}
      BY <1>1, <1>4, <2>2, <3>1 DEF Over
    <3> QED BY <1>1, <3>1, <3>2, OverStays
  <2> QED BY <2>1, <2>2
<1>7. ASSUME NEW n \in DOMAIN h \ {t.root} PROVE Under(t, h, None, n)
  <2>1. Under(s, h, None, n)
    BY <1>1, <1>7 DEF Shape
  <2>2. CASE n = child
    BY <1>1, <2>2 DEF Under, Placed
  <2>3. CASE n # child /\ Parent(s, n) \in {b, from}
    BY <1>1, <2>1, <2>3 DEF Under, Placed
  <2>4. CASE n # child /\ Parent(s, n) \notin {b, from}
    <3>1. /\ SameContent(s, t, Parent(s, n)) /\ Parent(t, n) = Parent(s, n)
          /\ Parent(s, n) \in DOMAIN h \ {None}
      BY <1>1, <2>1, <2>4 DEF Under
    <3> QED BY <2>1, <3>1, UnderStays
  <2> QED BY <2>2, <2>3, <2>4
<1>8. Parent(t, t.root) = None /\ t.root \in DOMAIN h
  <2>1. s.root # child
    BY <1>1, <1>5 DEF Shape
  <2> QED BY <1>1, <2>1 DEF Shape
<1>9. \A n \in DOMAIN h : h[n] \in Nat /\ (IsLeaf(t, n) <=> h[n] = 0)
  BY <1>3 DEF Shape
<1> QED BY <1>1, <1>6, <1>7, <1>8, <1>9 DEF Shape

(* All children of one branch are now children of another one as high. *)
LEMMA MergedBranchShape ==
  ASSUME NEW s, NEW h, Shape(s, h, None, None), NEW from \in DOMAIN h \ {s.root},
         NEW into \in DOMAIN h, into # from, ~IsLeaf(s, into), ~IsLeaf(s, from), h[into] = h[from],
         NEW t, MovesAll(s, t, from, into)
  PROVE  Shape(t, h, None, from)
<1>1. /\ IsTree(t) /\ t.broken = FALSE /\ t.root = s.root
      /\ Ids(t) = Ids(s) /\ DOMAIN h \subseteq Ids(s) /\ None \notin DOMAIN h
      /\ \A n \in Ids(s) \ Held(Children(s, from)) : SamePlace(s, t, n)
      /\ \A n \in Held(Children(s, from)) : Parent(t, n) = into
      /\ \A n \in Ids(s) \ {into} : SameContent(s, t, n)
      /\ Placed(t, into)
      /\ Held(Children(t, into)) = Held(Children(s, into)) \union Held(Children(s, from))
  BY NoneIsNoNode DEF Shape, MovesAll, SameButNodes
<1>2. Over(s, h, None, into) /\ Over(s, h, None, from)
  BY <1>1 DEF Shape
<1>3. \A n \in DOMAIN h : IsLeaf(t, n) <=> IsLeaf(s, n)
  BY <1>1 DEF SameContent, Placed
<1>4. \A n \in DOMAIN h : Parent(s, n) # from => SamePlace(s, t, n)
  BY <1>1, <1>2 DEF Over
<1>5. ASSUME NEW c \in DOMAIN h \ {from}, ~IsLeaf(t, c) PROVE Over(t, h, None, c)
  <2>1. CASE c = into
    <3>1. \A n \in Held(Children(t, c)) : n \in DOMAIN h \ {None} /\ h[c] = h[n] + 1
      BY <1>1, <1>2, <2>1 DEF Over
    <3>2. \A n \in Held(Children(s, into)) : Parent(t, n) = into
      BY <1>1, <1>2, <1>4 DEF Over, SamePlace
    <3> QED BY <1>1, <2>1, <3>1, <3>2 DEF Over
  <2>2. CASE c # into
    <3>1. Over(s, h, None, c) /\ SameContent(s, t, c)
      BY <1>1, <1>3, <1>5, <2>2 DEF Shape
    <3>2. \A n \in Held(Children(s, c)) : SamePlace(s, t, n) /\ n \in DOMAIN h \ {None}
      BY <1>1, <1>4, <2>2, <3>1 DEF Over
    <3> QED BY <1>1, <3>1, <3>2, OverStays
  <2> QED BY <2>1, <2>2
<1>6. ASSUME NEW n \in DOMAIN h \ {t.root} PROVE Under(t, h, from, n)
  <2>1. Under(s, h, None, n)
    BY <1>1, <1>6 DEF Shape
  <2>2. CASE Parent(s, n) = from
    BY <1>1, <2>1, <2>2 DEF Under, Placed
  <2>3. CASE Parent(s, n) = into
    BY <1>1, <1>4, <2>1, <2>3 DEF Under, Placed, SamePlace
  <2>4. CASE Parent(s, n) \notin {into, from}
    <3>1. /\ SameContent(s, t, Parent(s, n)) /\ Parent(t, n) = Parent(s, n)
          /\ Parent(s, n) \in DOMAIN h \ {from}
      BY <1>1, <1>4, <2>1, <2>4 DEF Under, SamePlace
    <3> QED BY <2>1, <3>1, UnderStays
  <2> QED BY <2>2, <2>3, <2>4
<1>7. Parent(t, t.root) = None /\ t.root \in DOMAIN h \ {None, from}
  <2>1. s.root \in DOMAIN h /\ Parent(s, s.root) # from
    BY <1>1 DEF Shape
  <2> QED BY <1>1, <1>4, <2>1 DEF Shape, SamePlace
<1>8. \A n \in DOMAIN h : h[n] \in Nat /\ (IsLeaf(t, n) <=> h[n] = 0)
  BY <1>3 DEF Shape
<1>9. \A n \in DOMAIN h \ {t.root, None} : Under(t, h, from, n)
  BY <1>6
<1> QED BY <1>1, <1>5, <1>7, <1>8, <1>9 DEF Shape

(* The root gave way to its only child. *)
LEMMA CollapsedShape ==
  ASSUME NEW s, NEW h, Shape(s, h, None, None), ~IsLeaf(s, s.root),
         NEW only, Held(Children(s, s.root)) = {only},
         NEW t, Collapses(s, t, only),
         NEW g, DOMAIN g = DOMAIN h \ {s.root}, \A n \in DOMAIN g : g[n] = h[n]
  PROVE  Shape(t, g, None, None) /\ only \in DOMAIN h \ {s.root}
<1>1. /\ IsTree(t) /\ t.broken = FALSE /\ t.root = only
      /\ Ids(t) = Ids(s) /\ DOMAIN h \subseteq Ids(s) /\ None \notin DOMAIN h
      /\ \A n \in Ids(s) : SameContent(s, t, n) /\ Slot(t, n) = Slot(s, n)
      /\ \A n \in Ids(s) \ {only} : SamePlace(s, t, n)
      /\ Parent(t, only) = None
  BY NoneIsNoNode DEF Shape, Collapses, SameButRoot, SamePlace
<1>2. Over(s, h, None, s.root) /\ Parent(s, s.root) = None
  BY <1>1 DEF Shape
<1>3. only \in DOMAIN g /\ Parent(s, only) = s.root
  <2>1. only \in DOMAIN h /\ Parent(s, only) = s.root
    BY <1>2 DEF Over
  <2> QED BY <1>1, <1>2, <2>1
<1>4. \A n \in DOMAIN h : IsLeaf(t, n) <=> IsLeaf(s, n)
  BY <1>1 DEF SameContent
<1>5. ASSUME NEW b \in DOMAIN g, ~IsLeaf(t, b) PROVE Over(t, g, None, b)
  <2>1. Over(s, h, None, b) /\ SameContent(s, t, b)
    BY <1>1, <1>4, <1>5 DEF Shape
  <2>2. \A c \in Held(Children(s, b)) : SamePlace(s, t, c) /\ c \in DOMAIN g \ {None} /\ g[c] = h[c]
    <3>1. \A c \in Held(Children(s, b)) : c \in DOMAIN h /\ Parent(s, c) = b
      BY <2>1 DEF Over
    <3>2. b # s.root /\ b # None
      BY <1>1
    <3> QED BY <1>1, <1>2, <1>3, <3>1, <3>2
  <2> QED BY <1>1, <2>1, <2>2, OverStays
<1>6. ASSUME NEW n \in DOMAIN g \ {t.root} PROVE Under(t, g, None, n)
  <2>1. Under(s, h, None, n)
    BY <1>1, <1>6 DEF Shape
  <2>2. Parent(s, n) # s.root
    BY <1>1, <1>6, <2>1 DEF Under
  <2>3. /\ SameContent(s, t, Parent(s, n)) /\ Parent(t, n) = Parent(s, n)
        /\ Parent(s, n) \in DOMAIN g \ {None}
    BY <1>1, <1>6, <2>1, <2>2 DEF Under, SamePlace
  <2> QED BY <2>1, <2>3, UnderStays
<1>7. Parent(t, t.root) = None /\ t.root \in DOMAIN g
  BY <1>1, <1>3
<1>8. \A n \in DOMAIN g : g[n] \in Nat /\ (IsLeaf(t, n) <=> g[n] = 0)
  BY <1>4 DEF Shape
<1> QED BY <1>1, <1>3, <1>5, <1>6, <1>7, <1>8 DEF Shape

LEMMA CreateRootIs ==
  ASSUME NEW s, IsTree(s), s.broken = FALSE, NEW n \in Ids(s), NEW f \in Ids(s), n # f,
         NonEmpty(s, n), NonEmpty(s, f)
  PROVE  /\ SameButRoot(s, CreateRoot(s, <<n, f>>))
         /\ NewBranch(s, CreateRoot(s, <<n, f>>), <<n, f>>, None)
         /\ CreateRoot(s, <<n, f>>).root = Fresh(s)
<1> DEFINE kids == <<n, f>>
           m == CreateBranchNode(s, kids, None)
           t == CreateRoot(s, kids)
<1>1. kids \in Seq(Nat) /\ Distinct(kids) /\ Held(kids) = {n, f} /\ None \in Nat
  <2>1. n \in Nat /\ f \in Nat
    BY NoneIsNoNode
  <2>2. kids \in Seq(Nat) /\ DOMAIN kids = {1, 2} /\ kids[1] = n /\ kids[2] = f
    BY <2>1
  <2> HIDE DEF kids
  <2> QED BY <2>2 DEF Distinct, Held, None
<1>2. t = [m EXCEPT !.root = Fresh(s)]
  BY DEF CreateRoot
<1> HIDE DEF kids
<1>3. SameButNodes(s, m) /\ NewBranch(s, m, kids, None)
  BY <1>1, CreateBranchNodeIs
<1> HIDE DEF m, t
<1>4. /\ t.nodes = m.nodes /\ t.root = Fresh(s) /\ IsTree(t) /\ t.todo = m.todo
      /\ t.broken = m.broken /\ t.entryCount = m.entryCount /\ SameCapacity(m, t)
  <2>1. IsTree(m)
    BY <1>3 DEF SameButNodes
  <2> QED BY <1>2, <2>1 DEF IsTree, SameCapacity
<1>5. SameButRoot(s, t)
  BY <1>3, <1>4 DEF SameButNodes, SameButRoot, SameCapacity
<1>6. NewBranch(s, t, kids, None)
  <2>1. Ids(t) = Ids(m)
    BY <1>4 DEF Ids
  <2>2. \A i : /\ IsLeaf(t, i) <=> IsLeaf(m, i)
               /\ Parent(t, i) = Parent(m, i) /\ Slot(t, i) = Slot(m, i)
               /\ Entries(t, i) = Entries(m, i)
               /\ Children(t, i) = Children(m, i) /\ Keys(t, i) = Keys(m, i)
               /\ Offset(t, i) = Offset(m, i)
    BY <1>4 DEF IsLeaf, Parent, Slot, Entries, Children, Keys, Offset
  <2>3. \A i : SameContent(s, m, i) => SameContent(s, t, i)
    BY <2>2 DEF SameContent
  <2>4. \A i : SamePlace(s, m, i) => SamePlace(s, t, i)
    BY <2>2 DEF SamePlace
  <2>5. Placed(t, Fresh(s)) <=> Placed(m, Fresh(s))
    BY <2>1, <2>2 DEF Placed
  <2> QED BY <1>3, <2>1, <2>2, <2>3, <2>4, <2>5 DEF NewBranch
<1> QED BY <1>4, <1>5, <1>6 DEF t, kids

(* What one node held is now in two. *)
LEMMA HalvedShape ==
  ASSUME NEW s, NEW h, Shape(s, h, None, None), NEW n \in DOMAIN h,
         NEW u, NEW f, SameButNodes(s, u), Halved(s, u, n, f),
         NEW g, DOMAIN g = DOMAIN h \union {f}, g[f] = h[n], \A m \in DOMAIN h : g[m] = h[m]
  PROVE  /\ Shape(u, g, f, None) /\ n # f
         /\ Parent(u, f) = Parent(s, n) /\ Parent(u, n) = Parent(s, n)
<1>1. /\ IsTree(u) /\ u.broken = FALSE /\ u.root = s.root
      /\ Ids(u) = Ids(s) \union {f} /\ f \notin Ids(s) /\ f # None
      /\ DOMAIN h \subseteq Ids(s) /\ None \notin DOMAIN h
      /\ IsLeaf(u, n) <=> IsLeaf(s, n)
      /\ IsLeaf(u, f) <=> IsLeaf(s, n)
      /\ Parent(u, f) = Parent(s, n)
      /\ \A m \in Ids(s) \ {n} : SameContent(s, u, m)
  BY NoneIsNoNode DEF Shape, Halved, SameButNodes
<1>2. f \notin DOMAIN h /\ n # f /\ n \in Ids(s)
  BY <1>1
<1>3. ~IsLeaf(s, n) => Over(s, h, None, n)
  BY <1>1 DEF Shape
<1>4. ~IsLeaf(s, n) =>
         /\ Placed(u, n) /\ Placed(u, f)
         /\ Held(Children(u, n)) \union Held(Children(u, f)) = Held(Children(s, n))
         /\ \A m \in Held(Children(u, n)) : Parent(u, m) = n
         /\ \A m \in Held(Children(u, f)) : Parent(u, m) = f
         /\ \A m \in Held(Children(s, n)) : m \in DOMAIN h /\ h[n] = h[m] + 1
  BY <1>3 DEF Halved, Over
<1>5. \A m \in DOMAIN h : Parent(s, m) # n => SamePlace(s, u, m)
  <2>1. CASE IsLeaf(s, n)
    BY <1>1, <2>1 DEF Halved
  <2>2. CASE ~IsLeaf(s, n)
    BY <1>1, <1>3, <2>2 DEF Halved, Over
  <2> QED BY <2>1, <2>2
<1>6. \A m \in DOMAIN g : IsLeaf(u, m) <=> g[m] = 0
  <2>1. \A m \in DOMAIN h : IsLeaf(u, m) <=> IsLeaf(s, m)
    BY <1>1 DEF SameContent
  <2> QED BY <1>1, <2>1 DEF Shape
<1>7. ASSUME NEW b \in DOMAIN g, ~IsLeaf(u, b) PROVE Over(u, g, f, b)
  <2>1. CASE b = n
    <3>1. \A c \in Held(Children(u, b)) : c \in DOMAIN g \ {f} /\ Parent(u, c) = b /\ g[b] = g[c] + 1
      BY <1>1, <1>2, <1>4, <1>7, <2>1
    <3> QED BY <1>1, <1>4, <1>7, <2>1, <3>1 DEF Over
  <2>2. CASE b = f
    <3>1. \A c \in Held(Children(u, b)) : c \in DOMAIN g \ {f} /\ Parent(u, c) = b /\ g[b] = g[c] + 1
      BY <1>1, <1>2, <1>4, <1>7, <2>2
    <3> QED BY <1>1, <1>4, <1>7, <2>2, <3>1 DEF Over
  <2>3. CASE b \notin {n, f}
    <3>1. Over(s, h, None, b) /\ SameContent(s, u, b) /\ g[b] = h[b]
      BY <1>1, <1>7, <2>3 DEF Shape, SameContent
    <3>2. \A c \in Held(Children(s, b)) : SamePlace(s, u, c) /\ c \in DOMAIN g \ {f} /\ g[c] = h[c]
      BY <1>2, <1>5, <2>3, <3>1 DEF Over
    <3> QED BY <1>1, <3>1, <3>2, OverStays
  <2> QED BY <2>1, <2>2, <2>3
<1>8. ASSUME NEW m \in DOMAIN g \ {u.root, f} PROVE Under(u, g, None, m)
  <2>1. Under(s, h, None, m) /\ m \in DOMAIN h
    BY <1>1, <1>8 DEF Shape
  <2>2. CASE Parent(s, m) = n
    <3>1. ~IsLeaf(s, n) /\ m \in Held(Children(s, n))
      BY <2>1, <2>2 DEF Under
    <3> QED BY <1>1, <1>4, <2>1, <3>1 DEF Under
  <2>3. CASE Parent(s, m) # n
    <3>1. /\ SameContent(s, u, Parent(s, m)) /\ Parent(u, m) = Parent(s, m)
          /\ Parent(s, m) \in DOMAIN g \ {None}
      BY <1>1, <1>5, <2>1, <2>3 DEF Under, SamePlace
    <3> QED BY <2>1, <3>1, UnderStays
  <2> QED BY <2>2, <2>3
<1>9. /\ u.root \in DOMAIN g \ {f, None} /\ Parent(u, u.root) = None
  <2>1. s.root \in DOMAIN h /\ Parent(s, s.root) = None /\ n # None
    BY <1>1 DEF Shape
  <2> QED BY <1>1, <1>5, <2>1 DEF SamePlace
<1>10. Parent(u, n) = Parent(s, n)
  <2>1. CASE IsLeaf(s, n)
    BY <1>2, <2>1 DEF Halved, SamePlace
  <2>2. CASE ~IsLeaf(s, n)
    <3>1. n \notin Held(Children(s, n))
      BY <1>3, <2>2, PlacedAreDistinct DEF Over, Shape
    <3> QED BY <1>2, <2>2, <3>1 DEF Halved, SamePlace
  <2> QED BY <2>1, <2>2
<1>11. \A m \in DOMAIN g : g[m] \in Nat
  BY DEF Shape
<1> QED BY <1>1, <1>2, <1>6, <1>7, <1>8, <1>9, <1>10, <1>11 DEF Shape

(* The two halves of the root are the children of another one. *)
LEMMA RaisedRootShape ==
  ASSUME NEW s, NEW h, NEW f \in DOMAIN h, Shape(s, h, f, None), Parent(s, f) = None,
         h[f] = h[s.root], NonEmpty(s, s.root), NonEmpty(s, f),
         NEW g, DOMAIN g = DOMAIN h \union {Fresh(s)}, g[Fresh(s)] = h[f] + 1,
         \A m \in DOMAIN h : g[m] = h[m]
  PROVE  /\ Shape(CreateRoot(s, <<s.root, f>>), g, None, None)
         /\ SameButRoot(s, CreateRoot(s, <<s.root, f>>))
         /\ NewBranch(s, CreateRoot(s, <<s.root, f>>), <<s.root, f>>, None)
         /\ CreateRoot(s, <<s.root, f>>).root = Fresh(s)
<1> DEFINE r == Fresh(s)
           n == s.root
           kids == <<n, f>>
           t == CreateRoot(s, kids)
<1>1. /\ IsTree(s) /\ s.broken = FALSE /\ n \in DOMAIN h \ {f} /\ Parent(s, n) = None
      /\ DOMAIN h \subseteq Ids(s) /\ None \notin DOMAIN h
  BY NoneIsNoNode DEF Shape
<1>2. SameButRoot(s, t) /\ NewBranch(s, t, kids, None) /\ t.root = r
  BY <1>1, CreateRootIs
<1>3. Held(kids) = {n, f}
  <2>1. DOMAIN kids = {1, 2} /\ kids[1] = n /\ kids[2] = f
    OBVIOUS
  <2> HIDE DEF kids
  <2> QED BY <2>1 DEF Held
<1> HIDE DEF kids, t, n, r
<1>4. /\ IsTree(t) /\ t.broken = FALSE
      /\ Ids(t) = Ids(s) \union {r} /\ r \notin Ids(s) /\ r # None
      /\ \A m \in Ids(s) : SameContent(s, t, m)
      /\ \A m \in Ids(s) \ {n, f} : SamePlace(s, t, m)
      /\ Parent(t, n) = r /\ Parent(t, f) = r
      /\ Placed(t, r) /\ Children(t, r) = kids /\ Parent(t, r) = None
  <2>1. \A m \in Held(kids) : Parent(t, m) = r
    BY <1>2 DEF NewBranch, Held, r
  <2> QED BY <1>1, <1>2, <1>3, <2>1 DEF SameButRoot, NewBranch, r
<1>5. \A m \in DOMAIN h : IsLeaf(t, m) <=> IsLeaf(s, m)
  BY <1>1, <1>4 DEF SameContent
<1>6. \A m \in DOMAIN g : g[m] \in Nat /\ (IsLeaf(t, m) <=> g[m] = 0)
  <2>1. g[r] = h[f] + 1 /\ h[f] \in Nat
    BY DEF Shape, r
  <2> QED BY <1>4, <1>5, <2>1 DEF Shape, Placed, r
<1>7. ASSUME NEW b \in DOMAIN g, ~IsLeaf(t, b) PROVE Over(t, g, None, b)
  <2>1. CASE b = r
    <3>1. \A c \in {n, f} : c \in DOMAIN g \ {None} /\ Parent(t, c) = r /\ g[r] = g[c] + 1
      BY <1>1, <1>4 DEF r, n
    <3> QED BY <1>3, <1>4, <2>1, <3>1 DEF Over
  <2>2. CASE b # r
    <3>1. Over(s, h, f, b) /\ SameContent(s, t, b) /\ g[b] = h[b] /\ b \in DOMAIN h
      BY <1>1, <1>4, <1>5, <1>7, <2>2 DEF Shape, r
    <3>2. \A c \in Held(Children(s, b)) : SamePlace(s, t, c) /\ c \in DOMAIN g \ {None} /\ g[c] = h[c]
      <4>1. \A c \in Held(Children(s, b)) : c \in DOMAIN h \ {f} /\ Parent(s, c) = b
        BY <3>1 DEF Over
      <4> QED BY <1>1, <1>4, <3>1, <4>1
    <3> QED BY <1>4, <3>1, <3>2, OverStays
  <2> QED BY <2>1, <2>2
<1>8. ASSUME NEW m \in DOMAIN g \ {t.root} PROVE Under(t, g, None, m)
  <2>1. m \in DOMAIN h
    BY <1>2, <1>8 DEF r
  <2>2. CASE m \in {n, f}
    <3>1. Parent(t, m) = r /\ r \in DOMAIN g \ {None} /\ ~IsLeaf(t, r) /\ m \in Held(kids)
      BY <1>3, <1>4, <2>2 DEF Placed, r
    <3> QED BY <1>4, <3>1 DEF Under
  <2>3. CASE m \notin {n, f}
    <3>1. Under(s, h, None, m)
      BY <2>1, <2>3 DEF Shape, n
    <3>2. /\ SameContent(s, t, Parent(s, m)) /\ Parent(t, m) = Parent(s, m)
          /\ Parent(s, m) \in DOMAIN g \ {None}
      BY <1>1, <1>4, <2>1, <2>3, <3>1 DEF Under, SamePlace
    <3> QED BY <3>1, <3>2, UnderStays
  <2> QED BY <2>2, <2>3
<1>9. Parent(t, t.root) = None /\ t.root \in DOMAIN g /\ DOMAIN g \subseteq Ids(t)
  BY <1>1, <1>2, <1>4 DEF r
<1>10. Shape(t, g, None, None)
  <2>1. None \notin DOMAIN g
    BY <1>1, <1>4 DEF r
  <2> QED BY <1>4, <1>6, <1>7, <1>8, <1>9, <2>1 DEF Shape
<1> QED BY <1>2, <1>10 DEF r, n, kids, t

(* How full the nodes are. *)

Caps(s) ==
    /\ s.maxLeafEntries \in Nat /\ s.maxLeafEntries >= InitialCapacity.maxLeaf
    /\ s.maxBranchChildren \in Nat /\ s.maxBranchChildren >= InitialCapacity.maxBranch
    /\ s.minLeafEntries = Half(s.maxLeafEntries)
    /\ s.minBranchChildren = Half(s.maxBranchChildren)

Low(s, n) == IF IsLeaf(s, n) THEN IF n = s.root THEN 0 ELSE Least.leaf
             ELSE IF n = s.root THEN 2 ELSE Least.branch
High(s, n) == IF IsLeaf(s, n) THEN s.maxLeafEntries ELSE s.maxBranchChildren

(* But for those of E, which may be short, and for the merged node y. *)
Filled(s, h, y, E) ==
    \A n \in DOMAIN h \ {y} : Count(s, n) <= High(s, n) /\ (n \notin E => Low(s, n) <= Count(s, n))

LEMMA LazyThresholdIs ==
  ASSUME NEW a \in Nat, NEW b \in Nat, 1 <= a, a <= b
  PROVE  /\ LazyThreshold(a) \in Nat /\ 1 <= LazyThreshold(a) /\ LazyThreshold(a) <= a
         /\ LazyThreshold(a) <= LazyThreshold(b)
BY DEF LazyThreshold

LEMMA InitialCapacityIs ==
  /\ InitialCapacity.maxLeaf \in Nat /\ InitialCapacity.maxLeaf >= 3
  /\ InitialCapacity.maxBranch \in Nat /\ InitialCapacity.maxBranch >= 3
<1>1. Tiers[1] \in [threshold : Nat, maxLeaf : Nat, maxBranch : Nat]
  <2> DEFINE T == [threshold : Nat, maxLeaf : Nat, maxBranch : Nat]
  <2>1. Tiers \in Seq(T) /\ Tiers # <<>>
    BY TiersAssumption
  <2> HIDE DEF T
  <2>2. Tiers[1] \in T
    BY <2>1
  <2> QED BY <2>2 DEF T
<1>2. Tiers[1].maxLeaf \in Nat /\ Tiers[1].maxBranch \in Nat
  BY <1>1
<1> QED BY <1>2, TiersAssumption, CapacityAssumption DEF InitialCapacity

LEMMA HalfGrows ==
  ASSUME NEW a \in Nat, NEW b \in Nat, a <= b
  PROVE  Half(a) <= Half(b)
BY DEF Half

LEMMA CapsAre ==
  ASSUME NEW s, Caps(s)
  PROVE  /\ s.maxLeafEntries \in Nat /\ s.minLeafEntries \in Nat
         /\ s.maxBranchChildren \in Nat /\ s.minBranchChildren \in Nat
         /\ 2 * s.minLeafEntries <= s.maxLeafEntries + 1 /\ s.minLeafEntries <= s.maxLeafEntries
         /\ 2 * s.minBranchChildren <= s.maxBranchChildren + 1
         /\ s.minBranchChildren <= s.maxBranchChildren
         /\ Least.leaf \in Nat /\ 1 <= Least.leaf /\ Least.leaf <= LeafRebalanceThreshold(s)
         /\ LeafRebalanceThreshold(s) \in Nat /\ LeafRebalanceThreshold(s) <= s.minLeafEntries
         /\ Least.branch \in Nat /\ 2 <= Least.branch /\ Least.branch <= s.minBranchChildren
         /\ s.minLeafEntries = Half(s.maxLeafEntries)
         /\ s.minBranchChildren = Half(s.maxBranchChildren)
<1> DEFINE first == InitialCapacity.maxLeaf
           wide == InitialCapacity.maxBranch
           ml == s.maxLeafEntries
           mb == s.maxBranchChildren
<1>1. /\ first \in Nat /\ first >= 3 /\ wide \in Nat /\ wide >= 3
      /\ ml \in Nat /\ mb \in Nat /\ first <= ml /\ wide <= mb
      /\ s.minLeafEntries = Half(ml) /\ s.minBranchChildren = Half(mb)
  BY InitialCapacityIs DEF Caps
<1>2. /\ Least.leaf = IF DeleteRebalancePolicy = "lazy" THEN LazyThreshold(Half(first)) ELSE Half(first)
      /\ Least.branch = Half(wide)
      /\ LeafRebalanceThreshold(s) = IF DeleteRebalancePolicy = "lazy"
                                     THEN LazyThreshold(Half(ml)) ELSE Half(ml)
  BY <1>1 DEF Least, LeafRebalanceThreshold
<1> HIDE DEF first, wide, ml, mb
<1>3. /\ Half(first) \in Nat /\ 2 <= Half(first) /\ Half(first) <= Half(ml) /\ Half(ml) \in Nat
      /\ Half(wide) \in Nat /\ 2 <= Half(wide) /\ Half(wide) <= Half(mb) /\ Half(mb) \in Nat
      /\ 2 * Half(ml) <= ml + 1 /\ 2 * Half(mb) <= mb + 1
      /\ Half(ml) <= ml /\ Half(mb) <= mb
  <2>1. /\ Half(first) \in Nat /\ 2 * Half(first) >= first
        /\ Half(wide) \in Nat /\ 2 * Half(wide) >= wide
        /\ Half(ml) \in Nat /\ 2 * Half(ml) <= ml + 1
        /\ Half(mb) \in Nat /\ 2 * Half(mb) <= mb + 1
    BY <1>1, HalfIs
  <2>2. Half(first) <= Half(ml) /\ Half(wide) <= Half(mb)
    BY <1>1, HalfGrows
  <2> QED BY <1>1, <2>1, <2>2
<1> DEFINE lf == Half(first)
           lm == Half(ml)
<1>4. /\ LazyThreshold(lf) \in Nat /\ 1 <= LazyThreshold(lf) /\ LazyThreshold(lf) <= LazyThreshold(lm)
      /\ LazyThreshold(lm) \in Nat /\ LazyThreshold(lm) <= lm
  <2>1. lf \in Nat /\ lm \in Nat /\ 1 <= lf /\ lf <= lm /\ 1 <= lm
    BY <1>3
  <2> HIDE DEF lf, lm
  <2>2. /\ LazyThreshold(lf) \in Nat /\ 1 <= LazyThreshold(lf) /\ LazyThreshold(lf) <= lf
        /\ LazyThreshold(lf) <= LazyThreshold(lm)
    BY <2>1, LazyThresholdIs
  <2>3. LazyThreshold(lm) \in Nat /\ LazyThreshold(lm) <= lm
    BY <2>1, LazyThresholdIs
  <2> QED BY <2>2, <2>3
<1> QED BY <1>1, <1>2, <1>3, <1>4 DEF ml, mb, lf, lm

LEMMA SameCapacityIs ==
  ASSUME NEW s, NEW t, SameCapacity(s, t)
  PROVE  /\ Caps(s) => Caps(t)
         /\ t.maxLeafEntries = s.maxLeafEntries /\ t.minLeafEntries = s.minLeafEntries
         /\ t.maxBranchChildren = s.maxBranchChildren
         /\ t.minBranchChildren = s.minBranchChildren
         /\ LeafRebalanceThreshold(t) = LeafRebalanceThreshold(s)
BY DEF SameCapacity, Caps, LeafRebalanceThreshold

LEMMA SameContentCounts ==
  ASSUME NEW s, NEW t, NEW n, SameContent(s, t, n)
  PROVE  Count(t, n) = Count(s, n) /\ (IsLeaf(t, n) <=> IsLeaf(s, n))
BY DEF SameContent, Count

LEMMA CountIs ==
  ASSUME NEW s, IsTree(s), NEW n \in Ids(s)
  PROVE  Count(s, n) \in Nat
BY NodesAre DEF Count

(* A step after which every node is as full as before. *)
LEMMA FilledStays ==
  ASSUME NEW s, NEW t, NEW h, NEW y, NEW E, Filled(s, h, y, E), SameCapacity(s, t),
         t.root = s.root,
         \A n \in DOMAIN h \ {y} : Count(t, n) = Count(s, n) /\ (IsLeaf(t, n) <=> IsLeaf(s, n))
  PROVE  Filled(t, h, y, E)
BY DEF Filled, Low, High, SameCapacity

(* The nodes other than the root hold something. *)
LEMMA NoneIsEmpty ==
  ASSUME NEW s, NEW h, NEW x, NEW y, Shape(s, h, x, y), Caps(s), NEW E, Filled(s, h, y, E),
         NEW n \in DOMAIN h \ {s.root, y}, n \notin E
  PROVE  NonEmpty(s, n)
<1>1. IsTree(s) /\ n \in Ids(s)
  BY DEF Shape
<1>2. /\ Least.leaf \in Nat /\ 1 <= Least.leaf /\ Least.branch \in Nat /\ 2 <= Least.branch
  BY CapsAre
<1>3. Low(s, n) <= Count(s, n) /\ Count(s, n) \in Nat
  BY <1>1, CountIs DEF Filled
<1>4. CASE IsLeaf(s, n)
  <2>1. Len(Entries(s, n)) >= 1
    BY <1>2, <1>3, <1>4 DEF Low, Count
  <2> QED BY <1>1, <1>4, <2>1, NonEmptyIs
<1>5. CASE ~IsLeaf(s, n)
  <2>1. Len(Children(s, n)) >= 1
    BY <1>2, <1>3, <1>5 DEF Low, Count
  <2>2. Len(Keys(s, n)) = Len(Children(s, n))
    BY <1>5 DEF Shape, Over, Placed
  <2> QED BY <1>1, <1>5, <2>1, <2>2, NonEmptyIs
<1> QED BY <1>4, <1>5

-----------------------------------------------------------------------------
(* The children of one parent. *)

LEMMA ParentIs ==
  ASSUME NEW s, NEW h, Shape(s, h, None, None), NEW n \in DOMAIN h \ {s.root}
  PROVE  /\ Parent(s, n) \in DOMAIN h \ {n, None} /\ ~IsLeaf(s, Parent(s, n))
         /\ Over(s, h, None, Parent(s, n)) /\ n \in Held(Children(s, Parent(s, n)))
         /\ h[Parent(s, n)] = h[n] + 1
<1>1. Under(s, h, None, n) /\ None \notin DOMAIN h
  BY NoneIsNoNode DEF Shape
<1>2. Over(s, h, None, Parent(s, n))
  BY <1>1 DEF Shape, Under
<1>3. h[Parent(s, n)] = h[n] + 1 /\ h[n] \in Nat
  BY <1>1, <1>2 DEF Under, Over, Shape
<1> QED BY <1>1, <1>2, <1>3 DEF Under

LEMMA SiblingIs ==
  ASSUME NEW s, NEW h, Shape(s, h, None, None), NEW n \in DOMAIN h \ {s.root},
         NEW distance \in {-1, 1}
  PROVE  \/ Sibling(s, n, distance) = None
         \/ /\ Sibling(s, n, distance) \in DOMAIN h \ {n, s.root}
            /\ Parent(s, Sibling(s, n, distance)) = Parent(s, n)
            /\ h[Sibling(s, n, distance)] = h[n]
            /\ IsLeaf(s, Sibling(s, n, distance)) <=> IsLeaf(s, n)
<1> DEFINE p == Parent(s, n)
           kids == Children(s, p)
           c == Sibling(s, n, distance)
<1>1. /\ IsTree(s) /\ p \in DOMAIN h \ {n, None} /\ Over(s, h, None, p) /\ n \in Held(kids)
      /\ h[p] = h[n] + 1 /\ Parent(s, s.root) = None
  <2>1. IsTree(s) /\ Parent(s, s.root) = None
    BY DEF Shape
  <2> QED BY <2>1, ParentIs
<1>2. PICK i \in DOMAIN kids : kids[i] = n
  BY <1>1 DEF Held
<1>3. Position(s, n) = i
  <2>1. Placed(s, p) /\ Parent(s, kids[i]) = p
    BY <1>1, <1>2 DEF Over
  <2> QED BY <1>1, <1>2, <2>1, PositionIs
<1>4. c = IF i + distance \in DOMAIN kids THEN kids[i + distance] ELSE None
  BY <1>3 DEF Sibling
<1>5. Distinct(kids) /\ kids \in Seq(Nat)
  BY <1>1, PlacedAreDistinct, NodesAre DEF Over, Placed
<1> HIDE DEF c
<1>6. CASE i + distance \in DOMAIN kids
  <2> DEFINE j == i + distance
  <2>1. j # i /\ j \in DOMAIN kids /\ c = kids[j]
    BY <1>2, <1>4, <1>5, <1>6
  <2> HIDE DEF j, kids, p
  <2>2. c # n /\ c \in Held(kids)
    BY <1>2, <1>5, <2>1 DEF Distinct, Held
  <2>3. c \in DOMAIN h /\ Parent(s, c) = p /\ h[p] = h[c] + 1
    BY <1>1, <2>2 DEF Over, kids
  <2>4. h[c] \in Nat /\ h[n] \in Nat /\ (IsLeaf(s, c) <=> h[c] = 0) /\ (IsLeaf(s, n) <=> h[n] = 0)
    BY <2>3 DEF Shape
  <2>5. c # s.root
    BY <1>1, <2>3
  <2> QED BY <1>1, <2>2, <2>3, <2>4, <2>5 DEF c, p
<1>7. CASE i + distance \notin DOMAIN kids
  BY <1>4, <1>7 DEF c
<1> QED BY <1>6, <1>7

LEMMA ThereIsASibling ==
  ASSUME NEW s, NEW h, Shape(s, h, None, None), NEW n \in DOMAIN h \ {s.root},
         Len(Children(s, Parent(s, n))) >= 2
  PROVE  Sibling(s, n, -1) # None \/ Sibling(s, n, 1) # None
<1> DEFINE p == Parent(s, n)
           kids == Children(s, p)
<1>1. /\ IsTree(s) /\ p \in DOMAIN h \ {n, None} /\ Over(s, h, None, p) /\ n \in Held(kids)
  BY ParentIs DEF Shape
<1>2. PICK i \in DOMAIN kids : kids[i] = n
  BY <1>1 DEF Held
<1>3. Position(s, n) = i
  <2>1. Placed(s, p) /\ Parent(s, kids[i]) = p
    BY <1>1, <1>2 DEF Over
  <2> QED BY <1>1, <1>2, <2>1, PositionIs
<1>4. kids \in Seq(Nat) /\ DOMAIN kids = 1..Len(kids) /\ Len(kids) \in Nat
  BY <1>1, NodesAre DEF Over, Placed
<1>5. \A j \in DOMAIN kids : kids[j] # None
  <2>1. None \notin Ids(s)
    BY <1>1, NoneIsNoNode
  <2> QED BY <1>1, <2>1 DEF Over, Placed
<1>6. /\ Sibling(s, n, -1) = IF i + (-1) \in DOMAIN kids THEN kids[i + (-1)] ELSE None
      /\ Sibling(s, n, 1) = IF i + 1 \in DOMAIN kids THEN kids[i + 1] ELSE None
  BY <1>3 DEF Sibling
<1>7. Len(kids) >= 2
  OBVIOUS
<1> HIDE DEF kids, p
<1>8. i + (-1) \in DOMAIN kids \/ i + 1 \in DOMAIN kids
  BY <1>2, <1>4, <1>7
<1> QED BY <1>5, <1>6, <1>8

LEMMA SiblingBranches ==
  ASSUME NEW s, NEW h, Shape(s, h, None, None), NEW b \in DOMAIN h, NEW c \in DOMAIN h, b # c,
         ~IsLeaf(s, b), ~IsLeaf(s, c), h[b] = h[c],
         \A n \in DOMAIN h \ {s.root} : NonEmpty(s, n)
  PROVE  Siblings(s, b, c)
<1>1. IsTree(s) /\ Over(s, h, None, b) /\ Over(s, h, None, c) /\ None \notin DOMAIN h
      /\ Parent(s, s.root) = None
  BY NoneIsNoNode DEF Shape
<1>2. \A n \in Held(Children(s, b)) : n \in DOMAIN h /\ Parent(s, n) = b /\ h[b] = h[n] + 1 /\ h[n] \in Nat
  BY <1>1 DEF Over, Shape
<1>3. \A n \in Held(Children(s, c)) : n \in DOMAIN h /\ Parent(s, n) = c /\ h[c] = h[n] + 1 /\ h[n] \in Nat
  BY <1>1 DEF Over, Shape
<1>4. b \notin Held(Children(s, c)) /\ c \notin Held(Children(s, b))
  BY <1>2, <1>3
<1>5. Held(Children(s, b)) \intersect Held(Children(s, c)) = {}
  BY <1>2, <1>3
<1>6. \A n \in Held(Children(s, b)) \union Held(Children(s, c)) : NonEmpty(s, n)
  BY <1>1, <1>2, <1>3
<1> QED BY <1>1, <1>4, <1>5, <1>6 DEF Siblings, Over

(* What a step that takes nodes out does to the nodes that are not live, and  *)
(* to the entries of any leaf.                                               *)
Frame(s, h, t, g, y) ==
    /\ Ids(t) = Ids(s)
    /\ \A n \in Ids(s) : /\ IsLeaf(t, n) <=> IsLeaf(s, n)
                         /\ IsLeaf(s, n) => Entries(t, n) = Entries(s, n)
    /\ \A n \in Ids(s) \ DOMAIN h : Parent(t, n) = Parent(s, n)
    /\ \A n \in Ids(s) : ~IsLeaf(s, n) /\ (n \notin DOMAIN g \/ n = y) =>
          Children(t, n) = Children(s, n)

(* The tree t, where at most the merged node y is left to be taken out. *)
Outcome(s, h, t, g, y, E) ==
    /\ Shape(t, g, None, y) /\ SameCapacity(s, t) /\ Filled(t, g, y, E)
    /\ y # None => y \in DOMAIN g \ {t.root}
    /\ t.todo = IF y = None THEN Nothing ELSE ToRemove(y)
    /\ t.root = s.root \/ ~IsLeaf(s, s.root)
    /\ Frame(s, h, t, g, y)

LEMMA SameHeights ==
  ASSUME NEW s, NEW h, NEW x, NEW y, Shape(s, h, x, y),
         NEW g, DOMAIN g = DOMAIN h, \A n \in DOMAIN h : g[n] = h[n]
  PROVE  Shape(s, g, x, y)
<1>1. \A b \in DOMAIN h : Over(s, h, x, b) => Over(s, g, x, b)
  BY DEF Over
<1>2. \A n : Under(s, h, y, n) => Under(s, g, y, n)
  BY DEF Under
<1> QED BY <1>1, <1>2 DEF Shape

LEMMA SameOutcome ==
  ASSUME NEW s, NEW h, NEW t, NEW y, NEW E, NEW k, Outcome(s, h, t, k, y, E),
         NEW g, DOMAIN g = DOMAIN k, \A n \in DOMAIN k : g[n] = k[n]
  PROVE  Outcome(s, h, t, g, y, E)
<1>1. Shape(t, g, None, y)
  BY SameHeights DEF Outcome
<1>2. Filled(t, g, y, E) /\ Frame(s, h, t, g, y)
  BY DEF Outcome, Filled, Frame
<1> QED BY <1>1, <1>2 DEF Outcome

LEMMA UnchangedOutcome ==
  ASSUME NEW s, NEW h, Shape(s, h, None, None), s.todo = Nothing, NEW E, Filled(s, h, None, E)
  PROVE  Outcome(s, h, s, h, None, E)
BY DEF Outcome, Frame, SameCapacity

LEMMA BorrowedOutcome ==
  ASSUME NEW s, NEW h, Shape(s, h, None, None), Caps(s), s.todo = Nothing,
         NEW E, \A n \in E \intersect DOMAIN h : IsLeaf(s, n),
         NEW b \in DOMAIN h \ {s.root}, NEW from \in DOMAIN h \ {s.root}, b # from,
         ~IsLeaf(s, b), ~IsLeaf(s, from), h[b] = h[from], Filled(s, h, None, E \union {b}),
         Least.branch - 1 <= Len(Children(s, b)), Len(Children(s, b)) < s.minBranchChildren,
         Len(Children(s, from)) > s.minBranchChildren,
         NEW t, NEW child, Borrows(s, t, b, from, child)
  PROVE  Outcome(s, h, t, h, None, E)
<1>1. Shape(t, h, None, None)
  BY BorrowedShape
<1>2. /\ t.root = s.root /\ t.todo = Nothing /\ Ids(t) = Ids(s) /\ SameCapacity(s, t)
      /\ DOMAIN h \subseteq Ids(s) /\ None \notin DOMAIN h /\ IsTree(s) /\ IsTree(t)
  BY NoneIsNoNode DEF Shape, Borrows, SameButNodes
<1>3. \A n \in Ids(s) \ {b, from} : SameContent(s, t, n)
  BY DEF Borrows
<1>4. ~IsLeaf(t, b) /\ ~IsLeaf(t, from)
  BY DEF Borrows, Placed
<1>5. ASSUME NEW n \in DOMAIN h
      PROVE  Count(t, n) <= High(t, n) /\ (n \notin E => Low(t, n) <= Count(t, n))
  <2>1. CASE n \notin {b, from}
    <3>1. Count(t, n) = Count(s, n) /\ (IsLeaf(t, n) <=> IsLeaf(s, n))
      BY <1>2, <1>3, <2>1, SameContentCounts
    <3>2. Count(s, n) <= High(s, n) /\ (n \notin E => Low(s, n) <= Count(s, n))
      BY <1>2, <2>1 DEF Filled
    <3> QED BY <1>2, <3>1, <3>2 DEF Low, High, SameCapacity
  <2> DEFINE cb == Len(Children(s, b))
             cf == Len(Children(s, from))
  <2>2. /\ cb \in Nat /\ cf \in Nat /\ cf <= s.maxBranchChildren
        /\ Least.branch - 1 <= cb /\ cb < s.minBranchChildren /\ cf > s.minBranchChildren
    <3>1. Count(s, b) \in Nat /\ Count(s, from) \in Nat
      BY <1>2, CountIs
    <3>2. Count(s, from) <= High(s, from)
      BY <1>2 DEF Filled
    <3> QED BY <3>1, <3>2 DEF Count, High
  <2>3. /\ s.maxBranchChildren \in Nat /\ s.minBranchChildren \in Nat /\ Least.branch \in Nat
        /\ s.minBranchChildren <= s.maxBranchChildren /\ Least.branch <= s.minBranchChildren
    BY CapsAre
  <2>4. CASE n = b
    <3>1. Count(t, n) = cb + 1 /\ High(t, n) = s.maxBranchChildren /\ Low(t, n) = Least.branch
      BY <1>2, <1>4, <2>4 DEF Borrows, Count, High, Low, SameCapacity
    <3> HIDE DEF cb, cf
    <3> QED BY <2>2, <2>3, <3>1
  <2>5. CASE n = from
    <3>1. Count(t, n) = cf - 1 /\ High(t, n) = s.maxBranchChildren /\ Low(t, n) = Least.branch
      BY <1>2, <1>4, <2>5 DEF Borrows, Count, High, Low, SameCapacity
    <3> HIDE DEF cb, cf
    <3> QED BY <2>2, <2>3, <3>1
  <2> QED BY <2>1, <2>4, <2>5
<1>6. Filled(t, h, None, E)
  BY <1>5 DEF Filled
<1>7. Frame(s, h, t, h, None)
  <2>1. \A n \in Ids(s) : /\ IsLeaf(t, n) <=> IsLeaf(s, n)
                          /\ IsLeaf(s, n) => Entries(t, n) = Entries(s, n)
    BY <1>3, <1>4 DEF SameContent
  <2>2. child \in DOMAIN h
    <3>1. Over(s, h, None, from)
      BY <1>2 DEF Shape
    <3> QED BY <3>1 DEF Over, Borrows
  <2>3. \A n \in Ids(s) \ DOMAIN h : Parent(t, n) = Parent(s, n)
    BY <2>2 DEF Borrows
  <2>4. \A n \in Ids(s) \ DOMAIN h : SameContent(s, t, n)
    BY <1>3
  <2>5. None \notin Ids(s)
    BY <1>2, NoneIsNoNode
  <2> QED BY <1>2, <2>1, <2>3, <2>4, <2>5 DEF Frame, SameContent
<1> QED BY <1>1, <1>2, <1>6, <1>7 DEF Outcome

LEMMA MergedOutcome ==
  ASSUME NEW s, NEW h, Shape(s, h, None, None), Caps(s),
         NEW E, \A n \in E \intersect DOMAIN h : IsLeaf(s, n),
         NEW from \in DOMAIN h \ {s.root}, NEW into \in DOMAIN h \ {s.root}, into # from,
         ~IsLeaf(s, into), ~IsLeaf(s, from), h[into] = h[from],
         NEW b \in {from, into}, Filled(s, h, None, E \union {b}),
         Len(Children(s, b)) < s.minBranchChildren,
         \A c \in {from, into} \ {b} : Len(Children(s, c)) <= s.minBranchChildren,
         NEW m, MovesAll(s, m, from, into)
  PROVE  Outcome(s, h, [m EXCEPT !.todo = ToRemove(from)], h, from, E)
<1> DEFINE t == [m EXCEPT !.todo = ToRemove(from)]
<1>0. IsTree(m) /\ IsTree(s) /\ m.broken = FALSE /\ m.root = s.root /\ SameCapacity(s, m)
      /\ Ids(m) = Ids(s) /\ DOMAIN h \subseteq Ids(s) /\ None \notin DOMAIN h
  BY NoneIsNoNode DEF Shape, MovesAll, SameButNodes
<1>1. /\ IsTree(t) /\ t.nodes = m.nodes /\ t.root = m.root /\ t.todo = ToRemove(from)
      /\ t.broken = m.broken /\ SameCapacity(m, t)
  <2> DEFINE rest == ToRemove(from)
  <2> HIDE DEF rest
  <2>1. LET u == [m EXCEPT !.todo = rest]
        IN  /\ IsTree(u) /\ u.nodes = m.nodes /\ u.root = m.root /\ u.todo = rest
            /\ u.broken = m.broken /\ SameCapacity(m, u)
    BY <1>0, TodoIs
  <2> QED BY <2>1 DEF rest
<1> HIDE DEF t
<1>2. Shape(t, h, None, from)
  <2>1. Shape(m, h, None, from)
    BY MergedBranchShape
  <2> QED BY <1>1, <2>1, TodoShape
<1>3. \A n : /\ IsLeaf(t, n) <=> IsLeaf(m, n)
             /\ Parent(t, n) = Parent(m, n) /\ Entries(t, n) = Entries(m, n)
             /\ Children(t, n) = Children(m, n) /\ Count(t, n) = Count(m, n)
  BY <1>1 DEF IsLeaf, Parent, Entries, Children, Count
<1>4. \A n \in Ids(s) \ {into} : SameContent(s, m, n)
  BY DEF MovesAll
<1>5. ~IsLeaf(m, into)
  BY DEF MovesAll, Placed
<1>6. ASSUME NEW n \in DOMAIN h \ {from}
      PROVE  Count(t, n) <= High(t, n) /\ (n \notin E => Low(t, n) <= Count(t, n))
  <2>0. t.maxLeafEntries = s.maxLeafEntries /\ t.maxBranchChildren = s.maxBranchChildren /\ t.root = s.root
    BY <1>0, <1>1 DEF SameCapacity
  <2>1. CASE n # into
    <3>1. Count(t, n) = Count(s, n) /\ (IsLeaf(t, n) <=> IsLeaf(s, n))
      BY <1>0, <1>3, <1>4, <2>1, SameContentCounts
    <3>2. Count(s, n) <= High(s, n) /\ (n \notin E => Low(s, n) <= Count(s, n))
      BY <1>0, <2>1 DEF Filled
    <3> QED BY <2>0, <3>1, <3>2 DEF Low, High
  <2>2. CASE n = into
    <3> DEFINE cf == Len(Children(s, from))
               ci == Len(Children(s, into))
    <3>1. cf \in Nat /\ ci \in Nat
      BY <1>0, CountIs DEF Count
    <3>2. cf + ci < 2 * s.minBranchChildren
      BY <3>1, CapsAre
    <3>3. Least.branch <= cf + ci
      <4>1. PICK c \in {from, into} : c # b
        OBVIOUS
      <4>2. c \notin E /\ c \in DOMAIN h \ {None}
        BY <1>0
      <4>3. Low(s, c) <= Count(s, c)
        BY <4>1, <4>2 DEF Filled
      <4>4. Least.branch <= Len(Children(s, c)) /\ Least.branch \in Nat
        BY <4>3, CapsAre DEF Low, Count
      <4> QED BY <3>1, <4>4
    <3>4. Count(t, n) = ci + cf /\ High(t, n) = s.maxBranchChildren /\ Low(t, n) = Least.branch
      BY <1>3, <1>5, <2>0, <2>2 DEF MovesAll, Count, High, Low
    <3> HIDE DEF cf, ci
    <3> QED BY <3>1, <3>2, <3>3, <3>4, CapsAre
  <2> QED BY <2>1, <2>2
<1>7. Filled(t, h, from, E)
  BY <1>6 DEF Filled
<1>8. Frame(s, h, t, h, from)
  <2>1. \A n \in Ids(s) : /\ IsLeaf(t, n) <=> IsLeaf(s, n)
                          /\ IsLeaf(s, n) => Entries(t, n) = Entries(s, n)
    BY <1>3, <1>4, <1>5 DEF SameContent
  <2>2. Held(Children(s, from)) \subseteq DOMAIN h
    <3>1. Over(s, h, None, from)
      BY <1>0 DEF Shape
    <3> QED BY <3>1 DEF Over
  <2>3. \A n \in Ids(s) \ DOMAIN h : Parent(t, n) = Parent(s, n)
    BY <1>3, <2>2 DEF MovesAll, SamePlace
  <2>4. \A n \in (Ids(s) \ DOMAIN h) \union {from} : SameContent(s, m, n)
    BY <1>0, <1>4
  <2> QED BY <1>0, <1>1, <1>3, <2>1, <2>3, <2>4 DEF Frame, SameContent, Ids
<1>9. SameCapacity(s, t)
  BY <1>0, <1>1 DEF SameCapacity
<1>10. Outcome(s, h, t, h, from, E)
  <2>1. from # None /\ from \in DOMAIN h \ {t.root}
    BY <1>0, <1>1
  <2>2. t.root = s.root
    BY <1>0, <1>1
  <2> HIDE DEF t
  <2> QED BY <1>1, <2>2, <1>2, <1>7, <1>8, <1>9, <2>1 DEF Outcome
<1> QED BY <1>10 DEF t

LEMMA CollapsedOutcome ==
  ASSUME NEW s, NEW h, Shape(s, h, None, None), Caps(s), s.todo = Nothing,
         NEW E, \A n \in E \intersect DOMAIN h : IsLeaf(s, n),
         ~IsLeaf(s, s.root), Len(Children(s, s.root)) = 1, Filled(s, h, None, E \union {s.root}),
         NEW t, t = CollapseRoot(s, s.root),
         NEW g, DOMAIN g = DOMAIN h \ {s.root}, \A n \in DOMAIN g : g[n] = h[n]
  PROVE  Outcome(s, h, t, g, None, E) /\ t.root \in DOMAIN h \ {s.root}
<1> DEFINE only == Head(Children(s, s.root))
<1>1. IsTree(s) /\ Over(s, h, None, s.root) /\ s.root \in DOMAIN h \ {None} /\ DOMAIN h \subseteq Ids(s)
      /\ None \notin DOMAIN h
  BY NoneIsNoNode DEF Shape
<1>2. Collapses(s, t, only) /\ Held(Children(s, s.root)) = {only}
  <2>1. Placed(s, s.root)
    BY <1>1 DEF Over
  <2>2. Children(s, s.root) \in Seq(Nat)
    BY <1>1, NodesAre
  <2>3. only = Children(s, s.root)[1] /\ DOMAIN Children(s, s.root) = {1}
    BY <2>2
  <2>4. Held(Children(s, s.root)) = {only}
    <3> HIDE DEF only
    <3> QED BY <2>3 DEF Held
  <2> QED BY <1>1, <2>1, <2>4, CollapseRootIs
<1> HIDE DEF only
<1>3. Shape(t, g, None, None) /\ only \in DOMAIN h \ {s.root}
  BY <1>2, CollapsedShape
<1>4. /\ t.root = only /\ t.todo = Nothing /\ SameCapacity(s, t) /\ Ids(t) = Ids(s)
      /\ \A n \in Ids(s) : SameContent(s, t, n)
      /\ \A n \in Ids(s) \ {only} : Parent(t, n) = Parent(s, n)
  BY <1>2 DEF Collapses, SameButRoot
<1>5. ASSUME NEW n \in DOMAIN g
      PROVE  Count(t, n) <= High(t, n) /\ (n \notin E => Low(t, n) <= Count(t, n))
  <2>1. Count(t, n) = Count(s, n) /\ (IsLeaf(t, n) <=> IsLeaf(s, n)) /\ n \in DOMAIN h \ {s.root}
    BY <1>1, <1>4, SameContentCounts
  <2>2. Count(s, n) <= High(s, n) /\ (n \notin E => Low(s, n) <= Count(s, n))
    BY <1>1, <2>1 DEF Filled
  <2>3. High(t, n) = High(s, n)
    BY <1>4, <2>1 DEF High, SameCapacity
  <2>4. CASE n # only
    BY <1>4, <2>1, <2>2, <2>3, <2>4 DEF Low
  <2>5. CASE n = only /\ IsLeaf(s, n)
    <3>1. Low(t, n) = 0 /\ Count(s, n) \in Nat
      BY <1>1, <1>4, <2>1, <2>5, CountIs DEF Low
    <3> QED BY <2>1, <2>2, <2>3, <3>1
  <2>6. CASE n = only /\ ~IsLeaf(s, n)
    <3>1. n \notin E /\ Low(t, n) = 2 /\ Low(s, n) = Least.branch /\ Count(s, n) \in Nat
      BY <1>1, <1>4, <2>1, <2>6, CountIs DEF Low
    <3>2. 2 <= Least.branch /\ Least.branch \in Nat
      BY CapsAre
    <3> QED BY <2>1, <2>2, <2>3, <3>1, <3>2
  <2> QED BY <2>4, <2>5, <2>6
<1>6. Filled(t, g, None, E)
  BY <1>5 DEF Filled
<1>7. Frame(s, h, t, g, None)
  BY <1>3, <1>4 DEF Frame, SameContent
<1> QED BY <1>3, <1>4, <1>6, <1>7 DEF Outcome

(* Branch p lost a child. *)
LEMMA RebalancedBranchIs ==
  ASSUME NEW s, NEW h, Shape(s, h, None, None), Caps(s), s.todo = Nothing,
         NEW E, \A n \in E \intersect DOMAIN h : IsLeaf(s, n) /\ NonEmpty(s, n),
         NEW p \in DOMAIN h, ~IsLeaf(s, p), Filled(s, h, None, E \union {p}),
         Low(s, p) - 1 <= Count(s, p),
         NEW t, t = RebalanceAfterBranchRemoval(s, p),
         NEW g, DOMAIN g = DOMAIN h \ {n \in DOMAIN h : n = s.root /\ t.root \in DOMAIN h \ {n}},
         \A n \in DOMAIN g : g[n] = h[n]
  PROVE  \E y : Outcome(s, h, t, g, y, E)
<1> DEFINE left == Sibling(s, p, -1)
           right == Sibling(s, p, 1)
           Spares(n) == n # None /\ Len(Children(s, n)) > s.minBranchChildren
           len == Len(Children(s, p))
<1>1. /\ IsTree(s) /\ s.root \in DOMAIN h \ {None} /\ DOMAIN h \subseteq Ids(s)
      /\ None \notin DOMAIN h /\ p \notin E
  BY NoneIsNoNode DEF Shape
<1>2. /\ len \in Nat /\ Count(s, p) = len /\ Low(s, p) = IF p = s.root THEN 2 ELSE Least.branch
  BY <1>1, CountIs DEF Count, Low
<1>3. /\ Least.branch \in Nat /\ 2 <= Least.branch /\ Least.branch <= s.minBranchChildren
      /\ s.minBranchChildren \in Nat
  BY CapsAre
<1>4. ASSUME Low(s, p) <= Count(s, p) PROVE Filled(s, h, None, E)
  BY <1>4 DEF Filled
<1>5. ASSUME t.root = s.root PROVE DOMAIN g = DOMAIN h /\ \A n \in DOMAIN h : g[n] = h[n]
  BY <1>5
<1>6. CASE p = s.root
  <2>1. t = CollapseRoot(s, p)
    BY <1>6 DEF RebalanceAfterBranchRemoval
  <2>2. CASE len = 1
    <3> DEFINE k == [n \in DOMAIN h \ {s.root} |-> h[n]]
    <3>1. DOMAIN k = DOMAIN h \ {s.root} /\ \A n \in DOMAIN k : k[n] = h[n]
      OBVIOUS
    <3> HIDE DEF k
    <3>2. t.root \in DOMAIN h \ {s.root}
      BY <1>6, <2>1, <2>2, <3>1, CollapsedOutcome
    <3>3. DOMAIN g = DOMAIN h \ {s.root}
      BY <1>1, <3>2
    <3> QED BY <1>6, <2>1, <2>2, <3>3, CollapsedOutcome
  <2>3. CASE len # 1
    <3>1. t = s
      BY <1>6, <2>1, <2>3 DEF CollapseRoot
    <3>2. Filled(s, h, None, E)
      <4>1. 1 <= len
        BY <1>2, <1>6
      <4> HIDE DEF len
      <4>2. 2 <= len
        BY <1>2, <2>3, <4>1
      <4> QED BY <1>2, <1>4, <1>6, <4>2
    <3>3. Outcome(s, h, t, h, None, E)
      BY <3>1, <3>2, UnchangedOutcome
    <3> QED BY <1>5, <3>1, <3>3, SameOutcome
  <2> QED BY <2>2, <2>3
<1>7. CASE p # s.root /\ len >= s.minBranchChildren
  <2>1. t = s
    BY <1>7 DEF RebalanceAfterBranchRemoval
  <2>2. Filled(s, h, None, E)
    BY <1>2, <1>3, <1>4, <1>7
  <2>3. Outcome(s, h, t, h, None, E)
    BY <2>1, <2>2, UnchangedOutcome
  <2> QED BY <1>5, <2>1, <2>3, SameOutcome
<1>8. CASE p # s.root /\ ~(len >= s.minBranchChildren)
  <2>1. t = CASE Spares(right) -> BorrowFromRightBranch(s, p, right)
              [] ~Spares(right) /\ Spares(left) -> BorrowFromLeftBranch(s, p, left)
              [] ~Spares(right) /\ left # None /\ ~Spares(left) ->
                   [MoveChildren(s, p, left) EXCEPT !.todo = ToRemove(p)]
              [] left = None /\ right # None /\ ~Spares(right) ->
                   [MoveChildren(s, right, p) EXCEPT !.todo = ToRemove(right)]
              [] OTHER -> Broken(s)
    BY <1>8 DEF RebalanceAfterBranchRemoval
  <2>2. /\ Least.branch - 1 <= len /\ len < s.minBranchChildren /\ p \in DOMAIN h \ {s.root}
    BY <1>2, <1>3, <1>8
  <2>3. \A n \in DOMAIN h \ {s.root} : NonEmpty(s, n)
    <3>1. ASSUME NEW n \in DOMAIN h \ {s.root} PROVE NonEmpty(s, n)
      <4>1. CASE n \in E
        BY <4>1
      <4>2. CASE n = p
        <5>1. Len(Keys(s, n)) = Len(Children(s, n))
          BY <1>1, <4>2 DEF Shape, Over, Placed
        <5>2. Len(Keys(s, n)) >= 1
          BY <1>2, <1>3, <2>2, <4>2, <5>1
        <5> QED BY <1>1, <4>2, <5>2, NonEmptyIs
      <4>3. CASE n \notin E \union {p}
        BY <1>1, <4>3, NoneIsEmpty
      <4> QED BY <4>1, <4>2, <4>3
    <3> QED BY <3>1
  <2>4. ASSUME NEW c \in {left, right}, c # None
        PROVE  /\ c \in DOMAIN h \ {p, s.root} /\ ~IsLeaf(s, c) /\ h[c] = h[p]
               /\ Len(Children(s, c)) \in Nat /\ c \notin E
               /\ Siblings(s, p, c) /\ Siblings(s, c, p)
    <3>1. c \in DOMAIN h \ {p, s.root} /\ ~IsLeaf(s, c) /\ h[c] = h[p]
      BY <2>2, <2>4, SiblingIs
    <3>2. Len(Children(s, c)) \in Nat
      BY <1>1, <3>1, CountIs DEF Count
    <3> HIDE DEF left, right
    <3> QED BY <2>3, <3>1, <3>2, SiblingBranches
  <2>5. left # None \/ right # None
    <3> DEFINE q == Parent(s, p)
    <3>1. q \in DOMAIN h \ {p, None} /\ ~IsLeaf(s, q)
      BY <2>2, ParentIs
    <3>2. q \notin E \union {p}
      BY <3>1
    <3>3. Low(s, q) <= Count(s, q)
      BY <1>1, <3>1, <3>2 DEF Filled
    <3>4. Len(Children(s, q)) >= 2
      <4>1. Low(s, q) \in Nat /\ 2 <= Low(s, q) /\ Count(s, q) = Len(Children(s, q))
            /\ Count(s, q) \in Nat
        BY <1>1, <1>3, <3>1, CountIs DEF Low, Count
      <4> QED BY <3>3, <4>1
    <3> QED BY <2>2, <3>4, ThereIsASibling
  <2> HIDE DEF left, right
  <2>6. CASE Spares(right)
    <3>1. t = BorrowFromRightBranch(s, p, right)
      BY <2>1, <2>6
    <3>2. PICK child : Borrows(s, t, p, right, child)
      <4>1. Len(Children(s, right)) >= 2
        BY <1>3, <2>4, <2>6
      <4> QED BY <2>4, <2>6, <3>1, <4>1, BorrowFromRightBranchIs
    <3>3. Outcome(s, h, t, h, None, E)
      BY <2>2, <2>4, <2>6, <3>2, BorrowedOutcome
    <3>4. t.root = s.root
      BY <3>2 DEF Borrows, SameButNodes
    <3> QED BY <1>5, <3>3, <3>4, SameOutcome
  <2>7. CASE ~Spares(right) /\ Spares(left)
    <3>1. t = BorrowFromLeftBranch(s, p, left)
      BY <2>1, <2>7
    <3>2. PICK child : Borrows(s, t, p, left, child)
      <4>1. Len(Children(s, left)) >= 2
        BY <1>3, <2>4, <2>7
      <4> QED BY <2>4, <2>7, <3>1, <4>1, BorrowFromLeftBranchIs
    <3>3. Outcome(s, h, t, h, None, E)
      BY <2>2, <2>4, <2>7, <3>2, BorrowedOutcome
    <3>4. t.root = s.root
      BY <3>2 DEF Borrows, SameButNodes
    <3> QED BY <1>5, <3>3, <3>4, SameOutcome
  <2>8. CASE ~Spares(right) /\ left # None /\ ~Spares(left)
    <3> DEFINE m == MoveChildren(s, p, left)
    <3>1. t = [m EXCEPT !.todo = ToRemove(p)]
      BY <2>1, <2>8
    <3>2. MovesAll(s, m, p, left)
      BY <2>4, <2>8, MoveChildrenIs
    <3> HIDE DEF m
    <3>3. Len(Children(s, left)) <= s.minBranchChildren
      BY <1>3, <2>4, <2>8
    <3>4. Outcome(s, h, t, h, p, E)
      <4>1. /\ left \in DOMAIN h \ {p, s.root} /\ p \in DOMAIN h \ {s.root}
            /\ ~IsLeaf(s, left) /\ h[left] = h[p]
        BY <2>2, <2>4, <2>8
      <4>2. \A c \in {p, left} \ {p} : Len(Children(s, c)) <= s.minBranchChildren
        BY <3>3
      <4>3. Len(Children(s, p)) < s.minBranchChildren /\ p \in {p, left}
        BY <2>2
      <4>4. \A n \in E \intersect DOMAIN h : IsLeaf(s, n)
        OBVIOUS
      <4> HIDE DEF len, Spares
      <4>5. Filled(s, h, None, E \union {p}) /\ left # p /\ ~IsLeaf(s, p)
        BY <4>1
      <4>6. Outcome(s, h, [m EXCEPT !.todo = ToRemove(p)], h, p, E)
        BY <3>2, <4>1, <4>2, <4>3, <4>4, <4>5, MergedOutcome
      <4> QED BY <3>1, <4>6
    <3>5. t.root = s.root
      <4>1. m.root = s.root /\ IsTree(m)
        BY <3>2 DEF MovesAll, SameButNodes
      <4>2. ASSUME NEW z, t = [m EXCEPT !.todo = z] PROVE t.root = m.root
        BY <4>1, <4>2 DEF IsTree
      <4> QED BY <3>1, <4>1, <4>2
    <3> QED BY <1>5, <3>4, <3>5, SameOutcome
  <2>9. CASE left = None /\ right # None /\ ~Spares(right)
    <3> DEFINE m == MoveChildren(s, right, p)
    <3>1. t = [m EXCEPT !.todo = ToRemove(right)]
      BY <2>1, <2>9
    <3>2. MovesAll(s, m, right, p)
      BY <2>4, <2>9, MoveChildrenIs
    <3> HIDE DEF m
    <3>3. Len(Children(s, right)) <= s.minBranchChildren
      BY <1>3, <2>4, <2>9
    <3>4. Outcome(s, h, t, h, right, E)
      <4>1. /\ right \in DOMAIN h \ {p, s.root} /\ p \in DOMAIN h \ {s.root}
            /\ ~IsLeaf(s, right) /\ h[p] = h[right]
        BY <2>2, <2>4, <2>9
      <4>2. \A c \in {right, p} \ {p} : Len(Children(s, c)) <= s.minBranchChildren
        BY <3>3
      <4>3. Len(Children(s, p)) < s.minBranchChildren /\ p \in {right, p}
        BY <2>2
      <4>4. \A n \in E \intersect DOMAIN h : IsLeaf(s, n)
        OBVIOUS
      <4> HIDE DEF len, Spares
      <4>5. Filled(s, h, None, E \union {p}) /\ p # right /\ ~IsLeaf(s, p)
        BY <4>1
      <4>6. Outcome(s, h, [m EXCEPT !.todo = ToRemove(right)], h, right, E)
        BY <3>2, <4>1, <4>2, <4>3, <4>4, <4>5, MergedOutcome
      <4> QED BY <3>1, <4>6
    <3>5. t.root = s.root
      <4>1. m.root = s.root /\ IsTree(m)
        BY <3>2 DEF MovesAll, SameButNodes
      <4>2. ASSUME NEW z, t = [m EXCEPT !.todo = z] PROVE t.root = m.root
        BY <4>1, <4>2 DEF IsTree
      <4> QED BY <3>1, <4>1, <4>2
    <3> QED BY <1>5, <3>4, <3>5, SameOutcome
  <2> QED BY <2>5, <2>6, <2>7, <2>8, <2>9
<1> QED BY <1>6, <1>7, <1>8

-----------------------------------------------------------------------------
(* A leaf that is no longer in the tree is no child of its parent. *)
Gone(s, n) ==
    /\ Parent(s, n) \in Ids(s) /\ ~IsLeaf(s, Parent(s, n))
    /\ n \notin Held(Children(s, Parent(s, n)))

LEMMA GoneStays ==
  ASSUME NEW s, NEW h, NEW t, NEW g, NEW y, NEW E, Outcome(s, h, t, g, y, E), IsTree(s),
         NEW n \in Ids(s) \ DOMAIN h, n \notin DOMAIN g, Gone(s, n)
  PROVE  Gone(t, n)
<1> DEFINE p == Parent(s, n)
<1>1. /\ Parent(t, n) = p /\ p \in Ids(t) /\ ~IsLeaf(t, p) /\ p \in Ids(s) /\ ~IsLeaf(s, p)
      /\ n \notin Held(Children(s, p))
  BY DEF Outcome, Frame, Gone
<1>2. CASE p \in DOMAIN g \ {y}
  <2>1. Over(t, g, None, p)
    BY <1>1, <1>2 DEF Outcome, Shape
  <2> QED BY <1>1, <2>1 DEF Over, Gone
<1>3. CASE p \notin DOMAIN g \ {y}
  <2>1. Children(t, p) = Children(s, p)
    BY <1>1, <1>3 DEF Outcome, Frame
  <2> QED BY <1>1, <2>1 DEF Gone
<1> QED BY <1>2, <1>3

(* HeightsIn, of any tree and heights. *)
HeightsFrom(s, h, next) ==
    LET new == DOMAIN next.nodes \ DOMAIN s.nodes
        gone == {n \in DOMAIN h : \/ s.todo = ToRemove(n)
                                  \/ n = s.root /\ next.root \in DOMAIN h \ {n}}
        Above(n) == IF IsLeaf(next, n) THEN 0 ELSE h[Head(Children(next, n))] + 1
    IN  [n \in (DOMAIN h \ gone) \union new |-> IF n \in new THEN Above(n) ELSE h[n]]

(* The nodes that are no longer in the tree. *)
Leaving(s, h, next) ==
    {n \in DOMAIN h : s.todo = ToRemove(n) \/ (n = s.root /\ next.root \in DOMAIN h \ {n})}

Stays(s, h, next, g) ==
    /\ DOMAIN g = DOMAIN h \ Leaving(s, h, next)
    /\ \A n \in DOMAIN h \ Leaving(s, h, next) : g[n] = h[n]

LEMMA NoNewHeights ==
  ASSUME NEW s, NEW h, NEW next, Ids(next) = Ids(s)
  PROVE  Stays(s, h, next, HeightsFrom(s, h, next))
<1> DEFINE new == DOMAIN next.nodes \ DOMAIN s.nodes
           Above(n) == IF IsLeaf(next, n) THEN 0 ELSE h[Head(Children(next, n))] + 1
           left == DOMAIN h \ Leaving(s, h, next)
<1>1. new = {}
  BY DEF Ids
<1>2. HeightsFrom(s, h, next) = [n \in left \union new |-> IF n \in new THEN Above(n) ELSE h[n]]
  BY DEF HeightsFrom, Leaving
<1> HIDE DEF new, Above, left
<1>3. left \union new = left
  BY <1>1
<1> QED BY <1>1, <1>2, <1>3 DEF left, Stays

(* The node y is to be taken out. *)
Removing(s, h, y, E) ==
    /\ Shape(s, h, None, y) /\ Caps(s) /\ Filled(s, h, y, E)
    /\ y \in DOMAIN h \ {s.root} /\ s.todo = ToRemove(y)
    /\ \A n \in E \intersect (DOMAIN h \ {y}) : IsLeaf(s, n) /\ NonEmpty(s, n)

(* The nodes that go are y and a root; no leaf holds other entries.          *)
Removed(s, h, t, g, y) ==
    /\ Ids(t) = Ids(s) /\ DOMAIN g \subseteq DOMAIN h \ {y} /\ SameCapacity(s, t)
    /\ \A n \in Ids(s) : /\ IsLeaf(t, n) <=> IsLeaf(s, n)
                         /\ IsLeaf(s, n) => Entries(t, n) = Entries(s, n)
    /\ \A n \in DOMAIN h \ {y} : IsLeaf(s, n) => n \in DOMAIN g
    /\ \A n \in Ids(s) \ DOMAIN g : n = y \/ (n \notin DOMAIN h /\ Gone(s, n)) => Gone(t, n)

LEMMA ResumeRemoveIs ==
  ASSUME NEW s, NEW h, NEW y, NEW E, Removing(s, h, y, E),
         NEW t, t = Resume(s), NEW g, g = HeightsFrom(s, h, t)
  PROVE  /\ Removed(s, h, t, g, y)
         /\ \E z : /\ Shape(t, g, None, z) /\ Filled(t, g, z, E)
                   /\ t.todo = IF z = None THEN Nothing ELSE ToRemove(z)
                   /\ z # None => z \in DOMAIN g \ {t.root}
<1> DEFINE taken == [s EXCEPT !.todo = Nothing]
           p == Parent(taken, y)
           low == [n \in DOMAIN h \ {y} |-> h[n]]
           out == {n \in DOMAIN low : n = s.root /\ t.root \in DOMAIN low \ {n}}
           k == [n \in DOMAIN low \ out |-> low[n]]
<1>0. Ids(t) = Ids(s) => Stays(s, h, t, g)
  BY NoNewHeights
<1>1. /\ Shape(s, h, None, y) /\ IsTree(s) /\ DOMAIN h \subseteq Ids(s) /\ None \notin DOMAIN h
      /\ y \in DOMAIN h \ {s.root} /\ s.todo = ToRemove(y) /\ Caps(s)
  BY NoneIsNoNode DEF Removing, Shape
<1>2. /\ IsTree(taken) /\ taken.nodes = s.nodes /\ taken.root = s.root /\ taken.todo = Nothing
      /\ taken.broken = s.broken /\ SameCapacity(s, taken)
  <2> DEFINE rest == Nothing
  <2> HIDE DEF rest
  <2>1. LET u == [s EXCEPT !.todo = rest]
        IN  /\ IsTree(u) /\ u.nodes = s.nodes /\ u.root = s.root /\ u.todo = rest
            /\ u.broken = s.broken /\ SameCapacity(s, u)
    BY <1>1, TodoIs
  <2> QED BY <2>1 DEF rest
<1>3. t = RemoveFromParent(taken, y)
  <2>1. s.todo.op = "remove" /\ s.todo.child = y
    BY <1>1 DEF ToRemove
  <2> HIDE DEF taken
  <2> QED BY <2>1 DEF Resume, taken
<1> HIDE DEF taken
<1>4. Shape(taken, h, None, y)
  BY <1>1, <1>2, TodoShape
<1>5. Under(taken, h, y, y) /\ Over(taken, h, None, p) /\ p \in DOMAIN h \ {y, None}
  <2>1. Under(taken, h, y, y)
    BY <1>1, <1>2, <1>4 DEF Shape
  <2> QED BY <1>1, <1>4, <2>1 DEF Under, Shape
<1>6. PICK d : Removes(taken, d, p, y) /\ t = RebalanceAfterBranchRemoval(d, p)
  <2>1. Placed(taken, p) /\ y \in Held(Children(taken, p)) /\ Parent(taken, y) = p
    BY <1>5 DEF Under, Over
  <2> HIDE DEF p
  <2> QED BY <1>2, <1>3, <2>1, RemoveFromParentIs
<1>7. DOMAIN low = DOMAIN h \ {y} /\ \A n \in DOMAIN low : low[n] = h[n]
  OBVIOUS
<1> HIDE DEF low
<1>8. Shape(d, low, None, None)
  BY <1>1, <1>2, <1>4, <1>6, <1>7, RemovedShape
<1>9. /\ d.root = s.root /\ d.todo = Nothing /\ Ids(d) = Ids(s) /\ SameCapacity(s, d)
      /\ IsTree(d) /\ Caps(d)
      /\ \A n \in Ids(s) : Parent(d, n) = Parent(taken, n)
      /\ \A n \in Ids(s) \ {p} : SameContent(s, d, n)
      /\ Held(Children(d, p)) = Held(Children(taken, p)) \ {y}
      /\ Len(Children(d, p)) = Len(Children(s, p)) - 1
      /\ ~IsLeaf(d, p) /\ ~IsLeaf(s, p)
  <2>1. Ids(taken) = Ids(s)
    BY <1>2 DEF Ids
  <2>2. \A n : /\ IsLeaf(taken, n) <=> IsLeaf(s, n)
               /\ Entries(taken, n) = Entries(s, n) /\ Children(taken, n) = Children(s, n)
               /\ Keys(taken, n) = Keys(s, n) /\ Offset(taken, n) = Offset(s, n)
    BY <1>2 DEF IsLeaf, Entries, Children, Keys, Offset
  <2>3. \A n : SameContent(taken, d, n) => SameContent(s, d, n)
    BY <2>2 DEF SameContent
  <2>4. SameCapacity(taken, d) /\ IsTree(d) /\ d.root = taken.root /\ d.todo = taken.todo
        /\ Ids(d) = Ids(taken)
    BY <1>6 DEF Removes, Rearranged, SameButNodes
  <2>5. SameCapacity(s, d)
    BY <1>2, <2>4 DEF SameCapacity
  <2>6. Caps(d)
    BY <1>1, <2>5, SameCapacityIs
  <2>7. /\ \A n \in Ids(s) : Parent(d, n) = Parent(taken, n)
        /\ \A n \in Ids(s) \ {p} : SameContent(s, d, n)
        /\ Held(Children(d, p)) = Held(Children(taken, p)) \ {y}
        /\ Len(Children(d, p)) = Len(Children(s, p)) - 1
        /\ ~IsLeaf(d, p)
    BY <1>6, <2>1, <2>2, <2>3 DEF Removes, Rearranged, Placed
  <2>8. ~IsLeaf(s, p)
    BY <1>5, <2>2 DEF Under
  <2> QED BY <1>2, <2>1, <2>4, <2>5, <2>6, <2>7, <2>8
<1>10. \A n \in E \intersect DOMAIN low : IsLeaf(d, n) /\ NonEmpty(d, n)
  <2>1. ASSUME NEW n \in E \intersect DOMAIN low PROVE IsLeaf(d, n) /\ NonEmpty(d, n)
    <3>1. IsLeaf(s, n) /\ NonEmpty(s, n) /\ n # p /\ n \in Ids(s)
      BY <1>1, <1>7, <1>9 DEF Removing
    <3>2. SameContent(s, d, n)
      BY <1>9, <3>1
    <3> QED BY <1>1, <1>9, <3>1, <3>2, SameNonEmpty DEF SameContent
  <2> QED BY <2>1
<1>11. Filled(d, low, None, E \union {p}) /\ Low(d, p) - 1 <= Count(d, p)
  <2>1. ASSUME NEW n \in DOMAIN low, n # p
        PROVE  Count(d, n) <= High(d, n) /\ (n \notin E => Low(d, n) <= Count(d, n))
    <3>1. SameContent(s, d, n) /\ n \in DOMAIN h \ {y}
      BY <1>1, <1>7, <1>9, <2>1
    <3>2. Count(d, n) = Count(s, n) /\ (IsLeaf(d, n) <=> IsLeaf(s, n))
      BY <3>1, SameContentCounts
    <3>3. Count(s, n) <= High(s, n) /\ (n \notin E => Low(s, n) <= Count(s, n))
      BY <3>1 DEF Removing, Filled
    <3> QED BY <1>9, <3>2, <3>3 DEF Low, High, SameCapacity
  <2>2. Count(d, p) <= High(d, p) /\ Low(d, p) - 1 <= Count(d, p)
    <3>1. p \in DOMAIN h \ {y} /\ p \notin E
      BY <1>5, <1>9 DEF Removing
    <3>2. Count(s, p) <= High(s, p) /\ Low(s, p) <= Count(s, p)
      BY <3>1 DEF Removing, Filled
    <3>3. Count(s, p) \in Nat
      BY <1>1, <3>1, CountIs
    <3>4. Count(d, p) = Count(s, p) - 1 /\ High(d, p) = High(s, p) /\ Low(d, p) = Low(s, p)
      BY <1>9 DEF Count, High, Low, SameCapacity
    <3>5. High(s, p) \in Nat /\ Low(s, p) \in Nat
      BY <1>1, <1>9, CapsAre DEF High, Low
    <3> QED BY <3>2, <3>3, <3>4, <3>5
  <2> QED BY <2>1, <2>2 DEF Filled
<1>12. DOMAIN k = DOMAIN low \ out /\ \A n \in DOMAIN k : k[n] = low[n]
  OBVIOUS
<1>13. PICK z : Outcome(d, low, t, k, z, E)
  <2>1. p \in DOMAIN low
    BY <1>5, <1>7
  <2>2. DOMAIN k = DOMAIN low \ {n \in DOMAIN low : n = d.root /\ t.root \in DOMAIN low \ {n}}
    BY <1>9, <1>12
  <2> HIDE DEF k, p
  <2> QED BY <1>6, <1>8, <1>9, <1>10, <1>11, <1>12, <2>1, <2>2, RebalancedBranchIs
<1>14. Ids(t) = Ids(s) /\ t.root \in DOMAIN k
  <2> HIDE DEF k, p
  <2> QED BY <1>9, <1>13 DEF Outcome, Frame, Shape
<1>15. DOMAIN g = DOMAIN k /\ \A n \in DOMAIN k : g[n] = k[n]
  <2>1. /\ DOMAIN g = DOMAIN h \ Leaving(s, h, t)
        /\ \A n \in DOMAIN h \ Leaving(s, h, t) : g[n] = h[n]
    BY <1>0, <1>14 DEF Stays
  <2>2. \A n : s.todo = ToRemove(n) <=> n = y
    BY <1>1 DEF ToRemove
  <2>3. t.root # y /\ t.root \in DOMAIN low
    BY <1>7, <1>12, <1>14
  <2>4. DOMAIN h \ Leaving(s, h, t) = DOMAIN low \ out
    BY <1>7, <2>2, <2>3 DEF Leaving
  <2>5. \A n \in DOMAIN k : k[n] = h[n]
    BY <1>7, <1>12
  <2> QED BY <1>12, <2>1, <2>4, <2>5
<1> HIDE DEF k, out
<1>18. Outcome(d, low, t, g, z, E)
  <2>1. Outcome(d, low, t, k, z, E)
    BY <1>13
  <2> QED BY <1>15, <2>1, SameOutcome
<1>16. Removed(s, h, t, g, y)
  <2>1. DOMAIN g \subseteq DOMAIN h \ {y}
    BY <1>7, <1>12, <1>15
  <2>2. SameCapacity(s, t)
    BY <1>9, <1>18 DEF Outcome, SameCapacity
  <2>3. \A n \in Ids(s) : /\ IsLeaf(t, n) <=> IsLeaf(d, n)
                          /\ IsLeaf(d, n) => Entries(t, n) = Entries(d, n)
    BY <1>9, <1>18 DEF Outcome, Frame
  <2>4. \A n \in Ids(s) : /\ IsLeaf(d, n) <=> IsLeaf(s, n)
                          /\ IsLeaf(s, n) => Entries(d, n) = Entries(s, n)
    BY <1>9 DEF SameContent
  <2>5. ASSUME NEW n \in Ids(s) \ DOMAIN g, n = y \/ (n \notin DOMAIN h /\ Gone(s, n))
        PROVE  Gone(t, n)
    <3>1. n \in Ids(d) \ DOMAIN low /\ n \notin DOMAIN g
      BY <1>7, <1>9, <2>5
    <3>2. Gone(d, n)
      <4>1. CASE n = y
        <5>1. Parent(d, y) = p /\ p \in Ids(d)
          BY <1>1, <1>5, <1>9
        <5> QED BY <1>9, <4>1, <5>1 DEF Gone
      <4>2. CASE n # y
        <5>1. Gone(s, n) /\ n \notin DOMAIN h
          BY <2>5, <4>2
        <5>2. Parent(d, n) = Parent(s, n)
          BY <1>2, <1>9 DEF Parent
        <5>3. CASE Parent(s, n) = p
          <6>1. n \notin Held(Children(taken, p))
            BY <1>5, <5>1 DEF Over
          <6> QED BY <1>9, <5>1, <5>2, <5>3, <6>1 DEF Gone
        <5>4. CASE Parent(s, n) # p
          BY <1>9, <5>1, <5>2, <5>4 DEF Gone, SameContent
        <5> QED BY <5>3, <5>4
      <4> QED BY <4>1, <4>2
    <3> QED BY <1>9, <1>18, <3>1, <3>2, GoneStays
  <2>6. ASSUME NEW n \in DOMAIN h \ {y}, IsLeaf(s, n) PROVE n \in DOMAIN g
    <3>1. IsLeaf(d, n) /\ n \in DOMAIN low
      BY <1>1, <1>7, <2>4, <2>6
    <3>2. t.root = d.root \/ ~IsLeaf(d, d.root)
      BY <1>18 DEF Outcome
    <3>3. n \notin out
      BY <1>9, <3>1, <3>2 DEF out
    <3> QED BY <1>12, <1>15, <3>1, <3>3
  <2> QED BY <1>14, <2>1, <2>2, <2>3, <2>4, <2>5, <2>6 DEF Removed
<1>17. /\ Shape(t, g, None, z) /\ Filled(t, g, z, E)
       /\ t.todo = IF z = None THEN Nothing ELSE ToRemove(z)
       /\ z # None => z \in DOMAIN g \ {t.root}
  BY <1>18 DEF Outcome
<1> QED BY <1>16, <1>17

(* Every new node is a leaf, or one above its first child. *)
Grows(s, h, t, g) ==
    /\ DOMAIN g = DOMAIN h \union (Ids(t) \ Ids(s))
    /\ \A n \in DOMAIN h : g[n] = h[n]
    /\ \A n \in Ids(t) \ Ids(s) :
          g[n] = IF IsLeaf(t, n) THEN 0 ELSE h[Head(Children(t, n))] + 1

LEMMA HeightsGrow ==
  ASSUME NEW s, NEW h, NEW next, DOMAIN h \subseteq Ids(s), s.todo.op # "remove",
         next.root = s.root \/ next.root \notin DOMAIN h
  PROVE  Grows(s, h, next, HeightsFrom(s, h, next))
<1> DEFINE new == DOMAIN next.nodes \ DOMAIN s.nodes
           Above(n) == IF IsLeaf(next, n) THEN 0 ELSE h[Head(Children(next, n))] + 1
           left == DOMAIN h \ Leaving(s, h, next)
<1>1. HeightsFrom(s, h, next) = [n \in left \union new |-> IF n \in new THEN Above(n) ELSE h[n]]
  BY DEF HeightsFrom, Leaving
<1>2. left = DOMAIN h
  <2>1. \A n : s.todo # ToRemove(n)
    BY DEF ToRemove
  <2> QED BY <2>1 DEF Leaving
<1>3. new = Ids(next) \ Ids(s) /\ \A n \in DOMAIN h : n \notin new
  BY DEF Ids
<1>4. \A n \in new : Above(n) = IF IsLeaf(next, n) THEN 0 ELSE h[Head(Children(next, n))] + 1
  OBVIOUS
<1> HIDE DEF new, Above, left
<1> QED BY <1>1, <1>2, <1>3, <1>4 DEF Grows

(* No call is left to be made. *)
Ready(s, h, E) ==
    Shape(s, h, None, None) /\ s.todo = Nothing /\ Caps(s) /\ Filled(s, h, None, E)
(* The new node x is to be hung in the tree. *)
Adding(s, h, x) ==
    /\ Shape(s, h, x, None) /\ Caps(s) /\ Filled(s, h, None, {})
    /\ x \in DOMAIN h \ {s.root}
    /\ \E e \in DOMAIN h \ {s.root, x} :
          s.todo = ToInsert(Parent(s, x), e, x) /\ Parent(s, e) = Parent(s, x) /\ h[e] = h[x]

(* Both halves of a node that was one too full hold enough. *)
LEMMA HalvesAreFilled ==
  ASSUME NEW s, NEW h, Shape(s, h, None, None), Caps(s), NEW n \in DOMAIN h,
         Count(s, n) = High(s, n) + 1,
         NEW u, Halved(s, u, n, Fresh(s)), SameButNodes(s, u),
         NEW m \in {n, Fresh(s)},
         Half(Count(s, n) - 1) <= Count(u, m), Count(u, m) <= Count(s, n) - 1
  PROVE  /\ IsLeaf(u, m) <=> IsLeaf(s, n)
         /\ Count(u, m) <= High(u, m)
         /\ (IF IsLeaf(u, m) THEN Least.leaf ELSE Least.branch) <= Count(u, m)
         /\ Low(u, m) <= Count(u, m)
<1>1. IsLeaf(u, m) <=> IsLeaf(s, n)
  BY DEF Halved
<1>2. /\ High(u, m) = High(s, n) /\ High(s, n) \in Nat
  BY <1>1, CapsAre DEF High, SameButNodes, SameCapacity
<1>3. Count(s, n) - 1 = High(s, n)
  BY <1>2
<1>4. Half(High(s, n)) <= Count(u, m) /\ Count(u, m) <= High(u, m)
  BY <1>2, <1>3
<1>5. Count(u, m) \in Nat
  <2>1. IsTree(u) /\ m \in Ids(u)
    BY DEF Halved, SameButNodes, Shape
  <2> QED BY <2>1, CountIs
<1>6. (IF IsLeaf(u, m) THEN Least.leaf ELSE Least.branch) <= Half(High(s, n))
      /\ Half(High(s, n)) \in Nat
  BY <1>1, CapsAre DEF High
<1>7. (IF IsLeaf(u, m) THEN Least.leaf ELSE Least.branch) <= Count(u, m)
  BY <1>4, <1>5, <1>6, CapsAre
<1>8. Low(u, m) <= (IF IsLeaf(u, m) THEN Least.leaf ELSE Least.branch)
  BY CapsAre DEF Low
<1>9. Low(u, m) \in Nat
  BY CapsAre DEF Low
<1> QED BY <1>1, <1>4, <1>5, <1>7, <1>8, <1>9, CapsAre

(* How high the new half is. *)
LEMMA HalfIsAsHigh ==
  ASSUME NEW s, NEW h, Shape(s, h, None, None), NEW n \in DOMAIN h,
         NEW u, Halved(s, u, n, Fresh(s)), SameButNodes(s, u),
         NEW t, SameContent(u, t, Fresh(s))
  PROVE  (IF IsLeaf(t, Fresh(s)) THEN 0 ELSE h[Head(Children(t, Fresh(s)))] + 1) = h[n]
<1> DEFINE f == Fresh(s)
<1>1. IsLeaf(t, f) <=> IsLeaf(s, n)
  BY DEF Halved, SameContent
<1>2. CASE IsLeaf(s, n)
  BY <1>1, <1>2 DEF Shape
<1>3. CASE ~IsLeaf(s, n)
  <2>1. Over(s, h, None, n)
    BY <1>3, NoneIsNoNode DEF Shape
  <2>2. IsTree(u) /\ f \in Ids(u) /\ ~IsLeaf(u, f) /\ Children(t, f) = Children(u, f)
    BY <1>3 DEF Halved, SameButNodes, SameContent
  <2>3. Children(u, f) \in Seq(Nat) /\ Keys(u, f) # <<>> /\ Keys(u, f) \in Seq(NodeKeys)
        /\ Len(Keys(u, f)) = Len(Children(u, f))
    BY <1>3, <2>2, NodesAre DEF Halved, NonEmpty, Placed
  <2>4. Len(Children(u, f)) >= 1
    BY <2>3
  <2>5. Head(Children(u, f)) \in Held(Children(u, f))
    BY <2>3, <2>4 DEF Held
  <2>6. Head(Children(u, f)) \in Held(Children(s, n))
    BY <1>3, <2>5 DEF Halved
  <2> QED BY <1>1, <1>3, <2>1, <2>2, <2>6 DEF Over
<1> QED BY <1>2, <1>3

LEMMA SplitIs ==
  ASSUME NEW s, NEW h, Shape(s, h, None, None), Caps(s), NEW n \in DOMAIN h,
         Filled(s, h, n, {}), Count(s, n) = High(s, n) + 1,
         NEW u, Halved(s, u, n, Fresh(s)), SameButNodes(s, u),
         \A m \in {n, Fresh(s)} :
            Half(Count(s, n) - 1) <= Count(u, m) /\ Count(u, m) <= Count(s, n) - 1,
         NEW k, DOMAIN k = DOMAIN h \union {Fresh(s)}, k[Fresh(s)] = h[n],
         \A m \in DOMAIN h : k[m] = h[m]
  PROVE  /\ Shape(u, k, Fresh(s), None) /\ Caps(u) /\ Filled(u, k, None, {})
         /\ \A m \in {n, Fresh(s)} :
               (IF IsLeaf(u, m) THEN Least.leaf ELSE Least.branch) <= Count(u, m)
         /\ \A m \in {n, Fresh(s)} : Parent(u, m) = Parent(s, n)
         /\ n # Fresh(s) /\ Fresh(s) \notin Ids(s) /\ Ids(u) = Ids(s) \union {Fresh(s)}
         /\ NonEmpty(u, n) /\ NonEmpty(u, Fresh(s))
<1> DEFINE f == Fresh(s)
<1>1. /\ Shape(u, k, f, None) /\ n # f /\ \A m \in {n, f} : Parent(u, m) = Parent(s, n)
  <2>1. /\ f = Fresh(s) /\ Halved(s, u, n, f) /\ DOMAIN k = DOMAIN h \union {f} /\ k[f] = h[n]
    OBVIOUS
  <2> HIDE DEF f
  <2>2. /\ Shape(u, k, f, None) /\ n # f
        /\ Parent(u, f) = Parent(s, n) /\ Parent(u, n) = Parent(s, n)
    BY <2>1, HalvedShape
  <2> QED BY <2>2
<1>2. /\ f \notin Ids(s) /\ Ids(u) = Ids(s) \union {f} /\ NonEmpty(u, n) /\ NonEmpty(u, f)
  BY DEF Halved
<1>3. SameCapacity(s, u) /\ Caps(u) /\ u.root = s.root
  BY SameCapacityIs DEF SameButNodes
<1>4. \A m \in {n, f} :
         /\ Count(u, m) <= High(u, m) /\ Low(u, m) <= Count(u, m)
         /\ (IF IsLeaf(u, m) THEN Least.leaf ELSE Least.branch) <= Count(u, m)
  BY HalvesAreFilled
<1>5. Filled(u, k, None, {})
  <2>1. ASSUME NEW m \in DOMAIN k
        PROVE  Count(u, m) <= High(u, m) /\ Low(u, m) <= Count(u, m)
    <3>1. CASE m \in {n, f}
      BY <1>4, <3>1
    <3>2. CASE m \notin {n, f}
      <4>1. m \in DOMAIN h /\ m \in Ids(s) /\ m # None
        BY <3>2, NoneIsNoNode DEF Shape
      <4>2. SameContent(s, u, m)
        BY <3>2, <4>1 DEF Halved
      <4>3. Count(u, m) = Count(s, m) /\ (IsLeaf(u, m) <=> IsLeaf(s, m))
        BY <4>2, SameContentCounts
      <4>4. Count(s, m) <= High(s, m) /\ Low(s, m) <= Count(s, m)
        BY <3>2, <4>1 DEF Filled
      <4> QED BY <1>3, <4>3, <4>4 DEF Low, High, SameCapacity
    <3> QED BY <3>1, <3>2
  <2> QED BY <2>1 DEF Filled
<1> QED BY <1>1, <1>2, <1>3, <1>4, <1>5

(* What a split leaves to be done. *)
LEMMA SplitOutcome ==
  ASSUME NEW s, NEW h, Shape(s, h, None, None), s.todo = Nothing, Caps(s), NEW n \in DOMAIN h,
         Filled(s, h, n, {}), Count(s, n) = High(s, n) + 1,
         NEW t, Splits(s, t, n), NEW g, Grows(s, h, t, g)
  PROVE  Ready(t, g, {}) \/ Adding(t, g, Fresh(s))
<1> DEFINE f == Fresh(s)
           k == [m \in DOMAIN h \union {f} |-> IF m = f THEN h[n] ELSE h[m]]
<1>1. PICK u : /\ SameButNodes(s, u) /\ Halved(s, u, n, f)
               /\ \A m \in {n, f} :
                     Half(Count(s, n) - 1) <= Count(u, m) /\ Count(u, m) <= Count(s, n) - 1
               /\ t = Raised(s, n, u)
  BY DEF Splits
<1>2. IsTree(s) /\ DOMAIN h \subseteq Ids(s) /\ None \notin Ids(s) /\ s.root \in DOMAIN h
      /\ Parent(s, s.root) = None
  BY NoneIsNoNode DEF Shape
<1>3. DOMAIN k = DOMAIN h \union {f} /\ k[f] = h[n] /\ \A m \in DOMAIN h : k[m] = h[m]
  <2>1. f \notin DOMAIN h
    BY <1>1, <1>2 DEF Halved
  <2> QED BY <2>1
<1> HIDE DEF k
<1>4. /\ Shape(u, k, f, None) /\ Caps(u) /\ Filled(u, k, None, {})
      /\ \A m \in {n, f} : (IF IsLeaf(u, m) THEN Least.leaf ELSE Least.branch) <= Count(u, m)
      /\ \A m \in {n, f} : Parent(u, m) = Parent(s, n)
      /\ n # f /\ f \notin Ids(s) /\ Ids(u) = Ids(s) \union {f}
      /\ NonEmpty(u, n) /\ NonEmpty(u, f)
  <2> HIDE DEF f
  <2> QED BY <1>1, <1>3, SplitIs DEF f
<1> HIDE DEF f
<1>5. /\ IsTree(u) /\ u.broken = FALSE /\ u.root = s.root /\ u.todo = Nothing
  BY <1>1, <1>4 DEF SameButNodes, Shape
<1>6. CASE Parent(s, n) = None
  <2> DEFINE r == Fresh(u)
  <2>1. n = s.root
    BY <1>2, <1>6 DEF Shape, Under
  <2>2. t = CreateRoot(u, <<u.root, f>>)
    BY <1>1, <1>5, <1>6, <2>1 DEF Raised, f
  <2>3. n \in Ids(u) /\ f \in Ids(u)
    BY <1>2, <1>4
  <2>4. /\ SameButRoot(u, t) /\ NewBranch(u, t, <<n, f>>, None) /\ t.root = r
    BY <1>4, <1>5, <2>1, <2>2, <2>3, CreateRootIs
  <2> HIDE DEF r
  <2>5. /\ Ids(t) = Ids(u) \union {r} /\ r \notin Ids(u) /\ r \notin DOMAIN h
        /\ \A m \in Ids(u) : SameContent(u, t, m)
        /\ ~IsLeaf(t, r) /\ Children(t, r) = <<n, f>>
    BY <1>2, <1>4, <2>4 DEF NewBranch, Placed, r
  <2>6. DOMAIN g = DOMAIN k \union {r} /\ \A m \in DOMAIN h : g[m] = h[m]
    BY <1>3, <1>4, <2>5 DEF Grows
  <2>7. g[f] = h[n]
    <3>1. f \in Ids(t) \ Ids(s) /\ SameContent(u, t, f)
      BY <1>4, <2>3, <2>5
    <3>2. g[f] = IF IsLeaf(t, f) THEN 0 ELSE h[Head(Children(t, f))] + 1
      BY <3>1 DEF Grows
    <3> QED BY <1>1, <3>1, <3>2, HalfIsAsHigh DEF f
  <2>8. g[r] = h[n] + 1
    <3>1. r \in Ids(t) \ Ids(s)
      BY <1>4, <2>5
    <3>2. g[r] = h[Head(<<n, f>>)] + 1
      BY <2>5, <3>1 DEF Grows
    <3> QED BY <3>2
  <2>9. \A m \in DOMAIN k : g[m] = k[m]
    BY <1>3, <2>6, <2>7
  <2>10. Shape(t, g, None, None)
    <3>1. f \in DOMAIN k /\ Parent(u, f) = None /\ k[f] = k[u.root] /\ g[r] = k[f] + 1
      BY <1>3, <1>4, <1>5, <1>6, <2>1, <2>8
    <3>2. NonEmpty(u, u.root)
      BY <1>4, <1>5, <2>1
    <3> QED BY <1>4, <2>2, <2>6, <2>9, <3>1, <3>2, RaisedRootShape DEF r
  <2>11. t.todo = Nothing /\ Caps(t) /\ SameCapacity(u, t)
    BY <1>4, <1>5, <2>4, SameCapacityIs DEF SameButRoot
  <2>12. ASSUME NEW m \in DOMAIN g
         PROVE  Count(t, m) <= High(t, m) /\ Low(t, m) <= Count(t, m)
    <3>1. CASE m = r
      <4>1. Count(t, m) = 2
        BY <2>5, <3>1 DEF Count
      <4>2. t.maxBranchChildren \in Nat /\ t.maxBranchChildren >= 3
        BY <2>11, InitialCapacityIs DEF Caps
      <4> QED BY <2>4, <2>5, <3>1, <4>1, <4>2 DEF High, Low
    <3>2. CASE m # r
      <4>1. m \in DOMAIN k /\ m \in Ids(u) /\ m # None
        BY <1>2, <1>4, <1>3, <2>6, <3>2, NoneIsNoNode DEF Shape
      <4>2. Count(t, m) = Count(u, m) /\ (IsLeaf(t, m) <=> IsLeaf(u, m))
        BY <2>5, <4>1, SameContentCounts
      <4>3. Count(u, m) <= High(u, m) /\ Low(u, m) <= Count(u, m)
        BY <1>4, <4>1 DEF Filled
      <4>4. High(t, m) = High(u, m)
        BY <2>11, <4>2 DEF High, SameCapacity
      <4>5. Low(t, m) <= Count(u, m)
        <5>1. CASE m \in {n, f}
          BY <1>4, <2>4, <3>2, <4>2, <5>1 DEF Low
        <5>2. CASE m \notin {n, f}
          BY <1>5, <2>1, <2>4, <3>2, <4>2, <4>3, <5>2 DEF Low
        <5> QED BY <5>1, <5>2
      <4> QED BY <4>2, <4>3, <4>4, <4>5
    <3> QED BY <3>1, <3>2
  <2>13. Filled(t, g, None, {})
    BY <2>12 DEF Filled
  <2> QED BY <2>10, <2>11, <2>13 DEF Ready
<1>7. CASE Parent(s, n) # None
  <2> DEFINE call1 == ToInsert(Parent(s, n), n, f)
  <2> HIDE DEF call1
  <2>1. t = [u EXCEPT !.todo = call1]
    BY <1>1, <1>7 DEF Raised, call1, f
  <2>2. /\ IsTree(t) /\ t.nodes = u.nodes /\ t.root = u.root /\ t.todo = call1
        /\ t.broken = u.broken /\ SameCapacity(u, t)
    BY <1>5, <2>1, TodoIs
  <2>3. Ids(t) = Ids(u) /\ \A m : /\ IsLeaf(t, m) <=> IsLeaf(u, m)
                                 /\ Children(t, m) = Children(u, m) /\ Count(t, m) = Count(u, m)
                                 /\ Parent(t, m) = Parent(u, m)
    BY <2>2 DEF Ids, IsLeaf, Children, Entries, Count, Parent
  <2>4. DOMAIN g = DOMAIN k /\ \A m \in DOMAIN h : g[m] = h[m]
    BY <1>2, <1>3, <1>4, <2>3 DEF Grows
  <2>5. g[f] = h[n]
    <3>1. f \in Ids(t) \ Ids(s)
      BY <1>4, <2>3
    <3>2. SameContent(u, t, f)
      BY <2>2 DEF SameContent, IsLeaf, Entries, Children, Offset, Keys
    <3>3. g[f] = IF IsLeaf(t, f) THEN 0 ELSE h[Head(Children(t, f))] + 1
      BY <3>1 DEF Grows
    <3> QED BY <1>1, <3>2, <3>3, HalfIsAsHigh DEF f
  <2>6. \A m \in DOMAIN k : g[m] = k[m]
    BY <1>3, <2>4, <2>5
  <2>7. Shape(t, g, f, None)
    <3>1. Shape(t, k, f, None)
      BY <1>4, <2>2, TodoShape
    <3> QED BY <2>4, <2>6, <3>1, SameHeights
  <2>8. Filled(t, g, None, {}) /\ Caps(t)
    <3>1. Filled(t, k, None, {})
      BY <1>4, <2>2, <2>3, FilledStays
    <3> QED BY <1>4, <2>2, <2>4, <3>1, SameCapacityIs DEF Filled
  <2>9. n # s.root /\ n \in DOMAIN g /\ f \in DOMAIN g /\ f # s.root
    BY <1>2, <1>3, <1>4, <1>7, <2>4
  <2>10. t.todo = ToInsert(Parent(t, f), n, f) /\ Parent(t, n) = Parent(t, f) /\ g[n] = g[f]
    BY <1>4, <2>2, <2>3, <2>4, <2>5 DEF call1
  <2>11. t.root = s.root /\ n # f
    BY <1>4, <1>5, <2>2
  <2>12. Adding(t, g, f)
    BY <2>7, <2>8, <2>9, <2>10, <2>11 DEF Adding
  <2> QED BY <2>12 DEF f
<1> QED BY <1>6, <1>7

LEMMA SplitRoot ==
  ASSUME NEW s, IsTree(s), s.broken = FALSE, NEW n \in Ids(s), NEW t, Splits(s, t, n)
  PROVE  t.root = s.root \/ t.root \notin Ids(s)
<1> DEFINE f == Fresh(s)
<1>1. PICK u : SameButNodes(s, u) /\ Halved(s, u, n, f) /\ t = Raised(s, n, u)
  BY DEF Splits
<1>2. IsTree(u) /\ u.broken = FALSE /\ u.root = s.root /\ n \in Ids(u) /\ f \in Ids(u) /\ n # f
      /\ NonEmpty(u, n) /\ NonEmpty(u, f) /\ Ids(s) \subseteq Ids(u)
  BY <1>1 DEF SameButNodes, Halved
<1>3. CASE Parent(s, n) = None
  <2>1. t = CreateRoot(u, <<n, f>>)
    BY <1>1, <1>3 DEF Raised
  <2> HIDE DEF f
  <2>2. t.root = Fresh(u) /\ Fresh(u) \notin Ids(u)
    BY <1>2, <2>1, CreateRootIs DEF NewBranch
  <2> QED BY <1>2, <2>2
<1>4. CASE Parent(s, n) # None
  <2> DEFINE call1 == ToInsert(Parent(s, n), n, f)
  <2> HIDE DEF call1
  <2>1. t = [u EXCEPT !.todo = call1]
    BY <1>1, <1>4 DEF Raised, call1
  <2> QED BY <1>2, <2>1, TodoIs
<1> QED BY <1>3, <1>4

(* No node is new. *)
LEMMA GrowsNothing ==
  ASSUME NEW s, NEW h, NEW t, Ids(t) = Ids(s), NEW g, Grows(s, h, t, g)
  PROVE  DOMAIN g = DOMAIN h /\ \A n \in DOMAIN h : g[n] = h[n]
BY DEF Grows

LEMMA SameHeightsReady ==
  ASSUME NEW s, NEW h, NEW E, Ready(s, h, E),
         NEW g, DOMAIN g = DOMAIN h, \A n \in DOMAIN h : g[n] = h[n]
  PROVE  Ready(s, g, E)
<1>1. Shape(s, g, None, None)
  BY SameHeights DEF Ready
<1> QED BY <1>1 DEF Ready, Filled

(* A leaf of a tree holds so many entries. *)
Sized(s, h, t, leaf, count, E) ==
    /\ Shape(t, h, None, None) /\ t.todo = Nothing /\ Caps(t) /\ t.root = s.root
    /\ Ids(t) = Ids(s) /\ SameCapacity(s, t)
    /\ IsLeaf(t, leaf) /\ Len(Entries(t, leaf)) = count /\ Count(t, leaf) = count
    /\ \A n \in Ids(s) : IsLeaf(t, n) <=> IsLeaf(s, n)
    /\ Filled(t, h, leaf, E)

LEMMA ResizedCounts ==
  ASSUME NEW s, NEW h, NEW E, Ready(s, h, E), NEW t, NEW leaf \in DOMAIN h, IsLeaf(s, leaf),
         NEW count, Resizes(s, t, leaf, count)
  PROVE  Sized(s, h, t, leaf, count, E)
<1>1. /\ Shape(s, h, None, None) /\ s.todo = Nothing /\ Caps(s) /\ Filled(s, h, None, E)
      /\ DOMAIN h \subseteq Ids(s) /\ None \notin DOMAIN h
  BY NoneIsNoNode DEF Ready, Shape
<1>2. /\ t.todo = Nothing /\ t.root = s.root /\ Ids(t) = Ids(s) /\ SameCapacity(s, t)
      /\ IsLeaf(t, leaf) /\ Len(Entries(t, leaf)) = count
      /\ \A n \in Ids(s) : IsLeaf(t, n) <=> IsLeaf(s, n)
      /\ \A n \in Ids(s) \ {leaf} : SameContent(s, t, n)
  BY <1>1 DEF Resizes, Resized, Kept
<1>3. Shape(t, h, None, None)
  <2>1. \A n \in {leaf} \intersect DOMAIN h : IsLeaf(s, n)
    OBVIOUS
  <2> QED BY <1>1, <2>1, ResizedShape DEF Resizes
<1>4. Caps(t)
  BY <1>1, <1>2, SameCapacityIs
<1>5. ASSUME NEW n \in DOMAIN h \ {leaf}
      PROVE  Count(t, n) <= High(t, n) /\ (n \notin E => Low(t, n) <= Count(t, n))
  <2>1. Count(t, n) = Count(s, n) /\ (IsLeaf(t, n) <=> IsLeaf(s, n))
    BY <1>1, <1>2, SameContentCounts
  <2>2. Count(s, n) <= High(s, n) /\ (n \notin E => Low(s, n) <= Count(s, n))
    BY <1>1 DEF Filled
  <2> QED BY <1>2, <2>1, <2>2 DEF Low, High, SameCapacity
<1>6. Count(t, leaf) = count /\ Filled(t, h, leaf, E)
  BY <1>2, <1>5 DEF Count, Filled
<1> QED BY <1>2, <1>3, <1>4, <1>6 DEF Sized

LEMMA AddEntryKeeps ==
  ASSUME NEW s, NEW h, Ready(s, h, {}), NEW leaf \in DOMAIN h, IsLeaf(s, leaf),
         NEW e \in NewEntries, NEW index \in 1..Len(Entries(s, leaf)) + 1,
         NEW t, t = AddEntry(s, leaf, index, e), NEW g, g = HeightsFrom(s, h, t)
  PROVE  Ready(t, g, {}) \/ \E x : Adding(t, g, x)
<1>1. /\ Shape(s, h, None, None) /\ s.todo = Nothing /\ Caps(s) /\ Filled(s, h, None, {})
      /\ DOMAIN h \subseteq Ids(s) /\ None \notin DOMAIN h /\ IsTree(s)
  BY NoneIsNoNode DEF Ready, Shape
<1>2. PICK d : /\ Resizes(s, d, leaf, Len(Entries(s, leaf)) + 1)
               /\ t = IF Len(Entries(d, leaf)) > s.maxLeafEntries THEN SplitLeaf(d, leaf) ELSE d
  BY <1>1, AddEntryIs
<1>3. /\ Shape(d, h, None, None) /\ d.todo = Nothing /\ Caps(d) /\ d.root = s.root
      /\ Ids(d) = Ids(s) /\ SameCapacity(s, d)
      /\ IsLeaf(d, leaf) /\ Len(Entries(d, leaf)) = Len(Entries(s, leaf)) + 1
      /\ Filled(d, h, leaf, {})
  <2> DEFINE count == Len(Entries(s, leaf)) + 1
  <2> HIDE DEF count
  <2>1. Resizes(s, d, leaf, count)
    BY <1>2 DEF count
  <2>2. Sized(s, h, d, leaf, count, {})
    BY <2>1, ResizedCounts
  <2> QED BY <2>2 DEF Sized, count
<1>4. /\ Count(s, leaf) \in Nat /\ Count(s, leaf) = Len(Entries(s, leaf))
      /\ Count(s, leaf) <= s.maxLeafEntries /\ Low(s, leaf) <= Count(s, leaf)
      /\ d.maxLeafEntries = s.maxLeafEntries /\ s.maxLeafEntries \in Nat
      /\ Count(d, leaf) = Count(s, leaf) + 1 /\ Low(d, leaf) = Low(s, leaf) /\ Low(s, leaf) \in Nat
      /\ High(d, leaf) = s.maxLeafEntries
  <2>1. Count(s, leaf) \in Nat /\ Count(s, leaf) = Len(Entries(s, leaf))
    BY <1>1, CountIs DEF Count
  <2>2. Count(s, leaf) <= High(s, leaf) /\ Low(s, leaf) <= Count(s, leaf)
    BY <1>1 DEF Filled
  <2>3. d.maxLeafEntries = s.maxLeafEntries /\ s.maxLeafEntries \in Nat
    BY <1>1, <1>3 DEF SameCapacity, Caps
  <2> QED BY <1>1, <1>3, <2>1, <2>2, <2>3, CapsAre DEF Count, Low, High
<1>5. s.todo.op # "remove"
  BY <1>1 DEF Nothing
<1>6. CASE Count(d, leaf) > s.maxLeafEntries
  <2>1. t = SplitLeaf(d, leaf)
    BY <1>2, <1>3, <1>6 DEF Count
  <2>2. Count(d, leaf) = High(d, leaf) + 1
    BY <1>4, <1>6
  <2>3. IsTree(d) /\ d.broken = FALSE /\ leaf \in Ids(d)
    BY <1>1, <1>3 DEF Shape
  <2>4. Len(Entries(d, leaf)) >= 2
    <3>1. s.maxLeafEntries >= 3
      BY <1>1, InitialCapacityIs DEF Caps
    <3> HIDE DEF Caps
    <3>2. Count(d, leaf) = Len(Entries(d, leaf))
      BY <1>3 DEF Count
    <3> QED BY <1>4, <1>6, <3>1, <3>2
  <2>5. Splits(d, t, leaf)
    BY <1>3, <2>1, <2>3, <2>4, SplitLeafIs
  <2>6. t.root = s.root \/ t.root \notin DOMAIN h
    BY <1>1, <1>3, <2>3, <2>5, SplitRoot
  <2>7. Grows(s, h, t, g)
    BY <1>1, <1>5, <2>6, HeightsGrow
  <2>8. Grows(d, h, t, g)
    BY <1>3, <2>7 DEF Grows
  <2> QED BY <1>3, <2>2, <2>5, <2>8, SplitOutcome
<1>7. CASE ~(Count(d, leaf) > s.maxLeafEntries)
  <2>1. t = d
    BY <1>2, <1>3, <1>7 DEF Count
  <2>2. Filled(d, h, None, {})
    <3>1. Count(d, leaf) <= High(d, leaf) /\ Low(d, leaf) <= Count(d, leaf)
      BY <1>4, <1>7
    <3> QED BY <1>3, <3>1 DEF Filled
  <2>3. Ready(d, h, {})
    BY <1>3, <2>2 DEF Ready
  <2>4. Grows(s, h, t, g)
    BY <1>1, <1>3, <1>5, <2>1, HeightsGrow
  <2> QED BY <1>3, <2>1, <2>3, <2>4, GrowsNothing, SameHeightsReady
<1> QED BY <1>6, <1>7

(* The tree with the call taken out of it. *)
LEMMA TakenIs ==
  ASSUME NEW s, IsTree(s)
  PROVE  LET taken == [s EXCEPT !.todo = Nothing]
         IN  /\ IsTree(taken) /\ taken.root = s.root /\ taken.todo = Nothing
             /\ taken.broken = s.broken /\ SameCapacity(s, taken) /\ taken.nodes = s.nodes
             /\ Ids(taken) = Ids(s)
             /\ \A n : /\ IsLeaf(taken, n) <=> IsLeaf(s, n)
                       /\ Children(taken, n) = Children(s, n) /\ Parent(taken, n) = Parent(s, n)
                       /\ Count(taken, n) = Count(s, n) /\ (NonEmpty(taken, n) <=> NonEmpty(s, n))
             /\ \A b : Placed(s, b) => Placed(taken, b)
<1> DEFINE rest == Nothing
           taken == [s EXCEPT !.todo = rest]
<1> HIDE DEF rest
<1>1. /\ IsTree(taken) /\ taken.root = s.root /\ taken.todo = rest
      /\ taken.broken = s.broken /\ SameCapacity(s, taken) /\ taken.nodes = s.nodes
  BY TodoIs
<1> HIDE DEF taken
<1>2. /\ Ids(taken) = Ids(s)
      /\ \A n : /\ IsLeaf(taken, n) <=> IsLeaf(s, n)
                /\ Children(taken, n) = Children(s, n) /\ Parent(taken, n) = Parent(s, n)
                /\ Entries(taken, n) = Entries(s, n) /\ Keys(taken, n) = Keys(s, n)
                /\ Offset(taken, n) = Offset(s, n) /\ Slot(taken, n) = Slot(s, n)
  BY <1>1 DEF Ids, IsLeaf, Children, Parent, Entries, Keys, Offset, Slot
<1>3. \A n : Count(taken, n) = Count(s, n) /\ (NonEmpty(taken, n) <=> NonEmpty(s, n))
  BY <1>2 DEF Count, NonEmpty
<1>4. \A b : Placed(s, b) => Placed(taken, b)
  BY <1>2 DEF Placed
<1> QED BY <1>1, <1>2, <1>3, <1>4 DEF taken, rest

LEMMA ResumeAddKeeps ==
  ASSUME NEW s, NEW h, NEW x, Adding(s, h, x),
         NEW t, t = Resume(s), NEW g, g = HeightsFrom(s, h, t)
  PROVE  Ready(t, g, {}) \/ \E z : Adding(t, g, z)
<1> DEFINE p == Parent(s, x)
           taken == [s EXCEPT !.todo = Nothing]
<1>1. PICK e \in DOMAIN h \ {s.root, x} :
         s.todo = ToInsert(p, e, x) /\ Parent(s, e) = p /\ h[e] = h[x]
  BY DEF Adding
<1>2. /\ Shape(s, h, x, None) /\ Caps(s) /\ Filled(s, h, None, {}) /\ x \in DOMAIN h \ {s.root}
      /\ IsTree(s) /\ s.broken = FALSE /\ DOMAIN h \subseteq Ids(s) /\ None \notin DOMAIN h
      /\ Parent(s, s.root) = None
  BY NoneIsNoNode DEF Adding, Shape
<1>3. /\ IsTree(taken) /\ taken.root = s.root /\ taken.todo = Nothing
      /\ taken.broken = s.broken /\ SameCapacity(s, taken) /\ taken.nodes = s.nodes
      /\ Ids(taken) = Ids(s)
      /\ \A n : /\ IsLeaf(taken, n) <=> IsLeaf(s, n)
                /\ Children(taken, n) = Children(s, n) /\ Parent(taken, n) = Parent(s, n)
                /\ Count(taken, n) = Count(s, n) /\ (NonEmpty(taken, n) <=> NonEmpty(s, n))
      /\ \A b : Placed(s, b) => Placed(taken, b)
  BY <1>2, TakenIs
<1>4. t = InsertChildAfter(taken, p, e, x)
  <2>1. s.todo.op = "insert" /\ s.todo.parent = p /\ s.todo.existing = e /\ s.todo.child = x
    BY <1>1 DEF ToInsert
  <2> HIDE DEF taken, p
  <2> QED BY <2>1 DEF Resume, taken
<1> HIDE DEF taken
<1>5. /\ p \in DOMAIN h /\ p # None /\ ~IsLeaf(s, p) /\ e \in Held(Children(s, p)) /\ Over(s, h, x, p)
  <2>1. Under(s, h, None, e)
    BY <1>1, <1>2 DEF Shape
  <2> QED BY <1>1, <1>2, <2>1 DEF Under, Shape
<1>6. h[p] = h[x] + 1 /\ x \notin Held(Children(s, p)) /\ Placed(s, p) /\ h[x] \in Nat
  BY <1>1, <1>2, <1>5 DEF Over, Shape
<1>7. \A n \in DOMAIN h \ {s.root} : NonEmpty(s, n)
  <2>1. ASSUME NEW n \in DOMAIN h \ {s.root} PROVE NonEmpty(s, n)
    BY <1>2, NoneIsEmpty
  <2> QED BY <2>1
<1> HIDE DEF p
<1>8. PICK d : /\ Inserts(taken, d, p, x)
               /\ t = IF Len(Children(d, p)) > s.maxBranchChildren THEN SplitBranch(d, p) ELSE d
  <2>1. /\ taken.broken = FALSE /\ Placed(taken, p) /\ e \in Held(Children(taken, p))
        /\ Parent(taken, e) = p /\ x \in Ids(taken) \ {p} /\ x \notin Held(Children(taken, p))
        /\ Parent(taken, x) = p /\ NonEmpty(taken, x)
    BY <1>1, <1>2, <1>3, <1>5, <1>6, <1>7 DEF p
  <2>2. taken.maxBranchChildren = s.maxBranchChildren
    BY <1>3 DEF SameCapacity
  <2>3. IsTree(taken)
    BY <1>3
  <2>4. \E d : /\ Inserts(taken, d, p, x)
                /\ InsertChildAfter(taken, p, e, x) =
                      IF Len(Children(d, p)) > taken.maxBranchChildren
                      THEN SplitBranch(d, p) ELSE d
    BY <2>1, <2>3, InsertChildAfterIs
  <2> QED BY <1>4, <2>2, <2>4
<1>9. Shape(d, h, None, None)
  <2>1. Shape(taken, h, x, None)
    BY <1>2, <1>3, TodoShape
  <2>2. ~IsLeaf(taken, p) /\ Parent(taken, x) = p
    BY <1>3, <1>5 DEF p
  <2> QED BY <1>2, <1>5, <1>6, <1>8, <2>1, <2>2, InsertedShape
<1>10. /\ d.root = s.root /\ d.todo = Nothing /\ SameCapacity(s, d) /\ Ids(d) = Ids(s) /\ Caps(d)
       /\ IsTree(d) /\ d.broken = FALSE /\ Placed(d, p)
       /\ \A n \in Ids(s) : Parent(d, n) = Parent(s, n)
       /\ \A n \in Ids(s) \ {p} : SameContent(taken, d, n)
       /\ Count(d, p) = Count(s, p) + 1 /\ ~IsLeaf(d, p)
  <2>1. /\ SameButNodes(taken, d) /\ Ids(d) = Ids(taken) /\ Placed(d, p)
        /\ \A n \in Ids(taken) : Parent(d, n) = Parent(taken, n)
        /\ \A n \in Ids(taken) \ {p} : SameContent(taken, d, n)
        /\ Len(Children(d, p)) = Len(Children(taken, p)) + 1
    BY <1>8 DEF Inserts, Rearranged
  <2>2. SameCapacity(s, d)
    BY <1>3, <2>1 DEF SameButNodes, SameCapacity
  <2>3. Caps(d)
    BY <1>2, <2>2, SameCapacityIs
  <2>4. ~IsLeaf(d, p)
    BY <2>1 DEF Placed
  <2> QED BY <1>2, <1>3, <1>5, <2>1, <2>2, <2>3, <2>4 DEF SameButNodes, Count
<1>11. Filled(d, h, p, {})
  <2>1. ASSUME NEW n \in DOMAIN h \ {p}
        PROVE  Count(d, n) <= High(d, n) /\ Low(d, n) <= Count(d, n)
    <3>1. Count(d, n) = Count(s, n) /\ (IsLeaf(d, n) <=> IsLeaf(s, n))
      BY <1>2, <1>3, <1>10, SameContentCounts
    <3>2. Count(s, n) <= High(s, n) /\ Low(s, n) <= Count(s, n)
      BY <1>2 DEF Filled
    <3> QED BY <1>10, <3>1, <3>2 DEF Low, High, SameCapacity
  <2> QED BY <2>1 DEF Filled
<1>12. /\ Count(s, p) \in Nat /\ Count(s, p) <= s.maxBranchChildren /\ Low(s, p) <= Count(s, p)
       /\ High(d, p) = s.maxBranchChildren /\ s.maxBranchChildren \in Nat
       /\ Low(d, p) = Low(s, p) /\ Low(s, p) \in Nat /\ Count(d, p) = Len(Children(d, p))
       /\ s.maxBranchChildren >= 3
  <2>1. Count(s, p) \in Nat
    BY <1>2, <1>5, CountIs
  <2>2. Count(s, p) <= High(s, p) /\ Low(s, p) <= Count(s, p)
    BY <1>2, <1>5 DEF Filled
  <2>3. s.maxBranchChildren \in Nat /\ s.maxBranchChildren >= 3
    BY <1>2, InitialCapacityIs DEF Caps
  <2>4. High(s, p) = s.maxBranchChildren /\ High(d, p) = s.maxBranchChildren
    BY <1>5, <1>10 DEF High, SameCapacity
  <2>5. Low(d, p) = Low(s, p) /\ Low(s, p) \in Nat
    BY <1>2, <1>5, <1>10, CapsAre DEF Low
  <2> QED BY <1>10, <2>1, <2>2, <2>3, <2>4, <2>5 DEF Count
<1>13. s.todo.op # "remove"
  BY <1>1 DEF ToInsert
<1>14. CASE Count(d, p) > s.maxBranchChildren
  <2>1. t = SplitBranch(d, p)
    BY <1>8, <1>12, <1>14
  <2>2. \A c \in Held(Children(d, p)) : NonEmpty(d, c)
    <3>1. ASSUME NEW c \in Held(Children(d, p)) PROVE NonEmpty(d, c)
      <4>1. c \in DOMAIN h /\ Parent(d, c) = p /\ c # p
        <5>1. Over(d, h, None, p)
          BY <1>5, <1>9, <1>10 DEF Shape
        <5> QED BY <1>5, <1>6, <5>1, <1>9 DEF Over, Shape
      <4>2. c # s.root /\ c \in Ids(s)
        BY <1>2, <1>5, <1>10, <4>1
      <4>3. NonEmpty(taken, c) /\ SameContent(taken, d, c)
        BY <1>3, <1>7, <1>10, <4>1, <4>2
      <4> QED BY <1>3, <1>10, <4>2, <4>3, SameNonEmpty
    <3> QED BY <3>1
  <2>3. Count(d, p) = High(d, p) + 1
    BY <1>10, <1>12, <1>14
  <2>4. Len(Children(d, p)) >= 2
    BY <1>10, <1>12, <1>14
  <2>5. Splits(d, t, p)
    BY <1>10, <2>1, <2>2, <2>4, SplitBranchIs
  <2>6. t.root = s.root \/ t.root \notin DOMAIN h
    BY <1>2, <1>5, <1>10, <2>5, SplitRoot
  <2>7. Grows(s, h, t, g)
    BY <1>2, <1>13, <2>6, HeightsGrow
  <2>8. Grows(d, h, t, g)
    BY <1>10, <2>7 DEF Grows
  <2> QED BY <1>5, <1>9, <1>10, <1>11, <2>3, <2>5, <2>8, SplitOutcome
<1>15. CASE ~(Count(d, p) > s.maxBranchChildren)
  <2>1. t = d
    BY <1>8, <1>12, <1>15
  <2>2. Filled(d, h, None, {})
    <3>1. Count(d, p) <= High(d, p) /\ Low(d, p) <= Count(d, p)
      BY <1>10, <1>12, <1>15
    <3> QED BY <1>11, <3>1 DEF Filled
  <2>3. Ready(d, h, {})
    BY <1>9, <1>10, <2>2 DEF Ready
  <2>4. Grows(s, h, t, g)
    BY <1>2, <1>10, <1>13, <2>1, HeightsGrow
  <2> QED BY <1>10, <2>1, <2>3, <2>4, GrowsNothing, SameHeightsReady
<1> QED BY <1>14, <1>15

(* A leaf that was short has taken entries of a sibling, or is merged with it. *)
Relieved(s, h, t, leaf, y, E) ==
    /\ Shape(t, h, None, y) /\ Caps(t) /\ Filled(t, h, y, E)
    /\ t.todo = IF y = None THEN Nothing ELSE ToRemove(y)
    /\ y # None => y \in DOMAIN h \ {t.root}
    /\ t.root = s.root /\ Ids(t) = Ids(s) /\ SameCapacity(s, t)
    /\ \A n \in Ids(s) : IsLeaf(t, n) <=> IsLeaf(s, n)
    /\ y # leaf => Len(Entries(t, leaf)) > Len(Entries(s, leaf))

LEMMA TradedIs ==
  ASSUME NEW s, NEW h, Shape(s, h, None, None), Caps(s), s.todo = Nothing,
         NEW leaf \in DOMAIN h \ {s.root}, NEW from \in DOMAIN h \ {s.root}, leaf # from,
         IsLeaf(s, leaf), IsLeaf(s, from), Filled(s, h, leaf, {}),
         Len(Entries(s, leaf)) < s.minLeafEntries, Len(Entries(s, from)) > s.minLeafEntries,
         NEW E, leaf \in E \/ Least.leaf - 1 <= Len(Entries(s, leaf)),
         NEW t, Trades(s, t, leaf, from)
  PROVE  Relieved(s, h, t, leaf, None, E)
<1>1. /\ IsTree(s) /\ DOMAIN h \subseteq Ids(s) /\ None \notin DOMAIN h
  BY NoneIsNoNode DEF Shape
<1>2. /\ Resized(s, t, {leaf, from}) /\ IsLeaf(t, leaf) /\ IsLeaf(t, from)
      /\ Len(Entries(t, leaf)) = Len(Entries(s, leaf)) + 1
      /\ Len(Entries(t, from)) = Len(Entries(s, from)) - 1
  BY DEF Trades
<1>3. /\ t.root = s.root /\ t.todo = Nothing /\ SameCapacity(s, t) /\ Ids(t) = Ids(s)
      /\ \A n \in Ids(s) : IsLeaf(t, n) <=> IsLeaf(s, n)
      /\ \A n \in Ids(s) \ {leaf, from} : SameContent(s, t, n)
  BY <1>2 DEF Resized, Kept
<1>4. Shape(t, h, None, None)
  <2>1. \A n \in {leaf, from} \intersect DOMAIN h : IsLeaf(s, n)
    OBVIOUS
  <2> QED BY <1>2, <2>1, ResizedShape
<1>5. Caps(t)
  BY <1>3, SameCapacityIs
<1> DEFINE a == Len(Entries(s, leaf))
           b == Len(Entries(s, from))
<1>6. a \in Nat /\ b \in Nat /\ Count(s, from) = b
  BY <1>1, CountIs DEF Count
<1>7. /\ Count(t, leaf) = a + 1 /\ Count(t, from) = b - 1
      /\ High(t, leaf) = s.maxLeafEntries /\ High(t, from) = s.maxLeafEntries
      /\ Low(t, leaf) = Least.leaf /\ Low(t, from) = Least.leaf
  BY <1>2, <1>3 DEF Count, High, Low, SameCapacity
<1>8. b <= s.maxLeafEntries
  <2>1. Count(s, from) <= High(s, from)
    BY <1>1 DEF Filled
  <2> QED BY <1>6, <2>1 DEF High
<1>9. a < s.minLeafEntries /\ b > s.minLeafEntries
      /\ (leaf \in E \/ Least.leaf - 1 <= a)
  OBVIOUS
<1>10. ASSUME NEW n \in DOMAIN h
       PROVE  Count(t, n) <= High(t, n) /\ (n \notin E => Low(t, n) <= Count(t, n))
  <2>1. CASE n = leaf
    <3> HIDE DEF a, b
    <3> QED BY <1>6, <1>7, <1>9, <2>1, CapsAre
  <2>2. CASE n = from
    <3> HIDE DEF a, b
    <3> QED BY <1>6, <1>7, <1>8, <1>9, <2>2, CapsAre
  <2>3. CASE n \notin {leaf, from}
    <3>1. Count(t, n) = Count(s, n) /\ (IsLeaf(t, n) <=> IsLeaf(s, n))
      BY <1>1, <1>3, <2>3, SameContentCounts
    <3>2. Count(s, n) <= High(s, n) /\ Low(s, n) <= Count(s, n)
      BY <2>3 DEF Filled
    <3> QED BY <1>3, <3>1, <3>2 DEF Low, High, SameCapacity
  <2> QED BY <2>1, <2>2, <2>3
<1>11. Filled(t, h, None, E)
  BY <1>10 DEF Filled
<1>12. Len(Entries(t, leaf)) > Len(Entries(s, leaf))
  BY <1>2, <1>6
<1> QED BY <1>3, <1>4, <1>5, <1>11, <1>12 DEF Relieved

LEMMA AbsorbedIs ==
  ASSUME NEW s, NEW h, Shape(s, h, None, None), Caps(s), s.todo = Nothing,
         NEW from \in DOMAIN h \ {s.root}, NEW into \in DOMAIN h \ {s.root}, into # from,
         IsLeaf(s, from), IsLeaf(s, into),
         NEW leaf \in {from, into}, Filled(s, h, leaf, {}),
         Len(Entries(s, leaf)) < s.minLeafEntries,
         \A c \in {from, into} \ {leaf} : Len(Entries(s, c)) <= s.minLeafEntries,
         NEW E, NEW m, Resizes(s, m, into, Len(Entries(s, into)) + Len(Entries(s, from)))
  PROVE  Relieved(s, h, [m EXCEPT !.todo = ToRemove(from)], leaf, from, E)
<1> DEFINE rest == ToRemove(from)
           t == [m EXCEPT !.todo = rest]
           a == Len(Entries(s, into))
           b == Len(Entries(s, from))
<1> HIDE DEF rest, a, b
<1>1. /\ IsTree(s) /\ DOMAIN h \subseteq Ids(s) /\ None \notin DOMAIN h
  BY NoneIsNoNode DEF Shape
<1>2. /\ Resized(s, m, {into}) /\ IsLeaf(m, into) /\ Len(Entries(m, into)) = a + b
  BY DEF Resizes, a, b
<1>3. /\ IsTree(m) /\ m.root = s.root /\ SameCapacity(s, m) /\ Ids(m) = Ids(s)
      /\ \A n \in Ids(s) : IsLeaf(m, n) <=> IsLeaf(s, n)
      /\ \A n \in Ids(s) \ {into} : SameContent(s, m, n)
  BY <1>2 DEF Resized, Kept
<1>4. /\ IsTree(t) /\ t.nodes = m.nodes /\ t.root = m.root /\ t.todo = rest
      /\ t.broken = m.broken /\ SameCapacity(m, t)
  BY <1>3, TodoIs
<1> HIDE DEF t
<1>5. Ids(t) = Ids(m) /\ \A n : /\ IsLeaf(t, n) <=> IsLeaf(m, n)
                               /\ Entries(t, n) = Entries(m, n) /\ Count(t, n) = Count(m, n)
  BY <1>4 DEF Ids, IsLeaf, Entries, Children, Count
<1>6. Shape(t, h, None, from)
  <2>1. \A n \in {into} \intersect DOMAIN h : IsLeaf(s, n)
    OBVIOUS
  <2>2. Shape(m, h, None, None)
    BY <1>2, <2>1, ResizedShape
  <2>3. IsLeaf(m, from) /\ from # m.root
    BY <1>1, <1>3
  <2>4. Shape(m, h, None, from)
    BY <2>2, <2>3, MergedLeafShape
  <2> QED BY <1>4, <2>4, TodoShape
<1>7. SameCapacity(s, t) /\ Caps(t)
  <2>1. SameCapacity(s, t)
    BY <1>3, <1>4 DEF SameCapacity
  <2> QED BY <2>1, SameCapacityIs
<1>8. a \in Nat /\ b \in Nat /\ Count(s, from) = b /\ Count(s, into) = a
  BY <1>1, CountIs DEF Count, a, b
<1>9. a + b < 2 * s.minLeafEntries
  <2>1. (a < s.minLeafEntries /\ b <= s.minLeafEntries) \/ (b < s.minLeafEntries /\ a <= s.minLeafEntries)
    BY DEF a, b
  <2> QED BY <1>8, <2>1, CapsAre
<1>10. /\ leaf = into => Least.leaf <= b
       /\ leaf = from => Least.leaf <= a
  <2>1. ASSUME NEW c \in {from, into} \ {leaf} PROVE Least.leaf <= Count(s, c)
    <3>1. Low(s, c) <= Count(s, c)
      BY <1>1 DEF Filled
    <3> QED BY <3>1 DEF Low
  <2> QED BY <1>8, <2>1
<1>11. ASSUME NEW n \in DOMAIN h \ {from}
       PROVE  Count(t, n) <= High(t, n) /\ Low(t, n) <= Count(t, n)
  <2>1. CASE n = into
    <3>1. /\ Count(t, n) = a + b /\ High(t, n) = s.maxLeafEntries /\ Low(t, n) = Least.leaf
      BY <1>2, <1>3, <1>4, <1>5, <1>7, <2>1 DEF Count, High, Low, SameCapacity
    <3>2. leaf = into \/ leaf = from
      OBVIOUS
    <3> QED BY <1>8, <1>9, <1>10, <3>1, <3>2, CapsAre
  <2>2. CASE n # into
    <3>1. Count(t, n) = Count(s, n) /\ (IsLeaf(t, n) <=> IsLeaf(s, n))
      BY <1>1, <1>3, <1>5, <2>2, SameContentCounts
    <3>2. Count(s, n) <= High(s, n) /\ Low(s, n) <= Count(s, n)
      BY <2>2 DEF Filled
    <3> QED BY <1>3, <1>4, <1>7, <3>1, <3>2 DEF Low, High, SameCapacity
  <2> QED BY <2>1, <2>2
<1>12. Filled(t, h, from, E)
  BY <1>11 DEF Filled
<1>13. from # leaf => Len(Entries(t, leaf)) > Len(Entries(s, leaf))
  <2>1. CASE leaf = into
    <3>1. Len(Entries(t, leaf)) = a + b /\ Len(Entries(s, leaf)) = a
      BY <1>2, <1>5, <2>1 DEF a
    <3> QED BY <1>8, <1>10, <2>1, <3>1, CapsAre
  <2> QED BY <2>1
<1>14. /\ t.todo = ToRemove(from) /\ from # None /\ t.root = s.root /\ Ids(t) = Ids(s)
       /\ \A n \in Ids(s) : IsLeaf(t, n) <=> IsLeaf(s, n)
       /\ from \in DOMAIN h \ {t.root}
  BY <1>1, <1>3, <1>4, <1>5 DEF rest
<1>15. Relieved(s, h, t, leaf, from, E)
  BY <1>6, <1>7, <1>12, <1>13, <1>14 DEF Relieved
<1> QED BY <1>15 DEF t, rest

(* A leaf that took the entries of the one to its right. *)
LEMMA RefreshedIs ==
  ASSUME NEW s, IsTree(s), NEW leaf \in Ids(s), NEW right \in Ids(s), leaf # right,
         IsLeaf(s, leaf), IsLeaf(s, right)
  PROVE  Resizes(s, RefreshIfEmptied(AbsorbLeaf(s, leaf, right), s, leaf), leaf,
                 Len(Entries(s, leaf)) + Len(Entries(s, right)))
<1> DEFINE m == AbsorbLeaf(s, leaf, right)
           count == Len(Entries(s, leaf)) + Len(Entries(s, right))
<1>1. Resizes(s, m, leaf, count)
  BY AbsorbLeafIs
<1> HIDE DEF m, count
<1>2. IsTree(m) /\ leaf \in Ids(m)
  BY <1>1 DEF Resizes, Resized, Kept
<1>3. Alike(m, RefreshIfEmptied(m, s, leaf))
  BY <1>2, UpdateMinKeyIs, SameIsAlike DEF RefreshIfEmptied
<1>4. Resizes(s, RefreshIfEmptied(m, s, leaf), leaf, count)
  BY <1>1, <1>3, AlikeResizes
<1> QED BY <1>4 DEF m, count

(* A leaf that is too short borrows or merges. *)
LEMMA RelievedIs ==
  ASSUME NEW s, NEW h, Shape(s, h, None, None), Caps(s), s.todo = Nothing,
         NEW leaf \in DOMAIN h \ {s.root}, IsLeaf(s, leaf), Filled(s, h, leaf, {}),
         Len(Entries(s, leaf)) < LeafRebalanceThreshold(s),
         NEW E, leaf \in E \/ Least.leaf - 1 <= Len(Entries(s, leaf)),
         NEW t, t = RebalanceAfterLeafRemoval(s, leaf)
  PROVE  \E y : Relieved(s, h, t, leaf, y, E)
<1> DEFINE left == Sibling(s, leaf, -1)
           right == Sibling(s, leaf, 1)
           p == Parent(s, leaf)
           Spares(n) == n # None /\ Len(Entries(s, n)) > s.minLeafEntries
<1>1. /\ IsTree(s) /\ DOMAIN h \subseteq Ids(s) /\ None \notin DOMAIN h
      /\ s.minLeafEntries \in Nat /\ s.minLeafEntries >= 1
      /\ Len(Entries(s, leaf)) < s.minLeafEntries
  <2>1. IsTree(s) /\ DOMAIN h \subseteq Ids(s) /\ None \notin DOMAIN h
    BY NoneIsNoNode DEF Shape
  <2>2. Count(s, leaf) \in Nat /\ Count(s, leaf) = Len(Entries(s, leaf))
    BY <2>1, CountIs DEF Count
  <2>3. LeafRebalanceThreshold(s) \in Nat /\ LeafRebalanceThreshold(s) <= s.minLeafEntries
        /\ s.minLeafEntries \in Nat
    BY CapsAre
  <2> QED BY <2>1, <2>2, <2>3
<1>2. left # None \/ right # None
  <2>1. p \in DOMAIN h \ {leaf, None} /\ ~IsLeaf(s, p)
    BY ParentIs
  <2>2. Low(s, p) <= Count(s, p)
    BY <1>1, <2>1 DEF Filled
  <2>3. Len(Children(s, p)) \in Nat /\ Count(s, p) = Len(Children(s, p))
    BY <1>1, <2>1, CountIs DEF Count
  <2>4. Low(s, p) >= 2 /\ Low(s, p) \in Nat
    BY <2>1, CapsAre DEF Low
  <2>5. Len(Children(s, p)) >= 2
    BY <2>2, <2>3, <2>4
  <2> QED BY <2>5, ThereIsASibling
<1>3. /\ left = None \/ /\ left \in DOMAIN h \ {leaf, s.root} /\ IsLeaf(s, left) /\ left # None
                        /\ Len(Entries(s, left)) \in Nat
      /\ right = None \/ /\ right \in DOMAIN h \ {leaf, s.root} /\ IsLeaf(s, right) /\ right # None
                         /\ Len(Entries(s, right)) \in Nat
  <2>1. ASSUME NEW distance \in {-1, 1}, Sibling(s, leaf, distance) # None
        PROVE  /\ Sibling(s, leaf, distance) \in DOMAIN h \ {leaf, s.root}
               /\ IsLeaf(s, Sibling(s, leaf, distance))
    BY <2>1, SiblingIs
  <2>2. /\ left = None \/ (left \in DOMAIN h \ {leaf, s.root} /\ IsLeaf(s, left))
        /\ right = None \/ (right \in DOMAIN h \ {leaf, s.root} /\ IsLeaf(s, right))
    BY <2>1
  <2>3. \A n \in DOMAIN h : IsLeaf(s, n) => Len(Entries(s, n)) \in Nat
    BY <1>1, CountIs DEF Count
  <2> QED BY <1>1, <2>2, <2>3
<1>4. t = CASE Spares(right) -> BorrowFromRightLeaf(s, leaf, right)
            [] ~Spares(right) /\ Spares(left) -> BorrowFromLeftLeaf(s, leaf, left)
            [] ~Spares(right) /\ left # None /\ ~Spares(left) ->
                 [AbsorbLeaf(s, left, leaf) EXCEPT !.todo = ToRemove(leaf)]
            [] left = None /\ right # None /\ ~Spares(right) ->
                 [RefreshIfEmptied(AbsorbLeaf(s, leaf, right), s, leaf)
                      EXCEPT !.todo = ToRemove(right)]
            [] OTHER -> Broken(s)
  <2>1. ~(Len(Entries(s, leaf)) >= LeafRebalanceThreshold(s))
    <3>1. Len(Entries(s, leaf)) \in Nat /\ LeafRebalanceThreshold(s) \in Nat
      BY <1>1, CountIs, CapsAre DEF Count
    <3> QED BY <3>1
  <2> QED BY <2>1 DEF RebalanceAfterLeafRemoval
<1> HIDE DEF left, right, p
<1>5. CASE Spares(right)
  <2>1. t = BorrowFromRightLeaf(s, leaf, right)
    BY <1>4, <1>5
  <2>2. /\ right \in DOMAIN h \ {s.root} /\ right \in Ids(s) /\ leaf # right /\ IsLeaf(s, right)
        /\ Len(Entries(s, right)) > s.minLeafEntries /\ Len(Entries(s, right)) >= 2
        /\ leaf \in Ids(s)
    BY <1>1, <1>3, <1>5
  <2>3. Trades(s, t, leaf, right)
    BY <1>1, <2>1, <2>2, BorrowFromRightLeafIs
  <2>4. Relieved(s, h, t, leaf, None, E)
    BY <1>1, <2>2, <2>3, TradedIs
  <2> QED BY <2>4
<1>6. CASE ~Spares(right) /\ Spares(left)
  <2>1. t = BorrowFromLeftLeaf(s, leaf, left)
    BY <1>4, <1>6
  <2>2. /\ left \in DOMAIN h \ {s.root} /\ left \in Ids(s) /\ leaf # left /\ IsLeaf(s, left)
        /\ Len(Entries(s, left)) > s.minLeafEntries /\ Len(Entries(s, left)) >= 2
        /\ leaf \in Ids(s)
    BY <1>1, <1>3, <1>6
  <2>3. Trades(s, t, leaf, left)
    BY <1>1, <2>1, <2>2, BorrowFromLeftLeafIs
  <2>4. Relieved(s, h, t, leaf, None, E)
    BY <1>1, <2>2, <2>3, TradedIs
  <2> QED BY <2>4
<1>7. CASE ~Spares(right) /\ left # None /\ ~Spares(left)
  <2> DEFINE m == AbsorbLeaf(s, left, leaf)
  <2>1. t = [m EXCEPT !.todo = ToRemove(leaf)]
    BY <1>4, <1>7
  <2>2. /\ left \in DOMAIN h \ {s.root} /\ left \in Ids(s) /\ leaf # left /\ IsLeaf(s, left)
        /\ Len(Entries(s, left)) <= s.minLeafEntries /\ leaf \in Ids(s)
    BY <1>1, <1>3, <1>7
  <2>3. Resizes(s, m, left, Len(Entries(s, left)) + Len(Entries(s, leaf)))
    BY <1>1, <2>2, AbsorbLeafIs
  <2> HIDE DEF m
  <2>4. Relieved(s, h, [m EXCEPT !.todo = ToRemove(leaf)], leaf, leaf, E)
    BY <1>1, <2>2, <2>3, AbsorbedIs
  <2> QED BY <2>1, <2>4
<1>8. CASE left = None /\ right # None /\ ~Spares(right)
  <2> DEFINE m == RefreshIfEmptied(AbsorbLeaf(s, leaf, right), s, leaf)
  <2>1. t = [m EXCEPT !.todo = ToRemove(right)]
    BY <1>4, <1>8
  <2>2. /\ right \in DOMAIN h \ {s.root} /\ right \in Ids(s) /\ leaf # right /\ IsLeaf(s, right)
        /\ Len(Entries(s, right)) <= s.minLeafEntries /\ leaf \in Ids(s)
    BY <1>1, <1>3, <1>8
  <2>3. Resizes(s, m, leaf, Len(Entries(s, leaf)) + Len(Entries(s, right)))
    BY <1>1, <2>2, RefreshedIs
  <2> HIDE DEF m
  <2>4. Relieved(s, h, [m EXCEPT !.todo = ToRemove(right)], leaf, right, E)
    BY <1>1, <2>2, <2>3, AbsorbedIs
  <2> QED BY <2>1, <2>4
<1> QED BY <1>2, <1>5, <1>6, <1>7, <1>8

(* After a step of a leaf no node is new, and none is gone. *)
LEMMA SameHeightsFrom ==
  ASSUME NEW s, NEW h, NEW t, DOMAIN h \subseteq Ids(s), s.todo = Nothing, t.root = s.root,
         Ids(t) = Ids(s)
  PROVE  /\ DOMAIN HeightsFrom(s, h, t) = DOMAIN h
         /\ \A n \in DOMAIN h : HeightsFrom(s, h, t)[n] = h[n]
<1>1. Grows(s, h, t, HeightsFrom(s, h, t))
  BY HeightsGrow DEF Nothing
<1> QED BY <1>1, GrowsNothing

LEMMA RelievedKeeps ==
  ASSUME NEW s, NEW h, Shape(s, h, None, None), NEW leaf \in DOMAIN h, IsLeaf(s, leaf),
         NEW t, NEW y, NEW E, E \subseteq {leaf}, Relieved(s, h, t, leaf, y, E),
         NEW g, DOMAIN g = DOMAIN h, \A n \in DOMAIN h : g[n] = h[n]
  PROVE  (y = None /\ Ready(t, g, E)) \/ (y # None /\ Removing(t, g, y, E))
<1>1. /\ IsTree(s) /\ DOMAIN h \subseteq Ids(s) /\ IsTree(t) /\ Ids(t) = Ids(s)
  BY DEF Shape, Relieved
<1>2. Shape(t, g, None, y)
  BY SameHeights DEF Relieved
<1>3. Filled(t, g, y, E)
  BY DEF Relieved, Filled
<1>4. \A n \in E \intersect (DOMAIN g \ {y}) : IsLeaf(t, n) /\ NonEmpty(t, n)
  <2>1. ASSUME leaf # y PROVE IsLeaf(t, leaf) /\ NonEmpty(t, leaf)
    <3>1. IsLeaf(t, leaf) /\ Len(Entries(t, leaf)) > Len(Entries(s, leaf))
      BY <1>1, <2>1 DEF Relieved
    <3>2. Len(Entries(s, leaf)) \in Nat /\ Len(Entries(t, leaf)) \in Nat
      BY <1>1, <3>1, CountIs DEF Count
    <3> QED BY <1>1, <3>1, <3>2, NonEmptyIs
  <2> QED BY <2>1
<1>5. CASE y = None
  BY <1>2, <1>3, <1>5 DEF Relieved, Ready
<1>6. CASE y # None
  BY <1>2, <1>3, <1>4, <1>6 DEF Relieved, Removing
<1> QED BY <1>5, <1>6

LEMMA TakeEntryKeeps ==
  ASSUME NEW s, NEW h, Ready(s, h, {}), NEW leaf \in DOMAIN h, IsLeaf(s, leaf),
         NEW index \in 1..Len(Entries(s, leaf)),
         NEW t, t = RemoveEntry(s, leaf, index), NEW g, g = HeightsFrom(s, h, t)
  PROVE  Ready(t, g, {}) \/ \E y : Removing(t, g, y, {})
<1>1. /\ Shape(s, h, None, None) /\ s.todo = Nothing /\ Caps(s) /\ Filled(s, h, None, {})
      /\ DOMAIN h \subseteq Ids(s) /\ None \notin DOMAIN h /\ IsTree(s)
  BY NoneIsNoNode DEF Ready, Shape
<1> DEFINE count == Len(Entries(s, leaf)) - 1
<1>2. PICK d : /\ Resizes(s, d, leaf, count)
               /\ t = IF leaf # s.root /\ Len(Entries(d, leaf)) < s.minLeafEntries
                      THEN RebalanceAfterLeafRemoval(d, leaf) ELSE d
  BY <1>1, RemoveEntryIs
<1> HIDE DEF count
<1>3. Sized(s, h, d, leaf, count, {})
  BY <1>2, ResizedCounts
<1>4. /\ Shape(d, h, None, None) /\ d.todo = Nothing /\ Caps(d) /\ d.root = s.root
      /\ Ids(d) = Ids(s) /\ SameCapacity(s, d)
      /\ IsLeaf(d, leaf) /\ Len(Entries(d, leaf)) = count /\ Count(d, leaf) = count
      /\ Filled(d, h, leaf, {})
  BY <1>3 DEF Sized
<1>5. /\ Count(s, leaf) \in Nat /\ Count(s, leaf) = count + 1
      /\ Count(s, leaf) <= s.maxLeafEntries
      /\ (leaf # s.root => Least.leaf <= Count(s, leaf)) /\ Low(s, leaf) = Low(d, leaf)
      /\ High(d, leaf) = s.maxLeafEntries /\ count \in Nat
  <2>1. Count(s, leaf) \in Nat /\ Count(s, leaf) = Len(Entries(s, leaf))
    BY <1>1, CountIs DEF Count
  <2>2. Count(s, leaf) <= High(s, leaf) /\ Low(s, leaf) <= Count(s, leaf)
    BY <1>1 DEF Filled
  <2>3. d.maxLeafEntries = s.maxLeafEntries
    BY <1>4 DEF SameCapacity
  <2>4. Count(s, leaf) >= 1
    BY <2>1
  <2> QED BY <1>4, <2>1, <2>2, <2>3, <2>4 DEF High, Low, count
<1>6. \A u : u.root = s.root /\ Ids(u) = Ids(s) =>
         /\ DOMAIN HeightsFrom(s, h, u) = DOMAIN h
         /\ \A n \in DOMAIN h : HeightsFrom(s, h, u)[n] = h[n]
  BY <1>1, SameHeightsFrom
<1>7. ASSUME t = d, Low(d, leaf) <= count PROVE Ready(t, g, {})
  <2>1. Count(d, leaf) <= High(d, leaf) /\ Low(d, leaf) <= Count(d, leaf)
    BY <1>1, <1>4, <1>5, <1>7, CapsAre
  <2>2. Filled(d, h, None, {})
    BY <1>4, <2>1 DEF Filled
  <2>3. Ready(d, h, {})
    BY <1>4, <2>2 DEF Ready
  <2> QED BY <1>4, <1>6, <1>7, <2>3, SameHeightsReady
<1>8. CASE leaf = s.root
  <2>1. t = d /\ Low(d, leaf) = 0
    BY <1>2, <1>4, <1>8 DEF Low
  <2> QED BY <1>5, <1>7, <2>1
<1>9. CASE leaf # s.root /\ count >= LeafRebalanceThreshold(d)
  <2>1. Low(d, leaf) = Least.leaf
    BY <1>4, <1>9 DEF Low
  <2>2. Low(d, leaf) <= count
    BY <1>4, <1>5, <1>9, <2>1, CapsAre
  <2>3. RebalanceAfterLeafRemoval(d, leaf) = d
    BY <1>4, <1>9 DEF RebalanceAfterLeafRemoval
  <2> QED BY <1>2, <1>7, <2>2, <2>3
<1>10. CASE leaf # s.root /\ ~(count >= LeafRebalanceThreshold(d))
  <2>1. count < LeafRebalanceThreshold(d)
    BY <1>4, <1>5, <1>10, CapsAre
  <2>2. count < s.minLeafEntries
    BY <1>4, <1>5, <2>1, CapsAre DEF SameCapacity
  <2>3. t = RebalanceAfterLeafRemoval(d, leaf)
    BY <1>2, <1>4, <1>10, <2>2
  <2>4. Least.leaf - 1 <= count
    BY <1>1, <1>5, <1>10, CapsAre
  <2>5. PICK y : Relieved(d, h, t, leaf, y, {})
    <3>1. leaf \in {} \/ Least.leaf - 1 <= Len(Entries(d, leaf))
      BY <1>4, <2>4
    <3>2. leaf \in DOMAIN h \ {d.root} /\ Len(Entries(d, leaf)) < LeafRebalanceThreshold(d)
      BY <1>4, <1>10, <2>1
    <3> QED BY <1>4, <2>3, <3>1, <3>2, RelievedIs
  <2>6. DOMAIN g = DOMAIN h /\ \A n \in DOMAIN h : g[n] = h[n]
    BY <1>4, <1>6, <2>5 DEF Relieved
  <2> QED BY <1>4, <2>5, <2>6, RelievedKeeps
<1> QED BY <1>8, <1>9, <1>10

(* The leaf that is refilled, and how often the loop may still go round.     *)
Refilling(s, h, leaf, guard, y) ==
    /\ leaf \in Ids(s) /\ IsLeaf(s, leaf) /\ guard \in Int /\ guard >= 4
    /\ leaf \in DOMAIN h \ {y} => guard + Len(Entries(s, leaf)) >= s.minLeafEntries + 4
    /\ leaf \notin DOMAIN h => Gone(s, leaf)

LEMMA SpliceKeeps ==
  ASSUME NEW s, NEW h, Ready(s, h, {}), NEW leaf \in DOMAIN h, IsLeaf(s, leaf),
         NEW first \in 1..Len(Entries(s, leaf)), NEW last \in first..Len(Entries(s, leaf)),
         NEW t, t = Splice(s, leaf, first, last), NEW g, g = HeightsFrom(s, h, t)
  PROVE  Ready(t, g, {leaf}) /\ Refilling(t, g, leaf, s.minLeafEntries + 4, None)
<1>1. /\ Shape(s, h, None, None) /\ s.todo = Nothing /\ Caps(s) /\ Filled(s, h, None, {})
      /\ DOMAIN h \subseteq Ids(s) /\ None \notin DOMAIN h /\ IsTree(s)
  BY NoneIsNoNode DEF Ready, Shape
<1> DEFINE count == Len(Entries(s, leaf)) - (last - first + 1)
<1>2. Resizes(s, t, leaf, count)
  BY <1>1, SpliceIs
<1>3. /\ Count(s, leaf) \in Nat /\ Count(s, leaf) = Len(Entries(s, leaf))
      /\ count \in Nat /\ count <= Count(s, leaf)
  BY <1>1, CountIs DEF Count
<1> HIDE DEF count
<1>4. Sized(s, h, t, leaf, count, {})
  BY <1>2, ResizedCounts
<1>5. /\ Shape(t, h, None, None) /\ t.todo = Nothing /\ Caps(t) /\ t.root = s.root
      /\ Ids(t) = Ids(s) /\ SameCapacity(s, t)
      /\ IsLeaf(t, leaf) /\ Len(Entries(t, leaf)) = count /\ Count(t, leaf) = count
      /\ Filled(t, h, leaf, {})
  BY <1>4 DEF Sized
<1>6. Count(t, leaf) <= High(t, leaf)
  <2>1. Count(s, leaf) <= High(s, leaf) /\ High(s, leaf) \in Nat
    BY <1>1, CapsAre DEF Filled, High
  <2>2. High(t, leaf) = High(s, leaf)
    BY <1>5 DEF High, SameCapacity
  <2> QED BY <1>3, <1>5, <2>1, <2>2
<1>7. Filled(t, h, None, {leaf})
  BY <1>5, <1>6 DEF Filled
<1>8. DOMAIN g = DOMAIN h /\ \A n \in DOMAIN h : g[n] = h[n]
  BY <1>1, <1>5, SameHeightsFrom
<1>9. Ready(t, g, {leaf})
  <2>1. Ready(t, h, {leaf})
    BY <1>5, <1>7 DEF Ready
  <2> QED BY <1>8, <2>1, SameHeightsReady
<1>10. s.minLeafEntries \in Nat /\ t.minLeafEntries = s.minLeafEntries
  BY <1>1, <1>5, CapsAre DEF SameCapacity
<1> QED BY <1>1, <1>3, <1>5, <1>8, <1>9, <1>10 DEF Refilling

LEMMA ResumeRefillKeeps ==
  ASSUME NEW s, NEW h, NEW y, NEW leaf, Removing(s, h, y, {leaf}),
         NEW guard, Refilling(s, h, leaf, guard, y),
         NEW t, t = Resume(s), NEW g, g = HeightsFrom(s, h, t)
  PROVE  \/ Ready(t, g, {leaf}) /\ Refilling(t, g, leaf, guard, None)
         \/ \E z : Removing(t, g, z, {leaf}) /\ Refilling(t, g, leaf, guard, z)
<1> DEFINE E == {leaf}
<1> HIDE DEF E
<1>0. Removing(s, h, y, E)
  BY DEF E
<1>1. /\ Removed(s, h, t, g, y)
      /\ \E z : /\ Shape(t, g, None, z) /\ Filled(t, g, z, E)
                /\ t.todo = IF z = None THEN Nothing ELSE ToRemove(z)
                /\ z # None => z \in DOMAIN g \ {t.root}
  BY <1>0, ResumeRemoveIs
<1>2. PICK z : /\ Shape(t, g, None, z) /\ Filled(t, g, z, E)
               /\ t.todo = IF z = None THEN Nothing ELSE ToRemove(z)
               /\ z # None => z \in DOMAIN g \ {t.root}
  BY <1>1
<1>3. /\ Ids(t) = Ids(s) /\ DOMAIN g \subseteq DOMAIN h \ {y} /\ SameCapacity(s, t)
      /\ IsLeaf(t, leaf) /\ Entries(t, leaf) = Entries(s, leaf)
      /\ leaf \in DOMAIN h \ {y} => leaf \in DOMAIN g
  BY <1>1 DEF Removed, Refilling
<1>4. Caps(t)
  BY <1>3, SameCapacityIs DEF Removing
<1>5. Refilling(t, g, leaf, guard, z)
  <2>1. ASSUME leaf \notin DOMAIN g PROVE Gone(t, leaf)
    <3> SUFFICES leaf = y \/ (leaf \notin DOMAIN h /\ Gone(s, leaf))
      BY <1>1, <1>3, <2>1 DEF Removed, Refilling
    <3>1. CASE leaf = y
      BY <3>1
    <3>2. CASE leaf \notin DOMAIN h
      <4>1. Gone(s, leaf)
        BY <3>2 DEF Refilling
      <4> QED BY <3>2, <4>1
    <3>3. CASE leaf \in DOMAIN h \ {y}
      BY <1>3, <2>1, <3>3
    <3> QED BY <3>1, <3>2, <3>3
  <2>2. t.minLeafEntries = s.minLeafEntries
    BY <1>3 DEF SameCapacity
  <2> QED BY <1>3, <2>1, <2>2 DEF Refilling
<1>6. CASE z = None
  BY <1>2, <1>4, <1>5, <1>6 DEF Ready, E
<1>7. CASE z # None
  <2>1. \A n \in E \intersect (DOMAIN g \ {z}) : IsLeaf(t, n) /\ NonEmpty(t, n)
    <3>1. ASSUME leaf \in DOMAIN g PROVE NonEmpty(t, leaf)
      <4>1. NonEmpty(s, leaf) /\ IsLeaf(s, leaf)
        BY <1>0, <1>3, <3>1 DEF Removing, E
      <4> QED BY <1>3, <4>1 DEF NonEmpty
    <3> QED BY <1>3, <3>1 DEF E
  <2>2. Removing(t, g, z, E)
    BY <1>2, <1>4, <1>7, <2>1 DEF Removing
  <2> QED BY <1>5, <2>2 DEF E
<1> QED BY <1>6, <1>7

(* A leaf in the tree is not one that was merged. *)
LEMMA LiveIsNotMerged ==
  ASSUME NEW s, NEW h, Shape(s, h, None, None), NEW leaf \in DOMAIN h, IsLeaf(s, leaf)
  PROVE  ~WasMerged(s, leaf)
<1>1. CASE leaf = s.root
  BY <1>1 DEF WasMerged, Shape
<1>2. CASE leaf # s.root
  <2> DEFINE p == Parent(s, leaf)
  <2>1. Over(s, h, None, p) /\ leaf \in Held(Children(s, p)) /\ p # None /\ IsTree(s)
    BY <1>2, ParentIs DEF Shape
  <2>2. PICK i \in DOMAIN Children(s, p) : Children(s, p)[i] = leaf
    BY <2>1 DEF Held
  <2>3. Position(s, leaf) = i
    <3>1. Placed(s, p) /\ Parent(s, Children(s, p)[i]) = p
      BY <2>1, <2>2 DEF Over
    <3> HIDE DEF p
    <3> QED BY <2>1, <2>2, <3>1, PositionIs
  <2> QED BY <2>1, <2>2, <2>3 DEF WasMerged, IsLeafStillValid
<1> QED BY <1>1, <1>2

LEMMA GoneIsMerged ==
  ASSUME NEW s, IsTree(s), NEW leaf \in Ids(s), Gone(s, leaf)
  PROVE  WasMerged(s, leaf)
<1> DEFINE p == Parent(s, leaf)
           kids == Children(s, p)
<1>1. p # None /\ p \in Ids(s) /\ leaf \notin Held(kids)
  BY NoneIsNoNode DEF Gone
<1>2. ~(Position(s, leaf) \in DOMAIN kids /\ kids[Position(s, leaf)] = leaf)
  <2> HIDE DEF kids
  <2> QED BY <1>1 DEF Held
<1> QED BY <1>1, <1>2 DEF WasMerged, IsLeafStillValid

(* One round of the loop that refills a leaf. *)
LEMMA RefillKeeps ==
  ASSUME NEW s, NEW h, NEW leaf, Ready(s, h, {leaf}), NEW guard, Refilling(s, h, leaf, guard, None),
         ~IsRefilled(s, leaf), ~WasMerged(s, leaf),
         NEW t, t = RebalanceAfterLeafRemoval(s, leaf), NEW g, g = HeightsFrom(s, h, t)
  PROVE  \/ Ready(t, g, {leaf}) /\ Refilling(t, g, leaf, guard - 1, None)
         \/ \E z : Removing(t, g, z, {leaf}) /\ Refilling(t, g, leaf, guard - 1, z)
<1>1. /\ Shape(s, h, None, None) /\ s.todo = Nothing /\ Caps(s) /\ Filled(s, h, None, {leaf})
      /\ DOMAIN h \subseteq Ids(s) /\ None \notin DOMAIN h /\ IsTree(s)
      /\ leaf \in Ids(s) /\ IsLeaf(s, leaf) /\ guard \in Int /\ guard >= 4
  BY NoneIsNoNode DEF Ready, Shape, Refilling
<1>2. leaf \in DOMAIN h
  BY <1>1, GoneIsMerged DEF Refilling
<1>3. /\ leaf # s.root /\ Len(Entries(s, leaf)) \in Nat /\ LeafRebalanceThreshold(s) \in Nat
      /\ Len(Entries(s, leaf)) < LeafRebalanceThreshold(s)
      /\ LeafRebalanceThreshold(s) <= s.minLeafEntries /\ s.minLeafEntries \in Nat
  <2>1. leaf # s.root /\ ~(Len(Entries(s, leaf)) >= LeafRebalanceThreshold(s))
    BY DEF IsRefilled
  <2>2. Len(Entries(s, leaf)) \in Nat
    BY <1>1, CountIs DEF Count
  <2> QED BY <1>1, <2>1, <2>2, CapsAre
<1>4. guard + Len(Entries(s, leaf)) >= s.minLeafEntries + 4
  BY <1>1, <1>2 DEF Refilling
<1>5. guard >= 5
  BY <1>1, <1>3, <1>4
<1>6. PICK z : Relieved(s, h, t, leaf, z, {leaf})
  <2>1. Filled(s, h, leaf, {})
    BY <1>1 DEF Filled
  <2>2. leaf \in {leaf} \/ Least.leaf - 1 <= Len(Entries(s, leaf))
    OBVIOUS
  <2>3. leaf \in DOMAIN h \ {s.root}
    BY <1>2, <1>3
  <2> DEFINE E == {leaf}
  <2>4. leaf \in E \/ Least.leaf - 1 <= Len(Entries(s, leaf))
    OBVIOUS
  <2> HIDE DEF E
  <2>5. \E z : Relieved(s, h, t, leaf, z, E)
    BY <1>1, <1>3, <2>1, <2>3, <2>4, RelievedIs
  <2> QED BY <2>5 DEF E
<1>7. /\ t.root = s.root /\ Ids(t) = Ids(s) /\ SameCapacity(s, t) /\ IsLeaf(t, leaf)
      /\ z # leaf => Len(Entries(t, leaf)) > Len(Entries(s, leaf))
  BY <1>1, <1>6 DEF Relieved
<1>8. DOMAIN g = DOMAIN h /\ \A n \in DOMAIN h : g[n] = h[n]
  BY <1>1, <1>7, SameHeightsFrom
<1>9. (z = None /\ Ready(t, g, {leaf})) \/ (z # None /\ Removing(t, g, z, {leaf}))
  <2> DEFINE E == {leaf}
  <2>1. E \subseteq {leaf} /\ Relieved(s, h, t, leaf, z, E)
    BY <1>6
  <2> HIDE DEF E
  <2>2. (z = None /\ Ready(t, g, E)) \/ (z # None /\ Removing(t, g, z, E))
    BY <1>1, <1>2, <1>8, <2>1, RelievedKeeps
  <2> QED BY <2>2 DEF E
<1>10. Refilling(t, g, leaf, guard - 1, z)
  <2>1. leaf \in DOMAIN g
    BY <1>2, <1>8
  <2>2. t.minLeafEntries = s.minLeafEntries
    BY <1>7 DEF SameCapacity
  <2>3. ASSUME z # leaf PROVE guard - 1 + Len(Entries(t, leaf)) >= s.minLeafEntries + 4
    <3>1. IsTree(t)
      BY <1>6 DEF Relieved, Shape
    <3>2. Len(Entries(t, leaf)) \in Nat
      BY <1>1, <1>7, <3>1, CountIs DEF Count
    <3> QED BY <1>1, <1>3, <1>4, <1>7, <2>3, <3>2
  <2>4. guard - 1 \in Int /\ guard - 1 >= 4
    BY <1>1, <1>5
  <2> QED BY <1>1, <1>7, <2>1, <2>2, <2>3, <2>4 DEF Refilling
<1> QED BY <1>9, <1>10

(* The leaf is full enough, or no longer in the tree. *)
LEMMA RefilledIsReady ==
  ASSUME NEW s, NEW h, NEW leaf, Ready(s, h, {leaf}), NEW guard, Refilling(s, h, leaf, guard, None),
         IsRefilled(s, leaf) \/ WasMerged(s, leaf)
  PROVE  Ready(s, h, {})
<1>1. /\ Shape(s, h, None, None) /\ Caps(s) /\ Filled(s, h, None, {leaf}) /\ IsTree(s)
      /\ IsLeaf(s, leaf) /\ leaf \in Ids(s)
  BY DEF Ready, Refilling, Shape
<1>2. leaf \in DOMAIN h => Low(s, leaf) <= Count(s, leaf)
  <2>1. ASSUME leaf \in DOMAIN h PROVE Low(s, leaf) <= Count(s, leaf)
    <3>1. IsRefilled(s, leaf)
      BY <1>1, <2>1, LiveIsNotMerged
    <3>2. Count(s, leaf) \in Nat /\ Count(s, leaf) = Len(Entries(s, leaf))
      BY <1>1, CountIs DEF Count
    <3>3. CASE leaf = s.root
      BY <1>1, <3>2, <3>3 DEF Low
    <3>4. CASE leaf # s.root
      <4>1. Len(Entries(s, leaf)) >= LeafRebalanceThreshold(s) /\ Low(s, leaf) = Least.leaf
        BY <1>1, <3>1, <3>4 DEF IsRefilled, Low
      <4> QED BY <1>1, <3>2, <4>1, CapsAre
    <3> QED BY <3>3, <3>4
  <2> QED BY <2>1
<1>3. Filled(s, h, None, {})
  BY <1>1, <1>2 DEF Filled
<1> QED BY <1>3 DEF Ready

LEMMA ReachedIs ==
  ASSUME NEW count
  PROVE  /\ Reached(count) \subseteq 1..Len(Tiers) /\ IsFiniteSet(Reached(count))
         /\ Cardinality(Reached(count)) \in 1..Len(Tiers)
<1>1. DOMAIN Tiers = 1..Len(Tiers) /\ Len(Tiers) \in Nat /\ Len(Tiers) >= 1
  BY TiersAssumption
<1>2. Reached(count) \in SUBSET (1..Len(Tiers)) /\ 1 \in Reached(count)
  BY <1>1 DEF Reached
<1>3. IsFiniteSet(1..Len(Tiers)) /\ Cardinality(1..Len(Tiers)) = Len(Tiers)
  BY <1>1, FS_Interval
<1>4. IsFiniteSet(Reached(count)) /\ Cardinality(Reached(count)) <= Len(Tiers)
  BY <1>2, <1>3, FS_Subset
<1>5. Cardinality(Reached(count)) \in Nat /\ Cardinality(Reached(count)) # 0
  BY <1>2, <1>4, FS_CardinalityType, FS_EmptySet
<1> QED BY <1>1, <1>2, <1>4, <1>5

LEMMA LargerIs ==
  ASSUME NEW a \in Nat, NEW b \in Nat
  PROVE  Larger(a, b) \in Nat /\ Larger(a, b) >= a /\ Larger(a, b) >= b
BY DEF Larger

LEMMA SeqElementIs ==
  ASSUME NEW S, NEW q \in Seq(S), NEW i \in 1..Len(q)
  PROVE  q[i] \in S
OBVIOUS

(* Other capacities, the same nodes. *)
LEMMA WithCapacityIs ==
  ASSUME NEW s, IsTree(s), NEW a, NEW c, NEW t, t = WithCapacity(s, a, c)
  PROVE  /\ IsTree(t) /\ t.nodes = s.nodes /\ t.root = s.root /\ t.todo = s.todo
         /\ t.broken = s.broken /\ t.maxLeafEntries = a /\ t.minLeafEntries = Half(a)
         /\ t.maxBranchChildren = c /\ t.minBranchChildren = Half(c)
         /\ t.entryCount = s.entryCount
<1> DEFINE b == Half(a)
           d == Half(c)
<1>1. t = [s EXCEPT !.maxLeafEntries = a, !.minLeafEntries = b,
                    !.maxBranchChildren = c, !.minBranchChildren = d]
  BY DEF WithCapacity
<1> HIDE DEF b, d
<1>2. /\ IsTree(t) /\ t.nodes = s.nodes /\ t.root = s.root /\ t.todo = s.todo
      /\ t.broken = s.broken /\ t.maxLeafEntries = a /\ t.minLeafEntries = b
      /\ t.maxBranchChildren = c /\ t.minBranchChildren = d
      /\ t.entryCount = s.entryCount
  BY <1>1 DEF IsTree
<1> QED BY <1>2 DEF b, d

LEMMA WithThresholdIs ==
  ASSUME NEW s, IsTree(s), NEW e, NEW t, t = [s EXCEPT !.nextAutoScaleThreshold = e]
  PROVE  /\ IsTree(t) /\ t.nodes = s.nodes /\ t.root = s.root /\ t.todo = s.todo
         /\ t.broken = s.broken
         /\ t.maxLeafEntries = s.maxLeafEntries /\ t.minLeafEntries = s.minLeafEntries
         /\ t.maxBranchChildren = s.maxBranchChildren
         /\ t.minBranchChildren = s.minBranchChildren
         /\ t.entryCount = s.entryCount
BY DEF IsTree

(* What maybeAutoScale does. *)
LEMMA AutoScaleIs ==
  ASSUME NEW s, IsTree(s), Caps(s), NEW t, t = MaybeAutoScale(s)
  PROVE  /\ IsTree(t) /\ t.nodes = s.nodes /\ t.root = s.root /\ t.todo = s.todo
         /\ t.broken = s.broken /\ Caps(t)
         /\ t.maxLeafEntries >= s.maxLeafEntries /\ t.maxBranchChildren >= s.maxBranchChildren
<1>1. /\ s.maxLeafEntries \in Nat /\ s.maxLeafEntries >= InitialCapacity.maxLeaf
      /\ s.maxBranchChildren \in Nat /\ s.maxBranchChildren >= InitialCapacity.maxBranch
  BY DEF Caps
<1>2. CASE s.entryCount < s.nextAutoScaleThreshold
  <2>1. t = s
    BY <1>2 DEF MaybeAutoScale
  <2> QED BY <1>1, <2>1
<1>3. CASE ~(s.entryCount < s.nextAutoScaleThreshold)
  <2> DEFINE tier == ComputeAutoScaleTier(s.entryCount)
             a == Larger(tier.maxLeaf, s.maxLeafEntries)
             c == Larger(tier.maxBranch, s.maxBranchChildren)
             e == ComputeNextAutoScaleThreshold(s.entryCount)
             grown == WithCapacity(s, a, c)
  <2>1. tier.maxLeaf \in Nat /\ tier.maxBranch \in Nat
    <3>1. PICK i \in 1..Len(Tiers) : tier = Tiers[i]
      BY ReachedIs DEF ComputeAutoScaleTier
    <3>2. Tiers[i] \in [threshold : Nat, maxLeaf : Nat, maxBranch : Nat]
      BY SeqElementIs, TiersAssumption
    <3> QED BY <3>1, <3>2
  <2> HIDE DEF tier
  <2>2. a \in Nat /\ a >= s.maxLeafEntries /\ c \in Nat /\ c >= s.maxBranchChildren
    BY <1>1, <2>1, LargerIs
  <2>3. t = [grown EXCEPT !.nextAutoScaleThreshold = e]
    BY <1>3 DEF MaybeAutoScale, tier
  <2> HIDE DEF a, c, e
  <2>4. /\ IsTree(grown) /\ grown.nodes = s.nodes /\ grown.root = s.root
        /\ grown.todo = s.todo /\ grown.broken = s.broken
        /\ grown.maxLeafEntries = a /\ grown.minLeafEntries = Half(a)
        /\ grown.maxBranchChildren = c /\ grown.minBranchChildren = Half(c)
    BY WithCapacityIs
  <2> HIDE DEF grown
  <2>5. /\ IsTree(t) /\ t.nodes = s.nodes /\ t.root = s.root /\ t.todo = s.todo
        /\ t.broken = s.broken /\ t.maxLeafEntries = a /\ t.minLeafEntries = Half(a)
        /\ t.maxBranchChildren = c /\ t.minBranchChildren = Half(c)
    BY <2>3, <2>4, WithThresholdIs
  <2>6. Caps(t)
    <3>1. a >= InitialCapacity.maxLeaf /\ c >= InitialCapacity.maxBranch
      BY <1>1, <2>2, InitialCapacityIs
    <3> QED BY <2>2, <2>5, <3>1 DEF Caps
  <2> QED BY <2>2, <2>5, <2>6
<1> QED BY <1>2, <1>3

LEMMA AutoScaleKeeps ==
  ASSUME NEW s, NEW h, Ready(s, h, {}), NEW t, t = MaybeAutoScale(s)
  PROVE  Ready(t, h, {})
<1>1. /\ Shape(s, h, None, None) /\ s.todo = Nothing /\ Caps(s) /\ Filled(s, h, None, {})
      /\ DOMAIN h \subseteq Ids(s) /\ IsTree(s)
  BY DEF Ready, Shape
<1>2. /\ IsTree(t) /\ t.nodes = s.nodes /\ t.root = s.root /\ t.todo = s.todo
      /\ t.broken = s.broken /\ Caps(t)
      /\ t.maxLeafEntries >= s.maxLeafEntries /\ t.maxBranchChildren >= s.maxBranchChildren
  BY <1>1, AutoScaleIs
<1>3. Shape(t, h, None, None)
  BY <1>1, <1>2, TodoShape
<1>4. ASSUME NEW n \in DOMAIN h \ {None}
      PROVE  Count(t, n) <= High(t, n) /\ Low(t, n) <= Count(t, n)
  <2>1. Count(t, n) = Count(s, n) /\ (IsLeaf(t, n) <=> IsLeaf(s, n))
    BY <1>2 DEF Count, IsLeaf, Entries, Children
  <2>2. Count(s, n) <= High(s, n) /\ Low(s, n) <= Count(s, n)
    BY <1>1, <1>4 DEF Filled
  <2>3. Low(t, n) = Low(s, n)
    BY <1>2, <2>1 DEF Low
  <2>4. High(s, n) <= High(t, n) /\ High(s, n) \in Nat /\ High(t, n) \in Nat
    BY <1>1, <1>2, <2>1, CapsAre DEF High
  <2>5. Count(s, n) \in Nat
    BY <1>1, CountIs
  <2> QED BY <2>1, <2>2, <2>3, <2>4, <2>5
<1>5. Filled(t, h, None, {})
  BY <1>4 DEF Filled
<1> QED BY <1>1, <1>2, <1>3, <1>5 DEF Ready

(* A tree of one empty leaf. *)
LEMMA OneLeafIsReady ==
  ASSUME NEW t, IsTree(t), t.broken = FALSE, t.nodes = <<LeafNode(<<>>, None)>>, t.root = 1,
         t.todo = Nothing, Caps(t)
  PROVE  Ready(t, [n \in {1} |-> 0], {})
<1> DEFINE h == [n \in {1} |-> 0]
<1>1. DOMAIN h = {1} /\ h[1] = 0
  OBVIOUS
<1> HIDE DEF h
<1>2. /\ Ids(t) = {1} /\ t.nodes[1] = LeafNode(<<>>, None)
  BY DEF Ids
<1>3. IsLeaf(t, 1) /\ Entries(t, 1) = <<>> /\ Parent(t, 1) = None
  BY <1>2 DEF IsLeaf, Entries, Parent, LeafNode
<1>4. Shape(t, h, None, None)
  BY <1>1, <1>2, <1>3 DEF Shape, None
<1>5. Filled(t, h, None, {})
  <2>1. Count(t, 1) = 0 /\ High(t, 1) = t.maxLeafEntries /\ Low(t, 1) = 0
    BY <1>3 DEF Count, High, Low
  <2>2. t.maxLeafEntries \in Nat
    BY DEF Caps
  <2> QED BY <1>1, <2>1, <2>2 DEF Filled
<1>6. Ready(t, h, {})
  BY <1>4, <1>5 DEF Ready
<1> QED BY <1>6 DEF h

LEMMA EmptyLeafIs == <<LeafNode(<<>>, None)>> \in Seq(LeafNodes \union BranchNodes)
<1>1. LeafNode(<<>>, None) \in LeafNodes
  BY DEF LeafNode, LeafNodes, None
<1> QED BY <1>1

LEMMA InitIsReady == Ready(CreateInitialState, [n \in {1} |-> 0], {})
<1> DEFINE t == CreateInitialState
<1>1. /\ t.broken = FALSE /\ t.nodes = <<LeafNode(<<>>, None)>> /\ t.root = 1 /\ t.todo = Nothing
      /\ t.maxLeafEntries = InitialCapacity.maxLeaf /\ t.minLeafEntries = Half(InitialCapacity.maxLeaf)
      /\ t.maxBranchChildren = InitialCapacity.maxBranch
      /\ t.minBranchChildren = Half(InitialCapacity.maxBranch)
  BY DEF CreateInitialState
<1>2. IsTree(t)
  BY EmptyLeafIs DEF CreateInitialState, IsTree
<1> HIDE DEF t
<1>3. Caps(t)
  BY <1>1, InitialCapacityIs DEF Caps
<1> QED BY <1>1, <1>2, <1>3, OneLeafIsReady DEF t

Emptied(s, nodes, first, none, ids) ==
    [s EXCEPT !.nodes = nodes, !.root = first, !.leftmostLeaf = first,
              !.rightmostLeaf = first, !.entryCount = none, !.entryKeys = ids]

IsEmptied(s, c, nodes, first) ==
    /\ IsTree(c) /\ c.nodes = nodes /\ c.root = first /\ c.todo = s.todo
    /\ c.broken = s.broken
    /\ c.maxLeafEntries = s.maxLeafEntries /\ c.minLeafEntries = s.minLeafEntries
    /\ c.maxBranchChildren = s.maxBranchChildren
    /\ c.minBranchChildren = s.minBranchChildren

LEMMA EmptiedIs ==
  ASSUME NEW s, IsTree(s), NEW nodes \in Seq(LeafNodes \union BranchNodes),
         NEW first, NEW none, NEW ids
  PROVE  IsEmptied(s, Emptied(s, nodes, first, none, ids), nodes, first)
<1> DEFINE c == Emptied(s, nodes, first, none, ids)
<1>1. c = [s EXCEPT !.nodes = nodes, !.root = first, !.leftmostLeaf = first,
                    !.rightmostLeaf = first, !.entryCount = none, !.entryKeys = ids]
  BY DEF Emptied
<1> HIDE DEF c
<1>2. IsTree(c) /\ c.nodes = nodes /\ c.root = first /\ c.todo = s.todo
  BY <1>1 DEF IsTree
<1>3. /\ c.broken = s.broken
      /\ c.maxLeafEntries = s.maxLeafEntries /\ c.minLeafEntries = s.minLeafEntries
      /\ c.maxBranchChildren = s.maxBranchChildren
      /\ c.minBranchChildren = s.minBranchChildren
  BY <1>1 DEF IsTree
<1>4. IsEmptied(s, c, nodes, first)
  BY <1>2, <1>3 DEF IsEmptied
<1> QED BY <1>4 DEF c

LEMMA ClearKeeps ==
  ASSUME NEW s, NEW h, Ready(s, h, {})
  PROVE  Ready(ClearTree(s).tree, [n \in {1} |-> 0], {})
<1> DEFINE ids == IF EnableEntryIdLookup THEN <<>> ELSE s.entryKeys
           empty == <<LeafNode(<<>>, None)>>
           c == [s EXCEPT !.nodes = empty, !.root = 1,
                          !.leftmostLeaf = 1, !.rightmostLeaf = 1, !.entryCount = 0,
                          !.entryKeys = ids]
<1>1. IsTree(s) /\ Caps(s) /\ s.todo = Nothing /\ s.broken = FALSE
  BY DEF Ready, Shape
<1>2. ClearTree(s).tree = IF AutoScale THEN ResetAutoScaleToTier0(c) ELSE c
  BY DEF ClearTree, Returned
<1>3. empty \in Seq(LeafNodes \union BranchNodes)
  BY EmptyLeafIs
<1> HIDE DEF ids, empty
<1>31. c = Emptied(s, empty, 1, 0, ids)
  BY DEF Emptied
<1> HIDE DEF c
<1>4. /\ IsTree(c) /\ c.nodes = empty /\ c.root = 1 /\ c.todo = Nothing /\ c.broken = FALSE
      /\ c.maxLeafEntries = s.maxLeafEntries /\ c.minLeafEntries = s.minLeafEntries
      /\ c.maxBranchChildren = s.maxBranchChildren /\ c.minBranchChildren = s.minBranchChildren
  <2>1. IsTree(s)
    BY <1>1
  <2>2. IsEmptied(s, c, empty, 1)
    BY <2>1, <1>3, <1>31, EmptiedIs
  <2> QED BY <1>1, <2>2 DEF IsEmptied
<1>5. CASE ~AutoScale
  <2>1. Caps(c)
    BY <1>1, <1>4 DEF Caps
  <2> QED BY <1>2, <1>4, <1>5, <2>1, OneLeafIsReady DEF empty
<1>6. CASE AutoScale
  <2> DEFINE t == ResetAutoScaleToTier0(c)
             a == Tiers[1].maxLeaf
             k == Tiers[1].maxBranch
             e == ComputeNextAutoScaleThreshold(0)
             first == WithCapacity(c, a, k)
  <2>1. t = [first EXCEPT !.nextAutoScaleThreshold = e]
    BY DEF ResetAutoScaleToTier0
  <2>2. a = InitialCapacity.maxLeaf /\ k = InitialCapacity.maxBranch
    BY <1>6 DEF InitialCapacity
  <2> HIDE DEF a, k, e, t
  <2>3. /\ IsTree(first) /\ first.nodes = empty /\ first.root = 1 /\ first.todo = Nothing
        /\ first.broken = FALSE
        /\ first.maxLeafEntries = a /\ first.minLeafEntries = Half(a)
        /\ first.maxBranchChildren = k /\ first.minBranchChildren = Half(k)
    BY <1>4, WithCapacityIs
  <2> HIDE DEF first
  <2>4. /\ IsTree(t) /\ t.nodes = empty /\ t.root = 1 /\ t.todo = Nothing /\ t.broken = FALSE
        /\ t.maxLeafEntries = a /\ t.minLeafEntries = Half(a)
        /\ t.maxBranchChildren = k /\ t.minBranchChildren = Half(k)
    BY <2>1, <2>3, WithThresholdIs
  <2>5. Caps(t)
    BY <2>2, <2>4, InitialCapacityIs DEF Caps
  <2>6. Ready(t, [n \in {1} |-> 0], {})
    BY <2>4, <2>5, OneLeafIsReady DEF empty
  <2> QED BY <1>2, <1>6, <2>6 DEF t
<1> QED BY <1>5, <1>6

(* A call that puts an entry, one that takes an entry, and one that refills  *)
(* the leaf of a splice, on the tree s with the heights h.                   *)
AddUnderWay(s, h) == Ready(s, h, {}) \/ \E x : Adding(s, h, x)
TakeUnderWay(s, h) == Ready(s, h, {}) \/ \E y : Removing(s, h, y, {})
RefillUnderWay(s, h, leaf, guard) ==
    \/ Ready(s, h, {leaf}) /\ Refilling(s, h, leaf, guard, None)
    \/ \E y : Removing(s, h, y, {leaf}) /\ Refilling(s, h, leaf, guard, y)
AddCall == [AtRest EXCEPT !.op = "add"]
TakeCall == [AtRest EXCEPT !.op = "take"]
RefillCall(leaf, guard) == [op |-> "refill", leaf |-> leaf, guard |-> guard]

(* The inductive invariant of Balancing: the tree is sound but for the one   *)
(* node that the rest of the call is about.                                  *)
Balanced ==
    \/ call = AtRest /\ Ready(tree, height, {})
    \/ call = AddCall /\ AddUnderWay(tree, height)
    \/ call = TakeCall /\ TakeUnderWay(tree, height)
    \/ \E leaf, guard : call = RefillCall(leaf, guard) /\ RefillUnderWay(tree, height, leaf, guard)

LEMMA CallsDiffer ==
  /\ AtRest.op = "none" /\ AddCall.op = "add"
  /\ TakeCall.op = "take"
  /\ \A leaf, guard : /\ RefillCall(leaf, guard).op = "refill"
                      /\ RefillCall(leaf, guard).leaf = leaf
                      /\ RefillCall(leaf, guard).guard = guard
BY DEF AtRest, AddCall, TakeCall, RefillCall

LEMMA TodoTells ==
  /\ \A y : ToRemove(y) # Nothing
  /\ \A b, e, x : ToInsert(b, e, x) # Nothing
BY DEF ToRemove, ToInsert, Nothing

LEMMA AtRestIs ==
  ASSUME Balanced, call = AtRest
  PROVE  Ready(tree, height, {})
BY CallsDiffer DEF Balanced

LEMMA AddIs ==
  ASSUME Balanced, call.op = "add"
  PROVE  call = AddCall /\ AddUnderWay(tree, height)
BY CallsDiffer DEF Balanced

LEMMA TakeIs ==
  ASSUME Balanced, call.op = "take"
  PROVE  call = TakeCall /\ TakeUnderWay(tree, height)
BY CallsDiffer DEF Balanced

LEMMA RefillIs ==
  ASSUME Balanced, call.op = "refill"
  PROVE  /\ call = RefillCall(call.leaf, call.guard)
         /\ RefillUnderWay(tree, height, call.leaf, call.guard)
<1>1. PICK leaf, guard : call = RefillCall(leaf, guard) /\ RefillUnderWay(tree, height, leaf, guard)
  BY CallsDiffer DEF Balanced
<1>2. call.leaf = leaf /\ call.guard = guard
  BY <1>1, CallsDiffer
<1> QED BY <1>1, <1>2

LEMMA NothingToInsert ==
  ASSUME NEW s, NEW h, s.todo = Nothing, AddUnderWay(s, h)
  PROVE  Ready(s, h, {})
<1>1. ASSUME NEW x, Adding(s, h, x) PROVE FALSE
  BY <1>1, TodoTells DEF Adding
<1> QED BY <1>1 DEF AddUnderWay

LEMMA NothingToRemove ==
  ASSUME NEW s, NEW h, s.todo = Nothing
  PROVE  /\ TakeUnderWay(s, h) => Ready(s, h, {})
         /\ \A leaf, guard : RefillUnderWay(s, h, leaf, guard) =>
               Ready(s, h, {leaf}) /\ Refilling(s, h, leaf, guard, None)
<1>1. ASSUME NEW y, NEW E, Removing(s, h, y, E) PROVE FALSE
  BY <1>1, TodoTells DEF Removing
<1> QED BY <1>1 DEF TakeUnderWay, RefillUnderWay

LEMMA ResumeTakeKeeps ==
  ASSUME NEW s, NEW h, NEW y, Removing(s, h, y, {}),
         NEW t, t = Resume(s), NEW g, g = HeightsFrom(s, h, t)
  PROVE  TakeUnderWay(t, g)
<1> DEFINE E == {}
<1>1. E = {} OBVIOUS
<1>2. Removing(s, h, y, E)
  BY <1>1
<1> HIDE DEF E
<1>3. /\ Removed(s, h, t, g, y)
      /\ \E z : /\ Shape(t, g, None, z) /\ Filled(t, g, z, E)
                /\ t.todo = IF z = None THEN Nothing ELSE ToRemove(z)
                /\ z # None => z \in DOMAIN g \ {t.root}
  BY <1>2, ResumeRemoveIs
<1>4. Caps(t)
  <2>1. SameCapacity(s, t) /\ Caps(s)
    BY <1>2, <1>3 DEF Removed, Removing
  <2> QED BY <2>1, SameCapacityIs
<1>5. PICK z : /\ Shape(t, g, None, z) /\ Filled(t, g, z, E)
               /\ t.todo = IF z = None THEN Nothing ELSE ToRemove(z)
               /\ z # None => z \in DOMAIN g \ {t.root}
  BY <1>3
<1>6. CASE z = None
  <2>1. Shape(t, g, None, None) /\ Filled(t, g, None, E) /\ t.todo = Nothing
    BY <1>5, <1>6
  <2>2. Ready(t, g, E)
    BY <2>1, <1>4 DEF Ready
  <2> QED BY <2>2, <1>1 DEF TakeUnderWay
<1>7. CASE z # None
  <2>1. Removing(t, g, z, E)
    <3>1. \A n \in E \intersect (DOMAIN g \ {z}) : IsLeaf(t, n) /\ NonEmpty(t, n)
      BY <1>1
    <3> QED BY <1>4, <1>5, <1>7, <3>1 DEF Removing
  <2> QED BY <2>1, <1>1 DEF TakeUnderWay
<1> QED BY <1>6, <1>7

LEMMA BecomesIs ==
  ASSUME NEW next, Becomes(next)
  PROVE  tree' = next /\ height' = HeightsFrom(tree, height, tree')
BY DEF Becomes, HeightsIn, HeightsFrom

-----------------------------------------------------------------------------
(* One lemma for each action. *)

LEMMA AddAnEntryKeeps ==
  ASSUME Balanced, AddAnEntry
  PROVE  Balanced'
<1>1. Ready(tree, height, {})
  BY AtRestIs DEF AddAnEntry
<1>2. PICK leaf \in LiveLeaves, e \in NewEntries : \E index \in 1..Size(leaf) + 1 :
          Becomes(AddEntry(tree, leaf, index, e))
  BY DEF AddAnEntry
<1>3. PICK index \in 1..Size(leaf) + 1 : Becomes(AddEntry(tree, leaf, index, e))
  BY <1>2
<1>4. tree' = AddEntry(tree, leaf, index, e) /\ height' = HeightsFrom(tree, height, tree')
  BY <1>3, BecomesIs
<1>5. leaf \in DOMAIN height /\ IsLeaf(tree, leaf) /\ index \in 1..Len(Entries(tree, leaf)) + 1
  BY DEF LiveLeaves, Size
<1>6. Ready(tree', height', {}) \/ \E x : Adding(tree', height', x)
  BY <1>1, <1>4, <1>5, AddEntryKeeps
<1>7. call' = AddCall
  BY DEF AddAnEntry, AddCall
<1> QED BY <1>6, <1>7 DEF Balanced, AddUnderWay

LEMMA TakeAnEntryKeeps ==
  ASSUME Balanced, TakeAnEntry
  PROVE  Balanced'
<1>1. Ready(tree, height, {})
  BY AtRestIs DEF TakeAnEntry
<1>2. PICK leaf \in LiveLeaves : \E index \in 1..Size(leaf) :
          Becomes(RemoveEntry(tree, leaf, index))
  BY DEF TakeAnEntry
<1>3. PICK index \in 1..Size(leaf) : Becomes(RemoveEntry(tree, leaf, index))
  BY <1>2
<1>4. tree' = RemoveEntry(tree, leaf, index) /\ height' = HeightsFrom(tree, height, tree')
  BY <1>3, BecomesIs
<1>5. leaf \in DOMAIN height /\ IsLeaf(tree, leaf) /\ index \in 1..Len(Entries(tree, leaf))
  BY DEF LiveLeaves, Size
<1>6. Ready(tree', height', {}) \/ \E y : Removing(tree', height', y, {})
  BY <1>1, <1>4, <1>5, TakeEntryKeeps
<1>7. call' = TakeCall
  BY DEF TakeAnEntry, TakeCall
<1> QED BY <1>6, <1>7 DEF Balanced, TakeUnderWay

LEMMA DeleteRunKeeps ==
  ASSUME Balanced, DeleteRun
  PROVE  Balanced'
<1>1. Ready(tree, height, {})
  BY AtRestIs DEF DeleteRun
<1>2. PICK leaf \in LiveLeaves : \E first \in 1..Size(leaf) : \E last \in first..Size(leaf) :
          /\ Becomes(Splice(tree, leaf, first, last))
          /\ call' = RefillCall(leaf, tree.minLeafEntries + 4)
  BY DEF DeleteRun, RefillCall
<1>3. PICK first \in 1..Size(leaf) : \E last \in first..Size(leaf) :
          /\ Becomes(Splice(tree, leaf, first, last))
          /\ call' = RefillCall(leaf, tree.minLeafEntries + 4)
  BY <1>2
<1>4. PICK last \in first..Size(leaf) :
          /\ Becomes(Splice(tree, leaf, first, last))
          /\ call' = RefillCall(leaf, tree.minLeafEntries + 4)
  BY <1>3
<1>5. tree' = Splice(tree, leaf, first, last) /\ height' = HeightsFrom(tree, height, tree')
  BY <1>4, BecomesIs
<1>6. /\ leaf \in DOMAIN height /\ IsLeaf(tree, leaf)
      /\ first \in 1..Len(Entries(tree, leaf)) /\ last \in first..Len(Entries(tree, leaf))
  BY DEF LiveLeaves, Size
<1>7. Ready(tree', height', {leaf}) /\ Refilling(tree', height', leaf, tree.minLeafEntries + 4, None)
  BY <1>1, <1>5, <1>6, SpliceKeeps
<1> QED BY <1>4, <1>7 DEF Balanced, RefillUnderWay

LEMMA ContinueKeeps ==
  ASSUME Balanced, Continue
  PROVE  Balanced'
<1>1. tree.todo # Nothing /\ tree' = Resume(tree) /\ height' = HeightsFrom(tree, height, tree')
      /\ call' = call
  BY BecomesIs DEF Continue
<1>2. \A E : ~Ready(tree, height, E)
  BY <1>1 DEF Ready
<1>3. CASE call = AtRest /\ Ready(tree, height, {})
  BY <1>2, <1>3
<1>4. CASE call = AddCall /\ AddUnderWay(tree, height)
  <2>1. PICK x : Adding(tree, height, x)
    BY <1>2, <1>4 DEF AddUnderWay
  <2>2. Ready(tree', height', {}) \/ \E z : Adding(tree', height', z)
    BY <1>1, <2>1, ResumeAddKeeps
  <2> QED BY <1>1, <1>4, <2>2 DEF Balanced, AddUnderWay
<1>5. CASE call = TakeCall /\ TakeUnderWay(tree, height)
  <2>1. PICK y : Removing(tree, height, y, {})
    BY <1>2, <1>5 DEF TakeUnderWay
  <2>2. TakeUnderWay(tree', height')
    BY <1>1, <2>1, ResumeTakeKeeps
  <2> QED BY <1>1, <1>5, <2>2 DEF Balanced
<1>6. ASSUME NEW leaf, NEW guard, call = RefillCall(leaf, guard),
             RefillUnderWay(tree, height, leaf, guard)
      PROVE  Balanced'
  <2>1. PICK y : Removing(tree, height, y, {leaf}) /\ Refilling(tree, height, leaf, guard, y)
    BY <1>2, <1>6 DEF RefillUnderWay
  <2>2. \/ Ready(tree', height', {leaf}) /\ Refilling(tree', height', leaf, guard, None)
        \/ \E z : Removing(tree', height', z, {leaf}) /\ Refilling(tree', height', leaf, guard, z)
    BY <1>1, <2>1, ResumeRefillKeeps
  <2>3. RefillUnderWay(tree', height', leaf, guard)
    BY <2>2 DEF RefillUnderWay
  <2> QED BY <1>1, <1>6, <2>3 DEF Balanced
<1> QED BY <1>3, <1>4, <1>5, <1>6 DEF Balanced

LEMMA EndOfAddKeeps ==
  ASSUME Balanced, EndOfAdd
  PROVE  Balanced'
<1>1. Ready(tree, height, {})
  BY AddIs, NothingToInsert DEF EndOfAdd
<1>2. tree' = MaybeAutoScale(tree) /\ height' = height /\ call' = AtRest
  BY DEF EndOfAdd
<1>3. Ready(tree', height', {})
  BY <1>1, <1>2, AutoScaleKeeps
<1> QED BY <1>2, <1>3 DEF Balanced

LEMMA EndOfTakeKeeps ==
  ASSUME Balanced, EndOfTake
  PROVE  Balanced'
<1>1. Ready(tree, height, {})
  BY TakeIs, NothingToRemove DEF EndOfTake
<1> QED BY <1>1 DEF Balanced, EndOfTake

LEMMA RefillOnceKeeps ==
  ASSUME Balanced, RefillOnce
  PROVE  Balanced'
<1> DEFINE leaf == call.leaf
           guard == call.guard
<1>1. call.op = "refill" /\ tree.todo = Nothing
  BY DEF RefillOnce
<1>2. call = RefillCall(leaf, guard) /\ RefillUnderWay(tree, height, leaf, guard)
  BY <1>1, RefillIs
<1>3. Ready(tree, height, {leaf}) /\ Refilling(tree, height, leaf, guard, None)
  BY <1>1, <1>2, NothingToRemove
<1>4. ~IsRefilled(tree, leaf) /\ ~WasMerged(tree, leaf)
  BY DEF RefillOnce, MustRefill
<1>5. /\ tree' = RebalanceAfterLeafRemoval(tree, leaf)
      /\ height' = HeightsFrom(tree, height, tree')
  BY BecomesIs DEF RefillOnce
<1>6. call' = RefillCall(leaf, guard - 1)
  <2>1. call' = [call EXCEPT !.guard = @ - 1]
    BY DEF RefillOnce
  <2> HIDE DEF leaf, guard
  <2>2. call = RefillCall(leaf, guard) /\ call.guard = guard
    BY <1>2 DEF guard
  <2> QED BY <2>1, <2>2 DEF RefillCall
<1> HIDE DEF leaf, guard
<1>7. \/ Ready(tree', height', {leaf}) /\ Refilling(tree', height', leaf, guard - 1, None)
      \/ \E z : Removing(tree', height', z, {leaf}) /\ Refilling(tree', height', leaf, guard - 1, z)
  BY <1>3, <1>4, <1>5, RefillKeeps
<1>8. RefillUnderWay(tree', height', leaf, guard - 1)
  BY <1>7 DEF RefillUnderWay
<1> QED BY <1>6, <1>8 DEF Balanced

LEMMA EndOfRefillKeeps ==
  ASSUME Balanced, EndOfRefill
  PROVE  Balanced'
<1> DEFINE leaf == call.leaf
           guard == call.guard
<1>1. call.op = "refill" /\ tree.todo = Nothing
  BY DEF EndOfRefill
<1>2. RefillUnderWay(tree, height, leaf, guard)
  BY <1>1, RefillIs
<1>3. Ready(tree, height, {leaf}) /\ Refilling(tree, height, leaf, guard, None)
  BY <1>1, <1>2, NothingToRemove
<1>4. guard > 0
  BY <1>3 DEF Refilling
<1>5. IsRefilled(tree, leaf) \/ WasMerged(tree, leaf)
  BY <1>4 DEF EndOfRefill, MustRefill
<1> HIDE DEF leaf, guard
<1>6. Ready(tree, height, {})
  BY <1>3, <1>5, RefilledIsReady
<1> QED BY <1>6 DEF Balanced, EndOfRefill

LEMMA ClearAllKeeps ==
  ASSUME Balanced, ClearAll
  PROVE  Balanced'
<1>1. Ready(tree, height, {})
  BY AtRestIs DEF ClearAll
<1>2. Ready(ClearTree(tree).tree, [n \in {1} |-> 0], {})
  BY <1>1, ClearKeeps
<1>3. tree' = ClearTree(tree).tree /\ height' = [n \in {1} |-> 0] /\ call' = AtRest
  BY DEF ClearAll
<1>4. Ready(tree', height', {})
  BY <1>2, <1>3
<1> QED BY <1>3, <1>4 DEF Balanced

LEMMA BalancedInit == BalancingInit => Balanced
BY InitIsReady DEF BalancingInit, Balanced

LEMMA BalancedNext == Balanced /\ [BalancingNext]_balancingVars => Balanced'
<1> SUFFICES ASSUME Balanced, [BalancingNext]_balancingVars
             PROVE  Balanced'
  OBVIOUS
<1>1. CASE AddAnEntry
  BY <1>1, AddAnEntryKeeps
<1>2. CASE TakeAnEntry
  BY <1>2, TakeAnEntryKeeps
<1>3. CASE Continue
  BY <1>3, ContinueKeeps
<1>4. CASE EndOfAdd
  BY <1>4, EndOfAddKeeps
<1>5. CASE EndOfTake
  BY <1>5, EndOfTakeKeeps
<1>6. CASE DeleteRun
  BY <1>6, DeleteRunKeeps
<1>7. CASE RefillOnce
  BY <1>7, RefillOnceKeeps
<1>8. CASE EndOfRefill
  BY <1>8, EndOfRefillKeeps
<1>9. CASE ClearAll
  BY <1>9, ClearAllKeeps
<1>10. CASE UNCHANGED balancingVars
  BY <1>10 DEF balancingVars, Balanced
<1> QED BY <1>1, <1>2, <1>3, <1>4, <1>5, <1>6, <1>7, <1>8, <1>9, <1>10 DEF BalancingNext

LEMMA BalancingInvariant == BalancingSpec => []Balanced
<1> QED BY BalancedInit, BalancedNext, PTL DEF BalancingSpec

LEMMA ReadyIsInPlace ==
  ASSUME Ready(tree, height, {})
  PROVE  ChildrenAreInPlace
<1>1. /\ IsTree(tree) /\ None \notin DOMAIN height
      /\ \A n \in DOMAIN height : n \in Ids(tree) /\ height[n] \in Nat
      /\ tree.root \in DOMAIN height /\ Parent(tree, tree.root) = None
      /\ \A n \in DOMAIN height : IsLeaf(tree, n) <=> height[n] = 0
      /\ \A b \in DOMAIN height : ~IsLeaf(tree, b) => Over(tree, height, None, b)
      /\ \A n \in DOMAIN height \ {tree.root} : Under(tree, height, None, n)
  <2>1. Shape(tree, height, None, None)
    BY DEF Ready
  <2>2. None \notin Ids(tree)
    BY <2>1 DEF Shape, IsTree, Ids, None
  <2> QED BY <2>1, <2>2 DEF Shape
<1>2. ASSUME NEW b \in LiveBranches, NEW i \in DOMAIN Children(tree, b),
             NEW child, child = Children(tree, b)[i]
      PROVE  /\ child \in DOMAIN height /\ height[child] = height[b] - 1
             /\ Parent(tree, child) = b /\ Position(tree, child) = i
  <2>1. b \in DOMAIN height /\ ~IsLeaf(tree, b)
    BY DEF LiveBranches, LiveLeaves
  <2>2. Placed(tree, b)
    BY <1>1, <2>1 DEF Over
  <2>3. child \in Held(Children(tree, b))
    BY <1>2 DEF Held
  <2>4. child \in DOMAIN height /\ Parent(tree, child) = b /\ height[b] = height[child] + 1
    BY <1>1, <2>1, <2>3 DEF Over
  <2>5. height[child] \in Nat /\ height[b] \in Nat
    BY <1>1, <2>1, <2>4
  <2>6. Position(tree, child) = i
    BY <1>1, <1>2, <2>2, <2>4, PositionIs
  <2> QED BY <2>4, <2>5, <2>6
<1>3. ASSUME NEW n \in DOMAIN height \ {tree.root}
      PROVE  /\ Parent(tree, n) \in LiveBranches
             /\ \E i \in DOMAIN Children(tree, Parent(tree, n)) :
                   Children(tree, Parent(tree, n))[i] = n
  <2>1. Under(tree, height, None, n)
    BY <1>1, <1>3
  <2> QED BY <2>1 DEF Under, Held, LiveBranches, LiveLeaves
<1>4. \A n \in LiveLeaves : height[n] = 0
  BY <1>1 DEF LiveLeaves
<1> QED BY <1>1, <1>2, <1>3, <1>4 DEF ChildrenAreInPlace

LEMMA ReadyIsFilled ==
  ASSUME Ready(tree, height, {})
  PROVE  NodesAreFilled
<1>1. /\ Shape(tree, height, None, None) /\ Caps(tree) /\ Filled(tree, height, None, {})
  BY DEF Ready
<1>2. IsTree(tree) /\ DOMAIN height \subseteq Ids(tree) /\ None \notin DOMAIN height
  BY <1>1 DEF Shape, IsTree, Ids, None
<1>3. ASSUME NEW n \in DOMAIN height
      PROVE  /\ Count(tree, n) <= High(tree, n) /\ Low(tree, n) <= Count(tree, n)
             /\ Count(tree, n) \in Nat
  BY <1>1, <1>2, <1>3, CountIs DEF Filled
<1>4. /\ tree.maxLeafEntries \in Nat /\ tree.maxBranchChildren \in Nat
      /\ Least.leaf \in Nat /\ Least.branch \in Nat
  BY <1>1, CapsAre
<1>5. ASSUME NEW n \in LiveLeaves
      PROVE  Size(n) \in (IF n = tree.root THEN 0 ELSE Least.leaf)..tree.maxLeafEntries
  <2>1. n \in DOMAIN height /\ IsLeaf(tree, n)
    BY DEF LiveLeaves
  <2>2. Count(tree, n) = Size(n) /\ High(tree, n) = tree.maxLeafEntries
        /\ Low(tree, n) = IF n = tree.root THEN 0 ELSE Least.leaf
    BY <2>1 DEF Count, High, Low, Size
  <2> QED BY <1>3, <1>4, <2>1, <2>2
<1>6. ASSUME NEW b \in LiveBranches
      PROVE  Len(Children(tree, b)) \in
                (IF b = tree.root THEN 2 ELSE Least.branch)..tree.maxBranchChildren
  <2>1. b \in DOMAIN height /\ ~IsLeaf(tree, b)
    BY DEF LiveBranches, LiveLeaves
  <2>2. Count(tree, b) = Len(Children(tree, b)) /\ High(tree, b) = tree.maxBranchChildren
        /\ Low(tree, b) = IF b = tree.root THEN 2 ELSE Least.branch
    BY <2>1 DEF Count, High, Low
  <2> QED BY <1>3, <1>4, <2>1, <2>2
<1> QED BY <1>5, <1>6 DEF NodesAreFilled

LEMMA NeverBroken == Balanced => ~tree.broken
<1>1. \A E : Ready(tree, height, E) => ~tree.broken
  BY DEF Ready, Shape
<1>2. \A x : Adding(tree, height, x) => ~tree.broken
  BY DEF Adding, Shape
<1>3. \A y, E : Removing(tree, height, y, E) => ~tree.broken
  BY DEF Removing, Shape
<1> QED BY <1>1, <1>2, <1>3 DEF Balanced, AddUnderWay, TakeUnderWay, RefillUnderWay

LEMMA BalancedIsSound == Balanced => BalanceIsKept
<1> SUFFICES ASSUME Balanced PROVE BalanceIsKept
  OBVIOUS
<1>1. ~tree.broken
  BY NeverBroken
<1>2. ASSUME call = AtRest PROVE ChildrenAreInPlace /\ NodesAreFilled
  BY <1>2, AtRestIs, ReadyIsInPlace, ReadyIsFilled
<1> QED BY <1>1, <1>2 DEF BalanceIsKept

LEMMA BalancedConverges == Balanced => RefillConverges
<1> SUFFICES ASSUME Balanced, call.op = "refill" PROVE call.guard >= 4
  BY DEF RefillConverges
<1>1. RefillUnderWay(tree, height, call.leaf, call.guard)
  BY RefillIs
<1> QED BY <1>1 DEF RefillUnderWay, Refilling

(* Splits, borrows, merges, the growth and the collapse of the root leave a  *)
(* balanced tree, whatever leaves the calls write and whatever the tiers     *)
(* that the capacities grow through: all leaves equally deep, parents and    *)
(* children pointing to each other, every node within its bounds.            *)
THEOREM Balance == BalancingSpec => []BalanceIsKept
<1> QED BY BalancingInvariant, BalancedIsSound, PTL

(* No refill of deleteRange.ts comes within four rounds of the end of its    *)
(* guard: each round gives the leaf an entry, fills it or takes it away.     *)
THEOREM Convergence == BalancingSpec => []RefillConverges
<1> QED BY BalancingInvariant, BalancedConverges, PTL
=============================================================================
