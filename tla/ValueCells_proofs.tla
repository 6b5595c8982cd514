-------------------------- MODULE ValueCells_proofs --------------------------
(***************************************************************************)
(* Cells that are cloned where the interpreter clones them and changed in  *)
(* place where it stores have one owner each, and the slots of values are  *)
(* what they implement.  The invariant is Inv: the cells are a forest      *)
(* whose roots are held by one slot each.  In its order the module says    *)
(* what aggregates, heaps, clones and slots are, what is kept by each      *)
(* instruction, why a store is seen by its root alone, and what follows.   *)
(***************************************************************************)
EXTENDS ValueCells, Values_proofs, FiniteSetTheorems

-----------------------------------------------------------------------------
(* Aggregates and their parts.                                             *)

IsAggregate(a) ==
  \/ \E s : a = ArrayV(s) /\ Len(s) \in Nat /\ IsFunction(s) /\ DOMAIN s = 1 .. Len(s)
  \/ \E f : a = MapV(f) /\ IsFunction(f)
  \/ \E t, f : a = StructV(t, f) /\ IsFunction(f)

SameKind(a, b) == (IsArray(a) <=> IsArray(b)) /\ (IsMap(a) <=> IsMap(b)) /\ (IsStruct(a) <=> IsStruct(b))

\* The length of a function on 1 .. n.
LEMMA FunctionIs ==
  ASSUME NEW f, NEW n \in Nat, IsFunction(f), DOMAIN f = 1 .. n
  PROVE  Len(f) = n
BY DEF IsFunction

\* An aggregate is its kind and its parts.
LEMMA PartsOf ==
  ASSUME NEW a, IsAggregate(a)
  PROVE  IsFunction(Parts(a)) /\ WithParts(a, Parts(a)) = a
<1>1. ASSUME NEW s, a = ArrayV(s), IsFunction(s)
      PROVE  IsFunction(Parts(a)) /\ WithParts(a, Parts(a)) = a
  BY <1>1 DEF Parts, WithParts, ArrayV, MapV, StructV, IsArray, IsMap, IsStruct
<1>2. ASSUME NEW f, a = MapV(f), IsFunction(f)
      PROVE  IsFunction(Parts(a)) /\ WithParts(a, Parts(a)) = a
  BY <1>2 DEF Parts, WithParts, ArrayV, MapV, StructV, IsArray, IsMap, IsStruct
<1>3. ASSUME NEW t, NEW f, a = StructV(t, f), IsFunction(f)
      PROVE  IsFunction(Parts(a)) /\ WithParts(a, Parts(a)) = a
  BY <1>3 DEF Parts, WithParts, ArrayV, MapV, StructV, IsArray, IsMap, IsStruct
<1>. QED
  BY <1>1, <1>2, <1>3 DEF IsAggregate

\* Other parts in the places of its parts make an aggregate of its kind.
LEMMA PartsReplaced ==
  ASSUME NEW a, NEW f, IsAggregate(a), IsFunction(f), DOMAIN f = DOMAIN Parts(a)
  PROVE  /\ IsAggregate(WithParts(a, f))
         /\ Parts(WithParts(a, f)) = f
         /\ SameKind(a, WithParts(a, f))
         /\ \A g : WithParts(WithParts(a, f), g) = WithParts(a, g)
         /\ IsArray(a) => Len(WithParts(a, f).array) = Len(a.array)
<1>. DEFINE b == WithParts(a, f)
            Claim == /\ IsAggregate(b) /\ Parts(b) = f /\ SameKind(a, b)
                     /\ \A g : WithParts(b, g) = WithParts(a, g)
                     /\ IsArray(a) => Len(b.array) = Len(a.array)
<1>1. ASSUME NEW s, a = ArrayV(s), Len(s) \in Nat, IsFunction(s), DOMAIN s = 1 .. Len(s)
      PROVE  Claim
  <2>1. b = ArrayV(f) /\ Parts(a) = s /\ a.array = s /\ b.array = f
    BY <1>1 DEF Parts, WithParts, ArrayV, MapV, StructV, IsArray, IsMap, IsStruct
  <2>2. Len(f) = Len(s) /\ DOMAIN f = 1 .. Len(f)
    BY <1>1, <2>1, FunctionIs
  <2>3. IsAggregate(b)
    BY <1>1, <2>1, <2>2 DEF IsAggregate
  <2>. QED
    BY <1>1, <2>1, <2>2, <2>3 DEF Parts, WithParts, ArrayV, MapV, StructV, IsArray, IsMap, IsStruct, SameKind
<1>2. ASSUME NEW h, a = MapV(h), IsFunction(h)
      PROVE  Claim
  <2>1. b = MapV(f)
    BY <1>2 DEF WithParts, ArrayV, MapV, StructV, IsArray, IsMap, IsStruct
  <2>2. IsAggregate(b)
    BY <2>1 DEF IsAggregate
  <2>. QED
    BY <1>2, <2>1, <2>2 DEF Parts, WithParts, ArrayV, MapV, StructV, IsArray, IsMap, IsStruct, SameKind
<1>3. ASSUME NEW t, NEW h, a = StructV(t, h), IsFunction(h)
      PROVE  Claim
  <2>1. b = StructV(t, f)
    BY <1>3 DEF WithParts, ArrayV, MapV, StructV, IsArray, IsMap, IsStruct
  <2>2. IsAggregate(b)
    BY <2>1 DEF IsAggregate
  <2>. QED
    BY <1>3, <2>1, <2>2 DEF Parts, WithParts, ArrayV, MapV, StructV, IsArray, IsMap, IsStruct, SameKind
<1>. QED
  BY <1>1, <1>2, <1>3 DEF IsAggregate

\* A reference is to a cell; aggregates and scalars are no references.
LEMMA Handles ==
  /\ \A c : IsRef(Ref(c)) /\ Ref(c).cell = c
  /\ \A h \in Scalars : ~IsRef(h) /\ ~IsArray(h) /\ ~IsMap(h) /\ ~IsStruct(h)
  /\ DefaultValue \in Scalars
BY DEF IsRef, Ref, Scalars, DefaultValue, IntV, IsArray, IsMap, IsStruct

-----------------------------------------------------------------------------
(* Heaps in which each cell has at most one owner.                         *)

HandleIn(hp, h) == h \in Scalars \/ \E c \in DOMAIN hp : h = Ref(c)

\* The cells are aggregates of scalars and references to cells.
Sound(hp) ==
  \A c \in DOMAIN hp :
    IsAggregate(hp[c]) /\ \A k \in DOMAIN Parts(hp[c]) : HandleIn(hp, Parts(hp[c])[k])

\* No cell is a part of itself, however deep.
Ranks(hp, rank, m) ==
  \A c \in DOMAIN hp :
    rank[c] \in 0 .. m /\ \A k \in RefsIn(hp, c) : rank[Target(hp, c, k)] < rank[c]

Ranked(hp) == \E m \in Nat : \E rank : Ranks(hp, rank, m)

\* Two different parts are different cells.
PartsApart(hp) ==
  \A c, d \in DOMAIN hp : \A k \in RefsIn(hp, c), l \in RefsIn(hp, d) :
    Target(hp, c, k) = Target(hp, d, l) => c = d /\ k = l

\* The cells of roots are parts of none.
Outermost(hp, roots) ==
  roots \subseteq DOMAIN hp /\ \A c \in DOMAIN hp : \A k \in RefsIn(hp, c) : Target(hp, c, k) \notin roots

Forest(hp, roots) == Sound(hp) /\ Ranked(hp) /\ PartsApart(hp) /\ Outermost(hp, roots)

\* A part that is a reference leads to a cell.
LEMMA PartIsCell ==
  ASSUME NEW hp, Sound(hp), NEW c \in DOMAIN hp, NEW k \in RefsIn(hp, c)
  PROVE  /\ k \in DOMAIN Parts(hp[c])
         /\ Target(hp, c, k) \in DOMAIN hp
         /\ Parts(hp[c])[k] = Ref(Target(hp, c, k))
<1>1. k \in DOMAIN Parts(hp[c]) /\ IsRef(Parts(hp[c])[k])
  BY DEF RefsIn
<1>2. HandleIn(hp, Parts(hp[c])[k])
  BY <1>1 DEF Sound
<1>3. PICK d \in DOMAIN hp : Parts(hp[c])[k] = Ref(d)
  BY <1>1, <1>2, Handles DEF HandleIn
<1>. QED
  BY <1>1, <1>3, Handles DEF Target

\* A part that is no reference is a scalar.
LEMMA PartIsScalar ==
  ASSUME NEW hp, Sound(hp), NEW c \in DOMAIN hp, NEW k \in DOMAIN Parts(hp[c]), k \notin RefsIn(hp, c)
  PROVE  Parts(hp[c])[k] \in Scalars
<1>1. HandleIn(hp, Parts(hp[c])[k])
  BY DEF Sound
<1>. QED
  BY <1>1, Handles DEF HandleIn, RefsIn

-----------------------------------------------------------------------------
(* The value of a cell.                                                    *)

\* The cell at c with the values f of the cells among its parts.
Body(hp, f, c) ==
  WithParts(hp[c], [k \in DOMAIN Parts(hp[c]) |->
                      IF k \in RefsIn(hp, c) THEN f[Target(hp, c, k)] ELSE Parts(hp[c])[k]])

\* Functions that agree on the parts agree on the cell.
LEMMA SameBody ==
  ASSUME NEW hp, NEW f, NEW g, NEW c,
         \A k \in RefsIn(hp, c) : f[Target(hp, c, k)] = g[Target(hp, c, k)]
  PROVE  Body(hp, f, c) = Body(hp, g, c)
<1>1. [k \in DOMAIN Parts(hp[c]) |-> IF k \in RefsIn(hp, c) THEN f[Target(hp, c, k)] ELSE Parts(hp[c])[k]]
      = [k \in DOMAIN Parts(hp[c]) |-> IF k \in RefsIn(hp, c) THEN g[Target(hp, c, k)] ELSE Parts(hp[c])[k]]
  OBVIOUS
<1>. QED
  BY <1>1 DEF Body

\* f is the value of every cell of rank below n.
ValuesBelow(hp, rank, n, f) ==
  \A c \in DOMAIN hp : rank[c] < n => f[c] = Body(hp, f, c)

\* Values are defined on cells of rank below n, for any n: no cell is a part of itself ...
LEMMA ValuesExist ==
  ASSUME NEW hp, Sound(hp), NEW m \in Nat, NEW rank, Ranks(hp, rank, m), NEW n \in Nat
  PROVE  \E f : ValuesBelow(hp, rank, n, f)
<1>. DEFINE S == {i \in Nat : \E f : ValuesBelow(hp, rank, i, f)}
<1>0. \A c \in DOMAIN hp : rank[c] \in Nat
  BY DEF Ranks
<1>1. 0 \in S
  BY <1>0 DEF ValuesBelow
<1>2. ASSUME NEW i \in Nat, i \in S
      PROVE  i + 1 \in S
  <2>1. PICK f : ValuesBelow(hp, rank, i, f)
    BY <1>2
  <2>. DEFINE g == [c \in DOMAIN hp |-> Body(hp, f, c)]
  <2>2. ASSUME NEW c \in DOMAIN hp, rank[c] < i + 1
        PROVE  g[c] = Body(hp, g, c)
    <3>1. ASSUME NEW k \in RefsIn(hp, c)
          PROVE  f[Target(hp, c, k)] = g[Target(hp, c, k)]
      <4>. DEFINE d == Target(hp, c, k)
      <4>1. d \in DOMAIN hp
        BY PartIsCell
      <4>2. rank[d] < i
        BY <1>0, <2>2, <4>1 DEF Ranks
      <4>3. f[d] = Body(hp, f, d)
        BY <2>1, <4>1, <4>2 DEF ValuesBelow
      <4>. QED
        BY <4>1, <4>3
    <3>. HIDE DEF g
    <3>2. Body(hp, f, c) = Body(hp, g, c)
      BY <3>1, SameBody
    <3>3. g[c] = Body(hp, f, c)
      BY DEF g
    <3>. QED
      BY <3>2, <3>3
  <2>3. ValuesBelow(hp, rank, i + 1, g)
    <3>. HIDE DEF g
    <3>. QED
      BY <2>2 DEF ValuesBelow
  <2>. QED
    BY <2>3
<1>3. n \in S
  <2>. HIDE DEF S
  <2>. QED
    BY <1>1, <1>2, Induction
<1>. QED
  BY <1>3

\* What ValueAt computes.
LEMMA ValueSays ==
  ASSUME NEW hp, Sound(hp), Ranked(hp)
  PROVE  \A c \in DOMAIN hp : ValueAt(hp)[c] = Body(hp, ValueAt(hp), c)
<1>1. PICK m \in Nat : \E rank : Ranks(hp, rank, m)
  BY DEF Ranked
<1>2. PICK rank : Ranks(hp, rank, m)
  BY <1>1
<1>3. PICK f : ValuesBelow(hp, rank, m + 1, f)
  BY <1>2, ValuesExist
<1>. DEFINE g == [c \in DOMAIN hp |-> Body(hp, f, c)]
<1>4. \A c \in DOMAIN hp : f[c] = Body(hp, f, c)
  BY <1>2, <1>3 DEF ValuesBelow, Ranks
<1>5. ASSUME NEW c \in DOMAIN hp
      PROVE  Body(hp, f, c) = Body(hp, g, c)
  <2>1. \A k \in RefsIn(hp, c) : Target(hp, c, k) \in DOMAIN hp
    BY PartIsCell
  <2>2. \A k \in RefsIn(hp, c) : f[Target(hp, c, k)] = g[Target(hp, c, k)]
    BY <1>4, <2>1
  <2>. HIDE DEF g
  <2>. QED
    BY <2>2, SameBody
<1>6. g = [c \in DOMAIN hp |-> Body(hp, g, c)]
  <2>1. [c \in DOMAIN hp |-> Body(hp, f, c)] = [c \in DOMAIN hp |-> Body(hp, g, c)]
    <3>. HIDE DEF g
    <3>. QED
      BY <1>5
  <2>. QED
    BY <2>1
<1>7. \E v : v = [c \in DOMAIN hp |-> Body(hp, v, c)]
  <2>. HIDE DEF g
  <2>. QED
    BY <1>6
<1>8. ValueAt(hp) = [c \in DOMAIN hp |-> Body(hp, ValueAt(hp), c)]
  BY <1>7 DEF ValueAt, Body
<1>. QED
  BY <1>8

-----------------------------------------------------------------------------
(* Cells that look the same have the same value.                           *)

\* Each cell of the set S in hp2 has a likeness in hp1, its parts included.
Mirrors(hp1, hp2, S, likeness) ==
  \A c \in S : /\ c \in DOMAIN hp2 /\ likeness[c] \in DOMAIN hp1
               /\ hp1[likeness[c]] = WithParts(hp2[c], AllMoved(likeness, Parts(hp2[c])))
               /\ \A k \in RefsIn(hp2, c) : Target(hp2, c, k) \in S

\* The cell at d of hp1 looks like the one at c of hp2.
IsLike(hp1, d, hp2, c, likeness) ==
  /\ IsAggregate(hp1[d]) /\ SameKind(hp2[c], hp1[d])
  /\ DOMAIN Parts(hp1[d]) = DOMAIN Parts(hp2[c])
  /\ RefsIn(hp1, d) = RefsIn(hp2, c)
  /\ \A k \in RefsIn(hp2, c) : Target(hp1, d, k) = likeness[Target(hp2, c, k)]
  /\ \A k \in DOMAIN Parts(hp2[c]) : Parts(hp1[d])[k] = Moved(likeness, Parts(hp2[c])[k])
  /\ \A g : WithParts(hp1[d], g) = WithParts(hp2[c], g)

\* What likeness is used for.
LEMMA Likeness ==
  ASSUME NEW hp1, NEW hp2, Sound(hp2), NEW S, NEW likeness, Mirrors(hp1, hp2, S, likeness), NEW c \in S
  PROVE  IsLike(hp1, likeness[c], hp2, c, likeness)
<1>. DEFINE d == likeness[c]
            f == AllMoved(likeness, Parts(hp2[c]))
<1>1. c \in DOMAIN hp2 /\ hp1[d] = WithParts(hp2[c], f)
  BY DEF Mirrors
<1>2. IsAggregate(hp2[c])
  BY <1>1 DEF Sound
<1>3. IsFunction(f) /\ DOMAIN f = DOMAIN Parts(hp2[c])
      /\ \A k \in DOMAIN f : f[k] = Moved(likeness, Parts(hp2[c])[k])
  BY DEF AllMoved, IsFunction
<1>4. /\ IsAggregate(hp1[d]) /\ Parts(hp1[d]) = f /\ SameKind(hp2[c], hp1[d])
      /\ \A g : WithParts(hp1[d], g) = WithParts(hp2[c], g)
  <2>. HIDE DEF f, d
  <2>. QED
    BY <1>1, <1>2, <1>3, PartsReplaced
<1>5. ASSUME NEW k \in DOMAIN f
      PROVE  /\ IsRef(f[k]) <=> IsRef(Parts(hp2[c])[k])
             /\ IsRef(f[k]) => f[k].cell = likeness[Parts(hp2[c])[k].cell]
  <2>. HIDE DEF f
  <2>. QED
    BY <1>3, Handles DEF Moved
<1>. HIDE DEF f
<1>. QED
  BY <1>3, <1>4, <1>5 DEF IsLike, RefsIn, Target

\* Cells that are alike all the way down have the same value.
LEMMA SameValues ==
  ASSUME NEW hp1, NEW hp2, Sound(hp1), Ranked(hp1), Sound(hp2), Ranked(hp2),
         NEW S, NEW likeness, Mirrors(hp1, hp2, S, likeness)
  PROVE  \A c \in S : ValueAt(hp1)[likeness[c]] = ValueAt(hp2)[c]
<1>1. PICK m \in Nat : \E rank : Ranks(hp2, rank, m)
  BY DEF Ranked
<1>2. PICK rank : Ranks(hp2, rank, m)
  BY <1>1
<1>0. \A c \in S : c \in DOMAIN hp2 /\ likeness[c] \in DOMAIN hp1 /\ rank[c] \in 0 .. m
  BY <1>2 DEF Ranks, Mirrors
<1>. DEFINE T == {n \in Nat : \A c \in S : rank[c] < n => ValueAt(hp1)[likeness[c]] = ValueAt(hp2)[c]}
<1>3. 0 \in T
  BY <1>0
<1>4. ASSUME NEW n \in Nat, n \in T
      PROVE  n + 1 \in T
  <2>1. ASSUME NEW c \in S, rank[c] < n + 1
        PROVE  ValueAt(hp1)[likeness[c]] = ValueAt(hp2)[c]
    <3>. DEFINE d == likeness[c]
                f1 == [k \in DOMAIN Parts(hp1[d]) |-> IF k \in RefsIn(hp1, d)
                         THEN ValueAt(hp1)[Target(hp1, d, k)] ELSE Parts(hp1[d])[k]]
                f2 == [k \in DOMAIN Parts(hp2[c]) |-> IF k \in RefsIn(hp2, c)
                         THEN ValueAt(hp2)[Target(hp2, c, k)] ELSE Parts(hp2[c])[k]]
    <3>1. ValueAt(hp1)[d] = WithParts(hp1[d], f1) /\ ValueAt(hp2)[c] = WithParts(hp2[c], f2)
      BY <1>0, ValueSays DEF Body
    <3>2. /\ DOMAIN Parts(hp1[d]) = DOMAIN Parts(hp2[c])
          /\ RefsIn(hp1, d) = RefsIn(hp2, c)
          /\ \A k \in RefsIn(hp2, c) : Target(hp1, d, k) = likeness[Target(hp2, c, k)]
          /\ \A k \in DOMAIN Parts(hp2[c]) : Parts(hp1[d])[k] = Moved(likeness, Parts(hp2[c])[k])
          /\ \A g : WithParts(hp1[d], g) = WithParts(hp2[c], g)
      BY Likeness DEF IsLike
    <3>3. ASSUME NEW k \in RefsIn(hp2, c)
          PROVE  ValueAt(hp1)[Target(hp1, d, k)] = ValueAt(hp2)[Target(hp2, c, k)]
      <4>1. Target(hp2, c, k) \in S
        BY DEF Mirrors
      <4>2. rank[Target(hp2, c, k)] < n
        BY <1>0, <1>2, <2>1, <4>1 DEF Ranks
      <4>. QED
        BY <1>4, <3>2, <4>1, <4>2
    <3>4. ASSUME NEW k \in DOMAIN Parts(hp2[c]), k \notin RefsIn(hp2, c)
          PROVE  Parts(hp1[d])[k] = Parts(hp2[c])[k]
      BY <3>2, <3>4 DEF Moved, RefsIn
    <3>5. f1 = f2
      BY <3>2, <3>3, <3>4
    <3>. QED
      BY <3>1, <3>2, <3>5
  <2>. QED
    BY <2>1
<1>5. m + 1 \in T
  <2>. HIDE DEF T
  <2>. QED
    BY <1>3, <1>4, Induction
<1>. QED
  BY <1>0, <1>5

-----------------------------------------------------------------------------
(* What a recursion over handles reaches.                                  *)

RootNodes(handles) == {Node(<<i>>, handles[i].cell) : i \in {j \in DOMAIN handles : IsRef(handles[j])}}

AndParts(hp, above) == above \cup (UNION {{Part(hp, x, k) : k \in RefsIn(hp, x[2])} : x \in above})

Reaches(g, hp, handles, n) ==
  g = [i \in 0 .. n |-> IF i = 0 THEN RootNodes(handles) ELSE AndParts(hp, g[i - 1])]

\* The nodes within n steps of the handles are defined for any n.
LEMMA ReachExists ==
  ASSUME NEW hp, NEW handles, NEW m \in Nat
  PROVE  \E g : Reaches(g, hp, handles, m)
<1>. DEFINE Good(g, n) == g = [i \in 0 .. n |-> IF i = 0 THEN RootNodes(handles) ELSE AndParts(hp, g[i - 1])]
            S == {n \in Nat : \E g : Good(g, n)}
<1>1. 0 \in S
  <2>. DEFINE g == [i \in 0 .. 0 |-> RootNodes(handles)]
  <2>1. Good(g, 0)
    OBVIOUS
  <2>. QED
    BY <2>1
<1>2. ASSUME NEW n \in Nat, n \in S
      PROVE  n + 1 \in S
  <2>1. PICK g : Good(g, n)
    BY <1>2
  <2>. DEFINE h == [i \in 0 .. n + 1 |-> IF i = n + 1 THEN AndParts(hp, g[n]) ELSE g[i]]
  <2>2. ASSUME NEW i \in 0 .. n + 1
        PROVE  h[i] = IF i = 0 THEN RootNodes(handles) ELSE AndParts(hp, h[i - 1])
    <3>1. CASE i = n + 1
      BY <3>1
    <3>2. CASE i \in 0 .. n
      <4>1. h[i] = g[i] /\ (i # 0 => h[i - 1] = g[i - 1])
        BY <3>2
      <4>2. g[i] = IF i = 0 THEN RootNodes(handles) ELSE AndParts(hp, g[i - 1])
        BY <2>1, <3>2
      <4>. QED
        BY <4>1, <4>2
    <3>. QED
      BY <3>1, <3>2
  <2>3. Good(h, n + 1)
    BY <2>2
  <2>4. \E f : Good(f, n + 1)
    <3>. HIDE DEF Good, h
    <3>. QED
      BY <2>3
  <2>. QED
    BY <2>4
<1>3. m \in S
  <2>. HIDE DEF S
  <2>. QED
    BY <1>1, <1>2, Induction
<1>. QED
  BY <1>3 DEF Reaches

\* What UpTo computes.
LEMMA ReachSays ==
  ASSUME NEW hp, NEW handles
  PROVE  /\ UpTo(hp, handles)[0] = RootNodes(handles)
         /\ \A n \in Nat : n + 1 <= MaxCells =>
              UpTo(hp, handles)[n + 1] = AndParts(hp, UpTo(hp, handles)[n])
<1>0. MaxCells \in Nat
  BY BoundsAssumption
<1>. DEFINE u == UpTo(hp, handles)
<1>1. \E g : Reaches(g, hp, handles, MaxCells)
  BY <1>0, ReachExists
<1>2. \E g : g = [i \in 0 .. MaxCells |-> IF i = 0 THEN RootNodes(handles) ELSE AndParts(hp, g[i - 1])]
  BY <1>1 DEF Reaches
<1>3. u = [i \in 0 .. MaxCells |-> IF i = 0 THEN RootNodes(handles) ELSE AndParts(hp, u[i - 1])]
  BY <1>2 DEF UpTo, RootNodes, AndParts
<1>. HIDE DEF u
<1>4. \A n \in Nat : n + 1 <= MaxCells => u[n + 1] = AndParts(hp, u[n + 1 - 1])
  BY <1>0, <1>3
<1>5. u[0] = RootNodes(handles)
  BY <1>0, <1>3
<1>6. \A n \in Nat : n + 1 - 1 = n
  OBVIOUS
<1>. QED
  BY <1>4, <1>5, <1>6 DEF u

\* The names of handles and of parts.
Labels(hp, handles) == DOMAIN handles \cup UNION {DOMAIN Parts(hp[c]) : c \in DOMAIN hp}

Known(hp, handles) == \A i \in DOMAIN handles : HandleIn(hp, handles[i])

\* One cell at the end of each way, which begins with a handle and goes on
\* from part to part.
Ways(hp, handles, nodes) ==
  /\ RootNodes(handles) \subseteq nodes
  /\ \A x \in nodes : /\ x = Node(x[1], x[2])
                      /\ x[2] \in DOMAIN hp
                      /\ x[1] \in Seq(Labels(hp, handles)) /\ x[1] # <<>>
                      /\ \/ x \in RootNodes(handles)
                         \/ \E y \in nodes : \E k \in RefsIn(hp, y[2]) : x = Part(hp, y, k)
  /\ \A x, y \in nodes : x[1] = y[1] => x = y

\* The handles themselves are ways of length one ...
LEMMA WaysBegin ==
  ASSUME NEW hp, NEW handles, Known(hp, handles)
  PROVE  Ways(hp, handles, RootNodes(handles))
<1>1. ASSUME NEW x \in RootNodes(handles)
      PROVE  \E i \in DOMAIN handles : /\ x = <<<<i>>, handles[i].cell>> /\ handles[i].cell \in DOMAIN hp
                                       /\ <<i>> \in Seq(Labels(hp, handles))
  <2>1. PICK i \in DOMAIN handles : IsRef(handles[i]) /\ x = <<<<i>>, handles[i].cell>>
    BY DEF RootNodes, Node
  <2>2. handles[i].cell \in DOMAIN hp
    BY <2>1, Handles DEF Known, HandleIn
  <2>3. i \in Labels(hp, handles)
    BY DEF Labels
  <2>. QED
    BY <2>1, <2>2, <2>3
<1>2. ASSUME NEW x \in RootNodes(handles), NEW y \in RootNodes(handles), x[1] = y[1]
      PROVE  x = y
  <2>1. PICK i \in DOMAIN handles : x = <<<<i>>, handles[i].cell>>
    BY <1>1
  <2>2. PICK j \in DOMAIN handles : y = <<<<j>>, handles[j].cell>>
    BY <1>1
  <2>3. i = j
    BY <1>2, <2>1, <2>2
  <2>. QED
    BY <2>1, <2>2, <2>3
<1>3. ASSUME NEW x \in RootNodes(handles)
      PROVE  /\ x = Node(x[1], x[2]) /\ x[2] \in DOMAIN hp
             /\ x[1] \in Seq(Labels(hp, handles)) /\ x[1] # <<>>
  <2>1. PICK i \in DOMAIN handles : /\ x = <<<<i>>, handles[i].cell>> /\ handles[i].cell \in DOMAIN hp
                                    /\ <<i>> \in Seq(Labels(hp, handles))
    BY <1>1
  <2>2. x[1] = <<i>> /\ x[2] = handles[i].cell
    BY <2>1
  <2>3. <<i>> # <<>>
    OBVIOUS
  <2>. QED
    BY <2>1, <2>2, <2>3 DEF Node
<1>. QED
  BY <1>2, <1>3 DEF Ways

\* ... and a way goes on to each part of its last cell.
LEMMA WaysGoOn ==
  ASSUME NEW hp, Sound(hp), NEW handles, NEW nodes, Ways(hp, handles, nodes)
  PROVE  Ways(hp, handles, AndParts(hp, nodes))
<1>. DEFINE L == Labels(hp, handles)
            more == AndParts(hp, nodes)
            IsRoot(x) == x \in RootNodes(handles)
            Below(x, y, k) == y \in nodes /\ k \in RefsIn(hp, y[2]) /\ x = Part(hp, y, k)
<1>0. nodes \subseteq more
  BY DEF AndParts
<1>1. ASSUME NEW x \in more, x \notin nodes
      PROVE  \E y, k : Below(x, y, k)
  BY <1>1 DEF AndParts
<1>2. ASSUME NEW x, NEW y, NEW k, Below(x, y, k)
      PROVE  /\ x = <<Append(y[1], k), Target(hp, y[2], k)>> /\ Target(hp, y[2], k) \in DOMAIN hp
             /\ y[1] \in Seq(L) /\ k \in L /\ y[1] # <<>>
  <2>1. y[2] \in DOMAIN hp /\ y[1] \in Seq(L) /\ y[1] # <<>>
    BY <1>2 DEF Ways
  <2>2. Target(hp, y[2], k) \in DOMAIN hp /\ k \in DOMAIN Parts(hp[y[2]])
    BY <1>2, <2>1, PartIsCell
  <2>3. k \in L
    BY <2>1, <2>2 DEF Labels
  <2>. QED
    BY <1>2, <2>1, <2>2, <2>3 DEF Part, Node
<1>3. ASSUME NEW x \in more
      PROVE  /\ x = Node(x[1], x[2]) /\ x[2] \in DOMAIN hp /\ x[1] \in Seq(L) /\ x[1] # <<>>
             /\ IsRoot(x) \/ \E y \in nodes : \E k \in RefsIn(hp, y[2]) : x = Part(hp, y, k)
  <2>1. CASE x \in nodes
    BY <2>1 DEF Ways
  <2>2. CASE x \notin nodes
    <3>1. PICK y, k : Below(x, y, k)
      BY <1>1, <2>2
    <3>2. /\ x = <<Append(y[1], k), Target(hp, y[2], k)>> /\ Target(hp, y[2], k) \in DOMAIN hp
          /\ y[1] \in Seq(L) /\ k \in L
      BY <1>2, <3>1
    <3>3. Append(y[1], k) \in Seq(L) /\ Append(y[1], k) # <<>>
      <4>. HIDE DEF L
      <4>. QED
        BY <3>2
    <3>4. x[1] = Append(y[1], k) /\ x[2] = Target(hp, y[2], k)
      BY <3>2
    <3>5. x = Node(x[1], x[2])
      BY <3>2, <3>4 DEF Node
    <3>6. \E v \in nodes : \E l \in RefsIn(hp, v[2]) : x = Part(hp, v, l)
      BY <3>1
    <3>. HIDE DEF L, Below, IsRoot, more
    <3>. QED
      BY <3>2, <3>3, <3>4, <3>5, <3>6
  <2>. QED
    BY <2>1, <2>2
<1>4. ASSUME NEW x \in more
      PROVE  \/ \E i : x[1] = <<i>> /\ IsRoot(x)
             \/ \E y, k : Below(x, y, k)
  <2>1. CASE IsRoot(x)
    BY <2>1 DEF RootNodes, Node
  <2>2. CASE ~IsRoot(x)
    BY <1>3, <2>2
  <2>. QED
    BY <2>1, <2>2
<1>5. ASSUME NEW x \in more, NEW y \in more, x[1] = y[1]
      PROVE  x = y
  <2>1. CASE IsRoot(x) /\ IsRoot(y)
    BY <1>5, <2>1 DEF Ways
  <2>2. ASSUME NEW z \in more, NEW i, z[1] = <<i>>, NEW w, NEW y2, NEW k, Below(w, y2, k), w[1] = z[1]
        PROVE  FALSE
    <3>1. w[1] = Append(y2[1], k) /\ y2[1] \in Seq(L) /\ k \in L /\ y2[1] # <<>>
      <4>. HIDE DEF L
      <4>. QED
        BY <1>2, <2>2
    <3>2. Len(Append(y2[1], k)) = Len(y2[1]) + 1 /\ Len(y2[1]) > 0
      <4>. HIDE DEF L
      <4>. QED
        BY <3>1
    <3>3. Len(<<i>>) = 1
      OBVIOUS
    <3>. HIDE DEF L
    <3>4. Len(y2[1]) \in Nat
      BY <3>1
    <3>. QED
      BY <2>2, <3>1, <3>2, <3>3, <3>4
  <2>3. ASSUME NEW v, NEW k, Below(x, v, k), NEW w, NEW l, Below(y, w, l)
        PROVE  x = y
    <3>1. /\ x = <<Append(v[1], k), Target(hp, v[2], k)>> /\ v[1] \in Seq(L) /\ k \in L
          /\ y = <<Append(w[1], l), Target(hp, w[2], l)>> /\ w[1] \in Seq(L) /\ l \in L
      <4>. HIDE DEF L
      <4>. QED
        BY <1>2, <2>3
    <3>2. Append(v[1], k) = Append(w[1], l)
      BY <1>5, <3>1
    <3>3. v[1] = w[1] /\ k = l
      <4>. HIDE DEF L
      <4>1. v[1] = Front(Append(v[1], k)) /\ w[1] = Front(Append(w[1], l))
        BY <3>1 DEF Front
      <4>2. k = Last(Append(v[1], k)) /\ l = Last(Append(w[1], l))
        BY <3>1 DEF Last
      <4>. QED
        BY <3>2, <4>1, <4>2
    <3>4. v = w
      BY <2>3, <3>3 DEF Ways
    <3>. QED
      BY <3>1, <3>3, <3>4
  <2>. HIDE DEF Below, IsRoot, more
  <2>. QED
    BY <1>4, <1>5, <2>1, <2>2, <2>3
<1>6. RootNodes(handles) \subseteq more
  BY <1>0 DEF Ways
<1>. HIDE DEF more
<1>. QED
  BY <1>0, <1>3, <1>5, <1>6 DEF Ways, more

\* What Nodes finds.
LEMMA NodesSay ==
  ASSUME NEW hp, Sound(hp), NEW handles, Known(hp, handles)
  PROVE  Ways(hp, handles, Nodes(hp, handles))
<1>0. MaxCells \in Nat
  BY BoundsAssumption
<1>. DEFINE S == {n \in Nat : n <= MaxCells => Ways(hp, handles, UpTo(hp, handles)[n])}
<1>1. 0 \in S
  BY WaysBegin, ReachSays
<1>2. ASSUME NEW n \in Nat, n \in S
      PROVE  n + 1 \in S
  <2>. SUFFICES ASSUME n + 1 <= MaxCells
                PROVE  Ways(hp, handles, UpTo(hp, handles)[n + 1])
    OBVIOUS
  <2>1. Ways(hp, handles, UpTo(hp, handles)[n])
    BY <1>0, <1>2
  <2>2. UpTo(hp, handles)[n + 1] = AndParts(hp, UpTo(hp, handles)[n])
    BY ReachSays
  <2>. QED
    BY <2>1, <2>2, WaysGoOn
<1>3. MaxCells \in S
  <2>. HIDE DEF S
  <2>. QED
    BY <1>0, <1>1, <1>2, Induction
<1>. QED
  BY <1>0, <1>3 DEF Nodes

-----------------------------------------------------------------------------
(* cloneValue.                                                             *)

\* hp1 has the cells of hp2, as they are there, and maybe more.
Extends(hp1, hp2) == DOMAIN hp2 \subseteq DOMAIN hp1 /\ \A c \in DOMAIN hp2 : hp1[c] = hp2[c]

\* The cells that handles refer to, and that no two refer to the same.
Referred(handles) == {handles[i].cell : i \in {j \in DOMAIN handles : IsRef(handles[j])}}

Apart(handles) == \A i, j \in DOMAIN handles : IsRef(handles[i]) /\ handles[i] = handles[j] => i = j

New(n, hp) == \A c \in DOMAIN hp : c[1] # n

\* Equal cells have the same references.
LEMMA SameCell ==
  ASSUME NEW hp1, NEW hp2, NEW c, hp1[c] = hp2[c]
  PROVE  /\ RefsIn(hp1, c) = RefsIn(hp2, c)
         /\ \A k \in RefsIn(hp2, c) : Target(hp1, c, k) = Target(hp2, c, k)
BY DEF RefsIn, Target

\* Cells that stay as they are, their parts included, keep their value.
LEMMA Untouched ==
  ASSUME NEW hp1, NEW hp2, Sound(hp1), Ranked(hp1), Sound(hp2), Ranked(hp2), NEW S,
         S \subseteq DOMAIN hp1, S \subseteq DOMAIN hp2,
         \A c \in S : hp1[c] = hp2[c] /\ \A k \in RefsIn(hp2, c) : Target(hp2, c, k) \in S
  PROVE  \A c \in S : ValueAt(hp1)[c] = ValueAt(hp2)[c]
<1>. DEFINE same == [c \in S |-> c]
<1>1. ASSUME NEW c \in S
      PROVE  hp1[same[c]] = WithParts(hp2[c], AllMoved(same, Parts(hp2[c])))
  <2>1. IsAggregate(hp2[c])
    BY DEF Sound
  <2>2. IsFunction(Parts(hp2[c])) /\ WithParts(hp2[c], Parts(hp2[c])) = hp2[c]
    BY <2>1, PartsOf
  <2>3. ASSUME NEW k \in DOMAIN Parts(hp2[c])
        PROVE  Moved(same, Parts(hp2[c])[k]) = Parts(hp2[c])[k]
    <3>1. CASE k \in RefsIn(hp2, c)
      <4>1. Target(hp2, c, k) \in S /\ Parts(hp2[c])[k] = Ref(Target(hp2, c, k))
        BY <3>1, PartIsCell
      <4>. QED
        BY <4>1, Handles DEF Moved
    <3>2. CASE k \notin RefsIn(hp2, c)
      BY <3>2 DEF RefsIn, Moved
    <3>. QED
      BY <3>1, <3>2
  <2>4. AllMoved(same, Parts(hp2[c])) = Parts(hp2[c])
    <3>. HIDE DEF same
    <3>. QED
      BY <2>2, <2>3 DEF AllMoved, IsFunction
  <2>. QED
    BY <2>2, <2>4
<1>2. Mirrors(hp1, hp2, S, same)
  BY <1>1 DEF Mirrors
<1>3. \A c \in S : ValueAt(hp1)[same[c]] = ValueAt(hp2)[c]
  <2>. HIDE DEF same
  <2>. QED
    BY <1>2, SameValues
<1>. QED
  BY <1>3

\* New cells leave the values of the old ones alone.
LEMMA ExtendedValues ==
  ASSUME NEW hp1, NEW hp2, Sound(hp1), Ranked(hp1), Sound(hp2), Ranked(hp2), Extends(hp1, hp2)
  PROVE  \A h : HandleIn(hp2, h) => Value(hp1, h) = Value(hp2, h)
<1>1. \A c \in DOMAIN hp2 : ValueAt(hp1)[c] = ValueAt(hp2)[c]
  <2>1. \A c \in DOMAIN hp2 : \A k \in RefsIn(hp2, c) : Target(hp2, c, k) \in DOMAIN hp2
    BY PartIsCell
  <2>. QED
    BY <2>1, Untouched DEF Extends
<1>. QED
  BY <1>1, Handles DEF HandleIn, Value

\* What a copy holds in the place of its parts.
CopiedParts(n, hp, x) ==
  [k \in DOMAIN Parts(hp[x[2]]) |->
     IF k \in RefsIn(hp, x[2]) THEN Ref(Address(n, Append(x[1], k))) ELSE Parts(hp[x[2]])[k]]

\* A heap with a copy of each node, the copies in the places given by their ways.
Copies(new, n, hp, nodes) ==
  /\ Extends(new, hp)
  /\ DOMAIN new = DOMAIN hp \cup {Address(n, x[1]) : x \in nodes}
  /\ \A x \in nodes : new[Address(n, x[1])] = WithParts(hp[x[2]], CopiedParts(n, hp, x))

\* What Cloned makes: the old cells, and a new one for each node.
LEMMA ClonedSays ==
  ASSUME NEW hp, NEW n, New(n, hp), NEW handles, NEW nodes, Ways(hp, handles, nodes)
  PROVE  Copies(Cloned(n, hp, handles, nodes).heap, n, hp, nodes)
<1>. DEFINE of(c)   == CHOOSE x \in nodes : Address(n, x[1]) = c
            copy(x) == WithParts(hp[x[2]], CopiedParts(n, hp, x))
            adds    == [c \in {Address(n, x[1]) : x \in nodes} |-> copy(of(c))]
            new     == Cloned(n, hp, handles, nodes).heap
<1>1. new = Extended(hp, adds)
  BY DEF Cloned, CopiedParts
<1>2. ASSUME NEW x \in nodes
      PROVE  of(Address(n, x[1])) = x /\ Address(n, x[1]) \notin DOMAIN hp
  <2>1. of(Address(n, x[1])) \in nodes /\ Address(n, of(Address(n, x[1]))[1]) = Address(n, x[1])
    OBVIOUS
  <2>2. of(Address(n, x[1]))[1] = x[1]
    BY <2>1 DEF Address
  <2>3. Address(n, x[1])[1] = n
    BY DEF Address
  <2>. HIDE DEF of
  <2>. QED
    BY <2>1, <2>2, <2>3 DEF Ways, New
<1>3. DOMAIN new = DOMAIN hp \cup {Address(n, x[1]) : x \in nodes}
      /\ \A c \in DOMAIN hp : new[c] = hp[c]
  BY <1>1 DEF Extended
<1>4. ASSUME NEW x \in nodes
      PROVE  new[Address(n, x[1])] = copy(x)
  <2>1. adds[Address(n, x[1])] = copy(of(Address(n, x[1])))
    OBVIOUS
  <2>. HIDE DEF of, copy
  <2>2. adds[Address(n, x[1])] = copy(x)
    BY <1>2, <2>1
  <2>. QED
    BY <1>1, <1>2, <2>2 DEF Extended
<1>. HIDE DEF new
<1>. QED
  BY <1>3, <1>4 DEF Copies, Extends, new

\* The cell at a is a copy of the cell of the node x.
CopyOf(new, a, n, hp, x) ==
  /\ a \in DOMAIN new /\ x[2] \in DOMAIN hp
  /\ IsAggregate(new[a])
  /\ DOMAIN Parts(new[a]) = DOMAIN Parts(hp[x[2]])
  /\ RefsIn(new, a) = RefsIn(hp, x[2])
  /\ \A k \in RefsIn(hp, x[2]) : /\ Target(new, a, k) = Address(n, Append(x[1], k))
                                 /\ Parts(new[a])[k] = Ref(Address(n, Append(x[1], k)))
  /\ \A k \in DOMAIN Parts(hp[x[2]]) \ RefsIn(hp, x[2]) : Parts(new[a])[k] = Parts(hp[x[2]])[k]
  /\ \A g : WithParts(new[a], g) = WithParts(hp[x[2]], g)

\* The new cell of a node has the kind and the parts of the cell copied, references to its own copies.
LEMMA CopySays ==
  ASSUME NEW hp, Sound(hp), NEW n, NEW handles, NEW nodes, Ways(hp, handles, nodes),
         NEW new, Copies(new, n, hp, nodes), NEW x \in nodes
  PROVE  CopyOf(new, Address(n, x[1]), n, hp, x)
<1>. DEFINE a == Address(n, x[1])
            f == CopiedParts(n, hp, x)
<1>1. a \in DOMAIN new /\ x[2] \in DOMAIN hp /\ new[a] = WithParts(hp[x[2]], f)
  BY DEF Copies, Ways
<1>2. IsAggregate(hp[x[2]])
  BY <1>1 DEF Sound
<1>3. /\ IsFunction(f) /\ DOMAIN f = DOMAIN Parts(hp[x[2]])
      /\ \A k \in RefsIn(hp, x[2]) : f[k] = Ref(Address(n, Append(x[1], k)))
      /\ \A k \in DOMAIN Parts(hp[x[2]]) \ RefsIn(hp, x[2]) : f[k] = Parts(hp[x[2]])[k]
  BY DEF CopiedParts, IsFunction, RefsIn
<1>4. /\ IsAggregate(new[a]) /\ Parts(new[a]) = f
      /\ \A g : WithParts(new[a], g) = WithParts(hp[x[2]], g)
  <2>. HIDE DEF f, a
  <2>. QED
    BY <1>1, <1>2, <1>3, PartsReplaced
<1>5. RefsIn(hp, x[2]) \subseteq DOMAIN Parts(hp[x[2]])
      /\ \A k \in DOMAIN Parts(hp[x[2]]) \ RefsIn(hp, x[2]) : ~IsRef(Parts(hp[x[2]])[k])
  BY DEF RefsIn
<1>6. RefsIn(new, a) = {k \in DOMAIN f : IsRef(f[k])}
  BY <1>4 DEF RefsIn
<1>7. RefsIn(new, a) = RefsIn(hp, x[2])
  <2>. HIDE DEF f, a
  <2>. QED
    BY <1>3, <1>5, <1>6, Handles
<1>8. \A k \in RefsIn(hp, x[2]) : Target(new, a, k) = Address(n, Append(x[1], k))
  <2>. HIDE DEF f, a
  <2>. QED
    BY <1>3, <1>4, Handles DEF Target
<1>. HIDE DEF f, a
<1>9. CopyOf(new, a, n, hp, x)
  BY <1>1, <1>3, <1>4, <1>7, <1>8 DEF CopyOf
<1>. QED
  BY <1>9 DEF a

\* A way goes on in one way only.
LEMMA WaysDiffer ==
  ASSUME NEW L, NEW p \in Seq(L), NEW k \in L, NEW q \in Seq(L), NEW l \in L, Append(p, k) = Append(q, l)
  PROVE  p = q /\ k = l
<1>1. p = Front(Append(p, k)) /\ q = Front(Append(q, l))
  BY DEF Front
<1>2. k = Last(Append(p, k)) /\ l = Last(Append(q, l))
  BY DEF Last
<1>. QED
  BY <1>1, <1>2

\* A way that goes on is not one of length one.
LEMMA WaysBeginOnce ==
  ASSUME NEW L, NEW p \in Seq(L), p # <<>>, NEW k \in L, NEW i
  PROVE  Append(p, k) # <<i>>
<1>. SUFFICES ASSUME Append(p, k) = <<i>>
              PROVE  FALSE
  OBVIOUS
<1>1. Len(Append(p, k)) = Len(p) + 1 /\ Len(p) \in Nat /\ Len(p) > 0
  OBVIOUS
<1>2. Len(<<i>>) = 1
  OBVIOUS
<1>. QED
  BY <1>1, <1>2

\* The cells of a heap with copies, and what their parts refer to.
LEMMA CopiesAre ==
  ASSUME NEW hp, Sound(hp), NEW n, New(n, hp), NEW handles, NEW nodes, Ways(hp, handles, nodes),
         Returns(hp, nodes), NEW new, Copies(new, n, hp, nodes)
  PROVE  /\ \A c \in DOMAIN new \ DOMAIN hp : \E x \in nodes : c = Address(n, x[1])
         /\ \A x \in nodes : Address(n, x[1]) \notin DOMAIN hp
         /\ \A c \in DOMAIN hp : /\ c \in DOMAIN new /\ new[c] = hp[c]
                                 /\ RefsIn(new, c) = RefsIn(hp, c)
                                 /\ \A k \in RefsIn(hp, c) : /\ Target(new, c, k) = Target(hp, c, k)
                                                             /\ Target(hp, c, k) \in DOMAIN hp
         /\ \A x \in nodes : \A k \in RefsIn(hp, x[2]) :
              /\ Part(hp, x, k) \in nodes
              /\ Part(hp, x, k)[1] = Append(x[1], k) /\ Part(hp, x, k)[2] = Target(hp, x[2], k)
              /\ x[1] \in Seq(Labels(hp, handles)) /\ x[1] # <<>> /\ k \in Labels(hp, handles)
<1>1. \A c \in DOMAIN new \ DOMAIN hp : \E x \in nodes : c = Address(n, x[1])
  BY DEF Copies
<1>2. \A x \in nodes : Address(n, x[1]) \notin DOMAIN hp
  BY DEF Address, New
<1>3. ASSUME NEW c \in DOMAIN hp
      PROVE  /\ c \in DOMAIN new /\ new[c] = hp[c]
             /\ RefsIn(new, c) = RefsIn(hp, c)
             /\ \A k \in RefsIn(hp, c) : Target(new, c, k) = Target(hp, c, k) /\ Target(hp, c, k) \in DOMAIN hp
  <2>1. c \in DOMAIN new /\ new[c] = hp[c]
    BY DEF Copies, Extends
  <2>. QED
    BY <2>1, SameCell, PartIsCell
<1>4. ASSUME NEW x \in nodes, NEW k \in RefsIn(hp, x[2])
      PROVE  /\ Part(hp, x, k) \in nodes
             /\ Part(hp, x, k)[1] = Append(x[1], k) /\ Part(hp, x, k)[2] = Target(hp, x[2], k)
             /\ x[1] \in Seq(Labels(hp, handles)) /\ x[1] # <<>> /\ k \in Labels(hp, handles)
  <2>1. x[2] \in DOMAIN hp /\ x[1] \in Seq(Labels(hp, handles)) /\ x[1] # <<>>
    BY DEF Ways
  <2>2. k \in Labels(hp, handles)
    BY <2>1 DEF RefsIn, Labels
  <2>3. Part(hp, x, k) \in nodes
    BY DEF Returns
  <2>4. Part(hp, x, k)[1] = Append(x[1], k) /\ Part(hp, x, k)[2] = Target(hp, x[2], k)
    BY DEF Part, Node
  <2>. QED
    BY <2>1, <2>2, <2>3, <2>4
<1>. QED
  BY <1>1, <1>2, <1>3, <1>4

\* The heap with the copies: references lead to cells ...
LEMMA CopiesSound ==
  ASSUME NEW hp, Sound(hp), NEW n, New(n, hp), NEW handles, NEW nodes, Ways(hp, handles, nodes),
         Returns(hp, nodes), NEW new, Copies(new, n, hp, nodes)
  PROVE  Sound(new)
<1>1. ASSUME NEW c \in DOMAIN hp
      PROVE  IsAggregate(new[c]) /\ \A k \in DOMAIN Parts(new[c]) : HandleIn(new, Parts(new[c])[k])
  <2>1. new[c] = hp[c] /\ IsAggregate(hp[c]) /\ DOMAIN hp \subseteq DOMAIN new
    BY DEF Sound, Copies, Extends
  <2>2. \A k \in DOMAIN Parts(hp[c]) : HandleIn(hp, Parts(hp[c])[k])
    BY DEF Sound
  <2>. QED
    BY <2>1, <2>2 DEF HandleIn
<1>2. ASSUME NEW x \in nodes
      PROVE  /\ IsAggregate(new[Address(n, x[1])])
             /\ \A k \in DOMAIN Parts(new[Address(n, x[1])]) : HandleIn(new, Parts(new[Address(n, x[1])])[k])
  <2>. DEFINE a == Address(n, x[1])
  <2>1. /\ IsAggregate(new[a]) /\ DOMAIN Parts(new[a]) = DOMAIN Parts(hp[x[2]]) /\ x[2] \in DOMAIN hp
        /\ \A k \in RefsIn(hp, x[2]) : Parts(new[a])[k] = Ref(Address(n, Append(x[1], k)))
        /\ \A k \in DOMAIN Parts(hp[x[2]]) \ RefsIn(hp, x[2]) : Parts(new[a])[k] = Parts(hp[x[2]])[k]
    <3>1. CopyOf(new, Address(n, x[1]), n, hp, x)
      BY CopySays
    <3>. QED
      BY <3>1 DEF CopyOf
  <2>2. ASSUME NEW k \in DOMAIN Parts(hp[x[2]])
        PROVE  HandleIn(new, Parts(new[a])[k])
    <3>1. CASE k \in RefsIn(hp, x[2])
      <4>1. Part(hp, x, k) \in nodes /\ Part(hp, x, k)[1] = Append(x[1], k)
        BY <3>1, CopiesAre
      <4>2. Address(n, Append(x[1], k)) \in DOMAIN new
        BY <4>1 DEF Copies
      <4>. QED
        BY <2>1, <3>1, <4>2 DEF HandleIn
    <3>2. CASE k \notin RefsIn(hp, x[2])
      BY <2>1, <3>2, PartIsScalar DEF HandleIn
    <3>. QED
      BY <3>1, <3>2
  <2>. HIDE DEF a
  <2>3. \A k \in DOMAIN Parts(new[a]) : HandleIn(new, Parts(new[a])[k])
    BY <2>1, <2>2
  <2>. QED
    BY <2>1, <2>3 DEF a
<1>3. \A c \in DOMAIN new \ DOMAIN hp : \E x \in nodes : c = Address(n, x[1])
  BY CopiesAre
<1>. QED
  BY <1>1, <1>2, <1>3 DEF Sound

\* ... no cell is a part of itself ...
LEMMA CopiesRanked ==
  ASSUME NEW hp, Sound(hp), Ranked(hp), NEW n, New(n, hp), NEW handles, NEW nodes,
         Ways(hp, handles, nodes), Returns(hp, nodes), NEW new, Copies(new, n, hp, nodes)
  PROVE  Ranked(new)
<1>1. PICK m \in Nat : \E rank : Ranks(hp, rank, m)
  BY DEF Ranked
<1>2. PICK rank : Ranks(hp, rank, m)
  BY <1>1
<1>. DEFINE of(c) == CHOOSE x \in nodes : c = Address(n, x[1])
            rank2 == [c \in DOMAIN new |-> IF c \in DOMAIN hp THEN rank[c] ELSE rank[of(c)[2]]]
<1>3. ASSUME NEW x \in nodes
      PROVE  rank2[Address(n, x[1])] = rank[x[2]]
  <2>1. Address(n, x[1]) \in DOMAIN new \ DOMAIN hp
    BY CopiesAre DEF Copies
  <2>2. of(Address(n, x[1])) \in nodes /\ Address(n, x[1]) = Address(n, of(Address(n, x[1]))[1])
    OBVIOUS
  <2>. HIDE DEF of
  <2>3. of(Address(n, x[1])) = x
    BY <2>2 DEF Address, Ways
  <2>. QED
    BY <2>1, <2>3
<1>4. ASSUME NEW c \in DOMAIN hp
      PROVE  rank2[c] \in 0 .. m /\ \A k \in RefsIn(new, c) : rank2[Target(new, c, k)] < rank2[c]
  <2>1. /\ c \in DOMAIN new /\ RefsIn(new, c) = RefsIn(hp, c)
        /\ \A k \in RefsIn(hp, c) : /\ Target(new, c, k) = Target(hp, c, k) /\ Target(hp, c, k) \in DOMAIN hp
    BY CopiesAre
  <2>2. \A d \in DOMAIN hp : rank2[d] = rank[d]
    BY DEF Copies, Extends
  <2>3. rank[c] \in 0 .. m /\ \A k \in RefsIn(hp, c) : rank[Target(hp, c, k)] < rank[c]
    BY <1>2 DEF Ranks
  <2>. HIDE DEF rank2
  <2>. QED
    BY <2>1, <2>2, <2>3
<1>5. ASSUME NEW x \in nodes
      PROVE  LET c == Address(n, x[1])
             IN  rank2[c] \in 0 .. m /\ \A k \in RefsIn(new, c) : rank2[Target(new, c, k)] < rank2[c]
  <2>. DEFINE c == Address(n, x[1])
  <2>1. /\ x[2] \in DOMAIN hp /\ RefsIn(new, c) = RefsIn(hp, x[2])
        /\ \A k \in RefsIn(hp, x[2]) : Target(new, c, k) = Address(n, Append(x[1], k))
    <3>1. CopyOf(new, Address(n, x[1]), n, hp, x)
      BY CopySays
    <3>. QED
      BY <3>1 DEF CopyOf
  <2>2. rank[x[2]] \in 0 .. m /\ \A k \in RefsIn(hp, x[2]) : rank[Target(hp, x[2], k)] < rank[x[2]]
    BY <1>2, <2>1 DEF Ranks
  <2>. HIDE DEF rank2
  <2>3. ASSUME NEW k \in RefsIn(hp, x[2])
        PROVE  rank2[Target(new, c, k)] = rank[Target(hp, x[2], k)]
    <3>1. /\ Part(hp, x, k) \in nodes /\ Part(hp, x, k)[1] = Append(x[1], k)
          /\ Part(hp, x, k)[2] = Target(hp, x[2], k)
      BY CopiesAre
    <3>. QED
      BY <1>3, <2>1, <3>1
  <2>. QED
    BY <1>3, <2>1, <2>2, <2>3
<1>6. \A c \in DOMAIN new \ DOMAIN hp : \E x \in nodes : c = Address(n, x[1])
  BY CopiesAre
<1>7. Ranks(new, rank2, m)
  <2>. HIDE DEF rank2
  <2>. QED
    BY <1>4, <1>5, <1>6 DEF Ranks
<1>. QED
  BY <1>7 DEF Ranked

\* The copies are nobody's parts but each other's.
LEMMA CopiesApart ==
  ASSUME NEW hp, Sound(hp), PartsApart(hp), NEW roots, Outermost(hp, roots), NEW n, New(n, hp),
         NEW handles, NEW nodes, Ways(hp, handles, nodes), Returns(hp, nodes),
         NEW new, Copies(new, n, hp, nodes)
  PROVE  /\ PartsApart(new)
         /\ Outermost(new, roots \cup {Address(n, <<i>>) : i \in {j \in DOMAIN handles : IsRef(handles[j])}})
<1>. DEFINE tops == {Address(n, <<i>>) : i \in {j \in DOMAIN handles : IsRef(handles[j])}}
            L == Labels(hp, handles)
            Old(c, k) == c \in DOMAIN hp /\ k \in RefsIn(hp, c)
            Copied(x, c, k) == x \in nodes /\ c = Address(n, x[1]) /\ k \in RefsIn(hp, x[2])
<1>1. ASSUME NEW c \in DOMAIN new, NEW k \in RefsIn(new, c)
      PROVE  Old(c, k) \/ \E x : Copied(x, c, k)
  <2>1. CASE c \in DOMAIN hp
    BY <2>1, CopiesAre
  <2>2. CASE c \notin DOMAIN hp
    <3>1. PICK x \in nodes : c = Address(n, x[1])
      BY <2>2, CopiesAre
    <3>2. RefsIn(new, c) = RefsIn(hp, x[2])
      <4>1. CopyOf(new, Address(n, x[1]), n, hp, x)
        BY CopySays
      <4>. QED
        BY <3>1, <4>1 DEF CopyOf
    <3>. QED
      BY <3>1, <3>2
  <2>. QED
    BY <2>1, <2>2
<1>2. ASSUME NEW c, NEW k, Old(c, k)
      PROVE  Target(new, c, k) = Target(hp, c, k) /\ Target(hp, c, k) \in DOMAIN hp
  BY <1>2, CopiesAre
<1>3. ASSUME NEW x, NEW c, NEW k, Copied(x, c, k)
      PROVE  /\ Target(new, c, k) = Address(n, Append(x[1], k))
             /\ Target(new, c, k) \notin DOMAIN hp
             /\ x[1] \in Seq(L) /\ x[1] # <<>> /\ k \in L
  <2>1. Target(new, c, k) = Address(n, Append(x[1], k))
    <3>1. CopyOf(new, Address(n, x[1]), n, hp, x)
      BY <1>3, CopySays
    <3>. QED
      BY <1>3, <3>1 DEF CopyOf
  <2>2. /\ Part(hp, x, k) \in nodes /\ Part(hp, x, k)[1] = Append(x[1], k)
        /\ x[1] \in Seq(L) /\ x[1] # <<>> /\ k \in L
    BY <1>3, CopiesAre
  <2>3. Address(n, Part(hp, x, k)[1]) \notin DOMAIN hp
    BY <2>2, CopiesAre
  <2>. QED
    BY <2>1, <2>2, <2>3
<1>4. ASSUME NEW c \in DOMAIN new, NEW d \in DOMAIN new, NEW k \in RefsIn(new, c), NEW l \in RefsIn(new, d),
             Target(new, c, k) = Target(new, d, l)
      PROVE  c = d /\ k = l
  <2>1. CASE Old(c, k) /\ Old(d, l)
    <3>1. Target(hp, c, k) = Target(hp, d, l)
      BY <1>2, <1>4, <2>1
    <3>. QED
      BY <2>1, <3>1 DEF PartsApart
  <2>2. CASE (Old(c, k) /\ \E x : Copied(x, d, l)) \/ (Old(d, l) /\ \E x : Copied(x, c, k))
    <3>. HIDE DEF Old, Copied
    <3>. QED
      BY <1>2, <1>3, <1>4, <2>2
  <2>3. ASSUME NEW x, Copied(x, c, k), NEW y, Copied(y, d, l)
        PROVE  c = d /\ k = l
    <3>1. Append(x[1], k) = Append(y[1], l)
      <4>1. Address(n, Append(x[1], k)) = Address(n, Append(y[1], l))
        <5>. HIDE DEF Copied
        <5>. QED
          BY <1>3, <1>4, <2>3
      <4>. QED
        BY <4>1 DEF Address
    <3>2. x[1] \in Seq(L) /\ k \in L /\ y[1] \in Seq(L) /\ l \in L
      <4>. HIDE DEF Copied, L
      <4>. QED
        BY <1>3, <2>3
    <3>3. x[1] = y[1] /\ k = l
      <4>. DEFINE p == x[1]  q == y[1]
      <4>1. p \in Seq(L) /\ k \in L /\ q \in Seq(L) /\ l \in L /\ Append(p, k) = Append(q, l)
        BY <3>1, <3>2
      <4>. HIDE DEF Copied, L, p, q
      <4>2. p = q /\ k = l
        BY <4>1, WaysDiffer
      <4>. QED
        BY <4>2 DEF p, q
    <3>. QED
      BY <2>3, <3>3
  <2>. HIDE DEF Old, Copied
  <2>. QED
    BY <1>1, <2>1, <2>2, <2>3
<1>5. roots \cup tops \subseteq DOMAIN new
  <2>1. roots \subseteq DOMAIN new
    BY CopiesAre DEF Outermost
  <2>2. ASSUME NEW i \in DOMAIN handles, IsRef(handles[i])
        PROVE  Address(n, <<i>>) \in DOMAIN new
    <3>1. Node(<<i>>, handles[i].cell) \in nodes /\ Node(<<i>>, handles[i].cell)[1] = <<i>>
      BY <2>2 DEF Ways, RootNodes, Node
    <3>. QED
      BY <3>1 DEF Copies
  <2>. QED
    BY <2>1, <2>2
<1>6. ASSUME NEW c \in DOMAIN new, NEW k \in RefsIn(new, c)
      PROVE  Target(new, c, k) \notin roots \cup tops
  <2>1. CASE Old(c, k)
    <3>1. Target(new, c, k) \notin roots
      BY <1>2, <2>1 DEF Outermost
    <3>2. ASSUME NEW i \in DOMAIN handles, IsRef(handles[i])
          PROVE  Address(n, <<i>>) \notin DOMAIN hp
      BY DEF Address, New
    <3>. HIDE DEF Old
    <3>. QED
      BY <1>2, <2>1, <3>1, <3>2
  <2>2. ASSUME NEW x, Copied(x, c, k)
        PROVE  Target(new, c, k) \notin roots \cup tops
    <3>1. Target(new, c, k) = Address(n, Append(x[1], k)) /\ Target(new, c, k) \notin DOMAIN hp
          /\ x[1] \in Seq(L) /\ x[1] # <<>> /\ k \in L
      <4>. HIDE DEF Copied, L
      <4>. QED
        BY <1>3, <2>2
    <3>2. \A i : Append(x[1], k) # <<i>>
      <4>. HIDE DEF L
      <4>. QED
        BY <3>1, WaysBeginOnce
    <3>3. \A i : Address(n, Append(x[1], k)) # Address(n, <<i>>)
      BY <3>2 DEF Address
    <3>. QED
      BY <3>1, <3>3 DEF Outermost
  <2>. HIDE DEF Old, Copied
  <2>. QED
    BY <1>1, <2>1, <2>2
<1>. HIDE DEF tops
<1>7. PartsApart(new)
  BY <1>4 DEF PartsApart
<1>8. Outermost(new, roots \cup tops)
  BY <1>5, <1>6 DEF Outermost
<1>. QED
  BY <1>7, <1>8 DEF tops

\* A copy has the value of what it is a copy of.
LEMMA CopiesEqual ==
  ASSUME NEW hp, Sound(hp), Ranked(hp), NEW n, New(n, hp), NEW handles, NEW nodes,
         Ways(hp, handles, nodes), Returns(hp, nodes), NEW new, Copies(new, n, hp, nodes)
  PROVE  \A x \in nodes : ValueAt(new)[Address(n, x[1])] = ValueAt(hp)[x[2]]
<1>. DEFINE S == {Address(n, x[1]) : x \in nodes}
            of(c) == CHOOSE x \in nodes : c = Address(n, x[1])
            source == [c \in S |-> of(c)[2]]
<1>1. ASSUME NEW x \in nodes
      PROVE  Address(n, x[1]) \in S /\ source[Address(n, x[1])] = x[2]
  <2>1. of(Address(n, x[1])) \in nodes /\ Address(n, x[1]) = Address(n, of(Address(n, x[1]))[1])
    OBVIOUS
  <2>2. of(Address(n, x[1])) = x
    <3>. HIDE DEF of
    <3>. QED
      BY <2>1 DEF Address, Ways
  <2>3. source[Address(n, x[1])] = of(Address(n, x[1]))[2]
    <3>. HIDE DEF of
    <3>. QED
      OBVIOUS
  <2>. HIDE DEF of, source
  <2>. QED
    BY <2>2, <2>3
<1>2. ASSUME NEW x \in nodes
      PROVE  LET c == Address(n, x[1])
             IN  /\ c \in DOMAIN new /\ source[c] \in DOMAIN hp
                 /\ hp[source[c]] = WithParts(new[c], AllMoved(source, Parts(new[c])))
                 /\ \A k \in RefsIn(new, c) : Target(new, c, k) \in S
  <2>. DEFINE c == Address(n, x[1])
  <2>1. CopyOf(new, c, n, hp, x)
    BY CopySays
  <2>2. source[c] = x[2] /\ x[2] \in DOMAIN hp /\ c \in DOMAIN new
    BY <1>1, <2>1 DEF CopyOf
  <2>3. IsAggregate(hp[x[2]])
    BY <2>2 DEF Sound
  <2>4. IsFunction(Parts(hp[x[2]])) /\ WithParts(hp[x[2]], Parts(hp[x[2]])) = hp[x[2]]
    BY <2>3, PartsOf
  <2>. HIDE DEF c, S, source
  <2>5. ASSUME NEW k \in RefsIn(hp, x[2])
        PROVE  /\ Target(new, c, k) \in S
               /\ Moved(source, Parts(new[c])[k]) = Parts(hp[x[2]])[k]
    <3>. DEFINE y == Part(hp, x, k)
    <3>1. y \in nodes /\ y[1] = Append(x[1], k) /\ y[2] = Target(hp, x[2], k)
      BY CopiesAre
    <3>2. Target(new, c, k) = Address(n, y[1]) /\ Parts(new[c])[k] = Ref(Address(n, y[1]))
      BY <2>1, <3>1 DEF CopyOf
    <3>3. Address(n, y[1]) \in S /\ source[Address(n, y[1])] = y[2]
      BY <1>1, <3>1
    <3>4. Parts(hp[x[2]])[k] = Ref(y[2])
      BY <2>2, <3>1, PartIsCell
    <3>. HIDE DEF y
    <3>. QED
      BY <3>2, <3>3, <3>4, Handles DEF Moved
  <2>6. ASSUME NEW k \in DOMAIN Parts(hp[x[2]]), k \notin RefsIn(hp, x[2])
        PROVE  Moved(source, Parts(new[c])[k]) = Parts(hp[x[2]])[k]
    <3>1. Parts(new[c])[k] = Parts(hp[x[2]])[k]
      BY <2>1, <2>6 DEF CopyOf
    <3>. QED
      BY <2>6, <3>1 DEF Moved, RefsIn
  <2>7. AllMoved(source, Parts(new[c])) = Parts(hp[x[2]])
    <3>1. DOMAIN Parts(new[c]) = DOMAIN Parts(hp[x[2]])
      BY <2>1 DEF CopyOf
    <3>. QED
      BY <2>4, <2>5, <2>6, <3>1 DEF AllMoved, IsFunction
  <2>8. hp[source[c]] = WithParts(new[c], AllMoved(source, Parts(new[c])))
    BY <2>1, <2>2, <2>4, <2>7 DEF CopyOf
  <2>9. \A k \in RefsIn(new, c) : Target(new, c, k) \in S
    BY <2>1, <2>5 DEF CopyOf
  <2>. QED
    BY <2>2, <2>8, <2>9 DEF c
<1>3. Mirrors(hp, new, S, source)
  <2>. HIDE DEF source
  <2>. QED
    BY <1>2 DEF Mirrors
<1>4. Sound(new) /\ Ranked(new)
  BY CopiesSound, CopiesRanked
<1>5. \A c \in S : ValueAt(hp)[source[c]] = ValueAt(new)[c]
  <2>. HIDE DEF source, S
  <2>. QED
    BY <1>3, <1>4, SameValues
<1>. HIDE DEF source, S
<1>. QED
  BY <1>1, <1>5

\* What the interpreter relies on when it clones handles of hp, whose roots
\* are nobody's parts: the copies are new cells, each the root of its own, of
\* the same values; all that was there is as it was.
IsClone(hp, roots, handles, n, new, to) ==
  /\ Forest(new, roots \cup Referred(to))
  /\ Extends(new, hp)
  /\ \A c \in DOMAIN new \ DOMAIN hp : c[1] = n
  /\ Referred(to) \cap DOMAIN hp = {}
  /\ to = [i \in DOMAIN handles |-> to[i]]
  /\ Known(new, to) /\ Apart(to)
  /\ \A i \in DOMAIN handles : Value(new, to[i]) = Value(hp, handles[i])
  /\ \A h : HandleIn(hp, h) => HandleIn(new, h) /\ Value(new, h) = Value(hp, h)

\* cloneValue of several handles gives fresh cells for the same values, and leaves all others alone.
LEMMA ClonesAre ==
  ASSUME NEW hp, NEW roots, Forest(hp, roots), NEW n, New(n, hp), NEW handles, Known(hp, handles),
         NEW copy \in cloneValues(n, hp, handles)
  PROVE  IsClone(hp, roots, handles, n, copy.heap, copy.to)
<1>. DEFINE nodes == Nodes(hp, handles)
            new   == copy.heap
            to    == copy.to
            tops  == {Address(n, <<i>>) : i \in {j \in DOMAIN handles : IsRef(handles[j])}}
<1>1. Sound(hp) /\ Ranked(hp) /\ PartsApart(hp) /\ Outermost(hp, roots)
  BY DEF Forest
<1>2. copy = Cloned(n, hp, handles, nodes) /\ Returns(hp, nodes)
  BY DEF cloneValues
<1>3. Ways(hp, handles, nodes)
  BY <1>1, NodesSay
<1>4. to = [i \in DOMAIN handles |-> IF IsRef(handles[i]) THEN Ref(Address(n, <<i>>)) ELSE handles[i]]
  BY <1>2 DEF Cloned
<1>. HIDE DEF nodes
<1>5. Copies(new, n, hp, nodes)
  BY <1>2, <1>3, ClonedSays
<1>. HIDE DEF new, to
<1>6. Sound(new) /\ Ranked(new) /\ PartsApart(new) /\ Outermost(new, roots \cup tops)
  BY <1>1, <1>2, <1>3, <1>5, CopiesSound, CopiesRanked, CopiesApart
<1>7. ASSUME NEW i \in DOMAIN handles
      PROVE  /\ IsRef(to[i]) <=> IsRef(handles[i])
             /\ IsRef(handles[i]) => to[i].cell = Address(n, <<i>>) /\ to[i] = Ref(Address(n, <<i>>))
             /\ ~IsRef(handles[i]) => to[i] = handles[i]
  BY <1>4, Handles
<1>8. Referred(to) = tops
  <2>1. DOMAIN to = DOMAIN handles
    BY <1>4
  <2>. QED
    BY <1>7, <2>1 DEF Referred
<1>9. Forest(new, roots \cup Referred(to))
  BY <1>6, <1>8 DEF Forest
<1>10. Extends(new, hp) /\ \A c \in DOMAIN new \ DOMAIN hp : c[1] = n
  BY <1>5 DEF Copies, Address
<1>11. Referred(to) \cap DOMAIN hp = {}
  BY <1>8 DEF Address, New
<1>12. to = [i \in DOMAIN handles |-> to[i]]
  BY <1>4
<1>13. \A h : HandleIn(hp, h) => HandleIn(new, h)
  BY <1>10 DEF HandleIn, Extends
<1>14. Known(new, to)
  <2>1. ASSUME NEW i \in DOMAIN handles
        PROVE  HandleIn(new, to[i])
    <3>1. CASE IsRef(handles[i])
      <4>1. Address(n, <<i>>) \in DOMAIN new
        BY <1>6, <3>1 DEF Outermost
      <4>. QED
        BY <1>7, <3>1, <4>1 DEF HandleIn
    <3>2. CASE ~IsRef(handles[i])
      BY <1>7, <1>13, <3>2 DEF Known
    <3>. QED
      BY <3>1, <3>2
  <2>. QED
    BY <1>12, <2>1 DEF Known
<1>15. Apart(to)
  <2>1. ASSUME NEW i \in DOMAIN handles, NEW j \in DOMAIN handles, IsRef(to[i]), to[i] = to[j]
        PROVE  i = j
    <3>1. Address(n, <<i>>) = Address(n, <<j>>)
      BY <1>7, <2>1
    <3>2. <<i>> = <<j>>
      BY <3>1 DEF Address
    <3>. QED
      BY <3>2
  <2>. QED
    BY <1>12, <2>1 DEF Apart
<1>16. ASSUME NEW i \in DOMAIN handles
       PROVE  Value(new, to[i]) = Value(hp, handles[i])
  <2>1. CASE IsRef(handles[i])
    <3>1. Node(<<i>>, handles[i].cell) \in nodes
      BY <1>3, <2>1 DEF Ways, RootNodes
    <3>2. Node(<<i>>, handles[i].cell)[1] = <<i>> /\ Node(<<i>>, handles[i].cell)[2] = handles[i].cell
      BY DEF Node
    <3>3. ValueAt(new)[Address(n, <<i>>)] = ValueAt(hp)[handles[i].cell]
      BY <1>1, <1>2, <1>3, <1>5, <3>1, <3>2, CopiesEqual
    <3>. QED
      BY <1>7, <2>1, <3>3 DEF Value
  <2>2. CASE ~IsRef(handles[i])
    BY <1>7, <2>2 DEF Value
  <2>. QED
    BY <2>1, <2>2
<1>17. \A h : HandleIn(hp, h) => Value(new, h) = Value(hp, h)
  BY <1>1, <1>6, <1>10, ExtendedValues
<1>18. IsClone(hp, roots, handles, n, new, to)
  BY <1>9, <1>10, <1>11, <1>12, <1>13, <1>14, <1>15, <1>16, <1>17 DEF IsClone
<1>. QED
  BY <1>18 DEF new, to

\* ... and of one handle.
LEMMA CloneIs ==
  ASSUME NEW hp, NEW roots, Forest(hp, roots), NEW n, New(n, hp), NEW h, HandleIn(hp, h),
         NEW copy \in cloneValue(n, hp, h)
  PROVE  /\ IsClone(hp, roots, <<h>>, n, copy.heap, <<copy.to>>)
<1>1. PICK copies \in cloneValues(n, hp, <<h>>) : copy = [heap |-> copies.heap, to |-> copies.to[1]]
  BY DEF cloneValue
<1>2. Known(hp, <<h>>)
  BY DEF Known
<1>3. IsClone(hp, roots, <<h>>, n, copies.heap, copies.to)
  BY <1>2, ClonesAre
<1>4. copies.to = [i \in DOMAIN <<h>> |-> copies.to[i]]
  BY <1>3 DEF IsClone
<1>5. copies.to = <<copies.to[1]>>
  BY <1>4
<1>6. copies.heap = copy.heap /\ copies.to = <<copy.to>>
  BY <1>1, <1>5
<1>. QED
  BY <1>3, <1>6

-----------------------------------------------------------------------------
(* A new cell.                                                             *)

\* Allocate adds one cell and changes none.
LEMMA Allocated ==
  ASSUME NEW hp, NEW n, New(n, hp), NEW a
  PROVE  /\ Allocate(n, hp, a).to = Ref(Address(n, <<>>))
         /\ Address(n, <<>>) \notin DOMAIN hp
         /\ DOMAIN Allocate(n, hp, a).heap = DOMAIN hp \cup {Address(n, <<>>)}
         /\ Allocate(n, hp, a).heap[Address(n, <<>>)] = a
         /\ Extends(Allocate(n, hp, a).heap, hp)
<1>. DEFINE b == Address(n, <<>>)
            more == [c \in {b} |-> a]
<1>1. b \notin DOMAIN hp
  BY DEF Address, New
<1>2. Allocate(n, hp, a) = [heap |-> Extended(hp, more), to |-> Ref(b)]
  BY DEF Allocate
<1>3. DOMAIN more = {b} /\ more[b] = a
  OBVIOUS
<1>. HIDE DEF b, more
<1>4. Allocate(n, hp, a).to = Ref(b) /\ Allocate(n, hp, a).heap = Extended(hp, more)
  BY <1>2
<1>5. DOMAIN Extended(hp, more) = DOMAIN hp \cup {b} /\ Extended(hp, more)[b] = a
      /\ \A c \in DOMAIN hp : Extended(hp, more)[c] = hp[c]
  BY <1>1, <1>3 DEF Extended
<1>. QED
  BY <1>1, <1>4, <1>5 DEF b, Extends

\* A new cell can be made of a.
CanMake(hp, roots, a, n) ==
  /\ New(n, hp) /\ Forest(hp, roots \cup Referred(Parts(a))) /\ roots \cap Referred(Parts(a)) = {}
  /\ IsAggregate(a) /\ Known(hp, Parts(a)) /\ Apart(Parts(a))

IsMade(new, hp, roots, a, n) ==
  /\ Forest(new, roots \cup {Address(n, <<>>)})
  /\ Extends(new, hp)
  /\ Address(n, <<>>) \in DOMAIN new \ DOMAIN hp
  /\ Value(new, Ref(Address(n, <<>>))) = WithParts(a, Values(hp, Parts(a)))
  /\ \A h : HandleIn(hp, h) => HandleIn(new, h) /\ Value(new, h) = Value(hp, h)

\* An aggregate of roots, in a cell of its own, is the new root.
LEMMA MadeIs ==
  ASSUME NEW hp, NEW roots, NEW a, NEW n, CanMake(hp, roots, a, n)
  PROVE  IsMade(Allocate(n, hp, a).heap, hp, roots, a, n)
<1>. DEFINE new == Allocate(n, hp, a).heap
            b == Address(n, <<>>)
            refs == {k \in DOMAIN Parts(a) : IsRef(Parts(a)[k])}
            to(k) == Parts(a)[k].cell
<1>c. /\ New(n, hp) /\ Forest(hp, roots \cup Referred(Parts(a))) /\ roots \cap Referred(Parts(a)) = {}
      /\ IsAggregate(a) /\ Known(hp, Parts(a)) /\ Apart(Parts(a))
  BY DEF CanMake
<1>. USE <1>c
<1>0. Sound(hp) /\ Ranked(hp) /\ PartsApart(hp) /\ Outermost(hp, roots \cup Referred(Parts(a)))
  BY DEF Forest
<1>1. b \notin DOMAIN hp /\ DOMAIN new = DOMAIN hp \cup {b} /\ new[b] = a /\ Extends(new, hp)
  BY Allocated
<1>. HIDE DEF b, new
<1>2. RefsIn(new, b) = refs /\ \A k \in refs : Target(new, b, k) = to(k)
  BY <1>1 DEF RefsIn, Target
<1>3. ASSUME NEW k \in refs
      PROVE  to(k) \in DOMAIN hp /\ to(k) \in Referred(Parts(a)) /\ Parts(a)[k] = Ref(to(k))
  BY Handles DEF Known, HandleIn, Referred
<1>4. ASSUME NEW c \in DOMAIN hp
      PROVE  /\ c \in DOMAIN new /\ new[c] = hp[c] /\ RefsIn(new, c) = RefsIn(hp, c)
             /\ \A k \in RefsIn(hp, c) : Target(new, c, k) = Target(hp, c, k) /\ Target(hp, c, k) \in DOMAIN hp
  <2>1. c \in DOMAIN new /\ new[c] = hp[c]
    BY <1>1 DEF Extends
  <2>. QED
    BY <1>0, <2>1, SameCell, PartIsCell
<1>. HIDE DEF refs, to
<1>5. \A h : HandleIn(hp, h) => HandleIn(new, h)
  BY <1>1 DEF HandleIn
<1>6. Sound(new)
  <2>1. \A c \in DOMAIN hp : IsAggregate(new[c]) /\ \A k \in DOMAIN Parts(new[c]) : HandleIn(new, Parts(new[c])[k])
    BY <1>0, <1>4, <1>5 DEF Sound
  <2>2. IsAggregate(new[b]) /\ \A k \in DOMAIN Parts(new[b]) : HandleIn(new, Parts(new[b])[k])
    BY <1>1, <1>5 DEF Known
  <2>. QED
    BY <1>1, <2>1, <2>2 DEF Sound
<1>7. Ranked(new)
  <2>1. PICK m \in Nat : \E rank : Ranks(hp, rank, m)
    BY <1>0 DEF Ranked
  <2>2. PICK rank : Ranks(hp, rank, m)
    BY <2>1
  <2>. DEFINE rank2 == [c \in DOMAIN new |-> IF c \in DOMAIN hp THEN rank[c] ELSE m + 1]
  <2>3. rank2[b] = m + 1 /\ \A c \in DOMAIN hp : rank2[c] = rank[c]
    BY <1>1
  <2>. HIDE DEF rank2
  <2>4. ASSUME NEW c \in DOMAIN hp
        PROVE  rank2[c] \in 0 .. m + 1 /\ \A k \in RefsIn(new, c) : rank2[Target(new, c, k)] < rank2[c]
    BY <1>4, <2>2, <2>3 DEF Ranks
  <2>5. ASSUME NEW k \in RefsIn(new, b)
        PROVE  rank2[Target(new, b, k)] < rank2[b]
    <3>1. to(k) \in DOMAIN hp /\ Target(new, b, k) = to(k)
      BY <1>2, <1>3
    <3>2. rank[to(k)] \in 0 .. m
      BY <2>2, <3>1 DEF Ranks
    <3>. QED
      BY <2>3, <3>1, <3>2
  <2>6. Ranks(new, rank2, m + 1)
    BY <1>1, <2>3, <2>4, <2>5 DEF Ranks
  <2>. QED
    BY <2>6 DEF Ranked
<1>8. PartsApart(new)
  <2>1. ASSUME NEW c \in DOMAIN hp, NEW k \in RefsIn(hp, c), NEW l \in refs
        PROVE  Target(hp, c, k) # to(l)
    BY <1>0, <1>3 DEF Outermost
  <2>2. ASSUME NEW k \in refs, NEW l \in refs, to(k) = to(l)
        PROVE  k = l
    BY <1>3, <2>2 DEF Apart, refs
  <2>3. ASSUME NEW c \in DOMAIN new, NEW d \in DOMAIN new, NEW k \in RefsIn(new, c), NEW l \in RefsIn(new, d),
               Target(new, c, k) = Target(new, d, l)
        PROVE  c = d /\ k = l
    <3>1. CASE c = b /\ d = b
      BY <1>2, <2>2, <2>3, <3>1
    <3>2. CASE c = b /\ d \in DOMAIN hp
      BY <1>2, <1>4, <2>1, <2>3, <3>2
    <3>3. CASE c \in DOMAIN hp /\ d = b
      BY <1>2, <1>4, <2>1, <2>3, <3>3
    <3>4. CASE c \in DOMAIN hp /\ d \in DOMAIN hp
      BY <1>0, <1>4, <2>3, <3>4 DEF PartsApart
    <3>. QED
      BY <1>1, <3>1, <3>2, <3>3, <3>4
  <2>. QED
    BY <2>3 DEF PartsApart
<1>9. Outermost(new, roots \cup {b})
  <2>1. ASSUME NEW c \in DOMAIN hp, NEW k \in RefsIn(new, c)
        PROVE  Target(new, c, k) \notin roots \cup {b}
    BY <1>0, <1>1, <1>4 DEF Outermost
  <2>2. ASSUME NEW k \in RefsIn(new, b)
        PROVE  Target(new, b, k) \notin roots \cup {b}
    BY <1>1, <1>2, <1>3
  <2>. QED
    BY <1>0, <1>1, <2>1, <2>2 DEF Outermost
<1>10. Forest(new, roots \cup {b})
  BY <1>6, <1>7, <1>8, <1>9 DEF Forest
<1>11. \A h : HandleIn(hp, h) => Value(new, h) = Value(hp, h)
  BY <1>0, <1>1, <1>6, <1>7, ExtendedValues
<1>12. Value(new, Ref(b)) = WithParts(a, Values(hp, Parts(a)))
  <2>1. Value(new, Ref(b)) = Body(new, ValueAt(new), b)
    BY <1>1, <1>6, <1>7, ValueSays, Handles DEF Value
  <2>2. \A k \in refs : ValueAt(new)[Target(new, b, k)] = Value(hp, Parts(a)[k])
    <3>1. ASSUME NEW k \in refs
          PROVE  ValueAt(new)[to(k)] = Value(hp, Parts(a)[k])
      <4>1. Value(new, Ref(to(k))) = Value(hp, Ref(to(k))) /\ Parts(a)[k] = Ref(to(k))
        BY <1>3, <1>11 DEF HandleIn
      <4>. QED
        BY <4>1, Handles DEF Value
    <3>. QED
      BY <1>2, <3>1
  <2>3. \A k \in DOMAIN Parts(a) \ refs : Parts(a)[k] = Value(hp, Parts(a)[k])
    BY DEF refs, Value
  <2>. QED
    BY <1>1, <1>2, <2>1, <2>2, <2>3 DEF Body, Values
<1>. QED
  BY <1>1, <1>5, <1>10, <1>11, <1>12 DEF b, new, IsMade

-----------------------------------------------------------------------------
(* What is kept after a step.                                              *)

\* A cell has an owner: a slot or a part.
Owned(hp, held) ==
  \A c \in DOMAIN hp : c \in Referred(held) \/ \E d \in DOMAIN hp : \E k \in RefsIn(hp, d) : Target(hp, d, k) = c

\* Slots and the cells they reach, each cell owned once.
Tidy(hp, held) == Forest(hp, Referred(held)) /\ Known(hp, held) /\ Apart(held)

\* The cells in their places after a step, as Becomes has them.
Live(hp, held) == {x[2] : x \in Nodes(hp, held)}

Places(hp, held) ==
  [c \in Live(hp, held) |-> Address(0, (CHOOSE x \in Nodes(hp, held) : x[2] = c)[1])]

Placed(hp, held, at) ==
  LET old(b) == CHOOSE c \in Live(hp, held) : at[c] = b
  IN  [b \in {at[c] : c \in Live(hp, held)} |-> WithParts(hp[old(b)], AllMoved(at, Parts(hp[old(b)])))]

\* Two live cells do not get the same address.
LEMMA PlacesApart ==
  ASSUME NEW hp, NEW held, Ways(hp, held, Nodes(hp, held)), NEW at, at = Places(hp, held)
  PROVE  /\ \A c \in Live(hp, held) : at[c][1] = 0
         /\ \A c, d \in Live(hp, held) : at[c] = at[d] => c = d
<1>. DEFINE nodes == Nodes(hp, held)
            way(c) == CHOOSE x \in nodes : x[2] = c
<1>1. ASSUME NEW c \in Live(hp, held)
      PROVE  at[c] = Address(0, way(c)[1]) /\ way(c) \in nodes /\ way(c)[2] = c
  BY DEF Live, Places
<1>. HIDE DEF nodes, way
<1>2. ASSUME NEW c \in Live(hp, held), NEW d \in Live(hp, held), at[c] = at[d]
      PROVE  c = d
  <2>1. way(c)[1] = way(d)[1]
    BY <1>1, <1>2 DEF Address
  <2>2. way(c) = way(d)
    BY <1>1, <2>1 DEF Ways, nodes
  <2>. QED
    BY <1>1, <2>2
<1>3. \A c \in Live(hp, held) : at[c][1] = 0
  BY <1>1 DEF Address
<1>. QED
  BY <1>2, <1>3

\* In their places the cells mirror what they were.
LEMMA PlacedMirrors ==
  ASSUME NEW hp, NEW held, Sound(hp), Known(hp, held), Returns(hp, Nodes(hp, held)),
         NEW at, at = Places(hp, held), NEW new, new = Placed(hp, held, at)
  PROVE  /\ Mirrors(new, hp, Live(hp, held), at)
         /\ DOMAIN new = {at[c] : c \in Live(hp, held)}
         /\ \A c, d \in Live(hp, held) : at[c] = at[d] => c = d
         /\ Referred(held) \subseteq Live(hp, held)
         /\ \A c \in Live(hp, held) : \/ c \in Referred(held)
                                      \/ \E d \in Live(hp, held) : \E k \in RefsIn(hp, d) : Target(hp, d, k) = c
<1>. DEFINE nodes == Nodes(hp, held)
            live == Live(hp, held)
            old(b) == CHOOSE c \in live : at[c] = b
<1>1. Ways(hp, held, nodes)
  BY NodesSay
<1>2. \A c, d \in live : at[c] = at[d] => c = d
  BY <1>1, PlacesApart
<1>3. DOMAIN new = {at[c] : c \in live}
  BY DEF Placed
<1>4. ASSUME NEW c \in live
      PROVE  new[at[c]] = WithParts(hp[c], AllMoved(at, Parts(hp[c])))
  <2>1. old(at[c]) \in live /\ at[old(at[c])] = at[c]
    OBVIOUS
  <2>2. new[at[c]] = WithParts(hp[old(at[c])], AllMoved(at, Parts(hp[old(at[c])])))
    BY DEF Placed
  <2>. HIDE DEF old, live
  <2>3. old(at[c]) = c
    BY <1>2, <2>1
  <2>. QED
    BY <2>2, <2>3
<1>5. ASSUME NEW c \in live
      PROVE  c \in DOMAIN hp /\ at[c] \in DOMAIN new /\ \A k \in RefsIn(hp, c) : Target(hp, c, k) \in live
  <2>1. PICK x \in nodes : x[2] = c
    BY DEF Live
  <2>2. c \in DOMAIN hp
    BY <1>1, <2>1 DEF Ways
  <2>3. ASSUME NEW k \in RefsIn(hp, c)
        PROVE  Target(hp, c, k) \in live
    <3>1. Part(hp, x, k) \in nodes /\ Part(hp, x, k)[2] = Target(hp, c, k)
      BY <2>1 DEF Returns, Part, Node
    <3>. QED
      BY <3>1 DEF Live
  <2>. QED
    BY <1>3, <2>2, <2>3
<1>6. Mirrors(new, hp, live, at)
  <2>. HIDE DEF live
  <2>. QED
    BY <1>4, <1>5 DEF Mirrors
<1>7. Referred(held) \subseteq live
  <2>1. ASSUME NEW i \in DOMAIN held, IsRef(held[i])
        PROVE  held[i].cell \in live
    <3>1. Node(<<i>>, held[i].cell) \in nodes /\ Node(<<i>>, held[i].cell)[2] = held[i].cell
      BY <1>1, <2>1 DEF Ways, RootNodes, Node
    <3>. QED
      BY <3>1 DEF Live
  <2>. QED
    BY <2>1 DEF Referred
<1>8. ASSUME NEW c \in live, c \notin Referred(held)
      PROVE  \E d \in live : \E k \in RefsIn(hp, d) : Target(hp, d, k) = c
  <2>1. PICK x \in nodes : x[2] = c
    BY DEF Live
  <2>2. x \notin RootNodes(held)
    BY <1>8, <2>1 DEF RootNodes, Node, Referred
  <2>3. PICK y \in nodes : \E k \in RefsIn(hp, y[2]) : x = Part(hp, y, k)
    BY <1>1, <2>1, <2>2 DEF Ways
  <2>4. PICK k \in RefsIn(hp, y[2]) : x = Part(hp, y, k)
    BY <2>3
  <2>5. y[2] \in live /\ Target(hp, y[2], k) = c
    BY <2>1, <2>4 DEF Live, Part, Node
  <2>. QED
    BY <2>4, <2>5
<1>. HIDE DEF live
<1>. QED
  BY <1>2, <1>3, <1>6, <1>7, <1>8 DEF live

\* What is tidy stays tidy in its places, nothing is left that no slot reaches,
\* and every slot keeps its value.
LEMMA Settled ==
  ASSUME NEW hp, NEW held, Tidy(hp, held), Returns(hp, Nodes(hp, held)),
         NEW at, at = Places(hp, held), NEW new, new = Placed(hp, held, at)
  PROVE  /\ Tidy(new, AllMoved(at, held))
         /\ Owned(new, AllMoved(at, held))
         /\ New(1, new) /\ New(2, new)
         /\ \A i \in DOMAIN held : /\ HandleIn(new, Moved(at, held[i]))
                                   /\ Value(new, Moved(at, held[i])) = Value(hp, held[i])
<1>. DEFINE live == Live(hp, held)
            held2 == AllMoved(at, held)
<1>1. Sound(hp) /\ Ranked(hp) /\ PartsApart(hp) /\ Outermost(hp, Referred(held)) /\ Known(hp, held) /\ Apart(held)
  BY DEF Tidy, Forest
<1>. HIDE DEF live
<1>2. /\ Mirrors(new, hp, live, at)
      /\ DOMAIN new = {at[c] : c \in live}
      /\ \A c, d \in live : at[c] = at[d] => c = d
      /\ Referred(held) \subseteq live
      /\ \A c \in live : \/ c \in Referred(held)
                         \/ \E d \in live : \E k \in RefsIn(hp, d) : Target(hp, d, k) = c
  BY <1>1, PlacedMirrors DEF live
<1>3. ASSUME NEW c \in live
      PROVE  /\ c \in DOMAIN hp /\ at[c] \in DOMAIN new
             /\ IsAggregate(new[at[c]])
             /\ DOMAIN Parts(new[at[c]]) = DOMAIN Parts(hp[c])
             /\ RefsIn(new, at[c]) = RefsIn(hp, c)
             /\ \A k \in RefsIn(hp, c) : /\ Target(hp, c, k) \in live
                                         /\ Target(new, at[c], k) = at[Target(hp, c, k)]
             /\ \A k \in DOMAIN Parts(hp[c]) : Parts(new[at[c]])[k] = Moved(at, Parts(hp[c])[k])
  <2>1. IsLike(new, at[c], hp, c, at)
    BY <1>1, <1>2, Likeness
  <2>2. c \in DOMAIN hp /\ at[c] \in DOMAIN new /\ \A k \in RefsIn(hp, c) : Target(hp, c, k) \in live
    BY <1>2 DEF Mirrors
  <2>. QED
    BY <2>1, <2>2 DEF IsLike
<1>4. ASSUME NEW h, HandleIn(hp, h), IsRef(h) => h.cell \in live
      PROVE  HandleIn(new, Moved(at, h))
  <2>1. CASE IsRef(h)
    BY <1>3, <1>4, <2>1 DEF Moved, HandleIn
  <2>2. CASE ~IsRef(h)
    BY <1>4, <2>2, Handles DEF Moved, HandleIn
  <2>. QED
    BY <2>1, <2>2
<1>5. Sound(new)
  <2>1. ASSUME NEW c \in live, NEW k \in DOMAIN Parts(new[at[c]])
        PROVE  HandleIn(new, Parts(new[at[c]])[k])
    <3>1. k \in DOMAIN Parts(hp[c]) /\ c \in DOMAIN hp /\ Parts(new[at[c]])[k] = Moved(at, Parts(hp[c])[k])
      BY <1>3
    <3>2. HandleIn(hp, Parts(hp[c])[k])
      BY <1>1, <3>1 DEF Sound
    <3>3. IsRef(Parts(hp[c])[k]) => Parts(hp[c])[k].cell \in live
      BY <1>3, <3>1 DEF RefsIn, Target
    <3>. QED
      BY <1>4, <3>1, <3>2, <3>3
  <2>2. ASSUME NEW b \in DOMAIN new
        PROVE  IsAggregate(new[b]) /\ \A k \in DOMAIN Parts(new[b]) : HandleIn(new, Parts(new[b])[k])
    <3>1. PICK c \in live : b = at[c]
      BY <1>2 DEF Mirrors
    <3>2. IsAggregate(new[at[c]])
      BY <1>3
    <3>. QED
      BY <2>1, <3>1, <3>2
  <2>. QED
    BY <2>2 DEF Sound
<1>6. Ranked(new)
  <2>1. PICK m \in Nat : \E rank : Ranks(hp, rank, m)
    BY <1>1 DEF Ranked
  <2>2. PICK rank : Ranks(hp, rank, m)
    BY <2>1
  <2>. DEFINE old(b) == CHOOSE c \in live : at[c] = b
              rank2 == [b \in DOMAIN new |-> rank[old(b)]]
  <2>3. ASSUME NEW c \in live
        PROVE  rank2[at[c]] = rank[c]
    <3>1. old(at[c]) \in live /\ at[old(at[c])] = at[c]
      OBVIOUS
    <3>. HIDE DEF old
    <3>2. old(at[c]) = c
      BY <1>2, <3>1
    <3>. QED
      BY <1>3, <3>2
  <2>. HIDE DEF rank2
  <2>4. ASSUME NEW c \in live
        PROVE  rank2[at[c]] \in 0 .. m /\ \A k \in RefsIn(new, at[c]) : rank2[Target(new, at[c], k)] < rank2[at[c]]
    <3>1. rank[c] \in 0 .. m /\ \A k \in RefsIn(hp, c) : rank[Target(hp, c, k)] < rank[c]
      BY <1>3, <2>2 DEF Ranks
    <3>2. \A k \in RefsIn(hp, c) : rank2[Target(new, at[c], k)] = rank[Target(hp, c, k)]
      BY <1>3, <2>3
    <3>. QED
      BY <1>3, <2>3, <3>1, <3>2
  <2>5. Ranks(new, rank2, m)
    BY <1>2, <2>4 DEF Ranks
  <2>. QED
    BY <2>5 DEF Ranked
<1>7. PartsApart(new)
  <2>1. ASSUME NEW c \in live, NEW d \in live, NEW k \in RefsIn(new, at[c]), NEW l \in RefsIn(new, at[d]),
               Target(new, at[c], k) = Target(new, at[d], l)
        PROVE  c = d /\ k = l
    <3>1. k \in RefsIn(hp, c) /\ l \in RefsIn(hp, d) /\ Target(hp, c, k) = Target(hp, d, l)
          /\ c \in DOMAIN hp /\ d \in DOMAIN hp
      BY <1>2, <1>3, <2>1
    <3>. QED
      BY <1>1, <3>1 DEF PartsApart
  <2>. QED
    BY <1>2, <2>1 DEF PartsApart
<1>8. DOMAIN held2 = DOMAIN held /\ \A i \in DOMAIN held : held2[i] = Moved(at, held[i])
  BY DEF AllMoved
<1>. HIDE DEF held2
<1>9. ASSUME NEW i \in DOMAIN held
      PROVE  /\ IsRef(held2[i]) <=> IsRef(held[i])
             /\ IsRef(held[i]) => held2[i].cell = at[held[i].cell] /\ held[i].cell \in live
  BY <1>2, <1>8, Handles DEF Moved, Referred
<1>10. Referred(held2) = {at[c] : c \in Referred(held)}
  <2>1. \A b \in Referred(held2) : b \in {at[c] : c \in Referred(held)}
    BY <1>8, <1>9 DEF Referred
  <2>2. \A c \in Referred(held) : at[c] \in Referred(held2)
    BY <1>8, <1>9 DEF Referred
  <2>. QED
    BY <2>1, <2>2
<1>11. Outermost(new, Referred(held2))
  <2>1. Referred(held2) \subseteq DOMAIN new
    BY <1>2, <1>10
  <2>2. ASSUME NEW c \in live, NEW k \in RefsIn(new, at[c]), NEW d \in Referred(held), Target(new, at[c], k) = at[d]
        PROVE  FALSE
    <3>1. c \in DOMAIN hp /\ k \in RefsIn(hp, c) /\ Target(hp, c, k) = d
      BY <1>2, <1>3, <2>2
    <3>. QED
      BY <1>1, <3>1 DEF Outermost
  <2>. QED
    BY <1>2, <1>10, <2>1, <2>2 DEF Outermost
<1>12. Known(new, held2)
  <2>1. \A i \in DOMAIN held : HandleIn(new, held2[i])
    BY <1>1, <1>4, <1>8, <1>9 DEF Known
  <2>. QED
    BY <1>8, <2>1 DEF Known
<1>13. Apart(held2)
  <2>1. ASSUME NEW i \in DOMAIN held, NEW j \in DOMAIN held, IsRef(held2[i]), held2[i] = held2[j]
        PROVE  i = j
    <3>1. IsRef(held[i]) /\ IsRef(held[j]) /\ held[i].cell = held[j].cell
      BY <1>2, <1>9, <2>1
    <3>2. held[i] = Ref(held[i].cell) /\ held[j] = Ref(held[j].cell)
      BY <1>1, <3>1, Handles DEF Known, HandleIn
    <3>. QED
      BY <1>1, <3>1, <3>2 DEF Apart
  <2>. QED
    BY <1>8, <2>1 DEF Apart
<1>14. Tidy(new, held2)
  BY <1>5, <1>6, <1>7, <1>11, <1>12, <1>13 DEF Tidy, Forest
<1>15. Owned(new, held2)
  <2>1. ASSUME NEW c \in live
        PROVE  at[c] \in Referred(held2) \/ \E d \in DOMAIN new : \E k \in RefsIn(new, d) : Target(new, d, k) = at[c]
    <3>1. CASE c \in Referred(held)
      BY <1>10, <3>1
    <3>2. CASE \E d \in live : \E k \in RefsIn(hp, d) : Target(hp, d, k) = c
      BY <1>3, <3>2
    <3>. QED
      BY <1>2, <3>1, <3>2
  <2>. QED
    BY <1>2, <2>1 DEF Owned
<1>16. New(1, new) /\ New(2, new)
  <2>1. \A c \in live : at[c][1] = 0
    BY <1>1, NodesSay, PlacesApart DEF live
  <2>. QED
    BY <1>2, <2>1 DEF New
<1>17. \A i \in DOMAIN held : Value(new, held2[i]) = Value(hp, held[i])
  <2>1. \A c \in live : ValueAt(new)[at[c]] = ValueAt(hp)[c]
    BY <1>1, <1>2, <1>5, <1>6, SameValues
  <2>. QED
    BY <1>8, <1>9, <2>1 DEF Value, Moved
<1>. QED
  BY <1>8, <1>12, <1>14, <1>15, <1>16, <1>17 DEF held2, Known

-----------------------------------------------------------------------------
(* The slots of the frames.                                                *)

HandlesOf(hp) == Scalars \cup {Ref(c) : c \in DOMAIN hp}

FramesOf(hp) == Seq([stack : Seq(HandlesOf(hp)), locals : Seq(HandlesOf(hp))])

SlotsTyped(hp, ho, st, lo, ca) ==
  /\ ho \in HandlesOf(hp) /\ st \in Seq(HandlesOf(hp)) /\ lo \in Seq(HandlesOf(hp))
  /\ ca \in FramesOf(hp)

\* The slots a state holds.
Slot(ho, st, lo, ca) == Held(ho, Frames(st, lo, ca))

\* Two ways to say that h is a scalar or refers to a cell of hp.
LEMMA HandlesAre ==
  ASSUME NEW hp
  PROVE  \A h : h \in HandlesOf(hp) <=> HandleIn(hp, h)
BY DEF HandlesOf, HandleIn

\* The frame of a caller.
LEMMA CallersAre ==
  ASSUME NEW hp, NEW ca \in FramesOf(hp), NEW f \in 1 .. Len(ca)
  PROVE  /\ ca[f] = [stack |-> ca[f].stack, locals |-> ca[f].locals]
         /\ ca[f].stack \in Seq(HandlesOf(hp)) /\ ca[f].locals \in Seq(HandlesOf(hp))
<1>. DEFINE F == [stack : Seq(HandlesOf(hp)), locals : Seq(HandlesOf(hp))]
<1>1. ca[f] \in F
  <2>1. ca \in Seq(F)
    BY DEF FramesOf
  <2>. HIDE DEF F
  <2>. QED
    BY <2>1
<1>. QED
  BY <1>1

\* The names of the slots, spelled out.
LEMMA NamesAre ==
  ASSUME NEW fr
  PROVE  /\ <<"host", 0, 0>> \in SlotNames(fr)
         /\ \A f \in DOMAIN fr : \A i \in DOMAIN fr[f].stack : <<"stack", f, i>> \in SlotNames(fr)
         /\ \A f \in DOMAIN fr : \A i \in DOMAIN fr[f].locals : <<"locals", f, i>> \in SlotNames(fr)
         /\ \A s \in SlotNames(fr) :
              \/ s = <<"host", 0, 0>>
              \/ \E f \in DOMAIN fr : \E i \in DOMAIN fr[f].stack : s = <<"stack", f, i>>
              \/ \E f \in DOMAIN fr : \E i \in DOMAIN fr[f].locals : s = <<"locals", f, i>>
<1>. DEFINE stacks(f) == {<<"stack", f, i>> : i \in DOMAIN fr[f].stack}
            slots(f) == {<<"locals", f, i>> : i \in DOMAIN fr[f].locals}
            A == UNION {stacks(f) : f \in DOMAIN fr}
            B == UNION {slots(f) : f \in DOMAIN fr}
<1>1. SlotNames(fr) = {<<"host", 0, 0>>} \cup A \cup B
  BY DEF SlotNames
<1>2. ASSUME NEW f \in DOMAIN fr, NEW i \in DOMAIN fr[f].stack
      PROVE  <<"stack", f, i>> \in A
  <2>1. <<"stack", f, i>> \in stacks(f)
    OBVIOUS
  <2>. HIDE DEF stacks
  <2>. QED
    BY <2>1
<1>3. ASSUME NEW f \in DOMAIN fr, NEW i \in DOMAIN fr[f].locals
      PROVE  <<"locals", f, i>> \in B
  <2>1. <<"locals", f, i>> \in slots(f)
    OBVIOUS
  <2>. HIDE DEF slots
  <2>. QED
    BY <2>1
<1>4. ASSUME NEW s \in A
      PROVE  \E f \in DOMAIN fr : \E i \in DOMAIN fr[f].stack : s = <<"stack", f, i>>
  <2>. HIDE DEF stacks
  <2>1. PICK f \in DOMAIN fr : s \in stacks(f)
    OBVIOUS
  <2>. QED
    BY <2>1 DEF stacks
<1>5. ASSUME NEW s \in B
      PROVE  \E f \in DOMAIN fr : \E i \in DOMAIN fr[f].locals : s = <<"locals", f, i>>
  <2>. HIDE DEF slots
  <2>1. PICK f \in DOMAIN fr : s \in slots(f)
    OBVIOUS
  <2>. QED
    BY <2>1 DEF slots
<1>. HIDE DEF A, B
<1>. QED
  BY <1>1, <1>2, <1>3, <1>4, <1>5

\* What each slot is.
LEMMA SlotsAre ==
  ASSUME NEW hp, NEW ho, NEW st, NEW lo, NEW ca, SlotsTyped(hp, ho, st, lo, ca)
  PROVE  /\ \A s \in DOMAIN Slot(ho, st, lo, ca) :
              \/ s = <<"host", 0, 0>>
              \/ \E i \in 1 .. Len(st) : s = <<"stack", Len(ca) + 1, i>>
              \/ \E i \in 1 .. Len(lo) : s = <<"locals", Len(ca) + 1, i>>
              \/ \E f \in 1 .. Len(ca) : \E i \in 1 .. Len(ca[f].stack) : s = <<"stack", f, i>>
              \/ \E f \in 1 .. Len(ca) : \E i \in 1 .. Len(ca[f].locals) : s = <<"locals", f, i>>
         /\ <<"host", 0, 0>> \in DOMAIN Slot(ho, st, lo, ca)
         /\ Slot(ho, st, lo, ca)[<<"host", 0, 0>>] = ho
         /\ \A i \in 1 .. Len(st) : /\ <<"stack", Len(ca) + 1, i>> \in DOMAIN Slot(ho, st, lo, ca)
                                    /\ Slot(ho, st, lo, ca)[<<"stack", Len(ca) + 1, i>>] = st[i]
         /\ \A i \in 1 .. Len(lo) : /\ <<"locals", Len(ca) + 1, i>> \in DOMAIN Slot(ho, st, lo, ca)
                                    /\ Slot(ho, st, lo, ca)[<<"locals", Len(ca) + 1, i>>] = lo[i]
         /\ \A f \in 1 .. Len(ca) :
              /\ \A i \in 1 .. Len(ca[f].stack) : /\ <<"stack", f, i>> \in DOMAIN Slot(ho, st, lo, ca)
                                                  /\ Slot(ho, st, lo, ca)[<<"stack", f, i>>] = ca[f].stack[i]
              /\ \A i \in 1 .. Len(ca[f].locals) : /\ <<"locals", f, i>> \in DOMAIN Slot(ho, st, lo, ca)
                                                   /\ Slot(ho, st, lo, ca)[<<"locals", f, i>>] = ca[f].locals[i]
<1>. DEFINE fr == Frames(st, lo, ca)
            H  == HandlesOf(hp)
            F  == [stack : Seq(H), locals : Seq(H)]
<1>. HIDE DEF H
<1>1. st \in Seq(H) /\ lo \in Seq(H) /\ ca \in Seq(F)
  BY DEF SlotsTyped, FramesOf, H
<1>2. [stack |-> st, locals |-> lo] \in F
  BY <1>1
<1>3. /\ fr \in Seq(F) /\ Len(fr) = Len(ca) + 1 /\ Len(ca) \in Nat
      /\ fr[Len(ca) + 1] = [stack |-> st, locals |-> lo]
      /\ \A f \in 1 .. Len(ca) : fr[f] = ca[f]
  <2>. HIDE DEF F
  <2>. QED
    BY <1>1, <1>2 DEF Frames
<1>. HIDE DEF fr, F
<1>4. DOMAIN fr = 1 .. Len(ca) + 1
  BY <1>3
<1>5. DOMAIN st = 1 .. Len(st) /\ DOMAIN lo = 1 .. Len(lo)
  BY <1>1
<1>6. ASSUME NEW f \in 1 .. Len(ca)
      PROVE  DOMAIN ca[f].stack = 1 .. Len(ca[f].stack) /\ DOMAIN ca[f].locals = 1 .. Len(ca[f].locals)
  <2>1. ca[f] \in F
    BY <1>1
  <2>2. ca[f].stack \in Seq(H) /\ ca[f].locals \in Seq(H)
    BY <2>1 DEF F
  <2>. QED
    BY <2>2
<1>7. Slot(ho, st, lo, ca) = [s \in SlotNames(fr) |-> CASE s[1] = "host"   -> ho
                                                       [] s[1] = "stack"  -> fr[s[2]].stack[s[3]]
                                                       [] s[1] = "locals" -> fr[s[2]].locals[s[3]]]
  BY DEF Slot, Held, fr
<1>8. DOMAIN Slot(ho, st, lo, ca) = SlotNames(fr)
  BY <1>7
<1>9. ASSUME NEW s \in SlotNames(fr)
      PROVE  \/ s = <<"host", 0, 0>>
             \/ \E f \in 1 .. Len(ca) + 1 : \E i \in DOMAIN fr[f].stack : s = <<"stack", f, i>>
             \/ \E f \in 1 .. Len(ca) + 1 : \E i \in DOMAIN fr[f].locals : s = <<"locals", f, i>>
  BY <1>4, NamesAre
<1>10. <<"host", 0, 0>> \in SlotNames(fr) /\ Slot(ho, st, lo, ca)[<<"host", 0, 0>>] = ho
  BY <1>7, NamesAre
<1>11. ASSUME NEW f \in 1 .. Len(ca) + 1
       PROVE  /\ \A i \in DOMAIN fr[f].stack : /\ <<"stack", f, i>> \in SlotNames(fr)
                                               /\ Slot(ho, st, lo, ca)[<<"stack", f, i>>] = fr[f].stack[i]
              /\ \A i \in DOMAIN fr[f].locals : /\ <<"locals", f, i>> \in SlotNames(fr)
                                                /\ Slot(ho, st, lo, ca)[<<"locals", f, i>>] = fr[f].locals[i]
  <2>1. ASSUME NEW i \in DOMAIN fr[f].stack
        PROVE  <<"stack", f, i>> \in SlotNames(fr) /\ Slot(ho, st, lo, ca)[<<"stack", f, i>>] = fr[f].stack[i]
    <3>1. <<"stack", f, i>> \in SlotNames(fr)
      BY <1>4, NamesAre
    <3>. QED
      BY <1>7, <3>1
  <2>2. ASSUME NEW i \in DOMAIN fr[f].locals
        PROVE  <<"locals", f, i>> \in SlotNames(fr) /\ Slot(ho, st, lo, ca)[<<"locals", f, i>>] = fr[f].locals[i]
    <3>1. <<"locals", f, i>> \in SlotNames(fr)
      BY <1>4, NamesAre
    <3>. QED
      BY <1>7, <3>1
  <2>. QED
    BY <2>1, <2>2
<1>12. fr[Len(ca) + 1].stack = st /\ fr[Len(ca) + 1].locals = lo
  BY <1>3
<1>13. Len(ca) + 1 \in 1 .. Len(ca) + 1 /\ \A f \in 1 .. Len(ca) + 1 : f = Len(ca) + 1 \/ f \in 1 .. Len(ca)
  BY <1>3
<1>14. \A f \in 1 .. Len(ca) : f \in 1 .. Len(ca) + 1
  BY <1>3
<1>15. ASSUME NEW s \in DOMAIN Slot(ho, st, lo, ca)
       PROVE  \/ s = <<"host", 0, 0>>
              \/ \E i \in 1 .. Len(st) : s = <<"stack", Len(ca) + 1, i>>
              \/ \E i \in 1 .. Len(lo) : s = <<"locals", Len(ca) + 1, i>>
              \/ \E f \in 1 .. Len(ca) : \E i \in 1 .. Len(ca[f].stack) : s = <<"stack", f, i>>
              \/ \E f \in 1 .. Len(ca) : \E i \in 1 .. Len(ca[f].locals) : s = <<"locals", f, i>>
  <2>1. CASE s = <<"host", 0, 0>>
    BY <2>1
  <2>2. ASSUME NEW f \in 1 .. Len(ca) + 1, NEW i \in DOMAIN fr[f].stack, s = <<"stack", f, i>>
        PROVE  \/ \E j \in 1 .. Len(st) : s = <<"stack", Len(ca) + 1, j>>
               \/ \E g \in 1 .. Len(ca) : \E j \in 1 .. Len(ca[g].stack) : s = <<"stack", g, j>>
    <3>1. CASE f = Len(ca) + 1
      BY <1>5, <1>12, <2>2, <3>1
    <3>2. CASE f \in 1 .. Len(ca)
      BY <1>3, <1>6, <2>2, <3>2
    <3>. QED
      BY <1>13, <3>1, <3>2
  <2>3. ASSUME NEW f \in 1 .. Len(ca) + 1, NEW i \in DOMAIN fr[f].locals, s = <<"locals", f, i>>
        PROVE  \/ \E j \in 1 .. Len(lo) : s = <<"locals", Len(ca) + 1, j>>
               \/ \E g \in 1 .. Len(ca) : \E j \in 1 .. Len(ca[g].locals) : s = <<"locals", g, j>>
    <3>1. CASE f = Len(ca) + 1
      BY <1>5, <1>12, <2>3, <3>1
    <3>2. CASE f \in 1 .. Len(ca)
      BY <1>3, <1>6, <2>3, <3>2
    <3>. QED
      BY <1>13, <3>1, <3>2
  <2>. QED
    BY <1>8, <1>9, <2>1, <2>2, <2>3
<1>16. \A i \in 1 .. Len(st) : /\ <<"stack", Len(ca) + 1, i>> \in DOMAIN Slot(ho, st, lo, ca)
                               /\ Slot(ho, st, lo, ca)[<<"stack", Len(ca) + 1, i>>] = st[i]
  BY <1>5, <1>8, <1>11, <1>12, <1>13
<1>17. \A i \in 1 .. Len(lo) : /\ <<"locals", Len(ca) + 1, i>> \in DOMAIN Slot(ho, st, lo, ca)
                               /\ Slot(ho, st, lo, ca)[<<"locals", Len(ca) + 1, i>>] = lo[i]
  BY <1>5, <1>8, <1>11, <1>12, <1>13
<1>18. \A f \in 1 .. Len(ca) :
         /\ \A i \in 1 .. Len(ca[f].stack) : /\ <<"stack", f, i>> \in DOMAIN Slot(ho, st, lo, ca)
                                             /\ Slot(ho, st, lo, ca)[<<"stack", f, i>>] = ca[f].stack[i]
         /\ \A i \in 1 .. Len(ca[f].locals) : /\ <<"locals", f, i>> \in DOMAIN Slot(ho, st, lo, ca)
                                              /\ Slot(ho, st, lo, ca)[<<"locals", f, i>>] = ca[f].locals[i]
  BY <1>3, <1>6, <1>8, <1>11, <1>14
<1>. QED
  BY <1>8, <1>10, <1>15, <1>16, <1>17, <1>18

\* The value the host keeps is in the slot <<"host", 0, 0>> ...
LEMMA SlotIsHost ==
  ASSUME NEW hp, NEW ho, NEW st, NEW lo, NEW ca, SlotsTyped(hp, ho, st, lo, ca)
  PROVE  <<"host", 0, 0>> \in DOMAIN Slot(ho, st, lo, ca) /\ Slot(ho, st, lo, ca)[<<"host", 0, 0>>] = ho
BY SlotsAre

\* ... an operand of the running frame in the slot of its place on the stack ...
LEMMA SlotOnStack ==
  ASSUME NEW hp, NEW ho, NEW st, NEW lo, NEW ca, SlotsTyped(hp, ho, st, lo, ca),
         NEW i \in 1 .. Len(st)
  PROVE  /\ <<"stack", Len(ca) + 1, i>> \in DOMAIN Slot(ho, st, lo, ca)
         /\ Slot(ho, st, lo, ca)[<<"stack", Len(ca) + 1, i>>] = st[i]
BY SlotsAre

\* ... a local of the running frame in that of its index ...
LEMMA SlotInLocals ==
  ASSUME NEW hp, NEW ho, NEW st, NEW lo, NEW ca, SlotsTyped(hp, ho, st, lo, ca),
         NEW i \in 1 .. Len(lo)
  PROVE  /\ <<"locals", Len(ca) + 1, i>> \in DOMAIN Slot(ho, st, lo, ca)
         /\ Slot(ho, st, lo, ca)[<<"locals", Len(ca) + 1, i>>] = lo[i]
BY SlotsAre

\* ... and so are the operands of a waiting frame ...
LEMMA SlotOnCallersStack ==
  ASSUME NEW hp, NEW ho, NEW st, NEW lo, NEW ca, SlotsTyped(hp, ho, st, lo, ca),
         NEW f \in 1 .. Len(ca), NEW i \in 1 .. Len(ca[f].stack)
  PROVE  /\ <<"stack", f, i>> \in DOMAIN Slot(ho, st, lo, ca)
         /\ Slot(ho, st, lo, ca)[<<"stack", f, i>>] = ca[f].stack[i]
BY SlotsAre

\* ... and its locals.
LEMMA SlotInCallersLocals ==
  ASSUME NEW hp, NEW ho, NEW st, NEW lo, NEW ca, SlotsTyped(hp, ho, st, lo, ca),
         NEW f \in 1 .. Len(ca), NEW i \in 1 .. Len(ca[f].locals)
  PROVE  /\ <<"locals", f, i>> \in DOMAIN Slot(ho, st, lo, ca)
         /\ Slot(ho, st, lo, ca)[<<"locals", f, i>>] = ca[f].locals[i]
BY SlotsAre

\* The slots are these five kinds.
IsSlotName(s, st, lo, ca) ==
  \/ s = <<"host", 0, 0>>
  \/ \E i \in 1 .. Len(st) : s = <<"stack", Len(ca) + 1, i>>
  \/ \E i \in 1 .. Len(lo) : s = <<"locals", Len(ca) + 1, i>>
  \/ \E f \in 1 .. Len(ca) : \E i \in 1 .. Len(ca[f].stack) : s = <<"stack", f, i>>
  \/ \E f \in 1 .. Len(ca) : \E i \in 1 .. Len(ca[f].locals) : s = <<"locals", f, i>>

\* There are no other slots.
LEMMA SlotIsOneOf ==
  ASSUME NEW hp, NEW ho, NEW st, NEW lo, NEW ca, SlotsTyped(hp, ho, st, lo, ca),
         NEW s \in DOMAIN Slot(ho, st, lo, ca)
  PROVE  IsSlotName(s, st, lo, ca)
BY SlotsAre DEF IsSlotName

\* What the slots hold is a function of their names.
LEMMA SlotFunction ==
  ASSUME NEW ho, NEW st, NEW lo, NEW ca
  PROVE  Slot(ho, st, lo, ca) = [s \in DOMAIN Slot(ho, st, lo, ca) |-> Slot(ho, st, lo, ca)[s]]
<1>. DEFINE fr == Frames(st, lo, ca)
            is(s) == CASE s[1] = "host"   -> ho
                       [] s[1] = "stack"  -> fr[s[2]].stack[s[3]]
                       [] s[1] = "locals" -> fr[s[2]].locals[s[3]]
<1>1. Slot(ho, st, lo, ca) = [s \in SlotNames(fr) |-> is(s)]
  BY DEF Slot, Held
<1>. HIDE DEF is, fr
<1>. QED
  BY <1>1

\* A handle that is held.
LEMMA SlotsKnown ==
  ASSUME NEW hp, NEW ho, NEW st, NEW lo, NEW ca, SlotsTyped(hp, ho, st, lo, ca)
  PROVE  Known(hp, Slot(ho, st, lo, ca))
<1>. DEFINE held == Slot(ho, st, lo, ca)
            H == HandlesOf(hp)
<1>. HIDE DEF H
<1>1. ho \in H /\ st \in Seq(H) /\ lo \in Seq(H) /\ ca \in Seq([stack : Seq(H), locals : Seq(H)])
  BY DEF SlotsTyped, FramesOf, H
<1>2. ASSUME NEW f \in 1 .. Len(ca)
      PROVE  ca[f].stack \in Seq(H) /\ ca[f].locals \in Seq(H)
  BY CallersAre DEF SlotsTyped, H
<1>3. ASSUME NEW s \in DOMAIN held
      PROVE  held[s] \in H
  <2>. HIDE DEF held
  <2>1. CASE s = <<"host", 0, 0>>
    BY <1>1, <2>1, SlotIsHost DEF held
  <2>2. ASSUME NEW i \in 1 .. Len(st), s = <<"stack", Len(ca) + 1, i>>
        PROVE  held[s] \in H
    <3>1. held[s] = st[i]
      BY <2>2, SlotOnStack DEF held
    <3>. QED
      BY <1>1, <3>1
  <2>3. ASSUME NEW i \in 1 .. Len(lo), s = <<"locals", Len(ca) + 1, i>>
        PROVE  held[s] \in H
    <3>1. held[s] = lo[i]
      BY <2>3, SlotInLocals DEF held
    <3>. QED
      BY <1>1, <3>1
  <2>4. ASSUME NEW f \in 1 .. Len(ca), NEW i \in 1 .. Len(ca[f].stack), s = <<"stack", f, i>>
        PROVE  held[s] \in H
    <3>1. held[s] = ca[f].stack[i]
      BY <2>4, SlotOnCallersStack DEF held
    <3>. QED
      BY <1>2, <3>1
  <2>5. ASSUME NEW f \in 1 .. Len(ca), NEW i \in 1 .. Len(ca[f].locals), s = <<"locals", f, i>>
        PROVE  held[s] \in H
    <3>1. held[s] = ca[f].locals[i]
      BY <2>5, SlotInCallersLocals DEF held
    <3>. QED
      BY <1>2, <3>1
  <2>. QED
    BY <2>1, <2>2, <2>3, <2>4, <2>5, SlotIsOneOf DEF held, IsSlotName
<1>. QED
  BY <1>3, HandlesAre DEF Known, H

FramesMoved(at, ca) ==
  [f \in DOMAIN ca |-> [stack |-> AllMoved(at, ca[f].stack), locals |-> AllMoved(at, ca[f].locals)]]

\* Handles that are handles of the heap they are moved to.
Movable(new, at, handles) == \A i \in 1 .. Len(handles) : HandleIn(new, Moved(at, handles[i]))

AreMoved(new, at, handles, moved) ==
  /\ moved \in Seq(HandlesOf(new)) /\ Len(moved) = Len(handles)
  /\ \A i \in 1 .. Len(handles) : moved[i] = Moved(at, handles[i])

\* A sequence of handles that are moved is a sequence of handles.
LEMMA HandlesMoved ==
  ASSUME NEW new, NEW at, NEW H, NEW st \in Seq(H), Movable(new, at, st)
  PROVE  AreMoved(new, at, st, AllMoved(at, st))
<1>1. AllMoved(at, st) = [i \in 1 .. Len(st) |-> Moved(at, st[i])] /\ Len(st) \in Nat
  BY DEF AllMoved
<1>2. \A i \in 1 .. Len(st) : Moved(at, st[i]) \in HandlesOf(new)
  BY HandlesAre DEF Movable
<1>. QED
  BY <1>1, <1>2 DEF AreMoved

\* When every handle is moved, so is what the slots hold.
LEMMA SlotsMoved ==
  ASSUME NEW hp, NEW ho, NEW st, NEW lo, NEW ca, SlotsTyped(hp, ho, st, lo, ca), NEW at, NEW new,
         \A s \in DOMAIN Slot(ho, st, lo, ca) : HandleIn(new, Moved(at, Slot(ho, st, lo, ca)[s]))
  PROVE  /\ SlotsTyped(new, Moved(at, ho), AllMoved(at, st), AllMoved(at, lo), FramesMoved(at, ca))
         /\ Slot(Moved(at, ho), AllMoved(at, st), AllMoved(at, lo), FramesMoved(at, ca))
            = AllMoved(at, Slot(ho, st, lo, ca))
<1>. DEFINE held == Slot(ho, st, lo, ca)
            st2 == AllMoved(at, st)
            lo2 == AllMoved(at, lo)
            ca2 == FramesMoved(at, ca)
            held2 == Slot(Moved(at, ho), st2, lo2, ca2)
            H == HandlesOf(hp)
<1>. HIDE DEF H
<1>1. ho \in H /\ st \in Seq(H) /\ lo \in Seq(H) /\ ca \in Seq([stack : Seq(H), locals : Seq(H)])
  BY DEF SlotsTyped, FramesOf, H
<1>2. ASSUME NEW f \in 1 .. Len(ca)
      PROVE  ca[f].stack \in Seq(H) /\ ca[f].locals \in Seq(H)
  BY CallersAre DEF SlotsTyped, H
<1>. HIDE DEF held
<1>3. Moved(at, ho) \in HandlesOf(new)
  BY SlotIsHost, HandlesAre DEF held
<1>4. Movable(new, at, st)
  <2>1. ASSUME NEW i \in 1 .. Len(st)
        PROVE  HandleIn(new, Moved(at, st[i]))
    <3>1. <<"stack", Len(ca) + 1, i>> \in DOMAIN held /\ held[<<"stack", Len(ca) + 1, i>>] = st[i]
      BY SlotOnStack DEF held
    <3>. QED
      BY <3>1 DEF held
  <2>. QED
    BY <2>1 DEF Movable
<1>5. Movable(new, at, lo)
  <2>1. ASSUME NEW i \in 1 .. Len(lo)
        PROVE  HandleIn(new, Moved(at, lo[i]))
    <3>1. <<"locals", Len(ca) + 1, i>> \in DOMAIN held /\ held[<<"locals", Len(ca) + 1, i>>] = lo[i]
      BY SlotInLocals DEF held
    <3>. QED
      BY <3>1 DEF held
  <2>. QED
    BY <2>1 DEF Movable
<1>6. AreMoved(new, at, st, st2)
  BY <1>1, <1>4, HandlesMoved
<1>7. AreMoved(new, at, lo, lo2)
  BY <1>1, <1>5, HandlesMoved
<1>8. ASSUME NEW f \in 1 .. Len(ca)
      PROVE  /\ ca2[f] \in [stack : Seq(HandlesOf(new)), locals : Seq(HandlesOf(new))]
             /\ AreMoved(new, at, ca[f].stack, ca2[f].stack) /\ AreMoved(new, at, ca[f].locals, ca2[f].locals)
  <2>1. Movable(new, at, ca[f].stack)
    <3>1. ASSUME NEW i \in 1 .. Len(ca[f].stack)
          PROVE  HandleIn(new, Moved(at, ca[f].stack[i]))
      <4>1. <<"stack", f, i>> \in DOMAIN held /\ held[<<"stack", f, i>>] = ca[f].stack[i]
        BY SlotOnCallersStack DEF held
      <4>. QED
        BY <4>1 DEF held
    <3>. QED
      BY <3>1 DEF Movable
  <2>2. Movable(new, at, ca[f].locals)
    <3>1. ASSUME NEW i \in 1 .. Len(ca[f].locals)
          PROVE  HandleIn(new, Moved(at, ca[f].locals[i]))
      <4>1. <<"locals", f, i>> \in DOMAIN held /\ held[<<"locals", f, i>>] = ca[f].locals[i]
        BY SlotInCallersLocals DEF held
      <4>. QED
        BY <4>1 DEF held
    <3>. QED
      BY <3>1 DEF Movable
  <2>3. ca2[f] = [stack |-> AllMoved(at, ca[f].stack), locals |-> AllMoved(at, ca[f].locals)]
    BY <1>1 DEF FramesMoved
  <2>4. AreMoved(new, at, ca[f].stack, AllMoved(at, ca[f].stack))
    BY <1>2, <2>1, HandlesMoved
  <2>5. AreMoved(new, at, ca[f].locals, AllMoved(at, ca[f].locals))
    BY <1>2, <2>2, HandlesMoved
  <2>. QED
    BY <2>3, <2>4, <2>5 DEF AreMoved
<1>9. ca2 \in FramesOf(new) /\ Len(ca2) = Len(ca)
  <2>1. ca2 = [f \in 1 .. Len(ca) |-> ca2[f]] /\ Len(ca) \in Nat
    BY <1>1 DEF FramesMoved
  <2>. HIDE DEF ca2
  <2>. QED
    BY <1>8, <2>1 DEF FramesOf
<1>. HIDE DEF st2, lo2, ca2
<1>10. SlotsTyped(new, Moved(at, ho), st2, lo2, ca2)
  BY <1>3, <1>6, <1>7, <1>9 DEF SlotsTyped, AreMoved
<1>. HIDE DEF held2
<1>11. ASSUME NEW s \in DOMAIN held
       PROVE  s \in DOMAIN held2 /\ held2[s] = Moved(at, held[s])
  <2>1. CASE s = <<"host", 0, 0>>
    BY <1>10, <2>1, SlotIsHost DEF held, held2
  <2>2. ASSUME NEW i \in 1 .. Len(st), s = <<"stack", Len(ca) + 1, i>>
        PROVE  s \in DOMAIN held2 /\ held2[s] = Moved(at, held[s])
    <3>1. held[s] = st[i]
      BY <2>2, SlotOnStack DEF held
    <3>2. s \in DOMAIN held2 /\ held2[s] = st2[i]
      BY <1>6, <1>9, <1>10, <2>2, SlotOnStack DEF held2, AreMoved
    <3>. QED
      BY <1>6, <3>1, <3>2 DEF AreMoved
  <2>3. ASSUME NEW i \in 1 .. Len(lo), s = <<"locals", Len(ca) + 1, i>>
        PROVE  s \in DOMAIN held2 /\ held2[s] = Moved(at, held[s])
    <3>1. held[s] = lo[i]
      BY <2>3, SlotInLocals DEF held
    <3>2. s \in DOMAIN held2 /\ held2[s] = lo2[i]
      BY <1>7, <1>9, <1>10, <2>3, SlotInLocals DEF held2, AreMoved
    <3>. QED
      BY <1>7, <3>1, <3>2 DEF AreMoved
  <2>4. ASSUME NEW f \in 1 .. Len(ca), NEW i \in 1 .. Len(ca[f].stack), s = <<"stack", f, i>>
        PROVE  s \in DOMAIN held2 /\ held2[s] = Moved(at, held[s])
    <3>1. held[s] = ca[f].stack[i]
      BY <2>4, SlotOnCallersStack DEF held
    <3>2. f \in 1 .. Len(ca2) /\ i \in 1 .. Len(ca2[f].stack) /\ ca2[f].stack[i] = Moved(at, ca[f].stack[i])
      BY <1>8, <1>9 DEF AreMoved
    <3>3. s \in DOMAIN held2 /\ held2[s] = ca2[f].stack[i]
      BY <1>10, <2>4, <3>2, SlotOnCallersStack DEF held2
    <3>. QED
      BY <3>1, <3>2, <3>3
  <2>5. ASSUME NEW f \in 1 .. Len(ca), NEW i \in 1 .. Len(ca[f].locals), s = <<"locals", f, i>>
        PROVE  s \in DOMAIN held2 /\ held2[s] = Moved(at, held[s])
    <3>1. held[s] = ca[f].locals[i]
      BY <2>5, SlotInCallersLocals DEF held
    <3>2. f \in 1 .. Len(ca2) /\ i \in 1 .. Len(ca2[f].locals) /\ ca2[f].locals[i] = Moved(at, ca[f].locals[i])
      BY <1>8, <1>9 DEF AreMoved
    <3>3. s \in DOMAIN held2 /\ held2[s] = ca2[f].locals[i]
      BY <1>10, <2>5, <3>2, SlotInCallersLocals DEF held2
    <3>. QED
      BY <3>1, <3>2, <3>3
  <2>. QED
    BY <2>1, <2>2, <2>3, <2>4, <2>5, SlotIsOneOf DEF held, IsSlotName
<1>12. ASSUME NEW s \in DOMAIN held2
       PROVE  s \in DOMAIN held
  <2>1. IsSlotName(s, st2, lo2, ca2)
    BY <1>10, SlotIsOneOf DEF held2
  <2>2. CASE s = <<"host", 0, 0>>
    BY <2>2, SlotIsHost DEF held
  <2>3. ASSUME NEW i \in 1 .. Len(st2), s = <<"stack", Len(ca2) + 1, i>>
        PROVE  s \in DOMAIN held
    BY <1>6, <1>9, <2>3, SlotOnStack DEF held, AreMoved
  <2>4. ASSUME NEW i \in 1 .. Len(lo2), s = <<"locals", Len(ca2) + 1, i>>
        PROVE  s \in DOMAIN held
    BY <1>7, <1>9, <2>4, SlotInLocals DEF held, AreMoved
  <2>5. ASSUME NEW f \in 1 .. Len(ca2), NEW i \in 1 .. Len(ca2[f].stack), s = <<"stack", f, i>>
        PROVE  s \in DOMAIN held
    BY <1>8, <1>9, <2>5, SlotOnCallersStack DEF held, AreMoved
  <2>6. ASSUME NEW f \in 1 .. Len(ca2), NEW i \in 1 .. Len(ca2[f].locals), s = <<"locals", f, i>>
        PROVE  s \in DOMAIN held
    BY <1>8, <1>9, <2>6, SlotInCallersLocals DEF held, AreMoved
  <2>. QED
    BY <2>1, <2>2, <2>3, <2>4, <2>5, <2>6 DEF IsSlotName
<1>13. held2 = [s \in DOMAIN held2 |-> held2[s]]
  BY SlotFunction DEF held2
<1>14. DOMAIN held2 = DOMAIN held
  BY <1>11, <1>12
<1>15. held2 = AllMoved(at, held)
  BY <1>11, <1>13, <1>14 DEF AllMoved
<1>. QED
  BY <1>10, <1>15 DEF held, held2, st2, lo2, ca2
-----------------------------------------------------------------------------
(* Becomes: the invariant and the values.                                  *)

\* The slots hold handles and reach the cells, each by one way.
Good(hp, ho, st, lo, ca) == SlotsTyped(hp, ho, st, lo, ca) /\ Tidy(hp, Slot(ho, st, lo, ca))

\* The inductive invariant: moreover no cell is without an owner, and the
\* addresses of clones are new when a step begins.
Inv == /\ Good(heap, host, stack, locals, callers)
       /\ Owned(heap, Slot(host, stack, locals, callers))
       /\ New(1, heap) /\ New(2, heap)

FramesValues(hp, ca) ==
  [f \in DOMAIN ca |-> [stack |-> Values(hp, ca[f].stack), locals |-> Values(hp, ca[f].locals)]]

\* Handles that are moved and keep their values.
LEMMA ValuesMoved ==
  ASSUME NEW new, NEW hp, NEW at, NEW handles,
         \A i \in DOMAIN handles : Value(new, Moved(at, handles[i])) = Value(hp, handles[i])
  PROVE  Values(new, AllMoved(at, handles)) = Values(hp, handles)
<1>1. /\ DOMAIN AllMoved(at, handles) = DOMAIN handles
      /\ \A i \in DOMAIN handles : AllMoved(at, handles)[i] = Moved(at, handles[i])
  BY DEF AllMoved
<1>. QED
  BY <1>1 DEF Values

\* The step every action ends with: the cells are in order afterwards, and no slot has changed its value.
LEMMA BecomesSays ==
  ASSUME NEW hp, NEW ho, NEW st, NEW lo, NEW ca,
         Good(hp, ho, st, lo, ca), Becomes(hp, ho, st, lo, ca)
  PROVE  /\ Inv'
         /\ Value(heap', host') = Value(hp, ho)
         /\ Values(heap', stack') = Values(hp, st)
         /\ Values(heap', locals') = Values(hp, lo)
         /\ FramesValues(heap', callers') = FramesValues(hp, ca)
<1>. DEFINE held == Slot(ho, st, lo, ca)
            at   == Places(hp, held)
            H    == HandlesOf(hp)
<1>1. /\ Returns(hp, Nodes(hp, held)) /\ heap' = Placed(hp, held, at) /\ host' = Moved(at, ho)
      /\ stack' = AllMoved(at, st) /\ locals' = AllMoved(at, lo) /\ callers' = FramesMoved(at, ca)
  BY DEF Becomes, Places, Placed, Live, Slot, FramesMoved
<1>2. SlotsTyped(hp, ho, st, lo, ca) /\ Tidy(hp, held)
  BY DEF Good
<1>. HIDE DEF H
<1>3. ho \in H /\ st \in Seq(H) /\ lo \in Seq(H) /\ ca \in FramesOf(hp)
  BY <1>2 DEF SlotsTyped, H
<1>. HIDE DEF held, at
<1>4. /\ Tidy(heap', AllMoved(at, held)) /\ Owned(heap', AllMoved(at, held))
      /\ New(1, heap') /\ New(2, heap')
      /\ \A i \in DOMAIN held : /\ HandleIn(heap', Moved(at, held[i]))
                                /\ Value(heap', Moved(at, held[i])) = Value(hp, held[i])
  BY <1>1, <1>2, Settled DEF at
<1>5. /\ SlotsTyped(heap', host', stack', locals', callers')
      /\ Slot(host', stack', locals', callers') = AllMoved(at, held)
  BY <1>1, <1>2, <1>4, SlotsMoved DEF held
<1>6. Inv'
  BY <1>4, <1>5 DEF Inv, Good
<1>7. Value(heap', host') = Value(hp, ho)
  BY <1>1, <1>2, <1>4, SlotIsHost DEF held
<1>8. ASSUME NEW i \in DOMAIN st
      PROVE  Value(heap', Moved(at, st[i])) = Value(hp, st[i])
  <2>1. <<"stack", Len(ca) + 1, i>> \in DOMAIN held /\ held[<<"stack", Len(ca) + 1, i>>] = st[i]
    BY <1>2, <1>3, SlotOnStack DEF held
  <2>. QED
    BY <1>4, <2>1
<1>9. ASSUME NEW i \in DOMAIN lo
      PROVE  Value(heap', Moved(at, lo[i])) = Value(hp, lo[i])
  <2>1. <<"locals", Len(ca) + 1, i>> \in DOMAIN held /\ held[<<"locals", Len(ca) + 1, i>>] = lo[i]
    BY <1>2, <1>3, SlotInLocals DEF held
  <2>. QED
    BY <1>4, <2>1
<1>10. Values(heap', stack') = Values(hp, st) /\ Values(heap', locals') = Values(hp, lo)
  BY <1>1, <1>8, <1>9, ValuesMoved
<1>11. ASSUME NEW f \in DOMAIN ca
       PROVE  /\ Values(heap', AllMoved(at, ca[f].stack)) = Values(hp, ca[f].stack)
              /\ Values(heap', AllMoved(at, ca[f].locals)) = Values(hp, ca[f].locals)
  <2>1. f \in 1 .. Len(ca)
    BY <1>3 DEF FramesOf
  <2>2. ca[f].stack \in Seq(H) /\ ca[f].locals \in Seq(H)
    BY <1>3, <2>1, CallersAre DEF H
  <2>3. ASSUME NEW i \in DOMAIN ca[f].stack
        PROVE  Value(heap', Moved(at, ca[f].stack[i])) = Value(hp, ca[f].stack[i])
    <3>1. i \in 1 .. Len(ca[f].stack)
      BY <2>2
    <3>2. <<"stack", f, i>> \in DOMAIN held /\ held[<<"stack", f, i>>] = ca[f].stack[i]
      BY <1>2, <2>1, <3>1, SlotOnCallersStack DEF held
    <3>. QED
      BY <1>4, <3>2
  <2>4. ASSUME NEW i \in DOMAIN ca[f].locals
        PROVE  Value(heap', Moved(at, ca[f].locals[i])) = Value(hp, ca[f].locals[i])
    <3>1. i \in 1 .. Len(ca[f].locals)
      BY <2>2
    <3>2. <<"locals", f, i>> \in DOMAIN held /\ held[<<"locals", f, i>>] = ca[f].locals[i]
      BY <1>2, <2>1, <3>1, SlotInCallersLocals DEF held
    <3>. QED
      BY <1>4, <3>2
  <2>. QED
    BY <2>3, <2>4, ValuesMoved
<1>12. FramesValues(heap', callers') = FramesValues(hp, ca)
  <2>1. /\ DOMAIN callers' = DOMAIN ca
        /\ \A f \in DOMAIN ca : /\ callers'[f].stack = AllMoved(at, ca[f].stack)
                                /\ callers'[f].locals = AllMoved(at, ca[f].locals)
    BY <1>1 DEF FramesMoved
  <2>. QED
    BY <1>11, <2>1 DEF FramesValues
<1>. QED
  BY <1>6, <1>7, <1>10, <1>12
-----------------------------------------------------------------------------
(* The slots of the next state before they settle: those of the state, some *)
(* of them dropped, and new ones.                                           *)

\* The slots now are slots of old that keep their handle, but for those of P.
Keeps(old, now, P) == \A s \in DOMAIN now : s \notin P => s \in DOMAIN old /\ now[s] = old[s]

\* Those refer to fresh cells, no two to the same.
Renewed(now, P, fresh) ==
  /\ \A s \in DOMAIN now : s \in P /\ IsRef(now[s]) => now[s].cell \in fresh
  /\ \A s, t \in DOMAIN now : s \in P /\ t \in P /\ IsRef(now[s]) /\ now[s] = now[t] => s = t

\* The slots of P get fresh handles, the others keep theirs or go: the cells are in order again.
LEMMA TidyAgain ==
  ASSUME NEW hp, NEW old, Tidy(hp, old), NEW new, NEW now, Known(new, now),
         NEW fresh, Forest(new, Referred(old) \cup fresh), fresh \cap DOMAIN hp = {}, NEW P,
         Keeps(old, now, P), Renewed(now, P, fresh)
  PROVE  Tidy(new, now)
<1>1. Referred(old) \subseteq DOMAIN hp /\ Apart(old)
  BY DEF Tidy, Forest, Outermost
<1>2. ASSUME NEW s \in DOMAIN now, IsRef(now[s])
      PROVE  /\ s \in P => now[s].cell \in fresh
             /\ s \notin P => now[s].cell \in Referred(old)
  BY <1>2 DEF Referred, Keeps, Renewed
<1>3. Referred(now) \subseteq Referred(old) \cup fresh
  BY <1>2 DEF Referred
<1>4. Forest(new, Referred(now))
  <2>1. Sound(new) /\ Ranked(new) /\ PartsApart(new) /\ Outermost(new, Referred(old) \cup fresh)
    BY DEF Forest
  <2>. QED
    BY <1>3, <2>1 DEF Forest, Outermost
<1>5. ASSUME NEW s \in DOMAIN now, NEW t \in DOMAIN now, IsRef(now[s]), now[s] = now[t]
      PROVE  s = t
  <2>1. CASE s \in P /\ t \in P
    BY <1>5, <2>1 DEF Renewed
  <2>2. CASE s \notin P /\ t \notin P
    BY <1>1, <1>5, <2>2 DEF Apart, Keeps
  <2>3. CASE ~(s \in P <=> t \in P)
    BY <1>1, <1>2, <1>5, <2>3
  <2>. QED
    BY <2>1, <2>2, <2>3
<1>. QED
  BY <1>4, <1>5 DEF Tidy, Apart

\* The handles of a heap are handles of one with more cells.
LEMMA StillTyped ==
  ASSUME NEW hp, NEW new, DOMAIN hp \subseteq DOMAIN new
  PROVE  /\ HandlesOf(hp) \subseteq HandlesOf(new)
         /\ \A st \in Seq(HandlesOf(hp)) : st \in Seq(HandlesOf(new))
         /\ \A ca \in FramesOf(hp) : ca \in FramesOf(new)
<1>1. HandlesOf(hp) \subseteq HandlesOf(new)
  BY DEF HandlesOf
<1>2. ASSUME NEW st \in Seq(HandlesOf(hp))
      PROVE  st \in Seq(HandlesOf(new))
  BY <1>1
<1>3. ASSUME NEW ca \in FramesOf(hp)
      PROVE  ca \in FramesOf(new)
  <2>. DEFINE F == [stack : Seq(HandlesOf(new)), locals : Seq(HandlesOf(new))]
  <2>1. ASSUME NEW f \in 1 .. Len(ca)
        PROVE  ca[f] \in F
    <3>1. /\ ca[f] = [stack |-> ca[f].stack, locals |-> ca[f].locals]
          /\ ca[f].stack \in Seq(HandlesOf(hp)) /\ ca[f].locals \in Seq(HandlesOf(hp))
      BY CallersAre
    <3>2. ca[f].stack \in Seq(HandlesOf(new)) /\ ca[f].locals \in Seq(HandlesOf(new))
      BY <1>2, <3>1
    <3>. QED
      BY <3>1, <3>2
  <2>2. ca = [f \in 1 .. Len(ca) |-> ca[f]] /\ Len(ca) \in Nat
    BY DEF FramesOf
  <2>3. ca \in Seq(F)
    <3>. HIDE DEF F
    <3>. QED
      BY <2>1, <2>2
  <2>. QED
    BY <2>3 DEF FramesOf
<1>. QED
  BY <1>1, <1>2, <1>3

\* What a step may build on: a heap with more cells, of which some are fresh
\* roots and the others keep their place.
Grown(hp, held, new, fresh) ==
  /\ Forest(new, Referred(held) \cup fresh)
  /\ fresh \cap DOMAIN hp = {} /\ DOMAIN hp \subseteq DOMAIN new

\* The host's value and the running frame stay, but for the slots of P.
StaysBut(P, f, ho, st, lo, ho2, st2, lo2) ==
  /\ <<"host", 0, 0>> \in P \/ ho2 = ho
  /\ \A i \in 1 .. Len(st2) : <<"stack", f, i>> \in P \/ (i \in 1 .. Len(st) /\ st2[i] = st[i])
  /\ \A i \in 1 .. Len(lo2) : <<"locals", f, i>> \in P \/ (i \in 1 .. Len(lo) /\ lo2[i] = lo[i])

\* The running frame changes in the slots of P only.
LEMMA RunningKept ==
  ASSUME NEW hp, NEW ho, NEW st, NEW lo, NEW ca, SlotsTyped(hp, ho, st, lo, ca),
         NEW new, NEW ho2, NEW st2, NEW lo2, SlotsTyped(new, ho2, st2, lo2, ca), NEW P,
         StaysBut(P, Len(ca) + 1, ho, st, lo, ho2, st2, lo2)
  PROVE  Keeps(Slot(ho, st, lo, ca), Slot(ho2, st2, lo2, ca), P)
<1>. DEFINE old == Slot(ho, st, lo, ca)
            now == Slot(ho2, st2, lo2, ca)
<1>. HIDE DEF old, now
<1>. SUFFICES ASSUME NEW s \in DOMAIN now, s \notin P
     PROVE  s \in DOMAIN old /\ now[s] = old[s]
  BY DEF Keeps, old, now
<1>1. CASE s = <<"host", 0, 0>>
  <2>1. s \in DOMAIN old /\ old[s] = ho /\ now[s] = ho2
    BY <1>1, SlotIsHost DEF old, now
  <2>. QED
    BY <1>1, <2>1 DEF StaysBut
<1>2. ASSUME NEW i \in 1 .. Len(st2), s = <<"stack", Len(ca) + 1, i>>
      PROVE  s \in DOMAIN old /\ now[s] = old[s]
  <2>1. i \in 1 .. Len(st) /\ st2[i] = st[i]
    BY <1>2 DEF StaysBut
  <2>2. now[s] = st2[i]
    BY <1>2, SlotOnStack DEF now
  <2>3. s \in DOMAIN old /\ old[s] = st[i]
    BY <1>2, <2>1, SlotOnStack DEF old
  <2>. QED
    BY <2>1, <2>2, <2>3
<1>3. ASSUME NEW i \in 1 .. Len(lo2), s = <<"locals", Len(ca) + 1, i>>
      PROVE  s \in DOMAIN old /\ now[s] = old[s]
  <2>1. i \in 1 .. Len(lo) /\ lo2[i] = lo[i]
    BY <1>3 DEF StaysBut
  <2>2. now[s] = lo2[i]
    BY <1>3, SlotInLocals DEF now
  <2>3. s \in DOMAIN old /\ old[s] = lo[i]
    BY <1>3, <2>1, SlotInLocals DEF old
  <2>. QED
    BY <2>1, <2>2, <2>3
<1>4. ASSUME NEW f \in 1 .. Len(ca), NEW i \in 1 .. Len(ca[f].stack), s = <<"stack", f, i>>
      PROVE  s \in DOMAIN old /\ now[s] = old[s]
  <2>1. now[s] = ca[f].stack[i]
    BY <1>4, SlotOnCallersStack DEF now
  <2>2. s \in DOMAIN old /\ old[s] = ca[f].stack[i]
    BY <1>4, SlotOnCallersStack DEF old
  <2>. QED
    BY <2>1, <2>2
<1>5. ASSUME NEW f \in 1 .. Len(ca), NEW i \in 1 .. Len(ca[f].locals), s = <<"locals", f, i>>
      PROVE  s \in DOMAIN old /\ now[s] = old[s]
  <2>1. now[s] = ca[f].locals[i]
    BY <1>5, SlotInCallersLocals DEF now
  <2>2. s \in DOMAIN old /\ old[s] = ca[f].locals[i]
    BY <1>5, SlotInCallersLocals DEF old
  <2>. QED
    BY <2>1, <2>2
<1>6. IsSlotName(s, st2, lo2, ca)
  BY SlotIsOneOf DEF now
<1>. QED
  BY <1>1, <1>2, <1>3, <1>4, <1>5, <1>6 DEF IsSlotName

\* One slot, with a scalar or a fresh root, is all that is new.
LEMMA RunningGood ==
  ASSUME NEW hp, NEW ho, NEW st, NEW lo, NEW ca, Good(hp, ho, st, lo, ca),
         NEW new, NEW fresh, Grown(hp, Slot(ho, st, lo, ca), new, fresh),
         NEW ho2, NEW st2, NEW lo2, SlotsTyped(new, ho2, st2, lo2, ca), NEW p,
         StaysBut({p}, Len(ca) + 1, ho, st, lo, ho2, st2, lo2),
         p \in DOMAIN Slot(ho2, st2, lo2, ca) /\ IsRef(Slot(ho2, st2, lo2, ca)[p])
           => Slot(ho2, st2, lo2, ca)[p].cell \in fresh
  PROVE  Good(new, ho2, st2, lo2, ca)
<1>. DEFINE old == Slot(ho, st, lo, ca)
            now == Slot(ho2, st2, lo2, ca)
<1>1. SlotsTyped(hp, ho, st, lo, ca) /\ Tidy(hp, old)
  BY DEF Good
<1>2. Keeps(old, now, {p})
  BY <1>1, RunningKept
<1>3. Known(new, now)
  BY SlotsKnown
<1>4. Renewed(now, {p}, fresh)
  <2>. HIDE DEF now
  <2>. QED
    BY DEF Renewed, now
<1>. HIDE DEF old, now
<1>5. Tidy(new, now)
  BY <1>1, <1>2, <1>3, <1>4, TidyAgain DEF Grown, old
<1>. QED
  BY <1>5 DEF Good, now

-----------------------------------------------------------------------------
(* The values of sequences of handles.                                     *)

Meant(hp, H) == {Value(hp, h) : h \in H}

\* The values of a sequence of handles.
LEMMA ValuesSeq ==
  ASSUME NEW hp, NEW H, NEW st \in Seq(H)
  PROVE  /\ Values(hp, st) \in Seq(Meant(hp, H)) /\ Len(Values(hp, st)) = Len(st)
         /\ DOMAIN Values(hp, st) = DOMAIN st
         /\ \A i \in 1 .. Len(st) : Values(hp, st)[i] = Value(hp, st[i])
<1>1. Values(hp, st) = [i \in 1 .. Len(st) |-> Value(hp, st[i])] /\ Len(st) \in Nat /\ DOMAIN st = 1 .. Len(st)
  BY DEF Values
<1>2. \A i \in 1 .. Len(st) : Value(hp, st[i]) \in Meant(hp, H)
  BY DEF Meant
<1>. QED
  BY <1>1, <1>2

\* Sequences of the same length and elements are equal.
LEMMA SameSequence ==
  ASSUME NEW V, NEW s \in Seq(V), NEW t \in Seq(V), Len(s) = Len(t), \A i \in 1 .. Len(s) : s[i] = t[i]
  PROVE  s = t
OBVIOUS

\* The values of a sequence with a handle more ...
LEMMA ValuesAppend ==
  ASSUME NEW hp, NEW H, NEW st \in Seq(H), NEW h \in H
  PROVE  Values(hp, Append(st, h)) = Append(Values(hp, st), Value(hp, h))
<1>. DEFINE V == Meant(hp, H)
            s == Append(st, h)
            t == Append(Values(hp, st), Value(hp, h))
<1>1. s \in Seq(H) /\ Len(s) = Len(st) + 1 /\ s[Len(st) + 1] = h /\ \A i \in 1 .. Len(st) : s[i] = st[i]
  OBVIOUS
<1>2. Values(hp, st) \in Seq(V) /\ Len(Values(hp, st)) = Len(st)
      /\ \A i \in 1 .. Len(st) : Values(hp, st)[i] = Value(hp, st[i])
  BY ValuesSeq
<1>3. Value(hp, h) \in V
  BY DEF Meant
<1>. HIDE DEF s
<1>4. Values(hp, s) \in Seq(V) /\ Len(Values(hp, s)) = Len(st) + 1
      /\ \A i \in 1 .. Len(st) + 1 : Values(hp, s)[i] = Value(hp, s[i])
  BY <1>1, ValuesSeq
<1>. HIDE DEF V
<1>5. t \in Seq(V) /\ Len(t) = Len(st) + 1 /\ t[Len(st) + 1] = Value(hp, h)
      /\ \A i \in 1 .. Len(st) : t[i] = Value(hp, st[i])
  BY <1>2, <1>3
<1>. HIDE DEF t
<1>6. \A i \in 1 .. Len(st) + 1 : Values(hp, s)[i] = t[i]
  BY <1>1, <1>4, <1>5
<1>7. Values(hp, s) = t
  BY <1>4, <1>5, <1>6, SameSequence
<1>. QED
  BY <1>7 DEF s, t

IsSlice(hp, H, st, m, n) ==
  /\ Values(hp, SubSeq(st, m, n)) = SubSeq(Values(hp, st), m, n)
  /\ SubSeq(st, m, n) \in Seq(H) /\ Len(SubSeq(st, m, n)) = n - m + 1
  /\ \A i \in 1 .. n - m + 1 : i + m - 1 \in 1 .. Len(st) /\ SubSeq(st, m, n)[i] = st[i + m - 1]

\* ... and of a part of a sequence.
LEMMA ValuesSub ==
  ASSUME NEW hp, NEW H, NEW st \in Seq(H), NEW m \in 1 .. Len(st) + 1, NEW n \in 0 .. Len(st), m <= n + 1
  PROVE  IsSlice(hp, H, st, m, n)
<1>. DEFINE V == Meant(hp, H)
            s == SubSeq(st, m, n)
            t == SubSeq(Values(hp, st), m, n)
<1>1. s \in Seq(H) /\ Len(s) = n - m + 1 /\ \A i \in 1 .. n - m + 1 : s[i] = st[i + m - 1]
  OBVIOUS
<1>2. Values(hp, st) \in Seq(V) /\ Len(Values(hp, st)) = Len(st)
      /\ \A i \in 1 .. Len(st) : Values(hp, st)[i] = Value(hp, st[i])
  BY ValuesSeq
<1>. HIDE DEF s
<1>3. Values(hp, s) \in Seq(V) /\ Len(Values(hp, s)) = n - m + 1
      /\ \A i \in 1 .. n - m + 1 : Values(hp, s)[i] = Value(hp, s[i])
  BY <1>1, ValuesSeq
<1>. HIDE DEF V
<1>4. t \in Seq(V) /\ Len(t) = n - m + 1 /\ \A i \in 1 .. n - m + 1 : t[i] = Values(hp, st)[i + m - 1]
  BY <1>2
<1>5. \A i \in 1 .. n - m + 1 : i + m - 1 \in 1 .. Len(st)
  OBVIOUS
<1>. HIDE DEF t
<1>6. \A i \in 1 .. n - m + 1 : Values(hp, s)[i] = t[i]
  BY <1>1, <1>2, <1>3, <1>4, <1>5
<1>7. Values(hp, s) = t
  BY <1>3, <1>4, <1>6, SameSequence
<1>. QED
  BY <1>1, <1>5, <1>7 DEF s, t, IsSlice

\* Handles whose values are kept.
LEMMA ValuesKept ==
  ASSUME NEW hp, NEW new, \A h : HandleIn(hp, h) => Value(new, h) = Value(hp, h)
  PROVE  /\ \A st \in Seq(HandlesOf(hp)) : Values(new, st) = Values(hp, st)
         /\ \A ca \in FramesOf(hp) : FramesValues(new, ca) = FramesValues(hp, ca)
<1>1. ASSUME NEW st \in Seq(HandlesOf(hp))
      PROVE  Values(new, st) = Values(hp, st)
  <2>1. \A i \in DOMAIN st : Value(new, st[i]) = Value(hp, st[i])
    BY HandlesAre
  <2>. QED
    BY <2>1 DEF Values
<1>2. ASSUME NEW ca \in FramesOf(hp)
      PROVE  FramesValues(new, ca) = FramesValues(hp, ca)
  <2>1. \A f \in DOMAIN ca : f \in 1 .. Len(ca)
    BY DEF FramesOf
  <2>2. \A f \in DOMAIN ca : /\ Values(new, ca[f].stack) = Values(hp, ca[f].stack)
                             /\ Values(new, ca[f].locals) = Values(hp, ca[f].locals)
    BY <1>1, <2>1, CallersAre
  <2>. QED
    BY <2>2 DEF FramesValues
<1>. QED
  BY <1>1, <1>2
-----------------------------------------------------------------------------
(* The steps, one by one.                                                  *)

\* What the invariant says of the variables.
LEMMA InvSays ==
  ASSUME Inv
  PROVE  /\ Good(heap, host, stack, locals, callers)
         /\ SlotsTyped(heap, host, stack, locals, callers)
         /\ Forest(heap, Referred(Slot(host, stack, locals, callers)))
         /\ New(1, heap) /\ New(2, heap)
         /\ HandleIn(heap, host) /\ host \in HandlesOf(heap)
         /\ stack \in Seq(HandlesOf(heap)) /\ locals \in Seq(HandlesOf(heap))
         /\ callers \in FramesOf(heap)
BY HandlesAre DEF Inv, Good, Tidy, SlotsTyped

\* The slots change as the values do.
LEMMA WorkingSays ==
  ASSUME NEW hp, NEW st, NEW lo, Good(hp, host, st, lo, callers), Working(hp, st, lo),
         Value(hp, host) = Value(heap, host), FramesValues(hp, callers) = FramesValues(heap, callers)
  PROVE  Inv' /\ Slots!Working(Values(hp, st), Values(hp, lo))
<1>1. Becomes(hp, host, st, lo, callers)
  BY DEF Working
<1>2. /\ Inv' /\ Value(heap', host') = Value(heap, host)
      /\ Values(heap', stack') = Values(hp, st) /\ Values(heap', locals') = Values(hp, lo)
      /\ FramesValues(heap', callers') = FramesValues(heap, callers)
  BY <1>1, BecomesSays
<1>. QED
  BY <1>2 DEF Slots!Working, FramesValues

\* The part of the stack below the operands taken.
LEMMA KeepIs ==
  ASSUME Inv, NEW n \in 0 .. Len(stack)
  PROVE  /\ Keep(n) \in Seq(HandlesOf(heap)) /\ Len(Keep(n)) = Len(stack) - n
         /\ \A i \in 1 .. Len(stack) - n : i \in 1 .. Len(stack) /\ Keep(n)[i] = stack[i]
         /\ Values(heap, Keep(n)) = Slots!Keep(n)
<1>1. stack \in Seq(HandlesOf(heap)) /\ Len(stack) \in Nat
  BY InvSays
<1>2. 1 \in 1 .. Len(stack) + 1 /\ Len(stack) - n \in 0 .. Len(stack) /\ 1 <= (Len(stack) - n) + 1
  BY <1>1
<1>3. /\ Values(heap, Keep(n)) = SubSeq(Values(heap, stack), 1, Len(stack) - n)
      /\ Keep(n) \in Seq(HandlesOf(heap)) /\ Len(Keep(n)) = Len(stack) - n - 1 + 1
      /\ \A i \in 1 .. Len(stack) - n - 1 + 1 : i + 1 - 1 \in 1 .. Len(stack) /\ Keep(n)[i] = stack[i + 1 - 1]
  <2>1. IsSlice(heap, HandlesOf(heap), stack, 1, Len(stack) - n)
    BY <1>1, <1>2, ValuesSub
  <2>. QED
    BY <2>1 DEF Keep, IsSlice
<1>4. Len(Values(heap, stack)) = Len(stack)
  BY <1>1, ValuesSeq
<1>5. Values(heap, Keep(n)) = Slots!Keep(n)
  BY <1>3, <1>4 DEF Slots!Keep
<1>. QED
  BY <1>1, <1>3, <1>5

\* The handles stay, a fresh one may be pushed.
LEMMA GrownOfSelf ==
  ASSUME Inv
  PROVE  Grown(heap, Slot(host, stack, locals, callers), heap, {})
<1>1. Forest(heap, Referred(Slot(host, stack, locals, callers)))
  BY InvSays
<1>2. Referred(Slot(host, stack, locals, callers)) \cup {} = Referred(Slot(host, stack, locals, callers))
  OBVIOUS
<1>. QED
  BY <1>1, <1>2 DEF Grown

\* n operands are taken and a fresh handle is pushed: the cells are in order.
LEMMA PushGood ==
  ASSUME Inv, NEW new, NEW fresh, Grown(heap, Slot(host, stack, locals, callers), new, fresh),
         NEW n \in 0 .. Len(stack), NEW h, HandleIn(new, h), IsRef(h) => h.cell \in fresh
  PROVE  Good(new, host, Append(Keep(n), h), locals, callers)
<1>. DEFINE st2 == Append(Keep(n), h)
            H   == HandlesOf(new)
            p   == <<"stack", Len(callers) + 1, Len(st2)>>
<1>1. DOMAIN heap \subseteq DOMAIN new
  BY DEF Grown
<1>2. host \in H /\ Keep(n) \in Seq(H) /\ locals \in Seq(H) /\ callers \in FramesOf(new) /\ h \in H
  BY <1>1, InvSays, KeepIs, StillTyped, HandlesAre
<1>3. /\ Len(Keep(n)) = Len(stack) - n /\ Len(stack) - n \in Nat
      /\ \A i \in 1 .. Len(stack) - n : i \in 1 .. Len(stack) /\ Keep(n)[i] = stack[i]
  BY KeepIs, InvSays
<1>. HIDE DEF H
<1>4. st2 \in Seq(H) /\ Len(st2) = Len(stack) - n + 1 /\ st2[Len(st2)] = h
      /\ \A i \in 1 .. Len(stack) - n : st2[i] = Keep(n)[i]
  BY <1>2, <1>3
<1>. HIDE DEF st2
<1>5. SlotsTyped(new, host, st2, locals, callers)
  BY <1>2, <1>4 DEF SlotsTyped, H
<1>6. StaysBut({p}, Len(callers) + 1, host, stack, locals, host, st2, locals)
  <2>1. ASSUME NEW i \in 1 .. Len(st2)
        PROVE  i = Len(st2) \/ (i \in 1 .. Len(stack) /\ st2[i] = stack[i])
    <3>1. i = Len(st2) \/ i \in 1 .. Len(stack) - n
      BY <1>3, <1>4
    <3>. QED
      BY <1>3, <1>4, <3>1
  <2>. QED
    BY <2>1 DEF StaysBut
<1>7. Slot(host, st2, locals, callers)[p] = h
  <2>1. Len(st2) \in 1 .. Len(st2)
    BY <1>3, <1>4
  <2>. QED
    BY <1>4, <1>5, <2>1, SlotOnStack
<1>8. Good(new, host, st2, locals, callers)
  <2>. HIDE DEF p
  <2>1. Good(heap, host, stack, locals, callers)
    BY InvSays
  <2>. QED
    BY <1>5, <1>6, <1>7, <2>1, RunningGood
<1>. QED
  BY <1>8 DEF st2

\* PushLiteral: the slots do what Push does on values.
LEMMA StepPushLiteral ==
  ASSUME Inv, PushLiteral
  PROVE  Inv' /\ Slots!Push
<1>1. PICK v \in Literals : Working(heap, Append(stack, v), locals)
  BY DEF PushLiteral
<1>2. v \in Scalars /\ ~IsRef(v) /\ HandleIn(heap, v) /\ v \in HandlesOf(heap) /\ Value(heap, v) = v
  BY DataAssumption, Handles, HandlesAre DEF HandleIn, Value
<1>3. stack \in Seq(HandlesOf(heap)) /\ Keep(0) = stack /\ 0 \in 0 .. Len(stack)
  BY InvSays DEF Keep
<1>4. Good(heap, host, Append(stack, v), locals, callers)
  BY <1>2, <1>3, GrownOfSelf, PushGood
<1>5. Inv' /\ Slots!Working(Values(heap, Append(stack, v)), Values(heap, locals))
  BY <1>1, <1>4, WorkingSays
<1>6. Values(heap, Append(stack, v)) = Append(Values(heap, stack), v)
  BY <1>2, <1>3, ValuesAppend
<1>. QED
  BY <1>5, <1>6 DEF Slots!Push
-----------------------------------------------------------------------------
(* A field name or an index, in a cell and in its value.                   *)

PathKeys == Scalars \cup [field : STRING]

\* The name of the part a key leads to.
PartOf(a, k) == IF IsStruct(a) THEN k.field ELSE IF IsArray(a) THEN k.int + 1 ELSE k.str

\* v is a, a cell of hp, with the values of its parts.
IsValueOf(hp, a, v) ==
  /\ IsAggregate(v) /\ SameKind(a, v)
  /\ DOMAIN Parts(v) = DOMAIN Parts(a)
  /\ \A k \in DOMAIN Parts(a) : Parts(v)[k] = Value(hp, Parts(a)[k])
  /\ v = WithParts(a, Values(hp, Parts(a)))
  /\ \A g : WithParts(v, g) = WithParts(a, g)
  /\ IsArray(a) => Len(v.array) = Len(a.array)

\* The value of a cell has its kind, and the values of its parts.
LEMMA CellValue ==
  ASSUME NEW hp, Sound(hp), Ranked(hp), NEW c \in DOMAIN hp
  PROVE  IsValueOf(hp, hp[c], ValueAt(hp)[c])
<1>. DEFINE a == hp[c]
            f == [k \in DOMAIN Parts(a) |->
                    IF k \in RefsIn(hp, c) THEN ValueAt(hp)[Target(hp, c, k)] ELSE Parts(a)[k]]
            vals == Values(hp, Parts(a))
<1>1. ValueAt(hp)[c] = WithParts(a, f)
  BY ValueSays DEF Body
<1>2. f = vals
  <2>1. \A k \in DOMAIN Parts(a) :
          (IF k \in RefsIn(hp, c) THEN ValueAt(hp)[Target(hp, c, k)] ELSE Parts(a)[k]) = Value(hp, Parts(a)[k])
    BY DEF RefsIn, Target, Value
  <2>. QED
    BY <2>1 DEF Values
<1>3. IsAggregate(a)
  BY DEF Sound
<1>4. IsFunction(vals) /\ DOMAIN vals = DOMAIN Parts(a)
      /\ \A k \in DOMAIN Parts(a) : vals[k] = Value(hp, Parts(a)[k])
  BY DEF Values, IsFunction
<1>. HIDE DEF f, vals, a
<1>5. /\ IsAggregate(WithParts(a, vals)) /\ Parts(WithParts(a, vals)) = vals
      /\ SameKind(a, WithParts(a, vals))
      /\ \A g : WithParts(WithParts(a, vals), g) = WithParts(a, g)
      /\ IsArray(a) => Len(WithParts(a, vals).array) = Len(a.array)
  BY <1>3, <1>4, PartsReplaced
<1>6. ValueAt(hp)[c] = WithParts(a, vals)
  BY <1>1, <1>2
<1>7. IsValueOf(hp, a, ValueAt(hp)[c])
  BY <1>4, <1>5, <1>6 DEF IsValueOf, vals
<1>. QED
  BY <1>7 DEF a

\* A step of a path fails in a cell as in its value.
LEMMA SameStep ==
  ASSUME NEW a, NEW b, NEW k, NEW leaf, IsAggregate(a), IsAggregate(b), SameKind(a, b),
         DOMAIN Parts(a) = DOMAIN Parts(b), IsArray(a) => Len(a.array) = Len(b.array)
  PROVE  StepError(a, k, leaf) = StepError(b, k, leaf) /\ PartOf(a, k) = PartOf(b, k)
<1>1. \/ IsArray(a) /\ ~IsMap(a) /\ ~IsStruct(a)
      \/ IsMap(a) /\ ~IsArray(a) /\ ~IsStruct(a)
      \/ IsStruct(a) /\ ~IsMap(a) /\ ~IsArray(a)
  BY DEF IsAggregate, IsArray, IsMap, IsStruct, ArrayV, MapV, StructV
<1>2. CASE IsArray(a) /\ ~IsMap(a) /\ ~IsStruct(a)
  <2>1. Len(a.array) = Len(b.array) /\ IsArray(b) /\ ~IsMap(b) /\ ~IsStruct(b)
    BY <1>2 DEF SameKind
  <2>2. StepError(a, k, leaf) = StepError(b, k, leaf)
    BY <1>2, <2>1 DEF StepError
  <2>. QED
    BY <1>2, <2>1, <2>2 DEF PartOf
<1>3. CASE IsMap(a) /\ ~IsArray(a) /\ ~IsStruct(a)
  <2>1. IsMap(b) /\ ~IsArray(b) /\ ~IsStruct(b)
    BY <1>3 DEF SameKind
  <2>2. DOMAIN a.map = DOMAIN b.map
    BY <1>3, <2>1 DEF Parts
  <2>3. StepError(a, k, leaf) = StepError(b, k, leaf)
    BY <1>3, <2>1, <2>2 DEF StepError
  <2>. QED
    BY <1>3, <2>1, <2>3 DEF PartOf
<1>4. CASE IsStruct(a) /\ ~IsMap(a) /\ ~IsArray(a)
  <2>1. IsStruct(b) /\ ~IsMap(b) /\ ~IsArray(b)
    BY <1>4 DEF SameKind
  <2>2. DOMAIN a.struct.fields = DOMAIN b.struct.fields
    BY <1>4, <2>1 DEF Parts
  <2>3. StepError(a, k, leaf) = StepError(b, k, leaf)
    BY <1>4, <2>1, <2>2 DEF StepError
  <2>. QED
    BY <1>4, <2>1, <2>3 DEF PartOf
<1>. QED
  BY <1>1, <1>2, <1>3, <1>4

\* Where it does not fail it leads to a part, and a store replaces that part.
LEMMA ChildIsPart ==
  ASSUME NEW a, NEW k, IsAggregate(a)
  PROVE  /\ StepError(a, k, FALSE) = "ok" => PartOf(a, k) \in DOMAIN Parts(a) /\ Child(a, k) = Parts(a)[PartOf(a, k)]
         /\ StepError(a, k, FALSE) = "ok" => StepError(a, k, TRUE) = "ok"
         /\ \A c : StepError(a, k, TRUE) = "ok"
                     => ReplaceChild(a, k, c) = WithParts(a, WithEntry(Parts(a), PartOf(a, k), c))
<1>. DEFINE Claim == /\ StepError(a, k, FALSE) = "ok" => PartOf(a, k) \in DOMAIN Parts(a) /\ Child(a, k) = Parts(a)[PartOf(a, k)]
                     /\ StepError(a, k, FALSE) = "ok" => StepError(a, k, TRUE) = "ok"
                     /\ \A c : StepError(a, k, TRUE) = "ok"
                                 => ReplaceChild(a, k, c) = WithParts(a, WithEntry(Parts(a), PartOf(a, k), c))
<1>1. ASSUME NEW s, a = ArrayV(s), Len(s) \in Nat, IsFunction(s), DOMAIN s = 1 .. Len(s)
      PROVE  Claim
  <2>1. IsArray(a) /\ ~IsMap(a) /\ ~IsStruct(a) /\ a.array = s
    BY <1>1 DEF IsArray, IsMap, IsStruct, ArrayV
  <2>2. Parts(a) = s /\ PartOf(a, k) = k.int + 1 /\ Child(a, k) = s[k.int + 1]
        /\ \A f : WithParts(a, f) = ArrayV(f)
    BY <2>1 DEF Parts, PartOf, Child, WithParts
  <2>3. \A leaf : StepError(a, k, leaf) = "ok" => k.int \in 0 .. Len(s) - 1
    BY <2>1 DEF StepError
  <2>4. StepError(a, k, FALSE) = "ok" => StepError(a, k, TRUE) = "ok"
    BY <2>1 DEF StepError
  <2>5. ASSUME NEW c, k.int \in 0 .. Len(s) - 1
        PROVE  ReplaceChild(a, k, c) = ArrayV(WithEntry(s, k.int + 1, c))
    <3>1. ReplaceChild(a, k, c) = [a EXCEPT !.array[k.int + 1] = c]
      BY <2>1 DEF ReplaceChild
    <3>2. k.int + 1 \in DOMAIN s
      BY <1>1, <2>5
    <3>3. [s EXCEPT ![k.int + 1] = c] = WithEntry(s, k.int + 1, c)
      BY <1>1, <3>2 DEF WithEntry, IsFunction
    <3>. HIDE DEF WithEntry
    <3>. QED
      BY <1>1, <3>1, <3>3 DEF ArrayV
  <2>6. \A i \in 0 .. Len(s) - 1 : i + 1 \in DOMAIN s
    BY <1>1
  <2>. QED
    BY <2>2, <2>3, <2>4, <2>5, <2>6
<1>2. ASSUME NEW f, a = MapV(f), IsFunction(f)
      PROVE  Claim
  <2>1. IsMap(a) /\ ~IsArray(a) /\ ~IsStruct(a) /\ a.map = f
    BY <1>2 DEF IsArray, IsMap, IsStruct, MapV
  <2>2. Parts(a) = f /\ PartOf(a, k) = k.str /\ Child(a, k) = f[k.str]
        /\ \A g : WithParts(a, g) = MapV(g)
    BY <2>1 DEF Parts, PartOf, Child, WithParts
  <2>3. StepError(a, k, FALSE) = "ok" => k.str \in DOMAIN f
    BY <2>1 DEF StepError
  <2>4. StepError(a, k, FALSE) = "ok" => StepError(a, k, TRUE) = "ok"
    BY <2>1 DEF StepError
  <2>5. ASSUME NEW c
        PROVE  ReplaceChild(a, k, c) = MapV(WithEntry(f, k.str, c))
    BY <1>2, <2>1 DEF ReplaceChild, MapV
  <2>. QED
    BY <2>2, <2>3, <2>4, <2>5
<1>3. ASSUME NEW t, NEW f, a = StructV(t, f), IsFunction(f)
      PROVE  Claim
  <2>1. IsStruct(a) /\ ~IsArray(a) /\ ~IsMap(a) /\ a.struct.fields = f /\ a.struct.type = t
    BY <1>3 DEF IsArray, IsMap, IsStruct, StructV
  <2>2. Parts(a) = f /\ PartOf(a, k) = k.field /\ Child(a, k) = f[k.field]
        /\ \A g : WithParts(a, g) = StructV(t, g)
    BY <2>1 DEF Parts, PartOf, Child, WithParts
  <2>3. \A leaf : StepError(a, k, leaf) = "ok" => k.field \in DOMAIN f
    BY <2>1 DEF StepError
  <2>4. StepError(a, k, FALSE) = "ok" => StepError(a, k, TRUE) = "ok"
    BY <2>1 DEF StepError
  <2>5. ASSUME NEW c, k.field \in DOMAIN f
        PROVE  ReplaceChild(a, k, c) = StructV(t, WithEntry(f, k.field, c))
    <3>1. ReplaceChild(a, k, c) = StructV(t, [f EXCEPT ![k.field] = c])
      BY <1>3, <2>1 DEF ReplaceChild, StructV
    <3>2. [f EXCEPT ![k.field] = c] = WithEntry(f, k.field, c)
      BY <1>3, <2>5 DEF WithEntry, IsFunction
    <3>. QED
      BY <3>1, <3>2
  <2>. QED
    BY <2>2, <2>3, <2>4, <2>5
<1>. QED
  BY <1>1, <1>2, <1>3 DEF IsAggregate

\* Scalars have no parts.
LEMMA ScalarStep ==
  ASSUME NEW h \in Scalars, NEW k, NEW leaf
  PROVE  StepError(h, k, leaf) = "type"
<1>1. ~IsArray(h) /\ ~IsMap(h) /\ ~IsStruct(h)
  BY Handles
<1>. QED
  BY <1>1 DEF StepError
-----------------------------------------------------------------------------
(* The operators the instance shares with this module.                     *)

\* Last and Front ...
LEMMA SlotsSequences ==
  ASSUME NEW s
  PROVE  Slots!Last(s) = Last(s) /\ Slots!Front(s) = Front(s)
BY DEF Slots!Last, Last, Slots!Front, Front

\* ... one step of a path ...
LEMMA SlotsStep ==
  ASSUME NEW v, NEW k
  PROVE  /\ \A leaf : Slots!StepError(v, k, leaf) = StepError(v, k, leaf)
         /\ Slots!Child(v, k) = Child(v, k)
         /\ \A c : Slots!ReplaceChild(v, k, c) = ReplaceChild(v, k, c)
<1>1. /\ Slots!IsStruct(v) = IsStruct(v) /\ Slots!IsArray(v) = IsArray(v) /\ Slots!IsMap(v) = IsMap(v)
      /\ Slots!IsInt(k) = IsInt(k) /\ Slots!IsStr(k) = IsStr(k) /\ Slots!IsFieldKey(k) = IsFieldKey(k)
  BY DEF Slots!IsStruct, Slots!IsArray, Slots!IsMap, Slots!IsInt, Slots!IsStr, Slots!IsFieldKey,
         IsStruct, IsArray, IsMap, IsInt, IsStr, IsFieldKey
<1>2. \A leaf : Slots!StepError(v, k, leaf) = StepError(v, k, leaf)
  BY <1>1 DEF Slots!StepError, StepError
<1>3. Slots!Child(v, k) = Child(v, k)
  BY <1>1 DEF Slots!Child, Child
<1>4. ASSUME NEW c
      PROVE  Slots!ReplaceChild(v, k, c) = ReplaceChild(v, k, c)
  <2>1. \A f, j : Slots!WithEntry(f, j, c) = WithEntry(f, j, c)
    BY DEF Slots!WithEntry, WithEntry
  <2>. QED
    BY <1>1, <2>1 DEF Slots!ReplaceChild, ReplaceChild
<1>. QED
  BY <1>2, <1>3, <1>4

\* ... and a whole one.
LEMMA SlotsWalk ==
  ASSUME NEW root, NEW keys
  PROVE  /\ Slots!Walk(root, keys) = Walk(root, keys)
         /\ Slots!PathError(root, keys) = PathError(root, keys)
         /\ \A v : Slots!PathStore(root, keys, v) = PathStore(root, keys, v)
<1>1. Slots!Walk(root, keys) = Walk(root, keys)
  BY DEF Slots!StepError, StepError, Slots!Child, Child, Slots!IsStruct, IsStruct,
         Slots!IsArray, IsArray, Slots!IsMap, IsMap, Slots!IsInt, IsInt, Slots!IsStr, IsStr,
         Slots!IsFieldKey, IsFieldKey, Slots!NoValue, NoValue, Slots!Walk, Walk
<1>2. Slots!PathError(root, keys) = PathError(root, keys)
  <2>. DEFINE node == Walk(root, keys)
              at1(i) == Slots!StepError(node[i - 1], keys[i], i = Len(keys))
              at2(i) == StepError(node[i - 1], keys[i], i = Len(keys))
              failed1 == {i \in 1 .. Len(keys) : at1(i) # "ok"}
              failed2 == {i \in 1 .. Len(keys) : at2(i) # "ok"}
              first(failed) == CHOOSE i \in failed : \A j \in failed : i <= j
  <2>1. ASSUME NEW i
        PROVE  at1(i) = at2(i)
    BY DEF Slots!StepError, StepError, Slots!IsStruct, IsStruct, Slots!IsArray, IsArray, Slots!IsMap, IsMap,
           Slots!IsInt, IsInt, Slots!IsStr, IsStr, Slots!IsFieldKey, IsFieldKey
  <2>2. Slots!PathError(root, keys) = IF failed1 = {} THEN "ok" ELSE at1(first(failed1))
    BY <1>1 DEF Slots!PathError
  <2>3. PathError(root, keys) = IF failed2 = {} THEN "ok" ELSE at2(first(failed2))
    BY DEF PathError
  <2>4. failed1 = failed2
    <3>. HIDE DEF at1, at2
    <3>. QED
      BY <2>1
  <2>. HIDE DEF at1, at2, failed1, failed2
  <2>. QED
    BY <2>1, <2>2, <2>3, <2>4
<1>3. ASSUME NEW v
      PROVE  Slots!PathStore(root, keys, v) = PathStore(root, keys, v)
  BY DEF Slots!StepError, StepError, Slots!Child, Child, Slots!IsStruct, IsStruct,
         Slots!IsArray, IsArray, Slots!IsMap, IsMap, Slots!IsInt, IsInt, Slots!IsStr, IsStr,
         Slots!IsFieldKey, IsFieldKey, Slots!NoValue, NoValue, Slots!Walk, Walk,
         Slots!ReplaceChild, ReplaceChild, Slots!WithEntry, WithEntry, Slots!PathStore,
         PathStore
<1>. QED
  BY <1>1, <1>2, <1>3

-----------------------------------------------------------------------------
(* Steps that keep the slots of the callers.                               *)

\* Every handle of hp is one of new, for the same value.
SameMeaning(hp, new) == \A h : HandleIn(hp, h) => HandleIn(new, h) /\ Value(new, h) = Value(hp, h)

\* A clone is a handle for a fresh cell, or for none.
LEMMA CloneGrows ==
  ASSUME Inv, NEW h, HandleIn(heap, h), NEW copy \in cloneValue(1, heap, h)
  PROVE  /\ Grown(heap, Slot(host, stack, locals, callers), copy.heap, Referred(<<copy.to>>))
         /\ SameMeaning(heap, copy.heap)
         /\ HandleIn(copy.heap, copy.to) /\ (IsRef(copy.to) => copy.to.cell \in Referred(<<copy.to>>))
         /\ Value(copy.heap, copy.to) = Value(heap, h)
<1>. DEFINE held == Slot(host, stack, locals, callers)
            to == <<copy.to>>
<1>1. Forest(heap, Referred(held)) /\ New(1, heap)
  BY InvSays
<1>. HIDE DEF held
<1>2. IsClone(heap, Referred(held), <<h>>, 1, copy.heap, to)
  BY <1>1, CloneIs
<1>3. 1 \in DOMAIN to /\ to[1] = copy.to /\ 1 \in DOMAIN <<h>> /\ <<h>>[1] = h
  OBVIOUS
<1>. HIDE DEF to
<1>4. Grown(heap, held, copy.heap, Referred(to))
  BY <1>2 DEF IsClone, Grown, Extends
<1>5. SameMeaning(heap, copy.heap)
  BY <1>2 DEF IsClone, SameMeaning
<1>6. HandleIn(copy.heap, copy.to) /\ Value(copy.heap, copy.to) = Value(heap, h)
  BY <1>2, <1>3 DEF IsClone, Known
<1>7. IsRef(copy.to) => copy.to.cell \in Referred(to)
  BY <1>3 DEF Referred
<1>. QED
  BY <1>4, <1>5, <1>6, <1>7 DEF held, to

\* What is not written keeps its value.
LEMMA SlotsMean ==
  ASSUME Inv, NEW new, SameMeaning(heap, new)
  PROVE  /\ Value(new, host) = Value(heap, host)
         /\ Values(new, stack) = Values(heap, stack) /\ Values(new, locals) = Values(heap, locals)
         /\ FramesValues(new, callers) = FramesValues(heap, callers)
         /\ \A n \in 0 .. Len(stack) : Values(new, Keep(n)) = Slots!Keep(n)
<1>1. /\ \A st \in Seq(HandlesOf(heap)) : Values(new, st) = Values(heap, st)
      /\ \A ca \in FramesOf(heap) : FramesValues(new, ca) = FramesValues(heap, ca)
  BY ValuesKept DEF SameMeaning
<1>2. Value(new, host) = Value(heap, host)
  BY InvSays DEF SameMeaning
<1>3. ASSUME NEW n \in 0 .. Len(stack)
      PROVE  Values(new, Keep(n)) = Slots!Keep(n)
  BY <1>1, KeepIs
<1>. QED
  BY <1>1, <1>2, <1>3, InvSays

\* n operands are taken and a value is pushed.
LEMMA PushStep ==
  ASSUME Inv, NEW new, NEW fresh, Grown(heap, Slot(host, stack, locals, callers), new, fresh),
         Value(new, host) = Value(heap, host), Values(new, locals) = Values(heap, locals),
         FramesValues(new, callers) = FramesValues(heap, callers),
         NEW n \in 0 .. Len(stack), Values(new, Keep(n)) = Slots!Keep(n),
         NEW h, HandleIn(new, h), IsRef(h) => h.cell \in fresh,
         Working(new, Append(Keep(n), h), locals)
  PROVE  Inv' /\ Slots!Working(Append(Slots!Keep(n), Value(new, h)), Values(heap, locals))
<1>1. Good(new, host, Append(Keep(n), h), locals, callers)
  BY PushGood
<1>2. Inv' /\ Slots!Working(Values(new, Append(Keep(n), h)), Values(new, locals))
  BY <1>1, WorkingSays
<1>3. Keep(n) \in Seq(HandlesOf(new)) /\ h \in HandlesOf(new)
  BY KeepIs, StillTyped, HandlesAre DEF Grown
<1>4. Values(new, Append(Keep(n), h)) = Append(Values(new, Keep(n)), Value(new, h))
  BY <1>3, ValuesAppend
<1>. QED
  BY <1>2, <1>4

\* A clone is pushed.
LEMMA PushCloneStep ==
  ASSUME Inv, NEW h, HandleIn(heap, h), NEW copy \in cloneValue(1, heap, h), NEW n \in 0 .. Len(stack),
         Working(copy.heap, Append(Keep(n), copy.to), locals)
  PROVE  Inv' /\ Slots!Working(Append(Slots!Keep(n), Value(heap, h)), Values(heap, locals))
<1>1. /\ Grown(heap, Slot(host, stack, locals, callers), copy.heap, Referred(<<copy.to>>))
      /\ SameMeaning(heap, copy.heap)
      /\ HandleIn(copy.heap, copy.to) /\ (IsRef(copy.to) => copy.to.cell \in Referred(<<copy.to>>))
      /\ Value(copy.heap, copy.to) = Value(heap, h)
  BY CloneGrows
<1>2. /\ Value(copy.heap, host) = Value(heap, host) /\ Values(copy.heap, locals) = Values(heap, locals)
      /\ FramesValues(copy.heap, callers) = FramesValues(heap, callers)
      /\ Values(copy.heap, Keep(n)) = Slots!Keep(n)
  BY <1>1, SlotsMean
<1>. QED
  BY <1>1, <1>2, PushStep

\* LoadLocal pushes a clone, so the local keeps its cells.
LEMMA StepLoadLocal ==
  ASSUME Inv, LoadLocal
  PROVE  Inv' /\ Slots!LoadLocal
<1>1. PICK i \in 1 .. Len(locals) : \E copy \in cloneValue(1, heap, locals[i]) :
        Working(copy.heap, Append(stack, copy.to), locals)
  BY DEF LoadLocal
<1>2. PICK copy \in cloneValue(1, heap, locals[i]) : Working(copy.heap, Append(stack, copy.to), locals)
  BY <1>1
<1>3. locals \in Seq(HandlesOf(heap)) /\ stack \in Seq(HandlesOf(heap))
  BY InvSays
<1>4. HandleIn(heap, locals[i])
  BY <1>3, HandlesAre
<1>5. Keep(0) = stack /\ 0 \in 0 .. Len(stack)
  BY <1>3 DEF Keep
<1>6. Values(heap, stack) = Slots!Keep(0)
  BY <1>5, KeepIs
<1>7. Len(Values(heap, locals)) = Len(locals) /\ Values(heap, locals)[i] = Value(heap, locals[i])
  BY <1>3, ValuesSeq
<1>8. Inv' /\ Slots!Working(Append(Slots!Keep(0), Value(heap, locals[i])), Values(heap, locals))
  BY <1>2, <1>4, <1>5, PushCloneStep
<1>. QED
  BY <1>6, <1>7, <1>8 DEF Slots!LoadLocal

\* The part a key leads to, from a handle and from its value.
LEMMA ChildOf ==
  ASSUME Inv, NEW h, HandleIn(heap, h), NEW k, NEW leaf
  PROVE  /\ StepError(Opened(h), k, leaf) = StepError(Value(heap, h), k, leaf)
         /\ StepError(Opened(h), k, FALSE) = "ok"
              => /\ HandleIn(heap, Child(Opened(h), k))
                 /\ Value(heap, Child(Opened(h), k)) = Child(Value(heap, h), k)
<1>1. CASE h \in Scalars
  <2>1. Opened(h) = h /\ Value(heap, h) = h
    BY <1>1, Handles DEF Opened, Value
  <2>. QED
    BY <1>1, <2>1, ScalarStep
<1>2. ASSUME NEW c \in DOMAIN heap, h = Ref(c)
      PROVE  /\ StepError(Opened(h), k, leaf) = StepError(Value(heap, h), k, leaf)
             /\ StepError(Opened(h), k, FALSE) = "ok"
                  => /\ HandleIn(heap, Child(Opened(h), k))
                     /\ Value(heap, Child(Opened(h), k)) = Child(Value(heap, h), k)
  <2>1. Opened(h) = heap[c] /\ Value(heap, h) = ValueAt(heap)[c]
    BY <1>2, Handles DEF Opened, Value
  <2>. DEFINE a == heap[c]
              v == ValueAt(heap)[c]
  <2>2. Sound(heap) /\ Ranked(heap)
    BY InvSays DEF Forest
  <2>3. IsValueOf(heap, a, v) /\ IsAggregate(a)
    BY <2>2, CellValue DEF Sound
  <2>. HIDE DEF v
  <2>4. /\ IsAggregate(v) /\ SameKind(a, v) /\ DOMAIN Parts(v) = DOMAIN Parts(a)
        /\ \A j \in DOMAIN Parts(a) : Parts(v)[j] = Value(heap, Parts(a)[j])
        /\ IsArray(a) => Len(v.array) = Len(a.array)
    BY <2>3 DEF IsValueOf
  <2>5. \A l : StepError(a, k, l) = StepError(v, k, l) /\ PartOf(a, k) = PartOf(v, k)
    BY <2>3, <2>4, SameStep
  <2>6. ASSUME StepError(a, k, FALSE) = "ok"
        PROVE  HandleIn(heap, Child(a, k)) /\ Value(heap, Child(a, k)) = Child(v, k)
    <3>1. PartOf(a, k) \in DOMAIN Parts(a) /\ Child(a, k) = Parts(a)[PartOf(a, k)]
      BY <2>3, <2>6, ChildIsPart
    <3>2. Child(v, k) = Parts(v)[PartOf(a, k)]
      BY <2>4, <2>5, <2>6, ChildIsPart
    <3>3. HandleIn(heap, Parts(a)[PartOf(a, k)])
      BY <2>2, <3>1 DEF Sound
    <3>. QED
      BY <2>4, <3>1, <3>2, <3>3
  <2>. QED
    BY <2>1, <2>5, <2>6 DEF v
<1>. QED
  BY <1>1, <1>2 DEF HandleIn

\* LoadChild replaces the aggregate by a clone of one of its parts.
LEMMA StepLoadChild ==
  ASSUME Inv, LoadChild
  PROVE  Inv' /\ Slots!LoadChild
<1>. DEFINE top == Last(stack)
<1>1. stack # <<>> /\ stack \in Seq(HandlesOf(heap))
  BY InvSays DEF LoadChild
<1>2. PICK k \in {Last(p) : p \in Paths} :
        /\ StepError(Opened(top), k, FALSE) = "ok"
        /\ \E copy \in cloneValue(1, heap, Child(Opened(top), k)) :
             Working(copy.heap, Append(Keep(1), copy.to), locals)
  BY DEF LoadChild
<1>3. PICK copy \in cloneValue(1, heap, Child(Opened(top), k)) :
        Working(copy.heap, Append(Keep(1), copy.to), locals)
  BY <1>2
<1>4. Len(stack) \in 1 .. Len(stack) /\ top = stack[Len(stack)] /\ 1 \in 0 .. Len(stack)
  BY <1>1 DEF Last
<1>5. top \in HandlesOf(heap)
  BY <1>1, <1>4
<1>6. Len(Values(heap, stack)) = Len(stack) /\ Values(heap, stack)[Len(stack)] = Value(heap, top)
  BY <1>1, <1>4, ValuesSeq
<1>7. Values(heap, stack) # <<>> /\ Last(Values(heap, stack)) = Value(heap, top)
  BY <1>4, <1>6 DEF Last
<1>. HIDE DEF top
<1>8. /\ StepError(Value(heap, top), k, FALSE) = "ok"
      /\ HandleIn(heap, Child(Opened(top), k))
      /\ Value(heap, Child(Opened(top), k)) = Child(Value(heap, top), k)
  BY <1>2, <1>5, ChildOf, HandlesAre
<1>9. Inv' /\ Slots!Working(Append(Slots!Keep(1), Child(Value(heap, top), k)), Values(heap, locals))
  BY <1>3, <1>4, <1>8, PushCloneStep
<1>10. Slots!Keep(1) = Slots!Front(Values(heap, stack)) /\ k \in Slots!Keys
  BY SlotsSequences DEF Slots!Keep, Slots!Front, Slots!Keys
<1>11. /\ Slots!Last(Values(heap, stack)) = Value(heap, top)
       /\ Slots!StepError(Value(heap, top), k, FALSE) = "ok"
       /\ Slots!Child(Value(heap, top), k) = Child(Value(heap, top), k)
  BY <1>7, <1>8, SlotsSequences, SlotsStep
<1>. HIDE DEF Slots!Working, Slots!StepError, Slots!Child, Slots!Front, Slots!Last, Slots!Keep
<1>. QED
  BY <1>7, <1>9, <1>10, <1>11 DEF Slots!LoadChild
\* Operands are dropped, a local may get a fresh handle.
LEMMA StoreGood ==
  ASSUME Inv, NEW new, NEW fresh, Grown(heap, Slot(host, stack, locals, callers), new, fresh),
         NEW n \in 0 .. Len(stack), NEW lo2 \in Seq(HandlesOf(new)), NEW j,
         \A i \in 1 .. Len(lo2) : i = j \/ (i \in 1 .. Len(locals) /\ lo2[i] = locals[i]),
         j \in 1 .. Len(lo2) => (IsRef(lo2[j]) => lo2[j].cell \in fresh)
  PROVE  Good(new, host, Keep(n), lo2, callers)
<1>. DEFINE st2 == Keep(n)
            p   == <<"locals", Len(callers) + 1, j>>
            now == Slot(host, st2, lo2, callers)
<1>1. DOMAIN heap \subseteq DOMAIN new
  BY DEF Grown
<1>2. host \in HandlesOf(new) /\ st2 \in Seq(HandlesOf(new)) /\ callers \in FramesOf(new)
  BY <1>1, InvSays, KeepIs, StillTyped
<1>3. \A i \in 1 .. Len(st2) : i \in 1 .. Len(stack) /\ st2[i] = stack[i]
  BY KeepIs
<1>. HIDE DEF st2
<1>4. SlotsTyped(new, host, st2, lo2, callers)
  BY <1>2 DEF SlotsTyped
<1>5. StaysBut({p}, Len(callers) + 1, host, stack, locals, host, st2, lo2)
  BY <1>3 DEF StaysBut
<1>6. ASSUME p \in DOMAIN now, IsRef(now[p])
      PROVE  now[p].cell \in fresh
  <2>1. IsSlotName(p, st2, lo2, callers)
    BY <1>4, <1>6, SlotIsOneOf
  <2>2. j \in 1 .. Len(lo2)
    <3>1. PICK i : (i \in 1 .. Len(lo2) /\ p = <<"locals", Len(callers) + 1, i>>)
                   \/ (Len(callers) + 1 \in 1 .. Len(callers))
      <4>1. CASE \E i \in 1 .. Len(lo2) : p = <<"locals", Len(callers) + 1, i>>
        BY <4>1
      <4>2. CASE \E f \in 1 .. Len(callers) : \E i \in 1 .. Len(callers[f].locals) : p = <<"locals", f, i>>
        BY <4>2
      <4>. QED
        BY <2>1, <4>1, <4>2 DEF IsSlotName
    <3>2. Len(callers) \in Nat
      BY <1>2 DEF FramesOf
    <3>. QED
      BY <3>1, <3>2
  <2>3. now[p] = lo2[j]
    BY <1>4, <2>2, SlotInLocals
  <2>. QED
    BY <1>6, <2>2, <2>3
<1>7. Good(new, host, st2, lo2, callers)
  <2>. HIDE DEF p
  <2>1. Good(heap, host, stack, locals, callers)
    BY InvSays
  <2>. QED
    BY <1>4, <1>5, <1>6, <2>1, RunningGood
<1>. QED
  BY <1>7 DEF st2

\* Pop drops a handle, and with it the cells only that handle reached.
LEMMA StepPop ==
  ASSUME Inv, Pop
  PROVE  Inv' /\ Slots!Pop
<1>1. stack # <<>> /\ Working(heap, Keep(1), locals)
  BY DEF Pop
<1>2. stack \in Seq(HandlesOf(heap)) /\ locals \in Seq(HandlesOf(heap))
  BY InvSays
<1>3. 1 \in 0 .. Len(stack) /\ Len(stack) # 0 /\ 0 \notin 1 .. Len(locals)
  BY <1>1, <1>2
<1>4. Good(heap, host, Keep(1), locals, callers)
  <2>1. \A i \in 1 .. Len(locals) : i = 0 \/ (i \in 1 .. Len(locals) /\ locals[i] = locals[i])
    OBVIOUS
  <2>. QED
    BY <1>2, <1>3, <2>1, GrownOfSelf, StoreGood
<1>5. Inv' /\ Slots!Working(Values(heap, Keep(1)), Values(heap, locals))
  BY <1>1, <1>4, WorkingSays
<1>6. Values(heap, Keep(1)) = Slots!Front(Values(heap, stack))
  BY <1>3, KeepIs DEF Slots!Keep, Slots!Front
<1>7. Values(heap, stack) # <<>>
  BY <1>2, <1>3, ValuesSeq
<1>. HIDE DEF Slots!Working, Slots!Front
<1>. QED
  BY <1>5, <1>6, <1>7 DEF Slots!Pop

\* The last of a sequence and of its values.
LEMMA ValuesLast ==
  ASSUME NEW hp, NEW H, NEW st \in Seq(H), st # <<>>
  PROVE  /\ Len(st) \in 1 .. Len(st) /\ Last(st) = st[Len(st)] /\ Last(st) \in H
         /\ Values(hp, st) # <<>> /\ Slots!Last(Values(hp, st)) = Value(hp, Last(st))
<1>1. Len(st) \in 1 .. Len(st) /\ Last(st) = st[Len(st)]
  BY DEF Last
<1>2. Len(Values(hp, st)) = Len(st) /\ Values(hp, st)[Len(st)] = Value(hp, st[Len(st)])
  BY <1>1, ValuesSeq
<1>3. Values(hp, st) # <<>>
  BY <1>1, <1>2
<1>. QED
  BY <1>1, <1>2, <1>3 DEF Slots!Last

\* StoreLocal puts a clone of the top into a local, or adds one.
LEMMA StepStoreLocal ==
  ASSUME Inv, StoreLocal
  PROVE  Inv' /\ Slots!StoreLocal
<1>. DEFINE H == HandlesOf(heap)
            lo(i, h) == [j \in 1 .. Len(locals) \cup {i} |-> IF j = i THEN h ELSE locals[j]]
            vals(i, v) == [j \in 1 .. Len(Values(heap, locals)) \cup {i} |-> IF j = i THEN v ELSE Values(heap, locals)[j]]
<1>1. stack # <<>> /\ stack \in Seq(H) /\ locals \in Seq(H)
  BY InvSays DEF StoreLocal
<1>2. PICK i \in 1 .. Len(locals) + 1 : \E copy \in cloneValue(1, heap, Last(stack)) :
        Working(copy.heap, Keep(1), lo(i, copy.to))
  BY DEF StoreLocal
<1>3. PICK copy \in cloneValue(1, heap, Last(stack)) : Working(copy.heap, Keep(1), lo(i, copy.to))
  BY <1>2
<1>4. HandleIn(heap, Last(stack)) /\ 1 \in 0 .. Len(stack)
  <2>1. Len(stack) \in 1 .. Len(stack) /\ Last(stack) \in H
    BY <1>1, ValuesLast
  <2>. QED
    BY <2>1, HandlesAre
<1>. DEFINE new == copy.heap
            to == copy.to
<1>5. /\ Grown(heap, Slot(host, stack, locals, callers), new, Referred(<<to>>))
      /\ SameMeaning(heap, new)
      /\ HandleIn(new, to) /\ (IsRef(to) => to.cell \in Referred(<<to>>))
      /\ Value(new, to) = Value(heap, Last(stack))
  BY <1>4, CloneGrows
<1>. HIDE DEF new, to
<1>6. locals \in Seq(HandlesOf(new)) /\ to \in HandlesOf(new)
  BY <1>1, <1>5, StillTyped, HandlesAre DEF Grown
<1>7. /\ lo(i, to) \in Seq(HandlesOf(new)) /\ DOMAIN lo(i, to) = 1 .. Len(locals) \cup {i}
      /\ \A j \in 1 .. Len(locals) \cup {i} : lo(i, to)[j] = IF j = i THEN to ELSE locals[j]
      /\ DOMAIN lo(i, to) = 1 .. Len(lo(i, to))
  <2>. DEFINE f == lo(i, to)
              S == 1 .. Len(locals) \cup {i}
  <2>1. PICK m \in Nat : S = 1 .. m
    <3>1. Len(locals) \in Nat
      BY <1>1
    <3>2. CASE i = Len(locals) + 1
      <4>1. S = 1 .. Len(locals) + 1
        BY <3>1, <3>2
      <4>. QED
        BY <3>1, <4>1
    <3>3. CASE i \in 1 .. Len(locals)
      <4>1. S = 1 .. Len(locals)
        BY <3>3
      <4>. QED
        BY <3>1, <4>1
    <3>. QED
      BY <3>1, <3>2, <3>3
  <2>2. \A j \in S : (IF j = i THEN to ELSE locals[j]) \in HandlesOf(new)
    BY <1>6
  <2>3. f = [j \in S |-> IF j = i THEN to ELSE locals[j]]
    OBVIOUS
  <2>. HIDE DEF f, S
  <2>4. DOMAIN f = 1 .. m /\ \A j \in 1 .. m : f[j] \in HandlesOf(new) /\ f[j] = IF j = i THEN to ELSE locals[j]
    BY <2>1, <2>2, <2>3
  <2>5. f = [j \in 1 .. m |-> f[j]]
    BY <2>1, <2>3
  <2>6. f \in Seq(HandlesOf(new)) /\ Len(f) = m
    BY <2>4, <2>5
  <2>. QED
    BY <2>1, <2>4, <2>6 DEF f, S
<1>8. DOMAIN lo(i, to) = 1 .. Len(lo(i, to))
  BY <1>7
<1>. HIDE DEF lo
<1>9. \A j \in 1 .. Len(lo(i, to)) : j = i \/ (j \in 1 .. Len(locals) /\ lo(i, to)[j] = locals[j])
  BY <1>7, <1>8
<1>10. lo(i, to)[i] = to
  BY <1>7
<1>11. Good(new, host, Keep(1), lo(i, to), callers)
  BY <1>4, <1>5, <1>7, <1>9, <1>10, StoreGood
<1>12. /\ Value(new, host) = Value(heap, host) /\ FramesValues(new, callers) = FramesValues(heap, callers)
       /\ Values(new, Keep(1)) = Slots!Keep(1) /\ Values(new, locals) = Values(heap, locals)
  BY <1>4, <1>5, SlotsMean
<1>13. Inv' /\ Slots!Working(Values(new, Keep(1)), Values(new, lo(i, to)))
  BY <1>3, <1>11, <1>12, WorkingSays DEF new, to
<1>14. Values(new, lo(i, to)) = vals(i, Value(new, to))
  <2>1. \A j \in 1 .. Len(locals) : Values(new, locals)[j] = Value(new, locals[j])
    BY <1>1, ValuesSeq
  <2>2. Len(Values(heap, locals)) = Len(locals)
    BY <1>1, ValuesSeq
  <2>3. \A j \in 1 .. Len(locals) \cup {i} :
          Value(new, lo(i, to)[j]) = IF j = i THEN Value(new, to) ELSE Values(heap, locals)[j]
    BY <1>7, <1>12, <2>1
  <2>. QED
    BY <1>7, <2>2, <2>3 DEF Values
<1>15. Slots!Last(Values(heap, stack)) = Value(new, to) /\ Values(heap, stack) # <<>>
  BY <1>1, <1>5, ValuesLast
<1>16. Slots!Keep(1) = Slots!Front(Values(heap, stack))
  BY DEF Slots!Keep, Slots!Front
<1>17. i \in 1 .. Len(Values(heap, locals)) + 1
  BY <1>1, ValuesSeq
<1>18. Slots!Working(Slots!Front(Values(heap, stack)), vals(i, Slots!Last(Values(heap, stack))))
  BY <1>12, <1>13, <1>14, <1>15, <1>16
<1>. HIDE DEF Slots!Working, Slots!Front, Slots!Last
<1>. QED
  BY <1>13, <1>15, <1>17, <1>18 DEF Slots!StoreLocal
-----------------------------------------------------------------------------
(* Building aggregates.                                                    *)

\* The names of the parts of what shape builds, and the operand of each.
PartNames(shape) ==
  IF shape.op = "array" THEN 1 .. Len(shape.keys) ELSE {shape.keys[i] : i \in 1 .. Len(shape.keys)}

Operand(shape, k) ==
  CASE shape.op = "array"  -> k
    [] shape.op = "map"    -> CHOOSE i \in 1 .. Len(shape.keys) :
                                shape.keys[i] = k /\ \A j \in i + 1 .. Len(shape.keys) : shape.keys[j] # k
    [] shape.op = "struct" -> CHOOSE i \in 1 .. Len(shape.keys) :
                                shape.keys[i] = k /\ \A j \in 1 .. i - 1 : shape.keys[j] # k

Operands(shape, s) == [k \in PartNames(shape) |-> s[Operand(shape, k)]]

\* A name has an operand, which no other name has.
LEMMA OperandIs ==
  ASSUME NEW shape \in Shapes
  PROVE  /\ \A k \in PartNames(shape) : Operand(shape, k) \in 1 .. Len(shape.keys)
         /\ \A k, l \in PartNames(shape) : Operand(shape, k) = Operand(shape, l) => k = l
<1>. DEFINE keys == shape.keys
            n == Len(keys)
<1>1. keys \in Seq(STRING) /\ n \in Nat /\ shape.op \in {"array", "map", "struct"}
  BY DataAssumption
<1>. HIDE DEF keys
<1>2. ASSUME NEW k \in {keys[i] : i \in 1 .. n}
      PROVE  /\ \E i \in 1 .. n : keys[i] = k /\ \A j \in 1 .. i - 1 : keys[j] # k
             /\ \E i \in 1 .. n : keys[i] = k /\ \A j \in i + 1 .. n : keys[j] # k
  <2>. DEFINE S == {i \in 1 .. n : keys[i] = k}
              T == {n - i : i \in S}
  <2>1. S \in SUBSET Nat /\ S # {} /\ T \in SUBSET Nat /\ T # {}
    BY <1>1
  <2>2. PICK i \in S : \A j \in S : ~(j < i)
    <3>. HIDE DEF S
    <3>. QED
      BY <2>1, LeastNatural
  <2>3. PICK t \in T : \A u \in T : ~(u < t)
    <3>. HIDE DEF T
    <3>. QED
      BY <2>1, LeastNatural
  <2>4. PICK l \in S : t = n - l
    OBVIOUS
  <2>5. ASSUME NEW j \in l + 1 .. n, keys[j] = k
        PROVE  FALSE
    <3>1. j \in S /\ n - j \in T
      BY <1>1, <2>5
    <3>2. n - j < t
      BY <1>1, <2>4, <2>5
    <3>. QED
      BY <2>3, <3>1, <3>2
  <2>6. ASSUME NEW j \in 1 .. i - 1, keys[j] = k
        PROVE  FALSE
    <3>1. j \in S /\ j < i
      BY <1>1, <2>6
    <3>. QED
      BY <2>2, <3>1
  <2>. QED
    BY <2>2, <2>4, <2>5, <2>6
<1>3. CASE shape.op = "array"
  <2>1. PartNames(shape) = 1 .. n /\ \A k : Operand(shape, k) = k
    BY <1>3 DEF PartNames, Operand, keys
  <2>. QED
    BY <2>1 DEF keys
<1>4. CASE shape.op = "map"
  <2>1. PartNames(shape) = {keys[i] : i \in 1 .. n}
    BY <1>4 DEF PartNames, keys
  <2>2. ASSUME NEW k \in PartNames(shape)
        PROVE  Operand(shape, k) \in 1 .. n /\ keys[Operand(shape, k)] = k
    <3>1. Operand(shape, k) = CHOOSE i \in 1 .. n : keys[i] = k /\ \A j \in i + 1 .. n : keys[j] # k
      BY <1>4 DEF Operand, keys
    <3>2. \E i \in 1 .. n : keys[i] = k /\ \A j \in i + 1 .. n : keys[j] # k
      BY <1>2, <2>1
    <3>. QED
      BY <3>1, <3>2
  <2>. QED
    BY <2>2 DEF keys
<1>5. CASE shape.op = "struct"
  <2>1. PartNames(shape) = {keys[i] : i \in 1 .. n}
    BY <1>5 DEF PartNames, keys
  <2>2. ASSUME NEW k \in PartNames(shape)
        PROVE  Operand(shape, k) \in 1 .. n /\ keys[Operand(shape, k)] = k
    <3>1. Operand(shape, k) = CHOOSE i \in 1 .. n : keys[i] = k /\ \A j \in 1 .. i - 1 : keys[j] # k
      BY <1>5 DEF Operand, keys
    <3>2. \E i \in 1 .. n : keys[i] = k /\ \A j \in 1 .. i - 1 : keys[j] # k
      BY <1>2, <2>1
    <3>. QED
      BY <3>1, <3>2
  <2>. QED
    BY <2>2 DEF keys
<1>. QED
  BY <1>1, <1>3, <1>4, <1>5

\* The kinds of aggregate an instruction can build.
LEMMA KindsOf ==
  /\ \A s : IsArray(ArrayV(s)) /\ ~IsMap(ArrayV(s)) /\ ~IsStruct(ArrayV(s)) /\ ArrayV(s).array = s
  /\ \A f : IsMap(MapV(f)) /\ ~IsArray(MapV(f)) /\ ~IsStruct(MapV(f)) /\ MapV(f).map = f
  /\ \A t, f : /\ IsStruct(StructV(t, f)) /\ ~IsArray(StructV(t, f)) /\ ~IsMap(StructV(t, f))
               /\ StructV(t, f).struct.type = t /\ StructV(t, f).struct.fields = f
BY DEF IsArray, IsMap, IsStruct, ArrayV, MapV, StructV

\* What is built of operands, and what of their values.
LEMMA AggregateIs ==
  ASSUME NEW shape \in Shapes, NEW s, s = [i \in 1 .. Len(shape.keys) |-> s[i]]
  PROVE  /\ IsAggregate(Aggregate(shape, s))
         /\ Parts(Aggregate(shape, s)) = Operands(shape, s)
         /\ \A t : t = [i \in 1 .. Len(shape.keys) |-> t[i]]
              => WithParts(Aggregate(shape, s), Operands(shape, t)) = Aggregate(shape, t)
<1>1. shape.keys \in Seq(STRING) /\ Len(shape.keys) \in Nat /\ shape.op \in {"array", "map", "struct"}
  BY DataAssumption
<1>2. CASE shape.op = "array"
  <2>1. \A t : t = [i \in 1 .. Len(shape.keys) |-> t[i]] => Operands(shape, t) = t
    BY <1>2 DEF Operands, PartNames, Operand
  <2>2. \A t : Aggregate(shape, t) = ArrayV(t)
    BY <1>2 DEF Aggregate
  <2>3. Len(s) = Len(shape.keys) /\ DOMAIN s = 1 .. Len(s) /\ IsFunction(s)
    BY <1>1, FunctionIs DEF IsFunction
  <2>4. IsAggregate(ArrayV(s))
    BY <1>1, <2>3 DEF IsAggregate
  <2>5. Parts(ArrayV(s)) = s /\ \A t : WithParts(ArrayV(s), t) = ArrayV(t)
    BY KindsOf DEF Parts, WithParts
  <2>. QED
    BY <2>1, <2>2, <2>4, <2>5
<1>3. CASE shape.op = "map"
  <2>1. ASSUME NEW t
        PROVE  Aggregate(shape, t) = MapV(Operands(shape, t))
    BY <1>3 DEF Aggregate, BuiltMap, Operands, PartNames, Operand
  <2>2. \A t : IsFunction(Operands(shape, t))
    BY DEF Operands, IsFunction
  <2>3. IsAggregate(MapV(Operands(shape, s)))
    BY <2>2 DEF IsAggregate
  <2>4. \A f, g : Parts(MapV(f)) = f /\ WithParts(MapV(f), g) = MapV(g)
    BY KindsOf DEF Parts, WithParts
  <2>. HIDE DEF Operands
  <2>. QED
    BY <2>1, <2>3, <2>4
<1>4. CASE shape.op = "struct"
  <2>1. ASSUME NEW t
        PROVE  Aggregate(shape, t) = StructV("T", Operands(shape, t))
    BY <1>4 DEF Aggregate, BuiltStruct, Operands, PartNames, Operand
  <2>2. \A t : IsFunction(Operands(shape, t))
    BY DEF Operands, IsFunction
  <2>3. IsAggregate(StructV("T", Operands(shape, s)))
    BY <2>2 DEF IsAggregate
  <2>4. \A f, g : Parts(StructV("T", f)) = f /\ WithParts(StructV("T", f), g) = StructV("T", g)
    BY KindsOf DEF Parts, WithParts
  <2>. HIDE DEF Operands
  <2>. QED
    BY <2>1, <2>3, <2>4
<1>. QED
  BY <1>1, <1>2, <1>3, <1>4

\* The instance builds the aggregates this module builds.
LEMMA SlotsAggregate ==
  ASSUME NEW shape, NEW s
  PROVE  Slots!Aggregate(shape, s) = Aggregate(shape, s)
BY DEF Slots!Aggregate, Aggregate, Slots!BuiltMap, BuiltMap, Slots!BuiltStruct, BuiltStruct,
       Slots!ArrayV, ArrayV, Slots!MapV, MapV, Slots!StructV, StructV
\* Clones of some handles.
LEMMA ClonesGrow ==
  ASSUME Inv, NEW handles, Known(heap, handles), NEW copies \in cloneValues(1, heap, handles)
  PROVE  /\ Grown(heap, Slot(host, stack, locals, callers), copies.heap, Referred(copies.to))
         /\ SameMeaning(heap, copies.heap) /\ New(2, copies.heap)
         /\ Known(copies.heap, copies.to) /\ Apart(copies.to)
         /\ copies.to = [i \in DOMAIN handles |-> copies.to[i]]
         /\ Values(copies.heap, copies.to) = Values(heap, handles)
<1>. DEFINE held == Slot(host, stack, locals, callers)
            new == copies.heap
            to == copies.to
<1>1. Forest(heap, Referred(held)) /\ New(1, heap) /\ New(2, heap)
  BY InvSays
<1>. HIDE DEF held
<1>2. IsClone(heap, Referred(held), handles, 1, new, to)
  BY <1>1, ClonesAre
<1>. HIDE DEF to, new
<1>3. /\ Forest(new, Referred(held) \cup Referred(to))
      /\ Extends(new, heap)
      /\ \A c \in DOMAIN new \ DOMAIN heap : c[1] = 1
      /\ Referred(to) \cap DOMAIN heap = {}
      /\ to = [i \in DOMAIN handles |-> to[i]]
      /\ Known(new, to) /\ Apart(to)
      /\ \A i \in DOMAIN handles : Value(new, to[i]) = Value(heap, handles[i])
      /\ \A h : HandleIn(heap, h) => HandleIn(new, h) /\ Value(new, h) = Value(heap, h)
  BY <1>2 DEF IsClone
<1>4. Grown(heap, held, new, Referred(to)) /\ SameMeaning(heap, new)
  BY <1>3 DEF Grown, Extends, SameMeaning
<1>5. New(2, new)
  BY <1>1, <1>3 DEF New
<1>6. Values(new, to) = Values(heap, handles)
  <2>1. DOMAIN to = DOMAIN handles
    BY <1>3
  <2>. QED
    BY <1>3, <2>1 DEF Values
<1>. QED
  BY <1>3, <1>4, <1>5, <1>6 DEF held, new, to

\* The operands taken from the stack.
LEMMA TakenIs ==
  ASSUME Inv, NEW n \in 0 .. Len(stack)
  PROVE  /\ Taken(n) \in Seq(HandlesOf(heap)) /\ Len(Taken(n)) = n /\ Known(heap, Taken(n))
         /\ Values(heap, Taken(n)) = Slots!Taken(n)
<1>. DEFINE m == Len(stack) - n + 1
            k == Len(stack)
<1>1. stack \in Seq(HandlesOf(heap)) /\ Len(stack) \in Nat
  BY InvSays
<1>2. m \in 1 .. Len(stack) + 1 /\ k \in 0 .. Len(stack) /\ m <= k + 1 /\ k - m + 1 = n
  BY <1>1
<1>3. Taken(n) = SubSeq(stack, m, k) /\ Slots!Taken(n) = SubSeq(Values(heap, stack), m, k)
  <2>1. Len(Values(heap, stack)) = Len(stack)
    BY <1>1, ValuesSeq
  <2>. QED
    BY <2>1 DEF Taken, Slots!Taken
<1>. HIDE DEF m, k
<1>4. IsSlice(heap, HandlesOf(heap), stack, m, k)
  BY <1>1, <1>2, ValuesSub
<1>5. /\ Taken(n) \in Seq(HandlesOf(heap)) /\ Len(Taken(n)) = n
      /\ Values(heap, Taken(n)) = Slots!Taken(n)
  BY <1>2, <1>3, <1>4 DEF IsSlice
<1>6. Known(heap, Taken(n))
  BY <1>5, HandlesAre DEF Known
<1>. QED
  BY <1>5, <1>6

\* The clones become the parts of a new cell.
LEMMA MadeGrows ==
  ASSUME Inv, NEW new, NEW to, Grown(heap, Slot(host, stack, locals, callers), new, Referred(to)),
         SameMeaning(heap, new), New(2, new), Known(new, to), Apart(to),
         NEW shape \in Shapes, to = [i \in 1 .. Len(shape.keys) |-> to[i]]
  PROVE  LET made == Allocate(2, new, Aggregate(shape, to))
         IN  /\ Grown(heap, Slot(host, stack, locals, callers), made.heap, {Address(2, <<>>)})
             /\ SameMeaning(heap, made.heap)
             /\ made.to = Ref(Address(2, <<>>)) /\ HandleIn(made.heap, made.to)
             /\ Value(made.heap, made.to) = Aggregate(shape, Values(new, to))
<1>. DEFINE held == Slot(host, stack, locals, callers)
            a    == Aggregate(shape, to)
            made == Allocate(2, new, a)
            b    == Address(2, <<>>)
            more == made.heap
            n    == Len(shape.keys)
<1>1. /\ Forest(new, Referred(held) \cup Referred(to)) /\ Referred(to) \cap DOMAIN heap = {}
      /\ DOMAIN heap \subseteq DOMAIN new
  BY DEF Grown
<1>2. Referred(held) \subseteq DOMAIN heap
  BY InvSays DEF Forest, Outermost
<1>. HIDE DEF held
<1>3. IsAggregate(a) /\ Parts(a) = Operands(shape, to)
  BY AggregateIs
<1>4. DOMAIN to = 1 .. n
  OBVIOUS
<1>5. DOMAIN Parts(a) = PartNames(shape) /\ \A k \in PartNames(shape) : Parts(a)[k] = to[Operand(shape, k)]
  BY <1>3 DEF Operands
<1>6. /\ \A k \in PartNames(shape) : Operand(shape, k) \in DOMAIN to
      /\ \A k, l \in PartNames(shape) : Operand(shape, k) = Operand(shape, l) => k = l
  BY <1>4, OperandIs
<1>. HIDE DEF a
<1>7. Referred(Parts(a)) \subseteq Referred(to)
  <2>1. ASSUME NEW k \in DOMAIN Parts(a), IsRef(Parts(a)[k])
        PROVE  Parts(a)[k].cell \in Referred(to)
    <3>1. Parts(a)[k] = to[Operand(shape, k)] /\ Operand(shape, k) \in DOMAIN to
      BY <1>5, <1>6
    <3>. QED
      BY <2>1, <3>1 DEF Referred
  <2>. QED
    BY <2>1 DEF Referred
<1>8. Known(new, Parts(a)) /\ Apart(Parts(a))
  BY <1>5, <1>6 DEF Known, Apart
<1>9. Forest(new, Referred(held) \cup Referred(Parts(a)))
  BY <1>1, <1>7 DEF Forest, Outermost
<1>10. Referred(held) \cap Referred(Parts(a)) = {}
  BY <1>1, <1>2, <1>7
<1>11. /\ Forest(more, Referred(held) \cup {b})
       /\ Extends(more, new)
       /\ b \in DOMAIN more \ DOMAIN new
       /\ Value(more, Ref(b)) = WithParts(a, Values(new, Parts(a)))
       /\ \A h : HandleIn(new, h) => HandleIn(more, h) /\ Value(more, h) = Value(new, h)
  <2>1. CanMake(new, Referred(held), a, 2)
    BY <1>3, <1>8, <1>9, <1>10 DEF CanMake
  <2>2. IsMade(more, new, Referred(held), a, 2)
    BY <2>1, MadeIs
  <2>. HIDE DEF more
  <2>. QED
    BY <2>2 DEF IsMade
<1>12. made.to = Ref(b)
  BY Allocated
<1>. HIDE DEF more, b
<1>13. Grown(heap, held, more, {b})
  BY <1>1, <1>11 DEF Grown, Extends
<1>14. SameMeaning(heap, more)
  BY <1>11 DEF SameMeaning
<1>15. HandleIn(more, Ref(b))
  BY <1>11 DEF HandleIn
<1>16. WithParts(a, Values(new, Parts(a))) = Aggregate(shape, Values(new, to))
  <2>. DEFINE v == Values(new, to)
  <2>1. v = [i \in 1 .. n |-> v[i]] /\ \A i \in 1 .. n : v[i] = Value(new, to[i])
    BY <1>4 DEF Values
  <2>2. Values(new, Parts(a)) = Operands(shape, v)
    <3>1. \A k \in PartNames(shape) : Value(new, Parts(a)[k]) = v[Operand(shape, k)]
      BY <1>4, <1>5, <1>6, <2>1
    <3>. HIDE DEF v
    <3>. QED
      BY <1>5, <3>1 DEF Values, Operands
  <2>. HIDE DEF v
  <2>3. WithParts(a, Operands(shape, v)) = Aggregate(shape, v)
    BY <2>1, AggregateIs DEF a
  <2>. QED
    BY <2>2, <2>3 DEF v
<1>. QED
  BY <1>11, <1>12, <1>13, <1>14, <1>15, <1>16 DEF held, more, b, a

\* Build: clones of the operands become the parts of a new cell.
LEMMA StepBuild ==
  ASSUME Inv, Build
  PROVE  Inv' /\ Slots!Build
<1>1. PICK shape \in Shapes :
        /\ Len(shape.keys) <= Len(stack)
        /\ \E copies \in cloneValues(1, heap, Taken(Len(shape.keys))) :
             LET made == Allocate(2, copies.heap, Aggregate(shape, copies.to))
             IN  Working(made.heap, Append(Keep(Len(shape.keys)), made.to), locals)
  BY DEF Build
<1>. DEFINE n == Len(shape.keys)
<1>2. n \in Nat /\ stack \in Seq(HandlesOf(heap)) /\ n \in 0 .. Len(stack)
  BY <1>1, DataAssumption, InvSays
<1>. HIDE DEF n
<1>3. PICK copies \in cloneValues(1, heap, Taken(n)) :
        LET made == Allocate(2, copies.heap, Aggregate(shape, copies.to))
        IN  Working(made.heap, Append(Keep(n), made.to), locals)
  BY <1>1 DEF n
<1>4. /\ Taken(n) \in Seq(HandlesOf(heap)) /\ Len(Taken(n)) = n /\ Known(heap, Taken(n))
      /\ Values(heap, Taken(n)) = Slots!Taken(n)
  BY <1>2, TakenIs
<1>. DEFINE new == copies.heap
            to == copies.to
<1>5. /\ Grown(heap, Slot(host, stack, locals, callers), new, Referred(to))
      /\ SameMeaning(heap, new) /\ New(2, new) /\ Known(new, to) /\ Apart(to)
      /\ to = [i \in DOMAIN Taken(n) |-> to[i]]
      /\ Values(new, to) = Values(heap, Taken(n))
  BY <1>4, ClonesGrow
<1>. DEFINE made == Allocate(2, new, Aggregate(shape, to))
<1>6. Working(made.heap, Append(Keep(n), made.to), locals)
  BY <1>3
<1>. HIDE DEF new, to
<1>7. to = [i \in 1 .. Len(shape.keys) |-> to[i]]
  BY <1>4, <1>5 DEF n
<1>8. /\ Grown(heap, Slot(host, stack, locals, callers), made.heap, {Address(2, <<>>)})
      /\ SameMeaning(heap, made.heap)
      /\ made.to = Ref(Address(2, <<>>)) /\ HandleIn(made.heap, made.to)
      /\ Value(made.heap, made.to) = Aggregate(shape, Values(new, to))
  BY <1>5, <1>7, MadeGrows
<1>. HIDE DEF made
<1>9. IsRef(made.to) => made.to.cell \in {Address(2, <<>>)}
  BY <1>8, Handles
<1>10. /\ Value(made.heap, host) = Value(heap, host) /\ Values(made.heap, locals) = Values(heap, locals)
       /\ FramesValues(made.heap, callers) = FramesValues(heap, callers)
       /\ Values(made.heap, Keep(n)) = Slots!Keep(n)
  BY <1>2, <1>8, SlotsMean
<1>11. Inv' /\ Slots!Working(Append(Slots!Keep(n), Value(made.heap, made.to)), Values(heap, locals))
  BY <1>2, <1>6, <1>8, <1>9, <1>10, PushStep
<1>12. Value(made.heap, made.to) = Slots!Aggregate(shape, Slots!Taken(n))
  BY <1>4, <1>5, <1>8, SlotsAggregate
<1>13. Len(shape.keys) <= Len(Values(heap, stack))
  BY <1>1, <1>2, ValuesSeq
<1>14. Slots!Working(Append(Slots!Keep(Len(shape.keys)), Slots!Aggregate(shape, Slots!Taken(Len(shape.keys)))), Values(heap, locals))
  BY <1>11, <1>12 DEF n
<1>. HIDE DEF Slots!Working, Slots!Keep, Slots!Taken, Slots!Aggregate
<1>. QED
  BY <1>11, <1>13, <1>14 DEF Slots!Build
-----------------------------------------------------------------------------
(* Calls.                                                                  *)

\* The slots now are slots of the state, but for those of P, which are fresh.
LEMMA FreshGood ==
  ASSUME Inv, NEW new, NEW fresh, Grown(heap, Slot(host, stack, locals, callers), new, fresh),
         NEW ho, NEW st, NEW lo, NEW ca, SlotsTyped(new, ho, st, lo, ca), NEW P,
         Keeps(Slot(host, stack, locals, callers), Slot(ho, st, lo, ca), P),
         Renewed(Slot(ho, st, lo, ca), P, fresh)
  PROVE  Good(new, ho, st, lo, ca)
<1>. DEFINE old == Slot(host, stack, locals, callers)
            now == Slot(ho, st, lo, ca)
<1>1. Tidy(heap, old)
  BY DEF Inv, Good
<1>2. Known(new, now)
  BY SlotsKnown
<1>. HIDE DEF old, now
<1>3. Tidy(new, now)
  BY <1>1, <1>2, TidyAgain DEF Grown, old, now
<1>. QED
  BY <1>3 DEF Good, now

\* Only one slot is fresh.
LEMMA OneRenewed ==
  ASSUME NEW now, NEW p, NEW fresh, p \in DOMAIN now /\ IsRef(now[p]) => now[p].cell \in fresh
  PROVE  Renewed(now, {p}, fresh)
BY DEF Renewed

\* The value a call returns.
LEMMA ResultIs ==
  ASSUME Inv
  PROVE  HandleIn(heap, Result) /\ Value(heap, Result) = Slots!Result
<1>1. stack \in Seq(HandlesOf(heap))
  BY InvSays
<1>2. CASE stack = <<>>
  <2>1. Values(heap, stack) = <<>>
    BY <1>2 DEF Values
  <2>2. DefaultValue = Slots!DefaultValue
    BY DEF DefaultValue, Slots!DefaultValue, IntV, Slots!IntV
  <2>. QED
    BY <1>2, <2>1, <2>2, Handles DEF Result, Slots!Result, HandleIn, Value
<1>3. CASE stack # <<>>
  <2>1. /\ Last(stack) \in HandlesOf(heap) /\ Values(heap, stack) # <<>>
        /\ Slots!Last(Values(heap, stack)) = Value(heap, Last(stack))
    BY <1>1, <1>3, ValuesLast
  <2>2. Result = Last(stack) /\ Slots!Result = Slots!Last(Values(heap, stack))
    BY <1>3, <2>1 DEF Result, Slots!Result
  <2>. QED
    BY <2>1, <2>2, HandlesAre
<1>. QED
  BY <1>2, <1>3

\* Finish: the host gets a clone of the result, the slots stay.
LEMMA StepFinish ==
  ASSUME Inv, Finish
  PROVE  Inv' /\ Slots!Finish
<1>1. PICK copy \in cloneValue(1, heap, Result) : Becomes(copy.heap, copy.to, stack, locals, callers)
  BY DEF Finish
<1>. DEFINE new == copy.heap
            to  == copy.to
            p   == <<"host", 0, 0>>
<1>2. /\ Grown(heap, Slot(host, stack, locals, callers), new, Referred(<<to>>))
      /\ SameMeaning(heap, new)
      /\ HandleIn(new, to) /\ (IsRef(to) => to.cell \in Referred(<<to>>))
      /\ Value(new, to) = Value(heap, Result)
  BY ResultIs, CloneGrows
<1>. DEFINE fresh == Referred(<<to>>)
<1>3. Becomes(new, to, stack, locals, callers)
  BY <1>1
<1>. HIDE DEF new, to, fresh
<1>4. SlotsTyped(new, to, stack, locals, callers)
  BY <1>2, InvSays, StillTyped, HandlesAre DEF Grown, SlotsTyped
<1>5. StaysBut({p}, Len(callers) + 1, host, stack, locals, to, stack, locals)
  BY DEF StaysBut
<1>6. Good(new, to, stack, locals, callers)
  <2>1. Slot(to, stack, locals, callers)[p] = to
    BY <1>4, SlotIsHost
  <2>2. Good(heap, host, stack, locals, callers)
    BY InvSays
  <2>. HIDE DEF p
  <2>. QED
    BY <1>2, <1>4, <1>5, <2>1, <2>2, RunningGood DEF fresh
<1>7. /\ Inv' /\ Value(heap', host') = Value(new, to)
      /\ Values(heap', stack') = Values(new, stack) /\ Values(heap', locals') = Values(new, locals)
      /\ FramesValues(heap', callers') = FramesValues(new, callers)
  BY <1>3, <1>6, BecomesSays
<1>8. /\ Values(new, stack) = Values(heap, stack) /\ Values(new, locals) = Values(heap, locals)
      /\ FramesValues(new, callers) = FramesValues(heap, callers)
  BY <1>2, SlotsMean
<1>9. callers = <<>> /\ FramesValues(heap, callers) = <<>>
  BY DEF Finish, FramesValues
<1>10. Value(heap', host') = Slots!Result
  BY <1>2, <1>7, ResultIs
<1>. QED
  BY <1>7, <1>8, <1>9, <1>10 DEF Slots!Finish, FramesValues

\* ExecuteFunction: whatever was left, the only slots are the host's and a clone of it.
LEMMA StepExecuteFunction ==
  ASSUME Inv, ExecuteFunction
  PROVE  Inv' /\ Slots!ExecuteFunction
<1>1. PICK copy \in cloneValue(1, heap, host) : Becomes(copy.heap, host, <<>>, <<copy.to>>, <<>>)
  BY DEF ExecuteFunction
<1>. DEFINE new == copy.heap
            to  == copy.to
            p   == <<"locals", 1, 1>>
            fresh == Referred(<<to>>)
            now == Slot(host, <<>>, <<to>>, <<>>)
            old == Slot(host, stack, locals, callers)
<1>2. /\ Grown(heap, old, new, fresh)
      /\ SameMeaning(heap, new)
      /\ HandleIn(new, to) /\ (IsRef(to) => to.cell \in fresh)
      /\ Value(new, to) = Value(heap, host)
  BY InvSays, CloneGrows
<1>3. Becomes(new, host, <<>>, <<to>>, <<>>)
  BY <1>1
<1>. HIDE DEF new, to, fresh
<1>4. host \in HandlesOf(new) /\ to \in HandlesOf(new)
  BY <1>2, InvSays, StillTyped, HandlesAre DEF Grown
<1>5. SlotsTyped(new, host, <<>>, <<to>>, <<>>)
  BY <1>4 DEF SlotsTyped, FramesOf
<1>. HIDE DEF now, old
<1>6. Keeps(old, now, {p})
  <2>1. ASSUME NEW s \in DOMAIN now, s # p
        PROVE  s \in DOMAIN old /\ now[s] = old[s]
    <3>1. IsSlotName(s, <<>>, <<to>>, <<>>)
      BY <1>5, SlotIsOneOf DEF now
    <3>2. s = <<"host", 0, 0>>
      BY <2>1, <3>1 DEF IsSlotName
    <3>3. now[s] = host
      BY <1>5, <3>2, SlotIsHost DEF now
    <3>4. s \in DOMAIN old /\ old[s] = host
      BY <3>2, InvSays, SlotIsHost DEF old
    <3>. QED
      BY <3>3, <3>4
  <2>. QED
    BY <2>1 DEF Keeps
<1>7. Renewed(now, {p}, fresh)
  <2>1. now[p] = to
    <3>1. 1 \in 1 .. Len(<<to>>) /\ Len(<<>>) + 1 = 1 /\ <<to>>[1] = to
      OBVIOUS
    <3>2. now[<<"locals", Len(<<>>) + 1, 1>>] = <<to>>[1]
      BY <1>5, <3>1, SlotInLocals DEF now
    <3>. QED
      BY <3>1, <3>2
  <2>. QED
    BY <1>2, <2>1, OneRenewed
<1>8. Good(new, host, <<>>, <<to>>, <<>>)
  BY <1>2, <1>5, <1>6, <1>7, FreshGood DEF now, old
<1>9. /\ Inv' /\ Value(heap', host') = Value(new, host)
      /\ Values(heap', stack') = Values(new, <<>>) /\ Values(heap', locals') = Values(new, <<to>>)
      /\ FramesValues(heap', callers') = FramesValues(new, <<>>)
  BY <1>3, <1>8, BecomesSays
<1>10. Value(new, host) = Value(heap, host)
  BY <1>2, SlotsMean
<1>11. /\ Values(new, <<>>) = <<>> /\ Values(new, <<to>>) = <<Value(new, to)>>
       /\ FramesValues(new, <<>>) = <<>>
  BY DEF Values, FramesValues
<1>. QED
  BY <1>2, <1>9, <1>10, <1>11 DEF Slots!ExecuteFunction, FramesValues

\* The frame of the caller goes on top of those below it.
LEMMA FramePushed ==
  ASSUME NEW hp, NEW ca \in FramesOf(hp), NEW st \in Seq(HandlesOf(hp)), NEW lo \in Seq(HandlesOf(hp))
  PROVE  LET more == Append(ca, [stack |-> st, locals |-> lo])
         IN  /\ more \in FramesOf(hp) /\ Len(more) = Len(ca) + 1
             /\ more[Len(ca) + 1].stack = st /\ more[Len(ca) + 1].locals = lo
             /\ \A f \in 1 .. Len(ca) : more[f] = ca[f]
             /\ FramesValues(hp, more)
                  = Append(FramesValues(hp, ca), [stack |-> Values(hp, st), locals |-> Values(hp, lo)])
<1>. DEFINE F == [stack : Seq(HandlesOf(hp)), locals : Seq(HandlesOf(hp))]
            frame == [stack |-> st, locals |-> lo]
            more == Append(ca, frame)
            v(f) == [stack |-> Values(hp, f.stack), locals |-> Values(hp, f.locals)]
<1>1. ca \in Seq(F) /\ frame \in F /\ frame.stack = st /\ frame.locals = lo
  BY DEF FramesOf
<1>. HIDE DEF F, frame
<1>2. /\ more \in Seq(F) /\ Len(more) = Len(ca) + 1 /\ Len(ca) \in Nat
      /\ more[Len(ca) + 1] = frame /\ \A f \in 1 .. Len(ca) : more[f] = ca[f]
  BY <1>1
<1>. HIDE DEF more
<1>3. /\ FramesValues(hp, more) = [f \in 1 .. Len(ca) + 1 |-> v(more[f])]
      /\ FramesValues(hp, ca) = [f \in 1 .. Len(ca) |-> v(ca[f])]
  BY <1>1, <1>2 DEF FramesValues
<1>. HIDE DEF v
<1>4. FramesValues(hp, more) = Append(FramesValues(hp, ca), v(frame))
  <2>. DEFINE V == {v(more[f]) : f \in 1 .. Len(ca) + 1}
              s == FramesValues(hp, more)
              t == Append(FramesValues(hp, ca), v(frame))
  <2>1. v(frame) \in V /\ \A f \in 1 .. Len(ca) : v(ca[f]) \in V
    BY <1>2
  <2>2. s \in Seq(V) /\ Len(s) = Len(ca) + 1
    BY <1>2, <1>3
  <2>. HIDE DEF V
  <2>3. FramesValues(hp, ca) \in Seq(V) /\ Len(FramesValues(hp, ca)) = Len(ca)
    BY <1>2, <1>3, <2>1
  <2>4. /\ t \in Seq(V) /\ Len(t) = Len(ca) + 1 /\ t[Len(ca) + 1] = v(frame)
        /\ \A f \in 1 .. Len(ca) : t[f] = FramesValues(hp, ca)[f]
    BY <1>2, <2>1, <2>3
  <2>5. \A f \in 1 .. Len(ca) + 1 : s[f] = t[f]
    BY <1>2, <1>3, <2>4
  <2>. HIDE DEF s, t
  <2>6. s = t
    BY <2>2, <2>4, <2>5, SameSequence
  <2>. QED
    BY <2>6 DEF s, t
<1>5. more \in FramesOf(hp)
  BY <1>2 DEF FramesOf, F
<1>6. v(frame) = [stack |-> Values(hp, st), locals |-> Values(hp, lo)]
  BY <1>1 DEF v
<1>. QED
  BY <1>1, <1>2, <1>4, <1>5, <1>6 DEF more, frame

\* CallFunction: the arguments are cloned into the locals of a new frame.
LEMMA StepCallFunction ==
  ASSUME Inv, CallFunction
  PROVE  Inv' /\ Slots!CallFunction
<1>1. PICK n \in 0 .. Len(stack) : \E args \in cloneValues(1, heap, Taken(n)) :
        Becomes(args.heap, host, <<>>, args.to, Append(callers, [stack |-> Keep(n), locals |-> locals]))
  BY DEF CallFunction
<1>2. PICK args \in cloneValues(1, heap, Taken(n)) :
        Becomes(args.heap, host, <<>>, args.to, Append(callers, [stack |-> Keep(n), locals |-> locals]))
  BY <1>1
<1>. DEFINE new == args.heap
            to  == args.to
            ca  == Append(callers, [stack |-> Keep(n), locals |-> locals])
            d   == Len(callers)
            P   == {<<"locals", d + 2, i>> : i \in 1 .. n}
            fresh == Referred(to)
            now == Slot(host, <<>>, to, ca)
            old == Slot(host, stack, locals, callers)
<1>3. /\ Taken(n) \in Seq(HandlesOf(heap)) /\ Len(Taken(n)) = n /\ Known(heap, Taken(n))
      /\ Values(heap, Taken(n)) = Slots!Taken(n)
  BY TakenIs
<1>4. /\ Grown(heap, old, new, fresh) /\ SameMeaning(heap, new)
      /\ Known(new, to) /\ Apart(to) /\ to = [i \in DOMAIN Taken(n) |-> to[i]]
      /\ Values(new, to) = Values(heap, Taken(n))
  BY <1>3, ClonesGrow
<1>5. Becomes(new, host, <<>>, to, ca)
  BY <1>2
<1>. HIDE DEF new, to, fresh, old
<1>6. to \in Seq(HandlesOf(new)) /\ Len(to) = n
  <2>1. DOMAIN to = 1 .. n /\ n \in Nat /\ to = [i \in 1 .. n |-> to[i]]
    BY <1>3, <1>4
  <2>2. \A i \in 1 .. n : to[i] \in HandlesOf(new)
    BY <1>4, <2>1, HandlesAre DEF Known
  <2>. QED
    BY <2>1, <2>2
<1>7. /\ host \in HandlesOf(new) /\ Keep(n) \in Seq(HandlesOf(new)) /\ locals \in Seq(HandlesOf(new))
      /\ callers \in FramesOf(new)
  BY <1>4, InvSays, KeepIs, StillTyped DEF Grown
<1>8. /\ ca \in FramesOf(new) /\ Len(ca) = d + 1 /\ d \in Nat
      /\ ca[d + 1].stack = Keep(n) /\ ca[d + 1].locals = locals
      /\ \A f \in 1 .. d : ca[f] = callers[f]
      /\ FramesValues(new, ca)
           = Append(FramesValues(new, callers), [stack |-> Values(new, Keep(n)), locals |-> Values(new, locals)])
  BY <1>7, FramePushed DEF FramesOf
<1>. HIDE DEF ca
<1>9. SlotsTyped(new, host, <<>>, to, ca)
  BY <1>6, <1>7, <1>8 DEF SlotsTyped
<1>10. /\ Len(Keep(n)) = Len(stack) - n
       /\ \A i \in 1 .. Len(stack) - n : i \in 1 .. Len(stack) /\ Keep(n)[i] = stack[i]
       /\ Values(heap, Keep(n)) = Slots!Keep(n)
  BY KeepIs
<1>11. SlotsTyped(heap, host, stack, locals, callers)
  BY InvSays
<1>. HIDE DEF now
<1>12. ASSUME NEW i \in 1 .. n
       PROVE  <<"locals", d + 2, i>> \in DOMAIN now /\ now[<<"locals", d + 2, i>>] = to[i]
  <2>1. Len(ca) + 1 = d + 2
    BY <1>8
  <2>. QED
    BY <1>6, <1>9, <2>1, SlotInLocals DEF now
<1>13. Keeps(old, now, P)
  <2>1. ASSUME NEW s \in DOMAIN now, s \notin P
        PROVE  s \in DOMAIN old /\ now[s] = old[s]
    <3>1. IsSlotName(s, <<>>, to, ca)
      BY <1>9, SlotIsOneOf DEF now
    <3>2. CASE s = <<"host", 0, 0>>
      BY <1>9, <1>11, <3>2, SlotIsHost DEF now, old
    <3>3. ~\E i \in 1 .. Len(to) : s = <<"locals", Len(ca) + 1, i>>
      <4>1. Len(ca) + 1 = d + 2
        BY <1>8
      <4>. QED
        BY <1>6, <2>1, <4>1
    <3>4. ASSUME NEW f \in 1 .. Len(ca), NEW i \in 1 .. Len(ca[f].stack), s = <<"stack", f, i>>
          PROVE  s \in DOMAIN old /\ now[s] = old[s]
      <4>1. now[s] = ca[f].stack[i]
        BY <1>9, <3>4, SlotOnCallersStack DEF now
      <4>2. CASE f = d + 1
        <5>1. ca[f].stack = Keep(n)
          BY <1>8, <4>2
        <5>2. i \in 1 .. Len(stack) - n
          BY <1>10, <5>1
        <5>3. i \in 1 .. Len(stack) /\ ca[f].stack[i] = stack[i]
          BY <1>10, <5>1, <5>2
        <5>4. s \in DOMAIN old /\ old[s] = stack[i]
          BY <1>11, <3>4, <4>2, <5>3, SlotOnStack DEF old
        <5>. QED
          BY <4>1, <5>3, <5>4
      <4>3. CASE f \in 1 .. d
        <5>1. ca[f] = callers[f] /\ i \in 1 .. Len(callers[f].stack)
          BY <1>8, <4>3
        <5>2. s \in DOMAIN old /\ old[s] = callers[f].stack[i]
          BY <1>11, <3>4, <4>3, <5>1, SlotOnCallersStack DEF old
        <5>. QED
          BY <4>1, <5>1, <5>2
      <4>4. f = d + 1 \/ f \in 1 .. d
        BY <1>8
      <4>. QED
        BY <4>2, <4>3, <4>4
    <3>5. ASSUME NEW f \in 1 .. Len(ca), NEW i \in 1 .. Len(ca[f].locals), s = <<"locals", f, i>>
          PROVE  s \in DOMAIN old /\ now[s] = old[s]
      <4>1. now[s] = ca[f].locals[i]
        BY <1>9, <3>5, SlotInCallersLocals DEF now
      <4>2. CASE f = d + 1
        <5>1. ca[f].locals = locals /\ i \in 1 .. Len(locals)
          BY <1>8, <4>2
        <5>2. s \in DOMAIN old /\ old[s] = locals[i]
          BY <1>11, <3>5, <4>2, <5>1, SlotInLocals DEF old
        <5>. QED
          BY <4>1, <5>1, <5>2
      <4>3. CASE f \in 1 .. d
        <5>1. ca[f] = callers[f] /\ i \in 1 .. Len(callers[f].locals)
          BY <1>8, <4>3
        <5>2. s \in DOMAIN old /\ old[s] = callers[f].locals[i]
          BY <1>11, <3>5, <4>3, <5>1, SlotInCallersLocals DEF old
        <5>. QED
          BY <4>1, <5>1, <5>2
      <4>4. f = d + 1 \/ f \in 1 .. d
        BY <1>8
      <4>. QED
        BY <4>2, <4>3, <4>4
    <3>6. ~\E i \in 1 .. Len(<<>>) : s = <<"stack", Len(ca) + 1, i>>
      OBVIOUS
    <3>. QED
      BY <3>1, <3>2, <3>3, <3>4, <3>5, <3>6 DEF IsSlotName
  <2>. QED
    BY <2>1 DEF Keeps
<1>14. Renewed(now, P, fresh)
  <2>1. DOMAIN to = 1 .. n
    BY <1>6
  <2>2. ASSUME NEW s \in P
        PROVE  \E i \in 1 .. n : s = <<"locals", d + 2, i>> /\ now[s] = to[i]
    BY <1>12
  <2>3. ASSUME NEW s \in P, IsRef(now[s])
        PROVE  now[s].cell \in fresh
    BY <2>1, <2>2, <2>3 DEF fresh, Referred
  <2>4. ASSUME NEW s \in P, NEW t \in P, IsRef(now[s]), now[s] = now[t]
        PROVE  s = t
    <3>1. PICK i \in 1 .. n : s = <<"locals", d + 2, i>> /\ now[s] = to[i]
      BY <2>2
    <3>2. PICK j \in 1 .. n : t = <<"locals", d + 2, j>> /\ now[t] = to[j]
      BY <2>2
    <3>3. i = j
      BY <1>4, <2>1, <2>4, <3>1, <3>2 DEF Apart
    <3>. QED
      BY <3>1, <3>2, <3>3
  <2>. HIDE DEF P
  <2>. QED
    BY <2>3, <2>4 DEF Renewed
<1>15. Good(new, host, <<>>, to, ca)
  <2>. HIDE DEF P
  <2>. QED
    BY <1>4, <1>9, <1>13, <1>14, FreshGood DEF now, old
<1>16. /\ Inv' /\ Value(heap', host') = Value(new, host)
       /\ Values(heap', stack') = Values(new, <<>>) /\ Values(heap', locals') = Values(new, to)
       /\ FramesValues(heap', callers') = FramesValues(new, ca)
  BY <1>5, <1>15, BecomesSays
<1>17. /\ Value(new, host) = Value(heap, host) /\ Values(new, locals) = Values(heap, locals)
       /\ FramesValues(new, callers) = FramesValues(heap, callers)
       /\ Values(new, Keep(n)) = Slots!Keep(n)
  BY <1>4, SlotsMean
<1>18. Values(new, <<>>) = <<>>
  BY DEF Values
<1>19. Values(heap', locals') = Slots!Taken(n)
  BY <1>3, <1>4, <1>16
<1>20. FramesValues(heap', callers')
         = Append(FramesValues(heap, callers), [stack |-> Slots!Keep(n), locals |-> Values(heap, locals)])
  BY <1>8, <1>16, <1>17
<1>21. n \in 0 .. Len(Values(heap, stack))
  BY InvSays, ValuesSeq
<1>. HIDE DEF Slots!Taken, Slots!Keep
<1>. QED
  BY <1>16, <1>17, <1>18, <1>19, <1>20, <1>21 DEF Slots!CallFunction, FramesValues

\* The frame of the last caller is taken off.
LEMMA FramePopped ==
  ASSUME NEW hp, NEW ca \in FramesOf(hp), ca # <<>>
  PROVE  /\ Len(ca) \in 1 .. Len(ca) /\ Last(ca) = ca[Len(ca)]
         /\ Last(ca).stack \in Seq(HandlesOf(hp)) /\ Last(ca).locals \in Seq(HandlesOf(hp))
         /\ Front(ca) \in FramesOf(hp) /\ Len(Front(ca)) = Len(ca) - 1
         /\ \A f \in 1 .. Len(ca) - 1 : Front(ca)[f] = ca[f]
         /\ FramesValues(hp, ca) # <<>>
         /\ FramesValues(hp, Front(ca)) = Slots!Front(FramesValues(hp, ca))
         /\ Slots!Last(FramesValues(hp, ca)).stack = Values(hp, Last(ca).stack)
         /\ Slots!Last(FramesValues(hp, ca)).locals = Values(hp, Last(ca).locals)
<1>. DEFINE F == [stack : Seq(HandlesOf(hp)), locals : Seq(HandlesOf(hp))]
            v(f) == [stack |-> Values(hp, f.stack), locals |-> Values(hp, f.locals)]
            V == {v(ca[f]) : f \in 1 .. Len(ca)}
            fr == Front(ca)
            vals == FramesValues(hp, ca)
<1>1. ca \in Seq(F)
  BY DEF FramesOf
<1>. HIDE DEF F
<1>2. Len(ca) \in 1 .. Len(ca) /\ Len(ca) - 1 \in Nat /\ Last(ca) = ca[Len(ca)] /\ DOMAIN ca = 1 .. Len(ca)
  BY <1>1 DEF Last
<1>3. Last(ca).stack \in Seq(HandlesOf(hp)) /\ Last(ca).locals \in Seq(HandlesOf(hp))
  BY <1>2, CallersAre
<1>4. fr \in Seq(F) /\ Len(fr) = Len(ca) - 1 /\ \A f \in 1 .. Len(ca) - 1 : fr[f] = ca[f]
  BY <1>1, <1>2 DEF Front
<1>. HIDE DEF fr
<1>5. /\ vals = [f \in 1 .. Len(ca) |-> v(ca[f])]
      /\ FramesValues(hp, fr) = [f \in 1 .. Len(ca) - 1 |-> v(fr[f])]
  BY <1>1, <1>2, <1>4 DEF FramesValues
<1>. HIDE DEF v
<1>6. \A f \in 1 .. Len(ca) : v(ca[f]) \in V
  OBVIOUS
<1>. HIDE DEF V, vals
<1>7. vals \in Seq(V) /\ Len(vals) = Len(ca) /\ vals # <<>> /\ \A f \in 1 .. Len(ca) : vals[f] = v(ca[f])
  BY <1>2, <1>5, <1>6
<1>8. Slots!Last(vals) = v(Last(ca))
  BY <1>2, <1>7 DEF Slots!Last
<1>9. FramesValues(hp, fr) = Slots!Front(vals)
  <2>. DEFINE s == FramesValues(hp, fr)
              t == Slots!Front(vals)
  <2>1. s \in Seq(V) /\ Len(s) = Len(ca) - 1 /\ \A f \in 1 .. Len(ca) - 1 : s[f] = v(ca[f])
    BY <1>2, <1>4, <1>5, <1>6
  <2>2. t \in Seq(V) /\ Len(t) = Len(ca) - 1 /\ \A f \in 1 .. Len(ca) - 1 : t[f] = vals[f]
    BY <1>2, <1>7 DEF Slots!Front
  <2>. HIDE DEF s, t
  <2>3. s = t
    BY <1>2, <1>7, <2>1, <2>2, SameSequence
  <2>. QED
    BY <2>3 DEF s, t
<1>10. fr \in FramesOf(hp)
  BY <1>4 DEF FramesOf, F
<1>11. Slots!Last(vals).stack = Values(hp, Last(ca).stack) /\ Slots!Last(vals).locals = Values(hp, Last(ca).locals)
  BY <1>8 DEF v
<1>. QED
  BY <1>2, <1>3, <1>4, <1>7, <1>9, <1>10, <1>11 DEF fr, vals

\* ReturnToCaller: the callee's slots go, a clone of its result is pushed for the caller.
LEMMA StepReturnToCaller ==
  ASSUME Inv, ReturnToCaller
  PROVE  Inv' /\ Slots!ReturnToCaller
<1>. DEFINE below == Last(callers).stack
            lo == Last(callers).locals
            ca == Front(callers)
            d  == Len(callers)
            p  == <<"stack", d, Len(below) + 1>>
<1>1. PICK copy \in cloneValue(1, heap, Result) : Becomes(copy.heap, host, Append(below, copy.to), lo, ca)
  BY DEF ReturnToCaller
<1>. DEFINE new == copy.heap
            to  == copy.to
            st  == Append(below, to)
            fresh == Referred(<<to>>)
            now == Slot(host, st, lo, ca)
            old == Slot(host, stack, locals, callers)
<1>2. /\ Grown(heap, old, new, fresh) /\ SameMeaning(heap, new)
      /\ HandleIn(new, to) /\ (IsRef(to) => to.cell \in fresh)
      /\ Value(new, to) = Value(heap, Result)
  BY ResultIs, CloneGrows
<1>3. Becomes(new, host, st, lo, ca)
  BY <1>1
<1>. HIDE DEF new, to, fresh, old
<1>4. callers # <<>> /\ callers \in FramesOf(heap) /\ callers \in FramesOf(new)
  BY <1>2, InvSays, StillTyped DEF Grown, ReturnToCaller
<1>5. /\ d \in 1 .. d /\ below = callers[d].stack /\ lo = callers[d].locals
      /\ below \in Seq(HandlesOf(new)) /\ lo \in Seq(HandlesOf(new))
      /\ ca \in FramesOf(new) /\ Len(ca) = d - 1
      /\ \A f \in 1 .. d - 1 : ca[f] = callers[f]
      /\ FramesValues(new, callers) # <<>>
      /\ FramesValues(new, ca) = Slots!Front(FramesValues(new, callers))
      /\ Slots!Last(FramesValues(new, callers)).stack = Values(new, below)
      /\ Slots!Last(FramesValues(new, callers)).locals = Values(new, lo)
  BY <1>4, FramePopped
<1>. HIDE DEF below, lo, ca
<1>6. host \in HandlesOf(new) /\ to \in HandlesOf(new)
  BY <1>2, InvSays, StillTyped, HandlesAre DEF Grown
<1>7. /\ st \in Seq(HandlesOf(new)) /\ Len(st) = Len(below) + 1 /\ Len(below) \in Nat
      /\ st[Len(below) + 1] = to /\ \A i \in 1 .. Len(below) : st[i] = below[i]
  BY <1>5, <1>6
<1>8. Values(new, st) = Append(Values(new, below), Value(new, to))
  BY <1>5, <1>6, ValuesAppend
<1>. HIDE DEF st
<1>9. SlotsTyped(new, host, st, lo, ca)
  BY <1>5, <1>6, <1>7 DEF SlotsTyped
<1>10. SlotsTyped(heap, host, stack, locals, callers)
  BY InvSays
<1>. HIDE DEF now
<1>11. Len(ca) + 1 = d /\ d - 1 \in Nat
  BY <1>5
<1>12. Keeps(old, now, {p})
  <2>1. ASSUME NEW s \in DOMAIN now, s # p
        PROVE  s \in DOMAIN old /\ now[s] = old[s]
    <3>1. IsSlotName(s, st, lo, ca)
      BY <1>9, SlotIsOneOf DEF now
    <3>2. CASE s = <<"host", 0, 0>>
      BY <1>9, <1>10, <3>2, SlotIsHost DEF now, old
    <3>3. ASSUME NEW i \in 1 .. Len(st), s = <<"stack", Len(ca) + 1, i>>
          PROVE  s \in DOMAIN old /\ now[s] = old[s]
      <4>1. now[s] = st[i]
        BY <1>9, <3>3, SlotOnStack DEF now
      <4>2. i \in 1 .. Len(below) \/ i = Len(below) + 1
        BY <1>7
      <4>3. i \in 1 .. Len(callers[d].stack) /\ s = <<"stack", d, i>> /\ st[i] = callers[d].stack[i]
        BY <1>5, <1>7, <1>11, <2>1, <3>3, <4>2
      <4>4. s \in DOMAIN old /\ old[s] = callers[d].stack[i]
        BY <1>5, <1>10, <4>3, SlotOnCallersStack DEF old
      <4>. QED
        BY <4>1, <4>3, <4>4
    <3>4. ASSUME NEW i \in 1 .. Len(lo), s = <<"locals", Len(ca) + 1, i>>
          PROVE  s \in DOMAIN old /\ now[s] = old[s]
      <4>1. now[s] = lo[i]
        BY <1>9, <3>4, SlotInLocals DEF now
      <4>2. i \in 1 .. Len(callers[d].locals) /\ s = <<"locals", d, i>> /\ lo[i] = callers[d].locals[i]
        BY <1>5, <1>11, <3>4
      <4>3. s \in DOMAIN old /\ old[s] = callers[d].locals[i]
        BY <1>5, <1>10, <4>2, SlotInCallersLocals DEF old
      <4>. QED
        BY <4>1, <4>2, <4>3
    <3>5. ASSUME NEW f \in 1 .. Len(ca), NEW i \in 1 .. Len(ca[f].stack), s = <<"stack", f, i>>
          PROVE  s \in DOMAIN old /\ now[s] = old[s]
      <4>1. now[s] = ca[f].stack[i]
        BY <1>9, <3>5, SlotOnCallersStack DEF now
      <4>2. f \in 1 .. d /\ ca[f] = callers[f]
        BY <1>5, <1>11
      <4>3. s \in DOMAIN old /\ old[s] = callers[f].stack[i]
        BY <1>10, <3>5, <4>2, SlotOnCallersStack DEF old
      <4>. QED
        BY <4>1, <4>2, <4>3
    <3>6. ASSUME NEW f \in 1 .. Len(ca), NEW i \in 1 .. Len(ca[f].locals), s = <<"locals", f, i>>
          PROVE  s \in DOMAIN old /\ now[s] = old[s]
      <4>1. now[s] = ca[f].locals[i]
        BY <1>9, <3>6, SlotInCallersLocals DEF now
      <4>2. f \in 1 .. d /\ ca[f] = callers[f]
        BY <1>5, <1>11
      <4>3. s \in DOMAIN old /\ old[s] = callers[f].locals[i]
        BY <1>10, <3>6, <4>2, SlotInCallersLocals DEF old
      <4>. QED
        BY <4>1, <4>2, <4>3
    <3>. QED
      BY <3>1, <3>2, <3>3, <3>4, <3>5, <3>6 DEF IsSlotName
  <2>. QED
    BY <2>1 DEF Keeps
<1>13. Renewed(now, {p}, fresh)
  <2>1. Len(below) + 1 \in 1 .. Len(st)
    BY <1>7
  <2>2. now[p] = to
    BY <1>7, <1>9, <1>11, <2>1, SlotOnStack DEF now
  <2>. QED
    BY <1>2, <2>2, OneRenewed
<1>14. Good(new, host, st, lo, ca)
  <2>. HIDE DEF p
  <2>. QED
    BY <1>2, <1>9, <1>12, <1>13, FreshGood DEF now, old
<1>15. /\ Inv' /\ Value(heap', host') = Value(new, host)
       /\ Values(heap', stack') = Values(new, st) /\ Values(heap', locals') = Values(new, lo)
       /\ FramesValues(heap', callers') = FramesValues(new, ca)
  BY <1>3, <1>14, BecomesSays
<1>16. Value(new, host) = Value(heap, host) /\ FramesValues(new, callers) = FramesValues(heap, callers)
  BY <1>2, SlotsMean
<1>17. Value(new, to) = Slots!Result
  BY <1>2, ResultIs
<1>. DEFINE vals == FramesValues(heap, callers)
<1>18. /\ vals # <<>> /\ Value(heap', host') = Value(heap, host)
       /\ Values(heap', stack') = Append(Slots!Last(vals).stack, Slots!Result)
       /\ Values(heap', locals') = Slots!Last(vals).locals
       /\ FramesValues(heap', callers') = Slots!Front(vals)
  BY <1>5, <1>8, <1>15, <1>16, <1>17
<1>. QED
  BY <1>15, <1>18 DEF Slots!ReturnToCaller, FramesValues
-----------------------------------------------------------------------------
(* The way from a root to the cell a path store changes.                   *)

\* c[0], ..., c[m - 1]: each the part k[i] of the one before.
Chain(hp, c, k, m) ==
  /\ m \in Nat \ {0}
  /\ \A i \in 0 .. m - 1 : c[i] \in DOMAIN hp
  /\ \A i \in 0 .. m - 2 : k[i] \in RefsIn(hp, c[i]) /\ Target(hp, c[i], k[i]) = c[i + 1]

OnChain(c, m) == {c[i] : i \in 0 .. m - 1}

\* It leads down.
LEMMA ChainDown ==
  ASSUME NEW hp, NEW c, NEW k, NEW m, Chain(hp, c, k, m), NEW rank, NEW n, Ranks(hp, rank, n)
  PROVE  \A i, j \in 0 .. m - 1 : i < j => rank[c[j]] < rank[c[i]]
<1>. DEFINE S == {d \in Nat : \A i \in 0 .. m - 1 : i + d + 1 <= m - 1 => rank[c[i + d + 1]] < rank[c[i]]}
<1>0. m \in Nat \ {0}
  BY DEF Chain
<1>1. ASSUME NEW i \in 0 .. m - 2
      PROVE  rank[c[i + 1]] < rank[c[i]]
  <2>1. i \in 0 .. m - 1 /\ c[i] \in DOMAIN hp /\ k[i] \in RefsIn(hp, c[i]) /\ Target(hp, c[i], k[i]) = c[i + 1]
    BY <1>0 DEF Chain
  <2>. QED
    BY <2>1 DEF Ranks
<1>2. \A i \in 0 .. m - 1 : rank[c[i]] \in Int
  BY DEF Chain, Ranks
<1>3. 0 \in S
  <2>1. ASSUME NEW i \in 0 .. m - 1, i + 0 + 1 <= m - 1
        PROVE  rank[c[i + 0 + 1]] < rank[c[i]]
    <3>1. i \in 0 .. m - 2 /\ i + 0 + 1 = i + 1
      BY <1>0, <2>1
    <3>. QED
      BY <1>1, <3>1
  <2>. QED
    BY <2>1
<1>4. ASSUME NEW d \in Nat, d \in S
      PROVE  d + 1 \in S
  <2>1. ASSUME NEW i \in 0 .. m - 1, i + (d + 1) + 1 <= m - 1
        PROVE  rank[c[i + (d + 1) + 1]] < rank[c[i]]
    <3>. DEFINE j == i + d + 1
    <3>1. j \in 0 .. m - 2 /\ j + 1 \in 0 .. m - 1 /\ j \in 0 .. m - 1 /\ i + (d + 1) + 1 = j + 1 /\ i + d + 1 <= m - 1
      BY <1>0, <2>1
    <3>2. rank[c[j]] < rank[c[i]]
      BY <1>4, <3>1
    <3>. HIDE DEF j
    <3>3. rank[c[j + 1]] < rank[c[j]]
      BY <1>1, <3>1
    <3>. QED
      BY <1>2, <3>1, <3>2, <3>3
  <2>. QED
    BY <2>1
<1>5. Nat \subseteq S
  <2>. HIDE DEF S
  <2>. QED
    BY <1>3, <1>4, Induction
<1>6. ASSUME NEW i \in 0 .. m - 1, NEW j \in 0 .. m - 1, i < j
      PROVE  rank[c[j]] < rank[c[i]]
  <2>1. j - i - 1 \in Nat /\ i + (j - i - 1) + 1 = j /\ j <= m - 1
    BY <1>0, <1>6
  <2>2. j - i - 1 \in S
    BY <1>5, <2>1
  <2>3. i + (j - i - 1) + 1 <= m - 1 => rank[c[i + (j - i - 1) + 1]] < rank[c[i]]
    BY <2>2
  <2>. QED
    BY <2>1, <2>3
<1>. QED
  BY <1>6

\* So it does not come by a cell twice.
LEMMA ChainApart ==
  ASSUME NEW hp, NEW c, NEW k, NEW m, Chain(hp, c, k, m), Ranked(hp)
  PROVE  \A i, j \in 0 .. m - 1 : c[i] = c[j] => i = j
<1>1. PICK n \in Nat : \E rank : Ranks(hp, rank, n)
  BY DEF Ranked
<1>2. PICK rank : Ranks(hp, rank, n)
  BY <1>1
<1>3. \A i, j \in 0 .. m - 1 : i < j => rank[c[j]] < rank[c[i]]
  BY <1>2, ChainDown
<1>4. m \in Nat /\ \A i \in 0 .. m - 1 : rank[c[i]] \in Int
  BY <1>2 DEF Chain, Ranks
<1>5. ASSUME NEW i \in 0 .. m - 1, NEW j \in 0 .. m - 1, c[i] = c[j]
      PROVE  i = j
  <2>1. ~(i < j) /\ ~(j < i)
    BY <1>3, <1>4, <1>5
  <2>. QED
    BY <1>4, <2>1
<1>. QED
  BY <1>5

\* From a root down, nothing else owns its cells.
LEMMA ChainOwned ==
  ASSUME NEW hp, NEW c, NEW k, NEW m, Chain(hp, c, k, m), NEW roots, Forest(hp, roots), c[0] \in roots,
         NEW d \in DOMAIN hp, NEW x \in RefsIn(hp, d), NEW i \in 0 .. m - 1, Target(hp, d, x) = c[i]
  PROVE  i - 1 \in 0 .. m - 2 /\ d = c[i - 1] /\ x = k[i - 1]
<1>1. PartsApart(hp) /\ Outermost(hp, roots) /\ m \in Nat \ {0}
  BY DEF Forest, Chain
<1>2. i # 0
  BY <1>1 DEF Outermost
<1>3. i - 1 \in 0 .. m - 2 /\ i - 1 \in 0 .. m - 1 /\ i - 1 + 1 = i
  BY <1>1, <1>2
<1>4. c[i - 1] \in DOMAIN hp /\ k[i - 1] \in RefsIn(hp, c[i - 1]) /\ Target(hp, c[i - 1], k[i - 1]) = c[i]
  BY <1>3 DEF Chain
<1>. QED
  BY <1>1, <1>3, <1>4 DEF PartsApart

\* The chain in a heap that has more cells.
LEMMA ChainExtended ==
  ASSUME NEW hp, NEW c, NEW k, NEW m, Chain(hp, c, k, m), NEW new, Extends(new, hp)
  PROVE  Chain(new, c, k, m)
<1>1. m \in Nat \ {0} /\ \A i \in 0 .. m - 2 : i \in 0 .. m - 1
  BY DEF Chain
<1>2. \A i \in 0 .. m - 1 : c[i] \in DOMAIN hp /\ c[i] \in DOMAIN new /\ new[c[i]] = hp[c[i]]
  BY DEF Chain, Extends
<1>3. ASSUME NEW i \in 0 .. m - 2
      PROVE  k[i] \in RefsIn(new, c[i]) /\ Target(new, c[i], k[i]) = c[i + 1]
  <2>1. k[i] \in RefsIn(hp, c[i]) /\ Target(hp, c[i], k[i]) = c[i + 1]
    BY DEF Chain
  <2>. QED
    BY <1>1, <1>2, <2>1, SameCell
<1>. QED
  BY <1>1, <1>2, <1>3 DEF Chain

\* A part replaced, or entered in a map.
LEMMA PartsEntered ==
  ASSUME NEW a, NEW f, IsAggregate(a), IsFunction(f), IsArray(a) => DOMAIN f = DOMAIN Parts(a)
  PROVE  IsAggregate(WithParts(a, f)) /\ Parts(WithParts(a, f)) = f
<1>1. CASE IsArray(a)
  BY <1>1, PartsReplaced
<1>2. ASSUME NEW g, a = MapV(g)
      PROVE  IsAggregate(WithParts(a, f)) /\ Parts(WithParts(a, f)) = f
  <2>1. /\ WithParts(a, f) = MapV(f) /\ IsMap(MapV(f)) /\ ~IsArray(MapV(f)) /\ ~IsStruct(MapV(f))
        /\ MapV(f).map = f
    BY <1>2 DEF WithParts, MapV, IsArray, IsMap, IsStruct
  <2>2. Parts(MapV(f)) = f
    BY <2>1 DEF Parts
  <2>. QED
    BY <2>1, <2>2 DEF IsAggregate
<1>3. ASSUME NEW t, NEW g, a = StructV(t, g)
      PROVE  IsAggregate(WithParts(a, f)) /\ Parts(WithParts(a, f)) = f
  <2>1. /\ ~IsArray(a) /\ ~IsMap(a) /\ IsStruct(a) /\ a.struct.type = t
        /\ ~IsArray(StructV(t, f)) /\ ~IsMap(StructV(t, f)) /\ IsStruct(StructV(t, f))
        /\ StructV(t, f).struct.fields = f
    BY <1>3 DEF StructV, IsArray, IsMap, IsStruct
  <2>2. WithParts(a, f) = StructV(t, f)
    BY <2>1 DEF WithParts
  <2>3. Parts(StructV(t, f)) = f
    BY <2>1 DEF Parts
  <2>. QED
    BY <2>2, <2>3 DEF IsAggregate
<1>4. IsArray(a) \/ (\E g : a = MapV(g)) \/ (\E t, g : a = StructV(t, g))
  BY DEF IsAggregate, IsArray, ArrayV
<1>. QED
  BY <1>1, <1>2, <1>3, <1>4

\* The heap in which the part j of the cell at is h.
Stored(hp, at, j, h) == [hp EXCEPT ![at] = WithParts(@, WithEntry(Parts(@), j, h))]

\* The last cell of a chain from a root may get a fresh root for a part.
CanStore(hp, roots, fresh, c, k, m, j, h) ==
  /\ Forest(hp, roots \cup fresh) /\ roots \cap fresh = {}
  /\ Chain(hp, c, k, m) /\ c[0] \in roots /\ OnChain(c, m) \cap fresh = {}
  /\ HandleIn(hp, h) /\ (IsRef(h) => h.cell \in fresh)
  /\ IsArray(hp[c[m - 1]]) => j \in DOMAIN Parts(hp[c[m - 1]])

\* The heap then: the one cell has the part, the others are as they were.
LEMMA StoredSays ==
  ASSUME NEW hp, NEW roots, NEW fresh, NEW c, NEW k, NEW m, NEW j, NEW h,
         CanStore(hp, roots, fresh, c, k, m, j, h), NEW new, new = Stored(hp, c[m - 1], j, h)
  PROVE  /\ c[m - 1] \in DOMAIN hp /\ m - 1 \in 0 .. m - 1
         /\ DOMAIN new = DOMAIN hp
         /\ \A d \in DOMAIN hp : d # c[m - 1] => new[d] = hp[d]
         /\ new[c[m - 1]] = WithParts(hp[c[m - 1]], WithEntry(Parts(hp[c[m - 1]]), j, h))
         /\ IsAggregate(new[c[m - 1]])
         /\ Parts(new[c[m - 1]]) = WithEntry(Parts(hp[c[m - 1]]), j, h)
<1>. DEFINE at == c[m - 1]
            f  == WithEntry(Parts(hp[at]), j, h)
<1>1. m - 1 \in 0 .. m - 1 /\ at \in DOMAIN hp
  BY DEF CanStore, Chain
<1>2. IsAggregate(hp[at])
  BY <1>1 DEF CanStore, Forest, Sound
<1>3. IsFunction(f) /\ DOMAIN f = DOMAIN Parts(hp[at]) \cup {j}
  BY DEF WithEntry, IsFunction
<1>4. IsArray(hp[at]) => DOMAIN f = DOMAIN Parts(hp[at])
  BY <1>3 DEF CanStore
<1>5. /\ DOMAIN new = DOMAIN hp /\ new[at] = WithParts(hp[at], f)
      /\ \A d \in DOMAIN hp : d # at => new[d] = hp[d]
  BY <1>1 DEF Stored
<1>. HIDE DEF f, at
<1>6. IsAggregate(WithParts(hp[at], f)) /\ Parts(WithParts(hp[at], f)) = f
  BY <1>2, <1>3, <1>4, PartsEntered
<1>. QED
  BY <1>1, <1>5, <1>6 DEF f, at

\* What the parts of the cells are then.
StoredParts(new, hp, at, j, h) ==
  /\ \A d \in DOMAIN hp \ {at} : /\ RefsIn(new, d) = RefsIn(hp, d)
                                 /\ \A x \in RefsIn(hp, d) : Target(new, d, x) = Target(hp, d, x)
  /\ \A x \in RefsIn(new, at) : \/ x = j /\ IsRef(h) /\ Target(new, at, x) = h.cell
                                \/ x # j /\ x \in RefsIn(hp, at) /\ Target(new, at, x) = Target(hp, at, x)

\* The references then: j leads to the new part, the others lead where they led.
LEMMA StoredParted ==
  ASSUME NEW hp, NEW roots, NEW fresh, NEW c, NEW k, NEW m, NEW j, NEW h,
         CanStore(hp, roots, fresh, c, k, m, j, h), NEW new, new = Stored(hp, c[m - 1], j, h)
  PROVE  StoredParts(new, hp, c[m - 1], j, h)
<1>. DEFINE at == c[m - 1]
<1>1. /\ \A d \in DOMAIN hp : d # at => new[d] = hp[d]
      /\ Parts(new[at]) = WithEntry(Parts(hp[at]), j, h)
  BY StoredSays
<1>. HIDE DEF at
<1>2. \A d \in DOMAIN hp \ {at} : /\ RefsIn(new, d) = RefsIn(hp, d)
                                  /\ \A x \in RefsIn(hp, d) : Target(new, d, x) = Target(hp, d, x)
  BY <1>1, SameCell
<1>3. ASSUME NEW x \in RefsIn(new, at)
      PROVE  \/ x = j /\ IsRef(h) /\ Target(new, at, x) = h.cell
             \/ x # j /\ x \in RefsIn(hp, at) /\ Target(new, at, x) = Target(hp, at, x)
  <2>1. x \in DOMAIN Parts(new[at]) /\ IsRef(Parts(new[at])[x]) /\ Target(new, at, x) = Parts(new[at])[x].cell
    BY DEF RefsIn, Target
  <2>2. x \in DOMAIN Parts(hp[at]) \cup {j} /\ Parts(new[at])[x] = IF x = j THEN h ELSE Parts(hp[at])[x]
    BY <1>1, <2>1 DEF WithEntry
  <2>. QED
    BY <2>1, <2>2 DEF RefsIn, Target
<1>. QED
  BY <1>2, <1>3 DEF StoredParts, at

\* It is a forest again: what was the part there is a root, or nobody's.
LEMMA StoredForest ==
  ASSUME NEW hp, NEW roots, NEW fresh, NEW c, NEW k, NEW m, NEW j, NEW h,
         CanStore(hp, roots, fresh, c, k, m, j, h), NEW new, new = Stored(hp, c[m - 1], j, h)
  PROVE  Forest(new, roots)
<1>. DEFINE at == c[m - 1]
            on == OnChain(c, m)
<1>1. /\ Forest(hp, roots \cup fresh) /\ roots \cap fresh = {}
      /\ Chain(hp, c, k, m) /\ c[0] \in roots /\ on \cap fresh = {}
      /\ HandleIn(hp, h) /\ (IsRef(h) => h.cell \in fresh)
  BY DEF CanStore
<1>2. Sound(hp) /\ Ranked(hp) /\ PartsApart(hp) /\ Outermost(hp, roots \cup fresh)
  BY <1>1 DEF Forest
<1>3. at \in DOMAIN hp /\ m - 1 \in 0 .. m - 1 /\ DOMAIN new = DOMAIN hp /\ IsAggregate(new[at])
      /\ Parts(new[at]) = WithEntry(Parts(hp[at]), j, h)
      /\ \A d \in DOMAIN hp : d # at => new[d] = hp[d]
  BY StoredSays
<1>4. at \in on
  BY <1>3 DEF OnChain
<1>5. StoredParts(new, hp, at, j, h)
  BY StoredParted
<1>6. \A g : HandleIn(hp, g) <=> HandleIn(new, g)
  BY <1>3 DEF HandleIn
<1>7. ASSUME NEW d \in DOMAIN hp, NEW x \in RefsIn(hp, d), Target(hp, d, x) \in on
      PROVE  d \in on
  <2>1. PICK i \in 0 .. m - 1 : Target(hp, d, x) = c[i]
    BY <1>7 DEF OnChain
  <2>2. i - 1 \in 0 .. m - 2 /\ d = c[i - 1] /\ x = k[i - 1]
    <3>. DEFINE all == roots \cup fresh
    <3>1. Forest(hp, all) /\ c[0] \in all
      BY <1>1
    <3>. HIDE DEF all
    <3>. QED
      BY <1>1, <2>1, <3>1, ChainOwned
  <2>3. i - 1 \in 0 .. m - 1
    BY <1>1, <2>2 DEF Chain
  <2>. QED
    BY <2>2, <2>3 DEF OnChain
<1>. HIDE DEF at, on
<1>8. ASSUME NEW d \in DOMAIN hp, NEW x \in RefsIn(new, d)
      PROVE  \/ d = at /\ x = j /\ IsRef(h) /\ Target(new, d, x) = h.cell
             \/ /\ ~(d = at /\ x = j)
                /\ x \in RefsIn(hp, d) /\ Target(new, d, x) = Target(hp, d, x)
  <2>1. CASE d = at
    BY <1>5, <2>1 DEF StoredParts
  <2>2. CASE d # at
    BY <1>5, <2>2 DEF StoredParts
  <2>. QED
    BY <2>1, <2>2
<1>9. Sound(new)
  <2>1. ASSUME NEW d \in DOMAIN hp
        PROVE  IsAggregate(new[d]) /\ \A x \in DOMAIN Parts(new[d]) : HandleIn(new, Parts(new[d])[x])
    <3>1. CASE d # at
      BY <1>2, <1>3, <1>6, <3>1 DEF Sound
    <3>2. CASE d = at
      <4>1. ASSUME NEW x \in DOMAIN Parts(new[at])
            PROVE  HandleIn(new, Parts(new[at])[x])
        <5>1. x \in DOMAIN Parts(hp[at]) \cup {j} /\ Parts(new[at])[x] = IF x = j THEN h ELSE Parts(hp[at])[x]
          BY <1>3 DEF WithEntry
        <5>. QED
          BY <1>1, <1>2, <1>3, <1>6, <5>1 DEF Sound
      <4>. QED
        BY <1>3, <3>2, <4>1
    <3>. QED
      BY <3>1, <3>2
  <2>. QED
    BY <1>3, <2>1 DEF Sound
<1>10. IsRef(h) => h.cell \notin on /\ h.cell \notin roots
  BY <1>1
<1>11. Ranked(new)
  <2>1. PICK n \in Nat : \E rank : Ranks(hp, rank, n)
    BY <1>2 DEF Ranked
  <2>2. PICK rank : Ranks(hp, rank, n)
    BY <2>1
  <2>. DEFINE rank2 == [d \in DOMAIN new |-> IF d \in on THEN rank[d] + n + 1 ELSE rank[d]]
  <2>3. ASSUME NEW d \in DOMAIN hp
        PROVE  /\ rank[d] \in 0 .. n
               /\ d \in on => rank2[d] = rank[d] + n + 1
               /\ d \notin on => rank2[d] = rank[d]
    BY <1>3, <2>2 DEF Ranks
  <2>. HIDE DEF rank2
  <2>4. ASSUME NEW d \in DOMAIN hp
        PROVE  rank2[d] \in 0 .. n + n + 1
    BY <2>3
  <2>5. ASSUME NEW d \in DOMAIN hp, NEW x \in RefsIn(new, d)
        PROVE  rank2[Target(new, d, x)] < rank2[d]
    <3>1. CASE d = at /\ IsRef(h) /\ Target(new, d, x) = h.cell
      <4>1. h.cell \in DOMAIN hp /\ h.cell \notin on
        BY <1>1, <1>2, <1>10, <3>1 DEF Outermost
      <4>. QED
        BY <1>4, <2>3, <3>1, <4>1
    <3>2. CASE x \in RefsIn(hp, d) /\ Target(new, d, x) = Target(hp, d, x)
      <4>1. Target(hp, d, x) \in DOMAIN hp /\ rank[Target(hp, d, x)] < rank[d]
        BY <1>2, <2>2, <3>2, PartIsCell DEF Ranks
      <4>2. Target(hp, d, x) \in on => d \in on
        BY <1>7, <3>2
      <4>. QED
        BY <2>3, <3>2, <4>1, <4>2
    <3>. QED
      BY <1>8, <3>1, <3>2
  <2>6. Ranks(new, rank2, n + n + 1)
    BY <1>3, <2>4, <2>5 DEF Ranks
  <2>. QED
    BY <2>6 DEF Ranked
<1>12. PartsApart(new)
  <2>1. ASSUME NEW d \in DOMAIN hp, NEW x \in RefsIn(hp, d), IsRef(h)
        PROVE  Target(hp, d, x) # h.cell
    BY <1>1, <1>2, <2>1 DEF Outermost
  <2>2. ASSUME NEW d \in DOMAIN new, NEW e \in DOMAIN new, NEW x \in RefsIn(new, d), NEW y \in RefsIn(new, e),
               Target(new, d, x) = Target(new, e, y)
        PROVE  d = e /\ x = y
    <3>1. d \in DOMAIN hp /\ e \in DOMAIN hp
      BY <1>3
    <3>2. CASE d = at /\ x = j /\ IsRef(h) /\ Target(new, d, x) = h.cell
      BY <1>8, <2>1, <2>2, <3>1, <3>2
    <3>3. CASE e = at /\ y = j /\ IsRef(h) /\ Target(new, e, y) = h.cell
      BY <1>8, <2>1, <2>2, <3>1, <3>3
    <3>4. CASE /\ x \in RefsIn(hp, d) /\ Target(new, d, x) = Target(hp, d, x)
               /\ y \in RefsIn(hp, e) /\ Target(new, e, y) = Target(hp, e, y)
      <4>1. Target(hp, d, x) = Target(hp, e, y)
        BY <2>2, <3>4
      <4>. QED
        BY <1>2, <3>1, <3>4, <4>1 DEF PartsApart
    <3>. QED
      BY <1>8, <3>1, <3>2, <3>3, <3>4
  <2>. QED
    BY <2>2 DEF PartsApart
<1>13. Outermost(new, roots)
  <2>1. ASSUME NEW d \in DOMAIN hp, NEW x \in RefsIn(new, d)
        PROVE  Target(new, d, x) \notin roots
    BY <1>2, <1>8, <1>10 DEF Outermost
  <2>. QED
    BY <1>2, <1>3, <2>1 DEF Outermost
<1>. QED
  BY <1>9, <1>11, <1>12, <1>13 DEF Forest

\* The last part of a path can be replaced in a cell where it can in its value.
LEMMA ArrayPart ==
  ASSUME NEW a, NEW key, IsAggregate(a), IsArray(a), StepError(a, key, TRUE) = "ok"
  PROVE  PartOf(a, key) \in DOMAIN Parts(a)
<1>1. StepError(a, key, FALSE) = "ok"
  <2>1. ~IsMap(a)
    BY DEF IsArray, IsMap
  <2>. QED
    BY <2>1 DEF StepError
<1>. QED
  BY <1>1, ChildIsPart

\* Parts replaced twice.
LEMMA PartsTwice ==
  ASSUME NEW a, NEW f, NEW g, IsAggregate(a)
  PROVE  WithParts(WithParts(a, f), g) = WithParts(a, g)
<1>. DEFINE b == WithParts(a, f)
<1>1. \/ IsArray(a) /\ ~IsMap(a) /\ ~IsStruct(a)
      \/ IsMap(a) /\ ~IsArray(a) /\ ~IsStruct(a)
      \/ IsStruct(a) /\ ~IsMap(a) /\ ~IsArray(a)
  BY DEF IsAggregate, IsArray, IsMap, IsStruct, ArrayV, MapV, StructV
<1>2. CASE IsArray(a) /\ ~IsMap(a) /\ ~IsStruct(a)
  <2>1. b = ArrayV(f) /\ WithParts(a, g) = ArrayV(g)
    BY <1>2 DEF WithParts
  <2>2. IsArray(ArrayV(f)) /\ ~IsMap(ArrayV(f)) /\ ~IsStruct(ArrayV(f))
    BY DEF IsArray, IsMap, IsStruct, ArrayV
  <2>. HIDE DEF b
  <2>3. WithParts(b, g) = ArrayV(g)
    BY <2>1, <2>2 DEF WithParts
  <2>. QED
    BY <2>1, <2>3 DEF b
<1>3. CASE IsMap(a) /\ ~IsArray(a) /\ ~IsStruct(a)
  <2>1. b = MapV(f) /\ WithParts(a, g) = MapV(g)
    BY <1>3 DEF WithParts
  <2>2. ~IsArray(MapV(f)) /\ IsMap(MapV(f)) /\ ~IsStruct(MapV(f))
    BY DEF IsArray, IsMap, IsStruct, MapV
  <2>. HIDE DEF b
  <2>3. WithParts(b, g) = MapV(g)
    BY <2>1, <2>2 DEF WithParts
  <2>. QED
    BY <2>1, <2>3 DEF b
<1>4. CASE IsStruct(a) /\ ~IsMap(a) /\ ~IsArray(a)
  <2>. DEFINE t == a.struct.type
  <2>1. b = StructV(t, f) /\ WithParts(a, g) = StructV(t, g)
    BY <1>4 DEF WithParts
  <2>2. /\ ~IsArray(StructV(t, f)) /\ ~IsMap(StructV(t, f)) /\ IsStruct(StructV(t, f))
        /\ StructV(t, f).struct.type = t
    BY DEF IsArray, IsMap, IsStruct, StructV
  <2>. HIDE DEF b, t
  <2>3. WithParts(b, g) = StructV(t, g)
    BY <2>1, <2>2 DEF WithParts
  <2>. QED
    BY <2>1, <2>3 DEF b
<1>. QED
  BY <1>1, <1>2, <1>3, <1>4

\* The cell c of new is that of hp, but for the part key leads to.
Differs(new, hp, c, key, f) ==
  /\ StepError(hp[c], key, TRUE) = "ok"
  /\ IsFunction(f) /\ DOMAIN f = DOMAIN Parts(hp[c]) \cup {PartOf(hp[c], key)}
  /\ new[c] = WithParts(hp[c], f) /\ Parts(new[c]) = f
  /\ \A x \in DOMAIN Parts(hp[c]) : x # PartOf(hp[c], key) => Value(new, f[x]) = Value(hp, Parts(hp[c])[x])

\* It has the value in which that part is replaced.
LEMMA CellStored ==
  ASSUME NEW hp, Sound(hp), Ranked(hp), NEW new, Sound(new), Ranked(new),
         NEW c \in DOMAIN hp, c \in DOMAIN new, NEW key, NEW f, Differs(new, hp, c, key, f)
  PROVE  ValueAt(new)[c] = ReplaceChild(ValueAt(hp)[c], key, Value(new, f[PartOf(hp[c], key)]))
<1>. DEFINE a == hp[c]
            j == PartOf(a, key)
            w == ValueAt(hp)[c]
            v == Value(new, f[j])
            g == WithEntry(Parts(w), j, v)
<1>0. /\ StepError(hp[c], key, TRUE) = "ok"
      /\ IsFunction(f) /\ DOMAIN f = DOMAIN Parts(hp[c]) \cup {PartOf(hp[c], key)}
      /\ new[c] = WithParts(hp[c], f) /\ Parts(new[c]) = f
      /\ \A x \in DOMAIN Parts(hp[c]) : x # PartOf(hp[c], key) => Value(new, f[x]) = Value(hp, Parts(hp[c])[x])
  BY DEF Differs
<1>. USE <1>0
<1>1. IsAggregate(a) /\ IsAggregate(new[c])
  BY DEF Sound
<1>2. IsValueOf(hp, a, w) /\ IsValueOf(new, new[c], ValueAt(new)[c])
  BY CellValue
<1>. HIDE DEF w
<1>3. /\ IsAggregate(w) /\ SameKind(a, w) /\ DOMAIN Parts(w) = DOMAIN Parts(a)
      /\ \A x \in DOMAIN Parts(a) : Parts(w)[x] = Value(hp, Parts(a)[x])
      /\ \A y : WithParts(w, y) = WithParts(a, y)
      /\ IsArray(a) => Len(w.array) = Len(a.array)
  BY <1>2 DEF IsValueOf
<1>4. StepError(w, key, TRUE) = "ok" /\ PartOf(w, key) = j
  <2>1. StepError(a, key, TRUE) = "ok" /\ j = PartOf(a, key)
    OBVIOUS
  <2>. HIDE DEF a, j
  <2>2. \A l : StepError(a, key, l) = StepError(w, key, l) /\ PartOf(a, key) = PartOf(w, key)
    BY <1>1, <1>3, SameStep
  <2>. QED
    BY <2>1, <2>2
<1>. HIDE DEF v
<1>5. ReplaceChild(w, key, v) = WithParts(a, g)
  <2>1. ReplaceChild(w, key, v) = WithParts(w, WithEntry(Parts(w), PartOf(w, key), v))
    BY <1>3, <1>4, ChildIsPart
  <2>. QED
    BY <1>3, <1>4, <2>1
<1>6. ValueAt(new)[c] = WithParts(new[c], Values(new, f))
  BY <1>2 DEF IsValueOf
<1>7. Values(new, f) = g
  <2>1. ASSUME NEW x \in DOMAIN f
        PROVE  Value(new, f[x]) = IF x = j THEN v ELSE Parts(w)[x]
    BY <1>3 DEF v
  <2>2. DOMAIN f = DOMAIN Parts(w) \cup {j}
    BY <1>3
  <2>. HIDE DEF j
  <2>. QED
    BY <2>1, <2>2 DEF Values, WithEntry
<1>8. WithParts(new[c], g) = WithParts(a, g)
  <2>. HIDE DEF g, a
  <2>. QED
    BY <1>1, PartsTwice DEF a
<1>. QED
  BY <1>5, <1>6, <1>7, <1>8 DEF w, v

\* The cells that are not on the chain keep their values.
LEMMA StoredOff ==
  ASSUME NEW hp, NEW roots, NEW fresh, NEW c, NEW k, NEW m, NEW j, NEW h,
         CanStore(hp, roots, fresh, c, k, m, j, h), NEW new, new = Stored(hp, c[m - 1], j, h)
  PROVE  \A d \in DOMAIN hp : d \notin OnChain(c, m) => ValueAt(new)[d] = ValueAt(hp)[d]
<1>. DEFINE all == roots \cup fresh
            S == DOMAIN hp \ OnChain(c, m)
<1>1. Forest(hp, all) /\ Chain(hp, c, k, m) /\ c[0] \in all
  BY DEF CanStore
<1>. HIDE DEF all
<1>2. Sound(hp) /\ Ranked(hp) /\ m \in Nat
  BY <1>1 DEF Forest, Chain
<1>3. Sound(new) /\ Ranked(new)
  BY StoredForest DEF Forest
<1>4. DOMAIN new = DOMAIN hp /\ c[m - 1] \in OnChain(c, m) /\ \A d \in DOMAIN hp : d # c[m - 1] => new[d] = hp[d]
  BY StoredSays DEF OnChain
<1>5. ASSUME NEW d \in S, NEW x \in RefsIn(hp, d)
      PROVE  Target(hp, d, x) \in S
  <2>1. Target(hp, d, x) \in DOMAIN hp
    BY <1>2, PartIsCell
  <2>2. ASSUME Target(hp, d, x) \in OnChain(c, m)
        PROVE  FALSE
    <3>1. PICK i \in 0 .. m - 1 : Target(hp, d, x) = c[i]
      BY <2>2 DEF OnChain
    <3>2. i - 1 \in 0 .. m - 2 /\ d = c[i - 1]
      BY <1>1, <3>1, ChainOwned
    <3>3. i - 1 \in 0 .. m - 1
      BY <1>2, <3>2
    <3>. QED
      BY <3>2, <3>3 DEF OnChain
  <2>. QED
    BY <2>1, <2>2
<1>6. S \subseteq DOMAIN hp /\ S \subseteq DOMAIN new
      /\ \A d \in S : new[d] = hp[d] /\ \A x \in RefsIn(hp, d) : Target(hp, d, x) \in S
  BY <1>4, <1>5
<1>7. \A d \in S : ValueAt(new)[d] = ValueAt(hp)[d]
  <2>. HIDE DEF S
  <2>. QED
    BY <1>2, <1>3, <1>6, Untouched
<1>. QED
  BY <1>7

\* The chain follows the path p, whose last key leads to the part stored.
Follows(hp, c, k, m, p) ==
  \A i \in 0 .. m - 1 : k[i] = PartOf(hp[c[i]], p[i + 1]) /\ StepError(hp[c[i]], p[i + 1], TRUE) = "ok"

\* The values of its cells after the store, from the last one up.
Restored(r, hp, c, m, p, v) ==
  r[m] = v /\ \A i \in 0 .. m - 1 : r[i] = ReplaceChild(ValueAt(hp)[c[i]], p[i + 1], r[i + 1])

\* The parts of a cell of the chain that the chain does not follow keep their values.
LEMMA StoredBeside ==
  ASSUME NEW hp, NEW roots, NEW fresh, NEW c, NEW k, NEW m, NEW j, NEW h,
         CanStore(hp, roots, fresh, c, k, m, j, h), NEW new, new = Stored(hp, c[m - 1], j, h),
         NEW i \in 0 .. m - 1, NEW x \in DOMAIN Parts(hp[c[i]]), x # k[i]
  PROVE  Value(new, Parts(hp[c[i]])[x]) = Value(hp, Parts(hp[c[i]])[x])
<1>. DEFINE all == roots \cup fresh
            d == c[i]
<1>1. Forest(hp, all) /\ Chain(hp, c, k, m) /\ c[0] \in all
  BY DEF CanStore
<1>. HIDE DEF all
<1>2. Sound(hp) /\ Ranked(hp) /\ m \in Nat /\ d \in DOMAIN hp
  BY <1>1 DEF Forest, Chain
<1>3. CASE x \in RefsIn(hp, d)
  <2>1. Target(hp, d, x) \in DOMAIN hp /\ Parts(hp[d])[x] = Ref(Target(hp, d, x))
    BY <1>2, <1>3, PartIsCell
  <2>2. ASSUME Target(hp, d, x) \in OnChain(c, m)
        PROVE  FALSE
    <3>1. PICK l \in 0 .. m - 1 : Target(hp, d, x) = c[l]
      BY <2>2 DEF OnChain
    <3>2. l - 1 \in 0 .. m - 2 /\ d = c[l - 1] /\ x = k[l - 1]
      BY <1>1, <1>2, <1>3, <3>1, ChainOwned
    <3>3. l - 1 \in 0 .. m - 1
      BY <1>2, <3>2
    <3>4. i = l - 1
      BY <1>1, <1>2, <3>2, <3>3, ChainApart
    <3>. QED
      BY <3>2, <3>4
  <2>3. ValueAt(new)[Target(hp, d, x)] = ValueAt(hp)[Target(hp, d, x)]
    BY <2>1, <2>2, StoredOff
  <2>. QED
    BY <2>1, <2>3, Handles DEF Value
<1>4. CASE x \notin RefsIn(hp, d)
  <2>1. ~IsRef(Parts(hp[d])[x])
    BY <1>4 DEF RefsIn
  <2>. QED
    BY <2>1 DEF Value
<1>. QED
  BY <1>3, <1>4

\* All this together: new is hp with h stored along the path p.
IsStore(hp, roots, fresh, c, k, m, h, new, p, r) ==
  /\ CanStore(hp, roots, fresh, c, k, m, k[m - 1], h) /\ new = Stored(hp, c[m - 1], k[m - 1], h)
  /\ Follows(hp, c, k, m, p) /\ Restored(r, hp, c, m, p, Value(new, h))

\* A cell of the chain, when the part below it has its value already.
LEMMA StoredStep ==
  ASSUME NEW hp, NEW roots, NEW fresh, NEW c, NEW k, NEW m, NEW h, NEW new, NEW p, NEW r,
         IsStore(hp, roots, fresh, c, k, m, h, new, p, r),
         NEW i \in 0 .. m - 1, i = m - 1 \/ ValueAt(new)[c[i + 1]] = r[i + 1]
  PROVE  ValueAt(new)[c[i]] = r[i]
<1>. DEFINE d == c[i]
            f == IF i = m - 1 THEN WithEntry(Parts(hp[d]), k[i], h) ELSE Parts(hp[d])
<1>0. /\ CanStore(hp, roots, fresh, c, k, m, k[m - 1], h) /\ new = Stored(hp, c[m - 1], k[m - 1], h)
      /\ Follows(hp, c, k, m, p) /\ Restored(r, hp, c, m, p, Value(new, h))
  BY DEF IsStore
<1>. USE <1>0
<1>1. Chain(hp, c, k, m) /\ Sound(hp) /\ Ranked(hp) /\ m \in Nat \ {0}
  BY DEF CanStore, Forest, Chain
<1>2. Sound(new) /\ Ranked(new)
  BY StoredForest DEF Forest
<1>3. d \in DOMAIN hp /\ IsAggregate(hp[d])
  BY <1>1 DEF Chain, Sound
<1>4. k[i] = PartOf(hp[d], p[i + 1]) /\ StepError(hp[d], p[i + 1], TRUE) = "ok"
  BY DEF Follows
<1>5. /\ DOMAIN new = DOMAIN hp
      /\ \A e \in DOMAIN hp : e # c[m - 1] => new[e] = hp[e]
      /\ new[c[m - 1]] = WithParts(hp[c[m - 1]], WithEntry(Parts(hp[c[m - 1]]), k[m - 1], h))
      /\ Parts(new[c[m - 1]]) = WithEntry(Parts(hp[c[m - 1]]), k[m - 1], h)
  BY StoredSays
<1>6. CASE i = m - 1
  <2>0. f = WithEntry(Parts(hp[d]), k[i], h) /\ d = c[m - 1] /\ k[i] = k[m - 1]
    BY <1>6
  <2>1. new[d] = WithParts(hp[d], f) /\ Parts(new[d]) = f
    <3>. HIDE DEF f, d
    <3>. QED
      BY <1>5, <2>0
  <2>2. IsFunction(f) /\ DOMAIN f = DOMAIN Parts(hp[d]) \cup {k[i]} /\ f[k[i]] = h
        /\ \A x \in DOMAIN Parts(hp[d]) : x # k[i] => f[x] = Parts(hp[d])[x]
    BY <1>6 DEF WithEntry, IsFunction
  <2>. HIDE DEF f
  <2>3. \A x \in DOMAIN Parts(hp[d]) : x # k[i] => Value(new, f[x]) = Value(hp, Parts(hp[d])[x])
    BY <2>2, StoredBeside
  <2>. HIDE DEF d
  <2>4. ValueAt(new)[d] = ReplaceChild(ValueAt(hp)[d], p[i + 1], Value(new, f[PartOf(hp[d], p[i + 1])]))
    <3>1. Differs(new, hp, d, p[i + 1], f)
      BY <1>4, <2>1, <2>2, <2>3 DEF Differs
    <3>. QED
      BY <1>1, <1>2, <1>3, <1>5, <3>1, CellStored
  <2>5. ValueAt(new)[d] = ReplaceChild(ValueAt(hp)[d], p[i + 1], Value(new, h))
    BY <1>4, <2>2, <2>4
  <2>6. r[i + 1] = Value(new, h) /\ r[i] = ReplaceChild(ValueAt(hp)[d], p[i + 1], r[i + 1])
    BY <1>1, <1>6 DEF Restored, d
  <2>. QED
    BY <2>5, <2>6 DEF d
<1>7. CASE i # m - 1
  <2>0. i \in 0 .. m - 2 /\ m - 1 \in 0 .. m - 1
    BY <1>1, <1>7
  <2>1. d # c[m - 1]
    BY <1>1, <1>7, <2>0, ChainApart
  <2>2. new[d] = hp[d] /\ k[i] \in RefsIn(hp, d) /\ Target(hp, d, k[i]) = c[i + 1]
    BY <1>1, <1>3, <1>5, <2>0, <2>1 DEF Chain
  <2>3. IsFunction(f) /\ f = Parts(hp[d]) /\ WithParts(hp[d], f) = hp[d]
    BY <1>3, <1>7, PartsOf
  <2>4. k[i] \in DOMAIN Parts(hp[d]) /\ Parts(hp[d])[k[i]] = Ref(c[i + 1])
    BY <1>1, <1>3, <2>2, PartIsCell
  <2>5. \A x \in DOMAIN Parts(hp[d]) : x # k[i] => Value(new, f[x]) = Value(hp, Parts(hp[d])[x])
    BY <2>3, StoredBeside
  <2>6. Value(new, f[k[i]]) = r[i + 1]
    BY <1>7, <2>3, <2>4, Handles DEF Value
  <2>7. DOMAIN f = DOMAIN Parts(hp[d]) \cup {k[i]} /\ new[d] = WithParts(hp[d], f) /\ Parts(new[d]) = f
    BY <2>2, <2>3, <2>4
  <2>8. r[i] = ReplaceChild(ValueAt(hp)[d], p[i + 1], r[i + 1])
    BY DEF Restored
  <2>. HIDE DEF d, f
  <2>9. ValueAt(new)[d] = ReplaceChild(ValueAt(hp)[d], p[i + 1], Value(new, f[PartOf(hp[d], p[i + 1])]))
    <3>1. Differs(new, hp, d, p[i + 1], f)
      BY <1>4, <2>3, <2>5, <2>7 DEF Differs
    <3>. QED
      BY <1>1, <1>2, <1>3, <1>5, <3>1, CellStored
  <2>10. ValueAt(new)[d] = r[i]
    BY <1>4, <2>6, <2>8, <2>9
  <2>. QED
    BY <2>10 DEF d
<1>. QED
  BY <1>6, <1>7

\* So the root has the value PathStore gives it.
LEMMA StoredOn ==
  ASSUME NEW hp, NEW roots, NEW fresh, NEW c, NEW k, NEW m, NEW h, NEW new, NEW p, NEW r,
         IsStore(hp, roots, fresh, c, k, m, h, new, p, r)
  PROVE  ValueAt(new)[c[0]] = r[0]
<1>. DEFINE S == {n \in Nat : n <= m - 1 => ValueAt(new)[c[m - 1 - n]] = r[m - 1 - n]}
<1>1. m \in Nat \ {0}
  BY DEF IsStore, CanStore, Chain
<1>2. 0 \in S
  <2>1. m - 1 \in 0 .. m - 1 /\ m - 1 - 0 = m - 1
    BY <1>1
  <2>2. ValueAt(new)[c[m - 1]] = r[m - 1]
    BY <2>1, StoredStep
  <2>. QED
    BY <2>1, <2>2
<1>3. ASSUME NEW n \in Nat, n \in S
      PROVE  n + 1 \in S
  <2>. SUFFICES ASSUME n + 1 <= m - 1
       PROVE  ValueAt(new)[c[m - 1 - (n + 1)]] = r[m - 1 - (n + 1)]
    OBVIOUS
  <2>. DEFINE i == m - 1 - (n + 1)
  <2>1. i \in 0 .. m - 1 /\ i + 1 = m - 1 - n /\ n <= m - 1
    BY <1>1
  <2>2. ValueAt(new)[c[i + 1]] = r[i + 1]
    BY <1>3, <2>1
  <2>. HIDE DEF i
  <2>3. ValueAt(new)[c[i]] = r[i]
    BY <2>1, <2>2, StoredStep
  <2>. QED
    BY <2>3 DEF i
<1>4. m - 1 \in S
  <2>1. Nat \subseteq S
    <3>. HIDE DEF S
    <3>. QED
      BY <1>2, <1>3, Induction
  <2>. QED
    BY <1>1, <2>1
<1>5. m - 1 - (m - 1) = 0
  BY <1>1
<1>. QED
  BY <1>1, <1>4, <1>5
-----------------------------------------------------------------------------
(* Storing along a path.                                                   *)

\* g has the handles on the way along the first n of the keys p.
Leads(g, h, p, n) == g = [i \in 0 .. n |-> IF i = 0 THEN h ELSE Child(Opened(g[i - 1]), p[i])]

\* They are defined along any number of keys ...
LEMMA WalkedExists ==
  ASSUME NEW h, NEW p, NEW m \in Nat
  PROVE  \E g : Leads(g, h, p, m)
<1>. DEFINE Is(g, n) == g = [i \in 0 .. n |-> IF i = 0 THEN h ELSE Child(Opened(g[i - 1]), p[i])]
            S == {n \in Nat : \E g : Is(g, n)}
<1>1. 0 \in S
  <2>. DEFINE g == [i \in 0 .. 0 |-> h]
  <2>1. Is(g, 0)
    OBVIOUS
  <2>. QED
    BY <2>1
<1>2. ASSUME NEW n \in Nat, n \in S
      PROVE  n + 1 \in S
  <2>1. PICK g : Is(g, n)
    BY <1>2
  <2>. DEFINE f == [i \in 0 .. n + 1 |-> IF i = n + 1 THEN Child(Opened(g[n]), p[n + 1]) ELSE g[i]]
  <2>2. ASSUME NEW i \in 0 .. n + 1
        PROVE  f[i] = IF i = 0 THEN h ELSE Child(Opened(f[i - 1]), p[i])
    <3>1. CASE i = n + 1
      BY <3>1
    <3>2. CASE i \in 0 .. n
      <4>1. f[i] = g[i] /\ (i # 0 => f[i - 1] = g[i - 1])
        BY <3>2
      <4>2. g[i] = IF i = 0 THEN h ELSE Child(Opened(g[i - 1]), p[i])
        BY <2>1, <3>2
      <4>. QED
        BY <4>1, <4>2
    <3>. QED
      BY <3>1, <3>2
  <2>3. Is(f, n + 1)
    BY <2>2
  <2>4. \E fun : Is(fun, n + 1)
    <3>. HIDE DEF Is, f
    <3>. QED
      BY <2>3
  <2>. QED
    BY <2>4
<1>3. m \in S
  <2>. HIDE DEF S
  <2>. QED
    BY <1>1, <1>2, Induction
<1>. QED
  BY <1>3 DEF Leads

\* ... step by step.
LEMMA WalkedSays ==
  ASSUME NEW h, NEW p, Len(p) \in Nat
  PROVE  /\ Walked(h, p)[0] = h
         /\ \A i \in 1 .. Len(p) : Walked(h, p)[i] = Child(Opened(Walked(h, p)[i - 1]), p[i])
<1>0. \E g : Leads(g, h, p, Len(p))
  BY WalkedExists
<1>1. \E g : g = [i \in 0 .. Len(p) |-> IF i = 0 THEN h ELSE Child(Opened(g[i - 1]), p[i])]
  BY <1>0 DEF Leads
<1>. DEFINE w == Walked(h, p)
<1>2. w = [i \in 0 .. Len(p) |-> IF i = 0 THEN h ELSE Child(Opened(w[i - 1]), p[i])]
  BY <1>1 DEF Walked
<1>. QED
  BY <1>2

\* The cells on the way from h along p and the parts they are of each other.
WayCells(h, p) == [i \in 0 .. Len(p) - 1 |-> Walked(h, p)[i].cell]
WayParts(h, p) == [i \in 0 .. Len(p) - 1 |-> PartOf(heap[Walked(h, p)[i].cell], p[i + 1])]

\* A path along which the store succeeds in the value.
Storable(h, p) ==
  HandleIn(heap, h) /\ Len(p) \in Nat \ {0} /\ PathError(Value(heap, h), p) = "ok"

\* The handle n steps down the path, for the value n steps down.
IsStep(h, p, n) ==
  HandleIn(heap, Walked(h, p)[n]) /\ Value(heap, Walked(h, p)[n]) = Walk(Value(heap, h), p)[n]

\* One step down the path, in the cells and in the value ...
LEMMA NextStep ==
  ASSUME Inv, NEW h, NEW p, Storable(h, p), NEW n \in Nat, n + 1 < Len(p), IsStep(h, p, n)
  PROVE  /\ StepError(Opened(Walked(h, p)[n]), p[n + 1], FALSE) = "ok"
         /\ Walked(h, p)[n + 1] = Child(Opened(Walked(h, p)[n]), p[n + 1])
         /\ IsStep(h, p, n + 1)
<1>. DEFINE v  == Value(heap, h)
            wn == Walked(h, p)[n]
            vn == Walk(v, p)[n]
<1>1. Len(p) \in Nat /\ PathError(v, p) = "ok" /\ HandleIn(heap, wn) /\ Value(heap, wn) = vn
  BY DEF Storable, IsStep
<1>2. n + 1 \in 1 .. Len(p) /\ n + 1 - 1 = n /\ n + 1 # Len(p) /\ n + 1 <= Len(p)
  BY <1>1
<1>3. StepError(vn, p[n + 1], FALSE) = "ok"
  <2>1. StepError(Walk(v, p)[n + 1 - 1], p[n + 1], n + 1 = Len(p)) = "ok"
    <3>. HIDE DEF v
    <3>. QED
      BY <1>1, <1>2, NoStepFails
  <2>2. StepError(vn, p[n + 1], n + 1 = Len(p)) = "ok"
    BY <1>2, <2>1
  <2>. HIDE DEF vn
  <2>. QED
    BY <1>2, <2>2 DEF StepError
<1>4. Walk(v, p)[n + 1] = Child(vn, p[n + 1])
  <2>1. Walk(v, p)[n + 1] = Onward(vn, p[n + 1])
    <3>. HIDE DEF v
    <3>. QED
      BY <1>1, <1>2, WalkOn
  <2>. QED
    BY <1>3, <2>1 DEF Onward
<1>5. Walked(h, p)[n + 1] = Child(Opened(wn), p[n + 1])
  BY <1>1, <1>2, WalkedSays
<1>. HIDE DEF wn, vn
<1>6. /\ StepError(Opened(wn), p[n + 1], FALSE) = StepError(Value(heap, wn), p[n + 1], FALSE)
      /\ StepError(Opened(wn), p[n + 1], FALSE) = "ok"
           => /\ HandleIn(heap, Child(Opened(wn), p[n + 1]))
              /\ Value(heap, Child(Opened(wn), p[n + 1])) = Child(Value(heap, wn), p[n + 1])
  BY <1>1, ChildOf
<1>7. StepError(Opened(wn), p[n + 1], FALSE) = "ok"
  BY <1>1, <1>3, <1>6
<1>8. HandleIn(heap, Walked(h, p)[n + 1]) /\ Value(heap, Walked(h, p)[n + 1]) = Walk(v, p)[n + 1]
  BY <1>1, <1>4, <1>5, <1>6, <1>7
<1>. QED
  BY <1>5, <1>7, <1>8 DEF wn, v, IsStep

\* ... and so every step.
LEMMA AllSteps ==
  ASSUME Inv, NEW h, NEW p, Storable(h, p)
  PROVE  \A i \in 0 .. Len(p) - 1 : IsStep(h, p, i)
<1>. DEFINE S == {n \in Nat : n <= Len(p) - 1 => IsStep(h, p, n)}
<1>1. Len(p) \in Nat \ {0}
  BY DEF Storable
<1>2. 0 \in S
  BY <1>1, WalkedSays, WalkSays DEF Storable, IsStep
<1>3. ASSUME NEW n \in Nat, n \in S
      PROVE  n + 1 \in S
  <2>1. ASSUME n + 1 <= Len(p) - 1
        PROVE  IsStep(h, p, n + 1)
    <3>1. n + 1 < Len(p) /\ IsStep(h, p, n)
      BY <1>1, <1>3, <2>1
    <3>. QED
      BY <3>1, NextStep
  <2>. QED
    BY <2>1
<1>4. Nat \subseteq S
  <2>. HIDE DEF S
  <2>. QED
    BY <1>2, <1>3, Induction
<1>. QED
  BY <1>1, <1>4

\* Each is a cell, in which the store can go on.
AtCell(h, p, i) ==
  /\ WayCells(h, p)[i] \in DOMAIN heap /\ Walked(h, p)[i] = Ref(WayCells(h, p)[i])
  /\ Opened(Walked(h, p)[i]) = heap[WayCells(h, p)[i]]
  /\ ValueAt(heap)[WayCells(h, p)[i]] = Walk(Value(heap, h), p)[i]
  /\ StepError(heap[WayCells(h, p)[i]], p[i + 1], TRUE) = "ok"
  /\ WayParts(h, p)[i] = PartOf(heap[WayCells(h, p)[i]], p[i + 1])

\* On the way the handles are references to cells of the values on the way.
LEMMA StepIsCell ==
  ASSUME Inv, NEW h, NEW p, Storable(h, p), NEW i \in 0 .. Len(p) - 1
  PROVE  AtCell(h, p, i)
<1>. DEFINE v == Value(heap, h)
            w == Walked(h, p)[i]
<1>1. Len(p) \in Nat \ {0} /\ PathError(v, p) = "ok" /\ HandleIn(heap, w) /\ Value(heap, w) = Walk(v, p)[i]
  BY AllSteps DEF Storable, IsStep
<1>2. i + 1 \in 1 .. Len(p) /\ i + 1 - 1 = i
  BY <1>1
<1>3. WayCells(h, p)[i] = w.cell /\ WayParts(h, p)[i] = PartOf(heap[w.cell], p[i + 1])
  BY DEF WayCells, WayParts
<1>. HIDE DEF v, w
<1>4. StepError(Walk(v, p)[i], p[i + 1], TRUE) = "ok"
  <2>1. StepError(Walk(v, p)[i + 1 - 1], p[i + 1], i + 1 = Len(p)) = "ok"
    BY <1>1, <1>2, NoStepFails
  <2>. DEFINE vi == Walk(v, p)[i]
  <2>2. StepError(vi, p[i + 1], i + 1 = Len(p)) = "ok"
    BY <1>2, <2>1
  <2>. HIDE DEF vi
  <2>3. StepError(vi, p[i + 1], TRUE) = "ok"
    BY <2>2 DEF StepError
  <2>. QED
    BY <2>3 DEF vi
<1>5. StepError(Opened(w), p[i + 1], TRUE) = "ok"
  <2>1. \A l : StepError(Opened(w), p[i + 1], l) = StepError(Value(heap, w), p[i + 1], l)
    BY <1>1, ChildOf
  <2>. QED
    BY <1>1, <1>4, <2>1
<1>6. w \notin Scalars
  <2>1. ASSUME w \in Scalars
        PROVE  FALSE
    <3>1. Opened(w) = w
      BY <2>1, Handles DEF Opened
    <3>2. StepError(w, p[i + 1], TRUE) = "type"
      BY <2>1, ScalarStep
    <3>. QED
      BY <1>5, <3>1, <3>2
  <2>. QED
    BY <2>1
<1>7. PICK c \in DOMAIN heap : w = Ref(c)
  BY <1>1, <1>6 DEF HandleIn
<1>8. w.cell = c /\ Opened(w) = heap[c] /\ Value(heap, w) = ValueAt(heap)[c]
  BY <1>7, Handles DEF Opened, Value
<1>. QED
  BY <1>1, <1>3, <1>5, <1>7, <1>8 DEF v, w, AtCell

\* They are a chain.
LEMMA WayIsChain ==
  ASSUME Inv, NEW h, NEW p, Storable(h, p)
  PROVE  Chain(heap, WayCells(h, p), WayParts(h, p), Len(p))
<1>. DEFINE c == WayCells(h, p)
            k == WayParts(h, p)
<1>0. \A i \in 0 .. Len(p) - 1 : AtCell(h, p, i)
  BY StepIsCell
<1>1. Len(p) \in Nat \ {0} /\ \A i \in 0 .. Len(p) - 1 : c[i] \in DOMAIN heap
  BY <1>0 DEF Storable, AtCell
<1>2. ASSUME NEW i \in 0 .. Len(p) - 2
      PROVE  k[i] \in RefsIn(heap, c[i]) /\ Target(heap, c[i], k[i]) = c[i + 1]
  <2>1. i \in 0 .. Len(p) - 1 /\ i + 1 \in 0 .. Len(p) - 1 /\ i + 1 < Len(p) /\ i \in Nat
    BY <1>1
  <2>2. /\ c[i] \in DOMAIN heap /\ Opened(Walked(h, p)[i]) = heap[c[i]]
        /\ k[i] = PartOf(heap[c[i]], p[i + 1])
    BY <1>0, <2>1 DEF AtCell
  <2>3. Walked(h, p)[i + 1] = Ref(c[i + 1])
    BY <1>0, <2>1 DEF AtCell
  <2>4. /\ StepError(Opened(Walked(h, p)[i]), p[i + 1], FALSE) = "ok"
        /\ Walked(h, p)[i + 1] = Child(Opened(Walked(h, p)[i]), p[i + 1])
    BY <2>1, AllSteps, NextStep
  <2>. DEFINE a == heap[c[i]]
  <2>5. IsAggregate(a)
    BY <2>2, InvSays DEF Forest, Sound
  <2>. HIDE DEF c, k
  <2>6. PartOf(a, p[i + 1]) \in DOMAIN Parts(a) /\ Child(a, p[i + 1]) = Parts(a)[PartOf(a, p[i + 1])]
    BY <2>2, <2>4, <2>5, ChildIsPart
  <2>7. k[i] \in DOMAIN Parts(a) /\ Parts(a)[k[i]] = Ref(c[i + 1])
    BY <2>2, <2>3, <2>4, <2>6
  <2>. QED
    BY <2>7, Handles DEF RefsIn, Target
<1>. QED
  BY <1>1, <1>2 DEF Chain

\* The name of the slot on top of the stack.
TopSlot == <<"stack", Len(callers) + 1, Len(stack)>>

\* The handles of the other slots keep their values.
OthersKept(new) ==
  \A s \in DOMAIN Slot(host, stack, locals, callers) :
    s # TopSlot => Value(new, Slot(host, stack, locals, callers)[s])
                     = Value(heap, Slot(host, stack, locals, callers)[s])

\* What the other slots hold has then the same meaning to the instance.
LEMMA OthersMean ==
  ASSUME Inv, NEW new, OthersKept(new), NEW n \in 1 .. Len(stack)
  PROVE  /\ Value(new, host) = Value(heap, host) /\ Values(new, locals) = Values(heap, locals)
         /\ FramesValues(new, callers) = FramesValues(heap, callers)
         /\ Values(new, Keep(n)) = Slots!Keep(n)
<1>. DEFINE held == Slot(host, stack, locals, callers)
            H == HandlesOf(heap)
<1>1. SlotsTyped(heap, host, stack, locals, callers)
  BY InvSays
<1>. HIDE DEF H, held
<1>2. stack \in Seq(H) /\ locals \in Seq(H) /\ callers \in FramesOf(heap)
  BY InvSays DEF H
<1>3. \A s \in DOMAIN held : s # TopSlot => Value(new, held[s]) = Value(heap, held[s])
  BY DEF OthersKept, held
<1>4. Value(new, host) = Value(heap, host)
  <2>1. <<"host", 0, 0>> \in DOMAIN held /\ held[<<"host", 0, 0>>] = host
    BY <1>1, SlotIsHost DEF held
  <2>2. <<"host", 0, 0>> # TopSlot
    BY DEF TopSlot
  <2>. QED
    BY <1>3, <2>1, <2>2
<1>5. ASSUME NEW i \in DOMAIN locals
      PROVE  Value(new, locals[i]) = Value(heap, locals[i])
  <2>. DEFINE s == <<"locals", Len(callers) + 1, i>>
  <2>1. s \in DOMAIN held /\ held[s] = locals[i]
    BY <1>1, <1>2, SlotInLocals DEF held
  <2>2. s # TopSlot
    BY DEF TopSlot
  <2>. QED
    BY <1>3, <2>1, <2>2
<1>6. ASSUME NEW i \in 1 .. Len(stack) - n
      PROVE  Value(new, stack[i]) = Value(heap, stack[i])
  <2>. DEFINE s == <<"stack", Len(callers) + 1, i>>
  <2>1. i \in 1 .. Len(stack) /\ i # Len(stack)
    BY <1>2
  <2>2. s \in DOMAIN held /\ held[s] = stack[i]
    BY <1>1, <2>1, SlotOnStack DEF held
  <2>3. s # TopSlot
    BY <2>1 DEF TopSlot
  <2>. QED
    BY <1>3, <2>2, <2>3
<1>7. ASSUME NEW f \in DOMAIN callers
      PROVE  /\ Values(new, callers[f].stack) = Values(heap, callers[f].stack)
             /\ Values(new, callers[f].locals) = Values(heap, callers[f].locals)
  <2>1. f \in 1 .. Len(callers) /\ f # Len(callers) + 1
    <3>. DEFINE F == [stack : Seq(HandlesOf(heap)), locals : Seq(HandlesOf(heap))]
    <3>1. callers \in Seq(F)
      BY <1>2 DEF FramesOf
    <3>. HIDE DEF F
    <3>2. Len(callers) \in Nat /\ DOMAIN callers = 1 .. Len(callers)
      BY <3>1
    <3>. QED
      BY <3>2
  <2>2. callers[f].stack \in Seq(H) /\ callers[f].locals \in Seq(H)
    BY <1>2, <2>1, CallersAre DEF H
  <2>3. ASSUME NEW i \in DOMAIN callers[f].stack
        PROVE  Value(new, callers[f].stack[i]) = Value(heap, callers[f].stack[i])
    <3>. DEFINE s == <<"stack", f, i>>
    <3>1. i \in 1 .. Len(callers[f].stack)
      BY <2>2
    <3>2. s \in DOMAIN held /\ held[s] = callers[f].stack[i]
      BY <1>1, <2>1, <3>1, SlotOnCallersStack DEF held
    <3>3. s # TopSlot
      BY <2>1 DEF TopSlot
    <3>. QED
      BY <1>3, <3>2, <3>3
  <2>4. ASSUME NEW i \in DOMAIN callers[f].locals
        PROVE  Value(new, callers[f].locals[i]) = Value(heap, callers[f].locals[i])
    <3>. DEFINE s == <<"locals", f, i>>
    <3>1. i \in 1 .. Len(callers[f].locals)
      BY <2>2
    <3>2. s \in DOMAIN held /\ held[s] = callers[f].locals[i]
      BY <1>1, <2>1, <3>1, SlotInCallersLocals DEF held
    <3>3. s # TopSlot
      BY DEF TopSlot
    <3>. QED
      BY <1>3, <3>2, <3>3
  <2>. QED
    BY <2>3, <2>4 DEF Values
<1>8. Values(new, locals) = Values(heap, locals)
  BY <1>5 DEF Values
<1>9. FramesValues(new, callers) = FramesValues(heap, callers)
  BY <1>7 DEF FramesValues
<1>10. Values(new, Keep(n)) = Slots!Keep(n)
  <2>1. /\ Keep(n) \in Seq(H) /\ Len(Keep(n)) = Len(stack) - n
        /\ \A i \in 1 .. Len(stack) - n : Keep(n)[i] = stack[i]
        /\ Values(heap, Keep(n)) = Slots!Keep(n)
    <3>1. n \in 0 .. Len(stack)
      OBVIOUS
    <3>. QED
      BY <3>1, KeepIs DEF H
  <2>2. DOMAIN Keep(n) = 1 .. Len(stack) - n
    BY <2>1
  <2>3. \A i \in DOMAIN Keep(n) : Value(new, Keep(n)[i]) = Value(heap, Keep(n)[i])
    BY <1>6, <2>1, <2>2
  <2>. QED
    BY <2>1, <2>3 DEF Values
<1>. QED
  BY <1>4, <1>8, <1>9, <1>10

\* No other slot holds a cell of the chain that begins with the top of the stack.
LEMMA OthersOff ==
  ASSUME Inv, stack # <<>>, NEW c, NEW k, NEW m, Chain(heap, c, k, m), Last(stack) = Ref(c[0]),
         NEW s \in DOMAIN Slot(host, stack, locals, callers), s # TopSlot,
         IsRef(Slot(host, stack, locals, callers)[s])
  PROVE  /\ Slot(host, stack, locals, callers)[s].cell \in DOMAIN heap
         /\ Slot(host, stack, locals, callers)[s].cell \notin OnChain(c, m)
<1>. DEFINE held == Slot(host, stack, locals, callers)
            d == held[s].cell
<1>1. SlotsTyped(heap, host, stack, locals, callers) /\ Forest(heap, Referred(held)) /\ Apart(held)
      /\ Known(heap, held) /\ stack \in Seq(HandlesOf(heap))
  BY InvSays DEF Inv, Good, Tidy
<1>2. Len(stack) \in 1 .. Len(stack) /\ Last(stack) = stack[Len(stack)]
  BY <1>1, ValuesLast
<1>3. TopSlot \in DOMAIN held /\ held[TopSlot] = Ref(c[0])
  BY <1>1, <1>2, SlotOnStack DEF TopSlot
<1>. HIDE DEF held
<1>4. s \in DOMAIN held /\ IsRef(held[s])
  BY DEF held
<1>5. d \in Referred(held) /\ held[s] = Ref(d) /\ d \in DOMAIN heap
  <2>1. HandleIn(heap, held[s])
    BY <1>1, <1>4 DEF Known
  <2>2. PICK e \in DOMAIN heap : held[s] = Ref(e)
    BY <1>4, <2>1, Handles DEF HandleIn
  <2>. QED
    BY <1>4, <2>2, Handles DEF Referred
<1>. HIDE DEF d
<1>6. ASSUME NEW i \in 0 .. m - 1, d = c[i]
      PROVE  FALSE
  <2>1. CASE i = 0
    <3>1. held[s] = held[TopSlot]
      BY <1>3, <1>5, <1>6, <2>1
    <3>. QED
      BY <1>1, <1>3, <1>4, <3>1 DEF Apart
  <2>2. CASE i # 0
    <3>1. i - 1 \in 0 .. m - 2 /\ i - 1 \in 0 .. m - 1 /\ i - 1 + 1 = i
      BY <2>2 DEF Chain
    <3>2. c[i - 1] \in DOMAIN heap /\ k[i - 1] \in RefsIn(heap, c[i - 1]) /\ Target(heap, c[i - 1], k[i - 1]) = c[i]
      BY <3>1 DEF Chain
    <3>. QED
      BY <1>1, <1>5, <1>6, <3>2 DEF Forest, Outermost
  <2>. QED
    BY <2>1, <2>2
<1>. QED
  BY <1>5, <1>6 DEF OnChain, d, held

\* The step of a store: h is the root, of which the path p leads to a part, v
\* the value assigned, leaf its clone and set the heap with leaf in its place.
Stores(h, p, v, leaf, set) ==
  /\ Storable(h, p) /\ HandleIn(heap, v) /\ leaf \in cloneValue(1, heap, v)
  /\ set = [leaf.heap EXCEPT ![WayCells(h, p)[Len(p) - 1]] = ReplaceChild(@, p[Len(p)], leaf.to)]

\* The clone can be stored at the end of the way.
LEMMA StoreCan ==
  ASSUME Inv, NEW h, NEW p, NEW v, NEW leaf, NEW set, Stores(h, p, v, leaf, set),
         NEW R, R = Referred(Slot(host, stack, locals, callers)), IsRef(h) => h.cell \in R,
         NEW c, c = WayCells(h, p), NEW k, k = WayParts(h, p), NEW m, m = Len(p)
  PROVE  /\ CanStore(leaf.heap, R, Referred(<<leaf.to>>), c, k, m, k[m - 1], leaf.to)
         /\ set = Stored(leaf.heap, c[m - 1], k[m - 1], leaf.to)
         /\ IsClone(heap, R, <<v>>, 1, leaf.heap, <<leaf.to>>)
         /\ Chain(heap, c, k, m) /\ h = Ref(c[0])
<1>. DEFINE mid == leaf.heap
            to  == leaf.to
            fresh == Referred(<<to>>)
            at == c[m - 1]
<1>0. /\ Storable(h, p) /\ HandleIn(heap, v) /\ leaf \in cloneValue(1, heap, v) /\ m \in Nat \ {0}
      /\ set = [mid EXCEPT ![at] = ReplaceChild(@, p[m], to)]
  BY DEF Stores, Storable
<1>1. Forest(heap, R) /\ New(1, heap)
  BY InvSays
<1>2. IsClone(heap, R, <<v>>, 1, mid, <<to>>)
  BY <1>0, <1>1, CloneIs
<1>3. Chain(heap, c, k, m)
  BY <1>0, WayIsChain
<1>4. \A i \in 0 .. m - 1 : AtCell(h, p, i)
  BY <1>0, StepIsCell
<1>5. h = Ref(c[0]) /\ c[0] \in R
  <2>1. 0 \in 0 .. m - 1 /\ Len(p) \in Nat
    BY <1>0
  <2>2. Walked(h, p)[0] = Ref(c[0])
    BY <1>4, <2>1 DEF AtCell
  <2>3. h = Ref(c[0])
    BY <2>1, <2>2, WalkedSays
  <2>. QED
    BY <2>3, Handles
<1>. HIDE DEF mid, to
<1>6. /\ Forest(mid, R \cup fresh) /\ Extends(mid, heap) /\ fresh \cap DOMAIN heap = {}
      /\ Known(mid, <<to>>)
  BY <1>2 DEF IsClone
<1>7. R \cap fresh = {} /\ OnChain(c, m) \cap fresh = {}
  <2>1. R \subseteq DOMAIN heap
    BY <1>1 DEF Forest, Outermost
  <2>2. OnChain(c, m) \subseteq DOMAIN heap
    BY <1>3 DEF Chain, OnChain
  <2>. QED
    BY <1>6, <2>1, <2>2
<1>8. HandleIn(mid, to) /\ (IsRef(to) => to.cell \in fresh)
  <2>1. 1 \in DOMAIN <<to>> /\ <<to>>[1] = to
    OBVIOUS
  <2>. QED
    BY <1>6, <2>1 DEF Known, Referred
<1>9. Chain(mid, c, k, m)
  BY <1>3, <1>6, ChainExtended
<1>10. /\ at \in DOMAIN heap /\ mid[at] = heap[at] /\ at \in DOMAIN mid
       /\ StepError(mid[at], p[m], TRUE) = "ok" /\ k[m - 1] = PartOf(mid[at], p[m])
  <2>1. m - 1 \in 0 .. m - 1 /\ m - 1 + 1 = m
    BY <1>0
  <2>2. /\ at \in DOMAIN heap /\ StepError(heap[at], p[m], TRUE) = "ok"
        /\ k[m - 1] = PartOf(heap[at], p[m])
    BY <1>4, <2>1 DEF AtCell
  <2>3. mid[at] = heap[at] /\ at \in DOMAIN mid
    BY <1>6, <2>2 DEF Extends
  <2>. QED
    BY <2>2, <2>3
<1>. DEFINE a == mid[at]
<1>11. IsAggregate(a)
  BY <1>6, <1>10 DEF Forest, Sound
<1>12. IsArray(a) => k[m - 1] \in DOMAIN Parts(a)
  <2>. HIDE DEF a
  <2>. QED
    BY <1>10, <1>11, ArrayPart DEF a
<1>13. ReplaceChild(a, p[m], to) = WithParts(a, WithEntry(Parts(a), k[m - 1], to))
  <2>1. StepError(a, p[m], TRUE) = "ok" /\ k[m - 1] = PartOf(a, p[m])
    BY <1>10
  <2>. HIDE DEF a
  <2>. QED
    BY <1>11, <2>1, ChildIsPart
<1>14. set = Stored(mid, at, k[m - 1], to)
  BY <1>0, <1>13 DEF Stored, mid, to
<1>15. CanStore(mid, R, fresh, c, k, m, k[m - 1], to)
  BY <1>5, <1>6, <1>7, <1>8, <1>9, <1>12 DEF CanStore
<1>. QED
  BY <1>2, <1>3, <1>5, <1>14, <1>15 DEF mid, to, fresh, at

\* Then the root has the value PathStore gives it ...
LEMMA StoreValue ==
  ASSUME Inv, NEW h, NEW p, NEW v, NEW leaf, NEW set, Stores(h, p, v, leaf, set),
         IsRef(h) => h.cell \in Referred(Slot(host, stack, locals, callers))
  PROVE  HandleIn(set, h) /\ Value(set, h) = PathStore(Value(heap, h), p, Value(heap, v))
<1>. DEFINE R == Referred(Slot(host, stack, locals, callers))
            c == WayCells(h, p)
            k == WayParts(h, p)
            m == Len(p)
            mid == leaf.heap
            to  == leaf.to
            fresh == Referred(<<to>>)
            root == Value(heap, h)
            val  == Value(heap, v)
<1>1. /\ CanStore(mid, R, fresh, c, k, m, k[m - 1], to)
      /\ set = Stored(mid, c[m - 1], k[m - 1], to)
      /\ IsClone(heap, R, <<v>>, 1, mid, <<to>>)
      /\ Chain(heap, c, k, m) /\ h = Ref(c[0])
  <2>. HIDE DEF R, c, k, m
  <2>. QED
    BY StoreCan DEF R, c, k, m
<1>2. \A i \in 0 .. m - 1 : AtCell(h, p, i)
  BY StepIsCell DEF Stores
<1>3. Len(p) \in Nat
  BY DEF Stores, Storable
<1>4. PICK r : /\ r[0] = PathStore(root, p, val) /\ r[m] = val
               /\ \A i \in 0 .. m - 1 : r[i] = ReplaceChild(Walk(root, p)[i], p[i + 1], r[i + 1])
  <2>. HIDE DEF root, val
  <2>. QED
    BY <1>3, StoreSays
<1>. HIDE DEF R, mid, to, fresh, root, val
<1>5. Extends(mid, heap) /\ \A g : HandleIn(heap, g) => HandleIn(mid, g) /\ Value(mid, g) = Value(heap, g)
  BY <1>1 DEF IsClone
<1>6. Value(mid, to) = val
  <2>1. 1 \in DOMAIN <<v>> /\ <<v>>[1] = v /\ <<to>>[1] = to
    OBVIOUS
  <2>. QED
    BY <1>1, <2>1 DEF IsClone, val
<1>7. HandleIn(mid, to) /\ (IsRef(to) => to.cell \in fresh) /\ OnChain(c, m) \cap fresh = {}
  BY <1>1 DEF CanStore
<1>8. Value(set, to) = val
  <2>1. CASE ~IsRef(to)
    BY <1>6, <2>1 DEF Value
  <2>2. CASE IsRef(to)
    <3>1. PICK d \in DOMAIN mid : to = Ref(d)
      BY <1>7, <2>2, Handles DEF HandleIn
    <3>2. d \notin OnChain(c, m) /\ to.cell = d
      BY <1>7, <2>2, <3>1, Handles
    <3>3. ValueAt(set)[d] = ValueAt(mid)[d]
      <4>. HIDE DEF c, k, m
      <4>. QED
        BY <1>1, <3>1, <3>2, StoredOff
    <3>. QED
      BY <1>6, <2>2, <3>2, <3>3 DEF Value
  <2>. QED
    BY <2>1, <2>2
<1>9. ASSUME NEW i \in 0 .. m - 1
      PROVE  /\ k[i] = PartOf(mid[c[i]], p[i + 1]) /\ StepError(mid[c[i]], p[i + 1], TRUE) = "ok"
             /\ ValueAt(mid)[c[i]] = Walk(root, p)[i] /\ c[i] \in DOMAIN mid
  <2>1. /\ c[i] \in DOMAIN heap /\ k[i] = PartOf(heap[c[i]], p[i + 1])
        /\ StepError(heap[c[i]], p[i + 1], TRUE) = "ok" /\ ValueAt(heap)[c[i]] = Walk(root, p)[i]
    BY <1>2 DEF AtCell, root
  <2>. DEFINE d == c[i]
  <2>. HIDE DEF c, k, d
  <2>2. d \in DOMAIN heap
    BY <2>1 DEF d
  <2>3. mid[d] = heap[d] /\ d \in DOMAIN mid
    BY <1>5, <2>2 DEF Extends
  <2>4. ValueAt(mid)[d] = ValueAt(heap)[d]
    <3>1. HandleIn(heap, Ref(d))
      BY <2>2 DEF HandleIn
    <3>2. Value(mid, Ref(d)) = Value(heap, Ref(d))
      BY <1>5, <3>1
    <3>. QED
      BY <3>2, Handles DEF Value
  <2>. QED
    BY <2>1, <2>3, <2>4 DEF d
<1>. HIDE DEF c, k
<1>10. Follows(mid, c, k, m, p)
  BY <1>9 DEF Follows
<1>11. Restored(r, mid, c, m, p, Value(set, to))
  BY <1>4, <1>8, <1>9 DEF Restored
<1>12. IsStore(mid, R, fresh, c, k, m, to, set, p, r)
  BY <1>1, <1>10, <1>11 DEF IsStore
<1>13. ValueAt(set)[c[0]] = r[0]
  <2>. HIDE DEF m
  <2>. QED
    BY <1>12, StoredOn
<1>14. Value(set, h) = PathStore(root, p, val)
  BY <1>1, <1>4, <1>13, Handles DEF Value
<1>15. HandleIn(set, h)
  <2>1. DOMAIN set = DOMAIN mid
    <3>. HIDE DEF m
    <3>. QED
      BY <1>1, StoredSays
  <2>2. 0 \in 0 .. m - 1
    BY <1>1 DEF Chain
  <2>3. c[0] \in DOMAIN set
    BY <1>9, <2>1, <2>2
  <2>. QED
    BY <1>1, <2>3 DEF HandleIn
<1>. QED
  BY <1>14, <1>15 DEF root, val

\* ... the other slots theirs, and the cells are in order.
LEMMA StoreOthers ==
  ASSUME Inv, stack # <<>>, NEW p, NEW v, NEW leaf, NEW set, Stores(Last(stack), p, v, leaf, set)
  PROVE  /\ Forest(set, Referred(Slot(host, stack, locals, callers))) /\ New(2, set)
         /\ DOMAIN heap \subseteq DOMAIN set
         /\ OthersKept(set)
<1>. DEFINE held == Slot(host, stack, locals, callers)
            R == Referred(held)
            h == Last(stack)
            c == WayCells(h, p)
            k == WayParts(h, p)
            m == Len(p)
            mid == leaf.heap
            to  == leaf.to
            fresh == Referred(<<to>>)
<1>0. TopSlot \in DOMAIN held /\ held[TopSlot] = h
  <2>1. SlotsTyped(heap, host, stack, locals, callers) /\ stack \in Seq(HandlesOf(heap))
    BY InvSays
  <2>2. Len(stack) \in 1 .. Len(stack) /\ h = stack[Len(stack)]
    BY <2>1, ValuesLast
  <2>. QED
    BY <2>1, <2>2, SlotOnStack DEF TopSlot
<1>1. IsRef(h) => h.cell \in R
  <2>. HIDE DEF held, h
  <2>. QED
    BY <1>0 DEF Referred
<1>2. /\ CanStore(mid, R, fresh, c, k, m, k[m - 1], to)
      /\ set = Stored(mid, c[m - 1], k[m - 1], to)
      /\ IsClone(heap, R, <<v>>, 1, mid, <<to>>)
      /\ Chain(heap, c, k, m) /\ h = Ref(c[0])
  <2>. HIDE DEF R, h, c, k, m
  <2>. QED
    BY <1>1, StoreCan DEF R, h, c, k, m
<1>. HIDE DEF R, mid, to, fresh, c, k, m
<1>3. /\ Extends(mid, heap) /\ \A d \in DOMAIN mid \ DOMAIN heap : d[1] = 1
      /\ \A g : HandleIn(heap, g) => HandleIn(mid, g) /\ Value(mid, g) = Value(heap, g)
  BY <1>2 DEF IsClone
<1>4. Forest(set, R)
  BY <1>2, StoredForest
<1>5. DOMAIN set = DOMAIN mid
  BY <1>2, StoredSays
<1>6. New(2, set)
  <2>1. New(2, heap)
    BY InvSays
  <2>. QED
    BY <1>3, <1>5, <2>1 DEF New
<1>7. ASSUME NEW s \in DOMAIN held, s # TopSlot
      PROVE  Value(set, held[s]) = Value(heap, held[s])
  <2>1. HandleIn(heap, held[s])
    <3>1. Known(heap, held)
      BY DEF Inv, Good, Tidy
    <3>. QED
      BY <1>7, <3>1 DEF Known
  <2>2. CASE ~IsRef(held[s])
    BY <2>2 DEF Value
  <2>3. CASE IsRef(held[s])
    <3>1. held[s].cell \in DOMAIN heap /\ held[s].cell \notin OnChain(c, m)
      BY <1>2, <1>7, <2>3, OthersOff
    <3>. HIDE DEF held
    <3>2. held[s].cell \in DOMAIN mid
      BY <1>3, <3>1 DEF Extends
    <3>3. ValueAt(set)[held[s].cell] = ValueAt(mid)[held[s].cell]
      BY <1>2, <3>1, <3>2, StoredOff
    <3>4. Value(mid, held[s]) = Value(heap, held[s])
      BY <1>3, <2>1
    <3>. QED
      BY <2>3, <3>3, <3>4 DEF Value
  <2>. QED
    BY <2>2, <2>3
<1>8. OthersKept(set)
  BY <1>7 DEF OthersKept, held
<1>9. DOMAIN heap \subseteq DOMAIN set
  BY <1>3, <1>5 DEF Extends
<1>. QED
  BY <1>4, <1>6, <1>8, <1>9 DEF R, held

\* The root is cloned from the heap in which the store was made.
LEMMA StoreRoot ==
  ASSUME Inv, Len(stack) >= 2, NEW p, NEW v, NEW leaf, NEW set, Stores(Last(stack), p, v, leaf, set),
         NEW root \in cloneValue(2, set, Last(stack))
  PROVE  /\ Grown(heap, Slot(host, stack, locals, callers), root.heap, Referred(<<root.to>>))
         /\ OthersKept(root.heap)
         /\ HandleIn(root.heap, root.to) /\ (IsRef(root.to) => root.to.cell \in Referred(<<root.to>>))
         /\ Value(root.heap, root.to) = PathStore(Value(heap, Last(stack)), p, Value(heap, v))
<1>. DEFINE held == Slot(host, stack, locals, callers)
            R == Referred(held)
            h == Last(stack)
            new == root.heap
            to == root.to
<1>0. stack # <<>> /\ stack \in Seq(HandlesOf(heap)) /\ SlotsTyped(heap, host, stack, locals, callers)
  BY InvSays
<1>1. /\ Forest(set, R) /\ New(2, set) /\ DOMAIN heap \subseteq DOMAIN set /\ OthersKept(set)
  BY <1>0, StoreOthers
<1>2. IsRef(h) => h.cell \in R
  <2>1. Len(stack) \in 1 .. Len(stack) /\ h = stack[Len(stack)]
    BY <1>0, ValuesLast
  <2>2. TopSlot \in DOMAIN held /\ held[TopSlot] = h
    BY <1>0, <2>1, SlotOnStack DEF TopSlot
  <2>. HIDE DEF held, h
  <2>. QED
    BY <2>2 DEF Referred
<1>3. HandleIn(set, h) /\ Value(set, h) = PathStore(Value(heap, h), p, Value(heap, v))
  BY <1>2, StoreValue
<1>4. IsClone(set, R, <<h>>, 2, new, <<to>>)
  <2>. HIDE DEF R, h
  <2>. QED
    BY <1>1, <1>3, CloneIs DEF h
<1>5. \A s \in DOMAIN held : HandleIn(set, held[s])
  <2>1. Known(heap, held)
    BY DEF Inv, Good, Tidy
  <2>. HIDE DEF held
  <2>. QED
    BY <1>1, <2>1 DEF Known, HandleIn
<1>. HIDE DEF R, new, to
<1>6. /\ Forest(new, R \cup Referred(<<to>>)) /\ Extends(new, set) /\ Referred(<<to>>) \cap DOMAIN set = {}
      /\ \A g : HandleIn(set, g) => HandleIn(new, g) /\ Value(new, g) = Value(set, g)
  BY <1>4 DEF IsClone
<1>7. Grown(heap, held, new, Referred(<<to>>))
  BY <1>1, <1>6 DEF Grown, Extends, R
<1>8. HandleIn(new, to) /\ (IsRef(to) => to.cell \in Referred(<<to>>)) /\ Value(new, to) = Value(set, h)
  <2>1. 1 \in DOMAIN <<to>> /\ <<to>>[1] = to /\ 1 \in DOMAIN <<h>> /\ <<h>>[1] = h
    OBVIOUS
  <2>2. Known(new, <<to>>) /\ \A i \in DOMAIN <<h>> : Value(new, <<to>>[i]) = Value(set, <<h>>[i])
    BY <1>4 DEF IsClone
  <2>3. Value(new, to) = Value(set, h) /\ HandleIn(new, to)
    <3>. HIDE DEF h
    <3>. QED
      BY <2>1, <2>2 DEF Known
  <2>4. IsRef(to) => to.cell \in Referred(<<to>>)
    BY <2>1 DEF Referred
  <2>. QED
    BY <2>3, <2>4
<1>9. OthersKept(new)
  <2>. HIDE DEF held
  <2>1. \A s \in DOMAIN held : s # TopSlot => Value(set, held[s]) = Value(heap, held[s])
    BY <1>1 DEF OthersKept, held
  <2>2. \A s \in DOMAIN held : s # TopSlot => Value(new, held[s]) = Value(heap, held[s])
    BY <1>5, <1>6, <2>1
  <2>. QED
    BY <2>2 DEF OthersKept, held
<1>. QED
  BY <1>3, <1>7, <1>8, <1>9 DEF new, to

\* StorePath: the cell changed in place is seen by the root alone, of which a clone is pushed.
LEMMA StepStorePath ==
  ASSUME Inv, StorePath
  PROVE  Inv' /\ Slots!StorePath
<1>. DEFINE h == Last(stack)
            v == stack[Len(stack) - 1]
<1>1. Len(stack) >= 2 /\ stack # <<>> /\ stack \in Seq(HandlesOf(heap)) /\ Len(stack) \in Nat
  BY InvSays DEF StorePath
<1>2. PICK p \in Paths :
        /\ PathError(Value(heap, h), p) = "ok"
        /\ \E leaf \in cloneValue(1, heap, v) :
             \E root \in cloneValue(2, [leaf.heap EXCEPT ![Walked(h, p)[Len(p) - 1].cell] = ReplaceChild(@, Last(p), leaf.to)], h) :
               Working(root.heap, Append(Keep(2), root.to), locals)
  BY DEF StorePath
<1>. DEFINE set(leaf) == [leaf.heap EXCEPT ![Walked(h, p)[Len(p) - 1].cell] = ReplaceChild(@, Last(p), leaf.to)]
<1>3. PICK leaf \in cloneValue(1, heap, v) : \E root \in cloneValue(2, set(leaf), h) :
               Working(root.heap, Append(Keep(2), root.to), locals)
  BY <1>2
<1>4. PICK root \in cloneValue(2, set(leaf), h) : Working(root.heap, Append(Keep(2), root.to), locals)
  BY <1>3
<1>5. Len(p) \in Nat \ {0} /\ Last(p) = p[Len(p)]
  <2>. DEFINE K == Scalars \cup [field : STRING]
  <2>1. p \in Seq(K) /\ p # <<>>
    BY DataAssumption
  <2>. HIDE DEF K
  <2>. QED
    BY <2>1 DEF Last
<1>6. HandleIn(heap, h) /\ HandleIn(heap, v)
  <2>. DEFINE H == HandlesOf(heap)
  <2>1. stack \in Seq(H)
    BY <1>1
  <2>. HIDE DEF H
  <2>2. h \in H
    BY <1>1, <2>1, ValuesLast
  <2>3. Len(stack) - 1 \in 1 .. Len(stack)
    BY <1>1
  <2>4. v \in H
    BY <2>1, <2>3
  <2>. QED
    BY <2>2, <2>4, HandlesAre DEF H
<1>7. Stores(h, p, v, leaf, set(leaf))
  <2>1. Storable(h, p)
    BY <1>2, <1>5, <1>6 DEF Storable
  <2>2. WayCells(h, p)[Len(p) - 1] = Walked(h, p)[Len(p) - 1].cell
    <3>1. Len(p) - 1 \in 0 .. Len(p) - 1
      BY <1>5
    <3>. QED
      BY <3>1 DEF WayCells
  <2>. QED
    BY <1>5, <1>6, <2>1, <2>2 DEF Stores
<1>. DEFINE new == root.heap
            to == root.to
<1>8. /\ Grown(heap, Slot(host, stack, locals, callers), new, Referred(<<to>>))
      /\ OthersKept(new)
      /\ HandleIn(new, to) /\ (IsRef(to) => to.cell \in Referred(<<to>>))
      /\ Value(new, to) = PathStore(Value(heap, h), p, Value(heap, v))
  <2>. HIDE DEF set, v
  <2>. QED
    BY <1>1, <1>4, <1>7, StoreRoot
<1>. HIDE DEF set
<1>9. /\ Value(new, host) = Value(heap, host) /\ Values(new, locals) = Values(heap, locals)
      /\ FramesValues(new, callers) = FramesValues(heap, callers)
      /\ Values(new, Keep(2)) = Slots!Keep(2)
  <2>1. 2 \in 1 .. Len(stack)
    BY <1>1
  <2>. QED
    BY <1>8, <2>1, OthersMean
<1>10. Inv' /\ Slots!Working(Append(Slots!Keep(2), Value(new, to)), Values(heap, locals))
  <2>1. 2 \in 0 .. Len(stack)
    BY <1>1
  <2>. QED
    BY <1>4, <1>8, <1>9, <2>1, PushStep
<1>11. Len(Values(heap, stack)) = Len(stack) /\ Slots!Last(Values(heap, stack)) = Value(heap, h)
       /\ Values(heap, stack)[Len(stack) - 1] = Value(heap, v)
  <2>. DEFINE H == HandlesOf(heap)
  <2>1. stack \in Seq(H) /\ Len(stack) - 1 \in 1 .. Len(stack)
    BY <1>1
  <2>. HIDE DEF H
  <2>2. Len(Values(heap, stack)) = Len(stack) /\ Values(heap, stack)[Len(stack) - 1] = Value(heap, v)
    BY <2>1, ValuesSeq
  <2>3. Slots!Last(Values(heap, stack)) = Value(heap, h)
    BY <1>1, <2>1, ValuesLast
  <2>. QED
    BY <2>2, <2>3
<1>12. /\ Slots!PathError(Value(heap, h), p) = PathError(Value(heap, h), p)
       /\ Slots!PathStore(Value(heap, h), p, Value(heap, v)) = PathStore(Value(heap, h), p, Value(heap, v))
  <2>. HIDE DEF h, v
  <2>. QED
    BY SlotsWalk
<1>13. /\ Slots!PathError(Slots!Last(Values(heap, stack)), p) = "ok"
       /\ Slots!Working(Append(Slots!Keep(2),
            Slots!PathStore(Slots!Last(Values(heap, stack)), p, Values(heap, stack)[Len(Values(heap, stack)) - 1])),
            Values(heap, locals))
  BY <1>2, <1>8, <1>10, <1>11, <1>12
<1>14. Len(Values(heap, stack)) >= 2
  BY <1>1, <1>11
<1>. HIDE DEF Slots!Working, Slots!PathError, Slots!PathStore, Slots!Last, Slots!Keep
<1>. QED
  BY <1>10, <1>13, <1>14 DEF Slots!StorePath

-----------------------------------------------------------------------------
(* What holds in every state.                                              *)

\* It holds at the beginning.
LEMMA InitInv ==
  ASSUME Init
  PROVE  Inv /\ Slots!Init
<1>1. DOMAIN heap = {} /\ host = DefaultValue /\ stack = <<>> /\ locals = <<>> /\ callers = <<>>
  BY DEF Init
<1>. DEFINE held == Slot(host, stack, locals, callers)
<1>2. host \in Scalars /\ ~IsRef(host)
  BY <1>1, Handles
<1>3. SlotsTyped(heap, host, stack, locals, callers)
  BY <1>1, <1>2 DEF SlotsTyped, HandlesOf, FramesOf
<1>4. ASSUME NEW s \in DOMAIN held
      PROVE  held[s] = host
  <2>1. IsSlotName(s, stack, locals, callers)
    BY <1>3, <1>4, SlotIsOneOf
  <2>2. s = <<"host", 0, 0>>
    BY <1>1, <2>1 DEF IsSlotName
  <2>. QED
    BY <1>3, <2>2, SlotIsHost
<1>5. \A s, t \in DOMAIN held : s = t
  <2>1. ASSUME NEW s \in DOMAIN held
        PROVE  s = <<"host", 0, 0>>
    <3>1. IsSlotName(s, stack, locals, callers)
      BY <1>3, <2>1, SlotIsOneOf
    <3>. QED
      BY <1>1, <3>1 DEF IsSlotName
  <2>. QED
    BY <2>1
<1>. HIDE DEF held
<1>6. Known(heap, held) /\ Apart(held) /\ Referred(held) = {}
  BY <1>2, <1>4, <1>5 DEF Known, Apart, Referred, HandleIn
<1>7. Forest(heap, Referred(held))
  <2>1. Ranks(heap, 0, 0)
    BY <1>1 DEF Ranks
  <2>. QED
    BY <1>1, <1>6, <2>1 DEF Forest, Sound, Ranked, PartsApart, Outermost
<1>8. Inv
  BY <1>1, <1>3, <1>6, <1>7 DEF Inv, Good, Tidy, Owned, New, held
<1>9. Slots!Init
  <2>1. Value(heap, host) = Slots!DefaultValue
    BY <1>1, <1>2 DEF Value, DefaultValue, Slots!DefaultValue, IntV, Slots!IntV
  <2>2. Values(heap, stack) = <<>> /\ Values(heap, locals) = <<>>
    BY <1>1 DEF Values
  <2>3. [i \in DOMAIN callers |-> [stack  |-> Values(heap, callers[i].stack),
                                   locals |-> Values(heap, callers[i].locals)]] = <<>>
    BY <1>1
  <2>. HIDE DEF Slots!DefaultValue
  <2>. QED
    BY <2>1, <2>2, <2>3 DEF Slots!Init
<1>. QED
  BY <1>8, <1>9

\* Each step keeps the cells in order, and is the step of that name on values.
LEMMA NextInv ==
  ASSUME Inv, Next
  PROVE  Inv' /\ Slots!Next
<1>1. CASE PushLiteral
  BY <1>1, StepPushLiteral DEF Slots!Next
<1>2. CASE Pop
  BY <1>2, StepPop DEF Slots!Next
<1>3. CASE LoadLocal
  BY <1>3, StepLoadLocal DEF Slots!Next
<1>4. CASE StoreLocal
  BY <1>4, StepStoreLocal DEF Slots!Next
<1>5. CASE Build
  BY <1>5, StepBuild DEF Slots!Next
<1>6. CASE LoadChild
  BY <1>6, StepLoadChild DEF Slots!Next
<1>7. CASE StorePath
  BY <1>7, StepStorePath DEF Slots!Next
<1>8. CASE CallFunction
  BY <1>8, StepCallFunction DEF Slots!Next
<1>9. CASE ReturnToCaller
  BY <1>9, StepReturnToCaller DEF Slots!Next
<1>10. CASE Finish
  BY <1>10, StepFinish DEF Slots!Next
<1>11. CASE ExecuteFunction
  BY <1>11, StepExecuteFunction DEF Slots!Next
<1>. QED
  BY <1>1, <1>2, <1>3, <1>4, <1>5, <1>6, <1>7, <1>8, <1>9, <1>10, <1>11 DEF Next

\* Nothing happens to the values when nothing happens to the cells.
LEMMA StutterInv ==
  ASSUME Inv, UNCHANGED vars
  PROVE  Inv' /\ UNCHANGED Slots!slots
<1>1. heap' = heap /\ host' = host /\ stack' = stack /\ locals' = locals /\ callers' = callers
  BY DEF vars
<1>2. Inv'
  BY <1>1 DEF Inv
<1>3. UNCHANGED Slots!slots
  BY <1>1 DEF Slots!slots
<1>. QED
  BY <1>2, <1>3

\* Each cell has an owner, and no two slots or parts are owners of the same.
LEMMA InvOneOwner ==
  ASSUME Inv
  PROVE  OneOwner
<1>. DEFINE held == Slot(host, stack, locals, callers)
<1>1. /\ PartsApart(heap) /\ Outermost(heap, Referred(held)) /\ Apart(held) /\ Known(heap, held)
      /\ Owned(heap, held)
  BY DEF Inv, Good, Tidy, Forest
<1>2. ASSUME NEW c \in DOMAIN heap
      PROVE  Cardinality(Owners(c)) = 1
  <2>. DEFINE slots  == {<<"slot", s>> : s \in {t \in DOMAIN held : held[t] = Ref(c)}}
              of(d)  == {<<"part", <<d, k>>>> : k \in {l \in RefsIn(heap, d) : Target(heap, d, l) = c}}
              parts  == UNION {of(d) : d \in DOMAIN heap}
  <2>1. Owners(c) = slots \cup parts
    BY DEF Owners, Slot
  <2>. HIDE DEF held
  <2>2. \A o \in parts : \E d \in DOMAIN heap : \E k \in RefsIn(heap, d) :
          Target(heap, d, k) = c /\ o = <<"part", <<d, k>>>>
    OBVIOUS
  <2>3. \A o \in slots : \E s \in DOMAIN held : held[s] = Ref(c) /\ o = <<"slot", s>>
    OBVIOUS
  <2>4. \A d \in DOMAIN heap : \A k \in RefsIn(heap, d) : Target(heap, d, k) = c => <<"part", <<d, k>>>> \in parts
    OBVIOUS
  <2>5. \A s \in DOMAIN held : held[s] = Ref(c) => <<"slot", s>> \in slots
    OBVIOUS
  <2>. HIDE DEF slots, parts
  <2>6. \A s \in DOMAIN held : held[s] = Ref(c) => c \in Referred(held) /\ IsRef(held[s])
    BY Handles DEF Referred
  <2>7. \A o1, o2 \in parts : o1 = o2
    BY <1>1, <2>2 DEF PartsApart
  <2>8. \A o1, o2 \in slots : o1 = o2
    BY <1>1, <2>3, <2>6 DEF Apart
  <2>9. slots = {} \/ parts = {}
    BY <1>1, <2>2, <2>3, <2>6 DEF Outermost
  <2>10. slots # {} \/ parts # {}
    <3>1. CASE c \in Referred(held)
      <4>1. PICK s \in DOMAIN held : IsRef(held[s]) /\ held[s].cell = c
        BY <3>1 DEF Referred
      <4>2. HandleIn(heap, held[s])
        BY <1>1 DEF Known
      <4>3. held[s] = Ref(c)
        BY <4>1, <4>2, Handles DEF HandleIn
      <4>. QED
        BY <2>5, <4>3
    <3>2. CASE \E d \in DOMAIN heap : \E k \in RefsIn(heap, d) : Target(heap, d, k) = c
      BY <2>4, <3>2
    <3>. QED
      BY <1>1, <3>1, <3>2 DEF Owned
  <2>11. \E o : Owners(c) = {o}
    BY <2>1, <2>7, <2>8, <2>9, <2>10
  <2>. QED
    BY <2>11, FS_Singleton
<1>. QED
  BY <1>2 DEF OneOwner

\* Whatever the literals, shapes and paths a program holds: a cell has exactly
\* one owner after every step, so that the stores of interpreter.cpp, which
\* change a cell in place, are seen through no other slot or part.
THEOREM OneOwnerAlways == Spec => []OneOwner
<1>1. Init => Inv
  BY InitInv
<1>2. Inv /\ [Next]_vars => Inv'
  BY NextInv, StutterInv
<1>3. Inv => OneOwner
  BY InvOneOwner
<1>. QED
  BY <1>1, <1>2, <1>3, PTL DEF Spec

\* The heap of cells implements slots of values: what the interpreter does with
\* shared_ptr and cloneValue cannot be told, through its slots, from keeping a
\* whole value in each of them.
THEOREM CellsImplementSlots == Spec => ImplementsSlots
<1>1. Init => Inv /\ Slots!Init
  BY InitInv
<1>2. Inv /\ [Next]_vars => Inv' /\ [Slots!Next]_(Slots!slots)
  BY NextInv, StutterInv
<1>. QED
  BY <1>1, <1>2, PTL DEF Spec, ImplementsSlots, Slots!Spec
=============================================================================
