---------------------------- MODULE Values_proofs ----------------------------
(***************************************************************************)
(* A store through a path of fields and indexes writes what the path leads *)
(* to and nothing else, for any value and a path of any length.            *)
(***************************************************************************)
EXTENDS Values, TLAPS, SequenceTheorems, WellFoundedInduction

-----------------------------------------------------------------------------
(* Induction over the naturals, for a set of them: the library states it   *)
(* for an operator.                                                        *)

\* A set of naturals that is not empty has a least one.
LEMMA LeastNatural ==
  ASSUME NEW T \in SUBSET Nat, T # {}
  PROVE  \E x \in T : \A y \in T : ~(y < x)
<1>. DEFINE R == {pair \in Nat \X Nat : pair[1] < pair[2]}
<1>1. IsWellFoundedOn(R, Nat)
  BY NatLessThanWellFounded DEF OpToRel
<1>2. \E x \in T : \A y \in T : ~(<<y, x>> \in R)
  BY <1>1, WFMin
<1>. QED
  BY <1>2

\* A set closed under adding one from zero holds every natural.
LEMMA Induction ==
  ASSUME NEW S, 0 \in S, \A n \in Nat : n \in S => n + 1 \in S
  PROVE  Nat \subseteq S
<1>. DEFINE T == Nat \ S
<1>. SUFFICES ASSUME T # {}
              PROVE  FALSE
  OBVIOUS
<1>1. PICK x \in T : \A y \in T : ~(y < x)
  BY LeastNatural
<1>2. x # 0 /\ x - 1 \in Nat /\ x - 1 < x
  BY <1>1
<1>3. x - 1 \notin T
  BY <1>1, <1>2
<1>. QED
  BY <1>1, <1>2, <1>3

-----------------------------------------------------------------------------
(* Walking along a path.                                                   *)

\* One step of the walk.
Onward(v, k) == IF StepError(v, k, FALSE) = "ok" THEN Child(v, k) ELSE NoValue

\* g is the walk along the first n of keys.
Walks(g, root, keys, n) ==
  g = [i \in 0 .. n |-> IF i = 0 THEN root ELSE Onward(g[i - 1], keys[i])]

\* A walk is defined along any number of keys.
LEMMA WalkExists ==
  ASSUME NEW root, NEW keys, NEW m \in Nat
  PROVE  \E g : Walks(g, root, keys, m)
<1>. DEFINE Good(g, n) == g = [i \in 0 .. n |-> IF i = 0 THEN root ELSE Onward(g[i - 1], keys[i])]
            S == {n \in Nat : \E g : Good(g, n)}
<1>1. 0 \in S
  <2>. DEFINE g == [i \in 0 .. 0 |-> root]
  <2>1. Good(g, 0)
    OBVIOUS
  <2>. QED
    BY <2>1
<1>2. ASSUME NEW n \in Nat, n \in S
      PROVE  n + 1 \in S
  <2>1. PICK g : Good(g, n)
    BY <1>2
  <2>. DEFINE h == [i \in 0 .. n + 1 |-> IF i = n + 1 THEN Onward(g[n], keys[n + 1]) ELSE g[i]]
  <2>2. ASSUME NEW i \in 0 .. n + 1
        PROVE  h[i] = IF i = 0 THEN root ELSE Onward(h[i - 1], keys[i])
    <3>1. CASE i = n + 1
      BY <3>1
    <3>2. CASE i \in 0 .. n
      <4>1. h[i] = g[i] /\ (i # 0 => h[i - 1] = g[i - 1])
        BY <3>2
      <4>2. g[i] = IF i = 0 THEN root ELSE Onward(g[i - 1], keys[i])
        BY <2>1, <3>2
      <4>. QED
        BY <4>1, <4>2
    <3>. QED
      BY <3>1, <3>2
  <2>3. Good(h, n + 1)
    BY <2>2
  <2>4. \E f : Good(f, n + 1)
    <3>. HIDE DEF Good, h
    <3>. QED
      BY <2>3
  <2>. QED
    BY <2>4
<1>3. m \in S
  <2>. HIDE DEF S
  <2>. QED
    BY <1>1, <1>2, Induction
<1>. QED
  BY <1>3 DEF Walks

\* What Walk computes.
LEMMA WalkSays ==
  ASSUME NEW root, NEW keys, Len(keys) \in Nat
  PROVE  /\ Walk(root, keys)[0] = root
         /\ \A i \in 1 .. Len(keys) : Walk(root, keys)[i] = Onward(Walk(root, keys)[i - 1], keys[i])
<1>1. \E g : Walks(g, root, keys, Len(keys))
  BY WalkExists
<1>2. \E g : g = [i \in 0 .. Len(keys) |-> IF i = 0 THEN root ELSE Onward(g[i - 1], keys[i])]
  BY <1>1 DEF Walks
<1>. DEFINE w == Walk(root, keys)
<1>4. w = [i \in 0 .. Len(keys) |-> IF i = 0 THEN root ELSE Onward(w[i - 1], keys[i])]
  BY <1>2 DEF Walk, Onward
<1>. QED
  BY <1>4

\* ... step by step.
LEMMA WalkOn ==
  ASSUME NEW root, NEW keys, Len(keys) \in Nat, NEW n \in Nat, n + 1 <= Len(keys)
  PROVE  Walk(root, keys)[n + 1] = Onward(Walk(root, keys)[n], keys[n + 1])
<1>1. n + 1 \in 1 .. Len(keys) /\ n + 1 - 1 = n
  OBVIOUS
<1>2. Walk(root, keys)[n + 1] = Onward(Walk(root, keys)[n + 1 - 1], keys[n + 1])
  BY <1>1, WalkSays
<1>. QED
  BY <1>1, <1>2

-----------------------------------------------------------------------------
(* One step of a path.                                                     *)

IsFunction(f) == f = [x \in DOMAIN f |-> f[x]]

\* A value as the engines build it, as far down as one step of a path looks.
IsBuilt(v) ==
  \/ \E n : v = IntV(n)
  \/ \E s : v = StrV(s)
  \/ \E b : v = BoolV(b)
  \/ \E s : v = ArrayV(s) /\ Len(s) \in Nat /\ IsFunction(s) /\ DOMAIN s = 1 .. Len(s)
  \/ \E f : v = MapV(f) /\ IsFunction(f)
  \/ \E t, f : v = StructV(t, f) /\ IsFunction(f)

\* A key of a path: an index popped, or a field name.
IsKey(k) == (\E n : k = IntV(n)) \/ (\E s : k = StrV(s)) \/ (\E b : k = BoolV(b))
            \/ (\E f : k = FieldKey(f))

\* What a step finds in an array: the element of an index in range.
LEMMA OnwardArray ==
  ASSUME NEW s, NEW j
  PROVE  Onward(ArrayV(s), j) = IF ~IsFieldKey(j) /\ IsInt(j) /\ j.int \in 0 .. Len(s) - 1
                                THEN s[j.int + 1] ELSE NoValue
<1>1. IsArray(ArrayV(s)) /\ ~IsStruct(ArrayV(s)) /\ ~IsMap(ArrayV(s)) /\ ArrayV(s).array = s
  BY DEF IsArray, IsStruct, IsMap, ArrayV
<1>2. StepError(ArrayV(s), j, FALSE) = "ok"
        <=> ~IsFieldKey(j) /\ IsInt(j) /\ j.int \in 0 .. Len(s) - 1
  BY <1>1 DEF StepError
<1>3. Child(ArrayV(s), j) = s[j.int + 1]
  BY <1>1 DEF Child
<1>. QED
  BY <1>2, <1>3 DEF Onward

\* In a map: the entry of a key that is there.
LEMMA OnwardMap ==
  ASSUME NEW f, NEW j
  PROVE  Onward(MapV(f), j) = IF ~IsFieldKey(j) /\ IsStr(j) /\ j.str \in DOMAIN f
                              THEN f[j.str] ELSE NoValue
<1>1. ~IsArray(MapV(f)) /\ ~IsStruct(MapV(f)) /\ IsMap(MapV(f)) /\ MapV(f).map = f
  BY DEF IsArray, IsStruct, IsMap, MapV
<1>2. StepError(MapV(f), j, FALSE) = "ok" <=> ~IsFieldKey(j) /\ IsStr(j) /\ j.str \in DOMAIN f
  BY <1>1 DEF StepError
<1>3. Child(MapV(f), j) = f[j.str]
  BY <1>1 DEF Child
<1>. QED
  BY <1>2, <1>3 DEF Onward

\* In a struct: the field of a name it has.
LEMMA OnwardStruct ==
  ASSUME NEW t, NEW f, NEW j
  PROVE  Onward(StructV(t, f), j) = IF IsFieldKey(j) /\ j.field \in DOMAIN f
                                    THEN f[j.field] ELSE NoValue
<1>1. /\ ~IsArray(StructV(t, f)) /\ IsStruct(StructV(t, f)) /\ ~IsMap(StructV(t, f))
      /\ StructV(t, f).struct.fields = f
  BY DEF IsArray, IsStruct, IsMap, StructV
<1>2. StepError(StructV(t, f), j, FALSE) = "ok" <=> IsFieldKey(j) /\ j.field \in DOMAIN f
  BY <1>1 DEF StepError
<1>3. Child(StructV(t, f), j) = f[j.field]
  BY <1>1 DEF Child
<1>. QED
  BY <1>2, <1>3 DEF Onward

\* The child replaced is the child read ...
LEMMA ReplacedIsRead ==
  ASSUME NEW v, NEW k, NEW c, NEW leaf \in BOOLEAN,
         IsBuilt(v), IsKey(k), StepError(v, k, leaf) = "ok"
  PROVE  Onward(ReplaceChild(v, k, c), k) = c
<1>1. CASE \E s : v = ArrayV(s) /\ Len(s) \in Nat /\ IsFunction(s) /\ DOMAIN s = 1 .. Len(s)
  <2>1. PICK s : v = ArrayV(s) /\ Len(s) \in Nat /\ IsFunction(s) /\ DOMAIN s = 1 .. Len(s)
    BY <1>1
  <2>2. IsArray(v) /\ ~IsStruct(v) /\ ~IsMap(v)
    BY <2>1 DEF IsArray, IsStruct, IsMap, ArrayV
  <2>3. ~IsFieldKey(k) /\ IsInt(k) /\ k.int \in 0 .. Len(s) - 1
    BY <2>1, <2>2 DEF StepError, ArrayV
  <2>. DEFINE u == [s EXCEPT ![k.int + 1] = c]
  <2>4. ReplaceChild(v, k, c) = ArrayV(u)
    BY <2>1, <2>2 DEF ReplaceChild, ArrayV
  <2>5. Len(u) = Len(s)
    BY <2>1
  <2>6. u[k.int + 1] = c
    BY <2>1, <2>3
  <2>. HIDE DEF u
  <2>. QED
    BY <2>3, <2>4, <2>5, <2>6, OnwardArray
<1>2. CASE \E f : v = MapV(f) /\ IsFunction(f)
  <2>1. PICK f : v = MapV(f) /\ IsFunction(f)
    BY <1>2
  <2>2. IsMap(v) /\ ~IsStruct(v) /\ ~IsArray(v)
    BY <2>1 DEF IsArray, IsStruct, IsMap, MapV
  <2>3. ~IsFieldKey(k) /\ IsStr(k)
    BY <2>1, <2>2 DEF StepError, MapV
  <2>4. ReplaceChild(v, k, c) = MapV(WithEntry(f, k.str, c))
    BY <2>1, <2>2 DEF ReplaceChild, MapV
  <2>5. k.str \in DOMAIN WithEntry(f, k.str, c) /\ WithEntry(f, k.str, c)[k.str] = c
    BY DEF WithEntry
  <2>. HIDE DEF WithEntry
  <2>. QED
    BY <2>3, <2>4, <2>5, OnwardMap
<1>3. CASE \E t, f : v = StructV(t, f) /\ IsFunction(f)
  <2>1. PICK t, f : v = StructV(t, f) /\ IsFunction(f)
    BY <1>3
  <2>2. IsStruct(v) /\ ~IsMap(v) /\ ~IsArray(v)
    BY <2>1 DEF IsArray, IsStruct, IsMap, StructV
  <2>3. IsFieldKey(k) /\ k.field \in DOMAIN f
    BY <2>1, <2>2 DEF StepError, StructV
  <2>4. ReplaceChild(v, k, c) = StructV(t, [f EXCEPT ![k.field] = c])
    BY <2>1, <2>2 DEF ReplaceChild, StructV
  <2>. QED
    BY <2>1, <2>3, <2>4, OnwardStruct
<1>4. IsArray(v) \/ IsMap(v) \/ IsStruct(v)
  BY DEF StepError
<1>. QED
  BY <1>1, <1>2, <1>3, <1>4 DEF IsBuilt, IntV, StrV, BoolV, IsArray, IsStruct, IsMap

\* ... and a step by another key finds what it found.
LEMMA OthersStay ==
  ASSUME NEW v, NEW k, NEW c, NEW leaf \in BOOLEAN, NEW j,
         IsBuilt(v), IsKey(k), IsKey(j), j # k, StepError(v, k, leaf) = "ok"
  PROVE  Onward(ReplaceChild(v, k, c), j) = Onward(v, j)
<1>1. CASE \E s : v = ArrayV(s) /\ Len(s) \in Nat /\ IsFunction(s) /\ DOMAIN s = 1 .. Len(s)
  <2>1. PICK s : v = ArrayV(s) /\ Len(s) \in Nat /\ IsFunction(s) /\ DOMAIN s = 1 .. Len(s)
    BY <1>1
  <2>2. IsArray(v) /\ ~IsStruct(v) /\ ~IsMap(v)
    BY <2>1 DEF IsArray, IsStruct, IsMap, ArrayV
  <2>3. ~IsFieldKey(k) /\ IsInt(k) /\ k.int \in 0 .. Len(s) - 1
    BY <2>1, <2>2 DEF StepError, ArrayV
  <2>. DEFINE u == [s EXCEPT ![k.int + 1] = c]
  <2>4. ReplaceChild(v, k, c) = ArrayV(u)
    BY <2>1, <2>2 DEF ReplaceChild, ArrayV
  <2>5. Len(u) = Len(s)
    BY <2>1
  <2>6. ASSUME IsInt(j), j.int \in 0 .. Len(s) - 1
        PROVE  u[j.int + 1] = s[j.int + 1]
    <3>1. j.int # k.int
      BY <2>3, <2>6 DEF IsKey, IsInt, IntV, StrV, BoolV, FieldKey
    <3>. QED
      BY <2>1, <2>3, <2>6, <3>1
  <2>. HIDE DEF u
  <2>. QED
    BY <2>1, <2>4, <2>5, <2>6, OnwardArray
<1>2. CASE \E f : v = MapV(f) /\ IsFunction(f)
  <2>1. PICK f : v = MapV(f) /\ IsFunction(f)
    BY <1>2
  <2>2. IsMap(v) /\ ~IsStruct(v) /\ ~IsArray(v)
    BY <2>1 DEF IsArray, IsStruct, IsMap, MapV
  <2>3. ~IsFieldKey(k) /\ IsStr(k)
    BY <2>1, <2>2 DEF StepError, MapV
  <2>. DEFINE u == WithEntry(f, k.str, c)
  <2>4. ReplaceChild(v, k, c) = MapV(u)
    BY <2>1, <2>2 DEF ReplaceChild, MapV
  <2>5. ASSUME IsStr(j)
        PROVE  /\ j.str \in DOMAIN u <=> j.str \in DOMAIN f
               /\ j.str \in DOMAIN f => u[j.str] = f[j.str]
    <3>1. j.str # k.str
      BY <2>3, <2>5 DEF IsKey, IsStr, IntV, StrV, BoolV, FieldKey
    <3>. QED
      BY <3>1 DEF WithEntry
  <2>. HIDE DEF u
  <2>. QED
    BY <2>1, <2>4, <2>5, OnwardMap
<1>3. CASE \E t, f : v = StructV(t, f) /\ IsFunction(f)
  <2>1. PICK t, f : v = StructV(t, f) /\ IsFunction(f)
    BY <1>3
  <2>2. IsStruct(v) /\ ~IsMap(v) /\ ~IsArray(v)
    BY <2>1 DEF IsArray, IsStruct, IsMap, StructV
  <2>3. IsFieldKey(k) /\ k.field \in DOMAIN f
    BY <2>1, <2>2 DEF StepError, StructV
  <2>. DEFINE u == [f EXCEPT ![k.field] = c]
  <2>4. ReplaceChild(v, k, c) = StructV(t, u)
    BY <2>1, <2>2 DEF ReplaceChild, StructV
  <2>5. ASSUME IsFieldKey(j)
        PROVE  j.field \in DOMAIN f => u[j.field] = f[j.field]
    <3>1. j.field # k.field
      BY <2>3, <2>5 DEF IsKey, IsFieldKey, IntV, StrV, BoolV, FieldKey
    <3>. QED
      BY <3>1
  <2>6. DOMAIN u = DOMAIN f
    OBVIOUS
  <2>. HIDE DEF u
  <2>. QED
    BY <2>1, <2>4, <2>5, <2>6, OnwardStruct
<1>4. IsArray(v) \/ IsMap(v) \/ IsStruct(v)
  BY DEF StepError
<1>. QED
  BY <1>1, <1>2, <1>3, <1>4 DEF IsBuilt, IntV, StrV, BoolV, IsArray, IsStruct, IsMap

-----------------------------------------------------------------------------
(* Storing along a path.                                                   *)

\* The store succeeds: no step of the path fails.
LEMMA NoStepFails ==
  ASSUME NEW root, NEW keys, Len(keys) \in Nat, PathError(root, keys) = "ok",
         NEW i \in 1 .. Len(keys)
  PROVE  StepError(Walk(root, keys)[i - 1], keys[i], i = Len(keys)) = "ok"
<1>. DEFINE at(j)  == StepError(Walk(root, keys)[j - 1], keys[j], j = Len(keys))
            failed == {j \in 1 .. Len(keys) : at(j) # "ok"}
<1>. SUFFICES ASSUME at(i) # "ok"
              PROVE  FALSE
  OBVIOUS
<1>1. \E x \in failed : \A y \in failed : x <= y
  <2>1. failed \in SUBSET Nat /\ failed # {}
    OBVIOUS
  <2>. HIDE DEF failed
  <2>2. PICK x \in failed : \A y \in failed : ~(y < x)
    BY <2>1, LeastNatural
  <2>. QED
    BY <2>1, <2>2
<1>2. failed # {}
  OBVIOUS
<1>3. PathError(root, keys) = at(CHOOSE x \in failed : \A y \in failed : x <= y)
  BY <1>2 DEF PathError
<1>4. (CHOOSE x \in failed : \A y \in failed : x <= y) \in failed
  <2>. HIDE DEF failed
  <2>. QED
    BY <1>1
<1>. QED
  BY <1>3, <1>4

\* r is the values rebuilt from the n-th to the m-th, the m-th being v.
Rebuilds(r, node, keys, v, n, m) ==
  r = [i \in n .. m |-> IF i = m THEN v ELSE ReplaceChild(node[i], keys[i + 1], r[i + 1])]

\* The rebuilding is defined, from the end of any path back to its root.
LEMMA RebuiltExists ==
  ASSUME NEW node, NEW keys, NEW v, NEW m \in Nat
  PROVE  \E r : Rebuilds(r, node, keys, v, 0, m)
<1>. DEFINE S == {n \in Nat : n <= m => \E r : Rebuilds(r, node, keys, v, m - n, m)}
<1>1. 0 \in S
  <2>. DEFINE r == [i \in m .. m |-> v]
  <2>1. Rebuilds(r, node, keys, v, m, m)
    BY DEF Rebuilds
  <2>. QED
    BY <2>1
<1>2. ASSUME NEW n \in Nat, n \in S
      PROVE  n + 1 \in S
  <2>. SUFFICES ASSUME n + 1 <= m
                PROVE  \E r : Rebuilds(r, node, keys, v, m - (n + 1), m)
    OBVIOUS
  <2>. DEFINE a == m - (n + 1)
  <2>1. a \in Nat /\ a < m /\ m - n = a + 1
    OBVIOUS
  <2>2. PICK r : Rebuilds(r, node, keys, v, a + 1, m)
    BY <1>2, <2>1
  <2>. HIDE DEF a
  <2>. DEFINE h == [i \in a .. m |->
                     IF i = a THEN ReplaceChild(node[a], keys[a + 1], r[a + 1]) ELSE r[i]]
  <2>3. ASSUME NEW i \in a .. m
        PROVE  h[i] = IF i = m THEN v ELSE ReplaceChild(node[i], keys[i + 1], h[i + 1])
    <3>1. CASE i = a
      BY <2>1, <3>1
    <3>2. CASE i \in a + 1 .. m
      <4>1. h[i] = r[i] /\ (i # m => h[i + 1] = r[i + 1])
        BY <2>1, <3>2
      <4>2. r[i] = IF i = m THEN v ELSE ReplaceChild(node[i], keys[i + 1], r[i + 1])
        BY <2>2, <3>2 DEF Rebuilds
      <4>. QED
        BY <4>1, <4>2
    <3>. QED
      BY <2>1, <3>1, <3>2
  <2>4. Rebuilds(h, node, keys, v, a, m)
    BY <2>3 DEF Rebuilds
  <2>. QED
    BY <2>4 DEF a
<1>3. m \in S
  <2>. HIDE DEF S
  <2>. QED
    BY <1>1, <1>2, Induction
<1>. QED
  BY <1>3

\* What PathStore computes.
LEMMA StoreSays ==
  ASSUME NEW root, NEW keys, NEW v, Len(keys) \in Nat
  PROVE  \E r : /\ r[0] = PathStore(root, keys, v)
               /\ r[Len(keys)] = v
               /\ \A i \in 0 .. Len(keys) - 1 :
                    r[i] = ReplaceChild(Walk(root, keys)[i], keys[i + 1], r[i + 1])
<1>. DEFINE node == Walk(root, keys)
<1>. HIDE DEF node
<1>1. \E r : Rebuilds(r, node, keys, v, 0, Len(keys))
  BY RebuiltExists
<1>2. \E r : r = [i \in 0 .. Len(keys) |->
                  IF i = Len(keys) THEN v ELSE ReplaceChild(node[i], keys[i + 1], r[i + 1])]
  BY <1>1 DEF Rebuilds
<1>. DEFINE w == CHOOSE r : r = [i \in 0 .. Len(keys) |->
                  IF i = Len(keys) THEN v ELSE ReplaceChild(node[i], keys[i + 1], r[i + 1])]
<1>3. w = [i \in 0 .. Len(keys) |->
            IF i = Len(keys) THEN v ELSE ReplaceChild(node[i], keys[i + 1], w[i + 1])]
  BY <1>2
<1>4. PathStore(root, keys, v) = w[0]
  BY DEF PathStore, node
<1>. HIDE DEF w
<1>5. /\ w[Len(keys)] = v
      /\ \A i \in 0 .. Len(keys) - 1 : w[i] = ReplaceChild(node[i], keys[i + 1], w[i + 1])
  BY <1>3
<1>. QED
  BY <1>4, <1>5 DEF node

\* keys are those of a path, which leads through values of the engines.
IsPath(root, keys) ==
  /\ Len(keys) \in Nat
  /\ \A i \in 1 .. Len(keys) : IsKey(keys[i]) /\ IsBuilt(Walk(root, keys)[i - 1])

\* On the way along the path, the new root holds what was rebuilt.
LEMMA WalkRebuilt ==
  ASSUME NEW root, NEW keys, NEW v, NEW r, IsPath(root, keys), PathError(root, keys) = "ok",
         r[0] = PathStore(root, keys, v),
         \A i \in 0 .. Len(keys) - 1 :
           r[i] = ReplaceChild(Walk(root, keys)[i], keys[i + 1], r[i + 1])
  PROVE  \A i \in 0 .. Len(keys) : Walk(PathStore(root, keys, v), keys)[i] = r[i]
<1>. DEFINE new == PathStore(root, keys, v)
            S == {n \in Nat : n <= Len(keys) => Walk(new, keys)[n] = r[n]}
<1>0. Len(keys) \in Nat
  BY DEF IsPath
<1>. HIDE DEF new
<1>1. 0 \in S
  BY <1>0, WalkSays DEF new
<1>2. ASSUME NEW n \in Nat, n \in S
      PROVE  n + 1 \in S
  <2>. SUFFICES ASSUME n + 1 \in 1 .. Len(keys)
                PROVE  Walk(new, keys)[n + 1] = r[n + 1]
    BY <1>0
  <2>. DEFINE k == keys[n + 1]  at == Walk(root, keys)[n]
  <2>1. Walk(new, keys)[n + 1] = Onward(Walk(new, keys)[n], k)
    BY <1>0, WalkOn
  <2>2. Walk(new, keys)[n] = ReplaceChild(at, k, r[n + 1])
    BY <1>0, <1>2
  <2>3. IsKey(k) /\ IsBuilt(at)
    <3>1. IsBuilt(Walk(root, keys)[n + 1 - 1])
      BY DEF IsPath
    <3>. QED
      BY <3>1 DEF IsPath
  <2>4. StepError(at, k, n + 1 = Len(keys)) = "ok"
    <3>1. StepError(Walk(root, keys)[n + 1 - 1], keys[n + 1], n + 1 = Len(keys)) = "ok"
      BY <1>0, NoStepFails
    <3>2. n + 1 - 1 = n
      OBVIOUS
    <3>. QED
      BY <3>1, <3>2
  <2>5. (n + 1 = Len(keys)) \in BOOLEAN
    OBVIOUS
  <2>. HIDE DEF k, at
  <2>. QED
    BY <2>1, <2>2, <2>3, <2>4, <2>5, ReplacedIsRead
<1>. HIDE DEF S
<1>3. Nat \subseteq S
  BY <1>1, <1>2, Induction
<1>. QED
  BY <1>0, <1>3 DEF S, new

\* storeFieldPath and storeIndexPath: the path read back gives the value
\* stored, however long it is.
THEOREM StoreReadsBack ==
  ASSUME NEW root, NEW keys, NEW v, IsPath(root, keys), PathError(root, keys) = "ok"
  PROVE  Walk(PathStore(root, keys, v), keys)[Len(keys)] = v
<1>1. Len(keys) \in Nat
  BY DEF IsPath
<1>2. PICK r : /\ r[0] = PathStore(root, keys, v)
               /\ r[Len(keys)] = v
               /\ \A i \in 0 .. Len(keys) - 1 :
                    r[i] = ReplaceChild(Walk(root, keys)[i], keys[i + 1], r[i + 1])
  BY <1>1, StoreSays
<1>3. \A i \in 0 .. Len(keys) : Walk(PathStore(root, keys, v), keys)[i] = r[i]
  BY <1>2, WalkRebuilt
<1>. QED
  BY <1>1, <1>2, <1>3

\* Walks that agree so far on the keys agree on the values.
LEMMA SameWalk ==
  ASSUME NEW root, NEW p, NEW q, Len(p) \in Nat, Len(q) \in Nat,
         NEW d \in Nat, d <= Len(p), d <= Len(q), \A i \in 1 .. d : p[i] = q[i]
  PROVE  \A i \in 0 .. d : Walk(root, p)[i] = Walk(root, q)[i]
<1>. DEFINE S == {n \in Nat : n <= d => Walk(root, p)[n] = Walk(root, q)[n]}
<1>1. 0 \in S
  BY WalkSays
<1>2. ASSUME NEW n \in Nat, n \in S
      PROVE  n + 1 \in S
  <2>. SUFFICES ASSUME n + 1 <= d
                PROVE  Walk(root, p)[n + 1] = Walk(root, q)[n + 1]
    OBVIOUS
  <2>1. n + 1 \in 1 .. d /\ n + 1 <= Len(p) /\ n + 1 <= Len(q)
    OBVIOUS
  <2>2. Walk(root, p)[n + 1] = Onward(Walk(root, p)[n], p[n + 1])
    BY <2>1, WalkOn
  <2>3. Walk(root, q)[n + 1] = Onward(Walk(root, q)[n], q[n + 1])
    BY <2>1, WalkOn
  <2>. QED
    BY <1>2, <2>1, <2>2, <2>3
<1>. HIDE DEF S
<1>3. Nat \subseteq S
  BY <1>1, <1>2, Induction
<1>. QED
  BY <1>3 DEF S

\* A path that leaves the one stored through leads to what it led to, or
\* fails where it failed: a store changes no other part of the value.
THEOREM StoreKeepsOthers ==
  ASSUME NEW root, NEW keys, NEW v, IsPath(root, keys), PathError(root, keys) = "ok",
         NEW other, Len(other) \in Nat,
         NEW d \in Nat, d < Len(keys), d < Len(other), IsKey(other[d + 1]),
         \A i \in 1 .. d : other[i] = keys[i],
         other[d + 1] # keys[d + 1]
  PROVE  \A i \in d + 1 .. Len(other) :
           Walk(PathStore(root, keys, v), other)[i] = Walk(root, other)[i]
<1>. DEFINE new == PathStore(root, keys, v)
            S == {n \in Nat : d + 1 + n <= Len(other) =>
                             Walk(new, other)[d + 1 + n] = Walk(root, other)[d + 1 + n]}
<1>0. Len(keys) \in Nat
  BY DEF IsPath
<1>1. 0 \in S
  <2>1. PICK r : /\ r[0] = PathStore(root, keys, v)
                 /\ r[Len(keys)] = v
                 /\ \A i \in 0 .. Len(keys) - 1 :
                      r[i] = ReplaceChild(Walk(root, keys)[i], keys[i + 1], r[i + 1])
    BY <1>0, StoreSays
  <2>2. \A i \in 0 .. Len(keys) : Walk(new, keys)[i] = r[i]
    BY <2>1, WalkRebuilt
  <2>. HIDE DEF new
  <2>3. Walk(new, other)[d] = Walk(new, keys)[d] /\ Walk(root, other)[d] = Walk(root, keys)[d]
    BY <1>0, SameWalk
  <2>. DEFINE k == keys[d + 1]  at == Walk(root, keys)[d]
  <2>4. Walk(new, other)[d] = ReplaceChild(at, k, r[d + 1])
    BY <1>0, <2>1, <2>2, <2>3
  <2>5. d + 1 \in 1 .. Len(keys) /\ d + 1 \in 1 .. Len(other) /\ d + 1 - 1 = d
    BY <1>0
  <2>6. IsKey(k) /\ IsBuilt(at)
    BY <2>5 DEF IsPath
  <2>7. /\ StepError(at, k, d + 1 = Len(keys)) = "ok"
        /\ (d + 1 = Len(keys)) \in BOOLEAN
    <3>1. StepError(Walk(root, keys)[d + 1 - 1], keys[d + 1], d + 1 = Len(keys)) = "ok"
      BY <1>0, <2>5, NoStepFails
    <3>. QED
      BY <2>5, <3>1
  <2>8. Onward(Walk(new, other)[d], other[d + 1]) = Onward(Walk(root, other)[d], other[d + 1])
    <3>. DEFINE j == other[d + 1]  c == r[d + 1]  leaf == d + 1 = Len(keys)
    <3>1. IsKey(j) /\ j # k /\ leaf \in BOOLEAN
      OBVIOUS
    <3>2. StepError(at, k, leaf) = "ok"
      BY <2>7
    <3>. HIDE DEF j, k, at, c, leaf
    <3>3. Onward(ReplaceChild(at, k, c), j) = Onward(at, j)
      BY <2>6, <3>1, <3>2, OthersStay
    <3>. QED
      BY <2>3, <2>4, <3>3 DEF at, j, c
  <2>9. /\ Walk(new, other)[d + 1] = Onward(Walk(new, other)[d], other[d + 1])
        /\ Walk(root, other)[d + 1] = Onward(Walk(root, other)[d], other[d + 1])
    <3>1. d + 1 <= Len(other)
      BY <2>5
    <3>. QED
      BY <3>1, WalkOn
  <2>. QED
    BY <2>8, <2>9
<1>. HIDE DEF new
<1>2. ASSUME NEW n \in Nat, n \in S
      PROVE  n + 1 \in S
  <2>. DEFINE m == d + 1 + n
  <2>1. m \in Nat /\ d + 1 + (n + 1) = m + 1
    OBVIOUS
  <2>2. m <= Len(other) => Walk(new, other)[m] = Walk(root, other)[m]
    BY <1>2 DEF S
  <2>. HIDE DEF m
  <2>3. ASSUME m + 1 <= Len(other)
        PROVE  Walk(new, other)[m + 1] = Walk(root, other)[m + 1]
    <3>1. Walk(new, other)[m + 1] = Onward(Walk(new, other)[m], other[m + 1])
      BY <2>1, <2>3, WalkOn
    <3>2. Walk(root, other)[m + 1] = Onward(Walk(root, other)[m], other[m + 1])
      BY <2>1, <2>3, WalkOn
    <3>3. m <= Len(other)
      BY <2>1, <2>3
    <3>. QED
      BY <2>2, <3>1, <3>2, <3>3
  <2>. QED
    BY <2>1, <2>3 DEF S
<1>3. Nat \subseteq S
  BY <1>1, <1>2, Induction
<1>4. ASSUME NEW i \in d + 1 .. Len(other)
      PROVE  Walk(new, other)[i] = Walk(root, other)[i]
  <2>. DEFINE n == i - (d + 1)
  <2>1. n \in Nat /\ d + 1 + n = i /\ i <= Len(other)
    OBVIOUS
  <2>2. n \in S
    BY <1>3, <2>1
  <2>. HIDE DEF n
  <2>. QED
    BY <2>1, <2>2 DEF S
<1>. QED
  BY <1>4 DEF new
=============================================================================
