------------------------------- MODULE Values -------------------------------
(***************************************************************************)
(* Runtime values of Velo (include/velo/runtime/value.h) and the pure      *)
(* operations both execution engines apply to them.                        *)
(*                                                                         *)
(* std::variant is a record with one field, the name of the field being    *)
(* the alternative held.  Aggregates are plain TLA+ values: every load and *)
(* store of the engines copies what a shared_ptr points to (cloneValue).   *)
(***************************************************************************)
EXTENDS Integers, Sequences

CONSTANTS
  MaxInt      \* INT_MAX of the build: 2^31 - 1

ASSUME MaxIntAssumption == MaxInt \in Nat \ {0}

-----------------------------------------------------------------------------
(* The alternatives of the variant.                                        *)

IntV(n)    == [int |-> n]
StrV(s)    == [str |-> s]
BoolV(b)   == [bool |-> b]
ArrayV(s)  == [array |-> s]
MapV(f)    == [map |-> f]
StructV(t, f) == [struct |-> [type |-> t, fields |-> f]]

\* Value{}: a default-constructed variant holds its first alternative, int 0.
DefaultValue == IntV(0)

\* Not a value: what a failed lookup yields.
NoValue == [none |-> TRUE]

IsInt(v)    == DOMAIN v = {"int"}
IsStr(v)    == DOMAIN v = {"str"}
IsBool(v)   == DOMAIN v = {"bool"}
IsArray(v)  == DOMAIN v = {"array"}
IsMap(v)    == DOMAIN v = {"map"}
IsStruct(v) == DOMAIN v = {"struct"}

SameScalar(l, r) ==
  \/ IsInt(l)  /\ IsInt(r)
  \/ IsStr(l)  /\ IsStr(r)
  \/ IsBool(l) /\ IsBool(r)

-----------------------------------------------------------------------------
(* int arithmetic.  Signed overflow is undefined in C++; the repository's  *)
(* presets give the compiler no flag about it and the generated            *)
(* instructions wrap in two's complement.                                  *)

MinInt == -MaxInt - 1

Wrap(n) == ((n - MinInt) % (MaxInt - MinInt + 1)) + MinInt

\* C++ division truncates towards zero, TLA+ \div rounds down.
Abs(n) == IF n < 0 THEN -n ELSE n
TruncDiv(a, b) == LET q == Abs(a) \div Abs(b)
                  IN  IF (a < 0) = (b < 0) THEN q ELSE -q

ArithOps == {"AddInt", "SubInt", "MulInt", "DivInt", "ModInt"}

Arith(op, l, r) ==
  CASE op = "AddInt" -> Wrap(l + r)
    [] op = "SubInt" -> Wrap(l - r)
    [] op = "MulInt" -> Wrap(l * r)
    [] op = "DivInt" -> TruncDiv(l, r)
    [] op = "ModInt" -> l - r * TruncDiv(l, r)

\* The quotient that does not fit an int: the processor traps.
DivideTraps(op, l, r) == op \in {"DivInt", "ModInt"} /\ l = MinInt /\ r = -1

OrderOps == {"CompareLessInt", "CompareGreaterInt",
             "CompareLessEqualInt", "CompareGreaterEqualInt"}

Ordered(op, l, r) ==
  CASE op = "CompareLessInt"         -> l < r
    [] op = "CompareGreaterInt"      -> l > r
    [] op = "CompareLessEqualInt"    -> l <= r
    [] op = "CompareGreaterEqualInt" -> l >= r

-----------------------------------------------------------------------------
(* One step of a path: a field name (FieldKey) or an index value.          *)

FieldKey(f) == [field |-> f]

IsFieldKey(k) == DOMAIN k = {"field"}

\* Why one step from v by k fails, "ok" if it does not.  Storing at the leaf
\* of an index path inserts a missing map key; nothing else does.
StepError(v, k, storeLeaf) ==
  IF IsFieldKey(k)
  THEN CASE ~IsStruct(v) -> "type"
         [] IsStruct(v) /\ k.field \notin DOMAIN v.struct.fields -> "field"
         [] OTHER -> "ok"
  ELSE CASE IsArray(v) /\ ~IsInt(k) -> "type"
         [] IsArray(v) /\ IsInt(k) ->
              IF k.int \in 0 .. Len(v.array) - 1 THEN "ok" ELSE "index"
         [] IsMap(v) /\ ~IsStr(k) -> "type"
         [] IsMap(v) /\ IsStr(k) ->
              IF storeLeaf \/ k.str \in DOMAIN v.map THEN "ok" ELSE "key"
         [] OTHER -> "type"

Child(v, k) ==
  CASE IsStruct(v) -> v.struct.fields[k.field]
    [] IsArray(v)  -> v.array[k.int + 1]
    [] IsMap(v)    -> v.map[k.str]

WithEntry(f, k, c) == [x \in DOMAIN f \cup {k} |-> IF x = k THEN c ELSE f[x]]

ReplaceChild(v, k, c) ==
  CASE IsStruct(v) -> [v EXCEPT !.struct.fields[k.field] = c]
    [] IsArray(v)  -> [v EXCEPT !.array[k.int + 1] = c]
    [] IsMap(v)    -> [v EXCEPT !.map = WithEntry(@, k.str, c)]

\* The values on the way from root along keys, NoValue after a failed step.
Walk(root, keys) ==
  LET node[i \in 0 .. Len(keys)] ==
        IF i = 0 THEN root
        ELSE IF StepError(node[i - 1], keys[i], FALSE) = "ok"
             THEN Child(node[i - 1], keys[i])
             ELSE NoValue
  IN  node

\* The first error met when storing through keys, "ok" if the store succeeds.
PathError(root, keys) ==
  LET node   == Walk(root, keys)
      at(i)  == StepError(node[i - 1], keys[i], i = Len(keys))
      failed == {i \in 1 .. Len(keys) : at(i) # "ok"}
  IN  IF failed = {} THEN "ok"
      ELSE at(CHOOSE i \in failed : \A j \in failed : i <= j)

\* root with the value at the end of keys replaced by v.
PathStore(root, keys, v) ==
  LET node == Walk(root, keys)
      rebuilt[i \in 0 .. Len(keys)] ==
        IF i = Len(keys) THEN v
        ELSE ReplaceChild(node[i], keys[i + 1], rebuilt[i + 1])
  IN  rebuilt[0]

-----------------------------------------------------------------------------
(* Building aggregates from the operands popped.                           *)

\* StructValue::fields.emplace keeps the first of two equal names ...
BuiltStruct(type, names, vals) ==
  LET first(f) == CHOOSE i \in 1 .. Len(names) :
                    names[i] = f /\ \A j \in 1 .. i - 1 : names[j] # f
  IN  StructV(type, [f \in {names[i] : i \in 1 .. Len(names)} |-> vals[first(f)]])

\* ... and MapValue::entries[key] = the last of two equal keys.
BuiltMap(keys, vals) ==
  LET last(k) == CHOOSE i \in 1 .. Len(keys) :
                   keys[i] = k /\ \A j \in i + 1 .. Len(keys) : keys[j] # k
  IN  MapV([k \in {keys[i] : i \in 1 .. Len(keys)} |-> vals[last(k)]])
=============================================================================
