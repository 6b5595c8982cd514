----------------------- MODULE StackDiscipline_proofs -----------------------
(***************************************************************************)
(* The handlers that both engines share keep to the shape of the code, for *)
(* any number of values (left) that a call of each function leaves.        *)
(***************************************************************************)
EXTENDS StackDiscipline, Machine_proofs

\* What is asked of the module loaded: a shape, and a main without parameters.
Shaped(left) ==
  WellShaped(Modules[mod], Shape[mod], left[mod]) /\ MainTakesNothing

HistoryIsSeq ==
  Len(history) \in Nat /\ history = [k \in 1 .. Len(history) |-> history[k]]

\* The inductive invariant.
ShapeInv == ShapeHolds /\ HistoryIsSeq /\ NoStructuralError

\* The module loaded stays the module loaded.
LEMMA ShapedStays ==
  ASSUME NEW left, mod' = mod
  PROVE  Shaped(left)' <=> Shaped(left)
  BY DEF Shaped, MainTakesNothing

-----------------------------------------------------------------------------
(* What the shape says about the instruction that is next.                 *)

LEMMA ShapeNow ==
  ASSUME NEW left, Shaped(left), TypeOK, ShapeInv, NEW ops, At(ops)
  PROVE  LET sh == Shape[mod][fn]
         IN  /\ ip \in DOMAIN sh \ {Len(Code)}
             /\ sh[ip] \in [depth : Nat, slots : Nat]
             /\ Len(stack) = sh[ip].depth
             /\ Len(locals) >= sh[ip].slots
             /\ Fits(Instr, sh[ip], Modules[mod])
             /\ \A t \in Successors(Instr, ip) :
                  /\ t \in DOMAIN sh
                  /\ sh[t] \in [depth : Nat, slots : Nat]
                  /\ sh[t].depth = DepthAfter(Instr, sh[ip].depth, left[mod])
                  /\ sh[t].slots <= SlotsAfter(Instr, sh[ip].slots)
<1>. DEFINE sh == Shape[mod][fn]
<1>1. mod \in DOMAIN Modules /\ fn \in DOMAIN Modules[mod] /\ status = "running"
  BY DEF TypeOK, At
<1>2. FunctionWellShaped(Modules[mod], fn, sh, left[mod])
  BY <1>1 DEF Shaped, WellShaped
<1>3. /\ ip \in DOMAIN sh
      /\ Len(stack) = sh[ip].depth /\ Len(locals) >= sh[ip].slots
  BY <1>1 DEF ShapeInv, ShapeHolds
<1>4. ip \in DOMAIN sh \ {Len(Code)}
  BY <1>1, <1>3, ModulesAssumption DEF TypeOK, At, Code
<1>5. sh \in [DOMAIN sh -> [depth : Nat, slots : Nat]]
  BY <1>2 DEF FunctionWellShaped
<1>6. /\ Fits(Instr, sh[ip], Modules[mod])
      /\ \A t \in Successors(Instr, ip) :
           /\ t \in DOMAIN sh
           /\ sh[t].depth = DepthAfter(Instr, sh[ip].depth, left[mod])
           /\ sh[t].slots <= SlotsAfter(Instr, sh[ip].slots)
  BY <1>2, <1>4 DEF FunctionWellShaped, Code, Instr
<1>. QED
  BY <1>3, <1>4, <1>5, <1>6

\* The operands the next instruction pops are there.
LEMMA PopsFit ==
  ASSUME NEW left, Shaped(left), TypeOK, ShapeInv, NEW ops, At(ops)
  PROVE  Pops(Instr) \in Nat /\ Pops(Instr) <= Len(stack)
<1>1. Pops(Instr) \in Nat
  BY CurrentInstr DEF WellFormed, Pops
<1>. QED
  BY <1>1, ShapeNow DEF Fits

-----------------------------------------------------------------------------
(* How instructions end.                                                   *)

\* One more ended call whose error is not structural.
LEMMA HistoryGrows ==
  ASSUME HistoryIsSeq, NoStructuralError, NEW e, history' = Append(history, e),
         e.result.error \notin StructuralErrors
  PROVE  HistoryIsSeq' /\ NoStructuralError'
<1>. DEFINE S == {history[k] : k \in 1 .. Len(history)} \cup {e}
<1>1. history \in Seq(S)
  BY TableIsSeq DEF HistoryIsSeq
<1>2. /\ Append(history, e) \in Seq(S)
      /\ Len(Append(history, e)) = Len(history) + 1
      /\ \A k \in 1 .. Len(history) : Append(history, e)[k] = history[k]
      /\ Append(history, e)[Len(history) + 1] = e
  BY <1>1, AppendProperties
<1>3. HistoryIsSeq'
  BY <1>2, LenProperties DEF HistoryIsSeq
<1>4. ASSUME NEW k \in 1 .. Len(history')
      PROVE  history'[k].result.error \notin StructuralErrors
  <2>1. CASE k = Len(history) + 1
    BY <1>2, <2>1
  <2>2. CASE k \in 1 .. Len(history)
    BY <1>2, <2>2 DEF NoStructuralError
  <2>. QED
    BY <1>2, <2>1, <2>2 DEF HistoryIsSeq
<1>. QED
  BY <1>3, <1>4 DEF NoStructuralError

LEMMA HistoryStays ==
  ASSUME HistoryIsSeq, NoStructuralError, history' = history
  PROVE  HistoryIsSeq' /\ NoStructuralError'
  BY DEF HistoryIsSeq, NoStructuralError

\* Without activations there is nothing left to have a shape.
LEMMA NoFramesNoShape ==
  ASSUME frames' = <<>>, status' # "running"
  PROVE  ShapeHolds'
  BY DEF ShapeHolds

LEMMA FailShape ==
  ASSUME ShapeInv, NEW n, NEW why, why \notin StructuralErrors, Fail(n, why)
  PROVE  ShapeInv'
<1>1. ShapeHolds'
  BY NoFramesNoShape DEF Fail
<1>2. Failure(why).error = why
  BY DEF Failure
<1>3. HistoryIsSeq' /\ NoStructuralError'
  BY <1>2, HistoryGrows DEF Fail, Ended, ShapeInv
<1>. QED
  BY <1>1, <1>3 DEF ShapeInv

\* Waiting activations keep their shape while the frames stay.
LEMMA GotoShape ==
  ASSUME NEW left, Shaped(left), TypeOK, ShapeInv, NEW ops, At(ops),
         NEW t \in Successors(Instr, ip), Goto(t),
         Len(stack') = DepthAfter(Instr, Len(stack), left[mod]),
         Len(locals') \in Nat, Len(locals') >= SlotsAfter(Instr, Len(locals))
  PROVE  ShapeInv'
<1>. DEFINE sh == Shape[mod][fn]
<1>1. /\ mod' = mod /\ fn' = fn /\ ip' = t /\ status' = status
      /\ frames' = frames /\ history' = history
  BY DEF Goto
<1>2. /\ t \in DOMAIN sh
      /\ Len(stack') = sh[t].depth
      /\ sh[t].slots \in Nat /\ sh[t].slots <= SlotsAfter(Instr, sh[ip].slots)
  BY ShapeNow
<1>3. SlotsAfter(Instr, sh[ip].slots) <= SlotsAfter(Instr, Len(locals))
  <2>1. sh[ip].slots \in Nat /\ Len(locals) \in Nat /\ Len(locals) >= sh[ip].slots
    BY ShapeNow, LenProperties DEF TypeOK
  <2>2. Instr.op = "StoreLocal" => Instr.idx \in Nat
    BY CurrentInstr DEF WellFormed
  <2>. QED
    BY <2>1, <2>2 DEF SlotsAfter
<1>4. SlotsAfter(Instr, sh[ip].slots) \in Nat /\ SlotsAfter(Instr, Len(locals)) \in Nat
  <2>1. sh[ip].slots \in Nat /\ Len(locals) \in Nat
    BY ShapeNow, LenProperties DEF TypeOK
  <2>2. Instr.op = "StoreLocal" => Instr.idx \in Nat
    BY CurrentInstr DEF WellFormed
  <2>. QED
    BY <2>1, <2>2 DEF SlotsAfter
<1>5. Len(locals') >= sh[t].slots
  BY <1>2, <1>3, <1>4
<1>6. ShapeHolds'
  BY <1>1, <1>2, <1>5 DEF ShapeInv, ShapeHolds, Callee
<1>. QED
  BY <1>1, <1>6, HistoryStays DEF ShapeInv

\* The instructions that replace their operands by one value.
Replacing ==
  {"PushInt", "PushString", "PushBool", "LoadLocal", "NegInt", "LogicalNot",
   "LogicalAnd", "LogicalOr", "CompareEqual", "CompareNotEqual", "CompareEqualInt",
   "CompareNotEqualInt", "BuildStruct", "BuildArray", "BuildMap", "LoadField",
   "LoadIndex", "StoreFieldPath", "StoreIndexPath"} \cup ArithOps \cup OrderOps

LEMMA ReplaceShape ==
  ASSUME NEW left, Shaped(left), TypeOK, ShapeInv, At(Replacing), NEW v, Replace(Pops(Instr), v)
  PROVE  ShapeInv'
<1>. DEFINE n == Pops(Instr)
<1>1. /\ v \in Value /\ stack' = Append(Below(n), v) /\ Goto(ip + 1) /\ locals' = locals
  BY DEF Replace
<1>2. n \in Nat /\ n <= Len(stack) /\ stack \in Seq(Value)
  BY PopsFit DEF TypeOK
<1>3. Len(stack') = Len(stack) - n + 1
  BY <1>1, <1>2, BelowType, AppendProperties
<1>4. Instr.op \in Replacing
  BY CurrentInstr
<1>5. DepthAfter(Instr, Len(stack), left[mod]) = Len(stack) - n + 1
  BY <1>4 DEF DepthAfter, Pushes, Replacing, ArithOps, OrderOps
<1>6. ip + 1 \in Successors(Instr, ip)
  BY <1>4 DEF Successors, Replacing, ArithOps, OrderOps
<1>7. SlotsAfter(Instr, Len(locals)) = Len(locals)
  BY <1>4 DEF SlotsAfter, Replacing, ArithOps, OrderOps
<1>8. Len(locals') \in Nat /\ Len(locals) \in Nat
  BY <1>1, LenProperties DEF TypeOK
<1>. QED
  BY <1>1, <1>3, <1>5, <1>6, <1>7, <1>8, GotoShape

LEMMA NoUnderflow ==
  ASSUME NEW left, Shaped(left), TypeOK, ShapeInv, NEW ops, At(ops), Underflow(Pops(Instr))
  PROVE  FALSE
  BY PopsFit, LenProperties DEF Underflow, TypeOK

-----------------------------------------------------------------------------
(* Errors in the data are not structural.                                  *)

LEMMA StepErrorKind ==
  ASSUME NEW v, NEW k, NEW leaf
  PROVE  StepError(v, k, leaf) \notin StructuralErrors
  BY DEF StepError, StructuralErrors

LEMMA PathErrorKind ==
  ASSUME NEW root, NEW path
  PROVE  PathError(root, path) \notin StructuralErrors
  BY StepErrorKind DEF PathError, StructuralErrors

LEMMA WritePathShape ==
  ASSUME NEW left, Shaped(left), TypeOK, ShapeInv, At(Replacing), NEW root, NEW path, NEW v,
         WritePath(Pops(Instr), root, path, v)
  PROVE  ShapeInv'
  BY ReplaceShape, FailShape, PathErrorKind DEF WritePath

LEMMA ReadChildShape ==
  ASSUME NEW left, Shaped(left), TypeOK, ShapeInv, At(Replacing), NEW v, NEW k,
         ReadChild(Pops(Instr), v, k)
  PROVE  ShapeInv'
  BY ReplaceShape, FailShape, StepErrorKind DEF ReadChild

DataErrors == {"type", "divide", "builtin"}

LEMMA DataErrorKind == DataErrors \cap StructuralErrors = {}
  BY DEF DataErrors, StructuralErrors

LEMMA DataFails ==
  ASSUME ShapeInv, NEW n, NEW why \in DataErrors, Fail(n, why)
  PROVE  ShapeInv'
  BY FailShape, DataErrorKind

-----------------------------------------------------------------------------
(* The instructions, by kind.                                              *)

\* An instruction that replaces its operands by a value, or fails for its data.
LEMMA OrdinaryShape ==
  ASSUME NEW left, Shaped(left), TypeOK, ShapeInv, At(Replacing),
         \/ Underflow(Pops(Instr))
         \/ \E n \in Nat, why \in DataErrors : Fail(n, why)
         \/ \E v : Replace(Pops(Instr), v)
  PROVE  ShapeInv'
<1>1. CASE \E n \in Nat, why \in DataErrors : Fail(n, why)
  BY <1>1, DataFails
<1>2. CASE \E v : Replace(Pops(Instr), v)
  BY <1>2, ReplaceShape
<1>. QED
  BY <1>1, <1>2, NoUnderflow

BinaryOps == ArithOps \cup OrderOps \cup
  {"CompareEqual", "CompareNotEqual", "CompareEqualInt", "CompareNotEqualInt",
   "LogicalAnd", "LogicalOr"}

LEMMA BinaryPops ==
  ASSUME NEW ops \in SUBSET BinaryOps, At(ops)
  PROVE  At(Replacing) /\ Pops(Instr) = 2
<1>1. Instr.op \in BinaryOps /\ At({Instr.op})
  BY DEF At
<1>2. At(Replacing)
  BY <1>1 DEF At, BinaryOps, Replacing
<1>3. Pops(Instr) = 2
  BY <1>1 DEF BinaryOps, Pops, TwoOperandOps, OneOperandOps, ArithOps, OrderOps
<1>. QED
  BY <1>2, <1>3

LEMMA UnaryPops ==
  ASSUME NEW ops \in SUBSET {"NegInt", "LogicalNot"}, At(ops)
  PROVE  At(Replacing) /\ Pops(Instr) = 1
  BY DEF At, Replacing, Pops, TwoOperandOps, OneOperandOps, ArithOps, OrderOps

LEMMA OperatorsShape ==
  ASSUME NEW left, Shaped(left), TypeOK, ShapeInv,
         Arithmetic \/ CompareOrder \/ CompareEquality \/ LogicalBinary
  PROVE  ShapeInv'
<1>1. {"type", "divide"} \subseteq DataErrors
  BY DEF DataErrors
<1>2. PICK ops \in SUBSET BinaryOps : At(ops)
  BY DEF Arithmetic, CompareOrder, CompareEquality, LogicalBinary, BinaryOps
<1>3. At(Replacing) /\ Pops(Instr) = 2
  BY <1>2, BinaryPops
<1>4. CASE Trap
  BY <1>4, NoFramesNoShape, HistoryStays DEF Trap, ShapeInv
<1>5. \/ Trap
      \/ Underflow(2)
      \/ \E n \in Nat, why \in {"type", "divide"} : Fail(n, why)
      \/ \E v : Replace(2, v)
  <2>1. CASE Arithmetic
    BY <2>1 DEF Arithmetic, NotTwoOf
  <2>2. CASE CompareOrder \/ CompareEquality \/ LogicalBinary
    BY <2>2 DEF CompareOrder, CompareEquality, LogicalBinary, NotTwoOf
  <2>. QED
    BY <2>1, <2>2
<1>. QED
  BY <1>1, <1>3, <1>4, <1>5, OrdinaryShape

LEMMA AggregatesShape ==
  ASSUME NEW left, Shaped(left), TypeOK, ShapeInv,
         \/ BuildArray \/ BuildMap \/ LoadField \/ LoadIndex
         \/ StoreFieldPath \/ StoreIndexPath
  PROVE  ShapeInv'
<1>. DEFINE Ops == {"BuildArray", "BuildMap", "LoadField", "LoadIndex",
                    "StoreFieldPath", "StoreIndexPath"}
<1>1. At(Ops)
  BY DEF BuildArray, BuildMap, LoadField, LoadIndex, StoreFieldPath,
     StoreIndexPath, At
<1>2. At(Replacing)
  BY <1>1 DEF At, Replacing
<1>3. ~Underflow(Pops(Instr))
  BY <1>1, NoUnderflow
<1>4. Fits(Instr, Shape[mod][fn][ip], Modules[mod])
  BY <1>1, ShapeNow
<1>5. CASE BuildMap
  <2>1. Pops(Instr) = Len(Instr.names)
    BY <1>5 DEF BuildMap, At, Pops, TwoOperandOps, OneOperandOps, ArithOps, OrderOps
  <2>. QED
    BY <1>2, <1>3, <1>5, <2>1, ReplaceShape DEF BuildMap
<1>6. CASE BuildArray
  <2>1. Pops(Instr) = Instr.args
    BY <1>6 DEF BuildArray, At, Pops, TwoOperandOps, OneOperandOps, ArithOps, OrderOps
  <2>. QED
    BY <1>2, <1>3, <1>6, <2>1, ReplaceShape DEF BuildArray
<1>7. CASE LoadField
  <2>1. Pops(Instr) = 1
    BY <1>7 DEF LoadField, At, Pops, TwoOperandOps, OneOperandOps, ArithOps, OrderOps
  <2>. QED
    BY <1>2, <1>3, <1>7, <2>1, ReadChildShape DEF LoadField
<1>8. CASE LoadIndex
  <2>1. Pops(Instr) = 2
    BY <1>8 DEF LoadIndex, At, Pops, TwoOperandOps, OneOperandOps, ArithOps, OrderOps
  <2>. QED
    BY <1>2, <1>3, <1>8, <2>1, ReadChildShape DEF LoadIndex
<1>9. CASE StoreFieldPath
  <2>1. Pops(Instr) = 2 /\ Instr.path # <<>>
    BY <1>4, <1>9 DEF StoreFieldPath, At, Pops, TwoOperandOps, OneOperandOps, ArithOps,
       OrderOps, Fits
  <2>. QED
    BY <1>2, <1>3, <1>9, <2>1, WritePathShape DEF StoreFieldPath
<1>10. CASE StoreIndexPath
  <2>1. Pops(Instr) = Instr.args + 2 /\ Instr.args > 0
    BY <1>4, <1>10 DEF StoreIndexPath, At, Pops, TwoOperandOps, OneOperandOps, ArithOps,
       OrderOps, Fits
  <2>2. Instr.args \in Nat
    BY <1>10, CurrentInstr DEF StoreIndexPath, WellFormed
  <2>. QED
    BY <1>2, <1>3, <1>10, <2>1, <2>2, WritePathShape DEF StoreIndexPath
<1>. QED
  BY <1>5, <1>6, <1>7, <1>8, <1>9, <1>10

LEMMA SimpleShape ==
  ASSUME NEW left, Shaped(left), TypeOK, ShapeInv,
         PushLiteral \/ Pop \/ LoadLocal \/ StoreLocal \/ Jump \/ JumpIfFalse
  PROVE  ShapeInv'
<1>0. /\ Len(stack) \in Nat /\ Len(locals) \in Nat
      /\ stack \in Seq(Value) /\ locals \in Seq(Value)
  BY LenProperties DEF TypeOK
<1>1. CASE PushLiteral
  <2>1. At(Replacing) /\ Pops(Instr) = 0
    BY <1>1 DEF PushLiteral, At, Replacing, Pops, TwoOperandOps, OneOperandOps, ArithOps, OrderOps
  <2>. QED
    BY <1>1, <2>1, ReplaceShape DEF PushLiteral
<1>2. CASE Pop
  <2>1. At({"Pop"}) /\ Instr.op = "Pop" /\ Goto(ip + 1) /\ locals' = locals
    BY <1>2 DEF Pop, At
  <2>2. Len(stack') = IF Len(stack) = 0 THEN 0 ELSE Len(stack) - 1
    <3>1. CASE stack = <<>>
      BY <1>2, <3>1, EmptySeq DEF Pop
    <3>2. CASE stack # <<>>
      <4>1. Len(stack) # 0 /\ 1 <= Len(stack)
        BY <1>0, <3>2, EmptySeq
      <4>. QED
        BY <1>0, <1>2, <3>2, <4>1, BelowType DEF Pop
    <3>. QED
      BY <3>1, <3>2
  <2>3. /\ ip + 1 \in Successors(Instr, ip)
        /\ DepthAfter(Instr, Len(stack), left[mod]) = Len(stack')
        /\ SlotsAfter(Instr, Len(locals)) = Len(locals')
    BY <2>1, <2>2 DEF Successors, DepthAfter, SlotsAfter
  <2>. QED
    BY <1>0, <2>1, <2>2, <2>3, GotoShape
<1>3. CASE LoadLocal
  <2>1. At(Replacing) /\ Pops(Instr) = 0 /\ Instr.op = "LoadLocal"
    BY <1>3 DEF LoadLocal, At, Replacing, Pops, TwoOperandOps, OneOperandOps, ArithOps, OrderOps
  <2>2. Instr.idx \in Nat /\ Instr.idx < Len(locals)
    BY <1>0, <2>1, ShapeNow, CurrentInstr DEF Fits, WellFormed
  <2>. QED
    BY <1>0, <1>3, <2>1, <2>2, ReplaceShape DEF LoadLocal
<1>4. CASE StoreLocal
  <2>1. At({"StoreLocal"}) /\ Instr.op = "StoreLocal" /\ Pops(Instr) = 1
    BY <1>4 DEF StoreLocal, At, Pops, TwoOperandOps, OneOperandOps, ArithOps, OrderOps
  <2>2. ~Underflow(1) /\ Instr.idx \in Nat /\ 1 <= Len(stack)
    BY <2>1, NoUnderflow, PopsFit, CurrentInstr DEF WellFormed
  <2>3. /\ locals' = Stored(locals, Instr.idx, Top(0)) /\ stack' = Below(1) /\ Goto(ip + 1)
    BY <1>4, <2>2 DEF StoreLocal
  <2>4. Len(locals') = SlotsAfter(Instr, Len(locals)) /\ Len(locals') \in Nat
    <3>1. Top(0) \in Value
      BY <1>0, <2>2, TopType
    <3>2. Len(locals') = IF Instr.idx < Len(locals) THEN Len(locals) ELSE Instr.idx + 1
      BY <1>0, <2>2, <2>3, <3>1, StoredType
    <3>. QED
      BY <1>0, <2>1, <2>2, <3>2 DEF SlotsAfter
  <2>5. Len(stack') = DepthAfter(Instr, Len(stack), left[mod])
    BY <1>0, <2>1, <2>2, <2>3, BelowType DEF DepthAfter, Pushes
  <2>6. ip + 1 \in Successors(Instr, ip)
    BY <2>1 DEF Successors
  <2>. QED
    BY <2>1, <2>3, <2>4, <2>5, <2>6, GotoShape
<1>5. CASE Jump
  <2>1. /\ At({"Jump"}) /\ Instr.op = "Jump" /\ Pops(Instr) = 0
        /\ Goto(Instr.target) /\ stack' = stack /\ locals' = locals
    BY <1>5 DEF Jump, At, Pops, TwoOperandOps, OneOperandOps, ArithOps, OrderOps
  <2>2. /\ Instr.target \in Successors(Instr, ip)
        /\ DepthAfter(Instr, Len(stack), left[mod]) = Len(stack')
        /\ SlotsAfter(Instr, Len(locals)) = Len(locals')
    BY <1>0, <2>1 DEF Successors, DepthAfter, SlotsAfter, Pushes
  <2>. QED
    BY <1>0, <2>1, <2>2, GotoShape
<1>6. CASE JumpIfFalse
  <2>1. At({"JumpIfFalse"}) /\ Instr.op = "JumpIfFalse" /\ Pops(Instr) = 1
    BY <1>6 DEF JumpIfFalse, At, Pops, TwoOperandOps, OneOperandOps, ArithOps, OrderOps
  <2>2. ~Underflow(1) /\ 1 <= Len(stack)
    BY <2>1, NoUnderflow, PopsFit
  <2>3. CASE Fail(1, "type")
    BY <2>3, DataFails DEF DataErrors
  <2>4. CASE \E t \in {ip + 1, Instr.target} :
               Goto(t) /\ stack' = Below(1) /\ locals' = locals
    <3>1. /\ Successors(Instr, ip) = {ip + 1, Instr.target}
          /\ DepthAfter(Instr, Len(stack), left[mod]) = Len(stack')
          /\ SlotsAfter(Instr, Len(locals)) = Len(locals')
      BY <1>0, <2>1, <2>2, <2>4, BelowType DEF Successors, DepthAfter, SlotsAfter, Pushes
    <3>. QED
      BY <1>0, <2>1, <2>4, <3>1, GotoShape
  <2>. QED
    BY <1>6, <2>2, <2>3, <2>4 DEF JumpIfFalse
<1>. QED
  BY <1>1, <1>2, <1>3, <1>4, <1>5, <1>6

-----------------------------------------------------------------------------
(* Calls.                                                                  *)

LEMMA CallBuiltinShape ==
  ASSUME NEW left, Shaped(left), TypeOK, ShapeInv, CallBuiltin
  PROVE  ShapeInv'
<1>. DEFINE n == Instr.args
            r == BuiltinCall(Instr.name, Operands(n))
<1>1. At({"CallBuiltin"}) /\ Instr.op = "CallBuiltin" /\ Pops(Instr) = n
  BY DEF CallBuiltin, At, Pops, TwoOperandOps, OneOperandOps, ArithOps, OrderOps
<1>2. /\ Instr.name \in DOMAIN Builtins /\ n = Builtins[Instr.name].arity
      /\ ~Underflow(n) /\ n \in Nat /\ n <= Len(stack)
  BY <1>1, ShapeNow, NoUnderflow, PopsFit DEF Fits
<1>3. CASE Fail(n, "builtin")
  BY <1>3, DataFails DEF DataErrors
<1>4. CASE /\ r.out \in Seq(Value)
           /\ Builtins[Instr.name].returns => r.val \in Value
           /\ stack' = Below(n) \o (IF Builtins[Instr.name].returns THEN <<r.val>> ELSE <<>>)
           /\ Goto(ip + 1)
           /\ UNCHANGED locals
  <2>. DEFINE vs == IF Builtins[Instr.name].returns THEN <<r.val>> ELSE <<>>
  <2>1. Below(n) \in Seq(Value) /\ Len(Below(n)) = Len(stack) - n
    BY <1>2, BelowType DEF TypeOK
  <2>2. vs \in Seq(Value) /\ Len(vs) = Pushes(Instr, left[mod])
    BY <1>1, <1>2, <1>4, EmptySeq DEF Pushes
  <2>3. Len(stack') = Len(stack) - n + Pushes(Instr, left[mod])
    BY <1>4, <2>1, <2>2, ConcatProperties
  <2>4. Len(locals') \in Nat /\ Len(locals') = Len(locals)
    BY <1>4, LenProperties DEF TypeOK
  <2>5. /\ ip + 1 \in Successors(Instr, ip)
        /\ DepthAfter(Instr, Len(stack), left[mod]) = Len(stack) - n + Pushes(Instr, left[mod])
        /\ SlotsAfter(Instr, Len(locals)) = Len(locals)
    BY <1>1 DEF Successors, DepthAfter, SlotsAfter
  <2>. QED
    BY <1>1, <1>4, <2>3, <2>4, <2>5, GotoShape
<1>. QED
  BY <1>2, <1>3, <1>4 DEF CallBuiltin

\* A waiting activation keeps to its function's shape.
FrameFits(m, f, callee) ==
  LET c == Modules[m][f.fn].code
  IN  /\ f.ip \in DOMAIN Shape[m][f.fn] \ {Len(c)}
      /\ c[f.ip + 1].op = "CallFunction" /\ c[f.ip + 1].name = callee
      /\ Len(f.stack) = Shape[m][f.fn][f.ip].depth - c[f.ip + 1].args
      /\ Len(f.locals) >= Shape[m][f.fn][f.ip].slots

LEMMA FramesFit ==
  ShapeHolds => \A k \in 1 .. Len(frames) : FrameFits(mod, frames[k], Callee(k))
  BY DEF ShapeHolds, FrameFits

LEMMA CallFunctionShape ==
  ASSUME NEW left, Shaped(left), TypeOK, ShapeInv, CallFunction
  PROVE  ShapeInv'
<1>. DEFINE n == Instr.args
            f == Instr.name
            new == [fn |-> fn, ip |-> ip, stack |-> Below(n), locals |-> locals]
<1>1. At({"CallFunction"}) /\ Instr.op = "CallFunction" /\ Pops(Instr) = n
  BY DEF CallFunction, At, Pops, TwoOperandOps, OneOperandOps, ArithOps, OrderOps
<1>2. /\ f \in DOMAIN Modules[mod] /\ n = Modules[mod][f].params
      /\ ~Underflow(n) /\ n \in Nat /\ n <= Len(stack)
  BY <1>1, ShapeNow, NoUnderflow, PopsFit DEF Fits
<1>3. /\ frames' = Append(frames, new)
      /\ fn' = f /\ ip' = 0 /\ stack' = <<>> /\ locals' = Operands(n)
      /\ mod' = mod /\ status' = status /\ history' = history
  BY <1>2 DEF CallFunction
<1>4. FrameFits(mod, new, f)
  <2>1. Len(Below(n)) = Len(stack) - n
    BY <1>2, BelowType DEF TypeOK
  <2>. QED
    BY <1>1, <2>1, ShapeNow DEF FrameFits, Code, Instr
<1>5. \A k \in 1 .. Len(frames') : FrameFits(mod', frames'[k], Callee(k)')
  <2>1. frames \in Seq(Frame) /\ new \in Frame
    <3>1. Below(n) \in Seq(Value)
      BY <1>2, BelowType DEF TypeOK
    <3>. QED
      BY <1>1, <3>1 DEF TypeOK, Frame, At
  <2>2. /\ Len(frames') = Len(frames) + 1 /\ Len(frames) \in Nat
        /\ \A k \in 1 .. Len(frames) : frames'[k] = frames[k]
        /\ frames'[Len(frames) + 1] = new
    BY <1>3, <2>1, AppendProperties, LenProperties
  <2>. QED
    BY <1>3, <1>4, <2>2, FramesFit DEF ShapeInv, Callee
<1>7. /\ Len(Modules[mod][f].code) \in Nat
      /\ 0 \in DOMAIN Shape[mod][f] /\ Shape[mod][f][0] = [depth |-> 0, slots |-> n]
  BY <1>2, ModulesAssumption DEF Shaped, WellShaped, FunctionWellShaped, TypeOK
<1>8. Len(stack') = 0 /\ Len(locals') = n
  BY <1>2, <1>3, EmptySeq, OperandsType DEF TypeOK
<1>9. /\ ip' \in DOMAIN Shape[mod'][fn']
      /\ Len(stack') = Shape[mod'][fn'][ip'].depth
      /\ Len(locals') >= Shape[mod'][fn'][ip'].slots
  BY <1>2, <1>3, <1>7, <1>8
<1>10. ShapeHolds'
  BY <1>5, <1>9 DEF ShapeHolds, FrameFits
<1>. QED
  BY <1>3, <1>10, HistoryStays DEF ShapeInv

\* A callee that leaves as many values as it should.
LEMMA ResumeShape ==
  ASSUME NEW left, Shaped(left), TypeOK, ShapeInv, NEW vs \in Seq(Value), Resume(vs),
         fn \in DOMAIN left[mod], Len(vs) = left[mod][fn]
  PROVE  ShapeInv'
<1>. DEFINE f == frames[Len(frames)]
            c == Modules[mod][f.fn].code
            i == c[f.ip + 1]
            sh == Shape[mod][f.fn]
<1>1. /\ frames # <<>> /\ status = "running"
      /\ fn' = f.fn /\ ip' = f.ip + 1 /\ locals' = f.locals /\ stack' = f.stack \o vs
      /\ frames' = SubSeq(frames, 1, Len(frames) - 1)
      /\ mod' = mod /\ status' = status /\ history' = history
  BY DEF Resume, Returning, At
<1>2. Len(frames) \in Nat /\ Len(frames) >= 1
  BY <1>1, EmptySeq DEF TypeOK
<1>3. f \in Frame /\ FrameFits(mod, f, fn)
  BY <1>1, <1>2, PoppedFrames, FramesFit DEF ShapeInv, Callee
<1>4. /\ f.ip \in DOMAIN sh \ {Len(c)} /\ i.op = "CallFunction" /\ i.name = fn
      /\ Len(f.stack) = sh[f.ip].depth - i.args
      /\ Len(f.locals) >= sh[f.ip].slots
  BY <1>3 DEF FrameFits
<1>5. /\ mod \in DOMAIN Modules /\ f.fn \in DOMAIN Modules[mod]
      /\ Len(c) \in Nat /\ \A k \in 1 .. Len(c) : WellFormed(c[k])
  <2>1. mod \in DOMAIN Modules /\ f.fn \in DOMAIN Modules[mod]
    BY <1>3 DEF TypeOK, Frame
  <2>. QED
    BY <2>1, ModulesAssumption
<1>6. FunctionWellShaped(Modules[mod], f.fn, sh, left[mod])
  BY <1>5 DEF Shaped, WellShaped
<1>7. /\ DOMAIN sh \subseteq 0 .. Len(c)
      /\ sh \in [DOMAIN sh -> [depth : Nat, slots : Nat]]
      /\ \A t \in Successors(i, f.ip) :
           /\ t \in DOMAIN sh
           /\ sh[t].depth = DepthAfter(i, sh[f.ip].depth, left[mod])
           /\ sh[t].slots <= SlotsAfter(i, sh[f.ip].slots)
  BY <1>4, <1>6 DEF FunctionWellShaped
<1>8. i.args \in Nat
  <2>1. f.ip + 1 \in 1 .. Len(c)
    <3>1. f.ip \in 0 .. Len(c) /\ f.ip # Len(c) /\ Len(c) \in Nat
      BY <1>4, <1>5, <1>7
    <3>. HIDE DEF f, c
    <3>. QED
      BY <3>1
  <2>2. WellFormed(i)
    BY <1>5, <2>1
  <2>. QED
    BY <1>4, <2>2 DEF WellFormed
<1>9. /\ f.ip + 1 \in Successors(i, f.ip)
      /\ DepthAfter(i, sh[f.ip].depth, left[mod]) = sh[f.ip].depth - i.args + Len(vs)
      /\ SlotsAfter(i, sh[f.ip].slots) = sh[f.ip].slots
  BY <1>4 DEF Successors, DepthAfter, SlotsAfter, Pops, Pushes, TwoOperandOps, OneOperandOps,
     ArithOps, OrderOps
<1>10. /\ ip' \in DOMAIN Shape[mod'][fn']
       /\ Len(stack') = Shape[mod'][fn'][ip'].depth
       /\ Len(locals') >= Shape[mod'][fn'][ip'].slots
  <2>1. Len(stack') = Len(f.stack) + Len(vs) /\ Len(f.locals) \in Nat /\ Len(vs) \in Nat
    BY <1>1, <1>3, ConcatProperties, LenProperties DEF Frame
  <2>2. sh[f.ip] \in [depth : Nat, slots : Nat] /\ sh[f.ip + 1] \in [depth : Nat, slots : Nat]
    BY <1>4, <1>7, <1>9
  <2>3. /\ f.ip + 1 \in DOMAIN sh
        /\ sh[f.ip + 1].depth = sh[f.ip].depth - i.args + Len(vs)
        /\ sh[f.ip + 1].slots <= sh[f.ip].slots
    BY <1>7, <1>9
  <2>4. sh[f.ip].depth \in Nat /\ sh[f.ip].slots \in Nat /\ sh[f.ip + 1].slots \in Nat
    BY <2>2
  <2>5. Len(stack') = sh[f.ip + 1].depth
    BY <1>4, <1>8, <2>1, <2>3, <2>4
  <2>6. Len(f.locals) >= sh[f.ip + 1].slots
    <3>1. Len(f.locals) >= sh[f.ip].slots /\ sh[f.ip + 1].slots <= sh[f.ip].slots
      BY <1>4, <2>3
    <3>. HIDE DEF f, sh
    <3>. QED
      BY <2>1, <2>4, <3>1
  <2>. QED
    BY <1>1, <2>3, <2>5, <2>6
<1>11. \A k \in 1 .. Len(frames') : FrameFits(mod', frames'[k], Callee(k)')
  <2>. DEFINE n == Len(frames) - 1
  <2>1. n \in Nat /\ \A k \in 1 .. n : frames[k] \in Frame
    BY <1>2, ElementOfSeq DEF TypeOK
  <2>. HIDE DEF n
  <2>2. /\ Len(SubSeq(frames, 1, n)) = IF 1 <= n THEN n - 1 + 1 ELSE 0
        /\ \A k \in 1 .. n - 1 + 1 : SubSeq(frames, 1, n)[k] = frames[1 + k - 1]
    BY <2>1, SubSeqProperties
  <2>3. /\ Len(frames') = n
        /\ \A k \in 1 .. n : frames'[k] = frames[k]
    <3>1. frames' = SubSeq(frames, 1, n)
      BY <1>1 DEF n
    <3>2. ASSUME NEW k \in 1 .. n PROVE frames'[k] = frames[k]
      <4>1. k \in 1 .. n - 1 + 1 /\ 1 + k - 1 = k
        BY <2>1
      <4>. QED
        BY <2>2, <3>1, <4>1
    <3>3. Len(frames') = n
      BY <2>1, <2>2, <3>1
    <3>. QED
      BY <3>2, <3>3
  <2>4. ASSUME NEW k \in 1 .. n
        PROVE  k \in 1 .. Len(frames) /\ Callee(k)' = Callee(k)
    BY <1>1, <1>2, <2>1, <2>3, <2>4 DEF Callee, n
  <2>. QED
    BY <1>1, <2>3, <2>4, FramesFit DEF ShapeInv
<1>12. ShapeHolds'
  BY <1>10, <1>11 DEF ShapeHolds, FrameFits
<1>. QED
  BY <1>1, <1>12, HistoryStays DEF ShapeInv

LEMMA FinishShape ==
  ASSUME TypeOK, ShapeInv, Finish
  PROVE  ShapeInv'
<1>1. status' = "done" /\ frames' = <<>>
  BY DEF Finish
<1>2. "" \notin StructuralErrors
  BY DEF StructuralErrors
<1>3. PICK s : history' = Append(history, [request |-> request, result |-> Success(s), out |-> out])
  BY DEF Finish, Ended
<1>4. Success(s).error = ""
  BY DEF Success
<1>5. HistoryIsSeq' /\ NoStructuralError'
  BY <1>2, <1>3, <1>4, HistoryGrows DEF ShapeInv
<1>. QED
  BY <1>1, <1>5, NoFramesNoShape DEF ShapeInv

\* A call of the host: with the right number of arguments, checked or not.
LEMMA EnterShape ==
  ASSUME NEW left, Shaped(left), TypeOK, ShapeInv, NEW r, NEW checked, Enter(r, checked),
         r.args \in Seq(Value),
         Accepts(r, checked) => Len(r.args) = Modules[mod][r.name].params
  PROVE  ShapeInv'
<1>1. frames' = <<>> /\ stack' = <<>> /\ mod' = mod
  BY DEF Enter
<1>2. CASE /\ Accepts(r, checked) /\ status' = "running" /\ fn' = r.name
           /\ ip' = 0 /\ locals' = r.args /\ history' = history
  <2>1. /\ mod \in DOMAIN Modules /\ r.name \in DOMAIN Modules[mod]
        /\ Len(Modules[mod][r.name].code) \in Nat
    BY <1>2, ModulesAssumption DEF TypeOK, Accepts
  <2>2. /\ 0 \in DOMAIN Shape[mod][r.name]
        /\ Shape[mod][r.name][0] = [depth |-> 0, slots |-> Modules[mod][r.name].params]
    BY <2>1 DEF Shaped, WellShaped, FunctionWellShaped
  <2>3. Len(stack') = 0 /\ Len(locals') = Modules[mod][r.name].params
        /\ Modules[mod][r.name].params \in Nat
    BY <1>1, <1>2, <2>1, EmptySeq, ModulesAssumption
  <2>4. /\ ip' \in DOMAIN Shape[mod'][fn']
        /\ Len(stack') = Shape[mod'][fn'][ip'].depth
        /\ Len(locals') >= Shape[mod'][fn'][ip'].slots
    BY <1>1, <1>2, <2>1, <2>2, <2>3
  <2>5. ShapeHolds'
    BY <1>1, <2>4 DEF ShapeHolds
  <2>. QED
    BY <1>2, <2>5, HistoryStays DEF ShapeInv
<1>3. CASE /\ status' = "failed"
           /\ history' = Append(history, [request |-> r, result |-> Failure("entry"),
                                          out |-> <<>>])
  <2>1. "entry" \notin StructuralErrors
    BY DEF StructuralErrors
  <2>2. HistoryIsSeq' /\ NoStructuralError'
    BY <1>3, <2>1, HistoryGrows DEF Failure, ShapeInv
  <2>. QED
    BY <1>1, <1>3, <2>2, NoFramesNoShape DEF ShapeInv
<1>. QED
  BY <1>2, <1>3 DEF Enter

-----------------------------------------------------------------------------

LEMMA InitShape == Init => ShapeInv
<1>. SUFFICES ASSUME Init PROVE ShapeInv
  OBVIOUS
<1>1. status = "idle" /\ frames = <<>> /\ history = <<>>
  BY DEF Init
<1>2. Len(frames) = 0 /\ Len(history) = 0
  BY <1>1, EmptySeq
<1>3. history = [k \in 1 .. Len(history) |-> history[k]]
  BY <1>1, <1>2
<1>. QED
  BY <1>1, <1>2, <1>3 DEF ShapeInv, ShapeHolds, HistoryIsSeq, NoStructuralError
=============================================================================
