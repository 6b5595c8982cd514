-------------------------- MODULE BytecodeVM_proofs --------------------------
(***************************************************************************)
(* The bytecode VM keeps its types and, where code has a shape, never      *)
(* fails structurally: the handlers copied from the interpreter, and those *)
(* that differ.                                                            *)
(***************************************************************************)
EXTENDS BytecodeVM, StackDiscipline_proofs

\* The handlers of its own.
LEMMA VMHandlersType ==
  ASSUME TypeOK, VMNegInt \/ VMLogicalNot \/ VMBuildStruct \/ VMStoreFieldPath
  PROVE  TypeOK'
<1>. USE ReplaceType, FailType, UnderflowType
<1>0. Len(stack) \in Nat
  BY LenProperties DEF TypeOK
<1>1. CASE VMNegInt
  BY <1>0, <1>1 DEF VMNegInt
<1>2. CASE VMLogicalNot
  BY <1>0, <1>2 DEF VMLogicalNot
<1>3. CASE VMBuildStruct
  <2>1. Len(Instr.names) \in Nat
    BY <1>3, CurrentInstr DEF VMBuildStruct, WellFormed
  <2>. QED
    BY <1>0, <1>3, <2>1 DEF VMBuildStruct
<1>4. CASE VMStoreFieldPath
  BY <1>0, <1>4, WritePathType DEF VMStoreFieldPath
<1>. QED
  BY <1>1, <1>2, <1>3, <1>4

\* A callee leaves one value or none.
LEMMA VMReturnToCallerType ==
  ASSUME TypeOK, VMReturnToCaller
  PROVE  TypeOK'
<1>. DEFINE vs == IF stack # <<>> THEN <<Top(0)>> ELSE <<>>
<1>1. stack # <<>> => Top(0) \in Value
  BY EmptySeq, LenProperties, TopType DEF TypeOK
<1>2. vs \in Seq(Value)
  BY <1>1, EmptySeq
<1>. QED
  BY <1>2, ResumeType DEF VMReturnToCaller

LEMMA VMNextType == TypeOK /\ [VMNext]_vars => TypeOK'
<1>. SUFFICES ASSUME TypeOK, [VMNext]_vars
              PROVE  TypeOK'
  OBVIOUS
<1>1. CASE VMExecute
  BY <1>1, EnterType, EmptySeq DEF VMExecute
<1>2. CASE VMLiterals \/ VMLoadLocal \/ VMStoreLocal \/ VMJump \/ VMJumpIfFalse
  BY <1>2, SimpleType DEF VMLiterals, VMLoadLocal, VMStoreLocal, VMJump, VMJumpIfFalse
<1>3. CASE VMArithmetic \/ VMCompareOrder \/ VMCompareEquality \/ VMLogicalBinary
  BY <1>3, OperatorsType DEF VMArithmetic, VMCompareOrder, VMCompareEquality, VMLogicalBinary
<1>4. CASE VMBuildArray \/ VMBuildMap \/ VMLoadField \/ VMLoadIndex \/ VMStoreIndexPath
  BY <1>4, AggregatesType DEF VMBuildArray, VMBuildMap, VMLoadField, VMLoadIndex, VMStoreIndexPath
<1>5. CASE VMCallBuiltin \/ VMCallFunction \/ VMFinish
  BY <1>5, CallBuiltinType, CallFunctionType, FinishType DEF VMCallBuiltin, VMCallFunction, VMFinish
<1>6. CASE UNCHANGED vars
  BY <1>6 DEF vars, TypeOK, Frame
<1>. QED
  BY <1>1, <1>2, <1>3, <1>4, <1>5, <1>6, VMHandlersType, VMReturnToCallerType DEF VMNext, VMStep

\* The VM (executeFunction and its handlers), which may push a value of another
\* type than the program means and nothing for a void call, still keeps values
\* in its stack, its locals and its waiting activations, and runs only functions
\* of the module, whatever the bytecode is.
THEOREM VMTypeCorrect == VMSpec => []TypeOK
<1>. QED
  BY InitType, VMNextType, PTL DEF VMSpec

-----------------------------------------------------------------------------
(* Shapes.                                                                 *)

\* What is asked of the module loaded.
HasShape == VMWellShaped(Modules[mod], Shape[mod]) /\ MainTakesNothing

VMLeft == [m \in DOMAIN Modules |-> Left(Modules[m], Shape[m])]

LEMMA VMShaped ==
  ASSUME TypeOK, HasShape
  PROVE  Shaped(VMLeft)
  BY DEF HasShape, VMWellShaped, Shaped, VMLeft, TypeOK

LEMMA VMHandlersShape ==
  ASSUME HasShape, TypeOK, ShapeInv,
         VMNegInt \/ VMLogicalNot \/ VMBuildStruct \/ VMStoreFieldPath
  PROVE  ShapeInv'
<1>. USE VMShaped, OrdinaryShape
<1>0. "type" \in DataErrors
  BY DEF DataErrors
<1>1. CASE VMNegInt \/ VMLogicalNot
  <2>1. At(Replacing) /\ Pops(Instr) = 1
    BY <1>1, UnaryPops DEF VMNegInt, VMLogicalNot
  <2>. QED
    BY <1>0, <1>1, <2>1 DEF VMNegInt, VMLogicalNot
<1>2. CASE VMBuildStruct
  <2>1. /\ At({"BuildStruct"}) /\ Instr.op = "BuildStruct"
        /\ At(Replacing) /\ Pops(Instr) = Len(Instr.names)
    BY <1>2 DEF VMBuildStruct, At, Replacing, Pops, TwoOperandOps, OneOperandOps, ArithOps, OrderOps
  <2>2. Instr.names # <<>>
    <3>1. mod \in DOMAIN Modules /\ fn \in DOMAIN Modules[mod]
      BY <2>1 DEF At, TypeOK
    <3>2. ip \in DOMAIN Shape[mod][fn] \ {Len(Modules[mod][fn].code)}
      BY <2>1, ShapeNow DEF Code
    <3>. QED
      BY <2>1, <3>1, <3>2 DEF HasShape, VMWellShaped, Instr, Code
  <2>3. Len(DecodedNames(Instr)) = Len(Instr.names)
    <3>1. Len(Instr.names) \in Nat
      BY <2>1, CurrentInstr DEF WellFormed
    <3>. DEFINE names == [k \in 1 .. Len(Instr.names) |->
                            IF k = 1 THEN Instr.type \o ":" \o Instr.names[1] ELSE Instr.names[k]]
                S == {names[k] : k \in 1 .. Len(Instr.names)}
    <3>2. names \in [1 .. Len(Instr.names) -> S]
      OBVIOUS
    <3>. QED
      BY <2>2, <3>1, <3>2, TableIsSeq DEF DecodedNames
  <2>. QED
    BY <1>2, <2>1, <2>3 DEF VMBuildStruct
<1>3. CASE VMStoreFieldPath
  <2>1. At(Replacing) /\ Pops(Instr) = 2
    BY <1>3 DEF VMStoreFieldPath, At, Replacing, Pops, TwoOperandOps, OneOperandOps, ArithOps, OrderOps
  <2>. QED
    BY <1>3, <2>1, WritePathShape DEF VMStoreFieldPath
<1>. QED
  BY <1>1, <1>2, <1>3

\* What the callee has on its stack is what its calls leave.
LEMMA ReturnLeaves ==
  ASSUME HasShape, TypeOK, ShapeInv, Returning
  PROVE  /\ fn \in DOMAIN Modules[mod]
         /\ Left(Modules[mod], Shape[mod])[fn] = IF stack # <<>> THEN 1 ELSE 0
<1>. DEFINE sh == Shape[mod][fn]
<1>1. /\ mod \in DOMAIN Modules /\ fn \in DOMAIN Modules[mod] /\ status = "running"
  BY DEF Returning, At, TypeOK
<1>2. ip \in DOMAIN sh /\ Len(stack) = sh[ip].depth
  BY <1>1 DEF ShapeInv, ShapeHolds
<1>3. ip \in Exits(Code, sh)
  <2>1. DOMAIN sh \subseteq 0 .. Len(Code) /\ Len(Code) \in Nat
    BY <1>1, ModulesAssumption DEF HasShape, VMWellShaped, WellShaped, FunctionWellShaped, Code
  <2>2. ip = Len(Code) \/ (ip < Len(Code) /\ Instr.op = "Return")
    BY <1>1, <1>2, <2>1 DEF Returning, At
  <2>. QED
    BY <1>2, <2>2 DEF Exits, Instr
<1>4. Left(Modules[mod], Shape[mod])[fn] = IF sh[ip].depth > 0 THEN 1 ELSE 0
  BY <1>1, <1>3 DEF HasShape, VMWellShaped, Left, Code
<1>5. stack # <<>> <=> Len(stack) > 0
  BY EmptySeq, LenProperties DEF TypeOK
<1>. QED
  BY <1>1, <1>2, <1>4, <1>5

\* The exits of a function agree on whether a value is left.
LEMMA VMReturnToCallerShape ==
  ASSUME HasShape, TypeOK, ShapeInv, VMReturnToCaller
  PROVE  ShapeInv'
<1>. DEFINE vs == IF stack # <<>> THEN <<Top(0)>> ELSE <<>>
<1>1. mod \in DOMAIN Modules /\ Returning /\ Resume(vs)
  BY DEF VMReturnToCaller, Resume, TypeOK
<1>2. vs \in Seq(Value) /\ Len(vs) = IF stack # <<>> THEN 1 ELSE 0
  <2>1. stack # <<>> => Top(0) \in Value
    BY EmptySeq, LenProperties, TopType DEF TypeOK
  <2>. QED
    BY <2>1, EmptySeq
<1>3. fn \in DOMAIN VMLeft[mod] /\ Len(vs) = VMLeft[mod][fn]
  BY <1>1, <1>2, ReturnLeaves DEF VMLeft, Left
<1>. QED
  BY <1>1, <1>2, <1>3, VMShaped, ResumeShape

LEMMA VMNextShape ==
  ASSUME HasShape, TypeOK, ShapeInv, [VMNext]_vars
  PROVE  ShapeInv'
<1>0. Shaped(VMLeft)
  BY VMShaped
<1>1. CASE VMExecute
  <2>. DEFINE r == [name |-> "main", args |-> <<>>]
  <2>1. Accepts(r, FALSE) => Len(r.args) = Modules[mod][r.name].params
    BY EmptySeq DEF Accepts, HasShape, MainTakesNothing
  <2>. QED
    BY <1>0, <1>1, <2>1, EnterShape, EmptySeq DEF VMExecute
<1>2. CASE VMLiterals \/ VMLoadLocal \/ VMStoreLocal \/ VMJump \/ VMJumpIfFalse
  BY <1>0, <1>2, SimpleShape DEF VMLiterals, VMLoadLocal, VMStoreLocal, VMJump, VMJumpIfFalse
<1>3. CASE VMArithmetic \/ VMCompareOrder \/ VMCompareEquality \/ VMLogicalBinary
  BY <1>0, <1>3, OperatorsShape DEF VMArithmetic, VMCompareOrder, VMCompareEquality, VMLogicalBinary
<1>4. CASE VMBuildArray \/ VMBuildMap \/ VMLoadField \/ VMLoadIndex \/ VMStoreIndexPath
  BY <1>0, <1>4, AggregatesShape DEF VMBuildArray, VMBuildMap, VMLoadField, VMLoadIndex, VMStoreIndexPath
<1>5. CASE VMCallBuiltin \/ VMCallFunction \/ VMFinish
  BY <1>0, <1>5, CallBuiltinShape, CallFunctionShape, FinishShape DEF VMCallBuiltin, VMCallFunction, VMFinish
<1>6. CASE UNCHANGED vars
  BY <1>6 DEF vars, ShapeInv, ShapeHolds, Callee, HistoryIsSeq, NoStructuralError
<1>. QED
  BY <1>1, <1>2, <1>3, <1>4, <1>5, <1>6, VMHandlersShape, VMReturnToCallerShape DEF VMNext, VMStep

LEMMA VMModuleStays == [VMNext]_vars => mod' = mod
<1>1. CASE VMExecute
  BY <1>1 DEF VMExecute, Enter
<1>2. CASE VMStep
  <2>. USE DEF Replace, Goto, Fail, Underflow, Resume
  <2>1. CASE VMLiterals \/ VMLoadLocal \/ VMStoreLocal \/ VMJump \/ VMJumpIfFalse
    BY <2>1 DEF VMLiterals, VMLoadLocal, VMStoreLocal, VMJump, VMJumpIfFalse,
       PushLiteral, Pop, LoadLocal, StoreLocal, Jump, JumpIfFalse
  <2>2. CASE VMArithmetic \/ VMCompareOrder \/ VMCompareEquality \/ VMLogicalBinary
             \/ VMNegInt \/ VMLogicalNot
    BY <2>2 DEF VMArithmetic, VMCompareOrder, VMCompareEquality, VMLogicalBinary,
       Arithmetic, CompareOrder, CompareEquality, LogicalBinary, VMNegInt, VMLogicalNot,
       NotTwoOf, Trap
  <2>3. CASE VMBuildStruct \/ VMBuildArray \/ VMBuildMap \/ VMLoadField \/ VMLoadIndex
             \/ VMStoreFieldPath \/ VMStoreIndexPath
    BY <2>3 DEF VMBuildStruct, VMBuildArray, VMBuildMap, VMLoadField, VMLoadIndex,
       VMStoreFieldPath, VMStoreIndexPath, BuildArray, BuildMap, LoadField, LoadIndex,
       StoreIndexPath, ReadChild, WritePath
  <2>4. CASE VMCallBuiltin \/ VMCallFunction \/ VMReturnToCaller \/ VMFinish
    BY <2>4 DEF VMCallBuiltin, VMCallFunction, VMReturnToCaller, VMFinish,
       CallBuiltin, CallFunction, Finish
  <2>. QED
    BY <1>2, <2>1, <2>2, <2>3, <2>4 DEF VMStep
<1>. QED
  BY <1>1, <1>2 DEF VMNext, vars

LEMMA VMShapeStep ==
  TypeOK /\ (HasShape => ShapeInv) /\ [VMNext]_vars
    => (TypeOK /\ (HasShape => ShapeInv))'
<1>1. ASSUME mod' = mod
      PROVE  (HasShape)' <=> HasShape
  BY <1>1 DEF HasShape, MainTakesNothing
<1>. QED
  BY <1>1, VMNextType, VMNextShape, VMModuleStays

\* If the code of the module has a shape in which the exits of each function
\* agree on whether they leave a value, then the VM keeps to that shape in every
\* activation, although a void call pushes nothing there ...
THEOREM VMShapeKept == VMSpec => [](HasShape => ShapeHolds)
<1>1. Init => TypeOK /\ (HasShape => ShapeInv)
  BY InitType, InitShape
<1>2. ShapeInv => ShapeHolds
  BY DEF ShapeInv
<1>. QED
  BY <1>1, <1>2, VMShapeStep, PTL DEF VMSpec

\* ... and its checks for a short stack, an unset local, a malformed operand, an
\* unknown callee or a wrong number of arguments never fire.
THEOREM VMStackSafety == VMSpec => [](HasShape => NoStructuralError)
<1>1. Init => TypeOK /\ (HasShape => ShapeInv)
  BY InitType, InitShape
<1>2. ShapeInv => NoStructuralError
  BY DEF ShapeInv
<1>. QED
  BY <1>1, <1>2, VMShapeStep, PTL DEF VMSpec

-----------------------------------------------------------------------------
(* The VM and the interpreter.                                             *)

(* The operations on values are the same ones on both sides.               *)

LEMMA SameArith ==
  ASSUME NEW op, NEW l, NEW r
  PROVE  /\ Interp!Arith(op, l, r) = Arith(op, l, r)
         /\ Interp!DivideTraps(op, l, r) <=> DivideTraps(op, l, r)
         /\ Interp!Ordered(op, l, r) = Ordered(op, l, r)
<1>. USE DEF MinInt, Interp!MinInt, Wrap, Interp!Wrap, Abs, Interp!Abs,
             TruncDiv, Interp!TruncDiv
<1>1. Interp!Arith(op, l, r) = Arith(op, l, r)
  BY DEF Arith, Interp!Arith
<1>2. Interp!DivideTraps(op, l, r) <=> DivideTraps(op, l, r)
  BY DEF DivideTraps, Interp!DivideTraps
<1>3. Interp!Ordered(op, l, r) = Ordered(op, l, r)
  BY DEF Ordered, Interp!Ordered
<1>. QED
  BY <1>1, <1>2, <1>3

LEMMA SamePaths ==
  ASSUME NEW v, NEW k, NEW b, NEW x
  PROVE  /\ Interp!StepError(v, k, b) = StepError(v, k, b)
         /\ Interp!Child(v, k) = Child(v, k)
         /\ Interp!PathError(v, k) = PathError(v, k)
         /\ Interp!PathStore(v, k, x) = PathStore(v, k, x)
         /\ Interp!FieldKey(k) = FieldKey(k)
<1>. USE DEF
       IsStruct, IsArray, IsMap, IsInt, IsStr, IsFieldKey, NoValue, StepError, Child, Walk,
       Interp!IsStruct, Interp!IsArray, Interp!IsMap, Interp!IsInt, Interp!IsStr,
       Interp!IsFieldKey, Interp!NoValue, Interp!StepError, Interp!Child, Interp!Walk
<1>1. Interp!StepError(v, k, b) = StepError(v, k, b)
  OBVIOUS
<1>2. Interp!Child(v, k) = Child(v, k)
  OBVIOUS
<1>3. Interp!PathError(v, k) = PathError(v, k)
  BY DEF PathError, Interp!PathError
<1>4. Interp!PathStore(v, k, x) = PathStore(v, k, x)
  BY DEF PathStore, Interp!PathStore, ReplaceChild, Interp!ReplaceChild, WithEntry,
     Interp!WithEntry, ArrayV, Interp!ArrayV
<1>5. Interp!FieldKey(k) = FieldKey(k)
  BY DEF FieldKey, Interp!FieldKey
<1>. QED
  BY <1>1, <1>2, <1>3, <1>4, <1>5

LEMMA SameAggregates ==
  ASSUME NEW names, NEW vals
  PROVE  /\ Interp!BuiltMap(names, vals) = BuiltMap(names, vals)
         /\ Interp!ArrayV(vals) = ArrayV(vals)
  BY DEF BuiltMap, Interp!BuiltMap, MapV, Interp!MapV, ArrayV, Interp!ArrayV

\* Nothing that the interpreter has on its stack is missing, before or after.
Alike == Seen = stack /\ Seen' = stack'

LEMMA SameSimple ==
  ASSUME Alike
  PROVE  /\ PushLiteral => Interp!PushLiteral
         /\ Pop => Interp!Pop
         /\ LoadLocal => Interp!LoadLocal
         /\ StoreLocal => Interp!StoreLocal
         /\ Jump => Interp!Jump
         /\ JumpIfFalse => Interp!JumpIfFalse
<1>. USE DEF
       Alike, At, Instr, Code, Top, Below, Operands, Goto, Replace, Fail, Underflow, Ended,
       Failure, NoValue, Interp!NoValue, Interp!At, Interp!Instr, Interp!Code, Interp!Top,
       Interp!Below, Interp!Operands, Interp!Goto, Interp!Replace, Interp!Fail,
       Interp!Underflow, Interp!Ended, Interp!Failure
<1>1. PushLiteral => Interp!PushLiteral
  BY DEF PushLiteral, Interp!PushLiteral
<1>2. Pop => Interp!Pop
  BY DEF Pop, Interp!Pop
<1>3. LoadLocal => Interp!LoadLocal
  BY DEF LoadLocal, Interp!LoadLocal
<1>4. StoreLocal => Interp!StoreLocal
  BY DEF StoreLocal, Interp!StoreLocal, Stored, Interp!Stored, DefaultValue, Interp!DefaultValue,
     IntV, Interp!IntV
<1>5. Jump => Interp!Jump
  BY DEF Jump, Interp!Jump
<1>6. JumpIfFalse => Interp!JumpIfFalse
  BY DEF JumpIfFalse, Interp!JumpIfFalse, IsBool, Interp!IsBool
<1>. QED
  BY <1>1, <1>2, <1>3, <1>4, <1>5, <1>6

LEMMA SameOperators ==
  ASSUME Alike
  PROVE  /\ Arithmetic => Interp!Arithmetic
         /\ CompareOrder => Interp!CompareOrder
         /\ CompareEquality => Interp!CompareEquality
         /\ LogicalBinary => Interp!LogicalBinary
<1>. USE SameArith DEF
       Alike, At, Instr, Code, Top, Below, Operands, Goto, Replace, Fail, Underflow, Ended,
       Failure, NoValue, Interp!NoValue, IsInt, IsStr, IsBool, SameScalar, IntV, BoolV,
       TwoOf, NotTwoOf, ArithOps, OrderOps, Interp!At, Interp!Instr, Interp!Code,
       Interp!Top, Interp!Below, Interp!Operands, Interp!Goto, Interp!Replace, Interp!Fail,
       Interp!Underflow, Interp!Ended, Interp!Failure, Interp!IsInt, Interp!IsStr,
       Interp!IsBool, Interp!SameScalar, Interp!IntV, Interp!BoolV, Interp!TwoOf,
       Interp!NotTwoOf, Interp!ArithOps, Interp!OrderOps
<1>1. Arithmetic => Interp!Arithmetic
  BY DEF Arithmetic, Interp!Arithmetic, Trap, Interp!Trap
<1>2. CompareOrder => Interp!CompareOrder
  BY DEF CompareOrder, Interp!CompareOrder
<1>3. CompareEquality => Interp!CompareEquality
  BY DEF CompareEquality, Interp!CompareEquality
<1>4. LogicalBinary => Interp!LogicalBinary
  BY DEF LogicalBinary, Interp!LogicalBinary
<1>. QED
  BY <1>1, <1>2, <1>3, <1>4

LEMMA SameAggregateSteps ==
  ASSUME Alike
  PROVE  /\ BuildArray => Interp!BuildArray
         /\ BuildMap => Interp!BuildMap
         /\ LoadField => Interp!LoadField
         /\ LoadIndex => Interp!LoadIndex
         /\ StoreIndexPath => Interp!StoreIndexPath
         /\ VMStoreFieldPath /\ Instr.path # <<>> => Interp!StoreFieldPath
<1>. USE SamePaths, SameAggregates DEF
       Alike, At, Instr, Code, Top, Below, Operands, Goto, Replace, Fail, Underflow, Ended,
       Failure, NoValue, Interp!NoValue, ReadChild, WritePath, Interp!At, Interp!Instr,
       Interp!Code, Interp!Top, Interp!Below, Interp!Operands, Interp!Goto, Interp!Replace,
       Interp!Fail, Interp!Underflow, Interp!Ended, Interp!Failure, Interp!ReadChild,
       Interp!WritePath
<1>1. BuildArray => Interp!BuildArray
  BY DEF BuildArray, Interp!BuildArray
<1>2. BuildMap => Interp!BuildMap
  BY DEF BuildMap, Interp!BuildMap
<1>3. LoadField => Interp!LoadField
  BY DEF LoadField, Interp!LoadField
<1>4. LoadIndex => Interp!LoadIndex
  BY DEF LoadIndex, Interp!LoadIndex
<1>5. StoreIndexPath => Interp!StoreIndexPath
  BY DEF StoreIndexPath, Interp!StoreIndexPath
<1>6. VMStoreFieldPath /\ Instr.path # <<>> => Interp!StoreFieldPath
  BY DEF VMStoreFieldPath, Interp!StoreFieldPath
<1>. QED
  BY <1>1, <1>2, <1>3, <1>4, <1>5, <1>6

LEMMA SameCalls ==
  ASSUME Alike
  PROVE  /\ CallBuiltin => Interp!CallBuiltin
         /\ CallFunction => Interp!CallFunction
         /\ Finish => Interp!Finish
         /\ VMExecute => Interp!Execute
<1>. USE DEF
       Alike, At, Instr, Code, Top, Below, Operands, Goto, Replace, Fail, Underflow, Ended,
       Failure, NoValue, Interp!NoValue, Interp!At, Interp!Instr, Interp!Code, Interp!Top,
       Interp!Below, Interp!Operands, Interp!Goto, Interp!Replace, Interp!Fail,
       Interp!Underflow, Interp!Ended, Interp!Failure
<1>1. CallBuiltin => Interp!CallBuiltin
  BY DEF CallBuiltin, Interp!CallBuiltin
<1>2. CallFunction => Interp!CallFunction
  BY DEF CallFunction, Interp!CallFunction
<1>3. Finish => Interp!Finish
  BY DEF Finish, Interp!Finish, Returning, Interp!Returning, Success, Interp!Success,
     IsInt, Interp!IsInt, NoValue, Interp!NoValue
<1>4. VMExecute => Interp!Execute
  BY DEF VMExecute, Interp!Execute, Enter, Interp!Enter, Accepts, Interp!Accepts,
     NoValue, Interp!NoValue
<1>. QED
  BY <1>1, <1>2, <1>3, <1>4

(* Where the VM's stack is the interpreter's.                              *)

\* Only a Pop finds the value of a void call on the interpreter's stack.
LEMMA SeenNow ==
  ASSUME VMVerified, MainTakesNothing, TypeOK, ShapeInv,
         (\E ops : At(ops) /\ "Pop" \notin ops) \/ Returning
  PROVE  Seen = stack
<1>1. HasShape /\ mod \in DOMAIN Modules /\ fn \in DOMAIN Modules[mod] /\ status = "running"
  BY DEF VMVerified, HasShape, TypeOK, At, Returning
<1>2. ip \in DOMAIN Shape[mod][fn]
  BY <1>1 DEF ShapeInv, ShapeHolds
<1>3. ASSUME AfterVoidCall(Modules[mod], Shape[mod], fn, ip)
      PROVE  ip < Len(Code) /\ Instr.op = "Pop"
  BY <1>1, <1>2, <1>3 DEF VMVerified, VoidCallsPopped, Code, Instr
<1>4. Len(Code) \in Nat /\ ip \in Nat
  BY <1>1, ModulesAssumption DEF Code, TypeOK
<1>5. ~AfterVoidCall(Modules[mod], Shape[mod], fn, ip)
  BY <1>3, <1>4 DEF At, Returning
<1>. QED
  BY <1>5 DEF Seen

LEMMA SeenStops ==
  ASSUME status' # "running"
  PROVE  Seen' = stack'
  BY DEF Seen

LEMMA SeenStarts ==
  ASSUME ip' = 0
  PROVE  Seen' = stack'
  BY DEF Seen, AfterVoidCall

\* After an instruction that is no call.
LEMMA SeenNext ==
  ASSUME TypeOK, NEW ops, At(ops), "CallFunction" \notin ops, Goto(ip + 1)
  PROVE  Seen' = stack'
<1>1. mod' = mod /\ fn' = fn /\ ip' = ip + 1
  BY DEF Goto
<1>2. Modules[mod'][fn'].code[ip'].op # "CallFunction"
  BY <1>1 DEF At, Instr, Code
<1>. QED
  BY <1>2 DEF Seen, AfterVoidCall

LEMMA SeenAtTarget ==
  ASSUME VMVerified, MainTakesNothing, TypeOK, ShapeInv,
         At({"Jump", "JumpIfFalse"}), Goto(Instr.target)
  PROVE  Seen' = stack'
<1>1. HasShape /\ mod \in DOMAIN Modules /\ fn \in DOMAIN Modules[mod]
  BY DEF VMVerified, HasShape, TypeOK, At
<1>2. ip \in DOMAIN Shape[mod][fn] \ {Len(Code)} /\ Instr.op \in {"Jump", "JumpIfFalse"}
  BY <1>1, VMShaped, ShapeNow DEF At
<1>3. ~AfterVoidCall(Modules[mod], Shape[mod], fn, Instr.target)
  BY <1>1, <1>2 DEF VMVerified, VoidCallsPopped, Code, Instr
<1>. QED
  BY <1>3 DEF Goto, Seen

\* An instruction other than a Pop, a jump, a call or a return.
LEMMA AlikeInside ==
  ASSUME VMVerified, MainTakesNothing, TypeOK, ShapeInv,
         NEW ops, At(ops), {"Pop", "CallFunction"} \cap ops = {},
         status' # "running" \/ Goto(ip + 1)
  PROVE  Alike
  BY SeenNow, SeenStops, SeenNext DEF Alike

LEMMA StepsEnd ==
  /\ \A n, why : Fail(n, why) => status' # "running"
  /\ Trap => status' # "running"
  /\ \A n, v : Replace(n, v) => Goto(ip + 1)
  BY DEF Fail, Trap, Replace

LEMMA ErrorsAndPaths ==
  /\ \A n : Underflow(n) => status' # "running"
  /\ \A n, v, k : ReadChild(n, v, k) => status' # "running" \/ Goto(ip + 1)
  /\ \A n, v, p, x : WritePath(n, v, p, x) => status' # "running" \/ Goto(ip + 1)
  BY StepsEnd DEF Underflow, ReadChild, WritePath

(* Steps.                                                                  *)

LEMMA SimpleAgrees ==
  ASSUME VMVerified, MainTakesNothing, TypeOK, ShapeInv,
         VMLiterals \/ VMLoadLocal \/ VMStoreLocal \/ VMJump \/ VMJumpIfFalse
  PROVE  Interp!Next
<1>. USE StepsEnd, ErrorsAndPaths
<1>1. CASE PushLiteral
  <2>1. Alike
    BY <1>1, AlikeInside DEF PushLiteral
  <2>. QED
    BY <1>1, <2>1, SameSimple DEF Interp!Next, Interp!Step
<1>2. CASE Pop
  <2>1. /\ At({"Pop"}) /\ Goto(ip + 1) /\ locals' = locals /\ out' = out
        /\ stack' = IF stack = <<>> THEN <<>> ELSE Below(1)
    BY <1>2 DEF Pop
  <2>2. Seen' = stack'
    BY <2>1, SeenNext
  <2>3. CASE Seen = stack
    BY <1>2, <2>2, <2>3, SameSimple DEF Alike, Interp!Next, Interp!Step
  <2>4. CASE Seen # stack
    <3>1. /\ AfterVoidCall(Modules[mod], Shape[mod], fn, ip) /\ Seen = Append(stack, DefaultValue)
      BY <2>4 DEF Seen
    <3>2. ip \in DOMAIN Shape[mod][fn] /\ Len(stack) = Shape[mod][fn][ip].depth
      BY <2>1 DEF At, ShapeInv, ShapeHolds
    <3>3. Shape[mod][fn][ip].depth = 0
      BY <2>1, <3>1, <3>2 DEF VMVerified, VoidCallsPopped, At, TypeOK
    <3>4. stack = <<>>
      BY <3>2, <3>3, EmptySeq DEF TypeOK
    <3>5. Seen = <<DefaultValue>> /\ Seen' = <<>>
      BY <2>1, <2>2, <3>1, <3>4
    <3>6. Seen # <<>> /\ Seen' = Interp!Below(1)
      BY <3>5 DEF Interp!Below
    <3>. QED
      BY <2>1, <3>6 DEF Interp!Next, Interp!Step, Interp!Pop, Interp!At, At, Interp!Instr, Instr,
         Interp!Code, Code, Interp!Goto, Goto
  <2>. QED
    BY <2>3, <2>4
<1>3. CASE LoadLocal
  <2>1. Alike
    BY <1>3, AlikeInside DEF LoadLocal
  <2>. QED
    BY <1>3, <2>1, SameSimple DEF Interp!Next, Interp!Step
<1>4. CASE StoreLocal
  <2>1. Alike
    BY <1>4, AlikeInside DEF StoreLocal
  <2>. QED
    BY <1>4, <2>1, SameSimple DEF Interp!Next, Interp!Step
<1>5. CASE Jump
  <2>1. At({"Jump"}) /\ At({"Jump", "JumpIfFalse"}) /\ Goto(Instr.target)
    BY <1>5 DEF Jump, At
  <2>2. Alike
    BY <2>1, SeenNow, SeenAtTarget DEF Alike
  <2>. QED
    BY <1>5, <2>2, SameSimple DEF Interp!Next, Interp!Step
<1>6. CASE JumpIfFalse
  <2>1. At({"JumpIfFalse"}) /\ At({"Jump", "JumpIfFalse"})
    BY <1>6 DEF JumpIfFalse, At
  <2>2. status' # "running" \/ Goto(ip + 1) \/ Goto(Instr.target)
    BY <1>6 DEF JumpIfFalse
  <2>3. Alike
    BY <2>1, <2>2, SeenNow, SeenStops, SeenNext, SeenAtTarget DEF Alike
  <2>. QED
    BY <1>6, <2>3, SameSimple DEF Interp!Next, Interp!Step
<1>. QED
  BY <1>1, <1>2, <1>3, <1>4, <1>5, <1>6
     DEF VMLiterals, VMLoadLocal, VMStoreLocal, VMJump, VMJumpIfFalse

LEMMA OperatorsAgree ==
  ASSUME VMVerified, MainTakesNothing, TypeOK, ShapeInv,
         VMArithmetic \/ VMCompareOrder \/ VMCompareEquality \/ VMLogicalBinary
  PROVE  Interp!Next
<1>. DEFINE Ops == ArithOps \cup OrderOps \cup
                    {"CompareEqual", "CompareNotEqual", "LogicalAnd", "LogicalOr"}
<1>1. At(Ops) /\ {"Pop", "CallFunction"} \cap Ops = {}
  BY DEF VMArithmetic, VMCompareOrder, VMCompareEquality, VMLogicalBinary,
     Arithmetic, CompareOrder, CompareEquality, LogicalBinary, At, ArithOps, OrderOps
<1>2. status' # "running" \/ Goto(ip + 1)
  BY StepsEnd, ErrorsAndPaths DEF VMArithmetic, VMCompareOrder, VMCompareEquality,
     VMLogicalBinary, Arithmetic, CompareOrder, CompareEquality, LogicalBinary, NotTwoOf
<1>3. Alike
  BY <1>1, <1>2, AlikeInside
<1>. QED
  BY <1>3, SameOperators DEF VMArithmetic, VMCompareOrder, VMCompareEquality, VMLogicalBinary,
     Interp!Next, Interp!Step

LEMMA AggregatesAgree ==
  ASSUME VMVerified, MainTakesNothing, TypeOK, ShapeInv,
         \/ VMBuildArray \/ VMBuildMap \/ VMLoadField \/ VMLoadIndex
         \/ VMStoreFieldPath \/ VMStoreIndexPath
  PROVE  Interp!Next
<1>. DEFINE Ops == {"BuildArray", "BuildMap", "LoadField", "LoadIndex",
                    "StoreFieldPath", "StoreIndexPath"}
<1>. USE DEF VMBuildArray, VMBuildMap, VMLoadField, VMLoadIndex, VMStoreFieldPath,
             VMStoreIndexPath
<1>1. At(Ops)
  BY DEF BuildArray, BuildMap, LoadField, LoadIndex, StoreIndexPath, At
<1>2. status' # "running" \/ Goto(ip + 1)
  BY StepsEnd, ErrorsAndPaths DEF BuildArray, BuildMap, LoadField, LoadIndex, StoreIndexPath
<1>3. Alike
  BY <1>1, <1>2, AlikeInside
<1>4. VMStoreFieldPath => Instr.path # <<>>
  <2>1. HasShape
    BY DEF VMVerified, HasShape
  <2>2. Fits(Instr, Shape[mod][fn][ip], Modules[mod])
    BY <1>1, <2>1, VMShaped, ShapeNow
  <2>. QED
    BY <2>2 DEF Fits, VMStoreFieldPath, At
<1>. QED
  BY <1>3, <1>4, SameAggregateSteps DEF Interp!Next, Interp!Step

LEMMA CallsAgree ==
  ASSUME VMVerified, MainTakesNothing, TypeOK, ShapeInv,
         VMCallBuiltin \/ VMCallFunction \/ VMFinish \/ VMExecute
  PROVE  Interp!Next
<1>. USE StepsEnd, ErrorsAndPaths DEF Interp!Next, Interp!Step
<1>1. CASE CallBuiltin
  <2>1. At({"CallBuiltin"}) /\ (status' # "running" \/ Goto(ip + 1))
    BY <1>1 DEF CallBuiltin
  <2>. QED
    BY <1>1, <2>1, AlikeInside, SameCalls
<1>2. CASE CallFunction
  <2>1. At({"CallFunction"}) /\ (status' # "running" \/ ip' = 0)
    BY <1>2 DEF CallFunction
  <2>. QED
    BY <1>2, <2>1, SeenNow, SeenStops, SeenStarts, SameCalls DEF Alike
<1>3. CASE Finish
  <2>1. Returning /\ status' = "done"
    BY <1>3 DEF Finish
  <2>. QED
    BY <1>3, <2>1, SeenNow, SeenStops, SameCalls DEF Alike
<1>4. CASE VMExecute
  <2>1. status # "running" /\ (status' # "running" \/ ip' = 0)
    BY <1>4 DEF VMExecute, Enter
  <2>2. Alike
    BY <2>1, SeenStops, SeenStarts DEF Alike, Seen
  <2>. QED
    BY <1>4, <2>2, SameCalls
<1>. QED
  BY <1>1, <1>2, <1>3, <1>4 DEF VMCallBuiltin, VMCallFunction, VMFinish

\* A callee that leaves nothing leaves int 0 on the interpreter.
LEMMA ReturnAgrees ==
  ASSUME VMVerified, MainTakesNothing, TypeOK, ShapeInv, VMReturnToCaller
  PROVE  Interp!Next
<1>. DEFINE vs == IF stack # <<>> THEN <<Top(0)>> ELSE <<>>
            f  == frames[Len(frames)]
            c  == Modules[mod][f.fn].code
<1>1. Resume(vs) /\ Returning /\ HasShape
  BY DEF VMReturnToCaller, Resume, VMVerified, HasShape
<1>2. Seen = stack
  BY <1>1, SeenNow
<1>3. /\ frames # <<>> /\ status = "running" /\ mod \in DOMAIN Modules
      /\ mod' = mod /\ status' = "running" /\ fn' = f.fn /\ ip' = f.ip + 1
      /\ stack' = f.stack \o vs
  BY <1>1 DEF Resume, Returning, At, TypeOK
<1>4. /\ f \in Frame /\ Len(c) \in Nat
      /\ f.ip \in DOMAIN Shape[mod][f.fn] \ {Len(c)}
      /\ c[f.ip + 1].op = "CallFunction" /\ c[f.ip + 1].name = fn
  <2>1. f \in Frame /\ Len(frames) \in Nat \ {0}
    BY <1>3, PoppedFrames, EmptySeq DEF TypeOK
  <2>2. FrameFits(mod, f, fn)
    BY <2>1, FramesFit DEF ShapeInv, Callee
  <2>. QED
    BY <1>3, <2>1, <2>2, ModulesAssumption DEF FrameFits, Frame
<1>5. f.ip + 1 \in 1 .. Len(c)
  <2>1. DOMAIN Shape[mod][f.fn] \subseteq 0 .. Len(c)
    BY <1>1, <1>4 DEF HasShape, VMWellShaped, WellShaped, FunctionWellShaped, Frame
  <2>2. f.ip \in 0 .. Len(c) /\ f.ip # Len(c)
    BY <1>4, <2>1
  <2>. HIDE DEF f, c
  <2>. QED
    BY <1>4, <2>2
<1>6. AfterVoidCall(Modules[mod], Shape[mod], f.fn, f.ip + 1)
        <=> Left(Modules[mod], Shape[mod])[fn] = 0
  BY <1>1, <1>4, <1>5, ReturnLeaves DEF AfterVoidCall
<1>7. Seen' = IF stack # <<>> THEN stack' ELSE Append(stack', DefaultValue)
  BY <1>1, <1>3, <1>6, ReturnLeaves DEF Seen
<1>8. Seen' = f.stack \o <<IF stack # <<>> THEN Top(0) ELSE DefaultValue>>
  <2>1. f.stack \in Seq(Value)
    BY <1>4 DEF Frame
  <2>. HIDE DEF f
  <2>2. CASE stack # <<>>
    BY <1>3, <1>7, <2>2
  <2>3. CASE stack = <<>>
    <3>1. Seen' = Append(f.stack \o <<>>, DefaultValue)
      BY <1>3, <1>7, <2>3
    <3>2. Append(f.stack \o <<>>, DefaultValue) = f.stack \o <<DefaultValue>>
      BY <2>1, DefaultAssumption
    <3>. QED
      BY <2>3, <3>1, <3>2
  <2>. QED
    BY <2>2, <2>3
<1>9. Interp!ReturnToCaller
  BY <1>1, <1>2, <1>8 DEF Resume, Interp!ReturnToCaller, Interp!Resume, Returning, Interp!Returning,
     At, Interp!At, Instr, Interp!Instr, Code, Interp!Code, Top, Interp!Top,
     DefaultValue, Interp!DefaultValue, IntV, Interp!IntV
<1>. QED
  BY <1>9 DEF Interp!Next, Interp!Step

LEMMA StepAgrees ==
  ASSUME TypeOK, HasShape => ShapeInv, [VMNext]_vars
  PROVE  [VMVerified /\ MainTakesNothing => Interp!Next \/ At(OwnOps)]_vars
<1>. SUFFICES ASSUME VMVerified, MainTakesNothing, VMNext
              PROVE  Interp!Next \/ At(OwnOps)
  OBVIOUS
<1>1. ShapeInv
  BY DEF VMVerified, HasShape
<1>2. CASE VMNegInt \/ VMLogicalNot \/ VMBuildStruct
  BY <1>2 DEF VMNegInt, VMLogicalNot, VMBuildStruct, At, OwnOps
<1>. QED
  BY <1>1, <1>2, SimpleAgrees, OperatorsAgree, AggregatesAgree, CallsAgree, ReturnAgrees
     DEF VMNext, VMStep

LEMMA InitAgrees == Init => Interp!Init
  BY DEF Init, Interp!Init, Seen

\* The handlers of the VM are a second copy of the interpreter's, and a void call
\* leaves nothing here and int 0 there.  For every module, the VM's steps are the
\* interpreter's all the same, as long as void calls are popped at once; only
\* NegInt, LogicalNot and BuildStruct may differ.
THEOREM EnginesAgree == VMSpec => StepsAlike
<1>1. Init => TypeOK /\ (HasShape => ShapeInv)
  BY InitType, InitShape
<1>. QED
  BY <1>1, VMShapeStep, StepAgrees, InitAgrees, PTL DEF VMSpec, StepsAlike

\* Hence a run of the VM that reaches none of the three is a run of the interpreter.
THEOREM PlainRunsAgree ==
  VMSpec /\ [](VMVerified /\ MainTakesNothing /\ ~At(OwnOps)) => Interp!Spec
<1>1. ASSUME VMVerified /\ MainTakesNothing /\ ~At(OwnOps),
             [VMVerified /\ MainTakesNothing => Interp!Next \/ At(OwnOps)]_vars
      PROVE  [Interp!Next]_Interp!vars
  BY <1>1 DEF vars, Interp!vars, Seen
<1>. QED
  BY <1>1, EnginesAgree, PTL DEF StepsAlike, Interp!Spec

\* The same code: the compiler copies what the lowerer emits, which has no other
\* comparison for equality than CompareEqual and CompareNotEqual.
THEOREM CompilesToItself ==
  ASSUME NEW Name, NEW Instruction,
         \A i \in Instruction :
           /\ i = [x \in DOMAIN i |-> i[x]]
           /\ i.op \notin {"CompareEqualInt", "CompareNotEqualInt"},
         NEW m \in [Name -> [params : Nat, code : Seq(Instruction)]]
  PROVE  Compile(m) = m
<1>1. ASSUME NEW i \in Instruction
      PROVE  CompileInstruction(i) = i
  BY <1>1 DEF CompileInstruction, MapOpCode
<1>2. ASSUME NEW f \in Name
      PROVE  CompileFunction(m[f]) = m[f]
  <2>1. m[f].code \in Seq(Instruction) /\ DOMAIN m[f].code = 1 .. Len(m[f].code)
    BY LenProperties
  <2>2. \A k \in DOMAIN m[f].code : m[f].code[k] \in Instruction
    BY <2>1, ElementOfSeq
  <2>3. [k \in DOMAIN m[f].code |-> m[f].code[k]] = m[f].code
    BY <2>1, SeqDef
  <2>. QED
    BY <1>1, <2>2, <2>3 DEF CompileFunction
<1>. QED
  BY <1>2 DEF Compile
=============================================================================
