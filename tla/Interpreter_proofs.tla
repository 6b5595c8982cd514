------------------------- MODULE Interpreter_proofs -------------------------
(***************************************************************************)
(* The interpreter keeps its types, for every set of modules, and code     *)
(* that has a shape never fails structurally: neither underflow nor a      *)
(* missing local nor a call that does not fit, in any module, at any depth *)
(* of calls, in any sequence of calls of the host.  Nor does a call see    *)
(* another that the same object served.                                    *)
(***************************************************************************)
EXTENDS Interpreter, StackDiscipline_proofs

\* The handlers that only the interpreter has.
LEMMA OwnHandlersType ==
  ASSUME TypeOK, CompareIntEquality \/ NegInt \/ LogicalNot \/ BuildStruct
  PROVE  TypeOK'
<1>. USE ReplaceType, FailType, UnderflowType
<1>0. Len(stack) \in Nat
  BY LenProperties DEF TypeOK
<1>1. CASE CompareIntEquality
  BY <1>0, <1>1 DEF CompareIntEquality, NotTwoOf, TwoOf
<1>2. CASE NegInt
  BY <1>0, <1>2 DEF NegInt
<1>3. CASE LogicalNot
  BY <1>0, <1>3 DEF LogicalNot
<1>4. CASE BuildStruct
  <2>1. Len(Instr.names) \in Nat
    BY <1>4, CurrentInstr DEF BuildStruct, WellFormed
  <2>. QED
    BY <1>4, <2>1 DEF BuildStruct
<1>. QED
  BY <1>1, <1>2, <1>3, <1>4

LEMMA ReturnToCallerType ==
  ASSUME TypeOK, ReturnToCaller
  PROVE  TypeOK'
<1>. DEFINE v == IF stack # <<>> THEN Top(0) ELSE DefaultValue
<1>1. v \in Value
  BY EmptySeq, LenProperties, TopType, DefaultAssumption DEF TypeOK
<1>2. <<v>> \in Seq(Value)
  BY <1>1
<1>. QED
  BY <1>2, ResumeType DEF ReturnToCaller

-----------------------------------------------------------------------------

LEMMA NextType == TypeOK /\ [Next]_vars => TypeOK'
<1>. SUFFICES ASSUME TypeOK, [Next]_vars
              PROVE  TypeOK'
  OBVIOUS
<1>1. CASE Execute
  BY <1>1, EnterType, EmptySeq DEF Execute
<1>2. CASE ExecuteFunction
  BY <1>2, EnterType, RequestsAssumption DEF ExecuteFunction
<1>3. CASE Step
  BY <1>3, SimpleType, OperatorsType, OwnHandlersType, AggregatesType, CallBuiltinType,
     CallFunctionType, ReturnToCallerType, FinishType DEF Step
<1>4. CASE UNCHANGED vars
  BY <1>4 DEF vars, TypeOK, Frame
<1>. QED
  BY <1>1, <1>2, <1>3, <1>4 DEF Next

\* The interpreter (executeFunc and executeInstruction, with the callee's state
\* kept in C++ frames) keeps values in its stack and its locals, and runs only
\* functions of the module loaded, whatever the modules contain and however
\* deep the calls go.
THEOREM TypeCorrect == Spec => []TypeOK
<1>. QED
  BY InitType, NextType, PTL DEF Spec

-----------------------------------------------------------------------------
(* Shapes.                                                                 *)

\* Every call leaves one value.
OneEach == [m \in DOMAIN Modules |-> [f \in DOMAIN Modules[m] |-> 1]]

LEMMA VerifiedIsShaped ==
  ASSUME TypeOK
  PROVE  Shaped(OneEach) <=> Verified /\ MainTakesNothing
  BY DEF Shaped, OneEach, Verified, TypeOK

LEMMA OwnHandlersShape ==
  ASSUME Shaped(OneEach), TypeOK, ShapeInv,
         CompareIntEquality \/ NegInt \/ LogicalNot \/ BuildStruct
  PROVE  ShapeInv'
<1>. USE OrdinaryShape
<1>0. "type" \in DataErrors
  BY DEF DataErrors
<1>1. CASE CompareIntEquality
  <2>1. At(Replacing) /\ Pops(Instr) = 2
    BY <1>1, BinaryPops DEF CompareIntEquality, BinaryOps
  <2>. QED
    BY <1>0, <1>1, <2>1 DEF CompareIntEquality, NotTwoOf
<1>2. CASE NegInt \/ LogicalNot
  <2>1. At(Replacing) /\ Pops(Instr) = 1
    BY <1>2, UnaryPops DEF NegInt, LogicalNot
  <2>. QED
    BY <1>0, <1>2, <2>1 DEF NegInt, LogicalNot
<1>3. CASE BuildStruct
  <2>1. At(Replacing) /\ Pops(Instr) = Len(Instr.names)
    BY <1>3 DEF BuildStruct, At, Replacing, Pops, TwoOperandOps, OneOperandOps, ArithOps, OrderOps
  <2>. QED
    BY <1>3, <2>1 DEF BuildStruct
<1>. QED
  BY <1>1, <1>2, <1>3

LEMMA ReturnToCallerShape ==
  ASSUME Shaped(OneEach), TypeOK, ShapeInv, ReturnToCaller
  PROVE  ShapeInv'
<1>. DEFINE v == IF stack # <<>> THEN Top(0) ELSE DefaultValue
<1>1. v \in Value
  BY EmptySeq, LenProperties, TopType, DefaultAssumption DEF TypeOK
<1>2. <<v>> \in Seq(Value) /\ Len(<<v>>) = 1
  BY <1>1
<1>3. fn \in DOMAIN OneEach[mod] /\ OneEach[mod][fn] = 1
  BY DEF OneEach, TypeOK, ReturnToCaller, Resume, Returning, At
<1>. QED
  BY <1>2, <1>3, ResumeShape DEF ReturnToCaller

LEMMA NextShape ==
  ASSUME Shaped(OneEach), TypeOK, ShapeInv, [Next]_vars
  PROVE  ShapeInv'
<1>1. CASE Execute
  <2>. DEFINE r == [name |-> "main", args |-> <<>>]
  <2>1. Accepts(r, FALSE) => Len(r.args) = Modules[mod][r.name].params
    BY EmptySeq DEF Accepts, Shaped, MainTakesNothing
  <2>. QED
    BY <1>1, <2>1, EnterShape, EmptySeq DEF Execute
<1>2. CASE ExecuteFunction
  <2>1. PICK r \in Requests : Enter(r, TRUE)
    BY <1>2 DEF ExecuteFunction
  <2>. QED
    BY <2>1, EnterShape, RequestsAssumption DEF Accepts
<1>3. CASE Step
  BY <1>3, SimpleShape, OperatorsShape, OwnHandlersShape, AggregatesShape, CallBuiltinShape,
     CallFunctionShape, ReturnToCallerShape, FinishShape DEF Step
<1>4. CASE UNCHANGED vars
  BY <1>4 DEF vars, ShapeInv, ShapeHolds, Callee, HistoryIsSeq, NoStructuralError
<1>. QED
  BY <1>1, <1>2, <1>3, <1>4 DEF Next

LEMMA ModuleStays == [Next]_vars => mod' = mod
<1>1. CASE Execute \/ ExecuteFunction
  BY <1>1 DEF Execute, ExecuteFunction, Enter
<1>2. CASE Step
  <2>. USE DEF Replace, Goto, Fail, Underflow, Resume
  <2>1. CASE PushLiteral \/ Pop \/ LoadLocal \/ StoreLocal \/ Jump \/ JumpIfFalse
    BY <2>1 DEF PushLiteral, Pop, LoadLocal, StoreLocal, Jump, JumpIfFalse
  <2>2. CASE Arithmetic \/ CompareOrder \/ CompareEquality \/ CompareIntEquality
             \/ LogicalBinary \/ NegInt \/ LogicalNot
    BY <2>2 DEF Arithmetic, CompareOrder, CompareEquality, CompareIntEquality, LogicalBinary,
       NegInt, LogicalNot, NotTwoOf, Trap
  <2>3. CASE BuildStruct \/ BuildArray \/ BuildMap \/ LoadField \/ LoadIndex
             \/ StoreFieldPath \/ StoreIndexPath
    BY <2>3 DEF BuildStruct, BuildArray, BuildMap, LoadField, LoadIndex, StoreFieldPath,
       StoreIndexPath, ReadChild, WritePath
  <2>4. CASE CallBuiltin \/ CallFunction \/ ReturnToCaller \/ Finish
    BY <2>4 DEF CallBuiltin, CallFunction, ReturnToCaller, Finish
  <2>. QED
    BY <1>2, <2>1, <2>2, <2>3, <2>4 DEF Step
<1>. QED
  BY <1>1, <1>2 DEF Next, vars

LEMMA ShapeStep ==
  TypeOK /\ (Shaped(OneEach) => ShapeInv) /\ [Next]_vars
    => (TypeOK /\ (Shaped(OneEach) => ShapeInv))'
  BY NextType, NextShape, ModuleStays, ShapedStays

\* If the code of the module loaded has a shape, then whatever the host calls,
\* the stack and the locals of every activation are as tall as it expects ...
THEOREM ShapeKept == Spec => [](Verified /\ MainTakesNothing => ShapeHolds)
<1>1. Init => TypeOK /\ (Shaped(OneEach) => ShapeInv)
  BY InitType, InitShape
<1>2. TypeOK /\ (Shaped(OneEach) => ShapeInv) => (Verified /\ MainTakesNothing => ShapeHolds)
  BY VerifiedIsShaped DEF ShapeInv
<1>. QED
  BY <1>1, <1>2, ShapeStep, PTL DEF Spec

\* ... and the checks of executeInstruction, callFunction and callBuiltin for a
\* short stack, an unset local, an unknown callee or a wrong number of
\* arguments never fire: a call fails only for what the program's data do.
THEOREM StackSafety == Spec => []ShapedCodeIsSafe
<1>1. Init => TypeOK /\ (Shaped(OneEach) => ShapeInv)
  BY InitType, InitShape
<1>2. TypeOK /\ (Shaped(OneEach) => ShapeInv) => ShapedCodeIsSafe
  BY VerifiedIsShaped DEF ShapeInv, ShapedCodeIsSafe
<1>. QED
  BY <1>1, <1>2, ShapeStep, PTL DEF Spec

\* What a verifier of all the modules would have established before they run.
AllVerified ==
  \A m \in DOMAIN Modules :
    /\ WellShaped(Modules[m], Shape[m], [f \in DOMAIN Modules[m] |-> 1])
    /\ "main" \in DOMAIN Modules[m] => Modules[m]["main"].params = 0

\* Once verified, no module of any set of modules ever fails structurally.
THEOREM VerifiedNeverFails ==
  ASSUME AllVerified
  PROVE  Spec => []NoStructuralError
<1>1. TypeOK /\ ShapedCodeIsSafe => NoStructuralError
  BY DEF AllVerified, Verified, MainTakesNothing, ShapedCodeIsSafe, TypeOK
<1>. QED
  BY <1>1, TypeCorrect, StackSafety, PTL
-----------------------------------------------------------------------------
(* One interpreter object serves many calls, none of which sees another:   *)
(* what a call gives is a function of the call.  The proof has two parts.  *)
(* Effect computes what the next instruction does from the activation      *)
(* records alone, and every step of the interpreter is what Effect says.   *)
(* The states a call goes through are then those in every set that holds   *)
(* its start and is closed under Effect; at most one of them is its last.  *)

-----------------------------------------------------------------------------
(* What an instruction does, as a function of the state of a call.         *)

\* The state of a call that runs.
Now == [fn |-> fn, ip |-> ip, stack |-> stack, locals |-> locals, frames |-> frames, out |-> out]

FrameOf(m) == [fn : DOMAIN Modules[m], ip : Nat, stack : Seq(Value), locals : Seq(Value)]

CallState(m) ==
  [fn : DOMAIN Modules[m], ip : Nat, stack : Seq(Value), locals : Seq(Value),
   frames : Seq(FrameOf(m)), out : Seq(Value)]

Arg(c, k)  == c.stack[Len(c.stack) - k]
Rest(c, n) == SubSeq(c.stack, 1, Len(c.stack) - n)
Args(c, n) == SubSeq(c.stack, Len(c.stack) - n + 1, Len(c.stack))

\* Either the state after, or the result of the call.
Goes(c)      == [ended |-> FALSE, state |-> c, result |-> NoValue]
EndsWith(r)  == [ended |-> TRUE, state |-> NoValue, result |-> r]
Fails(why)   == EndsWith(Failure(why))

\* On to the instruction at t of the same activation.
Moves(c, t, s, ls, o) ==
  Goes([fn |-> c.fn, ip |-> t, stack |-> s, locals |-> ls, frames |-> c.frames, out |-> o])

Puts(c, n, v) == Moves(c, c.ip + 1, Append(Rest(c, n), v), c.locals, c.out)

PushEffect(i, c) == Puts(c, 0, i.val)

LoadLocalEffect(i, c) ==
  IF i.idx >= Len(c.locals) THEN Fails("local") ELSE Puts(c, 0, c.locals[i.idx + 1])

PopEffect(c) ==
  Moves(c, c.ip + 1, IF c.stack = <<>> THEN <<>> ELSE Rest(c, 1), c.locals, c.out)

StoreLocalEffect(i, c) ==
  IF Len(c.stack) < 1 THEN Fails("underflow")
  ELSE Moves(c, c.ip + 1, Rest(c, 1), Stored(c.locals, i.idx, Arg(c, 0)), c.out)

JumpEffect(i, c) == Moves(c, i.target, c.stack, c.locals, c.out)

JumpIfFalseEffect(i, c) ==
  IF Len(c.stack) < 1 THEN Fails("underflow")
  ELSE IF ~IsBool(Arg(c, 0)) THEN Fails("type")
  ELSE Moves(c, IF Arg(c, 0).bool THEN c.ip + 1 ELSE i.target, Rest(c, 1), c.locals, c.out)

\* A trap leaves no result: any value does for it.
ArithmeticEffect(i, c) ==
  IF Len(c.stack) < 2 THEN Fails("underflow")
  ELSE IF ~(IsInt(Arg(c, 1)) /\ IsInt(Arg(c, 0))) THEN Fails("type")
  ELSE IF i.op \in {"DivInt", "ModInt"} /\ Arg(c, 0).int = 0 THEN Fails("divide")
  ELSE Puts(c, 2, IntV(Arith(i.op, Arg(c, 1).int, Arg(c, 0).int)))

OrderEffect(i, c) ==
  IF Len(c.stack) < 2 THEN Fails("underflow")
  ELSE IF ~(IsInt(Arg(c, 1)) /\ IsInt(Arg(c, 0))) THEN Fails("type")
  ELSE Puts(c, 2, BoolV(Ordered(i.op, Arg(c, 1).int, Arg(c, 0).int)))

EqualityEffect(i, c) ==
  IF Len(c.stack) < 2 THEN Fails("underflow")
  ELSE IF ~SameScalar(Arg(c, 1), Arg(c, 0)) THEN Fails("type")
  ELSE Puts(c, 2, BoolV((Arg(c, 1) = Arg(c, 0)) = (i.op = "CompareEqual")))

IntEqualityEffect(i, c) ==
  IF Len(c.stack) < 2 THEN Fails("underflow")
  ELSE IF ~(IsInt(Arg(c, 1)) /\ IsInt(Arg(c, 0))) THEN Fails("type")
  ELSE Puts(c, 2, BoolV((Arg(c, 1) = Arg(c, 0)) = (i.op = "CompareEqualInt")))

LogicalEffect(i, c) ==
  IF Len(c.stack) < 2 THEN Fails("underflow")
  ELSE IF ~(IsBool(Arg(c, 1)) /\ IsBool(Arg(c, 0))) THEN Fails("type")
  ELSE Puts(c, 2, BoolV(IF i.op = "LogicalAnd" THEN Arg(c, 1).bool /\ Arg(c, 0).bool
                                               ELSE Arg(c, 1).bool \/ Arg(c, 0).bool))

NegIntEffect(c) ==
  IF Len(c.stack) < 1 THEN Fails("underflow")
  ELSE IF ~IsInt(Arg(c, 0)) THEN Fails("type")
  ELSE Puts(c, 1, IntV(Wrap(-Arg(c, 0).int)))

LogicalNotEffect(c) ==
  IF Len(c.stack) < 1 THEN Fails("underflow")
  ELSE IF ~IsBool(Arg(c, 0)) THEN Fails("type")
  ELSE Puts(c, 1, BoolV(~Arg(c, 0).bool))

BuildEffect(c, n, v) ==
  IF Len(c.stack) < n THEN Fails("underflow") ELSE Puts(c, n, v)

BuildStructEffect(i, c) ==
  BuildEffect(c, Len(i.names), BuiltStruct(i.type, i.names, Args(c, Len(i.names))))

BuildArrayEffect(i, c) == BuildEffect(c, i.args, ArrayV(Args(c, i.args)))

BuildMapEffect(i, c) ==
  BuildEffect(c, Len(i.names), BuiltMap(i.names, Args(c, Len(i.names))))

ReadEffect(c, n, v, k) ==
  IF Len(c.stack) < n THEN Fails("underflow")
  ELSE IF StepError(v, k, FALSE) # "ok" THEN Fails(StepError(v, k, FALSE))
  ELSE Puts(c, n, Child(v, k))

LoadFieldEffect(i, c) == ReadEffect(c, 1, Arg(c, 0), FieldKey(i.name))

LoadIndexEffect(c) == ReadEffect(c, 2, Arg(c, 1), Arg(c, 0))

WriteEffect(c, n, root, path, v) ==
  IF Len(c.stack) < n THEN Fails("underflow")
  ELSE IF PathError(root, path) # "ok" THEN Fails(PathError(root, path))
  ELSE Puts(c, n, PathStore(root, path, v))

StoreFieldEffect(i, c) ==
  IF i.path = <<>> THEN Fails("operand")
  ELSE WriteEffect(c, 2, Arg(c, 0), [k \in 1 .. Len(i.path) |-> FieldKey(i.path[k])], Arg(c, 1))

StoreIndexEffect(i, c) ==
  IF i.args = 0 THEN Fails("operand")
  ELSE WriteEffect(c, i.args + 2, Arg(c, i.args), Args(c, i.args), Arg(c, i.args + 1))

CallBuiltinEffect(i, c) ==
  LET b == Builtins[i.name]
      r == BuiltinCall(i.name, Args(c, i.args))
  IN  IF i.name \notin DOMAIN Builtins THEN Fails("unknown builtin")
      ELSE IF i.args # b.arity THEN Fails("arity")
      ELSE IF Len(c.stack) < i.args THEN Fails("underflow")
      ELSE IF ~r.ok THEN Fails("builtin")
      ELSE Moves(c, c.ip + 1, Rest(c, i.args) \o (IF b.returns THEN <<r.val>> ELSE <<>>),
                 c.locals, c.out \o r.out)

\* The activation that waits for a callee with n arguments.
Waiting(c, n) == [fn |-> c.fn, ip |-> c.ip, stack |-> Rest(c, n), locals |-> c.locals]

CallFunctionEffect(m, i, c) ==
  IF i.name \notin DOMAIN Modules[m] THEN Fails("unknown function")
  ELSE IF i.args # Modules[m][i.name].params THEN Fails("arity")
  ELSE IF Len(c.stack) < i.args THEN Fails("underflow")
  ELSE Goes([fn |-> i.name, ip |-> 0, stack |-> <<>>, locals |-> Args(c, i.args),
             frames |-> Append(c.frames, Waiting(c, i.args)), out |-> c.out])

\* The activation ends; s is the stack the call of the host would return.
ReturnEffect(c, s) ==
  LET f == c.frames[Len(c.frames)]
  IN  IF c.frames = <<>> THEN EndsWith(Success(s))
      ELSE Goes([fn |-> f.fn, ip |-> f.ip + 1,
                 stack |-> f.stack \o <<IF c.stack # <<>> THEN Arg(c, 0) ELSE DefaultValue>>,
                 locals |-> f.locals,
                 frames |-> SubSeq(c.frames, 1, Len(c.frames) - 1),
                 out |-> c.out])

InstrEffect(m, i, c) ==
  CASE i.op \in {"PushInt", "PushString", "PushBool"} -> PushEffect(i, c)
    [] i.op = "Pop"            -> PopEffect(c)
    [] i.op = "LoadLocal"      -> LoadLocalEffect(i, c)
    [] i.op = "StoreLocal"     -> StoreLocalEffect(i, c)
    [] i.op = "Jump"           -> JumpEffect(i, c)
    [] i.op = "JumpIfFalse"    -> JumpIfFalseEffect(i, c)
    [] i.op \in ArithOps       -> ArithmeticEffect(i, c)
    [] i.op \in OrderOps       -> OrderEffect(i, c)
    [] i.op \in {"CompareEqual", "CompareNotEqual"} -> EqualityEffect(i, c)
    [] i.op \in {"CompareEqualInt", "CompareNotEqualInt"} -> IntEqualityEffect(i, c)
    [] i.op \in {"LogicalAnd", "LogicalOr"} -> LogicalEffect(i, c)
    [] i.op = "NegInt"         -> NegIntEffect(c)
    [] i.op = "LogicalNot"     -> LogicalNotEffect(c)
    [] i.op = "BuildStruct"    -> BuildStructEffect(i, c)
    [] i.op = "BuildArray"     -> BuildArrayEffect(i, c)
    [] i.op = "BuildMap"       -> BuildMapEffect(i, c)
    [] i.op = "LoadField"      -> LoadFieldEffect(i, c)
    [] i.op = "LoadIndex"      -> LoadIndexEffect(c)
    [] i.op = "StoreFieldPath" -> StoreFieldEffect(i, c)
    [] i.op = "StoreIndexPath" -> StoreIndexEffect(i, c)
    [] i.op = "CallBuiltin"    -> CallBuiltinEffect(i, c)
    [] i.op = "CallFunction"   -> CallFunctionEffect(m, i, c)
    [] i.op = "Return"         -> ReturnEffect(c, c.stack)

Effect(m, c) ==
  LET code == Modules[m][c.fn].code
  IN  IF c.ip < Len(code) THEN InstrEffect(m, code[c.ip + 1], c) ELSE ReturnEffect(c, <<>>)

-----------------------------------------------------------------------------
(* Every step does what Effect says.                                       *)

\* A call that goes on is in the state after; one that ends has the result.
AsEffectSays ==
  /\ mod' = mod /\ request' = request
  /\ \/ /\ status' = "running" /\ history' = history
        /\ Effect(mod, Now) = Goes(Now')
     \/ /\ status' \in {"done", "failed"}
        /\ \E r : Effect(mod, Now) = EndsWith(r) /\ history' = Ended(r)
     \/ status' = "trapped" /\ history' = history

LEMMA NowParts ==
  /\ Now.fn = fn /\ Now.ip = ip /\ Now.stack = stack /\ Now.locals = locals
  /\ Now.frames = frames /\ Now.out = out
  /\ \A k : Arg(Now, k) = Top(k)
  /\ \A n : Rest(Now, n) = Below(n) /\ Args(Now, n) = Operands(n)
  BY DEF Now, Arg, Rest, Args, Top, Below, Operands

\* An instruction that goes on in its activation.
LEMMA MovesDoes ==
  ASSUME status = "running", NEW t, Goto(t),
         Effect(mod, Now) = Moves(Now, t, stack', locals', out')
  PROVE  AsEffectSays
<1>1. Moves(Now, t, stack', locals', out') = Goes(Now')
  BY DEF Moves, Now, Goto
<1>. QED
  BY <1>1 DEF AsEffectSays, Goto

\* A failure ends the call of the host at once, at any depth.
LEMMA FailDoes ==
  ASSUME NEW n, NEW why, Fail(n, why), Effect(mod, Now) = Fails(why)
  PROVE  AsEffectSays
  BY DEF AsEffectSays, Fail, Fails

\* n operands replaced by one value.
LEMMA ReplaceDoes ==
  ASSUME status = "running", NEW n, NEW v, Replace(n, v), Effect(mod, Now) = Puts(Now, n, v)
  PROVE  AsEffectSays
  BY NowParts, MovesDoes DEF Replace, Puts

\* Which effect is that of which instruction.
Does(e) == Effect(mod, Now) = e

LEMMA EffectsByOp ==
  ASSUME status = "running", ip < Len(Code)
  PROVE
    /\ Instr.op \in {"PushInt", "PushString", "PushBool"} => Does(PushEffect(Instr, Now))
    /\ Instr.op = "Pop" => Does(PopEffect(Now))
    /\ Instr.op = "LoadLocal" => Does(LoadLocalEffect(Instr, Now))
    /\ Instr.op = "StoreLocal" => Does(StoreLocalEffect(Instr, Now))
    /\ Instr.op = "Jump" => Does(JumpEffect(Instr, Now))
    /\ Instr.op = "JumpIfFalse" => Does(JumpIfFalseEffect(Instr, Now))
    /\ Instr.op \in ArithOps => Does(ArithmeticEffect(Instr, Now))
    /\ Instr.op \in OrderOps => Does(OrderEffect(Instr, Now))
    /\ Instr.op \in {"CompareEqual", "CompareNotEqual"} => Does(EqualityEffect(Instr, Now))
    /\ Instr.op \in {"CompareEqualInt", "CompareNotEqualInt"} => Does(IntEqualityEffect(Instr, Now))
    /\ Instr.op \in {"LogicalAnd", "LogicalOr"} => Does(LogicalEffect(Instr, Now))
    /\ Instr.op = "NegInt" => Does(NegIntEffect(Now))
    /\ Instr.op = "LogicalNot" => Does(LogicalNotEffect(Now))
    /\ Instr.op = "BuildStruct" => Does(BuildStructEffect(Instr, Now))
    /\ Instr.op = "BuildArray" => Does(BuildArrayEffect(Instr, Now))
    /\ Instr.op = "BuildMap" => Does(BuildMapEffect(Instr, Now))
    /\ Instr.op = "LoadField" => Does(LoadFieldEffect(Instr, Now))
    /\ Instr.op = "LoadIndex" => Does(LoadIndexEffect(Now))
    /\ Instr.op = "StoreFieldPath" => Does(StoreFieldEffect(Instr, Now))
    /\ Instr.op = "StoreIndexPath" => Does(StoreIndexEffect(Instr, Now))
    /\ Instr.op = "CallBuiltin" => Does(CallBuiltinEffect(Instr, Now))
    /\ Instr.op = "CallFunction" => Does(CallFunctionEffect(mod, Instr, Now))
    /\ Instr.op = "Return" => Does(ReturnEffect(Now, stack))
<1>1. Effect(mod, Now) = InstrEffect(mod, Instr, Now)
  BY DEF Effect, Now, Instr, Code
<1>2. Now.stack = stack
  BY DEF Now
<1>. QED
  BY <1>1, <1>2 DEF Does, InstrEffect, ArithOps, OrderOps

(* One lemma per family of handlers.                                     *)

LEMMA SimpleDoes ==
  ASSUME TypeOK, PushLiteral \/ Pop \/ LoadLocal \/ StoreLocal \/ Jump \/ JumpIfFalse
  PROVE  AsEffectSays
<1>. USE NowParts
<1>0. Len(stack) \in Nat /\ Len(locals) \in Nat
  BY LenProperties DEF TypeOK
<1>1. CASE PushLiteral
  <2>1. Effect(mod, Now) = PushEffect(Instr, Now) /\ status = "running"
    BY <1>1, EffectsByOp DEF PushLiteral, Does, At
  <2>. QED
    BY <1>1, <2>1, ReplaceDoes DEF PushLiteral, PushEffect
<1>2. CASE Pop
  <2>1. Effect(mod, Now) = PopEffect(Now) /\ status = "running"
    BY <1>2, EffectsByOp DEF Pop, Does, At
  <2>. QED
    BY <1>2, <2>1, MovesDoes DEF Pop, PopEffect
<1>3. CASE LoadLocal
  <2>1. Effect(mod, Now) = LoadLocalEffect(Instr, Now) /\ status = "running"
    BY <1>3, EffectsByOp DEF LoadLocal, Does, At
  <2>2. Instr.idx \in Nat
    BY <1>3, CurrentInstr DEF LoadLocal, WellFormed
  <2>. QED
    BY <1>0, <1>3, <2>1, <2>2, ReplaceDoes, FailDoes DEF LoadLocal, LoadLocalEffect
<1>4. CASE StoreLocal
  <2>1. Effect(mod, Now) = StoreLocalEffect(Instr, Now) /\ status = "running"
    BY <1>4, EffectsByOp DEF StoreLocal, Does, At
  <2>. QED
    BY <1>0, <1>4, <2>1, MovesDoes, FailDoes DEF StoreLocal, StoreLocalEffect, Underflow
<1>5. CASE Jump
  <2>1. Effect(mod, Now) = JumpEffect(Instr, Now) /\ status = "running"
    BY <1>5, EffectsByOp DEF Jump, Does, At
  <2>. QED
    BY <1>5, <2>1, MovesDoes DEF Jump, JumpEffect
<1>6. CASE JumpIfFalse
  <2>1. Effect(mod, Now) = JumpIfFalseEffect(Instr, Now) /\ status = "running"
    BY <1>6, EffectsByOp DEF JumpIfFalse, Does, At
  <2>. QED
    BY <1>0, <1>6, <2>1, MovesDoes, FailDoes DEF JumpIfFalse, JumpIfFalseEffect, Underflow
<1>. QED
  BY <1>1, <1>2, <1>3, <1>4, <1>5, <1>6

LEMMA OperatorsDo ==
  ASSUME TypeOK,
         \/ Arithmetic \/ CompareOrder \/ CompareEquality \/ CompareIntEquality
         \/ LogicalBinary \/ NegInt \/ LogicalNot
  PROVE  AsEffectSays
<1>. USE NowParts
<1>0. Len(stack) \in Nat
  BY LenProperties DEF TypeOK
<1>1. CASE Arithmetic
  <2>1. Effect(mod, Now) = ArithmeticEffect(Instr, Now) /\ status = "running"
    BY <1>1, EffectsByOp DEF Arithmetic, Does, At
  <2>2. CASE Trap
    BY <2>2 DEF Trap, AsEffectSays
  <2>. QED
    BY <1>0, <1>1, <2>1, <2>2, ReplaceDoes, FailDoes
       DEF Arithmetic, ArithmeticEffect, Underflow, TwoOf, NotTwoOf
<1>2. CASE CompareOrder
  <2>1. Effect(mod, Now) = OrderEffect(Instr, Now) /\ status = "running"
    BY <1>2, EffectsByOp DEF CompareOrder, Does, At
  <2>. QED
    BY <1>0, <1>2, <2>1, ReplaceDoes, FailDoes
       DEF CompareOrder, OrderEffect, Underflow, TwoOf, NotTwoOf
<1>3. CASE CompareEquality
  <2>1. Effect(mod, Now) = EqualityEffect(Instr, Now) /\ status = "running"
    BY <1>3, EffectsByOp DEF CompareEquality, Does, At
  <2>. QED
    BY <1>0, <1>3, <2>1, ReplaceDoes, FailDoes DEF CompareEquality, EqualityEffect, Underflow
<1>4. CASE CompareIntEquality
  <2>1. Effect(mod, Now) = IntEqualityEffect(Instr, Now) /\ status = "running"
    BY <1>4, EffectsByOp DEF CompareIntEquality, Does, At
  <2>. QED
    BY <1>0, <1>4, <2>1, ReplaceDoes, FailDoes
       DEF CompareIntEquality, IntEqualityEffect, Underflow, TwoOf, NotTwoOf
<1>5. CASE LogicalBinary
  <2>1. Effect(mod, Now) = LogicalEffect(Instr, Now) /\ status = "running"
    BY <1>5, EffectsByOp DEF LogicalBinary, Does, At
  <2>. QED
    BY <1>0, <1>5, <2>1, ReplaceDoes, FailDoes
       DEF LogicalBinary, LogicalEffect, Underflow, TwoOf, NotTwoOf
<1>6. CASE NegInt
  <2>1. Effect(mod, Now) = NegIntEffect(Now) /\ status = "running"
    BY <1>6, EffectsByOp DEF NegInt, Does, At
  <2>. QED
    BY <1>0, <1>6, <2>1, ReplaceDoes, FailDoes DEF NegInt, NegIntEffect, Underflow
<1>7. CASE LogicalNot
  <2>1. Effect(mod, Now) = LogicalNotEffect(Now) /\ status = "running"
    BY <1>7, EffectsByOp DEF LogicalNot, Does, At
  <2>. QED
    BY <1>0, <1>7, <2>1, ReplaceDoes, FailDoes DEF LogicalNot, LogicalNotEffect, Underflow
<1>. QED
  BY <1>1, <1>2, <1>3, <1>4, <1>5, <1>6, <1>7

LEMMA ReadChildDoes ==
  ASSUME status = "running", NEW n, NEW v, NEW k, ReadChild(n, v, k), ~(Len(stack) < n),
         Effect(mod, Now) = ReadEffect(Now, n, v, k)
  PROVE  AsEffectSays
<1>. USE NowParts
<1>1. CASE StepError(v, k, FALSE) = "ok"
  BY <1>1, ReplaceDoes DEF ReadChild, ReadEffect
<1>2. CASE StepError(v, k, FALSE) # "ok"
  BY <1>2, FailDoes DEF ReadChild, ReadEffect
<1>. QED
  BY <1>1, <1>2

LEMMA AggregatesDo ==
  ASSUME TypeOK,
         \/ BuildStruct \/ BuildArray \/ BuildMap \/ LoadField \/ LoadIndex
         \/ StoreFieldPath \/ StoreIndexPath
  PROVE  AsEffectSays
<1>. USE NowParts
<1>0. Len(stack) \in Nat
  BY LenProperties DEF TypeOK
<1>1. CASE BuildStruct
  <2>1. Effect(mod, Now) = BuildStructEffect(Instr, Now) /\ status = "running"
    BY <1>1, EffectsByOp DEF BuildStruct, Does, At
  <2>2. Len(Instr.names) \in Nat
    BY <1>1, CurrentInstr DEF BuildStruct, WellFormed
  <2>. QED
    BY <1>0, <1>1, <2>1, <2>2, ReplaceDoes, FailDoes
       DEF BuildStruct, BuildStructEffect, BuildEffect, Underflow
<1>2. CASE BuildArray
  <2>1. Effect(mod, Now) = BuildArrayEffect(Instr, Now) /\ status = "running"
    BY <1>2, EffectsByOp DEF BuildArray, Does, At
  <2>2. Instr.args \in Nat
    BY <1>2, CurrentInstr DEF BuildArray, WellFormed
  <2>. QED
    BY <1>0, <1>2, <2>1, <2>2, ReplaceDoes, FailDoes
       DEF BuildArray, BuildArrayEffect, BuildEffect, Underflow
<1>3. CASE BuildMap
  <2>1. Effect(mod, Now) = BuildMapEffect(Instr, Now) /\ status = "running"
    BY <1>3, EffectsByOp DEF BuildMap, Does, At
  <2>2. Len(Instr.names) \in Nat
    BY <1>3, CurrentInstr DEF BuildMap, WellFormed
  <2>. QED
    BY <1>0, <1>3, <2>1, <2>2, ReplaceDoes, FailDoes
       DEF BuildMap, BuildMapEffect, BuildEffect, Underflow
<1>4. CASE LoadField
  <2>1. Effect(mod, Now) = ReadEffect(Now, 1, Top(0), FieldKey(Instr.name)) /\ status = "running"
    BY <1>4, EffectsByOp DEF LoadField, LoadFieldEffect, Does, At
  <2>2. CASE Len(stack) < 1
    BY <1>0, <1>4, <2>1, <2>2, FailDoes DEF LoadField, ReadEffect, Underflow
  <2>3. CASE Len(stack) >= 1
    BY <1>0, <1>4, <2>1, <2>3, ReadChildDoes DEF LoadField, Underflow
  <2>. QED
    BY <1>0, <2>2, <2>3
<1>5. CASE LoadIndex
  <2>1. Effect(mod, Now) = ReadEffect(Now, 2, Top(1), Top(0)) /\ status = "running"
    BY <1>5, EffectsByOp DEF LoadIndex, LoadIndexEffect, Does, At
  <2>2. CASE Len(stack) < 2
    BY <1>0, <1>5, <2>1, <2>2, FailDoes DEF LoadIndex, ReadEffect, Underflow
  <2>3. CASE Len(stack) >= 2
    BY <1>0, <1>5, <2>1, <2>3, ReadChildDoes DEF LoadIndex, Underflow
  <2>. QED
    BY <1>0, <2>2, <2>3
<1>6. CASE StoreFieldPath
  <2>1. Effect(mod, Now) = StoreFieldEffect(Instr, Now) /\ status = "running"
    BY <1>6, EffectsByOp DEF StoreFieldPath, Does, At
  <2>. QED
    BY <1>0, <1>6, <2>1, ReplaceDoes, FailDoes
       DEF StoreFieldPath, StoreFieldEffect, WriteEffect, WritePath, Underflow
<1>7. CASE StoreIndexPath
  <2>1. Effect(mod, Now) = StoreIndexEffect(Instr, Now) /\ status = "running"
    BY <1>7, EffectsByOp DEF StoreIndexPath, Does, At
  <2>2. Instr.args \in Nat
    BY <1>7, CurrentInstr DEF StoreIndexPath, WellFormed
  <2>. QED
    BY <1>0, <1>7, <2>1, <2>2, ReplaceDoes, FailDoes
       DEF StoreIndexPath, StoreIndexEffect, WriteEffect, WritePath, Underflow
<1>. QED
  BY <1>1, <1>2, <1>3, <1>4, <1>5, <1>6, <1>7

LEMMA CallBuiltinDoes ==
  ASSUME TypeOK, CallBuiltin
  PROVE  AsEffectSays
<1>. USE NowParts
<1>. DEFINE n == Instr.args
            b == Builtins[Instr.name]
            r == BuiltinCall(Instr.name, Operands(n))
<1>0. Len(stack) \in Nat /\ n \in Nat
  BY LenProperties, CurrentInstr DEF TypeOK, CallBuiltin, WellFormed
<1>1. Effect(mod, Now) = CallBuiltinEffect(Instr, Now) /\ status = "running"
  BY EffectsByOp DEF CallBuiltin, Does, At
<1>2. CASE Instr.name \notin DOMAIN Builtins /\ Fail(0, "unknown builtin")
  BY <1>1, <1>2, FailDoes DEF CallBuiltinEffect
<1>3. CASE Instr.name \in DOMAIN Builtins /\ n # b.arity /\ Fail(0, "arity")
  BY <1>1, <1>3, FailDoes DEF CallBuiltinEffect
<1>4. CASE Instr.name \in DOMAIN Builtins /\ n = b.arity /\ Underflow(n)
  BY <1>1, <1>4, FailDoes DEF CallBuiltinEffect, Underflow
<1>5. CASE /\ Instr.name \in DOMAIN Builtins /\ n = b.arity /\ Len(stack) >= n
           /\ ~r.ok /\ Fail(n, "builtin")
  <2>1. Effect(mod, Now) = Fails("builtin")
    BY <1>0, <1>1, <1>5 DEF CallBuiltinEffect
  <2>. QED
    BY <1>5, <2>1, FailDoes
<1>6. CASE /\ Instr.name \in DOMAIN Builtins /\ n = b.arity /\ Len(stack) >= n
           /\ r.ok
           /\ stack' = Below(n) \o (IF b.returns THEN <<r.val>> ELSE <<>>)
           /\ out' = out \o r.out
           /\ Goto(ip + 1)
           /\ UNCHANGED locals
  <2>1. Effect(mod, Now) = Moves(Now, ip + 1, stack', locals', out')
    BY <1>0, <1>1, <1>6 DEF CallBuiltinEffect
  <2>. QED
    BY <1>1, <1>6, <2>1, MovesDoes
<1>. QED
  BY <1>2, <1>3, <1>4, <1>5, <1>6 DEF CallBuiltin

LEMMA CallFunctionDoes ==
  ASSUME TypeOK, CallFunction
  PROVE  AsEffectSays
<1>. USE NowParts
<1>. DEFINE n == Instr.args
            f == Instr.name
<1>0. Len(stack) \in Nat /\ n \in Nat
  BY LenProperties, CurrentInstr DEF TypeOK, CallFunction, WellFormed
<1>1. Effect(mod, Now) = CallFunctionEffect(mod, Instr, Now) /\ status = "running"
  BY EffectsByOp DEF CallFunction, Does, At
<1>2. CASE f \notin DOMAIN Modules[mod] /\ Fail(0, "unknown function")
  BY <1>1, <1>2, FailDoes DEF CallFunctionEffect
<1>3. CASE f \in DOMAIN Modules[mod] /\ n # Modules[mod][f].params /\ Fail(0, "arity")
  BY <1>1, <1>3, FailDoes DEF CallFunctionEffect
<1>4. CASE f \in DOMAIN Modules[mod] /\ n = Modules[mod][f].params /\ Underflow(n)
  BY <1>1, <1>4, FailDoes DEF CallFunctionEffect, Underflow
<1>5. CASE /\ f \in DOMAIN Modules[mod] /\ n = Modules[mod][f].params /\ Len(stack) >= n
           /\ frames' = Append(frames, [fn |-> fn, ip |-> ip,
                                        stack |-> Below(n), locals |-> locals])
           /\ fn' = f /\ ip' = 0 /\ stack' = <<>> /\ locals' = Operands(n)
           /\ UNCHANGED <<mod, status, request, out, history>>
  <2>0. Waiting(Now, n) = [fn |-> fn, ip |-> ip, stack |-> Below(n), locals |-> locals]
    BY DEF Waiting
  <2>1. Now' = [fn |-> f, ip |-> 0, stack |-> <<>>, locals |-> Args(Now, n),
                frames |-> Append(Now.frames, Waiting(Now, n)), out |-> Now.out]
    BY <1>5, <2>0 DEF Now
  <2>2. Effect(mod, Now) = Goes(Now')
    BY <1>0, <1>1, <1>5, <2>1 DEF CallFunctionEffect
  <2>. QED
    BY <1>1, <1>5, <2>2 DEF AsEffectSays
<1>. QED
  BY <1>2, <1>3, <1>4, <1>5 DEF CallFunction

\* An activation ends at a Return, or past the end of the code.
LEMMA ReturningDoes ==
  ASSUME TypeOK, Returning
  PROVE  /\ Effect(mod, Now) = ReturnEffect(Now, IF ip < Len(Code) THEN stack ELSE <<>>)
         /\ status = "running"
<1>0. Len(Code) \in Nat /\ ip \in Nat
  BY ModulesAssumption DEF TypeOK, Code, Returning, At
<1>1. CASE At({"Return"})
  BY <1>1, EffectsByOp DEF Does, At
<1>2. CASE status = "running" /\ ip >= Len(Code)
  BY <1>0, <1>2 DEF Effect, Now, Code
<1>. QED
  BY <1>1, <1>2 DEF Returning

LEMMA ReturnDoes ==
  ASSUME TypeOK, ReturnToCaller \/ Finish
  PROVE  AsEffectSays
<1>. USE NowParts
<1>0. /\ Len(stack) \in Nat /\ status = "running"
      /\ Effect(mod, Now) = ReturnEffect(Now, IF ip < Len(Code) THEN stack ELSE <<>>)
  BY LenProperties, ReturningDoes DEF TypeOK, ReturnToCaller, Resume, Finish
<1>1. CASE ReturnToCaller
  <2>1. Effect(mod, Now) = Goes(Now')
    BY <1>0, <1>1 DEF ReturnToCaller, Resume, ReturnEffect, Now
  <2>. QED
    BY <1>0, <1>1, <2>1 DEF ReturnToCaller, Resume, AsEffectSays
<1>2. CASE Finish
  <2>1. Effect(mod, Now) = EndsWith(Success(IF ip < Len(Code) THEN stack ELSE <<>>))
    BY <1>0, <1>2 DEF Finish, ReturnEffect
  <2>. QED
    BY <1>2, <2>1 DEF Finish, AsEffectSays
<1>. QED
  BY <1>1, <1>2

\* What an instruction does depends on the state of the call alone.
LEMMA StepDoes ==
  ASSUME TypeOK, Step
  PROVE  AsEffectSays
  BY SimpleDoes, OperatorsDo, AggregatesDo, CallBuiltinDoes, CallFunctionDoes,
     ReturnDoes DEF Step

-----------------------------------------------------------------------------
(* The states a call goes through.                                         *)

\* The next state of a call in c, or c once it has ended.
Nxt(m, c) ==
  IF ~Effect(m, c).ended /\ Effect(m, c).state \in CallState(m) THEN Effect(m, c).state ELSE c

Closed(m, S) == \A x \in S : Nxt(m, x) \in S

Reach(m, c) ==
  {d \in CallState(m) : \A S \in SUBSET CallState(m) : c \in S /\ Closed(m, S) => d \in S}

LEMMA ReachStart ==
  ASSUME NEW m, NEW c \in CallState(m)
  PROVE  c \in Reach(m, c) /\ Nxt(m, c) \in CallState(m)
  BY DEF Reach, Nxt

\* The states a call goes through are closed under its steps.
LEMMA ReachNext ==
  ASSUME NEW m, NEW c, NEW d \in Reach(m, c)
  PROVE  Nxt(m, d) \in Reach(m, c)
<1>1. d \in CallState(m) /\ Nxt(m, d) \in CallState(m)
  BY ReachStart DEF Reach
<1>. QED
  BY <1>1 DEF Reach, Closed

\* What a call reaches, it reaches now or after its next step.
LEMMA ReachSplit ==
  ASSUME NEW m, NEW c \in CallState(m), NEW d \in Reach(m, c), d # c
  PROVE  d \in Reach(m, Nxt(m, c))
<1>. DEFINE S == {c} \cup Reach(m, Nxt(m, c))
<1>1. S \in SUBSET CallState(m) /\ c \in S
  BY DEF Reach
<1>2. ASSUME NEW x \in S
      PROVE  Nxt(m, x) \in S
  BY ReachStart, ReachNext
<1>3. d \in S
  BY <1>1, <1>2 DEF Reach, Closed
<1>. QED
  BY <1>3

\* A call has one last state.
LEMMA LastIsUnique ==
  ASSUME NEW m, NEW c \in CallState(m), NEW d \in Reach(m, c), NEW e \in Reach(m, c),
         Effect(m, d).ended, Effect(m, e).ended
  PROVE  d = e
<1>. DEFINE S == {x \in CallState(m) : d \in Reach(m, x)}
<1>0. Nxt(m, d) = d /\ Nxt(m, e) = e /\ e \in CallState(m)
  BY DEF Nxt, Reach
<1>1. ASSUME NEW x \in S
      PROVE  Nxt(m, x) \in S
  <2>1. CASE x = d
    BY <1>0, <2>1
  <2>2. CASE x # d
    BY <2>2, ReachSplit, ReachStart
  <2>. QED
    BY <2>1, <2>2
<1>2. e \in S
  BY <1>1 DEF Reach, Closed
<1>3. {e} \in SUBSET CallState(m) /\ e \in {e} /\ Closed(m, {e})
  BY <1>0 DEF Closed
<1>. QED
  BY <1>2, <1>3 DEF Reach

-----------------------------------------------------------------------------
(* Every ended call is explained by its request.                           *)

StartOf(r) ==
  [fn |-> r.name, ip |-> 0, stack |-> <<>>, locals |-> r.args, frames |-> <<>>, out |-> <<>>]

Admitted(m, r) == r.name \in DOMAIN Modules[m] /\ Len(r.args) = Modules[m][r.name].params

\* Refused at the entry, or run to the last state of the call.
Explained(m, h) ==
  \/ /\ ~Admitted(m, h.request)
     /\ h = [request |-> h.request, result |-> Failure("entry"), out |-> <<>>]
  \/ /\ Admitted(m, h.request)
     /\ StartOf(h.request) \in CallState(m)
     /\ \E d \in Reach(m, StartOf(h.request)) :
          /\ Effect(m, d).ended
          /\ h = [request |-> h.request, result |-> Effect(m, d).result, out |-> d.out]

Served ==
  /\ status = "running" =>
       /\ Admitted(mod, request)
       /\ StartOf(request) \in CallState(mod)
       /\ Now \in Reach(mod, StartOf(request))
  /\ HistoryIsSeq
  /\ \A k \in 1 .. Len(history) : Explained(mod, history[k])

LEMMA NowIsState ==
  ASSUME TypeOK, status = "running"
  PROVE  Now \in CallState(mod)
  BY DEF TypeOK, Now, CallState, FrameOf, Frame

LEMMA NowIsStateNext ==
  ASSUME TypeOK', status' = "running"
  PROVE  Now' \in CallState(mod')
  BY DEF TypeOK, Now, CallState, FrameOf, Frame

\* One more ended call.
LEMMA ExplainedGrows ==
  ASSUME HistoryIsSeq, \A k \in 1 .. Len(history) : Explained(mod, history[k]), mod' = mod,
         NEW e, Explained(mod, e), history' = Append(history, e), status' # "running"
  PROVE  Served'
<1>. DEFINE S == {history[k] : k \in 1 .. Len(history)} \cup {e}
<1>1. history \in Seq(S)
  BY TableIsSeq DEF HistoryIsSeq
<1>2. /\ Append(history, e) \in Seq(S)
      /\ Len(Append(history, e)) = Len(history) + 1
      /\ \A k \in 1 .. Len(history) : Append(history, e)[k] = history[k]
      /\ Append(history, e)[Len(history) + 1] = e
  BY <1>1, AppendProperties
<1>3. HistoryIsSeq'
  BY <1>2, LenProperties DEF HistoryIsSeq
<1>4. ASSUME NEW k \in 1 .. Len(history')
      PROVE  Explained(mod, history'[k])
  <2>1. CASE k = Len(history) + 1
    BY <1>2, <2>1
  <2>2. CASE k \in 1 .. Len(history)
    BY <1>2, <2>2
  <2>. QED
    BY <1>2, <2>1, <2>2 DEF HistoryIsSeq
<1>. QED
  BY <1>3, <1>4 DEF Served

LEMMA StepRuns == Step => status = "running"
  BY DEF Step, At, PushLiteral, Pop, LoadLocal, StoreLocal, Jump, JumpIfFalse, Arithmetic, NegInt,
     CompareOrder, CompareEquality, CompareIntEquality, LogicalNot, LogicalBinary, BuildStruct,
     BuildArray, BuildMap, LoadField, LoadIndex, StoreFieldPath, StoreIndexPath, CallBuiltin,
     CallFunction, ReturnToCaller, Resume, Finish, Returning

\* A step goes on to a state the request reaches, or ends in its last one.
LEMMA StepServed ==
  ASSUME TypeOK, TypeOK', Served, Step
  PROVE  Served'
<1>0. /\ status = "running" /\ AsEffectSays /\ Now \in CallState(mod)
      /\ Admitted(mod, request) /\ StartOf(request) \in CallState(mod)
      /\ Now \in Reach(mod, StartOf(request))
  BY StepDoes, StepRuns, NowIsState DEF Served
<1>1. CASE status' = "running" /\ history' = history /\ Effect(mod, Now) = Goes(Now')
  <2>1. Now' \in CallState(mod)
    BY <1>0, <1>1, NowIsStateNext DEF AsEffectSays
  <2>2. Nxt(mod, Now) = Now'
    BY <1>1, <2>1 DEF Nxt, Goes
  <2>3. Now' \in Reach(mod, StartOf(request))
    BY <1>0, <2>2, ReachNext
  <2>. QED
    BY <1>0, <1>1, <2>3 DEF Served, AsEffectSays, HistoryIsSeq
<1>2. CASE /\ status' \in {"done", "failed"}
           /\ \E r : Effect(mod, Now) = EndsWith(r) /\ history' = Ended(r)
  <2>1. PICK r : Effect(mod, Now) = EndsWith(r) /\ history' = Ended(r)
    BY <1>2
  <2>. DEFINE e == [request |-> request, result |-> r, out |-> out]
  <2>2. Effect(mod, Now).ended /\ Effect(mod, Now).result = r /\ Now.out = out
    BY <2>1 DEF EndsWith, Now
  <2>3. Explained(mod, e)
    BY <1>0, <2>2 DEF Explained
  <2>. QED
    BY <1>0, <1>2, <2>1, <2>3, ExplainedGrows DEF Ended, Served, AsEffectSays
<1>3. CASE status' = "trapped" /\ history' = history
  BY <1>0, <1>3 DEF Served, AsEffectSays, HistoryIsSeq
<1>. QED
  BY <1>0, <1>1, <1>2, <1>3 DEF AsEffectSays

\* A call starts in its first state, whatever the calls before it left behind.
LEMMA EnterServed ==
  ASSUME TypeOK, TypeOK', Served, NEW r, NEW checked \in BOOLEAN, Enter(r, checked),
         Accepts(r, checked) <=> Admitted(mod, r)
  PROVE  Served'
<1>1. CASE Accepts(r, checked)
  <2>1. /\ request' = r /\ mod' = mod /\ status' = "running" /\ history' = history
        /\ Now' = StartOf(r)
    BY <1>1 DEF Enter, Now, StartOf
  <2>2. StartOf(r) \in CallState(mod)
    BY <2>1, NowIsStateNext
  <2>. QED
    BY <1>1, <2>1, <2>2, ReachStart DEF Served, HistoryIsSeq
<1>2. CASE ~Accepts(r, checked)
  <2>. DEFINE e == [request |-> r, result |-> Failure("entry"), out |-> <<>>]
  <2>1. /\ mod' = mod /\ status' = "failed" /\ history' = Append(history, e)
    BY <1>2 DEF Enter
  <2>2. Explained(mod, e)
    BY <1>2 DEF Explained
  <2>. QED
    BY <2>1, <2>2, ExplainedGrows DEF Served
<1>. QED
  BY <1>1, <1>2

LEMMA NextServed ==
  ASSUME MainTakesNothing, TypeOK, Served, [Next]_vars
  PROVE  Served'
<1>0. TypeOK'
  BY NextType
<1>1. CASE Execute
  <2>. DEFINE r == [name |-> "main", args |-> <<>>]
  <2>1. Accepts(r, FALSE) <=> Admitted(mod, r)
    BY EmptySeq DEF Accepts, Admitted, MainTakesNothing
  <2>. QED
    BY <1>0, <1>1, <2>1, EnterServed DEF Execute
<1>2. CASE ExecuteFunction
  <2>1. PICK r \in Requests : Enter(r, TRUE)
    BY <1>2 DEF ExecuteFunction
  <2>2. Accepts(r, TRUE) <=> Admitted(mod, r)
    BY DEF Accepts, Admitted
  <2>. QED
    BY <1>0, <2>1, <2>2, EnterServed
<1>3. CASE Step
  BY <1>0, <1>3, StepServed
<1>4. CASE UNCHANGED vars
  BY <1>4 DEF vars, Served, HistoryIsSeq, Now
<1>. QED
  BY <1>1, <1>2, <1>3, <1>4 DEF Next

\* Two calls alike have the same last state.
LEMMA ServedIsIsolated == Served => Isolation
<1>. SUFFICES ASSUME Served, NEW i \in 1 .. Len(history), NEW j \in 1 .. Len(history),
                     history[i].request = history[j].request
              PROVE  history[i] = history[j]
  BY DEF Isolation
<1>1. Explained(mod, history[i]) /\ Explained(mod, history[j])
  BY DEF Served
<1>2. CASE ~Admitted(mod, history[i].request)
  BY <1>1, <1>2 DEF Explained
<1>3. CASE Admitted(mod, history[i].request)
  BY <1>1, <1>3, LastIsUnique DEF Explained
<1>. QED
  BY <1>2, <1>3

\* The calls of the host on one interpreter object do not see each other
\* (execute and executeFunction clear _stack and replace _locals; callFunction
\* keeps the caller's in its C++ frame): in any order, after any failures, the
\* same call gives the same result and prints the same.
THEOREM CallsAreIsolated == Spec => [](MainTakesNothing => Isolation)
<1>1. Init => TypeOK /\ (MainTakesNothing => Served)
  <2>1. Init => status # "running" /\ history = <<>> /\ Len(<<>>) = 0
    BY EmptySeq DEF Init
  <2>2. Init => HistoryIsSeq
    BY <2>1 DEF HistoryIsSeq
  <2>. QED
    BY <2>1, <2>2, InitType DEF Served
<1>2. TypeOK /\ (MainTakesNothing => Served) /\ [Next]_vars
        => (TypeOK /\ (MainTakesNothing => Served))'
  BY NextType, NextServed, ModuleStays DEF MainTakesNothing
<1>3. TypeOK /\ (MainTakesNothing => Served) => (MainTakesNothing => Isolation)
  BY ServedIsIsolated
<1>. QED
  BY <1>1, <1>2, <1>3, PTL DEF Spec
=============================================================================
