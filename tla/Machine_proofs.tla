--------------------------- MODULE Machine_proofs ---------------------------
(***************************************************************************)
(* The handlers that both engines share keep the types of the machine.     *)
(***************************************************************************)
EXTENDS Machine, TLAPS, SequenceTheorems

(* Sequences.                                                              *)

\* A function on 1 .. n is a sequence of length n.
LEMMA TableIsSeq ==
  ASSUME NEW S, NEW n \in Nat, NEW f \in [1 .. n -> S]
  PROVE  f \in Seq(S) /\ Len(f) = n
<1>1. f \in Seq(S)
  BY SeqDef
<1>2. DOMAIN f = 1 .. Len(f) /\ Len(f) \in Nat
  BY <1>1, LenProperties
<1>. QED
  BY <1>1, <1>2

\* What is left under n operands.
LEMMA BelowType ==
  ASSUME stack \in Seq(Value), NEW n \in Nat, n <= Len(stack)
  PROVE  Below(n) \in Seq(Value) /\ Len(Below(n)) = Len(stack) - n
<1>1. Len(stack) \in Nat
  BY LenProperties
<1>2. \A i \in 1 .. Len(stack) - n : stack[i] \in Value
  BY <1>1, ElementOfSeq
<1>. QED
  BY <1>1, <1>2, SubSeqProperties DEF Below

\* The n operands on top.
LEMMA OperandsType ==
  ASSUME stack \in Seq(Value), NEW n \in Nat, n <= Len(stack)
  PROVE  Operands(n) \in Seq(Value) /\ Len(Operands(n)) = n
<1>1. Len(stack) \in Nat
  BY LenProperties
<1>2. \A i \in Len(stack) - n + 1 .. Len(stack) : stack[i] \in Value
  BY <1>1, ElementOfSeq
<1>. QED
  BY <1>1, <1>2, SubSeqProperties DEF Operands

LEMMA TopType ==
  ASSUME stack \in Seq(Value), NEW k \in Nat, k < Len(stack)
  PROVE  Top(k) \in Value
  BY LenProperties, ElementOfSeq DEF Top

\* Storing one value in the locals.
LEMMA StoredType ==
  ASSUME NEW s \in Seq(Value), NEW i \in Nat, NEW v \in Value
  PROVE  /\ Stored(s, i, v) \in Seq(Value)
         /\ Len(Stored(s, i, v)) = IF i < Len(s) THEN Len(s) ELSE i + 1
<1>. DEFINE n == IF i < Len(s) THEN Len(s) ELSE i + 1
<1>1. Len(s) \in Nat /\ \A k \in 1 .. Len(s) : s[k] \in Value
  BY LenProperties, ElementOfSeq
<1>2. n \in Nat
  BY <1>1
<1>3. Stored(s, i, v) \in [1 .. n -> Value]
  BY <1>1, DefaultAssumption DEF Stored
<1>. QED
  BY <1>2, <1>3, TableIsSeq

-----------------------------------------------------------------------------
(* How instructions end.                                                   *)

\* The code of a function that runs, and its current instruction.
LEMMA CurrentInstr ==
  ASSUME TypeOK, NEW ops, At(ops)
  PROVE  WellFormed(Instr) /\ status = "running" /\ Instr.op \in ops
  BY ModulesAssumption DEF TypeOK, At, Instr, Code

LEMMA GotoType ==
  ASSUME TypeOK, NEW t \in Nat, Goto(t),
         stack' \in Seq(Value), locals' \in Seq(Value), out' \in Seq(Value)
  PROVE  TypeOK'
  BY DEF TypeOK, Goto, Frame

LEMMA ReplaceType ==
  ASSUME TypeOK, NEW n \in Nat, n <= Len(stack), NEW v, Replace(n, v)
  PROVE  TypeOK'
<1>1. v \in Value /\ stack' = Append(Below(n), v) /\ Goto(ip + 1)
      /\ locals' = locals /\ out' = out
  BY DEF Replace
<1>2. stack' \in Seq(Value)
  BY <1>1, BelowType, AppendProperties DEF TypeOK
<1>. QED
  BY <1>1, <1>2, GotoType DEF TypeOK

LEMMA FailType ==
  ASSUME TypeOK, NEW n \in Nat, n <= Len(stack), NEW why, Fail(n, why)
  PROVE  TypeOK'
<1>1. stack' \in Seq(Value)
  BY BelowType DEF TypeOK, Fail
<1>2. frames' \in Seq(Frame')
  BY EmptySeq DEF Fail
<1>. QED
  BY <1>1, <1>2 DEF TypeOK, Fail

LEMMA UnderflowType ==
  ASSUME TypeOK, NEW n, Underflow(n)
  PROVE  TypeOK'
  BY FailType, LenProperties DEF Underflow, TypeOK

\* n operands of the current instruction replaced by one value, or an error.
LEMMA WritePathType ==
  ASSUME TypeOK, NEW n \in Nat, n <= Len(stack), NEW root, NEW path, NEW v,
         WritePath(n, root, path, v)
  PROVE  TypeOK'
  BY ReplaceType, FailType DEF WritePath

LEMMA ReadChildType ==
  ASSUME TypeOK, NEW n \in Nat, n <= Len(stack), NEW v, NEW k, ReadChild(n, v, k)
  PROVE  TypeOK'
  BY ReplaceType, FailType DEF ReadChild

-----------------------------------------------------------------------------
(* The instructions, by kind.                                              *)

LEMMA OperatorsType ==
  ASSUME TypeOK, Arithmetic \/ CompareOrder \/ CompareEquality \/ LogicalBinary
  PROVE  TypeOK'
<1>. USE LenProperties, ReplaceType, FailType, UnderflowType
<1>0. Len(stack) \in Nat
  BY DEF TypeOK
<1>1. CASE Arithmetic
  <2>1. CASE Trap
    BY <2>1, EmptySeq DEF TypeOK, Trap, Frame
  <2>. QED
    BY <1>0, <1>1, <2>1 DEF Arithmetic, NotTwoOf, TwoOf
<1>2. CASE CompareOrder
  BY <1>0, <1>2 DEF CompareOrder, NotTwoOf, TwoOf
<1>3. CASE CompareEquality
  BY <1>0, <1>3 DEF CompareEquality
<1>4. CASE LogicalBinary
  BY <1>0, <1>4 DEF LogicalBinary, NotTwoOf, TwoOf
<1>. QED
  BY <1>1, <1>2, <1>3, <1>4

LEMMA AggregatesType ==
  ASSUME TypeOK,
         \/ BuildArray \/ BuildMap \/ LoadField \/ LoadIndex
         \/ StoreFieldPath \/ StoreIndexPath
  PROVE  TypeOK'
<1>. USE ReplaceType, FailType, UnderflowType, WritePathType, ReadChildType, CurrentInstr
<1>0. Len(stack) \in Nat
  BY LenProperties DEF TypeOK
<1>1. CASE BuildArray
  <2>1. Instr.args \in Nat
    BY <1>1 DEF BuildArray, WellFormed
  <2>. QED
    BY <1>1, <2>1 DEF BuildArray
<1>2. CASE BuildMap
  <2>1. Len(Instr.names) \in Nat
    BY <1>2 DEF BuildMap, WellFormed
  <2>. QED
    BY <1>2, <2>1 DEF BuildMap
<1>3. CASE LoadField
  BY <1>0, <1>3 DEF LoadField
<1>4. CASE LoadIndex
  BY <1>0, <1>4 DEF LoadIndex
<1>5. CASE StoreFieldPath
  BY <1>0, <1>5 DEF StoreFieldPath
<1>6. CASE StoreIndexPath
  <2>1. Instr.args \in Nat
    BY <1>6 DEF StoreIndexPath, WellFormed
  <2>. QED
    BY <1>0, <1>6, <2>1 DEF StoreIndexPath
<1>. QED
  BY <1>1, <1>2, <1>3, <1>4, <1>5, <1>6

LEMMA SimpleType ==
  ASSUME TypeOK, PushLiteral \/ Pop \/ LoadLocal \/ StoreLocal \/ Jump \/ JumpIfFalse
  PROVE  TypeOK'
<1>. USE GotoType, ReplaceType, FailType, UnderflowType, CurrentInstr
<1>0. /\ Len(stack) \in Nat /\ ip + 1 \in Nat
      /\ stack \in Seq(Value) /\ locals \in Seq(Value) /\ out \in Seq(Value)
  BY LenProperties DEF TypeOK
<1>1. CASE PushLiteral
  BY <1>0, <1>1 DEF PushLiteral
<1>2. CASE Pop
  <2>1. stack' \in Seq(Value)
    BY <1>0, <1>2, EmptySeq, BelowType DEF Pop
  <2>. QED
    BY <1>0, <1>2, <2>1 DEF Pop
<1>3. CASE LoadLocal
  BY <1>0, <1>3 DEF LoadLocal
<1>4. CASE StoreLocal
  <2>1. Instr.idx \in Nat
    BY <1>4 DEF StoreLocal, WellFormed
  <2>2. Len(stack) >= 1 => Top(0) \in Value /\ Below(1) \in Seq(Value)
    BY <1>0, TopType, BelowType
  <2>. QED
    BY <1>0, <1>4, <2>1, <2>2, StoredType DEF StoreLocal
<1>5. CASE Jump
  <2>1. Instr.target \in Nat
    BY <1>5 DEF Jump, WellFormed
  <2>. QED
    BY <1>0, <1>5, <2>1 DEF Jump
<1>6. CASE JumpIfFalse
  <2>1. Instr.target \in Nat
    BY <1>6 DEF JumpIfFalse, WellFormed
  <2>2. Len(stack) >= 1 => Below(1) \in Seq(Value)
    BY <1>0, BelowType
  <2>. QED
    BY <1>0, <1>6, <2>1, <2>2 DEF JumpIfFalse
<1>. QED
  BY <1>1, <1>2, <1>3, <1>4, <1>5, <1>6

-----------------------------------------------------------------------------
(* Calls.                                                                  *)

LEMMA CallBuiltinType ==
  ASSUME TypeOK, CallBuiltin
  PROVE  TypeOK'
<1>. DEFINE n == Instr.args
            r == BuiltinCall(Instr.name, Operands(n))
<1>a. /\ Len(stack) \in Nat /\ ip + 1 \in Nat
      /\ stack \in Seq(Value) /\ locals \in Seq(Value) /\ out \in Seq(Value)
  BY LenProperties DEF TypeOK
<1>b. At({"CallBuiltin"})
  BY DEF CallBuiltin
<1>c. n \in Nat
  BY <1>b, CurrentInstr DEF WellFormed
<1>0. /\ Len(stack) \in Nat /\ ip + 1 \in Nat /\ n \in Nat
      /\ stack \in Seq(Value) /\ locals \in Seq(Value) /\ out \in Seq(Value)
  BY <1>a, <1>c
<1>1. CASE Underflow(Instr.args)
  BY <1>1, UnderflowType
<1>4. CASE \E why : Fail(0, why)
  BY <1>0, <1>4, FailType
<1>2. CASE Len(stack) >= n /\ Fail(n, "builtin")
  BY <1>0, <1>2, FailType
<1>3. CASE /\ Len(stack) >= n
           /\ r.out \in Seq(Value)
           /\ Builtins[Instr.name].returns => r.val \in Value
           /\ stack' = Below(n) \o (IF Builtins[Instr.name].returns THEN <<r.val>> ELSE <<>>)
           /\ out' = out \o r.out
           /\ Goto(ip + 1)
           /\ UNCHANGED locals
  <2>1. Below(n) \in Seq(Value)
    BY <1>0, <1>3, BelowType
  <2>2. (IF Builtins[Instr.name].returns THEN <<r.val>> ELSE <<>>) \in Seq(Value)
    BY <1>3, EmptySeq
  <2>3. stack' \in Seq(Value) /\ out' \in Seq(Value)
    BY <1>0, <1>3, <2>1, <2>2, ConcatProperties
  <2>. QED
    BY <1>0, <1>3, <2>3, GotoType
<1>. QED
  BY <1>1, <1>2, <1>3, <1>4 DEF CallBuiltin

LEMMA CallFunctionType ==
  ASSUME TypeOK, CallFunction
  PROVE  TypeOK'
<1>. DEFINE n == Instr.args
            f == Instr.name
<1>0. /\ Len(stack) \in Nat /\ n \in Nat /\ status = "running"
      /\ stack \in Seq(Value)
  BY LenProperties, CurrentInstr DEF TypeOK, CallFunction, WellFormed
<1>1. CASE Underflow(Instr.args)
  BY <1>1, UnderflowType
<1>3. CASE \E why : Fail(0, why)
  BY <1>0, <1>3, FailType
<1>2. CASE /\ f \in DOMAIN Modules[mod]
           /\ Len(stack) >= n
           /\ frames' = Append(frames, [fn |-> fn, ip |-> ip,
                                        stack |-> Below(n), locals |-> locals])
           /\ fn' = f
           /\ ip' = 0
           /\ stack' = <<>>
           /\ locals' = Operands(n)
           /\ UNCHANGED <<mod, status, request, out, history>>
  <2>1. Below(n) \in Seq(Value) /\ Operands(n) \in Seq(Value)
    BY <1>0, <1>2, BelowType, OperandsType
  <2>2. [fn |-> fn, ip |-> ip, stack |-> Below(n), locals |-> locals] \in Frame
    BY <1>0, <2>1 DEF TypeOK, Frame
  <2>3. frames' \in Seq(Frame)
    BY <1>2, <2>2, AppendProperties DEF TypeOK
  <2>. QED
    BY <1>2, <2>1, <2>3, EmptySeq DEF TypeOK, Frame
<1>. QED
  BY <1>1, <1>2, <1>3 DEF CallFunction

\* The frames without the last one, and the last one.
LEMMA PoppedFrames ==
  ASSUME TypeOK, frames # <<>>
  PROVE  /\ frames[Len(frames)] \in Frame
         /\ SubSeq(frames, 1, Len(frames) - 1) \in Seq(Frame)
<1>1. Len(frames) \in Nat \ {0}
  BY EmptySeq DEF TypeOK
<1>2. \A i \in 1 .. Len(frames) : frames[i] \in Frame
  BY ElementOfSeq DEF TypeOK
<1>. QED
  BY <1>1, <1>2, SubSeqProperties

\* vs are the values that a callee leaves to its caller.
LEMMA ResumeType ==
  ASSUME TypeOK, NEW vs \in Seq(Value), Resume(vs)
  PROVE  TypeOK'
<1>. DEFINE f == frames[Len(frames)]
<1>1. f \in Frame /\ SubSeq(frames, 1, Len(frames) - 1) \in Seq(Frame)
  BY PoppedFrames DEF Resume
<1>2. f.stack \o vs \in Seq(Value)
  BY <1>1, ConcatProperties DEF Frame
<1>3. /\ mod' = mod /\ status' = status /\ out' = out
      /\ fn' = f.fn /\ ip' = f.ip + 1 /\ locals' = f.locals
      /\ stack' = f.stack \o vs
      /\ frames' = SubSeq(frames, 1, Len(frames) - 1)
  BY DEF Resume
<1>4. /\ f.fn \in DOMAIN Modules[mod] /\ f.ip + 1 \in Nat /\ f.locals \in Seq(Value)
      /\ Frame' = Frame
  BY <1>1, <1>3 DEF Frame
<1>. QED
  BY <1>1, <1>2, <1>3, <1>4 DEF TypeOK

LEMMA FinishType == ASSUME TypeOK, Finish PROVE TypeOK'
  BY DEF Finish, TypeOK, Frame

LEMMA EnterType ==
  ASSUME TypeOK, NEW r, NEW checked, r.args \in Seq(Value), Enter(r, checked)
  PROVE  TypeOK'
<1>1. <<>> \in Seq(Value) /\ <<>> \in Seq(Frame')
  BY EmptySeq
<1>2. /\ mod' = mod /\ mod \in DOMAIN Modules /\ ip \in Nat
      /\ stack' = <<>> /\ out' = <<>> /\ frames' = <<>>
  BY DEF Enter, TypeOK
<1>3. CASE /\ Accepts(r, checked) /\ status' = "running" /\ fn' = r.name
           /\ ip' = 0 /\ locals' = r.args
  BY <1>1, <1>2, <1>3 DEF Accepts, TypeOK
<1>4. CASE status' = "failed" /\ locals' = <<>> /\ ip' = ip
  BY <1>1, <1>2, <1>4 DEF TypeOK
<1>. QED
  BY <1>3, <1>4 DEF Enter

-----------------------------------------------------------------------------

LEMMA InitType == Init => TypeOK
<1>1. <<>> \in Seq(Value) /\ <<>> \in Seq(Frame)
  BY EmptySeq
<1>2. Init => /\ mod \in DOMAIN Modules /\ status = "idle" /\ ip = 0
              /\ stack = <<>> /\ locals = <<>> /\ frames = <<>> /\ out = <<>>
  BY DEF Init
<1>. QED
  BY <1>1, <1>2 DEF TypeOK
=============================================================================
