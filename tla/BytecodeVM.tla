----------------------------- MODULE BytecodeVM -----------------------------
(***************************************************************************)
(* The bytecode compiler (include/velo/bytecode/compiler.h) and the        *)
(* bytecode VM (include/velo/bytecode/vm.h).  Most handlers of the VM are  *)
(* the interpreter's, written a second time; they are named here from      *)
(* Machine.  The others are spelled out.                                   *)
(***************************************************************************)
EXTENDS StackDiscipline, SequencesExt

-----------------------------------------------------------------------------
(* The compiler maps opcodes one by one and copies the operands.           *)

\* Mutation: two comparisons swapped.
MapSwapped(op) ==
  CASE op = "CompareLessInt"    -> "CompareGreaterInt"
    [] op = "CompareGreaterInt" -> "CompareLessInt"
    [] OTHER -> op

MapOpCode(op) ==
  CASE op = "CompareEqualInt"    -> "CompareEqual"
    [] op = "CompareNotEqualInt" -> "CompareNotEqual"
    [] OTHER -> op

CompileInstruction(i) == [i EXCEPT !.op = MapOpCode(@)]

CompileFunction(func) ==
  [func EXCEPT !.code = [k \in DOMAIN @ |-> CompileInstruction(@[k])]]

Compile(module) == [f \in DOMAIN module |-> CompileFunction(module[f])]

-----------------------------------------------------------------------------
(* Handlers the VM shares with the interpreter.                            *)

VMLiterals        == PushLiteral \/ Pop
VMLoadLocal       == LoadLocal
VMStoreLocal      == StoreLocal
VMJump            == Jump
VMJumpIfFalse     == JumpIfFalse
VMArithmetic      == Arithmetic
VMCompareOrder    == CompareOrder
VMCompareEquality == CompareEquality
VMLogicalBinary   == LogicalBinary
VMBuildArray      == BuildArray
VMBuildMap        == BuildMap
VMLoadField       == LoadField
VMLoadIndex       == LoadIndex
VMStoreIndexPath  == StoreIndexPath
VMCallBuiltin     == CallBuiltin
VMCallFunction    == CallFunction
VMFinish          == Finish

(* Handlers of its own.                                                    *)

\* The operand is checked and dropped; _stack.emplace_back() pushes Value{}.
VMNegInt ==
  /\ At({"NegInt"})
  /\ \/ Underflow(1)
     \/ Len(stack) >= 1 /\ ~IsInt(Top(0)) /\ Fail(1, "type")
     \/ Len(stack) >= 1 /\ IsInt(Top(0)) /\ Replace(1, DefaultValue)

VMLogicalNot ==
  /\ At({"LogicalNot"})
  /\ \/ Underflow(1)
     \/ Len(stack) >= 1 /\ ~IsBool(Top(0)) /\ Fail(1, "type")
     \/ Len(stack) >= 1 /\ IsBool(Top(0)) /\ Replace(1, DefaultValue)

\* decodeStructOperand looks for '|', which the lowerer never writes: the whole
\* operand "T:a,b" becomes the type name, and split at ',' the field names.
DecodedType(i) ==
  i.type \o ":" \o FoldLeft(LAMBDA text, k : IF text = "" THEN i.names[k]
                                             ELSE text \o "," \o i.names[k],
                            "", [k \in 1 .. Len(i.names) |-> k])
DecodedNames(i) ==
  IF i.names = <<>> THEN <<i.type \o ":">>
  ELSE [k \in 1 .. Len(i.names) |-> IF k = 1 THEN i.type \o ":" \o i.names[1] ELSE i.names[k]]

\* fields[name] = value: the last of two equal names stays.
VMStruct(i, vals) == StructV(DecodedType(i), BuiltMap(DecodedNames(i), vals).map)

VMBuildStruct ==
  /\ At({"BuildStruct"})
  /\ LET n == Len(Instr.names)
     IN  \/ Underflow(n)
         \/ Len(stack) >= n /\ Len(DecodedNames(Instr)) # n /\ Fail(0, "operand")
         \/ /\ Len(stack) >= n
            /\ Len(DecodedNames(Instr)) = n
            /\ Replace(n, VMStruct(Instr, Operands(n)))

\* The guard meant for an empty path tests the stack; the compiler never
\* produces an empty path.
VMStoreFieldPath ==
  /\ At({"StoreFieldPath"})
  /\ \/ Underflow(2)
     \/ /\ Len(stack) >= 2
        /\ WritePath(2, Top(0), [k \in 1 .. Len(Instr.path) |-> FieldKey(Instr.path[k])], Top(1))

\* Mutation: no call leaves a value.
VMReturnNothing == Resume(<<>>)

\* A callee that leaves its stack empty pushes nothing on its caller's.
VMReturnToCaller == Resume(IF stack # <<>> THEN <<Top(0)>> ELSE <<>>)

-----------------------------------------------------------------------------

\* execute(module); the VM has no other entry point.
VMExecute == Enter([name |-> "main", args |-> <<>>], FALSE)

VMStep ==
  \/ VMLiterals \/ VMLoadLocal \/ VMStoreLocal \/ VMJump \/ VMJumpIfFalse
  \/ VMArithmetic \/ VMNegInt \/ VMCompareOrder \/ VMCompareEquality
  \/ VMLogicalNot \/ VMLogicalBinary
  \/ VMBuildStruct \/ VMBuildArray \/ VMBuildMap
  \/ VMLoadField \/ VMLoadIndex \/ VMStoreFieldPath \/ VMStoreIndexPath
  \/ VMCallBuiltin \/ VMCallFunction \/ VMReturnToCaller \/ VMFinish

VMNext == VMExecute \/ VMStep

\* The loop of executeFunction runs until the call ends.
VMSpec == Init /\ [][VMNext]_vars /\ WF_vars(VMStep)

-----------------------------------------------------------------------------

\* Where control can leave a function of this code and shape.
Exits(code, sh) ==
  {k \in DOMAIN sh : k = Len(code) \/ (k < Len(code) /\ code[k + 1].op = "Return")}

\* What a call leaves on the VM: what is on the callee's stack, or nothing.
Left(m, sh) ==
  [f \in DOMAIN m |->
     IF \E k \in Exits(m[f].code, sh[f]) : sh[f][k].depth > 0 THEN 1 ELSE 0]

VMWellShaped(m, sh) ==
  /\ WellShaped(m, sh, Left(m, sh))
  /\ \A f \in DOMAIN m :
       /\ \A k \in Exits(m[f].code, sh[f]) : Left(m, sh)[f] = 1 => sh[f][k].depth > 0
       /\ \A k \in DOMAIN sh[f] \ {Len(m[f].code)} :
            m[f].code[k + 1].op = "BuildStruct" => m[f].code[k + 1].names # <<>>

\* The instruction before the one at k calls a function that leaves nothing.
AfterVoidCall(m, sh, f, k) ==
  LET code == m[f].code
  IN  /\ k \in 1 .. Len(code) /\ code[k].op = "CallFunction"
      /\ code[k].name \in DOMAIN m /\ Left(m, sh)[code[k].name] = 0

\* What the lowerer makes of a void call: the call, then a Pop on an otherwise
\* empty stack, which nothing jumps to.
VoidCallsPopped(m, sh) ==
  \A f \in DOMAIN m :
    LET code == m[f].code
    IN  /\ \A k \in DOMAIN sh[f] : AfterVoidCall(m, sh, f, k) =>
             k < Len(code) /\ code[k + 1].op = "Pop" /\ sh[f][k].depth = 0
        /\ \A k \in DOMAIN sh[f] \ {Len(code)} :
             code[k + 1].op \in {"Jump", "JumpIfFalse"} =>
               ~AfterVoidCall(m, sh, f, code[k + 1].target)

\* What the VM needs of the code compiled for it: one stack height per instruction
\* although a void call pushes nothing here.  So the exits of a function agree on
\* whether a value is left: no caller waits for one that some path does not leave,
\* and what a caller pops after a void call is nothing that it needs.
\* (The programs considered build no struct without fields, which the VM's decoder
\* does not take.)
VMVerified ==
  VMWellShaped(Modules[mod], Shape[mod]) /\ VoidCallsPopped(Modules[mod], Shape[mod])

-----------------------------------------------------------------------------
(* The VM and the interpreter.                                             *)

\* The operand stack as the interpreter has it: it pushes a value, int 0, for a
\* void call, where the VM pushes none.
Seen ==
  IF status = "running" /\ AfterVoidCall(Modules[mod], Shape[mod], fn, ip)
  THEN Append(stack, DefaultValue) ELSE stack

Interp == INSTANCE Interpreter WITH stack <- Seen

OwnOps == {"NegInt", "LogicalNot", "BuildStruct"}

\* Up to the values of void calls, which are only ever popped, a step of the VM
\* is a step of the interpreter on the same code, except for the three
\* instructions that the VM gets wrong.
StepsAlike ==
  Interp!Init /\
    [][VMVerified /\ MainTakesNothing => Interp!Next \/ At(OwnOps)]_vars

\* A run of main ends, one way or another, also where the values the VM computes
\* are not those the program means.
VMCallsEnd == (status = "running") ~> (status # "running")
=============================================================================
