------------------------------ MODULE Machine ------------------------------
(***************************************************************************)
(* The stack machine both execution engines of Velo are built on: an       *)
(* instruction pointer per activation, an operand stack, local slots, and  *)
(* the C++ frames that keep a caller's stack and locals while its callee   *)
(* runs.  Here are the state and the handlers that the IR interpreter and  *)
(* the bytecode VM write identically; the modules Interpreter and          *)
(* BytecodeVM add the ones in which they differ.                           *)
(*                                                                         *)
(* One instruction is one step.  _lastJumpTaken is set by JumpIfFalse and  *)
(* consumed before the next instruction is fetched, so it is part of that  *)
(* step and needs no variable.                                             *)
(***************************************************************************)
EXTENDS Runtime

CONSTANTS
  Modules,            \* the IR modules considered: id -> function name ->
                      \*   [params |-> number of parameters, code |-> instructions]
  Requests,           \* calls the host may make: [name |-> ..., args |-> ...]
  Value,              \* bound: the values a slot may hold
  MaxDepth,           \* bound: nested calls
  MaxRuns             \* bound: calls the host makes on one engine object

\* The operands of an instruction that count or address something.
WellFormed(i) ==
  /\ i.op \in {"LoadLocal", "StoreLocal"} => i.idx \in Nat
  /\ i.op \in {"Jump", "JumpIfFalse"} => i.target \in Nat
  /\ i.op \in {"CallFunction", "CallBuiltin", "BuildArray", "StoreIndexPath"} =>
       i.args \in Nat
  /\ i.op \in {"BuildStruct", "BuildMap"} => Len(i.names) \in Nat

ASSUME ModulesAssumption ==
  \A m \in DOMAIN Modules : \A f \in DOMAIN Modules[m] :
    /\ Modules[m][f].params \in Nat
    /\ Len(Modules[m][f].code) \in Nat
    /\ \A k \in 1 .. Len(Modules[m][f].code) : WellFormed(Modules[m][f].code[k])

ASSUME RequestsAssumption == \A r \in Requests : r.args \in Seq(Value)

ASSUME DefaultAssumption == DefaultValue \in Value

VARIABLES
  mod,      \* the module loaded (_currentModule)
  status,   \* "idle", "running", "done", "failed", or "trapped" by the processor
  fn,       \* the function of the current activation
  ip,       \* its instruction pointer, from 0
  stack,    \* _stack, top last
  locals,   \* _locals, slot i at i + 1
  frames,   \* the C++ activations of callFunction, outermost first
  request,  \* the call of the host being served
  out,      \* what it has printed
  history   \* the calls that ended: request, ExecutionResult, output

vars == <<mod, status, fn, ip, stack, locals, frames, request, out, history>>

Code  == Modules[mod][fn].code
Instr == Code[ip + 1]

\* The current instruction is one of ops.
At(ops) == status = "running" /\ ip < Len(Code) /\ Instr.op \in ops

-----------------------------------------------------------------------------
(* The operand stack.                                                      *)

Top(k)      == stack[Len(stack) - k]                       \* Top(0) is back()
Below(n)    == SubSeq(stack, 1, Len(stack) - n)
Operands(n) == SubSeq(stack, Len(stack) - n + 1, Len(stack))

-----------------------------------------------------------------------------
(* How an instruction ends.                                                *)

\* On to the instruction at t of the same activation.
Goto(t) ==
  /\ ip' = t
  /\ UNCHANGED <<mod, status, fn, frames, request, history>>

\* n operands replaced by v; on to the next instruction.
Replace(n, v) ==
  /\ v \in Value
  /\ stack' = Append(Below(n), v)
  /\ Goto(ip + 1)
  /\ UNCHANGED <<locals, out>>

Success(s) ==
  [ok |-> TRUE, error |-> "",
   exit |-> IF s # <<>> /\ IsInt(s[Len(s)]) THEN s[Len(s)].int ELSE 0,
   val  |-> IF s # <<>> THEN s[Len(s)] ELSE NoValue]

Failure(why) == [ok |-> FALSE, exit |-> 1, error |-> why, val |-> NoValue]

Ended(res) == Append(history, [request |-> request, result |-> res, out |-> out])

\* A failure unwinds every C++ activation; n operands were already popped.
\* _stack and _locals stay those of the failing function.
Fail(n, why) ==
  /\ stack' = Below(n)
  /\ status' = "failed"
  /\ frames' = <<>>
  /\ history' = Ended(Failure(why))
  /\ UNCHANGED <<mod, fn, ip, locals, request, out>>

Underflow(n) == Len(stack) < n /\ Fail(0, "underflow")

-----------------------------------------------------------------------------
(* Literals, locals, jumps.                                                *)

PushLiteral ==
  /\ At({"PushInt", "PushString", "PushBool"})
  /\ Replace(0, Instr.val)

\* Popping an empty stack is not an error.
Pop ==
  /\ At({"Pop"})
  /\ stack' = IF stack = <<>> THEN <<>> ELSE Below(1)
  /\ Goto(ip + 1)
  /\ UNCHANGED <<locals, out>>

LoadLocal ==
  /\ At({"LoadLocal"})
  /\ \/ Instr.idx >= Len(locals) /\ Fail(0, "local")
     \/ Instr.idx < Len(locals) /\ Replace(0, locals[Instr.idx + 1])

\* Mutation: only slots that exist are stored.
StoredInside(slots, i, v) == [k \in 1 .. Len(slots) |-> IF k = i + 1 THEN v ELSE slots[k]]

\* Storing past the end fills the slots in between with default values.
Stored(slots, i, v) ==
  [k \in 1 .. IF i < Len(slots) THEN Len(slots) ELSE i + 1 |->
     IF k = i + 1 THEN v ELSE IF k <= Len(slots) THEN slots[k] ELSE DefaultValue]

StoreLocal ==
  /\ At({"StoreLocal"})
  /\ \/ Underflow(1)
     \/ /\ Len(stack) >= 1
        /\ locals' = Stored(locals, Instr.idx, Top(0))
        /\ stack' = Below(1)
        /\ Goto(ip + 1)
        /\ UNCHANGED out

Jump ==
  /\ At({"Jump"})
  /\ Goto(Instr.target)
  /\ UNCHANGED <<stack, locals, out>>

JumpIfFalse ==
  /\ At({"JumpIfFalse"})
  /\ \/ Underflow(1)
     \/ Len(stack) >= 1 /\ ~IsBool(Top(0)) /\ Fail(1, "type")
     \/ /\ Len(stack) >= 1
        /\ IsBool(Top(0))
        /\ stack' = Below(1)
        /\ Goto(IF Top(0).bool THEN ip + 1 ELSE Instr.target)
        /\ UNCHANGED <<locals, out>>

-----------------------------------------------------------------------------
(* Arithmetic, comparison, logic.                                          *)

\* Both operands of a binary instruction satisfy IsKind.
TwoOf(IsKind(_)) == Len(stack) >= 2 /\ IsKind(Top(1)) /\ IsKind(Top(0))
NotTwoOf(IsKind(_)) ==
  Len(stack) >= 2 /\ ~(IsKind(Top(1)) /\ IsKind(Top(0))) /\ Fail(2, "type")

\* INT_MIN / -1: undefined in C++, the divide instruction raises a trap.
Trap ==
  /\ status' = "trapped"
  /\ frames' = <<>>
  /\ UNCHANGED <<mod, fn, ip, stack, locals, request, out, history>>

Arithmetic ==
  /\ At(ArithOps)
  /\ \/ Underflow(2)
     \/ NotTwoOf(IsInt)
     \/ /\ TwoOf(IsInt)
        /\ LET l == Top(1).int
               r == Top(0).int
           IN  \/ Instr.op \in {"DivInt", "ModInt"} /\ r = 0 /\ Fail(2, "divide")
               \/ DivideTraps(Instr.op, l, r) /\ Trap
               \/ /\ ~(Instr.op \in {"DivInt", "ModInt"} /\ r = 0)
                  /\ ~DivideTraps(Instr.op, l, r)
                  /\ Replace(2, IntV(Arith(Instr.op, l, r)))

CompareOrder ==
  /\ At(OrderOps)
  /\ \/ Underflow(2)
     \/ NotTwoOf(IsInt)
     \/ TwoOf(IsInt) /\ Replace(2, BoolV(Ordered(Instr.op, Top(1).int, Top(0).int)))

CompareEquality ==
  /\ At({"CompareEqual", "CompareNotEqual"})
  /\ \/ Underflow(2)
     \/ Len(stack) >= 2 /\ ~SameScalar(Top(1), Top(0)) /\ Fail(2, "type")
     \/ /\ Len(stack) >= 2
        /\ SameScalar(Top(1), Top(0))
        /\ Replace(2, BoolV((Top(1) = Top(0)) = (Instr.op = "CompareEqual")))

LogicalBinary ==
  /\ At({"LogicalAnd", "LogicalOr"})
  /\ \/ Underflow(2)
     \/ NotTwoOf(IsBool)
     \/ /\ TwoOf(IsBool)
        /\ Replace(2, BoolV(IF Instr.op = "LogicalAnd" THEN Top(1).bool /\ Top(0).bool
                                                       ELSE Top(1).bool \/ Top(0).bool))

-----------------------------------------------------------------------------
(* Aggregates.                                                             *)

BuildArray ==
  /\ At({"BuildArray"})
  /\ \/ Underflow(Instr.args)
     \/ Len(stack) >= Instr.args /\ Replace(Instr.args, ArrayV(Operands(Instr.args)))

BuildMap ==
  /\ At({"BuildMap"})
  /\ \/ Underflow(Len(Instr.names))
     \/ /\ Len(stack) >= Len(Instr.names)
        /\ Replace(Len(Instr.names), BuiltMap(Instr.names, Operands(Len(Instr.names))))

\* v, popped with the n - 1 operands above it, replaced by its child at k.
ReadChild(n, v, k) ==
  \/ StepError(v, k, FALSE) # "ok" /\ Fail(n, StepError(v, k, FALSE))
  \/ StepError(v, k, FALSE) = "ok" /\ Replace(n, Child(v, k))

LoadField ==
  /\ At({"LoadField"})
  /\ \/ Underflow(1)
     \/ Len(stack) >= 1 /\ ReadChild(1, Top(0), FieldKey(Instr.name))

LoadIndex ==
  /\ At({"LoadIndex"})
  /\ \/ Underflow(2)
     \/ Len(stack) >= 2 /\ ReadChild(2, Top(1), Top(0))

\* root, popped with n - 1 other operands, replaced by itself with v at path.
WritePath(n, root, path, v) ==
  \/ PathError(root, path) # "ok" /\ Fail(n, PathError(root, path))
  \/ PathError(root, path) = "ok" /\ Replace(n, PathStore(root, path, v))

\* Operands: value, root.
StoreFieldPath ==
  /\ At({"StoreFieldPath"})
  /\ \/ Instr.path = <<>> /\ Fail(0, "operand")
     \/ Instr.path # <<>> /\ Underflow(2)
     \/ /\ Instr.path # <<>>
        /\ Len(stack) >= 2
        /\ WritePath(2, Top(0), [i \in 1 .. Len(Instr.path) |-> FieldKey(Instr.path[i])], Top(1))

\* Operands: value, root, one key per level.
StoreIndexPath ==
  /\ At({"StoreIndexPath"})
  /\ LET n == Instr.args
     IN  \/ n = 0 /\ Fail(0, "operand")
         \/ n > 0 /\ Underflow(n + 2)
         \/ n > 0 /\ Len(stack) >= n + 2 /\ WritePath(n + 2, Top(n), Operands(n), Top(n + 1))

-----------------------------------------------------------------------------
(* Calls.                                                                  *)

CallBuiltin ==
  /\ At({"CallBuiltin"})
  /\ LET n == Instr.args
         r == BuiltinCall(Instr.name, Operands(n))
     IN  \/ Instr.name \notin DOMAIN Builtins /\ Fail(0, "unknown builtin")
         \/ /\ Instr.name \in DOMAIN Builtins
            /\ \/ n # Builtins[Instr.name].arity /\ Fail(0, "arity")
               \/ n = Builtins[Instr.name].arity /\ Underflow(n)
               \/ /\ n = Builtins[Instr.name].arity
                  /\ Len(stack) >= n
                  /\ \/ ~r.ok /\ Fail(n, "builtin")
                     \/ /\ r.ok
                        /\ r.out \in Seq(Value)
                        /\ Builtins[Instr.name].returns => r.val \in Value
                        /\ stack' = Below(n) \o (IF Builtins[Instr.name].returns
                                                 THEN <<r.val>> ELSE <<>>)
                        /\ out' = out \o r.out
                        /\ Goto(ip + 1)
                        /\ UNCHANGED locals

\* The caller's stack (less the arguments) and locals move to the C++ frame;
\* the callee starts with the arguments in its first slots.
CallFunction ==
  /\ At({"CallFunction"})
  /\ LET n == Instr.args
         f == Instr.name
     IN  \/ f \notin DOMAIN Modules[mod] /\ Fail(0, "unknown function")
         \/ /\ f \in DOMAIN Modules[mod]
            /\ \/ n # Modules[mod][f].params /\ Fail(0, "arity")
               \/ n = Modules[mod][f].params /\ Underflow(n)
               \/ /\ n = Modules[mod][f].params
                  /\ Len(stack) >= n
                  /\ Len(frames) < MaxDepth
                  /\ frames' = Append(frames, [fn |-> fn, ip |-> ip,
                                               stack |-> Below(n), locals |-> locals])
                  /\ fn' = f
                  /\ ip' = 0
                  /\ stack' = <<>>
                  /\ locals' = Operands(n)
                  /\ UNCHANGED <<mod, status, request, out, history>>

\* Mutation: running off the end of the code ends nothing.
ReturningByReturn == At({"Return"})

\* The activation ends: a Return, or the end of the code.
Returning == At({"Return"}) \/ (status = "running" /\ ip >= Len(Code))

\* The outermost activation ends.  Only Return carries the top of the stack out.
Finish ==
  /\ Returning
  /\ frames = <<>>
  /\ status' = "done"
  /\ history' = Ended(Success(IF ip < Len(Code) THEN stack ELSE <<>>))
  /\ UNCHANGED <<mod, fn, ip, stack, locals, frames, request, out>>

\* Mutation: the callee's locals stay.
ResumeKeepingLocals(vs) ==
  /\ Returning
  /\ frames # <<>>
  /\ LET f == frames[Len(frames)]
     IN  /\ fn' = f.fn
         /\ ip' = f.ip + 1
         /\ stack' = f.stack \o vs
  /\ frames' = SubSeq(frames, 1, Len(frames) - 1)
  /\ UNCHANGED <<mod, status, locals, request, out, history>>

\* A callee ends; its caller resumes with the values in vs pushed.
Resume(vs) ==
  /\ Returning
  /\ frames # <<>>
  /\ LET f == frames[Len(frames)]
     IN  /\ fn' = f.fn
         /\ ip' = f.ip + 1
         /\ stack' = f.stack \o vs
         /\ locals' = f.locals
  /\ frames' = SubSeq(frames, 1, Len(frames) - 1)
  /\ UNCHANGED <<mod, status, request, out, history>>

-----------------------------------------------------------------------------
(* The host.                                                               *)

Init ==
  /\ mod \in DOMAIN Modules
  /\ status = "idle"
  /\ fn = ""
  /\ ip = 0
  /\ stack = <<>>
  /\ locals = <<>>
  /\ frames = <<>>
  /\ request = [name |-> "", args |-> <<>>]
  /\ out = <<>>
  /\ history = <<>>

\* The entry point finds the function; checked says whether it also compares
\* the number of arguments.
Accepts(r, checked) ==
  /\ r.name \in DOMAIN Modules[mod]
  /\ checked => Len(r.args) = Modules[mod][r.name].params

\* Mutation: the arguments go behind the locals of the call before.
EnterKeepingLocals(r, checked) ==
  /\ status \in {"idle", "done", "failed"}
  /\ Len(history) < MaxRuns
  /\ Accepts(r, checked)
  /\ request' = r
  /\ status' = "running"
  /\ fn' = r.name
  /\ ip' = 0
  /\ stack' = <<>>
  /\ locals' = locals \o r.args
  /\ out' = <<>>
  /\ frames' = <<>>
  /\ UNCHANGED <<mod, history>>

\* The host calls function r.name of the module loaded, on an engine object
\* that may have served (or failed) other calls before.
Enter(r, checked) ==
  /\ status \in {"idle", "done", "failed"}
  /\ Len(history) < MaxRuns
  /\ request' = r
  /\ stack' = <<>>
  /\ out' = <<>>
  /\ frames' = <<>>
  /\ \/ /\ Accepts(r, checked)
        /\ status' = "running"
        /\ fn' = r.name
        /\ ip' = 0
        /\ locals' = r.args
        /\ UNCHANGED history
     \/ /\ ~Accepts(r, checked)
        /\ status' = "failed"
        /\ history' = Append(history, [request |-> r, result |-> Failure("entry"),
                                       out |-> <<>>])
        /\ locals' = <<>>
        /\ UNCHANGED <<fn, ip>>
  /\ UNCHANGED mod

-----------------------------------------------------------------------------

Frame == [fn : DOMAIN Modules[mod], ip : Nat, stack : Seq(Value), locals : Seq(Value)]

\* The slots of an engine hold values, and what runs is a function of the module.
TypeOK ==
  /\ mod \in DOMAIN Modules
  /\ status \in {"idle", "running", "done", "failed", "trapped"}
  /\ ip \in Nat
  /\ stack \in Seq(Value)
  /\ locals \in Seq(Value)
  /\ out \in Seq(Value)
  /\ frames \in Seq(Frame)
  /\ status = "running" => fn \in DOMAIN Modules[mod]
=============================================================================
