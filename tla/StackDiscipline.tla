-------------------------- MODULE StackDiscipline --------------------------
(***************************************************************************)
(* The contract between the lowerer and the engines that nobody checks: at *)
(* every instruction control can get to, the operand stack has one height  *)
(* and the locals have at least some length, whichever way it got there.   *)
(* Shape gives both; WellShaped says code keeps to it.                     *)
(***************************************************************************)
EXTENDS Machine

CONSTANT
  Shape     \* module id -> function name -> ip -> [depth |-> ..., slots |-> ...],
            \*   for the ips control can get to, the one past the end included

TwoOperandOps == ArithOps \cup OrderOps \cup
  {"CompareEqual", "CompareNotEqual", "CompareEqualInt", "CompareNotEqualInt",
   "LogicalAnd", "LogicalOr", "LoadIndex", "StoreFieldPath"}

OneOperandOps == {"StoreLocal", "JumpIfFalse", "NegInt", "LogicalNot", "LoadField"}

Pops(i) ==
  CASE i.op \in TwoOperandOps -> 2
    [] i.op \in OneOperandOps -> 1
    [] i.op \in {"BuildArray", "CallFunction", "CallBuiltin"} -> i.args
    [] i.op \in {"BuildStruct", "BuildMap"} -> Len(i.names)
    [] i.op = "StoreIndexPath" -> i.args + 2
    [] OTHER -> 0

\* left: function name -> the values a call of it leaves, 0 or 1.
Pushes(i, left) ==
  CASE i.op \in {"StoreLocal", "JumpIfFalse", "Jump", "Return", "Pop"} -> 0
    [] i.op = "CallBuiltin" ->
         IF i.name \in DOMAIN Builtins /\ Builtins[i.name].returns THEN 1 ELSE 0
    [] i.op = "CallFunction" -> IF i.name \in DOMAIN left THEN left[i.name] ELSE 1
    [] OTHER -> 1

DepthAfter(i, d, left) ==
  IF i.op = "Pop" THEN (IF d = 0 THEN 0 ELSE d - 1) ELSE d - Pops(i) + Pushes(i, left)

SlotsAfter(i, s) == IF i.op = "StoreLocal" /\ i.idx >= s THEN i.idx + 1 ELSE s

Successors(i, k) ==
  CASE i.op = "Return" -> {}
    [] i.op = "Jump" -> {i.target}
    [] i.op = "JumpIfFalse" -> {k + 1, i.target}
    [] OTHER -> {k + 1}

\* Instruction i finds what it needs at shape s in module m.
Fits(i, s, m) ==
  /\ Pops(i) <= s.depth
  /\ i.op = "LoadLocal" => i.idx < s.slots
  /\ i.op = "CallFunction" => i.name \in DOMAIN m /\ i.args = m[i.name].params
  /\ i.op = "CallBuiltin" => i.name \in DOMAIN Builtins /\ i.args = Builtins[i.name].arity
  /\ i.op = "StoreFieldPath" => i.path # <<>>
  /\ i.op = "StoreIndexPath" => i.args > 0

FunctionWellShaped(m, f, sh, left) ==
  LET code == m[f].code
  IN  /\ DOMAIN sh \subseteq 0 .. Len(code)
      /\ sh \in [DOMAIN sh -> [depth : Nat, slots : Nat]]
      /\ 0 \in DOMAIN sh /\ sh[0] = [depth |-> 0, slots |-> m[f].params]
      /\ \A k \in DOMAIN sh \ {Len(code)} :
           /\ Fits(code[k + 1], sh[k], m)
           /\ \A t \in Successors(code[k + 1], k) :
                /\ t \in DOMAIN sh
                /\ sh[t].depth = DepthAfter(code[k + 1], sh[k].depth, left)
                /\ sh[t].slots <= SlotsAfter(code[k + 1], sh[k].slots)

WellShaped(m, sh, left) == \A f \in DOMAIN m : FunctionWellShaped(m, f, sh[f], left)

-----------------------------------------------------------------------------

\* `velo run` calls main without arguments and without looking at its parameters
\* (the analyzer has: main takes none).
MainTakesNothing ==
  "main" \in DOMAIN Modules[mod] => Modules[mod]["main"].params = 0

\* The function the k-th waiting activation has called.
Callee(k) == IF k = Len(frames) THEN fn ELSE frames[k + 1].fn

\* The stack and the locals of the activation that runs, and of every
\* activation that waits for a callee, are exactly as tall as the code
\* there expects: no callee leaks operands into its caller or takes any.
ShapeHolds ==
  /\ status = "running" =>
       /\ ip \in DOMAIN Shape[mod][fn]
       /\ Len(stack) = Shape[mod][fn][ip].depth
       /\ Len(locals) >= Shape[mod][fn][ip].slots
  /\ \A k \in 1 .. Len(frames) :
       LET f == frames[k]
           c == Modules[mod][f.fn].code
       IN  /\ f.ip \in DOMAIN Shape[mod][f.fn] \ {Len(c)}
           /\ c[f.ip + 1].op = "CallFunction" /\ c[f.ip + 1].name = Callee(k)
           /\ Len(f.stack) = Shape[mod][f.fn][f.ip].depth - c[f.ip + 1].args
           /\ Len(f.locals) >= Shape[mod][f.fn][f.ip].slots

StructuralErrors ==
  {"underflow", "local", "operand", "unknown function", "unknown builtin", "arity"}

\* A verified module fails at run time only for what its data does (types,
\* division, indexes, keys, fields, builtins), never because an instruction
\* finds the stack, the locals or the function table not as it expects.
NoStructuralError ==
  \A k \in 1 .. Len(history) : history[k].result.error \notin StructuralErrors
=============================================================================
