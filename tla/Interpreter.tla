---------------------------- MODULE Interpreter ----------------------------
(***************************************************************************)
(* The IR interpreter (src/interpreter/interpreter.cpp), the engine behind *)
(* `velo run` and the HTTP handlers.                                       *)
(***************************************************************************)
EXTENDS StackDiscipline

CompareIntEquality ==
  /\ At({"CompareEqualInt", "CompareNotEqualInt"})
  /\ \/ Underflow(2)
     \/ NotTwoOf(IsInt)
     \/ /\ TwoOf(IsInt)
        /\ Replace(2, BoolV((Top(1) = Top(0)) = (Instr.op = "CompareEqualInt")))

NegInt ==
  /\ At({"NegInt"})
  /\ \/ Underflow(1)
     \/ Len(stack) >= 1 /\ ~IsInt(Top(0)) /\ Fail(1, "type")
     \/ Len(stack) >= 1 /\ IsInt(Top(0)) /\ Replace(1, IntV(Wrap(-Top(0).int)))

LogicalNot ==
  /\ At({"LogicalNot"})
  /\ \/ Underflow(1)
     \/ Len(stack) >= 1 /\ ~IsBool(Top(0)) /\ Fail(1, "type")
     \/ Len(stack) >= 1 /\ IsBool(Top(0)) /\ Replace(1, BoolV(~Top(0).bool))

BuildStruct ==
  /\ At({"BuildStruct"})
  /\ LET n == Len(Instr.names)
     IN  \/ Underflow(n)
         \/ Len(stack) >= n /\ Replace(n, BuiltStruct(Instr.type, Instr.names, Operands(n)))

\* Mutations: a void call leaves no value, or an empty one.
ReturnNothing == Resume(IF stack # <<>> THEN <<Top(0)>> ELSE <<>>)
ReturnNoValue == Resume(<<IF stack # <<>> THEN Top(0) ELSE NoValue>>)

\* A call always leaves one value: the top of the callee's stack, or int 0.
ReturnToCaller ==
  Resume(<<IF stack # <<>> THEN Top(0) ELSE DefaultValue>>)

\* execute(module): `velo run`.
Execute == Enter([name |-> "main", args |-> <<>>], FALSE)

\* executeFunction(module, name, args): an HTTP handler.
ExecuteFunction == \E r \in Requests : Enter(r, TRUE)

Step ==
  \/ PushLiteral \/ Pop \/ LoadLocal \/ StoreLocal \/ Jump \/ JumpIfFalse
  \/ Arithmetic \/ NegInt \/ CompareOrder \/ CompareEquality \/ CompareIntEquality
  \/ LogicalNot \/ LogicalBinary
  \/ BuildStruct \/ BuildArray \/ BuildMap
  \/ LoadField \/ LoadIndex \/ StoreFieldPath \/ StoreIndexPath
  \/ CallBuiltin \/ CallFunction \/ ReturnToCaller \/ Finish

Next == Execute \/ ExecuteFunction \/ Step

\* The loop of executeFunc runs until the call ends; whether the host calls
\* again is up to the host.
Spec == Init /\ [][Next]_vars

FairSpec == Spec /\ WF_vars(Step)

-----------------------------------------------------------------------------

\* The lowerer's promise: the code of the module loaded keeps one operand
\* stack height per instruction, pops no more than was pushed, loads only
\* locals stored on every path, jumps only inside the function, and calls
\* only what exists with the arguments it takes.  A call leaves one value.
Verified ==
  WellShaped(Modules[mod], Shape[mod], [f \in DOMAIN Modules[mod] |-> 1])

\* Verified is what it takes: code with a shape never fails structurally, even
\* code no lowerer writes, and whatever its callees leave behind.
ShapedCodeIsSafe == Verified /\ MainTakesNothing => NoStructuralError

\* Calls on one interpreter object do not see each other: whatever was called
\* before, and however it ended, the same call gives the same result and
\* prints the same (the HTTP server keeps one interpreter for all requests).
Isolation ==
  \A i, j \in 1 .. Len(history) :
    history[i].request = history[j].request => history[i] = history[j]

\* A call of the host returns, one way or another.
CallsEnd == (status = "running") ~> (status # "running")
=============================================================================
