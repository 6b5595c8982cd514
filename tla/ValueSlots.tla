----------------------------- MODULE ValueSlots -----------------------------
(***************************************************************************)
(* What the storage of a Velo program promises: the host's value, the      *)
(* operand stack, the locals and the frames of the callers hold VALUES.    *)
(* Reading a slot reads its value, writing a slot changes that slot only.  *)
(* Instructions come in any order here: no program is fixed, and each step *)
(* is one that does not fail (a failing one ends the execution).           *)
(***************************************************************************)
EXTENDS Values, SequencesExt

CONSTANTS
  Literals,    \* the scalars PushInt, PushString and PushBool push
  Shapes,      \* what the Build instructions build: [op, keys]
  Paths        \* the paths of field names and indexes a store follows

VARIABLES
  host,      \* what the host passes to the next call, or got from the last
  stack,     \* the operand stack, its last element on top
  locals,    \* the slots of the running function
  callers    \* the saved stack and locals of each suspended caller

slots == <<host, stack, locals, callers>>

\* The field names and indexes a load follows.
Keys == {Last(p) : p \in Paths}

Keep(n)  == SubSeq(stack, 1, Len(stack) - n)
Taken(n) == SubSeq(stack, Len(stack) - n + 1, Len(stack))

Aggregate(shape, parts) ==
  CASE shape.op = "array"  -> ArrayV(parts)
    [] shape.op = "map"    -> BuiltMap(shape.keys, parts)
    [] shape.op = "struct" -> BuiltStruct("T", shape.keys, parts)

Working(st, lo) == stack' = st /\ locals' = lo /\ UNCHANGED <<host, callers>>

-----------------------------------------------------------------------------

Push == \E v \in Literals : Working(Append(stack, v), locals)

Pop == stack # <<>> /\ Working(Front(stack), locals)

LoadLocal == \E i \in 1 .. Len(locals) : Working(Append(stack, locals[i]), locals)

\* Storing one past the last slot adds it.
StoreLocal ==
  /\ stack # <<>>
  /\ \E i \in 1 .. Len(locals) + 1 :
       Working(Front(stack),
               [j \in 1 .. Len(locals) \cup {i} |-> IF j = i THEN Last(stack) ELSE locals[j]])

Build ==
  \E shape \in Shapes :
    LET n == Len(shape.keys)
    IN  /\ n <= Len(stack)
        /\ Working(Append(Keep(n), Aggregate(shape, Taken(n))), locals)

LoadChild ==
  /\ stack # <<>>
  /\ \E k \in Keys :
       /\ StepError(Last(stack), k, FALSE) = "ok"
       /\ Working(Append(Front(stack), Child(Last(stack), k)), locals)

\* The root is on top of the assigned value; the updated root replaces both.
StorePath ==
  /\ Len(stack) >= 2
  /\ \E p \in Paths :
       /\ PathError(Last(stack), p) = "ok"
       /\ Working(Append(Keep(2), PathStore(Last(stack), p, stack[Len(stack) - 1])), locals)

CallFunction ==
  \E n \in 0 .. Len(stack) :
    /\ stack' = <<>> /\ locals' = Taken(n)
    /\ callers' = Append(callers, [stack |-> Keep(n), locals |-> locals])
    /\ UNCHANGED host

Result == IF stack = <<>> THEN DefaultValue ELSE Last(stack)

ReturnToCaller ==
  /\ callers # <<>>
  /\ stack' = Append(Last(callers).stack, Result)
  /\ locals' = Last(callers).locals
  /\ callers' = Front(callers)
  /\ UNCHANGED host

\* The outermost call hands its value to the host; the slots stay as they are.
Finish == callers = <<>> /\ host' = Result /\ UNCHANGED <<stack, locals, callers>>

\* The host calls a function of one parameter, whatever the last call left.
ExecuteFunction ==
  stack' = <<>> /\ locals' = <<host>> /\ callers' = <<>> /\ UNCHANGED host

Init == host = DefaultValue /\ stack = <<>> /\ locals = <<>> /\ callers = <<>>

Next ==
  \/ Push \/ Pop \/ LoadLocal \/ StoreLocal \/ Build \/ LoadChild \/ StorePath
  \/ CallFunction \/ ReturnToCaller \/ Finish \/ ExecuteFunction

Spec == Init /\ [][Next]_slots
=============================================================================
