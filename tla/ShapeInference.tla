--------------------------- MODULE ShapeInference ---------------------------
(***************************************************************************)
(* The shape a module of instructions has, if it has one: a pass over the  *)
(* code in order, as a bytecode verifier makes it.                         *)
(***************************************************************************)
EXTENDS StackDiscipline, TLC

MinOver(s) == CHOOSE n \in s : \A k \in s : n <= k

\* The shapes from k on, given those before (code control does not get to has
\* none).  The height comes from any earlier predecessor, the locals from the
\* one that stored least.
RECURSIVE ShapesFrom(_, _, _, _)
ShapesFrom(code, left, sh, k) ==
  IF k > Len(code) THEN sh
  ELSE LET preds == {j \in DOMAIN sh : k \in Successors(code[j + 1], j)}
           first == MinOver(preds)
           here  == [depth |-> DepthAfter(code[first + 1], sh[first].depth, left),
                     slots |-> MinOver({SlotsAfter(code[j + 1], sh[j].slots) : j \in preds})]
       IN  ShapesFrom(code, left, IF preds = {} THEN sh ELSE sh @@ (k :> here), k + 1)

InferShape(func, left) ==
  ShapesFrom(func.code, left, 0 :> [depth |-> 0, slots |-> func.params], 1)
=============================================================================
