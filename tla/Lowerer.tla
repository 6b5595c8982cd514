------------------------------ MODULE Lowerer ------------------------------
(***************************************************************************)
(* The IR lowerer (src/ir/lowerer.cpp): AST to instructions.               *)
(*                                                                         *)
(* The code generator appends to one instruction vector; here every        *)
(* operator returns the code it appends, given the index `at` at which it  *)
(* starts.  Operands that the lowerer encodes into one string (field       *)
(* lists, field paths, map keys) stay the lists that the engines decode.   *)
(***************************************************************************)
EXTENDS Syntax, SequencesExt

\* The scope state of the function being lowered: _scopeStack, innermost last,
\* each a function from names to slots, _nextLocalIndex, and the imports.
NoScopes(uses) == [scopes |-> <<>>, next |-> 0, uses |-> uses]

EmptyScope == [x \in {} |-> 0]

PushScope(env) == [env EXCEPT !.scopes = Append(@, EmptyScope)]
PopScope(env)  == [env EXCEPT !.scopes = Front(@)]

\* A slot is never reused, whatever scope it was declared in.
DeclareLocal(env, name) ==
  LET top == env.scopes[Len(env.scopes)]
  IN  [env EXCEPT
         !.scopes = Append(Front(@), [x \in DOMAIN top \cup {name} |->
                                        IF x = name THEN env.next ELSE top[x]]),
         !.next = @ + 1]

\* The scopes that know the name; the innermost one decides.
Declaring(env, name) == {k \in 1 .. Len(env.scopes) : name \in DOMAIN env.scopes[k]}
IsLocal(env, name) == Declaring(env, name) # {}
FindLocalIndex(env, name) ==
  env.scopes[CHOOSE k \in Declaring(env, name) :
               \A j \in Declaring(env, name) : j <= k][name]

-----------------------------------------------------------------------------
(* Instructions.                                                           *)

Op(code)            == [op |-> code]
Literal(code, v)    == [op |-> code, val |-> v]
Slot(code, i)       == [op |-> code, idx |-> i]
Branch(code, t)     == [op |-> code, target |-> t]
CallTo(code, f, n)  == [op |-> code, name |-> f, args |-> n]

BinaryOp(o) ==
  CASE o = "+"  -> "AddInt"             [] o = "-"  -> "SubInt"
    [] o = "*"  -> "MulInt"             [] o = "/"  -> "DivInt"
    [] o = "%"  -> "ModInt"
    [] o = "==" -> "CompareEqual"       [] o = "!=" -> "CompareNotEqual"
    [] o = "<"  -> "CompareLessInt"     [] o = ">"  -> "CompareGreaterInt"
    [] o = "<=" -> "CompareLessEqualInt" [] o = ">=" -> "CompareGreaterEqualInt"

-----------------------------------------------------------------------------
(* Expressions.                                                            *)

RECURSIVE LowerExpression(_, _, _), LowerAll(_, _, _)

\* Both sides of && and || are lowered to jumps: the right one may be skipped.
LowerLogicalAnd(expr, env, at) ==
  LET left  == LowerExpression(expr.left, env, at)
      right == LowerExpression(expr.right, env, at + Len(left) + 1)
      false == at + Len(left) + 1 + Len(right) + 1
  IN  left \o <<Branch("JumpIfFalse", false)>>
           \o right \o <<Branch("Jump", false + 1)>>
           \o <<Literal("PushBool", [bool |-> FALSE])>>

LowerLogicalOr(expr, env, at) ==
  LET left  == LowerExpression(expr.left, env, at)
      start == at + Len(left) + 3
      right == LowerExpression(expr.right, env, start)
  IN  left \o <<Branch("JumpIfFalse", start),
                Literal("PushBool", [bool |-> TRUE]),
                Branch("Jump", start + Len(right))>>
           \o right

\* A name that is not a local pushes nothing.
LowerName(expr, env) ==
  IF Len(expr.path) = 1 /\ IsLocal(env, expr.path[1])
  THEN <<Slot("LoadLocal", FindLocalIndex(env, expr.path[1]))>>
  ELSE <<>>

LowerStructLiteral(expr, env, at) ==
  LowerAll([i \in 1 .. Len(expr.fields) |-> expr.fields[i].value], env, at)
    \o <<[op |-> "BuildStruct", type |-> expr.type,
          names |-> [i \in 1 .. Len(expr.fields) |-> expr.fields[i].name]]>>

LowerMapLiteral(expr, env, at) ==
  LowerAll([i \in 1 .. Len(expr.entries) |-> expr.entries[i].value], env, at)
    \o <<[op |-> "BuildMap",
          names |-> [i \in 1 .. Len(expr.entries) |-> expr.entries[i].key]]>>

LowerArrayLiteral(expr, env, at) ==
  LowerAll(expr.elements, env, at)
    \o <<[op |-> "BuildArray", args |-> Len(expr.elements)]>>

LowerFieldAccess(expr, env, at) ==
  LowerExpression(expr.object, env, at) \o <<[op |-> "LoadField", name |-> expr.field]>>

LowerIndex(expr, env, at) ==
  LowerAll(<<expr.object, expr.index>>, env, at) \o <<Op("LoadIndex")>>

\* _moduleAliases: what the visible name of a module stands for.
ModuleAlias(uses, visible) ==
  LET named == {k \in 1 .. Len(uses) : visible = IF uses[k].alias = <<>> THEN Last(uses[k].path)
                                                                     ELSE uses[k].alias[1]}
  IN  IF named = {} THEN visible
      ELSE Last(uses[CHOOSE k \in named : \A j \in named : j <= k].path)

LowerQualifiedName(path, uses) ==
  FoldLeft(LAMBDA name, segment : name \o "::" \o segment,
           ModuleAlias(uses, path[1]), Tail(path))

\* A qualified callee is a builtin, a single name a user function.
LowerCall(expr, env, at) ==
  LowerAll(expr.args, env, at)
    \o <<IF Len(expr.callee) > 1
         THEN CallTo("CallBuiltin", LowerQualifiedName(expr.callee, env.uses), Len(expr.args))
         ELSE CallTo("CallFunction", expr.callee[1], Len(expr.args))>>

LowerExpression(expr, env, at) ==
  CASE expr.e = "int"    -> <<Literal("PushInt", [int |-> expr.value])>>
    [] expr.e = "string" -> <<Literal("PushString", [str |-> expr.value])>>
    [] expr.e = "bool"   -> <<Literal("PushBool", [bool |-> expr.value])>>
    [] expr.e = "name"   -> LowerName(expr, env)
    [] expr.e = "&&"     -> LowerLogicalAnd(expr, env, at)
    [] expr.e = "||"     -> LowerLogicalOr(expr, env, at)
    [] expr.e = "binary" ->
         LowerAll(<<expr.left, expr.right>>, env, at) \o <<Op(BinaryOp(expr.op))>>
    [] expr.e = "not"    -> LowerExpression(expr.operand, env, at) \o <<Op("LogicalNot")>>
    [] expr.e = "negate" -> LowerExpression(expr.operand, env, at) \o <<Op("NegInt")>>
    [] expr.e = "struct" -> LowerStructLiteral(expr, env, at)
    [] expr.e = "array"  -> LowerArrayLiteral(expr, env, at)
    [] expr.e = "map"    -> LowerMapLiteral(expr, env, at)
    [] expr.e = "field"  -> LowerFieldAccess(expr, env, at)
    [] expr.e = "index"  -> LowerIndex(expr, env, at)
    [] expr.e = "call"   -> LowerCall(expr, env, at)

\* Left to right.
LowerAll(exprs, env, at) ==
  IF exprs = <<>> THEN <<>>
  ELSE LET first == LowerExpression(Head(exprs), env, at)
       IN  first \o LowerAll(Tail(exprs), env, at + Len(first))

-----------------------------------------------------------------------------
(* Statements.  Each operator returns the code and the scope state after.  *)

RECURSIVE LowerStatement(_, _, _, _), LowerStatements(_, _, _, _)

\* _loopStack: the start of the condition of each enclosing loop.  The jump of
\* a break gets its target when the loop ends; until then it is Pending.
Pending == -1
Patch(code, target) ==
  [k \in 1 .. Len(code) |->
     IF code[k].op = "Jump" /\ code[k].target = Pending
     THEN Branch("Jump", target) ELSE code[k]]

LowerStatementBlock(stmts, env, at, loops) ==
  LET body == LowerStatements(stmts, PushScope(env), at, loops)
  IN  [code |-> body.code, env |-> PopScope(body.env)]

LowerWhile(stmt, env, at, loops) ==
  LET cond == LowerExpression(stmt.cond, env, at)
      body == LowerStatementBlock(stmt.body, env, at + Len(cond) + 1, Append(loops, at))
      end  == at + Len(cond) + 1 + Len(body.code) + 1
  IN  [code |-> cond \o <<Branch("JumpIfFalse", end)>>
                     \o Patch(body.code, end) \o <<Branch("Jump", at)>>,
       env  |-> body.env]

LowerIf(stmt, env, at, loops) ==
  LET cond == LowerExpression(stmt.cond, env, at)
      then == LowerStatementBlock(stmt.then, env, at + Len(cond) + 1, loops)
      els  == at + Len(cond) + 1 + Len(then.code) + 1
      else == LowerStatementBlock(stmt.else, then.env, els, loops)
  IN  [code |-> cond \o <<Branch("JumpIfFalse", els)>>
                     \o then.code \o <<Branch("Jump", els + Len(else.code))>>
                     \o else.code,
       env  |-> else.env]

\* The root local and the keys of a nested target, outermost key first; the
\* root is "" when the target is not a chain of the given kind over a name.
RECURSIVE CollectPath(_, _)
CollectPath(target, kind) ==
  CASE target.e = "name" /\ Len(target.path) = 1 -> [root |-> target.path[1], keys |-> <<>>]
    [] target.e = kind   ->
         LET inner == CollectPath(target.object, kind)
         IN  [inner EXCEPT !.keys = Append(@, IF kind = "field" THEN target.field
                                                                 ELSE target.index)]
    [] OTHER -> [root |-> "", keys |-> <<>>]

\* Value, root local, keys, store into the root, store the root back.  A target
\* whose path cannot be collected emits nothing: its value is not evaluated.
LowerPathAssignment(stmt, env, at, kind) ==
  LET path == CollectPath(stmt.target, kind)
      val  == LowerExpression(stmt.value, env, at)
      slot == FindLocalIndex(env, path.root)
      keys == LowerAll(path.keys, env, at + Len(val) + 1)
  IN  IF path.root = "" \/ path.keys = <<>> \/ ~IsLocal(env, path.root) THEN <<>>
      ELSE val \o <<Slot("LoadLocal", slot)>>
               \o (IF kind = "field"
                   THEN <<[op |-> "StoreFieldPath", path |-> path.keys]>>
                   ELSE keys \o <<[op |-> "StoreIndexPath", args |-> Len(path.keys)]>>)
               \o <<Slot("StoreLocal", slot)>>

\* The initializer is lowered before the name is declared.
LowerLet(stmt, env, at) ==
  [code |-> LowerExpression(stmt.value, env, at) \o <<Slot("StoreLocal", env.next)>>,
   env  |-> DeclareLocal(env, stmt.name)]

LowerAssignment(stmt, env, at) ==
  LowerExpression(stmt.value, env, at)
    \o (IF IsLocal(env, stmt.name)
        THEN <<Slot("StoreLocal", FindLocalIndex(env, stmt.name))>> ELSE <<>>)

\* Mutation: break jumps to where continue does.
BreakLikeContinue(loops) ==
  IF loops = <<>> THEN <<>> ELSE <<Branch("Jump", loops[Len(loops)])>>

\* Outside a loop break and continue emit nothing.
LowerBreak(loops) ==
  IF loops = <<>> THEN <<>> ELSE <<Branch("Jump", Pending)>>
LowerContinue(loops) ==
  IF loops = <<>> THEN <<>> ELSE <<Branch("Jump", loops[Len(loops)])>>

\* Mutation: a return without a value returns int 0.
LowerReturnZero(stmt, env, at) ==
  (IF stmt.value = <<>> THEN <<Literal("PushInt", [int |-> 0])>> ELSE LowerAll(stmt.value, env, at))
    \o <<Op("Return")>>

LowerReturn(stmt, env, at) ==
  LowerAll(stmt.value, env, at) \o <<Op("Return")>>

\* Mutation: the value stays on the stack.
LeaveExpressionValue(stmt, env, at) == LowerExpression(stmt.value, env, at)

\* The value of an expression statement is unused.
LowerExpressionStatement(stmt, env, at) ==
  LowerExpression(stmt.value, env, at) \o <<Op("Pop")>>

LowerStatement(stmt, env, at, loops) ==
  LET same(code) == [code |-> code, env |-> env]
  IN  CASE stmt.s = "while"    -> LowerWhile(stmt, env, at, loops)
        [] stmt.s = "if"       -> LowerIf(stmt, env, at, loops)
        [] stmt.s = "let"      -> LowerLet(stmt, env, at)
        [] stmt.s = "return"   -> same(LowerReturn(stmt, env, at))
        [] stmt.s = "expr"     -> same(LowerExpressionStatement(stmt, env, at))
        [] stmt.s = "assign"   -> same(LowerAssignment(stmt, env, at))
        [] stmt.s = "break"    -> same(LowerBreak(loops))
        [] stmt.s = "continue" -> same(LowerContinue(loops))
        [] stmt.s = "setField" -> same(LowerPathAssignment(stmt, env, at, "field"))
        [] stmt.s = "setIndex" -> same(LowerPathAssignment(stmt, env, at, "index"))

LowerStatements(stmts, env, at, loops) ==
  IF stmts = <<>> THEN [code |-> <<>>, env |-> env]
  ELSE LET first == LowerStatement(Head(stmts), env, at, loops)
           rest  == LowerStatements(Tail(stmts), first.env, at + Len(first.code), loops)
       IN  [code |-> first.code \o rest.code, env |-> rest.env]

-----------------------------------------------------------------------------

\* Parameters take the first slots, in order.
LowerFunction(func, uses) ==
  LET env == FoldLeft(LAMBDA e, p : DeclareLocal(e, p.name), PushScope(NoScopes(uses)), func.params)
  IN  [params |-> Len(func.params),
       code   |-> LowerStatements(func.body, env, 0, <<>>).code]

\* The function a name is found at: the first one that has it.
FindFunction(program, name) ==
  SelectSeq(program.functions, LAMBDA func : func.name = name)[1]

Lower(program) ==
  [f \in {program.functions[k].name : k \in DOMAIN program.functions} |->
     LowerFunction(FindFunction(program, f), program.uses)]
=============================================================================
