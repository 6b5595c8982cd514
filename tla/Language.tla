------------------------------ MODULE Language ------------------------------
(***************************************************************************)
(* What a Velo program means, without stacks, slots, jumps or activation   *)
(* frames: an evaluator over the AST with lexically scoped names.  It is   *)
(* the promise the pipeline lowerer + interpreter has to keep; nothing     *)
(* here is read off the lowerer or the interpreter except the arithmetic   *)
(* and the value operations of Values.                                     *)
(***************************************************************************)
EXTENDS Runtime, SequencesExt

(* Evaluation of an expression yields [ok, val, said, why], of a statement  *)
(* [how, env, said, val] where how says how control leaves it.              *)

Yields(v, said)   == [ok |-> TRUE, val |-> v, out |-> said, why |-> ""]
Raises(why, said) == [ok |-> FALSE, val |-> NoValue, out |-> said, why |-> why]

Leaves(how, env, said, v) == [how |-> how, env |-> env, out |-> said, val |-> v]

(* An environment is a sequence of scopes, innermost last.                 *)

Scope(env, x) == CHOOSE k \in 1 .. Len(env) :
                   /\ x \in DOMAIN env[k]
                   /\ \A j \in k + 1 .. Len(env) : x \notin DOMAIN env[j]

Lookup(env, x)    == env[Scope(env, x)][x]
Update(env, x, v) == [env EXCEPT ![Scope(env, x)] = WithEntry(@, x, v)]
Declare(env, x, v) == [env EXCEPT ![Len(env)] = WithEntry(@, x, v)]
Enclosed(env)     == Append(env, [x \in {} |-> NoValue])

BinaryResult(op, l, r) ==
  LET int(c) == IF IsInt(l) /\ IsInt(r) THEN [ok |-> TRUE, val |-> c] ELSE [ok |-> FALSE, why |-> "type"]
  IN  CASE op \in {"/", "%"} /\ IsInt(l) /\ IsInt(r) /\ r.int = 0 -> [ok |-> FALSE, why |-> "divide"]
        [] op \in {"/", "%"} /\ IsInt(l) /\ IsInt(r) /\ l.int = MinInt /\ r.int = -1 ->
             [ok |-> FALSE, why |-> "trap"]
        [] op = "+" -> int(IntV(Wrap(l.int + r.int)))
        [] op = "-" -> int(IntV(Wrap(l.int - r.int)))
        [] op = "*" -> int(IntV(Wrap(l.int * r.int)))
        [] op = "/" -> int(IntV(TruncDiv(l.int, r.int)))
        [] op = "%" -> int(IntV(l.int - r.int * TruncDiv(l.int, r.int)))
        [] op = "<"  -> int(BoolV(l.int < r.int))
        [] op = ">"  -> int(BoolV(l.int > r.int))
        [] op = "<=" -> int(BoolV(l.int <= r.int))
        [] op = ">=" -> int(BoolV(l.int >= r.int))
        [] op \in {"==", "!="} ->
             IF SameScalar(l, r) THEN [ok |-> TRUE, val |-> BoolV((l = r) = (op = "=="))]
                                 ELSE [ok |-> FALSE, why |-> "type"]

\* The builtin a qualified name means: module m is what `use ...::m` or
\* `use ... as m` made visible.
BuiltinNamed(path, prog) ==
  LET use == SelectSeq(prog.uses, LAMBDA u : path[1] = IF u.alias = <<>> THEN Last(u.path)
                                                                        ELSE u.alias[1])[1]
  IN  Last(use.path) \o "::" \o path[2]

RECURSIVE Eval(_, _, _, _, _), EvalAll(_, _, _, _, _), Exec(_, _, _, _, _),
          Call(_, _, _, _, _)

\* The values of a list of expressions, left to right.
EvalAll(exprs, env, said, prog, fuel) ==
  IF exprs = <<>> THEN Yields(<<>>, said)
  ELSE LET first == Eval(Head(exprs), env, said, prog, fuel)
           rest  == EvalAll(Tail(exprs), env, first.out, prog, fuel)
       IN  IF ~first.ok THEN first
           ELSE IF ~rest.ok THEN rest
           ELSE Yields(<<first.val>> \o rest.val, rest.out)

\* A call of a user function: its own environment, its value if it returns one.
Call(f, args, said, prog, fuel) ==
  LET func == SelectSeq(prog.functions, LAMBDA g : g.name = f)[1]
      env  == <<[x \in {func.params[i].name : i \in 1 .. Len(args)} |->
                   args[CHOOSE i \in 1 .. Len(args) : func.params[i].name = x]]>>
      end  == Exec(func.body, env, said, prog, fuel - 1)
  IN  IF fuel = 0 THEN Raises("fuel", said)
      ELSE IF end.how = "error" THEN Raises(end.val, end.out)
      ELSE Yields(end.val, end.out)

Eval(e, env, said, prog, fuel) ==
  LET of(x)  == Eval(x, env, said, prog, fuel)
      all(s) == EvalAll(s, env, said, prog, fuel)
      \* v built from the values of s, if all of them have one
      from(s, Build(_)) == IF all(s).ok THEN Yields(Build(all(s).val), all(s).out) ELSE all(s)
  IN
  CASE e.e = "int"    -> Yields(IntV(e.value), said)
    [] e.e = "string" -> Yields(StrV(e.value), said)
    [] e.e = "bool"   -> Yields(BoolV(e.value), said)
    [] e.e = "name"   -> Yields(Lookup(env, e.path[1]), said)
    [] e.e \in {"&&", "||"} ->
         LET l == of(e.left)
         IN  IF ~l.ok THEN l
             ELSE IF l.val.bool = (e.e = "||") THEN l
             ELSE Eval(e.right, env, l.out, prog, fuel)
    [] e.e = "binary" ->
         LET vs == all(<<e.left, e.right>>)
             r  == BinaryResult(e.op, vs.val[1], vs.val[2])
         IN  IF ~vs.ok THEN vs
             ELSE IF r.ok THEN Yields(r.val, vs.out) ELSE Raises(r.why, vs.out)
    [] e.e = "not"    -> from(<<e.operand>>, LAMBDA vs : BoolV(~vs[1].bool))
    [] e.e = "negate" -> from(<<e.operand>>, LAMBDA vs : IntV(Wrap(-vs[1].int)))
    [] e.e = "struct" ->
         from([i \in 1 .. Len(e.fields) |-> e.fields[i].value],
              LAMBDA vs : BuiltStruct(e.type, [i \in 1 .. Len(e.fields) |-> e.fields[i].name], vs))
    [] e.e = "array"  -> from(e.elements, LAMBDA vs : ArrayV(vs))
    [] e.e = "map"    ->
         from([i \in 1 .. Len(e.entries) |-> e.entries[i].value],
              LAMBDA vs : BuiltMap([i \in 1 .. Len(e.entries) |-> e.entries[i].key], vs))
    [] e.e = "field"  ->
         LET o == of(e.object)
             k == FieldKey(e.field)
         IN  IF ~o.ok THEN o
             ELSE IF StepError(o.val, k, FALSE) # "ok" THEN Raises(StepError(o.val, k, FALSE), o.out)
             ELSE Yields(Child(o.val, k), o.out)
    [] e.e = "index"  ->
         LET vs  == all(<<e.object, e.index>>)
             err == StepError(vs.val[1], vs.val[2], FALSE)
         IN  IF ~vs.ok THEN vs
             ELSE IF err # "ok" THEN Raises(err, vs.out)
             ELSE Yields(Child(vs.val[1], vs.val[2]), vs.out)
    [] e.e = "call" /\ Len(e.callee) = 1 ->
         LET vs == all(e.args)
         IN  IF ~vs.ok THEN vs ELSE Call(e.callee[1], vs.val, vs.out, prog, fuel)
    [] e.e = "call" /\ Len(e.callee) > 1 ->
         LET vs == all(e.args)
             b  == BuiltinNamed(e.callee, prog)
             r  == BuiltinCall(b, vs.val)
         IN  IF ~vs.ok THEN vs
             ELSE IF ~r.ok THEN Raises("builtin", vs.out)
             ELSE Yields(IF Builtins[b].returns THEN r.val ELSE NoValue, vs.out \o r.out)

\* The keys of an assignment target, and the name at its root.
RECURSIVE TargetKeys(_)
TargetKeys(t) ==
  CASE t.e = "name"  -> <<>>
    [] t.e = "field" -> Append(TargetKeys(t.object), [e |-> "key", key |-> FieldKey(t.field)])
    [] t.e = "index" -> Append(TargetKeys(t.object), t.index)
RECURSIVE TargetRoot(_)
TargetRoot(t) == IF t.e = "name" THEN t.path[1] ELSE TargetRoot(t.object)

\* The value, then the keys, are evaluated; then the place is overwritten.
ExecStore(stmt, env, said, prog, fuel) ==
  LET x     == TargetRoot(stmt.target)
      ks    == TargetKeys(stmt.target)
      v     == Eval(stmt.value, env, said, prog, fuel)
      exprs == SelectSeq(ks, LAMBDA k : k.e # "key")
      ix    == EvalAll(exprs, env, v.out, prog, fuel)
      \* the keys with the values of the index expressions filled in
      nth(i) == Cardinality({j \in 1 .. i : ks[j].e # "key"})
      path  == [i \in 1 .. Len(ks) |-> IF ks[i].e = "key" THEN ks[i].key ELSE ix.val[nth(i)]]
      err   == PathError(Lookup(env, x), path)
  IN  IF ~v.ok THEN Leaves("error", env, v.out, v.why)
      ELSE IF ~ix.ok THEN Leaves("error", env, ix.out, ix.why)
      ELSE IF err # "ok" THEN Leaves("error", env, ix.out, err)
      ELSE Leaves("next", Update(env, x, PathStore(Lookup(env, x), path, v.val)), ix.out, NoValue)

RECURSIVE Loop(_, _, _, _, _)
Loop(stmt, env, said, prog, fuel) ==
  LET c    == Eval(stmt.cond, env, said, prog, fuel)
      body == Exec(stmt.body, Enclosed(env), c.out, prog, fuel)
      left == Front(body.env)
  IN  IF fuel = 0 THEN Leaves("error", env, said, "fuel")
      ELSE IF ~c.ok THEN Leaves("error", env, c.out, c.why)
      ELSE IF ~c.val.bool THEN Leaves("next", env, c.out, NoValue)
      ELSE CASE body.how \in {"return", "error"} -> [body EXCEPT !.env = left]
             [] body.how = "break" -> Leaves("next", left, body.out, NoValue)
             [] OTHER -> Loop(stmt, left, body.out, prog, fuel - 1)

ExecOne(stmt, env, said, prog, fuel) ==
  LET v == Eval(stmt.value, env, said, prog, fuel)
      after(e) == IF v.ok THEN Leaves("next", e, v.out, NoValue)
                          ELSE Leaves("error", env, v.out, v.why)
  IN
  CASE stmt.s = "let"    -> after(Declare(env, stmt.name, v.val))
    [] stmt.s = "assign" -> after(Update(env, stmt.name, v.val))
    [] stmt.s = "expr"   -> after(env)
    [] stmt.s \in {"setField", "setIndex"} -> ExecStore(stmt, env, said, prog, fuel)
    [] stmt.s = "if" ->
         LET c     == Eval(stmt.cond, env, said, prog, fuel)
             taken == IF c.val.bool THEN stmt.then ELSE stmt.else
             body  == Exec(taken, Enclosed(env), c.out, prog, fuel)
         IN  IF c.ok THEN [body EXCEPT !.env = Front(@)]
                     ELSE Leaves("error", env, c.out, c.why)
    [] stmt.s = "while"    -> Loop(stmt, env, said, prog, fuel)
    [] stmt.s = "break"    -> Leaves("break", env, said, NoValue)
    [] stmt.s = "continue" -> Leaves("continue", env, said, NoValue)
    [] stmt.s = "return" ->
         IF stmt.value = <<>> THEN Leaves("return", env, said, NoValue)
         ELSE LET r == Eval(stmt.value[1], env, said, prog, fuel)
              IN  IF r.ok THEN Leaves("return", env, r.out, r.val)
                          ELSE Leaves("error", env, r.out, r.why)

Exec(stmts, env, said, prog, fuel) ==
  IF stmts = <<>> THEN Leaves("next", env, said, NoValue)
  ELSE LET first == ExecOne(Head(stmts), env, said, prog, fuel)
       IN  IF first.how = "next" THEN Exec(Tail(stmts), first.env, first.out, prog, fuel)
                                 ELSE first

\* The outcome of calling function f of a program.
Meaning(prog, f, args, fuel) == Call(f, args, <<>>, prog, fuel)
=============================================================================
