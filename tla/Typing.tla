------------------------------- MODULE Typing -------------------------------
(***************************************************************************)
(* Which programs are well typed: the promise the semantic analyzer has to *)
(* keep, stated over syntax trees without diagnostics, unknown types or    *)
(* an order of checks.  Names are lexically scoped, a function's           *)
(* parameters being its outermost scope; every expression has the one type *)
(* its parts give it; nothing of type void is used as a value.             *)
(***************************************************************************)
EXTENDS Syntax, SequencesExt

CONSTANTS
  Signatures  \* module name -> function name -> [takes |-> types, gives |-> type]

IllTyped == [t |-> "none"]

\* The types a value can have.
RECURSIVE IsType(_, _)
IsType(T, prog) ==
  CASE T.t = "named" -> \/ T.name \in {"int", "string", "bool", "json", "http_request", "http_response"}
                        \/ \E i \in DOMAIN prog.structs : prog.structs[i].name = T.name
    [] T.t = "array" -> IsType(T.of, prog)
    [] T.t = "map"   -> T.key = StrT /\ IsType(T.value, prog)

\* An environment: scopes, innermost last, name -> [type, mutable].
Bind(env, x, local) ==
  [env EXCEPT ![Len(env)] = [y \in DOMAIN @ \cup {x} |-> IF y = x THEN local ELSE @[y]]]
Nested(env) == Append(env, [x \in {} |-> [type |-> IllTyped, mutable |-> FALSE]])
BoundIn(env, x) == {k \in DOMAIN env : x \in DOMAIN env[k]}
Binding(env, x) == env[CHOOSE k \in BoundIn(env, x) : \A j \in BoundIn(env, x) : j <= k][x]

FunctionsNamed(prog, f) == SelectSeq(prog.functions, LAMBDA g : g.name = f)
FieldsOf(prog, n) ==
  LET decls == SelectSeq(prog.structs, LAMBDA d : d.name = n)
  IN  IF decls = <<>> THEN {} ELSE ToSet(decls[1].fields)

BuiltinOf(prog, path) ==
  LET uses == SelectSeq(prog.uses, LAMBDA u : path[1] = IF u.alias = <<>> THEN Last(u.path)
                                                                         ELSE u.alias[1])
      m    == IF uses = <<>> THEN "" ELSE Last(uses[1].path)
  IN  IF Len(path) = 2 /\ m \in DOMAIN Signatures
      THEN IF path[2] \in DOMAIN Signatures[m] THEN <<Signatures[m][path[2]]>> ELSE <<>>
      ELSE <<>>

RECURSIVE TypeIn(_, _, _)

Distinct(names) == \A i, j \in DOMAIN names : names[i] = names[j] => i = j
DistinctKeys(entries) ==
  Distinct([i \in DOMAIN entries |-> entries[i].key])

\* e can stand where a value of type T is wanted: literals are read with the
\* type wanted, so that an empty one has a type.
RECURSIVE Fits(_, _, _, _)
Fits(e, T, env, prog) ==
  CASE e.e = "array" /\ T.t = "array" ->
         \A i \in DOMAIN e.elements : Fits(e.elements[i], T.of, env, prog)
    [] e.e = "map" /\ T.t = "map" ->
         /\ DistinctKeys(e.entries)
         /\ \A i \in DOMAIN e.entries : Fits(e.entries[i].value, T.value, env, prog)
    [] OTHER -> TypeIn(e, env, prog) = T /\ T \notin {IllTyped, VoidT}

IsValue(e, env, prog) == TypeIn(e, env, prog) \notin {IllTyped, VoidT}

Accepted(e, wanted, env, prog) ==
  LET T == TypeIn(e, env, prog)
  IN  /\ IsValue(e, env, prog)
      /\ \/ wanted = "any" \/ T = Named(wanted)
         \/ wanted \in {"array", "map"} /\ T.t = wanted

AllFit(es, Ts, env, prog) ==
  /\ Len(es) = Len(Ts)
  /\ \A i \in DOMAIN es : Fits(es[i], Ts[i], env, prog)

TypeIn(e, env, prog) ==
  LET of(x)      == TypeIn(x, env, prog)
      both(T)    == of(e.left) = T /\ of(e.right) = T
      only(p, T) == IF p THEN T ELSE IllTyped
      same(es)   == IsValue(es[1], env, prog) /\ \A i \in DOMAIN es : of(es[i]) = of(es[1])
  IN
  CASE e.e = "int"    -> IntT
    [] e.e = "string" -> StrT
    [] e.e = "bool"   -> BoolT
    [] e.e = "name"   -> IF Len(e.path) = 1 /\ BoundIn(env, e.path[1]) # {}
                         THEN Binding(env, e.path[1]).type ELSE IllTyped
    [] e.e = "not"    -> only(of(e.operand) = BoolT, BoolT)
    [] e.e = "negate" -> only(of(e.operand) = IntT, IntT)
    [] e.e \in {"&&", "||"} -> only(both(BoolT), BoolT)
    [] e.e = "binary" ->
         CASE e.op \in {"+", "-", "*", "/", "%"} -> only(both(IntT), IntT)
           [] e.op \in {"<", ">", "<=", ">="}    -> only(both(IntT), BoolT)
           [] OTHER -> only(\E T \in {IntT, BoolT, StrT} : both(T), BoolT)
    [] e.e = "array"  -> IF e.elements = <<>> THEN IllTyped
                         ELSE only(same(e.elements), ArrayOf(of(e.elements[1])))
    [] e.e = "map"    ->
         LET es == [i \in DOMAIN e.entries |-> e.entries[i].value]
         IN  IF es = <<>> THEN IllTyped
             ELSE only(same(es) /\ DistinctKeys(e.entries), MapTo(StrT, of(es[1])))
    [] e.e = "struct" ->
         only(/\ \E i \in DOMAIN prog.structs : prog.structs[i].name = e.type
              /\ {e.fields[i].name : i \in DOMAIN e.fields} = {f.name : f \in FieldsOf(prog, e.type)}
              /\ Len(e.fields) = Cardinality(FieldsOf(prog, e.type))
              /\ \A i \in DOMAIN e.fields : \A f \in FieldsOf(prog, e.type) :
                   f.name = e.fields[i].name => Fits(e.fields[i].value, f.type, env, prog),
              Named(e.type))
    [] e.e = "field"  ->
         LET O == of(e.object)
             fs == IF O.t = "named" THEN {f \in FieldsOf(prog, O.name) : f.name = e.field} ELSE {}
         IN  IF fs = {} THEN IllTyped ELSE (CHOOSE f \in fs : TRUE).type
    [] e.e = "index"  ->
         LET O == of(e.object)
         IN  CASE O.t = "array" -> only(of(e.index) = IntT, O.of)
               [] O.t = "map"   -> only(of(e.index) = StrT, O.value)
               [] OTHER         -> IllTyped
    [] e.e = "call" /\ Len(e.callee) = 1 ->
         LET fs == FunctionsNamed(prog, e.callee[1])
         IN  IF fs = <<>> THEN IllTyped
             ELSE only(AllFit(e.args, [i \in DOMAIN fs[1].params |-> fs[1].params[i].type], env, prog),
                       fs[1].returns)
    [] e.e = "call" /\ Len(e.callee) > 1 ->
         LET bs == BuiltinOf(prog, e.callee)
         IN  IF bs = <<>> THEN IllTyped
             ELSE only(/\ Len(e.args) = Len(bs[1].takes)
                       /\ \A i \in DOMAIN e.args : Accepted(e.args[i], bs[1].takes[i], env, prog),
                       Named(bs[1].gives))

-----------------------------------------------------------------------------

\* The name at the root of a target, and whether every step is of one kind.
RECURSIVE TargetName(_, _)
TargetName(t, kind) ==
  CASE t.e = "name" -> IF Len(t.path) = 1 THEN t.path[1] ELSE ""
    [] t.e = kind   -> TargetName(t.object, kind)
    [] OTHER        -> ""

Stores(root, env) == BoundIn(env, root) # {} /\ Binding(env, root).mutable

RECURSIVE WellTypedBlock(_, _, _, _, _)

\* An if or a loop is no declaration; only a let changes the environment.
WellTypedStatement(s, env, T, loops, prog) ==
  CASE s.s = "expr"     -> TypeIn(s.value, env, prog) # IllTyped
    [] s.s = "let"      -> /\ s.name \notin DOMAIN Last(env)
                           /\ IsType(s.type, prog)
                           /\ Fits(s.value, s.type, env, prog)
    [] s.s = "assign"   -> Stores(s.name, env) /\ Fits(s.value, Binding(env, s.name).type, env, prog)
    [] s.s = "setField" -> /\ Stores(TargetName(s.target, "field"), env)
                           /\ Fits(s.value, TypeIn(s.target, env, prog), env, prog)
    [] s.s = "setIndex" -> /\ Stores(TargetName(s.target, "index"), env)
                           /\ Fits(s.value, TypeIn(s.target, env, prog), env, prog)
    [] s.s = "if"       -> /\ TypeIn(s.cond, env, prog) = BoolT
                           /\ WellTypedBlock(s.then, Nested(env), T, loops, prog)
                           /\ WellTypedBlock(s.else, Nested(env), T, loops, prog)
    [] s.s = "while"    -> /\ TypeIn(s.cond, env, prog) = BoolT
                           /\ WellTypedBlock(s.body, Nested(env), T, loops + 1, prog)
    [] s.s \in {"break", "continue"} -> loops > 0
    [] s.s = "return"   -> IF s.value = <<>> THEN T = VoidT
                           ELSE T # VoidT /\ Fits(s.value[1], T, env, prog)

WellTypedBlock(stmts, env, T, loops, prog) ==
  \/ stmts = <<>>
  \/ LET s == Head(stmts)
     IN  /\ WellTypedStatement(s, env, T, loops, prog)
         /\ WellTypedBlock(Tail(stmts),
                           IF s.s = "let" THEN Bind(env, s.name, [type |-> s.type, mutable |-> s.mutable])
                                          ELSE env,
                           T, loops, prog)

RECURSIVE AlwaysReturns(_)
AlwaysReturns(stmts) ==
  /\ stmts # <<>>
  /\ LET s == Last(stmts)
     IN  s.s = "return" \/ (s.s = "if" /\ AlwaysReturns(s.then) /\ AlwaysReturns(s.else))

\* Names are declared once, types exist, and main takes nothing and gives int.
WellTyped(prog) ==
  /\ Distinct([i \in DOMAIN prog.uses |->
                IF prog.uses[i].alias = <<>> THEN Last(prog.uses[i].path) ELSE prog.uses[i].alias[1]])
  /\ \A k \in DOMAIN prog.structs :
       LET fields == prog.structs[k].fields
       IN  /\ Distinct([i \in DOMAIN fields |-> fields[i].name])
           /\ \A i \in DOMAIN fields : IsType(fields[i].type, prog)
  /\ \E i \in DOMAIN prog.functions :
       LET main == prog.functions[i]
       IN  main.name = "main" /\ main.params = <<>> /\ main.returns = IntT
  /\ Distinct([i \in DOMAIN prog.functions |-> prog.functions[i].name])
  /\ \A k \in DOMAIN prog.functions :
       LET f     == prog.functions[k]
           names == {f.params[i].name : i \in DOMAIN f.params}
           scope == [x \in names |-> [mutable |-> FALSE, type |->
                       (CHOOSE p \in ToSet(f.params) : p.name = x).type]]
       IN  /\ Cardinality(names) = Len(f.params)
           /\ WellTypedBlock(f.body, <<scope, [x \in {} |-> 0]>>, f.returns, 0, prog)
           /\ \A p \in ToSet(f.params) : IsType(p.type, prog)
           /\ f.returns = VoidT \/ IsType(f.returns, prog)
           /\ f.returns = VoidT \/ AlwaysReturns(f.body)
=============================================================================
