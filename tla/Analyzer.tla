------------------------------ MODULE Analyzer ------------------------------
(***************************************************************************)
(* The semantic analyzer (src/semantic/semantic_analyzer.cpp): which       *)
(* programs the driver refuses before they are lowered.                    *)
(*                                                                         *)
(* A diagnostic is its code; the analysis of an expression is its type     *)
(* with the codes reported on the way.  The analysis is recursive, so this *)
(* module is only used by TLC's runs.                                      *)
(***************************************************************************)
EXTENDS Syntax, SequencesExt, FiniteSetsExt

CONSTANTS
  Signatures  \* module name -> function name -> [takes |-> types, gives |-> type]

(* SemanticType: a type name that means something, or nothing.             *)

Unknown == [t |-> "unknown"]

Typed(T, errs) == [type |-> T, errs |-> errs]

\* typeFromString, and the names a struct may not take.
NativeTypes   == {"int", "string", "bool", "void", "json", "http_request", "http_response"}
ReservedTypes == {"int", "string", "bool", "void"}

\* Of two declarations with one name the maps of the analyzer keep the first.
DeclarationsOf(decls, name) == SelectSeq(decls, LAMBDA d : d.name = name)
NamesOf(decls) == {decls[i].name : i \in DOMAIN decls}
Repeated(names) == \E i, j \in DOMAIN names : i # j /\ names[i] = names[j]
Report(code, wrong) == IF wrong THEN {code} ELSE {}

IsStructName(n, prog) == n \in NamesOf(prog.structs) \ ReservedTypes
StructNamed(n, prog)  == DeclarationsOf(prog.structs, n)[1]

RECURSIVE TypeFrom(_, _)
TypeFrom(T, prog) ==
  CASE T.t = "named" -> IF T.name \in NativeTypes \/ IsStructName(T.name, prog) THEN T ELSE Unknown
    [] T.t = "array" -> LET E == TypeFrom(T.of, prog)
                        IN  IF E \in {Unknown, VoidT} THEN Unknown ELSE ArrayOf(E)
    [] T.t = "map"   -> LET V == TypeFrom(T.value, prog)
                        IN  IF TypeFrom(T.key, prog) # StrT \/ V \in {Unknown, VoidT} THEN Unknown
                            ELSE MapTo(StrT, V)

RECURSIVE ElementType(_)
ElementType(T) == IF T.t = "array" THEN ElementType(T.of) ELSE T

\* validateDeclaredType
Declared(T, allowVoid, prog) ==
  LET base  == ElementType(T)
      key   == TypeFrom(base.key, prog)
      value == TypeFrom(base.value, prog)
  IN  CASE T.t = "array" /\ base = VoidT           -> {"SEM031"}
        [] base.t = "map" /\ key = Unknown         -> {"SEM030"}
        [] base.t = "map" /\ key \notin {Unknown, StrT} -> {"SEM056"}
        [] base.t = "map" /\ key = StrT /\ value = Unknown -> {"SEM030"}
        [] base.t = "map" /\ key = StrT /\ value = VoidT   -> {"SEM031"}
        [] OTHER -> Report("SEM030", TypeFrom(T, prog) = Unknown)
                      \cup Report("SEM031", TypeFrom(T, prog) = VoidT /\ ~allowVoid)

\* A value position never has type void: such a declaration counts as unknown.
ValueType(T, prog) == IF TypeFrom(T, prog) = VoidT THEN Unknown ELSE TypeFrom(T, prog)

Comparable == {IntT, StrT, BoolT}

RECURSIVE IsJsonSerializable(_)
IsJsonSerializable(T) ==
  CASE T.t = "named" -> T \notin {VoidT, Named("http_request"), Named("http_response")}
    [] T.t = "array" -> IsJsonSerializable(T.of)
    [] T.t = "map"   -> IsJsonSerializable(T.value)
    [] OTHER -> FALSE

BuiltinParameterAccepts(expected, T) ==
  \/ expected = "any" \/ T = Unknown
  \/ expected \in {"array", "map"} /\ T.t = expected
  \/ expected = "json_serializable" /\ IsJsonSerializable(T)
  \/ T = Named(expected)

-----------------------------------------------------------------------------
(* The context: the program, the parameters of the function analyzed, the  *)
(* scopes of its locals (innermost last, each name -> [type, mutable]) and *)
(* the depth of loops.                                                     *)

NoLocals == [x \in {} |-> [type |-> Unknown, mutable |-> FALSE]]
OpenScope(c)  == [c EXCEPT !.scopes = Append(@, NoLocals)]

\* A name may be declared again in an inner scope, not in the same one.
DeclaredHere(c, x) == x \in DOMAIN Last(c.scopes)
AddLocal(c, x, local) ==
  IF DeclaredHere(c, x) THEN c
  ELSE [c EXCEPT !.scopes = Append(Front(@), [y \in DOMAIN Last(@) \cup {x} |->
                                                IF y = x THEN local ELSE Last(c.scopes)[y]])]

Knowing(c, x) == {k \in DOMAIN c.scopes : x \in DOMAIN c.scopes[k]}
HasLocal(c, x) == Knowing(c, x) # {}
ResolveLocal(c, x) == c.scopes[Max(Knowing(c, x))][x]

VisibleName(use) == IF use.alias = <<>> THEN Last(use.path) ELSE use.alias[1]
ImportsOf(prog, x) == SelectSeq(prog.uses, LAMBDA use : VisibleName(use) = x)

\* The module a visible name stands for, "" if the name or the module is unknown.
ModuleOf(prog, x) ==
  LET uses == ImportsOf(prog, x)
  IN  IF uses # <<>> /\ Last(uses[1].path) \in DOMAIN Signatures THEN Last(uses[1].path) ELSE ""

\* resolveQualifiedName: functions first, whether called or not.
Resolve(path, callable, args, c) ==
  LET x == path[1]
      f == DeclarationsOf(c.prog.functions, x)
      m == ModuleOf(c.prog, x)
  IN  IF Len(path) = 1
      THEN CASE f # <<>> -> Report("SEM011", callable /\ Len(f[1].params) # args)
             [] f = <<>> /\ ~callable /\ (x \in DOMAIN c.params \/ HasLocal(c, x)) -> {}
             [] OTHER -> IF ImportsOf(c.prog, x) # <<>> THEN {"SEM006"} ELSE {"SEM007"}
      ELSE CASE m = "" -> {"SEM008"}
             [] m # "" /\ path[2] \notin DOMAIN Signatures[m] -> {"SEM009"}
             [] OTHER -> Report("SEM010", callable /\ Len(Signatures[m][path[2]].takes) # args)

-----------------------------------------------------------------------------
(* Expressions.  Check is analyzeExpression: names and arities.  TypeOf is *)
(* analyzeExpressionType.  Checked is analyzeCheckedExpressionType: both,  *)
(* the type only if the names were right.  TypeExpecting is                *)
(* analyzeExpressionTypeWithExpected, Unknown standing for no expectation. *)

RECURSIVE Check(_, _), TypeOf(_, _)

Checked(expr, c) ==
  LET errs == Check(expr, c)
  IN  IF errs # {} THEN Typed(Unknown, errs) ELSE TypeOf(expr, c)

\* Both types are known and differ.
Clash(T, U) == T # Unknown /\ U # Unknown /\ T # U

\* A value where one of type T is wanted.
Mismatch(value, T, code) == value.errs \cup Report(code, Clash(value.type, T))

RECURSIVE TypeExpecting(_, _, _)

\* An array or map literal: the first value decides, unless it has no type, and
\* then nothing is said of the others.  element and literal are what is wanted.
LiteralType(kind, exprs, element, literal, code, c) ==
  LET first == TypeExpecting(exprs[1], element, c)
      T     == IF kind = "array" THEN ArrayOf(first.type) ELSE MapTo(StrT, first.type)
  IN  IF first.type = Unknown THEN first
      ELSE Typed(T, first.errs
                      \cup UNION {Mismatch(TypeExpecting(exprs[i], element, c), first.type, code) :
                                    i \in 2 .. Len(exprs)}
                      \cup Report(code, literal.t = kind /\ literal # T))

ArrayLiteralType(expr, T, c) ==
  IF expr.elements = <<>>
  THEN IF T.t = "array" THEN Typed(T, {}) ELSE Typed(Unknown, {"SEM049"})
  ELSE LiteralType("array", expr.elements, IF T.t = "array" THEN T.of ELSE Unknown, T, "SEM050", c)

MapLiteralType(expr, T, c) ==
  LET keys   == [i \in DOMAIN expr.entries |-> expr.entries[i].key]
      values == [i \in DOMAIN expr.entries |-> expr.entries[i].value]
      typed  == LiteralType("map", values, IF T.t = "map" THEN T.value ELSE Unknown, T, "SEM059", c)
  IN  IF expr.entries = <<>>
      THEN IF T.t = "map" THEN Typed(T, {}) ELSE Typed(Unknown, {"SEM058"})
      ELSE [typed EXCEPT !.errs = @ \cup Report("SEM060", Repeated(keys))]

TypeExpecting(expr, T, c) ==
  CASE expr.e = "array" -> ArrayLiteralType(expr, T, c)
    [] expr.e = "map"   -> MapLiteralType(expr, T, c)
    [] OTHER            -> Checked(expr, c)

StructLiteralType(expr, c) ==
  LET decl == StructNamed(expr.type, c.prog)
      given == [i \in DOMAIN expr.fields |-> expr.fields[i].name]
      first == {i \in DOMAIN given : \A j \in 1 .. i - 1 : given[j] # given[i]}
      known == {i \in first : given[i] \in NamesOf(decl.fields)}
      declared(i) == TypeFrom(DeclarationsOf(decl.fields, given[i])[1].type, c.prog)
  IN  IF ~IsStructName(expr.type, c.prog) THEN Typed(Unknown, {"SEM038"})
      ELSE Typed(Named(expr.type),
                 UNION {Mismatch(TypeExpecting(expr.fields[i].value, declared(i), c), declared(i), "SEM041") :
                          i \in known}
                   \cup Report("SEM039", first # DOMAIN given)
                   \cup Report("SEM040", known # first)
                   \cup Report("SEM042", ~(NamesOf(decl.fields) \subseteq ToSet(given))))

FieldAccessType(expr, c) ==
  LET object == Checked(expr.object, c)
      decl   == StructNamed(object.type.name, c.prog)
      fails(code) == Typed(Unknown, object.errs \cup {code})
  IN  CASE object.type = Unknown -> object
        [] object.type # Unknown /\ ~(object.type.t = "named" /\ IsStructName(object.type.name, c.prog)) ->
             fails("SEM043")
        [] OTHER ->
             IF expr.field \notin NamesOf(decl.fields) THEN fails("SEM044")
             ELSE Typed(TypeFrom(DeclarationsOf(decl.fields, expr.field)[1].type, c.prog), object.errs)

\* Mutation: any index is as good as another.
IndexByAnything(expr, c) ==
  LET object == Checked(expr.object, c)
      errs   == object.errs \cup Checked(expr.index, c).errs
  IN  CASE object.type.t = "array" -> Typed(object.type.of, errs)
        [] object.type.t = "map"   -> Typed(object.type.value, errs)
        [] OTHER                   -> Typed(Unknown, errs)

IndexType(expr, c) ==
  LET object == Checked(expr.object, c)
      index  == Checked(expr.index, c)
      errs   == object.errs \cup index.errs
      by(T, U, code) == IF Clash(index.type, T) THEN Typed(Unknown, errs \cup {code})
                                               ELSE Typed(U, errs)
  IN  CASE object.type = Unknown   -> Typed(Unknown, errs)
        [] object.type.t = "array" -> by(IntT, object.type.of, "SEM052")
        [] object.type.t = "map"   -> by(StrT, object.type.value, "SEM061")
        [] OTHER                   -> Typed(Unknown, errs \cup {"SEM051"})

\* An operator on two operands of type T.
Operator(T, U, left, right, errs, code) ==
  IF left = T /\ right = T THEN Typed(U, errs) ELSE Typed(Unknown, errs \cup {code})

BinaryType(expr, c) ==
  LET l == TypeOf(expr.left, c)
      r == TypeOf(expr.right, c)
      errs == l.errs \cup r.errs
      op == IF expr.e = "binary" THEN expr.op ELSE expr.e
  IN  CASE op \in {"+", "-", "*", "/", "%"} -> Operator(IntT, IntT, l.type, r.type, errs, "SEM013")
        [] op \in {"&&", "||"}              -> Operator(BoolT, BoolT, l.type, r.type, errs, "SEM029")
        [] op \in {"<", ">", "<=", ">="}    -> Operator(IntT, BoolT, l.type, r.type, errs, "SEM024")
        [] op \in {"==", "!="} ->
             IF Unknown \in {l.type, r.type} THEN Typed(Unknown, errs)
             ELSE IF l.type = r.type /\ l.type \in Comparable THEN Typed(BoolT, errs)
             ELSE Typed(Unknown, errs \cup {"SEM048"})

UnaryType(expr, c) ==
  LET operand == TypeOf(expr.operand, c)
      T       == IF expr.e = "not" THEN BoolT ELSE IntT
  IN  IF operand.type = T THEN operand
      ELSE Typed(Unknown, operand.errs \cup
                   Report(IF expr.e = "not" THEN "SEM028" ELSE "SEM032", operand.type # Unknown))

\* The arguments of a call, against the parameters of a function or a builtin.
UserCallType(expr, f, c) ==
  LET checked == {i \in 1 .. Len(expr.args) : i <= Len(f.params)}
      declared(i) == TypeFrom(f.params[i].type, c.prog)
  IN  Typed(TypeFrom(f.returns, c.prog),
            UNION {Mismatch(TypeExpecting(expr.args[i], declared(i), c), declared(i), "SEM037") : i \in checked})

BuiltinCallType(expr, b, c) ==
  LET checked == {i \in 1 .. Len(expr.args) : i <= Len(b.takes) /\ b.takes[i] # "any"}
      accepted(value, i) ==
        value.errs \cup Report("SEM033", ~BuiltinParameterAccepts(b.takes[i], value.type))
  IN  Typed(Named(b.gives), UNION {accepted(Checked(expr.args[i], c), i) : i \in checked})

CallType(expr, c) ==
  LET f == DeclarationsOf(c.prog.functions, expr.callee[1])
      m == ModuleOf(c.prog, expr.callee[1])
  IN  IF Len(expr.callee) = 1
      THEN IF f = <<>> THEN Typed(Unknown, {}) ELSE UserCallType(expr, f[1], c)
      ELSE IF m = "" THEN Typed(Unknown, {})
      ELSE IF expr.callee[2] \notin DOMAIN Signatures[m] THEN Typed(Unknown, {})
      ELSE BuiltinCallType(expr, Signatures[m][expr.callee[2]], c)

\* A parameter comes before a local of the same name.
NameType(expr, c) ==
  LET x == expr.path[1]
  IN  CASE Len(expr.path) = 1 /\ x \in DOMAIN c.params -> c.params[x]
        [] Len(expr.path) = 1 /\ x \notin DOMAIN c.params /\ HasLocal(c, x) -> ResolveLocal(c, x).type
        [] OTHER -> Unknown

TypeOf(expr, c) ==
  CASE expr.e = "int"    -> Typed(IntT, {})
    [] expr.e = "string" -> Typed(StrT, {})
    [] expr.e = "bool"   -> Typed(BoolT, {})
    [] expr.e = "name"   -> Typed(NameType(expr, c), {})
    [] expr.e = "struct" -> StructLiteralType(expr, c)
    [] expr.e = "array"  -> ArrayLiteralType(expr, Unknown, c)
    [] expr.e = "map"    -> MapLiteralType(expr, Unknown, c)
    [] expr.e = "field"  -> FieldAccessType(expr, c)
    [] expr.e = "index"  -> IndexType(expr, c)
    [] expr.e = "call"   -> CallType(expr, c)
    [] expr.e \in {"not", "negate"}       -> UnaryType(expr, c)
    [] expr.e \in {"binary", "&&", "||"}  -> BinaryType(expr, c)

\* The types of the arguments of a call are not looked at here.
Check(expr, c) ==
  CASE expr.e \in {"int", "string", "bool"} -> {}
    [] expr.e = "name" -> Resolve(expr.path, FALSE, 0, c)
    [] expr.e = "call" -> Resolve(expr.callee, TRUE, Len(expr.args), c)
                            \cup UNION {Check(expr.args[i], c) : i \in DOMAIN expr.args}
    [] expr.e \in {"struct", "array", "map", "field", "index"} -> TypeOf(expr, c).errs
    [] expr.e \in {"not", "negate"} -> Check(expr.operand, c) \cup TypeOf(expr, c).errs
    [] expr.e \in {"binary", "&&", "||"} ->
         Check(expr.left, c) \cup Check(expr.right, c) \cup TypeOf(expr, c).errs

-----------------------------------------------------------------------------
(* Statements.  Each operator returns the codes and the context after.     *)

RECURSIVE AnalyzeStatement(_, _), AnalyzeBlock(_, _)

Same(c, errs) == [errs |-> errs, ctx |-> c]

AnalyzeReturn(stmt, c) ==
  LET value == TypeExpecting(stmt.value[1], c.returns, c)
  IN  IF stmt.value = <<>> THEN Report("SEM015", c.returns # VoidT)
      ELSE IF c.returns = VoidT THEN value.errs \cup {"SEM016"}
      ELSE Mismatch(value, c.returns, "SEM014")

AnalyzeLet(stmt, c) ==
  LET T == ValueType(stmt.type, c.prog)
  IN  [errs |-> Declared(stmt.type, FALSE, c.prog)
                  \cup Mismatch(TypeExpecting(stmt.value, T, c), T, "SEM019")
                  \cup Report("SEM018", DeclaredHere(c, stmt.name)),
       ctx  |-> AddLocal(c, stmt.name, [type |-> T, mutable |-> stmt.mutable])]

\* Mutation: let is var.
AssignAnything(stmt, c) ==
  LET local == ResolveLocal(c, stmt.name)
  IN  IF ~HasLocal(c, stmt.name) THEN {"SEM020"}
      ELSE Mismatch(TypeExpecting(stmt.value, local.type, c), local.type, "SEM022")

AnalyzeAssignment(stmt, c) ==
  LET local == ResolveLocal(c, stmt.name)
  IN  IF ~HasLocal(c, stmt.name) THEN {"SEM020"}
      ELSE Mismatch(TypeExpecting(stmt.value, local.type, c), local.type, "SEM022")
             \cup Report("SEM021", ~local.mutable)

RECURSIVE RootName(_), ContainsIndex(_)
RootName(target) ==
  CASE target.e = "name" -> IF Len(target.path) = 1 THEN target.path[1] ELSE ""
    [] target.e \in {"field", "index"} -> RootName(target.object)
    [] OTHER -> ""
ContainsIndex(target) ==
  \/ target.e = "index"
  \/ target.e = "field" /\ ContainsIndex(target.object)

AnalyzeFieldAssignment(stmt, c) ==
  LET root   == RootName(stmt.target)
      target == FieldAccessType(stmt.target, c)
      value  == Checked(stmt.value, c)
  IN  IF ContainsIndex(stmt.target) \/ ~HasLocal(c, root) THEN value.errs \cup {"SEM045"}
      ELSE target.errs \cup Mismatch(value, target.type, "SEM047")
             \cup Report("SEM046", ~ResolveLocal(c, root).mutable)

AnalyzeIndexAssignment(stmt, c) ==
  LET root   == RootName(stmt.target)
      target == IndexType(stmt.target, c)
  IN  IF ~HasLocal(c, root) THEN Checked(stmt.value, c).errs \cup {"SEM053"}
      ELSE target.errs \cup Mismatch(TypeExpecting(stmt.value, target.type, c), target.type, "SEM055")
             \cup Report("SEM054", ~ResolveLocal(c, root).mutable)

Condition(expr, code, c) ==
  LET cond == Checked(expr, c)
  IN  cond.errs \cup Report(code, cond.type \notin {BoolT, Unknown})

AnalyzeStatement(stmt, c) ==
  CASE stmt.s = "expr"     -> Same(c, Check(stmt.value, c))
    [] stmt.s = "return"   -> Same(c, AnalyzeReturn(stmt, c))
    [] stmt.s = "let"      -> AnalyzeLet(stmt, c)
    [] stmt.s = "assign"   -> Same(c, AnalyzeAssignment(stmt, c))
    [] stmt.s = "setField" -> Same(c, AnalyzeFieldAssignment(stmt, c))
    [] stmt.s = "setIndex" -> Same(c, AnalyzeIndexAssignment(stmt, c))
    [] stmt.s = "if"       -> Same(c, Condition(stmt.cond, "SEM023", c)
                                        \cup AnalyzeBlock(stmt.then, OpenScope(c)).errs
                                        \cup AnalyzeBlock(stmt.else, OpenScope(c)).errs)
    [] stmt.s = "while"    -> Same(c, Condition(stmt.cond, "SEM025", c)
                                        \cup AnalyzeBlock(stmt.body, OpenScope([c EXCEPT !.loops = @ + 1])).errs)
    [] stmt.s = "break"    -> Same(c, Report("SEM026", c.loops = 0))
    [] stmt.s = "continue" -> Same(c, Report("SEM027", c.loops = 0))

AnalyzeBlock(stmts, c) ==
  FoldLeft(LAMBDA done, stmt : LET next == AnalyzeStatement(stmt, done.ctx)
                               IN  [next EXCEPT !.errs = @ \cup done.errs],
           Same(c, {}), stmts)

\* Mutation: only the last statement itself counts.
EndsWithReturn(stmts) == stmts # <<>> /\ Last(stmts).s = "return"

RECURSIVE GuaranteesReturn(_)
GuaranteesReturn(stmts) ==
  /\ stmts # <<>>
  /\ LET last == Last(stmts)
     IN  \/ last.s = "return"
         \/ last.s = "if" /\ GuaranteesReturn(last.then) /\ GuaranteesReturn(last.else)

-----------------------------------------------------------------------------
(* Declarations.                                                           *)

AnalyzeFunction(func, prog) ==
  LET names == [i \in DOMAIN func.params |-> func.params[i].name]
      T     == TypeFrom(func.returns, prog)
      c     == [prog |-> prog, scopes |-> <<NoLocals>>, loops |-> 0, returns |-> T,
                params |-> [x \in ToSet(names) |->
                              ValueType(DeclarationsOf(func.params, x)[1].type, prog)]]
  IN  Declared(func.returns, TRUE, prog)
        \cup UNION {Declared(func.params[i].type, FALSE, prog) : i \in DOMAIN names}
        \cup Report("SEM012", Repeated(names))
        \cup AnalyzeBlock(func.body, c).errs
        \cup Report("SEM017", T # VoidT /\ ~GuaranteesReturn(func.body))

AnalyzeStruct(decl, prog) ==
  Report("SEM035", Repeated([i \in DOMAIN decl.fields |-> decl.fields[i].name]))
    \cup UNION {Declared(decl.fields[i].type, FALSE, prog) : i \in DOMAIN decl.fields}

ValidateEntryPoint(prog) ==
  LET main == DeclarationsOf(prog.functions, "main")
  IN  IF main = <<>> THEN {"SEM003"}
      ELSE Report("SEM004", main[1].params # <<>>)
             \cup Report("SEM005", Clash(TypeFrom(main[1].returns, prog), IntT))

Collect(prog) ==
  LET imports == [i \in DOMAIN prog.uses |-> VisibleName(prog.uses[i])]
      funcs   == [i \in DOMAIN prog.functions |-> prog.functions[i].name]
      kept    == SelectSeq(prog.structs, LAMBDA d : d.name \notin ReservedTypes)
  IN  Report("SEM001", Repeated(imports)) \cup Report("SEM002", Repeated(funcs))
        \cup Report("SEM036", kept # prog.structs)
        \cup Report("SEM034", Repeated([i \in DOMAIN kept |-> kept[i].name]))

\* Everything reported of a program; none of it stops the analysis.
Analyze(prog) ==
  Collect(prog) \cup ValidateEntryPoint(prog)
    \cup UNION {AnalyzeStruct(prog.structs[i], prog) : i \in DOMAIN prog.structs}
    \cup UNION {AnalyzeFunction(prog.functions[i], prog) : i \in DOMAIN prog.functions}
=============================================================================
