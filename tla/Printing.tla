------------------------------ MODULE Printing ------------------------------
(***************************************************************************)
(* How a program is written: the tokens of a syntax tree, with no more     *)
(* parentheses than its grouping needs (docs/language/syntax.md).  What    *)
(* the parser is compared with.                                            *)
(***************************************************************************)
EXTENDS Syntax, SequencesExt

Word(w)    == [kind |-> w, text |-> w]
Ident(x)   == [kind |-> "name", text |-> x]
Lit(k, v)  == [kind |-> k, text |-> v]
Words(ws)  == [i \in DOMAIN ws |-> Word(ws[i])]

\* Parts, with a separator between them.
Between(separator, parts) ==
  FlattenSeq([i \in DOMAIN parts |-> IF i = 1 THEN parts[1] ELSE <<Word(separator)>> \o parts[i]])

PathTokens(path) == Between("::", [i \in DOMAIN path |-> <<Ident(path[i])>>])

RECURSIVE TypeTokens(_)
TypeTokens(T) ==
  CASE T.t = "named" -> <<Ident(T.name)>>
    [] T.t = "array" -> Words(<<"[", "]">>) \o TypeTokens(T.of)
    [] T.t = "map"   -> <<Ident("map"), Word("<")>> \o TypeTokens(T.key) \o <<Word(",")>>
                          \o TypeTokens(T.value) \o <<Word(">")>>

Tightness == << {"||"}, {"&&"}, {"==", "!="}, {"<", "<=", ">", ">="}, {"+", "-"}, {"*", "/", "%"} >>
OperatorOf(expr) == IF expr.e = "binary" THEN expr.op ELSE expr.e
LevelOf(expr) ==
  CASE expr.e \in {"binary", "&&", "||"} -> CHOOSE k \in 1 .. 6 : OperatorOf(expr) \in Tightness[k]
    [] expr.e \in {"not", "negate"} -> 7
    [] OTHER -> 8

RECURSIVE Tokens(_, _)

Loose(expr) == Tokens(expr, 1)
TokensOfAll(exprs) == Between(",", [i \in DOMAIN exprs |-> Loose(exprs[i])])

Bare(expr) ==
  CASE expr.e = "int"    -> <<Lit("integer", expr.value)>>
    [] expr.e = "string" -> <<Lit("string", expr.value)>>
    [] expr.e = "bool"   -> <<Lit("boolean", expr.value)>>
    [] expr.e = "name"   -> PathTokens(expr.path)
    [] expr.e = "call"   -> PathTokens(expr.callee) \o <<Word("(")>> \o TokensOfAll(expr.args) \o <<Word(")")>>
    [] expr.e = "array"  -> <<Word("[")>> \o TokensOfAll(expr.elements) \o <<Word("]")>>
    [] expr.e = "map"    ->
         <<Ident("map"), Word("{")>>
           \o Between(",", [i \in DOMAIN expr.entries |->
                <<Lit("string", expr.entries[i].key), Word(":")>> \o Loose(expr.entries[i].value)])
           \o <<Word("}")>>
    [] expr.e = "struct" ->
         <<Ident(expr.type), Word("{")>>
           \o Between(",", [i \in DOMAIN expr.fields |->
                <<Ident(expr.fields[i].name), Word(":")>> \o Loose(expr.fields[i].value)])
           \o <<Word("}")>>
    [] expr.e = "field"  -> Tokens(expr.object, 8) \o <<Word("."), Ident(expr.field)>>
    [] expr.e = "index"  -> Tokens(expr.object, 8) \o <<Word("[")>> \o Loose(expr.index) \o <<Word("]")>>
    [] expr.e = "not"    -> <<Word("!")>> \o Tokens(expr.operand, 7)
    [] expr.e = "negate" -> <<Word("-")>> \o Tokens(expr.operand, 7)
    [] OTHER -> Tokens(expr.left, LevelOf(expr)) \o <<Word(OperatorOf(expr))>>
                  \o Tokens(expr.right, LevelOf(expr) + 1)

Tokens(expr, level) ==
  IF LevelOf(expr) < level THEN <<Word("(")>> \o Bare(expr) \o <<Word(")")>> ELSE Bare(expr)

RECURSIVE Braced(_)

StatementTokens(stmt) ==
  CASE stmt.s = "let" ->
         <<Word(IF stmt.mutable THEN "var" ELSE "let"), Ident(stmt.name), Word(":")>> \o TypeTokens(stmt.type)
           \o <<Word("=")>> \o Loose(stmt.value) \o <<Word(";")>>
    [] stmt.s = "assign" -> <<Ident(stmt.name), Word("=")>> \o Loose(stmt.value) \o <<Word(";")>>
    [] stmt.s \in {"setField", "setIndex"} ->
         Loose(stmt.target) \o <<Word("=")>> \o Loose(stmt.value) \o <<Word(";")>>
    [] stmt.s = "return" ->
         <<Word("return")>> \o (IF stmt.value = <<>> THEN <<>> ELSE Loose(stmt.value[1])) \o <<Word(";")>>
    [] stmt.s = "expr"  -> Loose(stmt.value) \o <<Word(";")>>
    [] stmt.s = "while" -> Words(<<"while", "(">>) \o Loose(stmt.cond) \o <<Word(")")>> \o Braced(stmt.body)
    [] stmt.s = "if"    ->
         Words(<<"if", "(">>) \o Loose(stmt.cond) \o <<Word(")")>> \o Braced(stmt.then)
           \o (IF stmt.else = <<>> THEN <<>> ELSE <<Word("else")>> \o Braced(stmt.else))
    [] OTHER -> Words(<<stmt.s, ";">>)

Braced(stmts) ==
  <<Word("{")>> \o FlattenSeq([i \in DOMAIN stmts |-> StatementTokens(stmts[i])]) \o <<Word("}")>>

UseTokens(use) ==
  <<Word("use")>> \o PathTokens(use.path)
    \o (IF use.alias = <<>> THEN <<>> ELSE <<Word("as"), Ident(use.alias[1])>>) \o <<Word(";")>>

FieldTokens(field) == <<Ident(field.name), Word(":")>> \o TypeTokens(field.type)

StructTokens(decl) ==
  <<Word("struct"), Ident(decl.name), Word("{")>>
    \o FlattenSeq([i \in DOMAIN decl.fields |-> FieldTokens(decl.fields[i]) \o <<Word(";")>>])
    \o <<Word("}")>>

FunctionTokens(func) ==
  <<Word("fn"), Ident(func.name), Word("(")>>
    \o Between(",", [i \in DOMAIN func.params |-> FieldTokens(func.params[i])])
    \o Words(<<")", ":">>) \o TypeTokens(func.returns) \o Braced(func.body)

\* annotations[i] are the tokens before the i-th function.
ProgramTokens(prog, before) ==
  FlattenSeq([i \in DOMAIN prog.uses |-> UseTokens(prog.uses[i])])
    \o FlattenSeq([i \in DOMAIN prog.structs |-> StructTokens(prog.structs[i])])
    \o FlattenSeq([i \in DOMAIN prog.functions |-> before[i] \o FunctionTokens(prog.functions[i])])
=============================================================================
