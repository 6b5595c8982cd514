------------------------------- MODULE Parser -------------------------------
(***************************************************************************)
(* The parser (src/parser/parser.cpp): recursive descent over the tokens   *)
(* of a file, with recovery.                                               *)
(*                                                                         *)
(* Expressions, type names and statements without a body are parsed in one *)
(* step by recursive operators, which give the node and the position after *)
(* it, or the first diagnostic.  Declarations and blocks are parsed by     *)
(* actions: open holds the ones under way.  A diagnostic is its code and   *)
(* its position; the diagnostics are a set, so that a parser that reports  *)
(* the same thing forever comes back to the same state.                    *)
(*                                                                         *)
(* Left out: source ranges, pub (read and not acted upon by any stage) and *)
(* the name of the module.                                                 *)
(***************************************************************************)
EXTENDS Syntax, SequencesExt, FiniteSetsExt

CONSTANT
  Input  \* file -> its tokens, each [kind, text], the last one of kind "end"

VARIABLES
  source,       \* the file
  pos,          \* _position, from 1
  phase,        \* "module", "uses", "items", "declaration" (after a bad annotation), "done"
  annotations,  \* the annotations read for the next declaration
  open,         \* the declarations and blocks entered and not left, outermost first
  syncing,      \* a loop is about to call sync()
  diagnostics,  \* the <<code, position>> reported
  program       \* what has been parsed

vars == <<source, pos, phase, annotations, open, syncing, diagnostics, program>>

Tokens  == Input[source]
Kind(p) == Tokens[p].kind
Text(p) == Tokens[p].text
AtEnd(p) == Kind(p) = "end"

-----------------------------------------------------------------------------
(* Results: a node and where it ends, or what was reported and where the   *)
(* parser stands then.                                                     *)

Got(node, p)  == [ok |-> TRUE, node |-> node, pos |-> p]
Bad(code, p)  == [ok |-> FALSE, code |-> code, at |-> p, pos |-> p]
\* Go on from r if it was parsed.  (As an element of a set, TLC computes r once.)
Then(r, Go(_)) == CHOOSE y \in {IF x.ok THEN Go(x) ELSE x : x \in {r}} : TRUE

\* consume
Consume(kind, code, p) == IF Kind(p) = kind THEN Got(Text(p), p + 1) ELSE Bad(code, p)

\* A node and the `;` after it.
Ended(r, code) == Then(r, LAMBDA x : Then(Consume(";", code, x.pos), LAMBDA y : Got(x.node, y.pos)))

-----------------------------------------------------------------------------
(* Names and type names.                                                   *)

RECURSIVE Segments(_, _), TypeName(_)

Segments(path, p) ==
  IF Kind(p) # "::" THEN Got(path, p)
  ELSE Then(Consume("name", "PAR015", p + 1), LAMBDA x : Segments(Append(path, x.node), x.pos))

QualifiedName(p) == Then(Consume("name", "PAR014", p), LAMBDA x : Segments(<<x.node>>, x.pos))

Joined(path) == FoldLeft(LAMBDA s, x : s \o "::" \o x, Head(path), Tail(path))

MapType(p) ==
  Then(TypeName(p), LAMBDA key :
  Then(Consume(",", "PAR141", key.pos), LAMBDA comma :
  Then(TypeName(comma.pos), LAMBDA value :
  Then(Consume(">", "PAR142", value.pos), LAMBDA x : Got(MapTo(key.node, value.node), x.pos)))))

\* `map` is a name like any other unless `<` follows.
TypeName(p) ==
  CASE Kind(p) = "[" ->
         Then(Consume("]", "PAR122", p + 1), LAMBDA x :
         Then(TypeName(x.pos), LAMBDA element : Got(ArrayOf(element.node), element.pos)))
    [] Kind(p) = "name" /\ Text(p) = "map" /\ Kind(p + 1) = "<" -> MapType(p + 2)
    [] OTHER -> Then(QualifiedName(p), LAMBDA x : Got(Named(Joined(x.node)), x.pos))

-----------------------------------------------------------------------------
(* Expressions.                                                            *)

RECURSIVE Binary(_, _), MoreBinary(_, _, _), Unary(_), Postfix(_, _), Items(_, _, _)

Expression(p) == Binary(1, p)

\* name `:` what Parse makes of the rest
Labelled(kind, code, colon, p, Parse(_), Node(_, _)) ==
  Then(Consume(kind, code, p), LAMBDA x :
  Then(Consume(":", colon, x.pos), LAMBDA y :
  Then(Parse(y.pos), LAMBDA z : Got(Node(x.node, z.node), z.pos))))

\* Lists: the token that ends one, the code if it is missing, and whether a
\* comma may stand before it.
List(closer, code, trailing) == [closer |-> closer, code |-> code, trailing |-> trailing]
Lists == [
  argument  |-> List(")", "PAR019", FALSE),
  element   |-> List("]", "PAR130", TRUE),
  field     |-> List("}", "PAR113", TRUE),
  entry     |-> List("}", "PAR153", TRUE),
  parameter |-> List(")", "PAR010", FALSE),
  literal   |-> List(")", "PAR163", FALSE)]

AnnotationArgument(p) ==
  IF Kind(p) \in {"string", "integer", "boolean"} THEN Got(Text(p), p + 1) ELSE Bad("PAR164", p)

Item(what, p) ==
  CASE what \in {"argument", "element"} -> Expression(p)
    [] what = "field"     -> Labelled("name", "PAR111", "PAR112", p, Expression, FieldInit)
    [] what = "entry"     -> Labelled("string", "PAR151", "PAR152", p, Expression, Entry)
    [] what = "parameter" -> Labelled("name", "PAR020", "PAR021", p, TypeName, Param)
    [] what = "literal"   -> AnnotationArgument(p)

\* Mutant: a comma between items may be left out.
ItemsWithoutCommas(what, before, p) ==
  Then(Item(what, p), LAMBDA x :
    LET all  == Append(before, x.node)
        next == IF Kind(x.pos) = "," THEN x.pos + 1 ELSE x.pos
    IN  IF Kind(next) = Lists[what].closer \/ AtEnd(next) THEN Got(all, next) ELSE Items(what, all, next))

Items(what, before, p) ==
  Then(Item(what, p), LAMBDA x :
    LET all == Append(before, x.node)
    IN  CASE Kind(x.pos) # "," -> Got(all, x.pos)
          [] Kind(x.pos) = "," /\ Lists[what].trailing /\ Kind(x.pos + 1) = Lists[what].closer ->
               Got(all, x.pos + 1)
          [] OTHER -> Items(what, all, x.pos + 1))

\* The rest of a list, from after the token that opens it.
Listed(what, p) ==
  Then(IF Kind(p) = Lists[what].closer THEN Got(<<>>, p) ELSE Items(what, <<>>, p), LAMBDA x :
  Then(Consume(Lists[what].closer, Lists[what].code, x.pos), LAMBDA y : Got(x.node, y.pos)))

\* `{` after a name always begins a literal.
CallOrName(p) ==
  Then(QualifiedName(p), LAMBDA x :
    CASE Kind(x.pos) = "{" /\ x.node = <<"map">> ->
           Then(Listed("entry", x.pos + 1), LAMBDA y : Got(MapOf(y.node), y.pos))
      [] Kind(x.pos) = "{" /\ x.node # <<"map">> ->
           Then(Listed("field", x.pos + 1), LAMBDA y : Got(StructOf(Joined(x.node), y.node), y.pos))
      [] Kind(x.pos) = "(" ->
           Then(Listed("argument", x.pos + 1), LAMBDA y : Got(CallOf(x.node, y.node), y.pos))
      [] OTHER -> Got(Path(x.node), x.pos))

Primary(p) ==
  CASE Kind(p) = "string"  -> Got(S(Text(p)), p + 1)
    [] Kind(p) = "integer" -> Got(I(Text(p)), p + 1)
    [] Kind(p) = "boolean" -> Got(B(Text(p)), p + 1)
    [] Kind(p) = "["       -> Then(Listed("element", p + 1), LAMBDA x : Got(Arr(x.node), x.pos))
    [] Kind(p) = "name"    -> CallOrName(p)
    [] Kind(p) = "("       -> Then(Expression(p + 1), LAMBDA x :
                              Then(Consume(")", "PAR090", x.pos), LAMBDA y : Got(x.node, y.pos)))
    [] OTHER               -> Bad("PAR018", p)

Postfix(object, p) ==
  CASE Kind(p) = "." -> Then(Consume("name", "PAR120", p + 1), LAMBDA x :
                             Postfix(Fld(object, x.node), x.pos))
    [] Kind(p) = "[" -> Then(Expression(p + 1), LAMBDA x :
                        Then(Consume("]", "PAR131", x.pos), LAMBDA y :
                             Postfix(Idx(object, x.node), y.pos)))
    [] OTHER         -> Got(object, p)

Unary(p) ==
  CASE Kind(p) = "!" -> Then(Unary(p + 1), LAMBDA x : Got(Not(x.node), x.pos))
    [] Kind(p) = "-" -> Then(Unary(p + 1), LAMBDA x : Got(Neg(x.node), x.pos))
    [] OTHER         -> Then(Primary(p), LAMBDA x : Postfix(x.node, x.pos))

\* From parseLogicalOr to parseFactor, the loosest first.
Levels == << {"||"}, {"&&"}, {"==", "!="}, {"<", "<=", ">", ">="}, {"+", "-"}, {"*", "/", "%"} >>

Operation(op, left, right) ==
  CASE op = "&&" -> And(left, right)
    [] op = "||" -> Or(left, right)
    [] OTHER     -> Bin(left, op, right)

Operand(level, p) == IF level = Len(Levels) THEN Unary(p) ELSE Binary(level + 1, p)

\* Mutant: the rest of the operations of a level is the right operand.
MoreBinaryToTheRight(level, left, p) ==
  IF Kind(p) \notin Levels[level] THEN Got(left, p)
  ELSE Then(Binary(level, p + 1), LAMBDA x : Got(Operation(Kind(p), left, x.node), x.pos))

MoreBinary(level, left, p) ==
  IF Kind(p) \notin Levels[level] THEN Got(left, p)
  ELSE Then(Operand(level, p + 1), LAMBDA x : MoreBinary(level, Operation(Kind(p), left, x.node), x.pos))

Binary(level, p) == Then(Operand(level, p), LAMBDA x : MoreBinary(level, x.node, x.pos))

-----------------------------------------------------------------------------
(* Statements without a body.                                              *)

ReturnStatement(p) ==
  IF Kind(p + 1) = ";" THEN Got(RetVoid, p + 2)
  ELSE Ended(Then(Expression(p + 1), LAMBDA x : Got(Ret(x.node), x.pos)), "PAR016")

VariableDeclaration(p) ==
  Ended(Then(Consume("name", "PAR030", p + 1), LAMBDA name :
        Then(Consume(":", "PAR031", name.pos), LAMBDA colon :
        Then(TypeName(colon.pos), LAMBDA type :
        Then(Consume("=", "PAR032", type.pos), LAMBDA equal :
        Then(Expression(equal.pos), LAMBDA x :
             Got(Variable(Kind(p) = "var", name.node, type.node, x.node), x.pos)))))), "PAR033")

\* The target is looked at when all of the assignment has been read.
Assignment(p, target, value) ==
  CASE target.e = "name" /\ Len(target.path) = 1 -> Got(Set(target.path[1], value.node), value.pos)
    [] target.e = "field" -> Got(SetF(target, value.node), value.pos)
    [] target.e = "index" -> Got(SetI(target, value.node), value.pos)
    [] OTHER -> [Bad("PAR121", Min({q \in p .. value.pos : Kind(q) # "("})) EXCEPT !.pos = value.pos]

ExpressionOrAssignment(p) ==
  Then(Expression(p), LAMBDA x :
    IF Kind(x.pos) = "="
    THEN Then(Ended(Expression(x.pos + 1), "PAR042"), LAMBDA value : Assignment(p, x.node, value))
    ELSE Ended(Got(Do(x.node), x.pos), "PAR017"))

SimpleStatement(p) ==
  CASE Kind(p) = "return"         -> ReturnStatement(p)
    [] Kind(p) \in {"let", "var"} -> VariableDeclaration(p)
    [] Kind(p) = "break"          -> Ended(Got(Break, p + 1), "PAR080")
    [] Kind(p) = "continue"       -> Ended(Got(Continue, p + 1), "PAR081")
    [] OTHER                      -> ExpressionOrAssignment(p)

-----------------------------------------------------------------------------
(* Declarations and blocks, up to their `{`.  A block under way is what is *)
(* known of it, with the statements (or fields) read so far.               *)

ModuleDeclaration(p) == Ended(QualifiedName(p + 1), "PAR003")

\* Mutant: no alias.
UseWithoutAlias(p) == Ended(Then(QualifiedName(p + 1), LAMBDA x : Got(Use(x.node), x.pos)), "PAR006")

UseDeclaration(p) ==
  Ended(Then(QualifiedName(p + 1), LAMBDA x :
    IF Kind(x.pos) # "as" THEN Got(Use(x.node), x.pos)
    ELSE Then(Consume("name", "PAR005", x.pos + 1), LAMBDA y : Got(UseAs(x.node, y.node), y.pos))), "PAR006")

Annotation(p) ==
  Then(QualifiedName(p + 1), LAMBDA x :
    IF Kind(x.pos) # "(" THEN Got([name |-> x.node, args |-> <<>>, at |-> p], x.pos)
    ELSE Then(Listed("literal", x.pos + 1), LAMBDA y :
              Got([name |-> x.node, args |-> y.node, at |-> p], y.pos)))

FunctionHeader(p) ==
  Then(Consume("name", "PAR008", p + 1), LAMBDA name :
  Then(Consume("(", "PAR009", name.pos), LAMBDA paren :
  Then(Listed("parameter", paren.pos), LAMBDA params :
  Then(Consume(":", "PAR011", params.pos), LAMBDA colon :
  Then(TypeName(colon.pos), LAMBDA type :
  Then(Consume("{", "PAR012", type.pos), LAMBDA brace :
       Got([block |-> "fn", name |-> name.node, params |-> params.node, returns |-> type.node,
            annotations |-> annotations, read |-> <<>>], brace.pos)))))))

StructHeader(p) ==
  Then(Consume("name", "PAR101", p + 1), LAMBDA name :
  Then(Consume("{", "PAR102", name.pos), LAMBDA brace :
       Got([block |-> "struct", name |-> name.node, read |-> <<>>], brace.pos)))

StructField(p) == Ended(Labelled("name", "PAR104", "PAR105", p, TypeName, Param), "PAR106")

\* `(` condition `)` `{`
Guarded(p, paren, close, brace, block) ==
  Then(Consume("(", paren, p + 1), LAMBDA x :
  Then(Expression(x.pos), LAMBDA cond :
  Then(Consume(")", close, cond.pos), LAMBDA y :
  Then(Consume("{", brace, y.pos), LAMBDA z :
       Got([block |-> block, cond |-> cond.node, then |-> <<>>, read |-> <<>>], z.pos)))))

BlockHeader(p) ==
  IF Kind(p) = "if" THEN Guarded(p, "PAR050", "PAR051", "PAR052", "if")
                    ELSE Guarded(p, "PAR070", "PAR071", "PAR072", "while")

-----------------------------------------------------------------------------
(* The machine.                                                            *)

Nothing == [uses |-> <<>>, structs |-> <<>>, functions |-> <<>>, annotations |-> <<>>]

Init ==
  /\ source \in DOMAIN Input
  /\ pos = 1
  /\ phase = "module"
  /\ annotations = <<>>
  /\ open = <<>>
  /\ syncing = FALSE
  /\ diagnostics = {}
  /\ program = Nothing

Report(codes) == diagnostics' = diagnostics \cup codes

\* r was parsed, or what it reports is reported; no recovery.
Accept(r) ==
  /\ pos' = r.pos
  /\ Report(IF r.ok THEN {} ELSE {<<r.code, r.at>>})

\* The loop that wanted r calls sync() when it failed.
AcceptOrSync(r) == Accept(r) /\ syncing' = ~r.ok

ParseModule ==
  /\ phase = "module"
  /\ Accept(IF Kind(pos) = "module" THEN ModuleDeclaration(pos) ELSE Got({}, pos))
  /\ phase' = "uses"
  /\ UNCHANGED <<source, annotations, open, syncing, program>>

\* Uses come first: a later one is no declaration.
ParseUse ==
  /\ phase = "uses"
  /\ IF Kind(pos) # "use" THEN phase' = "items" /\ UNCHANGED <<pos, diagnostics, program>>
     ELSE LET r == UseDeclaration(pos)
          IN  /\ Accept(r)
              /\ program' = IF r.ok THEN [program EXCEPT !.uses = Append(@, r.node)] ELSE program
              /\ UNCHANGED phase
  /\ UNCHANGED <<source, annotations, open, syncing>>

TopLevel == open = <<>> /\ ~syncing

ParseAnnotation ==
  /\ TopLevel /\ phase = "items" /\ Kind(pos) = "@"
  /\ LET r == Annotation(pos)
     IN  /\ AcceptOrSync(r)
         /\ annotations' = IF r.ok THEN Append(annotations, r.node) ELSE annotations
         /\ phase' = IF r.ok THEN "items" ELSE "declaration"
  /\ UNCHANGED <<source, open, program>>

AtDeclaration ==
  /\ TopLevel
  /\ \/ phase = "declaration"
     \/ phase = "items" /\ Kind(pos) # "@" /\ (annotations # <<>> \/ ~AtEnd(pos))

\* pub is skipped.
Public(p) == IF Kind(p) = "pub" THEN p + 1 ELSE p

\* A declaration that fails before its body leaves the parser where it failed.
OpenDeclaration(parsed, misplaced) ==
  /\ \E r \in {parsed} :
       /\ pos' = r.pos
       /\ open' = IF r.ok THEN <<r.node>> ELSE <<>>
       /\ Report(misplaced \cup IF r.ok THEN {} ELSE {<<r.code, r.at>>})
  /\ phase' = "items"
  /\ annotations' = <<>>
  /\ UNCHANGED <<source, syncing, program>>

OpenFunction ==
  /\ AtDeclaration /\ Kind(Public(pos)) = "fn"
  /\ OpenDeclaration(FunctionHeader(Public(pos)), {})

OpenStruct ==
  /\ AtDeclaration /\ Kind(Public(pos)) = "struct"
  /\ OpenDeclaration(StructHeader(Public(pos)),
                     {<<"PAR160", annotations[i].at>> : i \in DOMAIN annotations \cap {1}})

NoDeclaration ==
  /\ AtDeclaration /\ Kind(Public(pos)) \notin {"fn", "struct"}
  /\ Report({<<IF annotations = <<>> THEN "PAR001" ELSE "PAR161", Public(pos)>>})
  /\ pos' = Public(pos)
  /\ phase' = "items"
  /\ annotations' = <<>>
  /\ syncing' = TRUE
  /\ UNCHANGED <<source, open, program>>

InBody(blocks) == open # <<>> /\ ~syncing /\ Last(open).block \in blocks
CodeBlocks == {"fn", "if", "else", "while"}

\* node is read into the innermost block of blocks.
Reading(blocks, node) == Append(Front(blocks), [Last(blocks) EXCEPT !.read = Append(@, node)])

ReadOne(parsed) ==
  /\ \E r \in {parsed} :
       /\ AcceptOrSync(r)
       /\ open' = IF r.ok THEN Reading(open, r.node) ELSE open
  /\ UNCHANGED <<source, phase, annotations, program>>

ParseField     == InBody({"struct"}) /\ Kind(pos) \notin {"}", "end"} /\ ReadOne(StructField(Public(pos)))
ParseStatement == InBody(CodeBlocks) /\ Kind(pos) \notin {"}", "end", "if", "while"} /\ ReadOne(SimpleStatement(pos))

OpenBlock ==
  /\ InBody(CodeBlocks) /\ Kind(pos) \in {"if", "while"}
  /\ \E r \in {BlockHeader(pos)} :
        /\ AcceptOrSync(r)
        /\ open' = IF r.ok THEN Append(open, r.node) ELSE open
  /\ UNCHANGED <<source, phase, annotations, program>>

\* Mutant: the annotations of a function stay behind.
DeclaredWithoutAnnotations(b) ==
  IF b.block = "fn"
  THEN [program EXCEPT !.functions = Append(@, Function(b.name, b.params, b.returns, b.read))]
  ELSE [program EXCEPT !.structs = Append(@, StructDecl(b.name, b.read))]

\* The block read, as a declaration or a statement of the one around it.
Declared(b) ==
  IF b.block = "fn"
  THEN [program EXCEPT !.functions   = Append(@, Function(b.name, b.params, b.returns, b.read)),
                       !.annotations = Append(@, b.annotations)]
  ELSE [program EXCEPT !.structs = Append(@, StructDecl(b.name, b.read))]

BlockStatement(b) ==
  CASE b.block = "while" -> While(b.cond, b.read)
    [] b.block = "if"    -> If(b.cond, b.read, <<>>)
    [] b.block = "else"  -> If(b.cond, b.then, b.read)

CloseDeclaration ==
  /\ InBody({"fn", "struct"}) /\ Kind(pos) = "}"
  /\ program' = Declared(open[1])
  /\ open' = <<>>
  /\ pos' = pos + 1
  /\ UNCHANGED <<source, phase, annotations, syncing, diagnostics>>

\* else keeps the block open; without its `{` the whole if is lost.
CloseBlock ==
  /\ InBody(CodeBlocks \ {"fn"}) /\ Kind(pos) = "}"
  /\ LET b      == Last(open)
         toElse == b.block = "if" /\ Kind(pos + 1) = "else"
         brace  == Consume("{", "PAR054", pos + 2)
     IN  \/ /\ toElse
            /\ AcceptOrSync(brace)
            /\ open' = IF brace.ok
                       THEN Append(Front(open), [b EXCEPT !.block = "else", !.then = b.read, !.read = <<>>])
                       ELSE Front(open)
         \/ /\ ~toElse
            /\ pos' = pos + 1
            /\ open' = Reading(Front(open), BlockStatement(b))
            /\ UNCHANGED <<syncing, diagnostics>>
  /\ UNCHANGED <<source, phase, annotations, program>>

UnclosedCode ==
  [fn |-> "PAR013", struct |-> "PAR103", if |-> "PAR053", else |-> "PAR055", while |-> "PAR073"]

\* The file ends inside a block: it is dropped.
Unclosed ==
  /\ InBody(CodeBlocks \cup {"struct"}) /\ AtEnd(pos)
  /\ Report({<<UnclosedCode[Last(open).block], pos>>})
  /\ open' = Front(open)
  /\ UNCHANGED <<source, pos, phase, annotations, syncing, program>>

\* Mutants: only the end of a block stops it; it stops before the token that
\* ends a statement.
StopsAfterBlock(p) ==
  AtEnd(p) \/ (p > 1 /\ Kind(p - 1) = "}") \/ Kind(p) \in {"fn", "struct", "use", "module", "pub"}
StopsBefore(p) == AtEnd(p) \/ Kind(p) \in {";", "}", "fn", "struct", "use", "module", "pub"}

\* Where sync() stops, at once if it may.
Stops(p) ==
  \/ AtEnd(p)
  \/ p > 1 /\ Kind(p - 1) \in {";", "}"}
  \/ Kind(p) \in {"fn", "struct", "use", "module", "pub"}

Sync ==
  /\ syncing
  /\ pos' = Min({p \in pos .. Len(Tokens) : Stops(p)})
  /\ syncing' = FALSE
  /\ UNCHANGED <<source, phase, annotations, open, diagnostics, program>>

Finish ==
  /\ TopLevel /\ phase = "items" /\ AtEnd(pos) /\ annotations = <<>>
  /\ phase' = "done"
  /\ UNCHANGED <<source, pos, annotations, open, syncing, diagnostics, program>>

Next ==
  \/ ParseModule \/ ParseUse \/ ParseAnnotation
  \/ OpenFunction \/ OpenStruct \/ NoDeclaration
  \/ ParseField \/ ParseStatement \/ OpenBlock
  \/ CloseDeclaration \/ CloseBlock \/ Unclosed
  \/ Sync \/ Finish

Spec == Init /\ [][Next]_vars /\ WF_vars(Next)
=============================================================================
