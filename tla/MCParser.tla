------------------------------ MODULE MCParser ------------------------------
(***************************************************************************)
(* The parser on the programs of Programs as they are written, on every    *)
(* grouping of two operators, on programs with one statement broken, and   *)
(* on a program with one token left out, doubled or swapped with the next. *)
(***************************************************************************)
EXTENDS Parser, Programs

P == INSTANCE Printing

CONSTANT Origin   \* file -> where it comes from: [of, program, at]

Table(f) == f @@ f
End == <<[kind |-> "end", text |-> "end"]>>
Plainly(prog) == P!ProgramTokens(prog, [i \in DOMAIN prog.functions |-> <<>>]) \o End

File(tokens, of, prog, at) == [tokens |-> tokens, origin |-> [of |-> of, program |-> prog, at |-> at]]

\* Groupings: a (o1) b (o2) c either way, and the unary and postfix operators.
Binaries == <<"||", "&&", "==", "!=", "<", "<=", ">", ">=", "+", "-", "*", "/", "%">>
Join(op, l, r) == Operation(op, l, r)
Grouped(o1) ==
  FlattenSeq([j \in DOMAIN Binaries |->
    <<Join(Binaries[j], Join(o1, N("a"), N("b")), N("c")),
      Join(o1, N("a"), Join(Binaries[j], N("b"), N("c")))>>])
    \o <<Neg(Join(o1, N("a"), N("b"))), Join(o1, Neg(N("a")), Not(N("b"))), Not(Neg(Fld(N("a"), "x"))),
         Fld(Join(o1, N("a"), N("b")), "x"), Idx(Join(o1, N("a"), N("b")), Join(o1, N("c"), N("d"))),
         Join(o1, Idx(CallF("f", <<Neg(N("a"))>>), N("b")), Fld(Neg(N("b")), "y"))>>
Grouping(o1) ==
  LET exprs == Grouped(o1)
  IN  Program(<<>>, <<>>, <<Function("g", <<>>, IntT, [i \in DOMAIN exprs |-> Ret(exprs[i])])>>)

Correct ==
  LET sources == Sources \o [j \in DOMAIN Binaries |-> Grouping(Binaries[j])]
  IN  [k \in DOMAIN sources |-> File(Plainly(sources[k]), "correct", sources[k], 0)]

\* A statement in each place it can have in a body.
Places == 5
Holding(place, stmts) ==
  LET at(p) == IF place = p THEN stmts ELSE <<>>
  IN  Program(<<Use(<<"std", "int">>)>>, <<>>,
        <<Function("f", <<>>, VoidT, at(1)),
          Function("g", <<Param("x", IntT)>>, IntT,
            at(2) \o <<Var("i", IntT, I(0)),
                       While(Bin(N("i"), "<", N("x")), <<Inc("i")>> \o at(3)),
                       If(N("b"), <<Break>>, at(4) \o <<Continue>>)>>
                  \o at(5) \o <<Ret(N("i"))>>)>>)

Ident(x) == P!Ident(x)
Word(w) == P!Word(w)
Num == P!Lit("integer", 1)

Broken == <<
  <<Word("let"), Ident("y"), Ident("int"), Word("="), Num, Word(";")>>,
  <<Word("let"), Ident("y"), Word(":"), Ident("int"), Num, Word(";")>>,
  <<Word("var"), Ident("y"), Word(":"), Word("["), Ident("int"), Word("="), Num, Word(";")>>,
  <<Word("var"), Ident("m"), Word(":"), Ident("map"), Word("<"), Ident("string"), Word(">"), Word("="), Num, Word(";")>>,
  <<Ident("y"), Word("="), Word(";")>>,
  <<Ident("y"), Word("="), Word("("), Num, Word(";")>>,
  <<Ident("y"), Ident("y"), Word(";")>>,
  <<Ident("f"), Word("("), Num, Word(","), Word(";")>>,
  <<Ident("f"), Word("("), Num, Word(")"), Word("="), Num, Word(";")>>,
  <<Ident("f"), Word("::"), Word("("), Word(")"), Word(";")>>,
  <<Word("return"), Num, Word("+"), Word(";")>>,
  <<Word("break"), Num, Word(";")>>,
  <<Ident("v"), Word("["), Num, Word("="), Num, Word(";")>>,
  <<Ident("y"), Word("."), Word("="), Num, Word(";")>>,
  <<Word("["), Num, Num, Word("]"), Word(";")>>,
  <<Word("-"), Word(";")>> >>

\* The tokens with the statement `?;` replaced.
Replacing(tokens, by) ==
  LET i == CHOOSE k \in DOMAIN tokens : tokens[k] = Ident("?")
  IN  SubSeq(tokens, 1, i - 1) \o by \o SubSeq(tokens, i + 2, Len(tokens))
Mark == <<Do(N("?"))>>
BrokenOnce ==
  FlattenSeq([place \in 1 .. Places |->
    [k \in DOMAIN Broken |->
       File(Replacing(Plainly(Holding(place, Mark)), Broken[k]), "broken", Holding(place, <<>>), 0)]])

\* One of everything, with annotations.
Sample ==
  Program(<<Use(<<"std", "console">>), UseAs(<<"std", "array">>, "a")>>, <<StructDecl("P", <<Param("x", ArrayOf(IntT))>>)>>,
    <<Function("f", <<Param("p", Named("P")), Param("m", MapTo(StrT, IntT))>>, VoidT,
        <<Var("i", IntT, Neg(I(1))),
          While(And(Bin(N("i"), "<", CallB("a", "len", <<Fld(N("p"), "x")>>)), Not(B(FALSE))),
                <<SetI(Idx(N("m"), S("k")), Idx(Fld(N("p"), "x"), N("i"))), Inc("i")>>),
          If(Bin(N("i"), "==", I(1)), <<RetVoid>>, <<SetF(Fld(N("p"), "x"), Arr(<<I(1), I(2)>>)), Say(N("i"))>>)>>),
      Function("g", <<>>, IntT,
        <<Do(CallF("f", <<StructOf("P", <<FieldInit("x", Arr(<<>>))>>), MapOf(<<Entry("k", I(1))>>)>>)),
          Ret(Bin(Bin(I(1), "+", I(2)), "*", I(3)))>>)>>)
Routed == <<<<Word("@"), Ident("http"), Word("::"), Ident("get"), Word("("), P!Lit("string", "/"), Word(")")>>, <<Word("pub")>>>>
SampleTokens == P!ProgramTokens(Sample, Routed) \o End

Without(tokens, i) == SubSeq(tokens, 1, i - 1) \o SubSeq(tokens, i + 1, Len(tokens))
Twice(tokens, i)   == SubSeq(tokens, 1, i) \o SubSeq(tokens, i, Len(tokens))
Swapped(tokens, i) == [tokens EXCEPT ![i] = tokens[i + 1], ![i + 1] = tokens[i]]
Mistaken ==
  LET tokens == SampleTokens
      last   == Len(tokens) - 1
  IN  [i \in 1 .. last |-> File(Without(tokens, i), "mistaken", <<>>, i)]
        \o [i \in 1 .. last |-> File(Twice(tokens, i), "mistaken", <<>>, i + 1)]
        \o [i \in 1 .. last - 1 |-> File(Swapped(tokens, i), "mistaken", <<>>, i)]

Files  == Correct \o BrokenOnce \o Mistaken
Inputs == LET files == Files IN Table([k \in DOMAIN files |-> files[k].tokens])
Origins == LET files == Files IN Table([k \in DOMAIN files |-> files[k].origin])
MCInput  == LET table == Inputs IN table
MCOrigin == LET table == Origins IN table

-----------------------------------------------------------------------------

Done == phase = "done"
Parsed == Program(program.uses, program.structs, program.functions)

\* A token a file may have or not have: a comma before a closing brace or
\* bracket, and grouping.
Kept(tokens) ==
  LET kept(i) == /\ tokens[i].kind \notin {"(", ")", "end", "pub"}
                 /\ tokens[i].kind = "," => tokens[i + 1].kind \notin {"}", "]"}
      places  == SelectSeq([i \in DOMAIN tokens |-> i], kept)
  IN  [k \in DOMAIN places |-> tokens[places[k]]]

AnnotationTokens(as) ==
  FlattenSeq([i \in DOMAIN as |->
    <<Word("@")>> \o P!PathTokens(as[i].name) \o
      P!Between(",", [j \in DOMAIN as[i].args |-> <<P!Lit("string", as[i].args[j])>>])])

TypeOK ==
  /\ pos \in 1 .. Len(Tokens)
  /\ \A d \in diagnostics : d[2] \in 1 .. pos
  /\ open # <<>> => phase = "items" /\ open[1].block \in {"fn", "struct"}
  /\ \A k \in 2 .. Len(open) : open[k].block \in {"if", "else", "while"}
  /\ Len(program.annotations) = Len(program.functions)

\* A correct file parses to what it says, grouping included.
ReadsBack == Done /\ Origin[source].of = "correct" => diagnostics = {} /\ Parsed = Origin[source].program

\* A changed file that still parses without a diagnostic has been read to the last
\* token: its tree, written out, is the file again.
NothingDropped ==
  Done /\ diagnostics = {} /\ Origin[source].of = "mistaken" =>
    Kept(P!ProgramTokens(Parsed, [i \in DOMAIN program.annotations |->
                                    AnnotationTokens(program.annotations[i])])) = Kept(Tokens)

\* Nothing is reported before the place where the file went wrong.
NotBeforeTheMistake == \A d \in diagnostics : d[2] >= Origin[source].at

\* A statement that fails after its first token and ends with `;` costs one
\* diagnostic, and nothing but itself.
RecoversAtSemicolon ==
  Done /\ Origin[source].of = "broken" => Cardinality(diagnostics) = 1 /\ Parsed = Origin[source].program

\* Correct files, and files with one such statement, are parsed to the end.
GoodFilesEnd == Origin[source].of \in {"correct", "broken"} ~> Done
=============================================================================
