--------------------------- MODULE MCAnalyzerHoles ---------------------------
(***************************************************************************)
(* One program that the analyzer lets through, with what the documentation *)
(* says is checked and the code does not look at.                          *)
(***************************************************************************)
EXTENDS MCDriver

\* fn show(s: string): void                fn nothing(): void
Shows   == Function("show", <<Param("s", StrT)>>, VoidT, <<Say(N("s"))>>)
Nothing == Function("nothing", <<>>, VoidT, <<RetVoid>>)

\* An int function that returns a string: the local hides the parameter, and
\* its type is taken from the parameter.
Hides == Function("hides", <<Param("n", IntT)>>, IntT,
                  <<If(B(TRUE), <<Let("n", StrT, S("a")), Ret(N("n"))>>, <<>>), Ret(I(0))>>)

Bag == StructDecl("Bag", <<Param("items", ArrayOf(IntT))>>)

LetThrough ==
  Program(<<Use(<<"std", "console">>)>>, <<Bag>>,
    <<Shows, Nothing, Hides,
      Function("main", <<>>, IntT,
        <<Do(CallF("show", <<I(1)>>)),
          Say(CallF("hides", <<I(2)>>)),
          Say(CallF("nothing", <<>>)),
          Var("bag", Named("Bag"), StructOf("Bag", <<FieldInit("items", Arr(<<I(3)>>))>>)),
          SetI(Idx(Fld(N("bag"), "items"), I(0)), I(4)),
          Say(Idx(Fld(N("bag"), "items"), I(0))),
          Let("f", IntT, N("show")),
          Do(CallOf(<<"console", "println", "twice">>, <<I(5)>>)),
          Ret(I(0))>>)>>)

HoleReports == ReportsOf(<<LetThrough>>)
HoleCode    == CodeOf(<<LetThrough>>, {1})
HoleStacks  == LET modules == HoleCode IN StacksOf(modules)

MCHoleValue   == MCValue \cup [struct : [type : {"Bag"}, fields : [{"items"} -> [array : Seq(Ints)]]]]
MCHoleReports == LET table == HoleReports IN table
MCHoleCode    == LET table == HoleCode IN table
MCHoleStacks  == LET table == HoleStacks IN table
=============================================================================
