------------------------------ MODULE Programs ------------------------------
(***************************************************************************)
(* Small Velo programs, as the syntax trees the lowerer takes.  Every one  *)
(* of them passes the semantic analyzer; together they use every kind of   *)
(* expression and statement, and nest the ones that interact: jumps out of *)
(* loops, calls with operands pending, errors in callees, shadowing.       *)
(***************************************************************************)
EXTENDS Syntax, SequencesExt

PointT == Named("Point")
BoxT   == Named("Box")
Point(x, y) == StructOf("Point", <<FieldInit("x", x), FieldInit("y", y)>>)
Box(p)      == StructOf("Box", <<FieldInit("at", p)>>)

Say(x) == Do(CallB("console", "println", <<x>>))
Inc(x) == Set(x, Bin(N(x), "+", I(1)))

-----------------------------------------------------------------------------
(* Functions the programs call.                                            *)

\* bool functions that show that they ran
Yes == Function("yes", <<>>, BoolT, <<Say(S("a")), Ret(B(TRUE))>>)
No  == Function("no", <<>>, BoolT, <<Say(S("b")), Ret(B(FALSE))>>)

Add == Function("add", <<Param("a", IntT), Param("b", IntT)>>, IntT, <<Ret(Bin(N("a"), "+", N("b")))>>)

\* recursion with an operand pending in every caller
Fact == Function("fact", <<Param("n", IntT)>>, IntT,
  <<If(Bin(N("n"), "<=", I(1)), <<Ret(I(1))>>, <<>>),
    Ret(Bin(N("n"), "*", CallF("fact", <<Bin(N("n"), "-", I(1))>>)))>>)

\* a copy of a parameter changed: the caller's value must not be
Bump == Function("bump", <<Param("p", PointT)>>, IntT,
  <<Var("c", PointT, N("p")), SetF(Fld(N("c"), "x"), I(5)), Ret(Fld(N("c"), "x"))>>)
Fill == Function("fill", <<Param("q", ArrayOf(IntT))>>, ArrayOf(IntT),
  <<Var("c", ArrayOf(IntT), N("q")), SetI(Idx(N("c"), I(0)), I(6)), Ret(N("c"))>>)

\* void functions: one falls off its end, one returns early
Log   == Function("log", <<Param("n", IntT)>>, VoidT, <<Say(N("n"))>>)
Maybe == Function("maybe", <<Param("n", IntT)>>, VoidT,
  <<If(Bin(N("n"), ">", I(2)), <<RetVoid>>, <<Say(N("n"))>>), Say(S("a"))>>)

\* returns from inside a loop inside a branch
Find == Function("find", <<Param("v", ArrayOf(IntT)), Param("n", IntT)>>, IntT,
  <<Var("i", IntT, I(0)),
    While(Bin(N("i"), "<", CallB("array", "len", <<N("v")>>)),
          <<If(Bin(Idx(N("v"), N("i")), "==", N("n")), <<Ret(N("i"))>>, <<>>), Inc("i")>>),
    Ret(Bin(I(0), "-", I(1)))>>)

\* fails with operands pending here and in the caller
Crash == Function("crash", <<Param("n", IntT)>>, IntT,
  <<Ret(Bin(N("n"), "+", Bin(I(1), "/", Bin(N("n"), "-", N("n")))))>>)

-----------------------------------------------------------------------------
(* Templates.                                                              *)

IntExprs == <<
  Bin(Bin(Bin(I(0), "-", I(7)), "-", I(1)), "/", Bin(I(0), "-", I(1))),
  Bin(Bin(Bin(I(0), "-", I(7)), "-", I(1)), "%", Bin(I(0), "-", I(1))),
  Bin(Bin(I(0), "-", I(7)), "/", I(2)),
  Bin(Bin(I(0), "-", I(7)), "%", I(3)),
  Bin(Bin(I(0), "-", I(7)), "-", I(4)),
  Bin(I(7), "+", I(1)),
  Bin(Neg(I(7)), "-", I(2)),
  Bin(Bin(Neg(I(7)), "-", I(1)), "/", Neg(I(1))),
  Neg(Bin(Neg(I(7)), "-", I(1))),
  Bin(Neg(I(7)), "/", I(2)),
  Bin(Neg(I(7)), "%", I(3)),
  Bin(I(5), "%", I(0)),
  Bin(Bin(I(2), "*", I(3)), "-", Bin(I(4), "-", I(1))),
  Bin(I(1), "+", CallF("add", <<I(2), CallF("add", <<I(3), Neg(I(4))>>)>>)),
  Bin(I(3), "-", CallF("fact", <<I(3)>>)),
  Bin(I(2), "+", CallF("crash", <<I(3)>>)),
  CallF("bump", <<Point(I(1), I(2))>>),
  CallF("find", <<Arr(<<I(3), I(4), I(5)>>), I(5)>>),
  CallF("find", <<Arr(<<I(3)>>), I(4)>>),
  Idx(CallF("fill", <<Arr(<<I(1)>>)>>), I(0)),
  Idx(Idx(Arr(<<Arr(<<I(1)>>), Arr(<<I(2), I(3)>>)>>), I(1)), I(1)),
  Idx(Arr(<<I(1), I(2)>>), I(2)),
  Idx(Arr(<<I(1)>>), Neg(I(1))),
  Idx(MapOf(<<Entry("b", I(1)), Entry("a", I(2))>>), S("a")),
  Idx(MapOf(<<Entry("a", I(1))>>), S("b")),
  Bin(CallB("map", "len", <<MapOf(<<Entry("a", I(1)), Entry("b", I(2))>>)>>), "+", I(1)),
  Fld(Fld(Box(Point(I(1), CallF("fact", <<I(2)>>))), "at"), "y"),
  CallB("string", "len", <<CallB("int", "toString", <<Neg(I(5))>>)>>),
  CallB("string", "len", <<CallB("bool", "toString", <<Bin(I(1), "<", I(2))>>)>>),
  Bin(CallF("add", <<CallF("fact", <<I(3)>>), CallF("bump", <<Point(I(1), I(1))>>)>>), "-",
      CallF("find", <<CallF("fill", <<Arr(<<I(1), I(2)>>)>>), I(6)>>)) >>

BoolExprs == <<
  And(CallF("yes", <<>>), CallF("no", <<>>)),
  And(CallF("no", <<>>), CallF("yes", <<>>)),
  Or(CallF("yes", <<>>), CallF("no", <<>>)),
  Or(CallF("no", <<>>), CallF("yes", <<>>)),
  Or(And(CallF("no", <<>>), CallF("yes", <<>>)), And(CallF("yes", <<>>), CallF("yes", <<>>))),
  And(Or(CallF("yes", <<>>), CallF("no", <<>>)), Not(CallF("yes", <<>>))),
  And(Bin(I(2), "<", I(3)), Bin(Bin(I(1), "/", I(0)), "==", I(1))),
  Bin(S("a"), "==", S("b")),
  Bin(B(TRUE), "!=", And(B(TRUE), B(FALSE))),
  Bin(I(2), ">=", CallF("add", <<I(1), I(1)>>)),
  Not(Or(CallF("no", <<>>), And(CallF("yes", <<>>), CallF("no", <<>>)))),
  And(And(CallF("yes", <<>>), CallF("yes", <<>>)), Or(CallF("no", <<>>), CallF("no", <<>>))),
  Bin(Or(CallF("no", <<>>), CallF("yes", <<>>)), "==", And(CallF("yes", <<>>), CallF("no", <<>>))),
  Bin(I(3), "!=", I(3)),
  Bin(I(2), ">", Bin(I(2), "/", Bin(I(1), "-", I(1)))) >>

\* the statements of a loop body, i counted first
LoopBodies == <<
  <<Say(N("i"))>>,
  <<If(Bin(N("i"), "==", I(2)), <<Break>>, <<Say(N("i"))>>), Say(S("a"))>>,
  <<If(Bin(N("i"), "==", I(2)), <<Continue>>, <<>>), Say(N("i"))>>,
  <<If(Bin(N("i"), "==", I(2)), <<Ret(N("i"))>>, <<>>)>>,
  <<If(Bin(N("i"), ">", I(1)), <<If(Bin(N("i"), ">", I(2)), <<Break>>, <<Continue>>)>>, <<Say(S("b"))>>),
    Say(N("i"))>>,
  <<Var("i", IntT, Bin(N("i"), "*", I(2))), Say(N("i"))>>,
  <<Var("j", IntT, I(0)),
    While(Bin(N("j"), "<", N("i")),
          <<Inc("j"), If(Bin(N("j"), "==", I(2)), <<Break>>, <<>>), Say(N("j"))>>),
    If(Bin(N("j"), "==", I(2)), <<Break>>, <<Continue>>),
    Say(S("a"))>>,
  <<Break, Say(N("i"))>>,
  <<Do(CallF("maybe", <<N("i")>>))>>,
  <<Say(Bin(I(4), "/", Bin(I(2), "-", N("i"))))>>,
  \* a loop whose condition skips an operand, left and continued from branches
  <<Var("k", IntT, I(2)),
    While(And(Bin(N("k"), ">", I(0)), CallF("yes", <<>>)),
          <<Set("k", Bin(N("k"), "-", I(1))),
            If(Bin(N("k"), "==", N("i")), <<Continue>>, <<If(Bin(N("i"), ">", I(2)), <<Break>>, <<>>)>>),
            Say(N("k"))>>),
    If(Bin(N("i"), ">=", I(3)), <<Break>>, <<>>)>>,
  \* a loop that never ends by its condition
  <<While(B(TRUE), <<If(CallF("yes", <<>>), <<Break>>, <<Continue>>), Say(I(1))>>)>>,
  <<While(B(TRUE), <<Ret(CallF("add", <<N("i"), I(1)>>))>>)>>,
  \* a name declared in each branch and again after it
  <<If(Bin(N("i"), "<=", I(2)), <<Let("t", IntT, N("i")), Say(N("t"))>>, <<Let("t", IntT, I(7)), Let("u", IntT, N("t")), Say(N("u"))>>),
    Let("t", IntT, I(1)), Say(N("t"))>> >>

\* main bodies of their own
Bodies == <<
  \* aggregates are values: copies do not follow each other
  <<Var("p", PointT, Point(I(1), I(2))), Var("q", PointT, N("p")), SetF(Fld(N("q"), "x"), I(4)),
    Say(N("p")), Do(CallF("bump", <<N("q")>>)), Ret(Fld(N("q"), "x"))>>,
  <<Var("b", BoxT, Box(Point(I(1), I(2)))), Var("p", PointT, Fld(N("b"), "at")), SetF(Fld(N("p"), "x"), I(3)),
    SetF(Fld(Fld(N("b"), "at"), "y"), Fld(N("p"), "x")), Say(N("b")), Ret(Fld(N("p"), "y"))>>,
  <<Var("v", ArrayOf(IntT), Arr(<<I(1), I(2)>>)), Var("w", ArrayOf(IntT), N("v")),
    SetI(Idx(N("w"), I(1)), Bin(Idx(N("w"), I(1)), "+", Idx(N("v"), I(1)))),
    Say(CallF("fill", <<N("v")>>)), Ret(Bin(Idx(N("v"), I(0)), "+", Idx(N("w"), I(1))))>>,
  <<Var("g", ArrayOf(ArrayOf(IntT)), Arr(<<Arr(<<I(1)>>), Arr(<<I(2)>>)>>)),
    SetI(Idx(Idx(N("g"), CallF("add", <<I(0), I(1)>>)), I(0)), CallB("array", "len", <<N("g")>>)),
    Say(N("g")), SetI(Idx(Idx(N("g"), I(1)), I(1)), I(3)), Ret(I(0))>>,
  <<Var("m", MapTo(StrT, IntT), MapOf(<<Entry("a", I(1))>>)), SetI(Idx(N("m"), S("b")), I(2)),
    SetI(Idx(N("m"), S("a")), I(3)), Say(N("m")), Ret(Idx(N("m"), S("b")))>>,
  \* names: shadowing, assignment to an outer name, a slot of a closed scope
  <<Var("x", IntT, I(1)),
    If(B(TRUE), <<Var("x", IntT, Bin(N("x"), "+", I(1))), Inc("x"), Say(N("x"))>>, <<>>),
    Let("y", IntT, N("x")), Inc("x"), Say(N("x")), Ret(N("y"))>>,
  <<Var("x", IntT, I(0)),
    If(B(FALSE), <<Let("y", IntT, I(1)), Set("x", N("y"))>>, <<Let("z", IntT, I(2)), Set("x", N("z"))>>),
    Let("y", IntT, N("x")), Ret(N("y"))>>,
  \* void calls and unused values leave nothing behind
  <<Do(CallF("log", <<I(1)>>)), Do(CallF("add", <<I(1), I(2)>>)), Do(CallF("maybe", <<I(3)>>)),
    Ret(Bin(I(1), "+", CallF("add", <<I(1), I(1)>>)))>>,
  \* every branch returns, code after it is dead
  <<If(CallF("no", <<>>), <<Ret(I(1))>>, <<Ret(I(2))>>), Say(S("a")), Ret(I(3))>>,
  <<Say(CallF("crash", <<I(1)>>)), Ret(I(0))>>,
  \* errors while a target is evaluated or stored
  <<Var("v", ArrayOf(IntT), Arr(<<I(1)>>)), SetI(Idx(N("v"), Neg(I(1))), CallF("add", <<I(1), I(1)>>)), Ret(I(0))>>,
  <<Var("v", ArrayOf(IntT), Arr(<<I(1)>>)), SetI(Idx(N("v"), CallF("crash", <<I(1)>>)), I(2)), Ret(I(0))>>,
  <<Var("m", MapTo(StrT, IntT), MapOf(<<Entry("a", I(1))>>)), Var("c", MapTo(StrT, IntT), N("m")), SetI(Idx(N("c"), S("b")), Idx(N("m"), S("b"))), Ret(I(0))>>,
  \* the old root is visible to the value stored into it
  <<Var("p", PointT, Point(I(1), I(2))), SetF(Fld(N("p"), "x"), CallF("bump", <<N("p")>>)),
    SetF(Fld(N("p"), "y"), Bin(Fld(N("p"), "x"), "+", Fld(N("p"), "y"))), Say(N("p")), Ret(Fld(N("p"), "y"))>>,
  <<Var("v", ArrayOf(ArrayOf(IntT)), Arr(<<Arr(<<I(1), I(2)>>)>>)), SetI(Idx(N("v"), I(0)), CallF("fill", <<Idx(N("v"), I(0))>>)),
    SetI(Idx(Idx(N("v"), I(0)), I(1)), Idx(Idx(N("v"), I(0)), I(0))), Say(N("v")), Ret(I(1))>>,
  <<Say(Neg(I(1))), Say(Point(I(1), I(2))), Say(Not(B(TRUE))), Ret(I(0))>> >>

Std == <<Use(<<"std", "console">>), Use(<<"std", "string">>), Use(<<"std", "int">>),
         Use(<<"std", "bool">>), Use(<<"std", "array">>), Use(<<"std", "map">>)>>

Structs == <<StructDecl("Point", <<Param("x", IntT), Param("y", IntT)>>),
             StructDecl("Box", <<Param("at", PointT)>>)>>

Library == <<Yes, No, Add, Fact, Bump, Fill, Log, Maybe, Find, Crash>>

\* A program with the given main and the functions of the library.
With(body) == Program(Std, Structs, Append(Library, Function("main", <<>>, IntT, body)))

Each(Body(_), exprs) == [i \in 1 .. Len(exprs) |-> With(Body(exprs[i]))]

Sources ==
  Each(LAMBDA x : <<Say(I(2)), Let("r", IntT, x), Say(N("r")), Ret(N("r"))>>, IntExprs)
    \o Each(LAMBDA c : <<If(c, <<Say(I(1))>>, <<Say(I(2))>>), Ret(I(0))>>, BoolExprs)
    \o Each(LAMBDA b : <<Var("i", IntT, I(0)),
                         While(Bin(N("i"), "<", I(4)), <<Inc("i")>> \o b),
                         Say(S("b")), Ret(N("i"))>>, LoopBodies)
    \o Each(LAMBDA b : b, Bodies)
=============================================================================
