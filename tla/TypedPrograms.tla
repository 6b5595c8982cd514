---------------------------- MODULE TypedPrograms ----------------------------
(***************************************************************************)
(* Small programs for the semantic analyzer, well typed and ill typed: one *)
(* operator, call, literal or statement with operands of every type, and   *)
(* one program for each rule about names, scopes and declarations.         *)
(***************************************************************************)
EXTENDS Programs

IntsT == ArrayOf(IntT)
MapT  == MapTo(StrT, IntT)

\* One variable of each type.
Locals == <<Var("n", IntT, I(1)), Var("s", StrT, S("a")), Var("b", BoolT, B(TRUE)),
            Var("v", IntsT, Arr(<<I(2)>>)), Var("m", MapT, MapOf(<<Entry("a", I(3))>>)),
            Var("p", PointT, Point(I(1), I(2)))>>
Atoms == [i \in DOMAIN Locals |-> N(Locals[i].name)]

OfOne(make(_))    == [i \in 1 .. 6 |-> make(Atoms[i])]
OfTwo(make(_, _)) == [k \in 1 .. 36 |-> make(Atoms[(k - 1) \div 6 + 1], Atoms[((k - 1) % 6) + 1])]

\* The function `it` of one parameter; main calls it.
Around(params, T, body, functions) ==
  Program(Std, Structs,
          functions \o <<Function("it", params, T, body),
                         Function("main", <<>>, IntT, <<Do(CallF("it", <<I(1)>>)), Ret(I(0))>>)>>)

Few == <<Add, Log>>
Inside(body) == Around(<<Param("a", IntT)>>, IntT, Locals \o body \o <<Ret(N("a"))>>, Few)

Yielding(T, exprs) == [i \in 1 .. Len(exprs) |-> Inside(<<Let("r", T, exprs[i])>>)]

Operations ==
  Yielding(IntT, OfTwo(LAMBDA l, r : Bin(l, "+", r)) \o OfOne(Neg))
    \o Yielding(BoolT, OfTwo(LAMBDA l, r : Bin(l, "<=", r)) \o OfTwo(LAMBDA l, r : Bin(l, "==", r))
                         \o OfTwo(And) \o OfOne(Not))
    \o Yielding(IntT, OfTwo(Idx) \o OfOne(LAMBDA x : Fld(x, "x")) \o OfOne(LAMBDA x : Fld(x, "z")))
    \o FlattenSeq([i \in 1 .. 6 |-> Yielding(Locals[i].type, Atoms)])

CallsOf ==
  Yielding(IntT, OfTwo(LAMBDA l, r : CallF("add", <<l, r>>)) \o OfOne(LAMBDA x : CallF("add", <<x>>))
                   \o OfOne(LAMBDA x : CallF("log", <<x>>))
                   \o OfOne(LAMBDA x : CallB("string", "len", <<x>>))
                   \o OfOne(LAMBDA x : CallB("array", "len", <<x>>))
                   \o OfOne(LAMBDA x : CallB("map", "len", <<x>>))
                   \o <<CallF("add", <<N("n"), N("n"), N("n")>>), CallF("none", <<>>),
                        CallB("array", "none", <<N("v")>>), CallB("none", "len", <<N("v")>>),
                        CallB("console", "println", <<N("n")>>)>>)
    \o Yielding(StrT, OfOne(LAMBDA x : CallB("int", "toString", <<x>>))
                        \o OfOne(LAMBDA x : CallB("bool", "toString", <<x>>)))

Literals ==
  Yielding(IntsT, OfOne(LAMBDA x : Arr(<<x>>)) \o OfTwo(LAMBDA l, r : Arr(<<l, r>>)) \o <<Arr(<<>>)>>)
    \o Yielding(MapT, OfOne(LAMBDA x : MapOf(<<Entry("b", x)>>))
                        \o OfTwo(LAMBDA l, r : MapOf(<<Entry("a", l), Entry("b", r)>>))
                        \o <<MapOf(<<>>), MapOf(<<Entry("a", N("n")), Entry("a", N("n"))>>)>>)
    \o Yielding(PointT, OfTwo(Point)
                          \o <<StructOf("Point", <<FieldInit("x", N("n"))>>),
                               StructOf("Point", <<FieldInit("y", N("n")), FieldInit("x", N("n"))>>),
                               StructOf("Point", <<FieldInit("x", N("n")), FieldInit("x", N("n")), FieldInit("y", N("n"))>>),
                               StructOf("Point", <<FieldInit("x", N("n")), FieldInit("y", N("n")), FieldInit("z", N("n"))>>),
                               StructOf("None", <<>>), StructOf("Box", <<FieldInit("at", N("p"))>>)>>)
    \o Yielding(ArrayOf(IntsT), <<Arr(<<N("v")>>), Arr(<<Arr(<<>>)>>), Arr(<<N("v"), Arr(<<N("n")>>)>>), N("v")>>)
    \o Yielding(ArrayOf(MapT), <<Arr(<<MapOf(<<>>)>>), Arr(<<N("m"), N("v")>>)>>)

StoreRules ==
  OfTwo(LAMBDA x, y : <<Set(x.path[1], y)>>)
    \o OfOne(LAMBDA x : <<SetF(Fld(N("p"), "x"), x)>>)
    \o OfOne(LAMBDA x : <<SetF(Fld(x, "x"), N("n"))>>)
    \o OfOne(LAMBDA x : <<SetI(Idx(N("v"), Bin(N("n"), "-", N("n"))), x)>>)
    \o OfOne(LAMBDA x : <<SetI(Idx(N("m"), N("s")), x)>>)
    \o OfTwo(LAMBDA x, y : <<SetI(Idx(x, y), N("n"))>>)
    \o << <<Set("a", I(1))>>, <<Set("none", I(1))>>,
          <<Let("k", IntT, I(1)), Set("k", I(2))>>,
          <<Let("k", PointT, N("p")), SetF(Fld(N("k"), "x"), I(2))>>,
          <<Let("k", IntsT, N("v")), SetI(Idx(N("k"), I(0)), I(2))>>,
          <<Var("k", BoxT, Box(N("p"))), SetF(Fld(Fld(N("k"), "at"), "x"), N("n"))>>,
          <<Var("k", BoxT, Box(N("p"))), SetF(Fld(Fld(N("k"), "at"), "x"), N("p"))>>,
          <<SetF(Fld(N("a"), "x"), I(2))>>, <<SetI(Idx(N("a"), I(0)), I(2))>>,
          <<SetF(Fld(Idx(N("v"), I(0)), "x"), I(2))>>, <<SetF(Fld(N("p"), "z"), I(2))>> >>

ControlRules ==
  OfOne(LAMBDA x : <<If(x, <<>>, <<>>)>>) \o OfOne(LAMBDA x : <<While(x, <<Break>>)>>)
    \o OfOne(LAMBDA x : <<Ret(x)>>)
    \o << <<RetVoid>>, <<Do(N("none"))>>, <<Break>>, <<Continue>>,
          <<If(N("b"), <<>>, <<Let("r", IntT, N("n")), Break>>)>>,
          <<While(N("b"), <<If(N("b"), <<Break>>, <<Continue>>)>>), Continue>> >>

NameRules ==
  << <<Let("n", IntT, I(1))>>, <<Let("r", Named("None"), N("n"))>>, <<Let("r", VoidT, N("n"))>>,
     <<If(N("b"), <<Let("n", StrT, S("a")), Let("r", StrT, N("n"))>>, <<>>), Let("r", IntT, N("n"))>>,
     <<If(N("b"), <<Let("r", IntT, I(1))>>, <<>>), Let("q", IntT, N("r"))>>,
     <<If(N("b"), <<Let("r", IntT, I(1))>>, <<Let("r", StrT, S("a"))>>), Let("r", IntT, N("n"))>>,
     <<Let("r", IntT, Bin(N("r"), "+", I(1)))>> >>

\* Other shapes of functions and of the whole program.
ReturnRules == << <<>>, <<RetVoid>>, <<Ret(N("a"))>>, <<If(B(TRUE), <<Ret(N("a"))>>, <<>>)>>,
              <<If(B(TRUE), <<Ret(N("a"))>>, <<Ret(I(1))>>)>>, <<While(B(TRUE), <<Ret(N("a"))>>)>>,
              <<Ret(CallF("it", <<Bin(N("a"), "/", I(0))>>))>> >>

ParameterRules == << <<>>, <<Param("a", StrT)>>, <<Param("a", IntT), Param("a", IntT)>>,
                 <<Param("a", VoidT)>>, <<Param("a", Named("None"))>>, <<Param("a", ArrayOf(VoidT))>>,
                 <<Param("a", MapTo(IntT, IntT))>> >>

FieldRules == << <<Param("x", IntT), Param("x", StrT)>>, <<Param("x", Named("None"))>>, <<Param("x", VoidT)>>,
             <<Param("x", ArrayOf(Named("S")))>>, <<Param("x", MapTo(StrT, ArrayOf(PointT)))>> >>

MainRules == << <<>>, <<Function("main", <<>>, VoidT, <<>>)>>,
            <<Function("main", <<>>, StrT, <<Ret(S("a"))>>)>>,
            <<Function("main", <<Param("a", IntT)>>, IntT, <<Ret(N("a"))>>)>>,
            <<Function("main", <<>>, IntT, <<Ret(CallF("later", <<>>))>>),
              Function("later", <<>>, IntT, <<Ret(I(3))>>)>>,
            <<Function("main", <<>>, IntT, <<Ret(I(3))>>), Function("main", <<>>, IntT, <<Ret(I(4))>>)>> >>

ImportRules == << <<>>, <<Use(<<"std", "console">>)>>, <<Use(<<"console">>)>>,
              <<UseAs(<<"std", "console">>, "c")>>, <<UseAs(<<"std", "array">>, "console")>>,
              <<Use(<<"std", "console">>), UseAs(<<"std", "int">>, "console")>>,
              <<UseAs(<<"std", "map">>, "c"), UseAs(<<"std", "console">>, "console")>> >>

Fragments ==
  Operations \o CallsOf \o Literals
    \o [i \in 1 .. Len(StoreRules) |-> Inside(StoreRules[i])]
    \o [i \in 1 .. Len(ControlRules) |-> Inside(ControlRules[i])]
    \o [i \in 1 .. Len(NameRules) |-> Inside(NameRules[i])]
    \o FlattenSeq([i \in 1 .. Len(ReturnRules) |->
                     << Around(<<Param("a", IntT)>>, IntT, ReturnRules[i], Few),
                        Around(<<Param("a", IntT)>>, VoidT, ReturnRules[i], Few) >>])
    \o [i \in 1 .. Len(ParameterRules) |->
          Program(Std, Structs, <<Function("it", ParameterRules[i], VoidT, <<>>), Function("main", <<>>, IntT, <<Ret(I(0))>>)>>)]
    \o [i \in 1 .. Len(FieldRules) |->
          Program(Std, Structs \o <<StructDecl("S", FieldRules[i])>>, <<Function("main", <<>>, IntT, <<Ret(I(0))>>)>>)]
    \o [i \in 1 .. Len(MainRules) |-> Program(Std, Structs, MainRules[i])]
    \o [i \in 1 .. Len(ImportRules) |->
          Program(ImportRules[i], <<>>, <<Function("main", <<>>, IntT, <<Say(I(1)), Ret(I(0))>>)>>)]
=============================================================================
