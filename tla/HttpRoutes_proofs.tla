------------------------- MODULE HttpRoutes_proofs --------------------------
(***************************************************************************)
(* Whatever program is served, the router and the analyzer agree on its    *)
(* routes, and every handler that can be reached fits.                     *)
(***************************************************************************)
EXTENDS HttpServer, TLAPS

\* Function names are distinct.
Distinct(p) ==
  /\ DOMAIN p.functions \subseteq Nat
  /\ \A f, g \in DOMAIN p.functions : p.functions[f].name = p.functions[g].name => f = g

\* What is an annotation of the table.
LEMMA InTable ==
  ASSUME NEW p, NEW r
  PROVE  r \in TableRoutes(p) <=>
           \E f \in DOMAIN p.functions : \E k \in DOMAIN p.functions[f].annotations :
             /\ r = <<f, k>>
             /\ LoweredQualifier(p, p.functions[f].annotations[k].qualifier) = "http"
             /\ p.functions[f].annotations[k].verb \in Verbs
  BY DEF TableRoutes, AnnotationsThat

LEMMA InAnalysis ==
  ASSUME NEW p, NEW r
  PROVE  r \in AnalyzerRoutes(p) <=>
           \E f \in DOMAIN p.functions : \E k \in DOMAIN p.functions[f].annotations :
             /\ r = <<f, k>>
             /\ p.functions[f].annotations[k].qualifier \in DOMAIN p.imports
             /\ p.imports[p.functions[f].annotations[k].qualifier] = "http"
             /\ p.functions[f].annotations[k].verb \in Verbs
  BY DEF AnalyzerRoutes, AnnotationsThat

\* With every qualifier imported, resolving names before or after looking for
\* routes finds the same ones.
LEMMA SameRoutes ==
  ASSUME NEW p, AnnotationsValid(p)
  PROVE  TableRoutes(p) = AnalyzerRoutes(p)
<1>1. ASSUME NEW f \in DOMAIN p.functions, NEW k \in DOMAIN p.functions[f].annotations
      PROVE  LoweredQualifier(p, p.functions[f].annotations[k].qualifier) = "http" <=>
               /\ p.functions[f].annotations[k].qualifier \in DOMAIN p.imports
               /\ p.imports[p.functions[f].annotations[k].qualifier] = "http"
  <2>. DEFINE q == p.functions[f].annotations[k].qualifier
  <2>1. q \in DOMAIN p.imports \cup {""}
    BY DEF AnnotationsValid
  <2>2. "" # "http"
    OBVIOUS
  <2>. QED
    BY <2>1, <2>2 DEF LoweredQualifier
<1>2. \A r : r \in TableRoutes(p) <=> r \in AnalyzerRoutes(p)
  <2>. TAKE r
  <2>1. ASSUME r \in TableRoutes(p) PROVE r \in AnalyzerRoutes(p)
    BY <1>1, <2>1, InTable, InAnalysis
  <2>2. ASSUME r \in AnalyzerRoutes(p) PROVE r \in TableRoutes(p)
    BY <1>1, <2>2, InTable, InAnalysis
  <2>. QED
    BY <2>1, <2>2
<1>. QED
  BY <1>2

LEMMA RouteParts ==
  ASSUME NEW p, NEW r \in TableRoutes(p)
  PROVE  r[1] \in DOMAIN p.functions
  BY InTable

\* A route of a program that is served leads to its function alone.
LEMMA RouteFound ==
  ASSUME NEW p, AnalyzerAccepts(p), NEW r \in TableRoutes(p)
  PROVE  FindRoute(p, TargetOf(Annotated(p, r))) = {p.functions[r[1]].name}
<1>1. \A q \in TableRoutes(p) : ValidPath(Annotated(p, q))
  BY SameRoutes DEF AnalyzerAccepts, RoutesValid
<1>2. \A q \in TableRoutes(p) : TargetOf(Annotated(p, q)) = TargetOf(Annotated(p, r)) => q = r
  BY <1>1, SameRoutes DEF AnalyzerAccepts, RoutesValid, Unambiguous
<1>. QED
  BY <1>2 DEF FindRoute

\* Whoever may be called for a target takes a request and gives a response.
LEMMA ReachedFits ==
  ASSUME NEW p, ProgramServes(p, Handler), Distinct(p), NEW target,
         NEW f \in DOMAIN p.functions, p.functions[f].name \in FindHandler(p, target)
  PROVE  IsHandler(p.functions[f])
<1>1. CASE TableRoutes(p) = {}
  <2>. DEFINE named == {g \in DOMAIN p.functions : p.functions[g].name = Handler}
  <2>1. p.functions[f].name = Handler
    BY <1>1 DEF FindHandler
  <2>2. named = {f}
    BY <2>1 DEF Distinct
  <2>3. (CHOOSE g \in named : \A h \in named : g <= h) = f
    BY <2>2 DEF Distinct
  <2>. QED
    BY <1>1, <2>3 DEF ProgramServes, HandlerValid
<1>2. CASE TableRoutes(p) # {}
  <2>1. PICK r \in TableRoutes(p) : p.functions[f].name = p.functions[r[1]].name
    BY <1>2 DEF FindHandler, FindRoute
  <2>2. f = r[1]
    BY <2>1, RouteParts DEF Distinct
  <2>3. IsHandler(p.functions[r[1]])
    BY SameRoutes DEF ProgramServes, AnalyzerAccepts, RoutesValid
  <2>. QED
    BY <2>2, <2>3
<1>. QED
  BY <1>1, <1>2

-----------------------------------------------------------------------------

\* What runs has passed compileServerProgram, and its program never changes.
Serving ==
  /\ Distinct(program)
  /\ pc \notin {"start", "stopped"} => ProgramServes(program, Handler)

LEMMA InitServing == Init => Serving
  BY NamesAssumption DEF Init, Serving, Distinct

LEMMA NextServing == Serving /\ [Next]_vars => Serving'
<1>. SUFFICES ASSUME Serving, [Next]_vars
              PROVE  Serving'
  OBVIOUS
<1>1. CASE Start
  BY <1>1 DEF Start, config, Serving
<1>2. CASE Accept \/ AcceptFails \/ LimitReached
  BY <1>2 DEF Accept, AcceptFails, LimitReached, Stop, serverVars, config, Serving
<1>3. CASE Recv \/ RecvEnd \/ RecvFails \/ TooLarge
  BY <1>3 DEF Recv, RecvEnd, RecvFails, TooLarge, Receiving, Answer, serverVars, config, Serving
<1>4. CASE SendPiece \/ Close
  BY <1>4 DEF SendPiece, Close, serverVars, config, Serving
<1>5. CASE Network
  <2>1. UNCHANGED <<program, pc>>
    BY <1>5 DEF Network, Connect, Arrive, Shut, Lose, serverVars, config
  <2>. QED
    BY <2>1 DEF Serving
<1>6. CASE UNCHANGED vars
  BY <1>6 DEF vars, serverVars, config, Serving
<1>. QED
  BY <1>1, <1>2, <1>3, <1>4, <1>5, <1>6 DEF Next, Server

LEMMA ServingFits == Serving => HandlersFit
<1>. SUFFICES ASSUME Serving, pc \notin {"start", "stopped"}
              PROVE  /\ \A target \in Target, f \in DOMAIN program.functions :
                          program.functions[f].name \in FindHandler(program, target)
                            => IsHandler(program.functions[f])
                     /\ \A r \in AnalyzerRoutes(program) :
                          FindHandler(program, TargetOf(Annotated(program, r)))
                            = {program.functions[r[1]].name}
  BY DEF HandlersFit
<1>1. ProgramServes(program, Handler) /\ Distinct(program)
  BY DEF Serving
<1>2. \A r \in AnalyzerRoutes(program) :
        FindHandler(program, TargetOf(Annotated(program, r))) = {program.functions[r[1]].name}
  BY <1>1, SameRoutes, RouteFound DEF ProgramServes, AnalyzerAccepts, FindHandler
<1>. QED
  BY <1>1, <1>2, ReachedFits

\* In every program that run() serves, the table of http_router.cpp has the routes
\* the analyzer checked and no others, and whatever the pipeline may call is a
\* function from a request to a response.
THEOREM HandlersAlwaysFit == Spec => []HandlersFit
<1>. QED
  BY InitServing, NextServing, ServingFits, PTL DEF Spec
=============================================================================
