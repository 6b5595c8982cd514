----------------------------- MODULE HttpRouter -----------------------------
(***************************************************************************)
(* Routes, three times over: the analyzer checks the annotations of the    *)
(* syntax tree, the lowerer resolves their names, and the router builds    *)
(* its table from what the lowerer left (src/semantic/semantic_analyzer    *)
(* .cpp, src/ir/lowerer.cpp, src/http/http_router.cpp, http_handler.cpp).  *)
(*                                                                         *)
(* A program is [imports, functions]: imports maps a visible name to the   *)
(* module it stands for; a function is                                     *)
(*   [name, params (types), returns, annotations]                          *)
(* and an annotation [qualifier, verb, args], with qualifier "" if it has  *)
(* none and arguments [kind, value].                                       *)
(***************************************************************************)
EXTENDS Integers, Sequences

CONSTANT Absolute(_)     \* does a path start with '/'?

Verbs == {"get", "post"}
Method(verb) == IF verb = "get" THEN "GET" ELSE "POST"

\* The annotations of the program that satisfy Is: <<function, annotation>>.
AnnotationsThat(p, Is(_)) ==
  UNION {{<<f, a>> : a \in {k \in DOMAIN p.functions[f].annotations :
                              Is(p.functions[f].annotations[k])}} :
         f \in DOMAIN p.functions}

Annotated(p, r) == p.functions[r[1]].annotations[r[2]]

ValidPath(a) ==
  /\ Len(a.args) = 1
  /\ a.args[1].kind = "string"
  /\ Absolute(a.args[1].value)

\* The method and path of a valid route annotation.
TargetOf(a) == <<Method(a.verb), a.args[1].value>>

\* No two of the route annotations rs have the same method and path.
Unambiguous(p, rs) ==
  \A r, s \in {q \in rs : ValidPath(Annotated(p, q))} :
    TargetOf(Annotated(p, r)) = TargetOf(Annotated(p, s)) => r = s

IsHandler(f) == f.params = <<"http_request">> /\ f.returns = "http_response"

-----------------------------------------------------------------------------
(* The analyzer: an annotation is a route if its qualifier is imported and *)
(* stands for the module http.                                             *)

AnalyzerRoutes(p) ==
  AnnotationsThat(p, LAMBDA a : /\ a.qualifier \in DOMAIN p.imports
                                /\ p.imports[a.qualifier] = "http"
                                /\ a.verb \in Verbs)

\* Every qualifier is imported, no function repeats an annotation.
AnnotationsValid(p) ==
  \A f \in DOMAIN p.functions :
    LET as == p.functions[f].annotations
    IN  /\ \A k \in DOMAIN as : as[k].qualifier \in DOMAIN p.imports \cup {""}
        /\ \A j, k \in DOMAIN as :
             as[j].qualifier = as[k].qualifier /\ as[j].verb = as[k].verb => j = k

RoutesValid(p) ==
  LET rs == AnalyzerRoutes(p)
  IN  /\ \A r \in rs : ValidPath(Annotated(p, r)) /\ IsHandler(p.functions[r[1]])
      /\ Unambiguous(p, rs)
      /\ \A r, s \in rs : r[1] = s[1] => r = s

AnalyzerAccepts(p) == AnnotationsValid(p) /\ RoutesValid(p)

-----------------------------------------------------------------------------
(* The lowerer and the router.                                             *)

\* Mutation: the visible name stays.
QualifierKept(p, q) == q

\* lowerQualifiedName: a visible name becomes the module's, others stay.
LoweredQualifier(p, q) == IF q \in DOMAIN p.imports THEN p.imports[q] ELSE q

TableRoutes(p) ==
  AnnotationsThat(p, LAMBDA a : LoweredQualifier(p, a.qualifier) = "http" /\ a.verb \in Verbs)

TableBuilds(p) ==
  /\ \A r \in TableRoutes(p) : ValidPath(Annotated(p, r))
  /\ Unambiguous(p, TableRoutes(p))

\* findRoute: the handlers whose route matches, at most one in a table.
FindRoute(p, target) ==
  {p.functions[r[1]].name : r \in {q \in TableRoutes(p) : TargetOf(Annotated(p, q)) = target}}

\* validateHttpHandlerSignature, made only of a program without routes: the
\* first function of that name.
HandlerValid(p, handler) ==
  LET named == {f \in DOMAIN p.functions : p.functions[f].name = handler}
  IN  named # {} /\ IsHandler(p.functions[CHOOSE f \in named : \A g \in named : f <= g])

\* compileServerProgram, for a program that is otherwise well formed.
ProgramServes(p, handler) ==
  /\ AnalyzerAccepts(p)
  /\ TableBuilds(p)
  /\ TableRoutes(p) = {} => HandlerValid(p, handler)
=============================================================================
