--------------------------- MODULE MCInterpreter ---------------------------
(***************************************************************************)
(* The lowerer and the interpreter together, on the programs of Programs.  *)
(***************************************************************************)
EXTENDS Interpreter, ShapeInference, Lowerer, Programs, StdBuiltins

\* f, computed once: the value of @@ is a table, while TLC evaluates any other
\* function anew at each use.  For the same reason the constants are given names
\* of these tables (with a LET, so that TLC's cost model of an action does not
\* include their computation) and not the definitions that compute them.
Table(f) == f @@ f

Lowered ==
  LET sources == Sources
  IN  Table([k \in DOMAIN sources |-> Table(Lower(sources[k]))])
Shapes ==
  LET modules == Lowered
  IN  Table([k \in DOMAIN modules |->
        Table([f \in DOMAIN modules[k] |-> Table(InferShape(modules[k][f], <<>>))])])

MCModules == LET table == Lowered IN table
MCShape   == LET table == Shapes IN table

Names  == {"a", "b"}
Ints   == [int : MinInt .. MaxInt]
Points == [struct : [type : {"Point"}, fields : [{"x", "y"} -> Ints]]]

Maps   == [map : UNION {[d -> Ints] : d \in SUBSET Names}]

MCValue ==
  Ints \cup [str : Names \cup {"1", "-5", "true"}] \cup [bool : BOOLEAN] \cup Points
    \cup [struct : [type : {"Box"}, fields : [{"at"} -> Points]]]
    \cup [array : Seq(Ints)] \cup [array : Seq([array : Seq(Ints)])]
    \cup Maps \cup [array : Seq(Maps)]

-----------------------------------------------------------------------------
(* One interpreter object, as the HTTP server keeps it, serving calls of   *)
(* single functions that succeed, print, or fail at some depth.            *)

HostModules == Table([k \in {1, 3, 23, 33} |-> Lowered[k]])
MCHostModules == LET table == HostModules IN table

MCHostRequests ==
  {[name |-> "add",   args |-> <<IntV(7), IntV(1)>>],
   [name |-> "add",   args |-> <<IntV(7)>>],
   [name |-> "crash", args |-> <<IntV(3)>>],
   [name |-> "log",   args |-> <<IntV(2)>>],
   [name |-> "fact",  args |-> <<IntV(2)>>],
   [name |-> "find",  args |-> <<ArrayV(<<IntV(3), IntV(4)>>), IntV(4)>>],
   [name |-> "find",  args |-> <<IntV(1), IntV(4)>>],
   [name |-> "none",  args |-> <<>>]}
=============================================================================
