---------------------------- MODULE MCValueCells ----------------------------
(* An array and a struct, one nested in the other.                         *)
EXTENDS ValueCells

MCLiterals == {IntV(1)}

MCShapes == {[op |-> "array", keys |-> <<"0">>], [op |-> "struct", keys |-> <<"f">>]}

MCPaths == {<<IntV(0)>>, <<FieldKey("f")>>, <<IntV(0), FieldKey("f")>>, <<FieldKey("f"), IntV(0)>>}
=============================================================================
