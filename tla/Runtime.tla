------------------------------ MODULE Runtime ------------------------------
(***************************************************************************)
(* The builtin registry (src/runtime/builtin_registry.cpp) as the engines  *)
(* see it: a builtin is found by its qualified name, has an arity, and is  *)
(* called with a vector of values.                                         *)
(***************************************************************************)
EXTENDS Values

CONSTANTS
  Builtins,           \* builtin name -> [arity |-> ..., returns |-> ...]
  BuiltinCall(_, _)   \* name, arguments -> [ok |-> ..., val |-> ..., out |-> ...]
=============================================================================
