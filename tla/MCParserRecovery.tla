--------------------------- MODULE MCParserRecovery ---------------------------
(***************************************************************************)
(* The parser on two files with one token missing.                         *)
(***************************************************************************)
EXTENDS Parser

P == INSTANCE Printing

ReturnOne(name) == Function(name, <<>>, IntT, <<Ret(I(1))>>)
FunctionTokens(name) == P!FunctionTokens(ReturnOne(name))
End == <<P!Word("end")>>

\* fn a(): int { return 1 } fn b(): int { return 1; }
NoSemicolon ==
  LET a == FunctionTokens("a")
  IN  SubSeq(a, 1, Len(a) - 2) \o <<P!Word("}")>> \o FunctionTokens("b") \o End

\* use std::; use std; fn a(): int { return 1; }
NoSegment ==
  P!Words(<<"use">>) \o <<P!Ident("std")>> \o P!Words(<<"::", ";">>)
    \o P!UseTokens(Use(<<"std">>)) \o FunctionTokens("a") \o End

Inputs == <<NoSemicolon, NoSegment>>
MCInput == LET table == Inputs @@ Inputs IN table

\* docs/development/diagnostics.md:13, "Diagnostics should be: ... minimally cascading":
\* one mistake in a file (here a token left out) leads to finitely many, and parse()
\* comes to the end of the file.
ParserEnds == <>(phase = "done")
=============================================================================
