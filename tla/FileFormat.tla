----------------------------- MODULE FileFormat -----------------------------
(***************************************************************************)
(* The text form of bytecode modules (include/velo/bytecode/file_format.h).*)
(* A file is a sequence of symbols: the characters of quoted strings,      *)
(* blanks and line breaks one by one, a word or a number as a whole (a     *)
(* number operand is its numeral).                                         *)
(***************************************************************************)
EXTENDS Integers, Sequences, SequencesExt, TLC

Break == "\n"

\* What opCodeToString writes, and what opCodeFromString knows.
OpCodes ==
  {"PushInt", "PushString", "PushBool", "LoadLocal", "StoreLocal",
   "AddInt", "SubInt", "MulInt", "DivInt", "ModInt", "NegInt",
   "LogicalNot", "LogicalAnd", "LogicalOr", "CompareEqual", "CompareNotEqual",
   "CompareLessInt", "CompareGreaterInt", "CompareLessEqualInt", "CompareGreaterEqualInt",
   "Jump", "JumpIfFalse", "CallFunction", "CallBuiltin", "BuildStruct", "BuildArray",
   "BuildMap", "LoadField", "StoreFieldPath", "LoadIndex", "StoreIndexPath", "Return", "Pop"}

Numerals == {ToString(n) : n \in 0 .. 9}

-----------------------------------------------------------------------------
(* write.                                                                  *)

\* Mutation: the string is put between quotes as it is.
quotedRaw(s) == <<"\"">> \o s \o <<"\"">>

\* std::quoted.
quoted(s) ==
  <<"\"">> \o FlattenSeq([i \in DOMAIN s |-> IF s[i] \in {"\"", "\\"} THEN <<"\\", s[i]>> ELSE <<s[i]>>])
  \o <<"\"">>

\* The items of a line, with a blank between two of them.
Line(items) ==
  FlattenSeq([i \in DOMAIN items |-> IF i = 1 THEN items[i] ELSE <<" ">> \o items[i]]) \o <<Break>>

InstructionLine(i) ==
  Line(<<<<"instruction">>, <<i.code>>, quoted(i.string), <<i.int>>,
         <<IF i.bool THEN "1" ELSE "0">>, <<i.args>>, <<i.index>>, <<i.target>>>>)

FunctionLines(f) ==
  Line(<<<<"function">>, quoted(f.name), <<ToString(Len(f.parameters))>>>>)
  \o FlattenSeq([i \in DOMAIN f.parameters |-> Line(<<<<"param">>, quoted(f.parameters[i])>>)])
  \o FlattenSeq([i \in DOMAIN f.instructions |-> InstructionLine(f.instructions[i])])
  \o Line(<<<<"endfunction">>>>)

write(m) ==
  Line(<<<<"VELO_BYTECODE_TEXT">>, <<"1">>>>)
  \o FlattenSeq([i \in DOMAIN m |-> FunctionLines(m[i])])

-----------------------------------------------------------------------------
(* read.                                                                   *)

\* What std::getline gives, line after line: no line follows the last break.
LinesOf(t) ==
  LET ends  == SelectSeq([i \in DOMAIN t |-> i], LAMBDA i : t[i] = Break)
      cuts  == <<0>> \o ends \o (IF t = <<>> \/ Last(t) = Break THEN <<>> ELSE <<Len(t) + 1>>)
  IN  [i \in 1 .. Len(cuts) - 1 |-> SubSeq(t, cuts[i] + 1, cuts[i + 1] - 1)]

\* An extraction (operator>>) from l, a line without its leading blanks, gives
\* the item and the rest of the line, or fails.
NoItem == [ok |-> FALSE]
Item(v, rest) == [ok |-> TRUE, value |-> v, rest |-> rest]

RECURSIVE SkipBlanks(_)
SkipBlanks(line) == IF line # <<>> /\ line[1] = " " THEN SkipBlanks(Tail(line)) ELSE line

\* A word: what comes before the next blank.
Word(l) ==
  LET end == CHOOSE j \in 0 .. Len(l) : /\ j = Len(l) \/ l[j + 1] = " "
                                        /\ \A i \in 1 .. j : l[i] # " "
  IN  IF l = <<>> THEN NoItem ELSE Item(SubSeq(l, 1, end), SubSeq(l, end + 1, Len(l)))

Number(l) == IF l # <<>> /\ Head(l) \in Numerals THEN Item(Head(l), Tail(l)) ELSE NoItem

RECURSIVE Unquote(_, _)
Unquote(l, s) ==
  CASE l = <<>> \/ l = <<"\\">> -> NoItem
    [] l # <<>> /\ Head(l) = "\"" -> Item(s, Tail(l))
    [] Len(l) >= 2 /\ Head(l) = "\\" -> Unquote(Tail(Tail(l)), Append(s, l[2]))
    [] OTHER -> Unquote(Tail(l), Append(s, Head(l)))

\* std::quoted reads a plain word where there is no quote.
QuotedItem(l) == IF l # <<>> /\ Head(l) = "\"" THEN Unquote(Tail(l), <<>>) ELSE Word(l)

ItemOf(kind, l) ==
  CASE kind = "word" -> Word(l) [] kind = "number" -> Number(l) [] kind = "quoted" -> QuotedItem(l)

AddItem(items, i) == IF i.ok THEN [items |-> Append(items, i.value), rest |-> i.rest] ELSE [items |-> <<>>]

Extracted(done, kind) ==
  IF "rest" \in DOMAIN done THEN AddItem(done.items, ItemOf(kind, SkipBlanks(done.rest))) ELSE done

\* The items of a line read with these extractions, <<>> once one fails.
Extract(line, kinds) == FoldLeft(Extracted, [items |-> <<>>, rest |-> line], kinds).items

\* Where the reader is: phase "header", "top", "params", "body" or "error".
Start == [phase |-> "header", module |-> <<>>, function |-> <<>>, left |-> 0]

Refused == [Start EXCEPT !.phase = "error"]

Header(r, items) ==
  IF items = <<<<"VELO_BYTECODE_TEXT">>, "1">> THEN [r EXCEPT !.phase = "top"] ELSE Refused

FunctionStarts(r, items) ==
  IF items = <<>> \/ Head(items) # <<"function">> THEN Refused
  ELSE [r EXCEPT !.phase = IF items[3] = "0" THEN "body" ELSE "params",
                 !.left = CHOOSE n \in 0 .. 9 : ToString(n) = items[3],
                 !.function = [name |-> items[2], parameters |-> <<>>, instructions |-> <<>>]]

Parameter(r, items) ==
  IF items = <<>> \/ Head(items) # <<"param">> THEN Refused
  ELSE [r EXCEPT !.function.parameters = Append(@, items[2]), !.left = @ - 1,
                 !.phase = IF r.left = 1 THEN "body" ELSE "params"]

FunctionEnds(r) == [r EXCEPT !.phase = "top", !.module = Append(@, r.function)]

InstructionKinds == <<"word", "word", "quoted", "number", "number", "number", "number", "number">>

\* readInstruction.
Instruction(r, i) ==
  IF i = <<>> \/ Head(i) # <<"instruction">> \/ i[2] \notin {<<c>> : c \in OpCodes} THEN Refused
  ELSE [r EXCEPT !.function.instructions =
          Append(@, [code |-> Head(i[2]), string |-> i[3], int |-> i[4], bool |-> i[5] # "0",
                     args |-> i[6], index |-> i[7], target |-> i[8]])]

\* The loops of read, a line at a time.
OnLine(r, line) ==
  CASE r.phase = "header" -> Header(r, Extract(line, <<"word", "number">>))
    [] r.phase = "params" -> Parameter(r, Extract(line, <<"word", "quoted">>))
    [] r.phase = "top" /\ line # <<>> -> FunctionStarts(r, Extract(line, <<"word", "quoted", "number">>))
    [] r.phase = "body" /\ line = <<"endfunction">> -> FunctionEnds(r)
    [] r.phase = "body" /\ line \notin {<<>>, <<"endfunction">>} -> Instruction(r, Extract(line, InstructionKinds))
    [] OTHER -> r

\* Mutation: a function the file ends in is kept.
readToTheEnd(t) ==
  LET r == FoldLeft(OnLine, Start, LinesOf(t))
  IN  IF r.phase \in {"top", "body"}
      THEN [success |-> TRUE, module |-> r.module \o (IF r.phase = "body" THEN <<r.function>> ELSE <<>>)]
      ELSE [success |-> FALSE, module |-> <<>>]

\* A file may only end between two functions.
read(t) ==
  LET r == FoldLeft(OnLine, Start, LinesOf(t))
  IN  IF r.phase = "top" THEN [success |-> TRUE, module |-> r.module]
      ELSE [success |-> FALSE, module |-> <<>>]
=============================================================================
