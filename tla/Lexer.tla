------------------------------- MODULE Lexer --------------------------------
(***************************************************************************)
(* The lexer (src/lexer/lexer.cpp).  A source text is a sequence of        *)
(* characters, each a string of length one; offset o of the code is        *)
(* position o + 1 here.  Of the letters, those of the keywords stand for   *)
(* all; any other character is one that starts no token.                   *)
(***************************************************************************)
EXTENDS Integers, Sequences, SequencesExt

NewLine == "\n"
Quote   == "\""
Escape  == "\\"

Digits  == {"0", "1", "2", "3", "4", "5", "6", "7", "8", "9"}
Letters == {"a", "b", "c", "d", "e", "f", "i", "l", "m", "n", "o", "p", "r", "s", "t", "u", "v", "w", "_"}
Blanks  == {" ", "\t", NewLine, "\r"}

Keywords == {"module", "use", "as", "fn", "return", "pub", "let", "var", "if", "else",
             "while", "break", "continue", "struct"}
Pairs    == {"::", "==", "!=", "<=", ">=", "&&", "||"}
Singles  == {":", ";", ",", ".", "+", "-", "*", "/", "%", "(", ")", "{", "}",
             "=", "!", "<", ">", "[", "]", "@"}

\* The letters an escape may name, and what they stand for.
Unescaped == [n |-> NewLine, t |-> "\t", r |-> "\r"]
EscapeOf(c) == IF c \in DOMAIN Unescaped THEN Unescaped[c] ELSE c
GoodEscapes == DOMAIN Unescaped \cup {Escape, Quote}

Spelled(chars) == FoldLeft(LAMBDA s, c : s \o c, "", chars)

Peek(t, at) == IF at \in DOMAIN t THEN t[at] ELSE ""

\* The first position from at on that does not hold one of chars.
PastAll(t, at, chars) ==
  CHOOSE j \in at .. Len(t) + 1 : /\ j > Len(t) \/ t[j] \notin chars
                                  /\ \A i \in at .. j - 1 : t[i] \in chars

\* Mutation: a single slash starts a comment.
RECURSIVE SkipTriviaFromSlash(_, _)
SkipTriviaFromSlash(t, at) ==
  IF Peek(t, at) \in Blanks THEN SkipTriviaFromSlash(t, at + 1)
  ELSE IF Peek(t, at) = "/"
  THEN CHOOSE j \in at .. Len(t) + 1 :
         /\ Peek(t, j) \in {NewLine, ""}
         /\ \A i \in at .. j - 1 : t[i] # NewLine
  ELSE at

\* skipTrivia: blanks, and comments up to the end of their line.
RECURSIVE SkipTrivia(_, _)
SkipTrivia(t, at) ==
  IF Peek(t, at) \in Blanks THEN SkipTrivia(t, at + 1)
  ELSE IF Peek(t, at) = "/" /\ Peek(t, at + 1) = "/"
  THEN SkipTrivia(t, CHOOSE j \in at .. Len(t) + 1 :
                       /\ Peek(t, j) \in {NewLine, ""}
                       /\ \A i \in at .. j - 1 : t[i] # NewLine)
  ELSE at

\* begin and end are positions; errors are [code, begin, end], in order.
Token(kind, value, begin, end, errors) ==
  [kind |-> kind, value |-> value, begin |-> begin, end |-> end, errors |-> errors]

Report(code, begin, end) == [code |-> code, begin |-> begin, end |-> end]

LexWord(t, at) ==
  LET end  == PastAll(t, at, Letters \cup Digits) - 1
      text == SubSeq(t, at, end)
      word == Spelled(text)
      kind == CASE word \in Keywords -> word
                [] word \in {"true", "false"} -> "boolean"
                [] OTHER -> "identifier"
  IN  Token(kind, text, at, end, <<>>)

LexInteger(t, at) ==
  LET end == PastAll(t, at, Digits) - 1
  IN  Token("integer", SubSeq(t, at, end), at, end, <<>>)

\* lexStringLiteral, from the character after those in value.  An unknown
\* escape is reported and read as the character itself, a line break too.
RECURSIVE LexString(_, _, _, _, _)
LexString(t, begin, at, value, errors) ==
  LET unterminated(end) ==
        Token("invalid", value, begin, end, Append(errors, Report("LEX002", begin, end)))
  IN CASE at > Len(t) -> unterminated(Len(t))
       [] Peek(t, at) = Quote -> Token("string", value, begin, at, errors)
       [] Peek(t, at) = NewLine -> unterminated(at)
       [] Peek(t, at) = Escape /\ at = Len(t) -> unterminated(at)
       [] Peek(t, at) = Escape /\ at < Len(t) ->
            LexString(t, begin, at + 2, Append(value, EscapeOf(t[at + 1])),
                      IF t[at + 1] \in GoodEscapes THEN errors
                      ELSE Append(errors, Report("LEX003", at + 1, at + 1)))
       [] OTHER -> LexString(t, begin, at + 1, Append(value, t[at]), errors)

\* Mutation: of two characters that form one operator the first is taken alone.
LexOperatorShort(t, at) ==
  IF t[at] \in Singles THEN Token(t[at], <<t[at]>>, at, at, <<>>)
  ELSE Token("invalid", <<t[at]>>, at, at, <<Report("LEX001", at, at)>>)

\* Punctuation, and whatever no token starts with (a lone & or | too).
LexOperator(t, at) ==
  CASE t[at] \o Peek(t, at + 1) \in Pairs ->
         Token(t[at] \o t[at + 1], <<t[at], t[at + 1]>>, at, at + 1, <<>>)
    [] t[at] \o Peek(t, at + 1) \notin Pairs /\ t[at] \in Singles ->
         Token(t[at], <<t[at]>>, at, at, <<>>)
    [] OTHER -> Token("invalid", <<t[at]>>, at, at, <<Report("LEX001", at, at)>>)

NextToken(t, from) ==
  LET at == SkipTrivia(t, from)
  IN CASE at > Len(t)         -> Token("eof", <<>>, at, at, <<>>)
       [] Peek(t, at) = Quote -> LexString(t, at, at + 1, <<>>, <<>>)
       [] Peek(t, at) \in Letters -> LexWord(t, at)
       [] Peek(t, at) \in Digits  -> LexInteger(t, at)
       [] OTHER -> LexOperator(t, at)

\* lexAll: the tokens up to and including the end of the file.
RECURSIVE LexFrom(_, _)
LexFrom(t, from) ==
  LET token == NextToken(t, from)
  IN  IF token.kind = "eof" THEN <<token>> ELSE <<token>> \o LexFrom(t, token.end + 1)

LexAll(t) == LexFrom(t, 1)

-----------------------------------------------------------------------------
(* What a lexical analysis of t should be, said without scanning.          *)

\* The values a string literal spelled s has: one, or none if it is not one.
StringValues(s) ==
  LET inner == 2 .. Len(s) - 1
      correct(escaped) ==
        \A i \in inner :
          IF i \in escaped THEN i > 2 /\ s[i - 1] = Escape /\ i - 1 \notin escaped
          ELSE s[i] \notin {Quote, Escape, NewLine} \/ (s[i] = Escape /\ i + 1 \in escaped)
      value(escaped) ==
        LET kept == SelectSeq([i \in DOMAIN s |-> i], LAMBDA i : i \in inner /\ i + 1 \notin escaped)
        IN  [k \in DOMAIN kept |-> IF kept[k] \in escaped THEN EscapeOf(s[kept[k]]) ELSE s[kept[k]]]
  IN  IF Len(s) >= 2 /\ s[1] = Quote /\ s[Len(s)] = Quote
      THEN {value(escaped) : escaped \in {e \in SUBSET inner : correct(e)}} ELSE {}

IsLexeme(s) ==
  \/ s # <<>> /\ s[1] \in Letters /\ \A i \in DOMAIN s : s[i] \in Letters \cup Digits
  \/ s # <<>> /\ \A i \in DOMAIN s : s[i] \in Digits
  \/ Len(s) \in 1 .. 2 /\ Spelled(s) \in Singles \cup Pairs
  \/ StringValues(s) # {}

\* Blanks and whole comments: the text between two tokens.
IsTrivia(s) ==
  \A i \in DOMAIN s :
    \/ s[i] \in Blanks
    \/ \E c \in 1 .. i : /\ c < Len(s) /\ s[c] = "/" /\ s[c + 1] = "/"
                         /\ \A j \in c .. i : s[j] # NewLine

\* Read one after the other the tokens cover the text: no character is lost
\* or read twice, and what is left out is trivia.
Covers(t, tokens) ==
  \A i \in DOMAIN tokens :
    LET from == IF i = 1 THEN 1 ELSE tokens[i - 1].end + 1
    IN  /\ from <= tokens[i].begin /\ tokens[i].begin <= tokens[i].end
        /\ IsTrivia(SubSeq(t, from, tokens[i].begin - 1))
        /\ (tokens[i].kind = "eof") = (i = Len(tokens))
        /\ tokens[i].kind = "eof" => tokens[i].begin = Len(t) + 1

\* A token is the longest lexeme at its place; it is invalid if there is none.
Longest(t, tokens) ==
  \A i \in 1 .. Len(tokens) - 1 :
    LET from == tokens[i].begin
        ends == {e \in from .. Len(t) : IsLexeme(SubSeq(t, from, e))}
    IN  IF tokens[i].kind = "invalid" THEN ends = {} /\ tokens[i].errors # <<>>
        ELSE /\ tokens[i].end \in ends /\ \A e \in ends : e <= tokens[i].end
             /\ tokens[i].kind = "string" =>
                  tokens[i].value \in StringValues(SubSeq(t, from, tokens[i].end))
=============================================================================
