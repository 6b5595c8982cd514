------------------------------ MODULE JsonText ------------------------------
(***************************************************************************)
(* JSON as std::json and std::http write and read it                       *)
(* (src/runtime/runtime.cpp).  A text is a sequence of characters; a       *)
(* literal word (true, false, null) counts as one.  \n stands for the five *)
(* control characters that have an escape, all treated alike.              *)
(***************************************************************************)
EXTENDS Values, SequencesExt, FiniteSetsExt, FiniteSets, TLC

CONSTANT
  CharCode     \* the order std::map gives the characters of its keys

NullV == [null |-> TRUE]
IsNull(v) == DOMAIN v = {"null"}

\* A Velo value that holds a JSON value.
JsonV(j)  == [json |-> j]
IsJson(v) == DOMAIN v = {"json"}

Digit == {"0", "1", "2", "3", "4", "5", "6", "7", "8", "9"}

\* What escapeJsonString puts for a character, and what an escape stands for.
Escapes == [c \in {"\"", "\\", "\n"} |-> IF c = "\n" THEN "n" ELSE c]
EscapeStandsFor == [e \in {"\"", "\\", "/", "n"} |-> IF e = "n" THEN "\n" ELSE e]

-----------------------------------------------------------------------------
(* Writing.                                                                *)

\* Mutation: the backslash is not one of the characters escaped.
EscapedButBackslash(s) ==
  FlattenSeq([i \in DOMAIN s |-> IF s[i] \in {"\"", "\n"} THEN <<"\\", Escapes[s[i]]>> ELSE <<s[i]>>])

escapeJsonString(s) ==
  FlattenSeq([i \in DOMAIN s |-> IF s[i] \in DOMAIN Escapes THEN <<"\\", Escapes[s[i]]>>
                                 ELSE <<s[i]>>])

Quoted(s) == <<"\"">> \o escapeJsonString(s) \o <<"\"">>

\* std::to_string, for the integers of a small build.
Decimal == [n \in MinInt .. MaxInt |->
  LET digits[k \in Nat] == IF k < 10 THEN <<ToString(k)>>
                           ELSE Append(digits[k \div 10], ToString(k % 10))
  IN  IF n < 0 THEN <<"-">> \o digits[-n] ELSE digits[n]]

\* std::string's operator<, by which std::map orders its entries.
Before(k, l) ==
  \/ \E i \in DOMAIN l : /\ \A j \in 1 .. i - 1 : j \in DOMAIN k /\ k[j] = l[j]
                         /\ i > Len(k) \/ CharCode[k[i]] < CharCode[l[i]]

Joined(parts) == FlattenSeq([i \in DOMAIN parts |-> IF i = 1 THEN parts[i] ELSE <<",">> \o parts[i]])

\* valueToJsonString, and jsonValueToString for the values parse makes.
RECURSIVE JsonString(_)
JsonString(v) ==
  LET entries(f) ==
        LET keys == SetToSortSeq(DOMAIN f, Before)
        IN  <<"{">> \o Joined([i \in DOMAIN keys |-> Quoted(keys[i]) \o <<":">> \o JsonString(f[keys[i]])])
            \o <<"}">>
  IN CASE IsInt(v)  -> Decimal[v.int]
       [] IsBool(v) -> <<IF v.bool THEN "true" ELSE "false">>
       [] IsNull(v) -> <<"null">>
       [] IsStr(v)  -> Quoted(v.str)
       [] IsArray(v)  -> <<"[">> \o Joined([i \in DOMAIN v.array |-> JsonString(v.array[i])]) \o <<"]">>
       [] IsStruct(v) -> entries(v.struct.fields)
       [] IsMap(v)    -> entries(v.map)
       [] IsJson(v)   -> JsonString(v.json)

\* The JSON value written: a struct becomes an object, as a map does.
RECURSIVE AsJson(_)
AsJson(v) ==
  LET each(f) == [k \in DOMAIN f |-> AsJson(f[k])]
  IN CASE IsArray(v)  -> ArrayV(each(v.array))
       [] IsStruct(v) -> MapV(each(v.struct.fields))
       [] IsMap(v)    -> MapV(each(v.map))
       [] OTHER       -> v

-----------------------------------------------------------------------------
(* Reading: JsonParser.  Each parse function gives what it read and the    *)
(* position after it, or NotRead.                                          *)

NotRead == [ok |-> FALSE]
Read(v, at) == [ok |-> TRUE, value |-> v, at |-> at]

CharAt(t, at) == IF at \in DOMAIN t THEN t[at] ELSE ""

Space == {" ", "\n"}

SkipWhitespace(t, at) ==
  CHOOSE j \in at .. Len(t) + 1 : CharAt(t, j) \notin Space /\ \A i \in at .. j - 1 : t[i] \in Space

\* consume(c) skips whitespace first.
Consumes(t, at, c) == CharAt(t, SkipWhitespace(t, at)) = c
After(t, at)       == SkipWhitespace(t, at) + 1

\* Mutation: a string may also end with the text.
RECURSIVE ReadsToTheEnd(_, _, _)
ReadsToTheEnd(t, at, s) ==
  CASE at > Len(t) -> Read(s, at)
    [] CharAt(t, at) = "\"" -> Read(s, at + 1)
    [] CharAt(t, at) = "\\" -> IF CharAt(t, at + 1) \in DOMAIN EscapeStandsFor
                               THEN ReadsToTheEnd(t, at + 2, Append(s, EscapeStandsFor[t[at + 1]]))
                               ELSE NotRead
    [] OTHER -> ReadsToTheEnd(t, at + 1, Append(s, t[at]))

\* The loop of parseString.
RECURSIVE ReadChars(_, _, _)
ReadChars(t, at, s) ==
  CASE at > Len(t) -> NotRead
    [] CharAt(t, at) = "\"" -> Read(s, at + 1)
    [] CharAt(t, at) = "\\" -> IF CharAt(t, at + 1) \in DOMAIN EscapeStandsFor
                               THEN ReadChars(t, at + 2, Append(s, EscapeStandsFor[t[at + 1]]))
                               ELSE NotRead
    [] OTHER -> ReadChars(t, at + 1, Append(s, t[at]))

ReadString(t, at) == IF Consumes(t, at, "\"") THEN ReadChars(t, After(t, at), <<>>) ELSE NotRead

\* The digits from at on, with their value: std::from_chars refuses what does
\* not fit an int.
ReadInt(t, at) ==
  LET first == IF t[at] = "-" THEN at + 1 ELSE at
      after == CHOOSE j \in first .. Len(t) + 1 :
                 CharAt(t, j) \notin Digit /\ \A i \in first .. j - 1 : t[i] \in Digit
      value == FoldLeft(LAMBDA n, i : 10 * n + (CHOOSE d \in 0 .. 9 : ToString(d) = t[i]), 0,
                        [k \in 1 .. after - first |-> first + k - 1])
      number == IF t[at] = "-" THEN -value ELSE value
  IN  IF after > first /\ number \in MinInt .. MaxInt THEN Read(IntV(number), after) ELSE NotRead

RECURSIVE ReadValue(_, _), ReadElements(_, _, _), ReadEntries(_, _, _)

\* parseValue.
ReadValue(t, from) ==
  LET at == SkipWhitespace(t, from)
      c  == CharAt(t, at)
  IN CASE c = "\"" -> LET s == ReadString(t, at) IN IF s.ok THEN Read(StrV(s.value), s.at) ELSE NotRead
       [] c = "-" \/ c \in Digit -> ReadInt(t, at)
       [] c = "true"  -> Read(BoolV(TRUE), at + 1)
       [] c = "false" -> Read(BoolV(FALSE), at + 1)
       [] c = "null"  -> Read(NullV, at + 1)
       [] c = "[" -> IF Consumes(t, at + 1, "]") THEN Read(ArrayV(<<>>), After(t, at + 1))
                     ELSE ReadElements(t, at + 1, <<>>)
       [] c = "{" -> IF Consumes(t, at + 1, "}") THEN Read(MapV(<<>>), After(t, at + 1))
                     ELSE ReadEntries(t, at + 1, <<>>)
       [] OTHER -> NotRead

\* Mutation: a comma may stand before the closing bracket.
ElementsWithLastComma(t, from, read) ==
  IF Consumes(t, from, "]") THEN Read(ArrayV(read), After(t, from))
  ELSE LET element == ReadValue(t, from)
       IN CASE ~element.ok -> NotRead
            [] element.ok /\ Consumes(t, element.at, "]") ->
                 Read(ArrayV(Append(read, element.value)), After(t, element.at))
            [] element.ok /\ Consumes(t, element.at, ",") ->
                 ReadElements(t, After(t, element.at), Append(read, element.value))
            [] OTHER -> NotRead

\* The loop of parseArrayValue.
ReadElements(t, from, read) ==
  LET element == ReadValue(t, from)
  IN CASE ~element.ok -> NotRead
       [] element.ok /\ Consumes(t, element.at, "]") ->
            Read(ArrayV(Append(read, element.value)), After(t, element.at))
       [] element.ok /\ Consumes(t, element.at, ",") ->
            ReadElements(t, After(t, element.at), Append(read, element.value))
       [] OTHER -> NotRead

\* The loop of parseObjectValue; of two equal keys the last one stays.
ReadEntries(t, from, read) ==
  LET key   == ReadString(t, from)
      value == IF key.ok /\ Consumes(t, key.at, ":") THEN ReadValue(t, After(t, key.at)) ELSE NotRead
      now   == WithEntry(read, key.value, value.value)
  IN CASE ~value.ok -> NotRead
       [] value.ok /\ Consumes(t, value.at, "}") -> Read(MapV(now), After(t, value.at))
       [] value.ok /\ Consumes(t, value.at, ",") -> ReadEntries(t, After(t, value.at), now)
       [] OTHER -> NotRead

\* JsonParser(text).parse(): the whole text is one value.
JsonRead(t) ==
  LET value == ReadValue(t, 1)
  IN  IF value.ok /\ SkipWhitespace(t, value.at) > Len(t) THEN value ELSE NotRead

\* decodeStringEscapes: an unknown escape stays as it is.
RECURSIVE DecodeFrom(_, _)
DecodeFrom(t, at) ==
  CASE at > Len(t) -> <<>>
    [] at <= Len(t) /\ (t[at] # "\\" \/ at = Len(t)) -> <<t[at]>> \o DecodeFrom(t, at + 1)
    [] OTHER -> (IF t[at + 1] \in DOMAIN EscapeStandsFor THEN <<EscapeStandsFor[t[at + 1]]>>
                 ELSE <<t[at], t[at + 1]>>) \o DecodeFrom(t, at + 2)

\* json::stringify; json::parse and http::json_body.
JsonStringify(v) == JsonString(v)
JsonParse(t)     == JsonRead(DecodeFrom(t, 1))

-----------------------------------------------------------------------------
(* What a JSON text denotes, said without scanning from left to right: the *)
(* values it can be cut up into.                                           *)

Trimmed(t) ==
  LET kept == {i \in DOMAIN t : t[i] \notin Space}
  IN  IF kept = {} THEN <<>> ELSE SubSeq(t, Min(kept), Max(kept))

\* The positions in t that are in a set, in order.
Positions(t, set) == SelectSeq([i \in DOMAIN t |-> i], LAMBDA i : i \in set)

\* The ways to cut t into parts at some of the places where it has c.
Splits(t, c) ==
  {LET cuts == <<0>> \o Positions(t, at) \o <<Len(t) + 1>>
   IN  [i \in 1 .. Len(cuts) - 1 |-> SubSeq(t, cuts[i] + 1, cuts[i + 1] - 1)]
   : at \in SUBSET {i \in DOMAIN t : t[i] = c}}

\* The values a string with t between its quotes has: one, or none.
StringsOf(t) ==
  LET correct(escaped) ==
        \A i \in DOMAIN t :
          IF i \in escaped
          THEN i > 1 /\ t[i - 1] = "\\" /\ i - 1 \notin escaped /\ t[i] \in DOMAIN EscapeStandsFor
          ELSE t[i] \notin {"\"", "\\"} \/ (t[i] = "\\" /\ i + 1 \in escaped)
      value(escaped) ==
        LET kept == Positions(t, {i \in DOMAIN t : i + 1 \notin escaped})
        IN  [k \in DOMAIN kept |-> IF kept[k] \in escaped THEN EscapeStandsFor[t[kept[k]]] ELSE t[kept[k]]]
  IN  {value(escaped) : escaped \in {e \in SUBSET DOMAIN t : correct(e)}}

Inside(t) == SubSeq(t, 2, Len(t) - 1)

QuotedStrings(t) ==
  IF Len(t) >= 2 /\ t[1] = "\"" /\ Last(t) = "\"" THEN StringsOf(Inside(t)) ELSE {}

\* Leading zeros are allowed.
Numbers(t) ==
  LET signed == t # <<>> /\ t[1] = "-"
      digits == IF signed THEN Tail(t) ELSE t
      extra  == {i \in 1 .. Len(digits) - 1 : \A j \in 1 .. i : digits[j] = "0"}
      least  == SubSeq(digits, Cardinality(extra) + 1, Len(digits))
  IN  {n \in MinInt .. MaxInt : \/ signed /\ n <= 0 /\ Decimal[n] = <<"-">> \o least
                                \/ ~signed /\ n >= 0 /\ Decimal[n] = least
                                \/ n = 0 /\ least = <<"0">>}

RECURSIVE Denoted(_)
Denoted(text) ==
  LET t == Trimmed(text)
      word == [w \in {"true", "false", "null"} |->
                 IF w = "null" THEN NullV ELSE BoolV(w = "true")]
      bracketed(open, close) == Len(t) >= 2 /\ t[1] = open /\ Last(t) = close
      empty == Trimmed(Inside(t)) = <<>>
      one(set) == CHOOSE v \in set : TRUE
      arrays ==
        {ArrayV([i \in DOMAIN parts |-> one(Denoted(parts[i]))])
         : parts \in {p \in Splits(Inside(t), ",") : \A i \in DOMAIN p : Denoted(p[i]) # {}}}
      entries(part) ==
        {[key |-> one(QuotedStrings(Trimmed(s[1]))), value |-> one(Denoted(s[2]))]
         : s \in {p \in Splits(part, ":") : /\ Len(p) = 2 /\ QuotedStrings(Trimmed(p[1])) # {}
                                            /\ Denoted(p[2]) # {}}}
      objects ==
        {LET each == [i \in DOMAIN parts |-> one(entries(parts[i]))]
         IN  BuiltMap([i \in DOMAIN each |-> each[i].key], [i \in DOMAIN each |-> each[i].value])
         : parts \in {p \in Splits(Inside(t), ",") : \A i \in DOMAIN p : entries(p[i]) # {}}}
  IN  {StrV(s) : s \in QuotedStrings(t)} \cup {IntV(n) : n \in Numbers(t)}
      \cup (IF Len(t) = 1 /\ t[1] \in DOMAIN word THEN {word[t[1]]} ELSE {})
      \cup (IF ~bracketed("[", "]") THEN {} ELSE IF empty THEN {ArrayV(<<>>)} ELSE arrays)
      \cup (IF ~bracketed("{", "}") THEN {} ELSE IF empty THEN {MapV(<<>>)} ELSE objects)
=============================================================================
