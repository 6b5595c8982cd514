------------------------------ MODULE MCTexts -------------------------------
(***************************************************************************)
(* Texts as they grow, and what their reader makes of them: source texts   *)
(* and JSON texts typed from small alphabets, and JSON texts, bytecode     *)
(* files and http answers on the way from their writer, cut anywhere.      *)
(***************************************************************************)
EXTENDS Lexer, WebBuiltins, FileFormat

CONSTANTS
  Alphabets,    \* [reader, pieces, left]: what is typed, up to so many pieces
  JsonValues,   \* Velo values that are written as JSON
  Modules,      \* bytecode modules that are written to a file
  Responses     \* http responses that are sent to a client

VARIABLES
  task,     \* what becomes of the text: an alphabet, or a written document
  text,     \* the text so far
  result    \* what the reader makes of it

Documents ==
  {[reader |-> "json", of |-> v, whole |-> JsonStringify(v)] : v \in JsonValues}
    \cup {[reader |-> "file", of |-> m, whole |-> write(m)] : m \in Modules}
    \cup {[reader |-> "client", of |-> r, whole |-> serializeHttpResponse(r)] : r \in Responses}

IsWritten == "whole" \in DOMAIN task

\* A client reads header lines up to the first empty line, and then a body
\* of the length they state.  A header line takes four symbols.
ClientRead(t) ==
  LET ends    == {i \in 1 .. Len(t) - 1 : t[i] = Crlf /\ t[i + 1] = Crlf}
      end     == Min(ends)
      line(n) == {i \in 5 .. end : i % 4 = 1 /\ t[i] = n}
      headers == [n \in {t[i] : i \in {j \in 5 .. end : j % 4 = 1}} |-> t[Min(line(n)) + 2]]
      body    == SubSeq(t, end + 2, Len(t))
  IN  IF ends = {} \/ "Content-Length" \notin DOMAIN headers THEN NotRead
      ELSE IF headers["Content-Length"] # ToString(Len(body)) THEN NotRead
      ELSE Read([status |-> t[2], headers |-> headers, body |-> body], Len(t) + 1)

ReadBy(reader, t) ==
  CASE reader = "lexer" -> LexAll(t) [] reader = "json" -> JsonRead(t) [] reader = "file" -> read(t)
    [] reader = "client" -> ClientRead(t)

Grow(t) == text' = t /\ result' = ReadBy(task.reader, t)

Type ==
  /\ ~IsWritten /\ task.left > 0
  /\ task' = [task EXCEPT !.left = @ - 1]
  /\ \E piece \in task.pieces : Grow(text \o piece)

Arrive ==
  /\ IsWritten /\ Len(text) < Len(task.whole)
  /\ Grow(SubSeq(task.whole, 1, Len(text) + 1))
  /\ UNCHANGED task

Init ==
  /\ task \in Alphabets \cup Documents /\ text = <<>>
  /\ result = ReadBy(task.reader, <<>>)

Next == Type \/ Arrive

vars == <<task, text, result>>

Spec == Init /\ [][Next]_vars

Reads(reader) == task.reader = reader
Complete == IsWritten /\ text = task.whole

-----------------------------------------------------------------------------

\* No character of a source file is lost or read twice: the tokens follow one
\* another, with blanks and comments between them, up to one end of file.
TokensCover == Reads("lexer") => Covers(text, result)

\* Each token is the longest there is at its place, a string token has the
\* value its spelling means, and what starts no token is reported (LEX001,
\* LEX002).
TokensLongest == Reads("lexer") => Longest(text, result)

\* JsonParser accepts the texts that can be cut up into a value, and reads
\* that value: nesting, escapes, white space, duplicate keys, integers that
\* just fit and just do not.
JsonReadsDenoted ==
  Reads("json") => Denoted(text) = (IF result.ok THEN {result.value} ELSE {})

\* What json::stringify writes JsonParser reads as the value written; of what
\* ends with a quote or a bracket, no part without its end is taken for a
\* value (a request body that is not all there).
JsonReadBack ==
  Reads("json") /\ IsWritten =>
    /\ Complete => result.ok /\ result.value = AsJson(task.of)
    /\ ~Complete /\ Last(task.whole) \in {"\"", "]", "}"} => ~result.ok

\* json::parse, which takes escapes out of the whole text first, reads back
\* what json::stringify wrote (README.md:97).
JsonRoundTrips ==
  Reads("json") /\ Complete =>
    JsonParse(text).ok /\ JsonParse(text).value = AsJson(task.of)

\* The members of a JSON object are found by json::has and got by the
\* accessor of their kind only.
GotByKind(json, key, member) ==
  /\ JsonHas(<<json, key>>).val = BoolV(TRUE)
  /\ JsonGetJson(<<json, key>>).val = JsonV(member)
  /\ \A kind \in {"int", "str", "bool"} :
       JsonGet(kind, <<json, key>>) = IF DOMAIN member = {kind} THEN Returns(member) ELSE Refuses

MembersGot(json) ==
  IsJsonObject(json) => \A k \in DOMAIN json.json.map : GotByKind(json, StrV(k), json.json.map[k])

AnsweredWith(answer, json) ==
  LET sent == JsonRead(HttpBody(<<answer>>).val.str)
  IN  /\ sent.ok /\ JsonV(sent.value) = json
      /\ HttpStatus(<<answer>>).val = IntV(1)
      /\ HttpHasHeader(<<answer, StrV("Connection")>>).val = BoolV(FALSE)
      /\ HttpHeader(<<answer, StrV("Content-Type")>>).val = StrV("application/json")

\* The three ways a handler can tell which route a request is for.
Dispatched(request) ==
  \A method \in {StrV("GET"), StrV("POST")}, path \in {StrV("/"), StrV("/echo")} :
    /\ HttpIsRoute(<<request, method, path>>).val =
         BoolV(HttpMethod(<<request>>).val = method /\ HttpPath(<<request>>).val = path)
    /\ HttpIsRoute(<<request, method, path>>).val.bool =
         (HttpIsMethod(<<request, method>>).val.bool /\ HttpIsPath(<<request, path>>).val.bool)

\* What a handler for POST /echo makes of a request it answers with the JSON
\* in its body.
Echoed(request) ==
  /\ Dispatched(request)
  /\ HttpRequestBody(<<request>>).val = StrV(text)
  /\ (HttpJsonBody(<<request>>).ok =>
        \E json \in {HttpJsonBody(<<request>>).val} :
          MembersGot(json) /\ AnsweredWith(HttpJsonResponse(<<IntV(1), json>>).val, json))

\* A handler that answers with the JSON value of its request sends a text that
\* reads as that value, however the request spelled it; and it gets at the
\* members of an object by their keys, each by the accessor of its kind.
EchoKeepsJson == Reads("json") => Echoed(RequestV("POST", "/echo", text))

\* A client that frames the answer by its first empty line and its length
\* has it when all of it arrived and not before, with the status, type and
\* body it was given, whatever line breaks the body contains.
AnswerIsFramed ==
  Reads("client") =>
    /\ result.ok = Complete
    /\ result.ok => /\ result.value.status = ToString(task.of.status)
                   /\ result.value.body = task.of.body
                   /\ \A n \in DOMAIN task.of.headers : result.value.headers[n] = task.of.headers[n]

\* The strings of a module: a line break in one spoils the line it is on.
StringsIn(m) ==
  UNION {{f.name} \cup Range(f.parameters) \cup {i.string : i \in Range(f.instructions)} : f \in Range(m)}

\* read gives back the module that was written, or, when a string holds a
\* line break, an error; never another module.
FileReadBack ==
  Reads("file") /\ Complete =>
    IF \E s \in StringsIn(task.of) : Break \in Range(s)
    THEN ~result.success
    ELSE result.success /\ result.module = task.of

\* A file that was cut off is refused, unless it was cut between two
\* functions: then the functions before the cut are all it gives.
FileCutIsPrefix ==
  Reads("file") /\ result.success => IsPrefix(result.module, task.of)

-----------------------------------------------------------------------------
(* The instances.                                                          *)

Each(chars) == {<<c>> : c \in chars}

MCAlphabets ==
  {[reader |-> "lexer", pieces |-> Each({"\"", "\\", "n", "\n", "?"}), left |-> 5],
   [reader |-> "lexer", pieces |-> Each({"=", "&", "!", "a", "1", " "}), left |-> 4],
   [reader |-> "lexer", pieces |-> Each({"/", "\n", "a", "\"", ":"}), left |-> 5],
   [reader |-> "lexer", pieces |-> Each({"a", "s", "i", "f", "_", "7"}), left |-> 4],
   [reader |-> "json", pieces |-> Each({"\"", "\\", "n", "\n"}), left |-> 6],
   [reader |-> "json", pieces |-> Each({"-", "0", "1", "2", ",", "["}) \cup {<<"]">>}, left |-> 4],
   [reader |-> "json", pieces |-> Each({"[", "]", "1", ",", " ", "null"}), left |-> 5],
   [reader |-> "json", pieces |-> {<<"\"", "n", "\"">>, <<":">>, <<"{">>, <<"}">>, <<"true">>}, left |-> 5],
   [reader |-> "json",
    pieces |-> {<<"\"", "a", "\"", ":", "1">>, <<"\"", "a", "\"", ":", "2">>, <<"{">>, <<",">>, <<"}">>},
    left |-> 5]}

MCCharCode == [c \in {"\n", "\"", "\\", "a", "b"} |->
                 CASE c = "\n" -> 10 [] c = "\"" -> 34 [] c = "\\" -> 92 [] c = "a" -> 97 [] c = "b" -> 98]

Texts == {<<>>, <<"a">>, <<"a", "\"">>, <<"\\", "a">>, <<"\n">>}

MCJsonValues ==
  {StrV(s) : s \in Texts}
    \cup {IntV(n) : n \in {MinInt, -1, 0, MaxInt}}
    \cup {ArrayV(<<>>), ArrayV(<<BoolV(TRUE), StrV(<<"a", "\"">>)>>), MapV(<<>>),
          StructV("T", [k \in {<<"a">>, <<"b">>} |-> IntV(1)]),
          MapV([k \in {<<"b">>, <<"a", "b">>, <<"\"">>} |-> ArrayV(<<IntV(12), NullV>>)])}

MCResponses ==
  LET bodies == {<<>>, <<"a">>, <<Crlf, Crlf, "a">>, <<"a", Crlf, Crlf, "Content-Length", ": ", "0", Crlf, Crlf>>}
  IN  {PlainTextResponse(status, <<"a">>) : status \in {400, 404, 500}}
      \cup {HttpResponse(<<[int |-> 201], StrV(body)>>).val.response : body \in bodies}
      \cup {HttpTextResponse(<<[int |-> 200], StrV(body)>>).val.response : body \in bodies}
      \cup {HttpJsonResponse(<<[int |-> 405], JsonV(v)>>).val.response
            : v \in {NullV, StrV(<<"\n", "\n">>), ArrayV(<<>>)}}

Code(op, s) == [code |-> op, string |-> s, int |-> "7", bool |-> op = "PushBool",
                args |-> "1", index |-> "0", target |-> "3"]

MCModules ==
  {<<>>}
    \cup {<<[name |-> s, parameters |-> <<s>>, instructions |-> <<Code("PushString", s)>>]>>
          : s \in Texts \cup {<<"a", " ">>}}
    \cup {<<[name |-> <<"a">>, parameters |-> <<>>, instructions |-> <<Code(op, <<"b">>)>>]>> : op \in OpCodes}
    \cup {<<[name |-> <<"a">>, parameters |-> <<<<"a">>, <<"b">>>>, instructions |-> <<>>],
            [name |-> <<"b">>, parameters |-> <<>>,
             instructions |-> <<Code("Jump", <<>>), Code("Return", <<"\\">>)>>]>>}
=============================================================================
