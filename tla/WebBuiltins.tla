---------------------------- MODULE WebBuiltins ----------------------------
(***************************************************************************)
(* The json:: and http:: builtins (src/runtime/runtime.cpp), and the text  *)
(* an http_response is sent as (src/http/http_message.cpp).  Strings are   *)
(* sequences of characters, as in JsonText.                                *)
(***************************************************************************)
EXTENDS JsonText, StdBuiltins

\* The alternatives of Value these builtins make, beside JsonV of JsonText.
RequestV(method, path, body) == [request |-> [method |-> method, path |-> path, body |-> body]]
ResponseV(status, headers, body) ==
  [response |-> [status |-> status, headers |-> headers, body |-> body]]

IsRequestV(v)  == DOMAIN v = {"request"}
IsResponseV(v) == DOMAIN v = {"response"}

AreStrings(args) == \A i \in DOMAIN args : IsStr(args[i])

-----------------------------------------------------------------------------
(* json::                                                                  *)

JsonParseCall(args) ==
  LET parsed == JsonParse(args[1].str)
  IN  Given(IsStr(args[1]) /\ parsed.ok, JsonV(parsed.value))

JsonStringifyCall(args) == Given(~IsRequestV(args[1]) /\ ~IsResponseV(args[1]), StrV(JsonStringify(args[1])))

IsJsonObject(v) == IsJson(v) /\ IsMap(v.json)

JsonHas(args) ==
  Given(IsJsonObject(args[1]) /\ IsStr(args[2]), BoolV(args[2].str \in DOMAIN args[1].json.map))

\* findJsonObjectEntry.
HasEntry(args) ==
  IsJsonObject(args[1]) /\ IsStr(args[2]) /\ args[2].str \in DOMAIN args[1].json.map
EntryOf(args) == args[1].json.map[args[2].str]

\* get_int, get_string, get_bool: an entry of another kind is refused.
JsonGet(kind, args) == Given(HasEntry(args) /\ DOMAIN EntryOf(args) = {kind}, EntryOf(args))
JsonGetJson(args)   == Given(HasEntry(args), JsonV(EntryOf(args)))

-----------------------------------------------------------------------------
(* http::                                                                  *)

HttpResponse(args) ==
  Given(IsInt(args[1]) /\ IsStr(args[2]), ResponseV(args[1].int, <<>>, args[2].str))
HttpTextResponse(args) ==
  Given(IsInt(args[1]) /\ IsStr(args[2]), ResponseV(args[1].int, "Content-Type" :> "text/plain", args[2].str))
HttpJsonResponse(args) ==
  Given(IsInt(args[1]) /\ IsJson(args[2]),
        ResponseV(args[1].int, "Content-Type" :> "application/json", JsonString(args[2])))

HttpStatus(args) == Given(IsResponseV(args[1]), IntV(args[1].response.status))
HttpBody(args)   == Given(IsResponseV(args[1]), StrV(args[1].response.body))
HttpHasHeader(args) ==
  Given(IsResponseV(args[1]) /\ IsStr(args[2]), BoolV(args[2].str \in DOMAIN args[1].response.headers))
HttpHeader(args) ==
  Given(IsResponseV(args[1]) /\ IsStr(args[2]) /\ args[2].str \in DOMAIN args[1].response.headers,
        StrV(args[1].response.headers[args[2].str]))

HttpRequest(args) == Given(AreStrings(args), RequestV(args[1].str, args[2].str, args[3].str))
HttpMethod(args)  == Given(IsRequestV(args[1]), StrV(args[1].request.method))
HttpPath(args)    == Given(IsRequestV(args[1]), StrV(args[1].request.path))
HttpRequestBody(args) == Given(IsRequestV(args[1]), StrV(args[1].request.body))
HttpIsMethod(args) ==
  Given(IsRequestV(args[1]) /\ IsStr(args[2]), BoolV(args[1].request.method = args[2].str))
HttpIsPath(args) ==
  Given(IsRequestV(args[1]) /\ IsStr(args[2]), BoolV(args[1].request.path = args[2].str))
HttpIsRoute(args) ==
  Given(IsRequestV(args[1]) /\ AreStrings(Tail(args)),
        BoolV(args[1].request.method = args[2].str /\ args[1].request.path = args[3].str))

\* http::json_body takes escapes out of the whole body first, as json::parse.
HttpJsonBody(args) ==
  IF IsRequestV(args[1]) THEN JsonParseCall(<<StrV(args[1].request.body)>>) ELSE Refuses

-----------------------------------------------------------------------------
(* The answer as it is sent.  A line break is one symbol, and so is a      *)
(* number, a phrase, a header's name or its value.                         *)

Crlf == "\r\n"

ReasonPhrase(status) ==
  CASE status = 201 -> "Created" [] status = 204 -> "No Content" [] status = 400 -> "Bad Request"
    [] status = 404 -> "Not Found" [] status = 405 -> "Method Not Allowed"
    [] status = 500 -> "Internal Server Error" [] OTHER -> "OK"

\* The headers sent, in the order of their names; those a builtin sets, the
\* length of the body, and Connection unless it was set.
HeaderNames == <<"Connection", "Content-Length", "Content-Type">>
SentHeaders(r) ==
  ("Content-Length" :> ToString(Len(r.body))) @@ r.headers @@ ("Connection" :> "close")

HeaderLines(headers) ==
  FlattenSeq([i \in DOMAIN HeaderNames |->
    IF HeaderNames[i] \in DOMAIN headers THEN <<HeaderNames[i], ": ", headers[HeaderNames[i]], Crlf>>
    ELSE <<>>])

\* Mutation: an empty body is sent without its length.
SerializeUnlessEmpty(r) ==
  LET headers == IF r.body = <<>> THEN r.headers @@ ("Connection" :> "close") ELSE SentHeaders(r)
  IN  <<"HTTP/1.1 ", ToString(r.status), ReasonPhrase(r.status), Crlf>>
      \o HeaderLines(headers) \o <<Crlf>> \o r.body

serializeHttpResponse(r) ==
  <<"HTTP/1.1 ", ToString(r.status), ReasonPhrase(r.status), Crlf>>
  \o HeaderLines(SentHeaders(r)) \o <<Crlf>> \o r.body

\* makePlainTextResponse: what the pipeline answers itself.
PlainTextResponse(status, body) ==
  [status |-> status, headers |-> "Content-Type" :> "text/plain", body |-> body]
=============================================================================
