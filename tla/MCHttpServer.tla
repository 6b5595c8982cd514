---------------------------- MODULE MCHttpServer ----------------------------
(* Clients, messages and programs for model checking the server.           *)
EXTENDS HttpServer

CONSTANT c1  \* a client

MCTarget == {<<"GET", "/">>, <<"POST", "/">>, <<"GET", "/x">>}
MCAbsolute(path) == path # "x"

Get  == RequestLine(<<"GET", "/">>)
Post == RequestLine(<<"POST", "/">>)
Body == NoColon          \* a unit of body

(* What clients send: six units are the limit.                             *)

Sound == {
  <<Get, LF>>,
  <<Get, Header, CRLF>>,
  <<Post, LengthLine(1), CRLF, Body>>,
  <<Post, LengthLine(3), LF, Body, Header, Body>>,          \* exactly the limit
  <<RequestLine(<<"GET", "/x">>), LengthLine(0), CRLF>> }   \* no route leads there

Odd == {
  <<Get, Header>>,                                          \* no end of header
  <<Header, Get, LF>>,                                      \* no request line
  <<Get, Get, LF>>,                                         \* a line without colon
  <<Post, LengthLine(Unreadable), LF, Body>>,
  <<Post, LengthLine(2), LF, Body>>,                        \* body too short
  <<Post, LengthLine(1), LengthLine(2), LF, Body, Body>>,   \* two lengths
  <<Post, LengthLine(14), LF, Body>>,                       \* the sum wraps
  <<Post, LengthLine(2), LF, Body, CRLF>>,                  \* CRLF CRLF in the body
  <<Post, CRLF, Body, Body>>,                               \* body without length
  <<Get, LF, Get, LF>>,                                     \* two requests at once
  <<Post, LengthLine(4), LF, Body, Body, Body, Body>>,      \* one over the limit
  <<Get, Header, Header, Header, Header, Header, Header, LF>> }

(* What is served.                                                         *)

Route(q, verb, path) == [qualifier |-> q, verb |-> verb, args |-> <<[kind |-> "string", value |-> path]>>]

Function(name, annotations) ==
  [name |-> name, params |-> <<"http_request">>, returns |-> "http_response",
   annotations |-> annotations]
Main == [name |-> "main", params |-> <<>>, returns |-> "int", annotations |-> <<>>]

Imports(names) == [q \in names |-> IF q = "log" THEN "logging" ELSE "http"]

Source(names, functions) == [imports |-> Imports(names), functions |-> <<Main>> \o functions]

Handle == Function("handle", <<>>)
Plainly   == Source({"http"}, <<Handle>>)
Routed    == Source({"http"}, <<Function("root", <<Route("http", "get", "/")>>),
                                Function("save", <<Route("http", "post", "/")>>)>>)
Aliased   == Source({"web", "log"}, <<Handle, Function("root", <<Route("web", "get", "/"),
                                                                 Route("log", "get", "/")>>)>>)

Programs == {Plainly, Routed, Aliased,
  Source({}, <<>>),                                                         \* no handler
  Source({}, <<Function("root", <<Route("http", "get", "/")>>)>>),           \* not imported
  Source({"http"}, <<[Handle EXCEPT !.params = <<>>]>>),
  Source({"http"}, <<[Handle EXCEPT !.returns = "int"]>>),
  Source({"http"}, <<[Function("root", <<Route("http", "get", "/")>>) EXCEPT !.returns = "int"]>>),
  Source({"http"}, <<Function("root", <<Route("http", "get", "x")>>)>>),
  Source({"http"}, <<Function("root", <<[Route("http", "get", "/") EXCEPT !.args = <<>>]>>)>>),
  Source({"http"}, <<Function("root", <<Route("http", "get", "/")>>),
                     Function("copy", <<Route("http", "get", "/")>>)>>),
  Source({"http"}, <<Function("root", <<Route("http", "get", "/"), Route("http", "get", "/x")>>)>>),
  Source({"http"}, <<Function("root", <<Route("http", "get", "/"), Route("http", "post", "/")>>)>>),
  \* the same module under two names
  Source({"http", "web"}, <<Function("root", <<Route("http", "get", "/")>>),
                            Function("copy", <<Route("web", "get", "/")>>)>>) }

\* A handler answers with its name and what it was sent; `save` fails on some.
MCOutcome(handler, request) ==
  IF handler = "save" /\ request.body = <<Body, Body>> THEN NoResponse
  ELSE [status |-> 200, of |-> <<handler, request>>]

Scenario(prog, max, sent) == [program |-> prog, limit |-> max, message |-> sent]

\* Every message, to every program, by one client.
Requests ==
  {Scenario(prog, 0, [c \in Client |-> IF c = c1 THEN m ELSE <<>>]) : prog \in Programs, m \in Sound \cup Odd}

\* All clients at once, with and without a limit.
Crowds ==
  {Scenario(prog, max, sent) :
     prog \in {Plainly, Routed}, max \in {0, 1},
     sent \in [Client -> {<<Get, LF>>, <<Post, LengthLine(2), LF, Body>>}]}

MCScenarios == Requests \cup Crowds
=============================================================================
