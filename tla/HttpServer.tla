----------------------------- MODULE HttpServer -----------------------------
(***************************************************************************)
(* The blocking HTTP server (src/http/http_server.cpp): compile once, then *)
(* accept a connection, receive until one request is complete, run it      *)
(* through the pipeline, send the response, close, and accept the next.    *)
(*                                                                         *)
(* The clients and the network are the environment: connections queue in   *)
(* the listen backlog, bytes arrive in pieces of any size, a client may    *)
(* shut its side down or be lost at any moment.                            *)
(***************************************************************************)
EXTENDS HttpMessage, HttpRouter, FiniteSets

CONSTANTS
  Client,           \* connections, one request each
  NoClient,
  Scenarios,        \* what a run may start with: [program, limit, message]
  Handler,          \* config.handlerName
  Outcome(_, _),    \* handler name, request -> a response, or NoResponse
  NoResponse,
  MaxBytes,         \* config.maxRequestBytes
  BufferSize,       \* units one recv returns at most
  Pieces,           \* units a response is sent in
  AcceptMayFail     \* whether accept is ever to fail

ASSUME ServerAssumption ==
  /\ NoClient \notin Client
  /\ \A s \in Scenarios : s.limit \in Nat /\ s.message \in [Client -> Seq(Token)]
  /\ MaxBytes \in Nat /\ MaxBytes <= SizeMax   \* both are a std::size_t
  /\ BufferSize \in Nat \ {0}
  /\ Pieces \in Nat \ {0}

\* SEM002: a program with two functions of one name is not served.
ASSUME NamesAssumption ==
  \A s \in Scenarios :
    LET fs == s.program.functions
    IN  /\ DOMAIN fs \subseteq Nat
        /\ \A f, g \in DOMAIN fs : fs[f].name = fs[g].name => f = g

VARIABLES
  program,   \* the program at config.sourcePath
  limit,     \* config.maxConnections, 0 for no limit
  pc,        \* where run() is: "start", "accept", "recv", "send", "stopped"
  serving,   \* clientFd
  buffer,    \* the request received so far (readHttpRequestFromSocket)
  taken,     \* how much recv has taken from the connection served
  response,  \* what is being sent
  pieces,    \* how much of it has been sent
  handled,   \* handledConnections
  message,   \* client -> what it means to send; <<>>: it stays away
  state,     \* client -> "new", "queued", "open", "closed"
  arrived,   \* client -> how much of its message the server's host has
  shut,      \* client -> its side is shut down (recv returns 0 after the rest)
  lost,      \* client -> the connection is lost (recv and send fail)
  backlog,   \* connections not yet accepted
  reply      \* client -> <<>>, or <<response, pieces received>>

config == <<program, limit>>
serverVars == <<config, pc, serving, buffer, taken, response, pieces, handled>>
clientVars == <<message, arrived, shut, lost>>
vars == <<serverVars, clientVars, state, backlog, reply>>

Error(status) == [status |-> status, of |-> <<>>]

-----------------------------------------------------------------------------
(* The pipeline (src/http/http_pipeline.cpp): parse, route, run, answer.   *)

\* The handlers for the target of a parsed request: one, or none.
FindHandler(served, target) ==
  IF TableRoutes(served) = {} THEN {Handler} ELSE FindRoute(served, target)

ExecuteHandler(handler, request) ==
  LET r == Outcome(handler, request)
  IN  IF r = NoResponse THEN Error(500) ELSE r

HandleRawHttpRequest(served, raw) ==
  LET parsed == ParseHttpRequest(raw)
  IN  IF ~parsed.ok THEN Error(400)
      ELSE IF FindHandler(served, parsed.target) = {} THEN Error(404)
      ELSE ExecuteHandler(CHOOSE h \in FindHandler(served, parsed.target) : TRUE, parsed)

-----------------------------------------------------------------------------
(* The server.                                                             *)

\* Until the server listens it answers nobody; socket, bind and listen may
\* fail too.
Start ==
  /\ pc = "start"
  /\ \/ pc' = "stopped"
     \/ MaxBytes > 0 /\ ProgramServes(program, Handler) /\ pc' = "accept"
  /\ UNCHANGED <<config, serving, buffer, taken, response, pieces, handled,
                 clientVars, state, backlog, reply>>

\* Mutation: one connection too many.
OneOverLimit == limit = 0 \/ handled <= limit

UnderLimit == limit = 0 \/ handled < limit

\* Mutation: what the last connection sent stays in the buffer.
AcceptKeepingBuffer ==
  /\ pc = "accept"
  /\ UnderLimit
  /\ backlog # <<>>
  /\ serving' = Head(backlog)
  /\ backlog' = Tail(backlog)
  /\ state' = [state EXCEPT ![Head(backlog)] = "open"]
  /\ taken' = 0
  /\ pc' = "recv"
  /\ UNCHANGED <<config, buffer, response, pieces, handled, clientVars, reply>>

\* Mutation: the last one to come is served first.
AcceptLast ==
  /\ pc = "accept"
  /\ UnderLimit
  /\ backlog # <<>>
  /\ serving' = backlog[Len(backlog)]
  /\ backlog' = SubSeq(backlog, 1, Len(backlog) - 1)
  /\ state' = [state EXCEPT ![backlog[Len(backlog)]] = "open"]
  /\ buffer' = <<>>
  /\ taken' = 0
  /\ pc' = "recv"
  /\ UNCHANGED <<config, response, pieces, handled, clientVars, reply>>

Accept ==
  /\ pc = "accept"
  /\ UnderLimit
  /\ backlog # <<>>
  /\ serving' = Head(backlog)
  /\ backlog' = Tail(backlog)
  /\ state' = [state EXCEPT ![Head(backlog)] = "open"]
  /\ buffer' = <<>>
  /\ taken' = 0
  /\ pc' = "recv"
  /\ UNCHANGED <<config, response, pieces, handled, clientVars, reply>>

\* run() returns: accept failed, or the limit is reached.
Stop ==
  /\ pc = "accept"
  /\ pc' = "stopped"
  /\ UNCHANGED <<config, serving, buffer, taken, response, pieces, handled,
                 clientVars, state, backlog, reply>>

AcceptFails == AcceptMayFail /\ UnderLimit /\ Stop

LimitReached == ~UnderLimit /\ Stop

\* Leave the receive loop with the response r.
Answer(r) ==
  /\ response' = r
  /\ pieces' = 0
  /\ pc' = "send"
  /\ UNCHANGED <<config, serving, handled, clientVars, state, backlog, reply>>

\* The loop condition: the byte limit is looked at before each recv only.
Receiving == pc = "recv" /\ Len(buffer) < MaxBytes

\* One more piece of what has arrived.
Recv ==
  /\ Receiving
  /\ ~lost[serving]
  /\ \E n \in 1 .. BufferSize :
       /\ taken + n <= arrived[serving]
       /\ buffer' = buffer \o SubSeq(message[serving], taken + 1, taken + n)
       /\ taken' = taken + n
  /\ IF HasCompleteRequest(buffer')
     THEN Answer(HandleRawHttpRequest(program, buffer'))
     ELSE UNCHANGED <<config, pc, serving, response, pieces, handled,
                      clientVars, state, backlog, reply>>

\* Mutation: an empty connection is asked again and again.
RecvEndAgain ==
  /\ Receiving
  /\ ~lost[serving]
  /\ shut[serving] /\ taken = arrived[serving]
  /\ buffer # <<>>
  /\ Answer(IF HasCompleteRequest(buffer) THEN HandleRawHttpRequest(program, buffer) ELSE Error(400))
  /\ UNCHANGED <<buffer, taken>>

\* recv returns 0: the client is done and everything it sent has been read.
RecvEnd ==
  /\ Receiving
  /\ ~lost[serving]
  /\ shut[serving] /\ taken = arrived[serving]
  /\ Answer(IF HasCompleteRequest(buffer) THEN HandleRawHttpRequest(program, buffer) ELSE Error(400))
  /\ UNCHANGED <<buffer, taken>>

RecvFails ==
  /\ Receiving
  /\ lost[serving]
  /\ Answer(Error(400))
  /\ UNCHANGED <<buffer, taken>>

TooLarge ==
  /\ pc = "recv"
  /\ Len(buffer) >= MaxBytes
  /\ Answer(Error(400))
  /\ UNCHANGED <<buffer, taken>>

SendPiece ==
  /\ pc = "send"
  /\ pieces < Pieces
  /\ ~lost[serving]
  /\ pieces' = pieces + 1
  /\ reply' = [reply EXCEPT ![serving] = <<response, pieces + 1>>]
  /\ UNCHANGED <<config, pc, serving, buffer, taken, response, handled,
                 clientVars, state, backlog>>

\* Mutation: the descriptor is not forgotten.
CloseKeepingClient ==
  /\ pc = "send"
  /\ pieces = Pieces \/ lost[serving]
  /\ state' = [state EXCEPT ![serving] = "closed"]
  /\ handled' = handled + 1
  /\ pc' = "accept"
  /\ UNCHANGED <<config, serving, buffer, taken, response, pieces, clientVars, backlog, reply>>

\* All is sent, or send failed: the result of sendAll is not looked at.
Close ==
  /\ pc = "send"
  /\ pieces = Pieces \/ lost[serving]
  /\ state' = [state EXCEPT ![serving] = "closed"]
  /\ serving' = NoClient
  /\ handled' = handled + 1
  /\ pc' = "accept"
  /\ UNCHANGED <<config, buffer, taken, response, pieces, clientVars, backlog, reply>>

Server ==
  \/ Start \/ Accept \/ LimitReached \/ Recv \/ RecvEnd \/ RecvFails \/ TooLarge
  \/ SendPiece \/ Close

-----------------------------------------------------------------------------
(* The clients and the network.                                            *)

Connect(c) ==
  /\ pc \notin {"start", "stopped"}
  /\ state[c] = "new" /\ message[c] # <<>>
  /\ state' = [state EXCEPT ![c] = "queued"]
  /\ backlog' = Append(backlog, c)
  /\ UNCHANGED <<serverVars, clientVars, reply>>

Live(c) == state[c] \in {"queued", "open"} /\ ~lost[c] /\ ~shut[c]

Arrive(c) ==
  /\ Live(c)
  /\ arrived[c] < Len(message[c])
  /\ arrived' = [arrived EXCEPT ![c] = @ + 1]
  /\ UNCHANGED <<serverVars, message, shut, lost, state, backlog, reply>>

\* The client shuts its side down, with or without all of its message sent.
Shut(c) ==
  /\ Live(c)
  /\ shut' = [shut EXCEPT ![c] = TRUE]
  /\ UNCHANGED <<serverVars, message, arrived, lost, state, backlog, reply>>

Lose(c) ==
  /\ state[c] \in {"queued", "open"} /\ ~lost[c]
  /\ lost' = [lost EXCEPT ![c] = TRUE]
  /\ UNCHANGED <<serverVars, message, arrived, shut, state, backlog, reply>>

Network == \E c \in Client : Connect(c) \/ Arrive(c) \/ Shut(c) \/ Lose(c)

-----------------------------------------------------------------------------

Init ==
  /\ \E s \in Scenarios : program = s.program /\ limit = s.limit /\ message = s.message
  /\ pc = "start"
  /\ serving = NoClient
  /\ buffer = <<>>
  /\ taken = 0
  /\ response = NoResponse
  /\ pieces = 0
  /\ handled = 0
  /\ state = [c \in Client |-> "new"]
  /\ arrived = [c \in Client |-> 0]
  /\ shut = [c \in Client |-> FALSE]
  /\ lost = [c \in Client |-> FALSE]
  /\ backlog = <<>>
  /\ reply = [c \in Client |-> <<>>]

Next == Server \/ AcceptFails \/ Network

Spec == Init /\ [][Next]_vars

\* The loop of run() takes its next step whenever no system call blocks it, and
\* clients send what they mean to send.
Patience == WF_vars(Server) /\ \A c \in Client : WF_vars(Arrive(c))

PatientSpec == Spec /\ Patience

-----------------------------------------------------------------------------

\* The server holds one open connection from accept to close, and none else.
TypeOK ==
  /\ pc \in {"start", "accept", "recv", "send", "stopped"}
  /\ {c \in Client : state[c] = "open"} = {serving} \ {NoClient}
  /\ pc \in {"recv", "send"} <=> serving \in Client
  /\ buffer \in Seq(Token)
  /\ Len(buffer) < MaxBytes + BufferSize
  /\ pieces \in 0 .. Pieces
  /\ handled \in Nat
  /\ \A c \in Client : arrived[c] \in 0 .. Len(message[c])

\* Connections do not mix: what a client receives is the error response or is
\* computed from the beginning of what this client sent, nothing else.
OwnAnswer ==
  \A c \in Client : reply[c] # <<>> =>
    reply[c][1] \in {Error(400)} \cup
      {HandleRawHttpRequest(program, SubSeq(message[c], 1, k)) : k \in 1 .. arrived[c]}

\* A message that says where it ends: one empty line, and a body as long as
\* the one Content-Length line says, or none; within the byte limit.
Framed(m) ==
  LET ends == Where(m, CRLF) \cup Where(m, LF)
  IN  /\ Len(m) <= MaxBytes
      /\ \E e \in ends :
           LET ls == {i \in DOMAIN m : IsLength(m[i])}
           IN  /\ ends = {e}
               /\ \/ ls = {} /\ e = Len(m)
                  \/ \E i \in 1 .. e : ls = {i} /\ m[i].length = Len(m) - e

\* However the network cuts a framed message into pieces, its answer is the one
\* to the whole of it, and it is sent in full before the connection is closed.
WholeAnswer ==
  \A c \in Client :
    Framed(message[c]) /\ arrived[c] = Len(message[c]) /\ state[c] = "closed" /\ ~lost[c]
      => reply[c] = <<HandleRawHttpRequest(program, message[c]), Pieces>>

\* The analyzer's view of the routes and the router's agree in every program
\* that is served: each handler a request can reach takes a request and returns
\* a response, and each route the analyzer checked leads to its function.
HandlersFit ==
  pc \notin {"start", "stopped"} =>
    LET fs == program.functions
    IN  /\ \A target \in Target, f \in DOMAIN fs :
             fs[f].name \in FindHandler(program, target) => IsHandler(fs[f])
        /\ \A r \in AnalyzerRoutes(program) :
             FindHandler(program, TargetOf(Annotated(program, r))) = {fs[r[1]].name}

\* The right answers to what client c asks of a program.
RightAnswers(asked, c) ==
  {Error(400)} \cup
    {HandleRawHttpRequest(asked.program, SubSeq(asked.message[c], 1, k)) : k \in 1 .. Len(asked.message[c])}

Service == INSTANCE HttpService WITH
  Right  <- RightAnswers,
  asked  <- [program |-> program, message |-> message],
  phase  <- CASE pc = "start" -> "down" [] pc = "stopped" -> "over" [] OTHER -> "up",
  line   <- (IF serving = NoClient THEN <<>> ELSE <<serving>>) \o backlog,
  served <- {c \in Client : state[c] = "closed"},
  answer <- [c \in Client |-> IF state[c] = "closed" THEN reply[c] ELSE <<>>]

\* The server implements the abstract service: a connection is served when it is
\* closed, in the order of connecting, once, and with one right answer or a part of it.
ImplementsService == Service!Spec

\* No more connections are accepted than config.maxConnections.
ConnectionLimit ==
  limit # 0 => Cardinality({c \in Client : state[c] \in {"open", "closed"}}) <= limit

\* Whoever connects is answered or at least dismissed, or the server stops, if clients
\* shut their side down in the end.
EveryoneServed ==
  (\A c \in Client : WF_vars(Shut(c))) =>
    \A c \in Client : state[c] = "queued" ~> state[c] = "closed" \/ pc = "stopped"

\* The server sees the end of a framed message: a client that sends one and
\* waits for the answer without shutting its side down is not kept waiting.
FramedIsAnswered ==
  \A c \in Client : state[c] = "open" /\ Framed(message[c]) ~> state[c] = "closed"
=============================================================================
