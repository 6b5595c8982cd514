-------------------------- MODULE HttpServer_proofs --------------------------
(***************************************************************************)
(* The server keeps its connections and their answers apart, and           *)
(* implements HttpService, for any number of clients, any messages,        *)
(* programs and limits.                                                    *)
(***************************************************************************)
EXTENDS HttpServer, TLAPS, SequenceTheorems, FiniteSetTheorems

Closed == {c \in Client : state[c] = "closed"}

Types ==
  /\ limit \in Nat
  /\ message \in [Client -> Seq(Token)]
  /\ state \in [Client -> {"new", "queued", "open", "closed"}]
  /\ arrived \in [Client -> Nat]
  /\ reply = [c \in Client |-> reply[c]]
  /\ serving \in Client \cup {NoClient}
  /\ taken \in Nat

\* The backlog holds connections that are queued, each once.
Queue ==
  /\ backlog \in Seq(Client)
  /\ \A i \in 1 .. Len(backlog) : state[backlog[i]] = "queued"
  /\ \A i, j \in 1 .. Len(backlog) : backlog[i] = backlog[j] => i = j

\* What may be answered to c.
Own(c) ==
  {Error(400)} \cup {HandleRawHttpRequest(program, SubSeq(message[c], 1, k)) : k \in 1 .. arrived[c]}

\* What has been received and sent, and to whom.
Receipt ==
  /\ pc = "recv" => taken <= arrived[serving] /\ buffer = SubSeq(message[serving], 1, taken)
  /\ pc = "send" => response \in Own(serving)
  /\ pc = "send" => reply[serving] = IF pieces = 0 THEN <<>> ELSE <<response, pieces>>
  /\ pc = "recv" => reply[serving] = <<>>
  /\ \A c \in Client : state[c] \in {"new", "queued"} => reply[c] = <<>>
  /\ \A c \in Client : reply[c] = <<>> \/ \E r \in Own(c), n \in 1 .. Pieces : reply[c] = <<r, n>>

Count ==
  /\ IsFiniteSet(Closed) /\ handled = Cardinality(Closed)
  /\ limit # 0 => handled <= limit
  /\ pc \in {"recv", "send"} => UnderLimit

\* The inductive invariant.
ServerInv == TypeOK /\ Types /\ Queue /\ Receipt /\ Count

-----------------------------------------------------------------------------

\* A request of no bytes is not complete.
LEMMA NothingIsIncomplete == ~HasCompleteRequest(<<>>)
<1>1. Where(<<>>, CRLF) = {} /\ Where(<<>>, LF) = {}
  BY DEF Where
<1>. QED
  BY <1>1 DEF HasCompleteRequest, HeaderEnd

\* What recv adds continues what there is.
LEMMA BufferGrows ==
  ASSUME NEW m \in Seq(Token), NEW t \in Nat, NEW n \in Nat, t + n <= Len(m)
  PROVE  /\ SubSeq(m, 1, t) \o SubSeq(m, t + 1, t + n) = SubSeq(m, 1, t + n)
         /\ SubSeq(m, 1, t) \in Seq(Token) /\ Len(SubSeq(m, 1, t)) = t
<1>1. Len(m) \in Nat /\ \A i \in 1 .. Len(m) : m[i] \in Token
  BY LenProperties, ElementOfSeq
<1>2. SubSeq(m, 1, t) \o SubSeq(m, t + 1, t + n) = SubSeq(m, 1, t + n)
  <2>1. 1 \in 1 .. Len(m) + 1 /\ t \in 0 .. Len(m) /\ t + n \in t .. Len(m)
    BY <1>1
  <2>. QED
    BY <2>1, ConcatAdjacentSubSeq
<1>3. SubSeq(m, 1, t) \in Seq(Token) /\ Len(SubSeq(m, 1, t)) = t
  BY <1>1, SubSeqProperties
<1>. QED
  BY <1>2, <1>3

\* A queue without its head holds the rest, each once.
LEMMA RestOfQueue ==
  ASSUME NEW q \in Seq(Client), q # <<>>,
         \A i, j \in 1 .. Len(q) : q[i] = q[j] => i = j
  PROVE  /\ Head(q) \in Client /\ Head(q) = q[1] /\ Len(q) \in Nat \ {0}
         /\ Tail(q) \in Seq(Client) /\ Len(Tail(q)) = Len(q) - 1
         /\ \A i \in 1 .. Len(Tail(q)) : Tail(q)[i] = q[i + 1] /\ Tail(q)[i] # Head(q)
         /\ \A i, j \in 1 .. Len(Tail(q)) : Tail(q)[i] = Tail(q)[j] => i = j
<1>1. Len(q) \in Nat \ {0}
  BY LenProperties, EmptySeq
<1>2. Head(q) = q[1] /\ Head(q) \in Client
  BY <1>1, HeadTailProperties
<1>3. /\ Tail(q) \in Seq(Client) /\ Len(Tail(q)) = Len(q) - 1
      /\ \A i \in 1 .. Len(Tail(q)) : Tail(q)[i] = q[i + 1]
  BY HeadTailProperties
<1>. QED
  BY <1>1, <1>2, <1>3

\* A queue with one more at its end.
LEMMA LongerQueue ==
  ASSUME NEW q \in Seq(Client), NEW c \in Client,
         \A i, j \in 1 .. Len(q) : q[i] = q[j] => i = j,
         \A i \in 1 .. Len(q) : q[i] # c
  PROVE  /\ Append(q, c) \in Seq(Client) /\ Len(Append(q, c)) = Len(q) + 1 /\ Len(q) \in Nat
         /\ \A i \in 1 .. Len(q) : Append(q, c)[i] = q[i]
         /\ Append(q, c)[Len(q) + 1] = c
         /\ \A i, j \in 1 .. Len(Append(q, c)) : Append(q, c)[i] = Append(q, c)[j] => i = j
<1>1. Len(q) \in Nat
  BY LenProperties
<1>2. /\ Append(q, c) \in Seq(Client) /\ Len(Append(q, c)) = Len(q) + 1
      /\ \A i \in 1 .. Len(q) : Append(q, c)[i] = q[i]
      /\ Append(q, c)[Len(q) + 1] = c
  BY AppendProperties
<1>. QED
  BY <1>1, <1>2

-----------------------------------------------------------------------------

LEMMA InitServer == Init => ServerInv
<1>. SUFFICES ASSUME Init PROVE ServerInv
  OBVIOUS
<1>1. PICK s \in Scenarios : program = s.program /\ limit = s.limit /\ message = s.message
  BY DEF Init
<1>2. limit \in Nat /\ message \in [Client -> Seq(Token)]
  BY <1>1, ServerAssumption DEF ServerAssumption
<1>3. \A c \in Client : Len(message[c]) \in Nat
  BY <1>2, LenProperties
<1>4. TypeOK
  BY <1>2, <1>3, ServerAssumption DEF Init, TypeOK, ServerAssumption
<1>5. Types
  BY <1>2 DEF Init, Types
<1>6. Queue
  BY DEF Init, Queue
<1>7. Receipt
  BY DEF Init, Receipt
<1>8. Count
  <2>1. Closed = {}
    BY DEF Init, Closed
  <2>. QED
    BY <1>2, <2>1, FS_EmptySet DEF Init, Count
<1>. QED
  BY <1>4, <1>5, <1>6, <1>7, <1>8 DEF ServerInv

\* Everything about the requests and who is waiting, unchanged.
Untouched == UNCHANGED <<config, message, state, reply, backlog, serving, handled>>

\* What may be answered only grows.
LEMMA OwnGrows ==
  ASSUME program' = program, message' = message, NEW c \in Client,
         arrived[c] \in Nat, arrived'[c] \in Nat, arrived[c] <= arrived'[c]
  PROVE  Own(c) \subseteq Own(c)'
  BY DEF Own

\* Steps that change neither connections nor replies keep the queue and the count.
LEMMA UntouchedKeeps ==
  ASSUME ServerInv, Untouched, pc' \in {"recv", "send"} => pc \in {"recv", "send"}
  PROVE  Queue' /\ Count'
<1>1. Queue'
  BY DEF ServerInv, Queue, Untouched
<1>2. Closed' = Closed
  BY DEF Untouched, Closed
<1>3. Count'
  BY <1>2 DEF ServerInv, Count, Untouched, UnderLimit, config
<1>. QED
  BY <1>1, <1>3

LEMMA StartKeeps ==
  ASSUME ServerInv, Start
  PROVE  ServerInv'
<1>. USE DEF Start, config, clientVars
<1>1. TypeOK'
  BY DEF ServerInv, TypeOK
<1>2. Types'
  BY DEF ServerInv, Types
<1>3. Queue' /\ Count'
  BY UntouchedKeeps DEF Untouched
<1>4. Receipt'
  <2>1. \A c \in Client : Own(c)' = Own(c)
    BY DEF Own
  <2>. QED
    BY <2>1 DEF ServerInv, Receipt
<1>. QED
  BY <1>1, <1>2, <1>3, <1>4 DEF ServerInv

LEMMA StopKeeps ==
  ASSUME ServerInv, Stop
  PROVE  ServerInv'
<1>. USE DEF Stop, config, clientVars
<1>1. TypeOK'
  BY DEF ServerInv, TypeOK
<1>2. Types'
  BY DEF ServerInv, Types
<1>3. Queue' /\ Count'
  BY UntouchedKeeps DEF Untouched
<1>4. Receipt'
  <2>1. \A c \in Client : Own(c)' = Own(c)
    BY DEF Own
  <2>. QED
    BY <2>1 DEF ServerInv, Receipt
<1>. QED
  BY <1>1, <1>2, <1>3, <1>4 DEF ServerInv

LEMMA AcceptKeeps ==
  ASSUME ServerInv, Accept
  PROVE  ServerInv'
<1>. USE DEF Accept, config, clientVars
<1>. DEFINE h == Head(backlog)
<1>1. backlog \in Seq(Client) /\ backlog # <<>>
      /\ \A i, j \in 1 .. Len(backlog) : backlog[i] = backlog[j] => i = j
  BY DEF ServerInv, Queue
<1>2. /\ h \in Client /\ h = backlog[1] /\ Len(backlog) \in Nat \ {0}
      /\ Tail(backlog) \in Seq(Client) /\ Len(Tail(backlog)) = Len(backlog) - 1
      /\ \A i \in 1 .. Len(Tail(backlog)) : Tail(backlog)[i] = backlog[i + 1] /\ Tail(backlog)[i] # h
      /\ \A i, j \in 1 .. Len(Tail(backlog)) : Tail(backlog)[i] = Tail(backlog)[j] => i = j
  BY <1>1, RestOfQueue
<1>3. state[h] = "queued" /\ serving = NoClient /\ h # NoClient
  BY <1>2, ServerAssumption DEF ServerInv, Queue, TypeOK, ServerAssumption
<1>4. state' = [state EXCEPT ![h] = "open"] /\ state \in [Client -> {"new", "queued", "open", "closed"}]
  BY DEF ServerInv, Types
<1>5. TypeOK'
  <2>1. {c \in Client : state[c] = "open"} = {}
    BY <1>3 DEF ServerInv, TypeOK
  <2>2. {c \in Client : state'[c] = "open"} = {h}
    BY <2>1, <1>2, <1>4
  <2>3. Len(<<>>) < MaxBytes + BufferSize
    BY ServerAssumption DEF ServerAssumption
  <2>. QED
    BY <1>2, <1>3, <2>2, <2>3 DEF ServerInv, TypeOK
<1>6. Types'
  BY <1>2, <1>4 DEF ServerInv, Types
<1>7. Queue'
  <2>1. \A i \in 1 .. Len(Tail(backlog)) : state'[Tail(backlog)[i]] = "queued"
    BY <1>2, <1>4, ElementOfSeq DEF ServerInv, Queue
  <2>. QED
    BY <1>2, <2>1 DEF Queue
<1>8. Receipt'
  <2>1. \A c \in Client : Own(c)' = Own(c)
    BY DEF Own
  <2>2. reply[h] = <<>>
    BY <1>2, <1>3 DEF ServerInv, Receipt
  <2>3. 0 <= arrived[h] /\ SubSeq(message[h], 1, 0) = <<>>
    BY <1>2, SubSeqEmpty DEF ServerInv, Types
  <2>. QED
    BY <1>2, <1>4, <2>1, <2>2, <2>3 DEF ServerInv, Receipt
<1>9. Count'
  <2>1. Closed' = Closed
    BY <1>2, <1>3, <1>4 DEF Closed
  <2>. QED
    BY <2>1 DEF ServerInv, Count, UnderLimit
<1>. QED
  BY <1>5, <1>6, <1>7, <1>8, <1>9 DEF ServerInv

\* The connection served while something is received.
LEMMA WhileReceiving ==
  ASSUME ServerInv, pc = "recv"
  PROVE  /\ serving \in Client /\ state[serving] = "open" /\ reply[serving] = <<>>
         /\ message[serving] \in Seq(Token)
         /\ arrived[serving] \in Nat /\ taken \in Nat /\ taken <= arrived[serving]
         /\ arrived[serving] <= Len(message[serving]) /\ Len(message[serving]) \in Nat
         /\ buffer = SubSeq(message[serving], 1, taken)
         /\ buffer \in Seq(Token) /\ Len(buffer) = taken
<1>1. serving \in Client /\ state[serving] = "open" /\ reply[serving] = <<>>
  BY ServerAssumption DEF ServerInv, TypeOK, Receipt, ServerAssumption
<1>2. /\ message[serving] \in Seq(Token)
      /\ arrived[serving] \in Nat /\ taken \in Nat /\ taken <= arrived[serving]
      /\ arrived[serving] <= Len(message[serving])
      /\ buffer = SubSeq(message[serving], 1, taken)
  BY <1>1 DEF ServerInv, TypeOK, Types, Receipt
<1>3. Len(message[serving]) \in Nat
  BY <1>2, LenProperties
<1>4. buffer \in Seq(Token) /\ Len(buffer) = taken
  <2>1. 0 \in Nat /\ taken + 0 <= Len(message[serving])
    BY <1>2, <1>3
  <2>. QED
    BY <1>2, <2>1, BufferGrows
<1>. QED
  BY <1>1, <1>2, <1>3, <1>4

\* Leaving the receive loop with an answer that is the client's own.
LEMMA AnswerKeeps ==
  ASSUME ServerInv, pc = "recv", NEW r, r \in Own(serving), Answer(r),
         buffer' \in Seq(Token), Len(buffer') < MaxBytes + BufferSize, taken' \in Nat
  PROVE  ServerInv'
<1>. USE DEF Answer, config, clientVars
<1>1. serving \in Client /\ reply[serving] = <<>>
  BY WhileReceiving
<1>2. TypeOK'
  BY ServerAssumption DEF ServerInv, TypeOK, ServerAssumption
<1>3. Types'
  BY DEF ServerInv, Types
<1>4. Queue' /\ Count'
  BY UntouchedKeeps DEF Untouched
<1>5. Receipt'
  <2>1. \A c \in Client : Own(c)' = Own(c)
    BY DEF Own
  <2>. QED
    BY <1>1, <2>1 DEF ServerInv, Receipt
<1>. QED
  BY <1>2, <1>3, <1>4, <1>5 DEF ServerInv

LEMMA RecvKeeps ==
  ASSUME ServerInv, Recv
  PROVE  ServerInv'
<1>. DEFINE m == message[serving]
<1>1. pc = "recv" /\ Len(buffer) < MaxBytes
  BY DEF Recv, Receiving
<1>2. PICK n \in 1 .. BufferSize :
         /\ taken + n <= arrived[serving]
         /\ buffer' = buffer \o SubSeq(m, taken + 1, taken + n)
         /\ taken' = taken + n
  BY DEF Recv
<1>3. /\ serving \in Client /\ m \in Seq(Token) /\ arrived[serving] \in Nat /\ taken \in Nat
      /\ arrived[serving] <= Len(m) /\ Len(m) \in Nat /\ reply[serving] = <<>>
      /\ buffer = SubSeq(m, 1, taken) /\ Len(buffer) = taken
  BY <1>1, WhileReceiving
<1>4. n \in Nat \ {0} /\ n <= BufferSize /\ BufferSize \in Nat /\ MaxBytes \in Nat
  BY <1>2, ServerAssumption DEF ServerAssumption
<1>5. /\ buffer' = SubSeq(m, 1, taken + n) /\ buffer' \in Seq(Token) /\ Len(buffer') = taken + n
      /\ taken' \in Nat /\ taken + n \in Nat
  <2>1. taken + n \in Nat /\ 0 \in Nat /\ taken + n <= Len(m) /\ (taken + n) + 0 <= Len(m)
    BY <1>2, <1>3, <1>4
  <2>2. buffer' = SubSeq(m, 1, taken + n)
    BY <1>2, <1>3, <1>4, <2>1, BufferGrows
  <2>3. SubSeq(m, 1, taken + n) \in Seq(Token) /\ Len(SubSeq(m, 1, taken + n)) = taken + n
    BY <1>3, <2>1, BufferGrows
  <2>. QED
    BY <1>2, <2>1, <2>2, <2>3
<1>6. Len(buffer') < MaxBytes + BufferSize
  BY <1>1, <1>3, <1>4, <1>5
<1>7. CASE HasCompleteRequest(buffer')
  <2>1. HandleRawHttpRequest(program, buffer') \in Own(serving)
    <3>1. taken + n \in 1 .. arrived[serving]
      BY <1>2, <1>3, <1>4
    <3>2. HandleRawHttpRequest(program, SubSeq(m, 1, taken + n)) \in Own(serving)
      BY <3>1 DEF Own
    <3>. QED
      BY <1>5, <3>2
  <2>2. Answer(HandleRawHttpRequest(program, buffer'))
    BY <1>7 DEF Recv
  <2>. QED
    BY <1>1, <1>5, <1>6, <2>1, <2>2, AnswerKeeps
<1>8. CASE ~HasCompleteRequest(buffer')
  <2>1. UNCHANGED <<config, pc, serving, response, pieces, handled, clientVars, state, backlog, reply>>
    BY <1>8 DEF Recv
  <2>. USE <2>1 DEF config, clientVars
  <2>2. TypeOK'
    BY <1>5, <1>6 DEF ServerInv, TypeOK
  <2>3. Types'
    BY <1>5 DEF ServerInv, Types
  <2>4. Queue' /\ Count'
    BY UntouchedKeeps DEF Untouched
  <2>5. Receipt'
    <3>1. \A c \in Client : Own(c)' = Own(c)
      BY DEF Own
    <3>2. taken' <= arrived'[serving'] /\ buffer' = SubSeq(message'[serving'], 1, taken')
      BY <1>2, <1>5
    <3>. QED
      BY <1>1, <3>1, <3>2 DEF ServerInv, Receipt
  <2>. QED
    BY <2>2, <2>3, <2>4, <2>5 DEF ServerInv
<1>. QED
  BY <1>7, <1>8

\* The three other ways out of the receive loop.
LEMMA LeavingKeeps ==
  ASSUME ServerInv, RecvEnd \/ RecvFails \/ TooLarge
  PROVE  ServerInv'
<1>1. pc = "recv" /\ buffer' = buffer /\ taken' = taken
  BY DEF RecvEnd, RecvFails, TooLarge, Receiving
<1>2. /\ serving \in Client /\ arrived[serving] \in Nat /\ taken \in Nat /\ taken <= arrived[serving]
      /\ buffer = SubSeq(message[serving], 1, taken) /\ buffer \in Seq(Token) /\ Len(buffer) = taken
  BY <1>1, WhileReceiving
<1>3. Len(buffer) < MaxBytes + BufferSize
  BY DEF ServerInv, TypeOK
<1>4. Error(400) \in Own(serving)
  BY DEF Own
<1>5. HasCompleteRequest(buffer) => HandleRawHttpRequest(program, buffer) \in Own(serving)
  <2>1. SUFFICES ASSUME HasCompleteRequest(buffer) PROVE taken # 0
    BY <1>2 DEF Own
  <2>2. taken = 0 => buffer = <<>>
    BY <1>2, EmptySeq
  <2>. QED
    BY <2>1, <2>2, NothingIsIncomplete
<1>6. PICK r \in Own(serving) : Answer(r)
  BY <1>4, <1>5 DEF RecvEnd, RecvFails, TooLarge
<1>. QED
  BY <1>1, <1>2, <1>3, <1>6, AnswerKeeps

LEMMA SendPieceKeeps ==
  ASSUME ServerInv, SendPiece
  PROVE  ServerInv'
<1>. USE DEF SendPiece, config, clientVars
<1>1. serving \in Client /\ state[serving] = "open" /\ serving # NoClient
  BY ServerAssumption DEF ServerInv, TypeOK, ServerAssumption
<1>2. pieces \in Nat /\ pieces + 1 \in 1 .. Pieces
  BY ServerAssumption DEF ServerInv, TypeOK, ServerAssumption
<1>3. TypeOK'
  BY <1>2 DEF ServerInv, TypeOK
<1>4. Types'
  BY DEF ServerInv, Types
<1>5. Queue'
  BY DEF ServerInv, Queue
<1>6. Receipt'
  <2>1. \A c \in Client : Own(c)' = Own(c)
    BY DEF Own
  <2>2. reply'[serving] = <<response, pieces + 1>> /\ \A c \in Client \ {serving} : reply'[c] = reply[c]
    BY <1>1 DEF ServerInv, Types
  <2>3. response \in Own(serving)
    BY DEF ServerInv, Receipt
  <2>. QED
    BY <1>1, <1>2, <2>1, <2>2, <2>3 DEF ServerInv, Receipt
<1>7. Count'
  <2>1. Closed' = Closed
    BY DEF Closed
  <2>. QED
    BY <2>1 DEF ServerInv, Count, UnderLimit
<1>. QED
  BY <1>3, <1>4, <1>5, <1>6, <1>7 DEF ServerInv

LEMMA CloseKeeps ==
  ASSUME ServerInv, Close
  PROVE  ServerInv' /\ Closed' = Closed \cup {serving}
<1>. USE DEF Close, config, clientVars
<1>1. serving \in Client /\ state[serving] = "open" /\ serving # NoClient
  BY ServerAssumption DEF ServerInv, TypeOK, ServerAssumption
<1>2. /\ state' = [state EXCEPT ![serving] = "closed"]
      /\ state \in [Client -> {"new", "queued", "open", "closed"}]
  BY DEF ServerInv, Types
<1>3. TypeOK'
  <2>1. {c \in Client : state'[c] = "open"} = {}
    BY <1>1, <1>2 DEF ServerInv, TypeOK
  <2>2. NoClient \notin Client
    BY ServerAssumption DEF ServerAssumption
  <2>3. handled + 1 \in Nat
    BY DEF ServerInv, TypeOK
  <2>. QED
    BY <2>1, <2>2, <2>3 DEF ServerInv, TypeOK
<1>4. Types'
  BY <1>1, <1>2 DEF ServerInv, Types
<1>5. Queue'
  <2>1. \A i \in 1 .. Len(backlog) : backlog[i] \in Client /\ state'[backlog[i]] = "queued"
    BY <1>1, <1>2, ElementOfSeq DEF ServerInv, Queue
  <2>. QED
    BY <2>1 DEF ServerInv, Queue
<1>6. Receipt'
  <2>1. \A c \in Client : Own(c)' = Own(c)
    BY DEF Own
  <2>. QED
    BY <1>1, <1>2, <2>1 DEF ServerInv, Receipt
<1>7. Closed' = Closed \cup {serving}
  BY <1>1, <1>2 DEF Closed
<1>8. Count'
  <2>1. serving \notin Closed
    BY <1>1 DEF Closed
  <2>2. IsFiniteSet(Closed') /\ Cardinality(Closed') = Cardinality(Closed) + 1
    BY <1>7, <2>1, FS_AddElement DEF ServerInv, Count
  <2>3. handled \in Nat /\ limit \in Nat
    BY DEF ServerInv, TypeOK, Types
  <2>. QED
    BY <2>2, <2>3 DEF ServerInv, Count, UnderLimit
<1>. QED
  BY <1>3, <1>4, <1>5, <1>6, <1>7, <1>8 DEF ServerInv

LEMMA ConnectKeeps ==
  ASSUME ServerInv, NEW c \in Client, Connect(c)
  PROVE  ServerInv' /\ \A i \in 1 .. Len(backlog) : backlog[i] # c
<1>. USE DEF Connect, serverVars, config, clientVars
<1>1. /\ state[c] = "new" /\ state' = [state EXCEPT ![c] = "queued"]
      /\ state \in [Client -> {"new", "queued", "open", "closed"}]
  BY DEF ServerInv, Types
<1>2. \A i \in 1 .. Len(backlog) : backlog[i] \in Client /\ state[backlog[i]] = "queued" /\ backlog[i] # c
  BY <1>1, ElementOfSeq DEF ServerInv, Queue
<1>3. /\ backlog' \in Seq(Client) /\ Len(backlog') = Len(backlog) + 1 /\ Len(backlog) \in Nat
      /\ \A i \in 1 .. Len(backlog) : backlog'[i] = backlog[i]
      /\ backlog'[Len(backlog) + 1] = c
      /\ \A i, j \in 1 .. Len(backlog') : backlog'[i] = backlog'[j] => i = j
  BY <1>2, LongerQueue DEF ServerInv, Queue
<1>4. TypeOK'
  <2>1. {d \in Client : state'[d] = "open"} = {d \in Client : state[d] = "open"}
    BY <1>1
  <2>. QED
    BY <2>1 DEF ServerInv, TypeOK
<1>5. Types'
  BY <1>1 DEF ServerInv, Types
<1>6. Queue'
  <2>1. \A i \in 1 .. Len(backlog') : state'[backlog'[i]] = "queued"
    BY <1>1, <1>2, <1>3
  <2>. QED
    BY <1>3, <2>1 DEF Queue
<1>7. Receipt'
  <2>1. \A d \in Client : Own(d)' = Own(d)
    BY DEF Own
  <2>2. \A d \in Client : state'[d] \in {"new", "queued"} => state[d] \in {"new", "queued"}
    BY <1>1
  <2>3. /\ pc' = pc /\ taken' = taken /\ arrived' = arrived /\ serving' = serving /\ buffer' = buffer
        /\ message' = message /\ response' = response /\ reply' = reply /\ pieces' = pieces
    OBVIOUS
  <2>4. pc \in {"recv", "send"} => serving \in Client
    BY DEF ServerInv, TypeOK
  <2>5. \A d \in Client : state'[d] \in {"new", "queued"} => reply'[d] = <<>>
    BY <2>2, <2>3 DEF ServerInv, Receipt
  <2>6. \A d \in Client : reply'[d] = <<>> \/ \E r \in Own(d)', n \in 1 .. Pieces : reply'[d] = <<r, n>>
    BY <2>1, <2>3 DEF ServerInv, Receipt
  <2>7. /\ pc' = "recv" => taken' <= arrived'[serving'] /\ buffer' = SubSeq(message'[serving'], 1, taken')
        /\ pc' = "recv" => reply'[serving'] = <<>>
        /\ pc' = "send" => response' \in Own(serving)'
        /\ pc' = "send" => reply'[serving'] = IF pieces' = 0 THEN <<>> ELSE <<response', pieces'>>
    BY <2>1, <2>3, <2>4 DEF ServerInv, Receipt
  <2>. QED
    BY <2>5, <2>6, <2>7 DEF Receipt
<1>8. Count'
  <2>1. Closed' = Closed
    BY <1>1 DEF Closed
  <2>. QED
    BY <2>1 DEF ServerInv, Count, UnderLimit
<1>. QED
  BY <1>2, <1>4, <1>5, <1>6, <1>7, <1>8 DEF ServerInv

LEMMA NetworkKeeps ==
  ASSUME ServerInv, NEW c \in Client, Arrive(c) \/ Shut(c) \/ Lose(c)
  PROVE  ServerInv'
<1>. USE DEF Arrive, Shut, Lose, serverVars, config
<1>1. /\ UNCHANGED <<program, limit, pc, serving, buffer, taken, response, pieces, handled,
                     message, state, backlog, reply>>
      /\ arrived' = arrived \/ (arrived[c] < Len(message[c]) /\ arrived' = [arrived EXCEPT ![c] = @ + 1])
  OBVIOUS
<1>2. /\ arrived \in [Client -> Nat] /\ \A d \in Client : Len(message[d]) \in Nat
      /\ \A d \in Client : arrived[d] <= Len(message[d])
  BY LenProperties DEF ServerInv, Types, TypeOK
<1>3. \A d \in Client : arrived'[d] \in Nat /\ arrived[d] <= arrived'[d] /\ arrived'[d] <= Len(message[d])
  BY <1>1, <1>2
<1>4. TypeOK'
  BY <1>1, <1>3 DEF ServerInv, TypeOK
<1>5. Types'
  BY <1>1, <1>2, <1>3 DEF ServerInv, Types
<1>6. Queue' /\ Count'
  BY <1>1, UntouchedKeeps DEF Untouched
<1>7. Receipt'
  <2>1. \A d \in Client : Own(d) \subseteq Own(d)'
    BY <1>1, <1>2, <1>3, OwnGrows
  <2>2. pc \in {"recv", "send"} => serving \in Client
    BY DEF ServerInv, TypeOK
  <2>3. pc = "recv" => taken <= arrived'[serving]
    BY <1>2, <1>3, <2>2 DEF ServerInv, Types, Receipt
  <2>. QED
    BY <1>1, <2>1, <2>2, <2>3 DEF ServerInv, Receipt
<1>. QED
  BY <1>4, <1>5, <1>6, <1>7 DEF ServerInv

\* Every step keeps the inductive invariant.
LEMMA StepKeeps == ServerInv /\ [Next]_vars => ServerInv'
<1>. SUFFICES ASSUME ServerInv, [Next]_vars PROVE ServerInv'
  OBVIOUS
<1>1. CASE UNCHANGED vars
  <2>. USE <1>1 DEF vars, serverVars, clientVars, config
  <2>1. TypeOK' /\ Types' /\ Queue'
    BY DEF ServerInv, TypeOK, Types, Queue
  <2>2. Count'
    <3>1. Closed' = Closed
      BY DEF Closed
    <3>. QED
      BY <3>1 DEF ServerInv, Count, UnderLimit
  <2>3. Receipt'
    <3>1. \A c \in Client : Own(c)' = Own(c)
      BY DEF Own
    <3>2. /\ pc' = pc /\ taken' = taken /\ arrived' = arrived /\ serving' = serving /\ buffer' = buffer
          /\ message' = message /\ response' = response /\ reply' = reply /\ pieces' = pieces /\ state' = state
      OBVIOUS
    <3>3. pc \in {"recv", "send"} => serving \in Client
      BY DEF ServerInv, TypeOK
    <3>. QED
      BY ONLY ServerInv, <3>1, <3>2, <3>3 DEF ServerInv, Receipt
  <2>. QED
    BY <2>1, <2>2, <2>3 DEF ServerInv
<1>2. CASE Start
  BY <1>2, StartKeeps
<1>3. CASE Accept
  BY <1>3, AcceptKeeps
<1>4. CASE LimitReached \/ AcceptFails
  BY <1>4, StopKeeps DEF LimitReached, AcceptFails
<1>5. CASE Recv
  BY <1>5, RecvKeeps
<1>6. CASE RecvEnd \/ RecvFails \/ TooLarge
  BY <1>6, LeavingKeeps
<1>7. CASE SendPiece
  BY <1>7, SendPieceKeeps
<1>8. CASE Close
  BY <1>8, CloseKeeps
<1>9. ASSUME NEW c \in Client, Connect(c) PROVE ServerInv'
  BY <1>9, ConnectKeeps
<1>10. ASSUME NEW c \in Client, Arrive(c) \/ Shut(c) \/ Lose(c) PROVE ServerInv'
  BY <1>10, NetworkKeeps
<1>. QED
  BY <1>1, <1>2, <1>3, <1>4, <1>5, <1>6, <1>7, <1>8, <1>9, <1>10 DEF Next, Server, Network

-----------------------------------------------------------------------------

\* The invariant of the server (run(), readHttpRequestFromSocket() and sendAll() of
\* src/http/http_server.cpp) holds in every state, for any clients, messages and limits.
THEOREM ServerInvariant == Spec => []ServerInv
<1>. QED
  BY InitServer, StepKeeps, PTL DEF Spec

\* One connection at a time is held, from accept to close, and the buffer never grows past
\* the limit by more than one recv.
THEOREM OneConnection == Spec => []TypeOK
<1>1. ServerInv => TypeOK
  BY DEF ServerInv
<1>. QED
  BY <1>1, ServerInvariant, PTL

\* No client ever receives anything that is not the answer to what itself has sent: run()
\* starts each connection with an empty buffer and answers from that buffer alone.
THEOREM AnswersDoNotMix == Spec => []OwnAnswer
<1>1. ServerInv => OwnAnswer
  <2>. SUFFICES ASSUME ServerInv, NEW c \in Client, reply[c] # <<>>
                PROVE  reply[c][1] \in Own(c)
    BY DEF OwnAnswer, Own
  <2>1. PICK r \in Own(c), n \in 1 .. Pieces : reply[c] = <<r, n>>
    BY DEF ServerInv, Receipt
  <2>. QED
    BY <2>1
<1>. QED
  BY <1>1, ServerInvariant, PTL

\* run() never accepts more connections than config.maxConnections.
THEOREM LimitKept == Spec => []ConnectionLimit
<1>1. ServerInv => ConnectionLimit
  <2>. SUFFICES ASSUME ServerInv, limit # 0
                PROVE  Cardinality({c \in Client : state[c] \in {"open", "closed"}}) <= limit
    BY DEF ConnectionLimit
  <2>1. /\ IsFiniteSet(Closed) /\ handled = Cardinality(Closed) /\ handled <= limit
        /\ handled \in Nat /\ limit \in Nat
    BY DEF ServerInv, Count, TypeOK, Types
  <2>. DEFINE accepted == {c \in Client : state[c] \in {"open", "closed"}}
  <2>2. accepted = Closed \cup ({serving} \ {NoClient})
    BY DEF ServerInv, TypeOK, Closed
  <2>. HIDE DEF accepted
  <2>3. ASSUME serving = NoClient PROVE Cardinality(accepted) <= limit
    <3>1. accepted = Closed
      BY <2>2, <2>3
    <3>. QED
      BY <2>1, <3>1
  <2>4. ASSUME serving # NoClient PROVE Cardinality(accepted) <= limit
    <3>1. pc \in {"recv", "send"} /\ handled < limit
      BY <2>4 DEF ServerInv, TypeOK, Types, Count, UnderLimit
    <3>2. {serving} \ {NoClient} = {serving}
      BY <2>4
    <3>3. Cardinality(Closed \cup {serving}) \in {handled, handled + 1}
      BY <2>1, FS_AddElement
    <3>4. accepted = Closed \cup {serving}
      BY <2>2, <3>2
    <3>. QED
      BY <2>1, <3>1, <3>3, <3>4
  <2>. QED
    BY <2>3, <2>4 DEF accepted
<1>. QED
  BY <1>1, ServerInvariant, PTL

-----------------------------------------------------------------------------
(* The refinement.                                                         *)

\* The line of the service.
Line == (IF serving = NoClient THEN <<>> ELSE <<serving>>) \o backlog

\* A connection accepted stays where it is, at the head of the line.
LEMMA AcceptedStaysFirst ==
  ASSUME ServerInv, Accept
  PROVE  Line' = Line
<1>1. backlog \in Seq(Client) /\ backlog # <<>> /\ serving = NoClient
  BY DEF ServerInv, TypeOK, Queue, Accept
<1>2. Head(backlog) \in Client /\ Head(backlog) # NoClient
  BY <1>1, HeadTailProperties, ServerAssumption DEF ServerAssumption
<1>3. <<Head(backlog)>> \o Tail(backlog) = backlog
  BY <1>1
<1>4. <<>> \o backlog = backlog
  BY <1>1, ConcatEmptySeq
<1>. QED
  BY <1>1, <1>2, <1>3, <1>4 DEF Line, Accept

\* The connection served is the head of the line, the backlog the rest.
LEMMA ServedIsFirst ==
  ASSUME ServerInv, serving \in Client
  PROVE  Line # <<>> /\ Head(Line) = serving /\ Tail(Line) = backlog
<1>1. backlog \in Seq(Client) /\ serving # NoClient
  BY ServerAssumption DEF ServerInv, Queue, ServerAssumption
<1>. QED
  BY <1>1 DEF Line

\* Who connects goes to the end of the line.
LEMMA ConnectedIsLast ==
  ASSUME ServerInv, NEW c \in Client, Connect(c)
  PROVE  /\ Line' = Append(Line, c)
         /\ \A i \in DOMAIN Line : Line[i] # c
<1>1. backlog \in Seq(Client) /\ backlog' = Append(backlog, c) /\ serving' = serving
  BY DEF ServerInv, Queue, Connect, serverVars
<1>2. \A i \in 1 .. Len(backlog) : backlog[i] # c
  BY ConnectKeeps
<1>3. serving # NoClient => serving \in Client /\ serving # c
  BY DEF ServerInv, TypeOK, Types, Connect
<1>4. CASE serving = NoClient
  <2>1. Line = backlog /\ Line' = Append(backlog, c)
    BY <1>1, <1>4, ConcatEmptySeq DEF Line
  <2>. QED
    BY <1>1, <1>2, <2>1
<1>5. CASE serving # NoClient
  <2>1. Line = <<serving>> \o backlog /\ Line' = <<serving>> \o Append(backlog, c)
    BY <1>1, <1>5 DEF Line
  <2>2. <<serving>> \in Seq(Client)
    BY <1>3, <1>5
  <2>3. Line' = Append(Line, c)
    BY <1>1, <2>1, <2>2
  <2>4. /\ Line \in Seq(Client) /\ Len(Line) = 1 + Len(backlog) /\ Len(backlog) \in Nat
        /\ \A i \in 1 .. 1 + Len(backlog) : Line[i] = IF i <= 1 THEN serving ELSE backlog[i - 1]
    BY <1>1, <2>1, <2>2, ConcatProperties, LenProperties
  <2>5. \A i \in 1 .. 1 + Len(backlog) : Line[i] # c
    BY <1>2, <1>3, <1>5, <2>4
  <2>. QED
    BY <2>3, <2>4, <2>5
<1>. QED
  BY <1>4, <1>5

\* What the service sees of the server: its phase, who has been served, and what they got.
Phase  == CASE pc = "start" -> "down" [] pc = "stopped" -> "over" [] OTHER -> "up"
Gotten == [c \in Client |-> IF state[c] = "closed" THEN reply[c] ELSE <<>>]
Asked  == [program |-> program, message |-> message]

\* A connection served is closed with a right answer, a part of it, or nothing.
LEMMA CloseServes ==
  ASSUME ServerInv, Close
  PROVE  Service!Serve
<1>1. serving \in Client /\ state[serving] = "open" /\ serving # NoClient
  BY ServerAssumption DEF ServerInv, TypeOK, ServerAssumption, Close
<1>2. Line # <<>> /\ Head(Line) = serving /\ Tail(Line) = backlog
  BY <1>1, ServedIsFirst
<1>3. Line' = backlog
  <2>1. backlog \in Seq(Client) /\ backlog' = backlog /\ serving' = NoClient
    BY DEF ServerInv, Queue, Close
  <2>. QED
    BY <2>1, ConcatEmptySeq DEF Line
<1>4. Phase = "up" /\ Phase' = "up"
  BY DEF Close, Phase
<1>5. limit = 0 \/ Cardinality(Closed) < limit
  BY DEF ServerInv, Count, UnderLimit, Close
<1>6. Closed' = Closed \cup {serving}
  BY CloseKeeps
<1>7. Gotten' = [Gotten EXCEPT ![serving] = reply[serving]]
  <2>1. reply' = reply /\ state' = [state EXCEPT ![serving] = "closed"]
    BY DEF Close
  <2>2. state \in [Client -> {"new", "queued", "open", "closed"}]
    BY DEF ServerInv, Types
  <2>. QED
    BY <1>1, <2>1, <2>2 DEF Gotten
<1>8. reply[serving] \in {<<>>} \cup {<<a, n>> : a \in RightAnswers(Asked, serving), n \in 1 .. Pieces}
  <2>1. reply[serving] = <<>> \/ \E r \in Own(serving), n \in 1 .. Pieces : reply[serving] = <<r, n>>
    BY <1>1 DEF ServerInv, Receipt
  <2>2. Own(serving) \subseteq RightAnswers(Asked, serving)
    <3>1. /\ arrived[serving] \in Nat /\ arrived[serving] <= Len(message[serving])
          /\ Len(message[serving]) \in Nat
      BY <1>1, LenProperties DEF ServerInv, Types, TypeOK
    <3>. QED
      BY <3>1 DEF Own, RightAnswers, Asked
  <2>3. CASE reply[serving] = <<>>
    BY <2>3
  <2>4. CASE reply[serving] # <<>>
    <3>1. PICK r \in Own(serving), n \in 1 .. Pieces : reply[serving] = <<r, n>>
      BY <2>1, <2>4
    <3>. QED
      BY <2>2, <3>1
  <2>. QED
    BY <2>3, <2>4
<1>9. Asked' = Asked /\ limit' = limit
  BY DEF Close, clientVars, config, Asked
<1>10. reply[Head(Line)] \in Service!Received(Head(Line))
  BY <1>2, <1>8 DEF Service!Received, Asked
<1>11. \E a \in Service!Received(Head(Line)) : Gotten' = [Gotten EXCEPT ![Head(Line)] = a]
  BY <1>2, <1>7, <1>10
<1>12. Service!Serve <=>
         /\ Phase = "up" /\ Line # <<>>
         /\ limit = 0 \/ Cardinality(Closed) < limit
         /\ \E a \in Service!Received(Head(Line)) : Gotten' = [Gotten EXCEPT ![Head(Line)] = a]
         /\ Line' = Tail(Line)
         /\ Closed' = Closed \cup {Head(Line)}
         /\ Asked' = Asked /\ limit' = limit /\ Phase' = Phase
  BY Zenon DEF Service!Serve, Service!Cardinality, Cardinality, Line, Phase, Closed, Gotten, Asked
<1>13. Line' = Tail(Line) /\ Closed' = Closed \cup {Head(Line)}
  BY <1>2, <1>3, <1>6
<1>. QED
  BY <1>2, <1>4, <1>5, <1>9, <1>11, <1>12, <1>13 DEF Service!Serve, Line, Phase, Closed, Gotten, Asked

\* Every other step is one of the service, or nothing to it.
LEMMA StepRefines ==
  ASSUME ServerInv, [Next]_vars
  PROVE  [Service!Next]_Service!serviceVars
<1>. DEFINE Idle == UNCHANGED <<Asked, limit, Phase, Line, Closed, Gotten>>
<1>1. Idle => [Service!Next]_Service!serviceVars
  BY DEF Service!serviceVars, Asked, Phase, Line, Closed, Gotten
<1>2. CASE UNCHANGED vars
  BY <1>1, <1>2 DEF vars, serverVars, clientVars, config, Asked, Phase, Line, Closed, Gotten
<1>3. CASE Start
  <2>1. Service!Open
    BY <1>3 DEF Start, config, clientVars, Service!Open
  <2>. QED
    BY <2>1 DEF Service!Next
<1>4. CASE LimitReached \/ AcceptFails
  <2>1. Service!Leave
    BY <1>4 DEF LimitReached, AcceptFails, Stop, config, clientVars, Service!Leave
  <2>. QED
    BY <2>1 DEF Service!Next
<1>5. CASE Accept
  <2>1. Line' = Line
    BY <1>5, AcceptedStaysFirst
  <2>2. Head(backlog) \in Client /\ state[Head(backlog)] = "queued"
    BY <1>5, RestOfQueue DEF ServerInv, Queue, Accept
  <2>3. state' = [state EXCEPT ![Head(backlog)] = "open"] /\ reply' = reply
    BY <1>5 DEF Accept
  <2>4. state \in [Client -> {"new", "queued", "open", "closed"}]
    BY DEF ServerInv, Types
  <2>5. Closed' = Closed /\ Gotten' = Gotten
    BY <2>2, <2>3, <2>4 DEF Closed, Gotten
  <2>6. UNCHANGED <<Asked, limit, Phase>>
    BY <1>5 DEF Accept, Asked, Phase, config, clientVars
  <2>. QED
    BY <1>1, <2>1, <2>5, <2>6
<1>6. CASE Recv \/ RecvEnd \/ RecvFails \/ TooLarge
  <2>1. /\ UNCHANGED <<program, limit, message, state, backlog, reply, serving>>
        /\ pc = "recv" /\ pc' \in {"recv", "send"}
    BY <1>6 DEF Recv, RecvEnd, RecvFails, TooLarge, Receiving, Answer, config, clientVars
  <2>. QED
    BY <1>1, <2>1 DEF Asked, Phase, Line, Closed, Gotten
<1>7. CASE SendPiece
  <2>1. state[serving] = "open" /\ serving \in Client
    BY <1>7, ServerAssumption DEF ServerInv, TypeOK, SendPiece, ServerAssumption
  <2>2. \A c \in Client \ {serving} : reply'[c] = reply[c]
    BY <1>7 DEF SendPiece, ServerInv, Types
  <2>3. UNCHANGED <<program, limit, message, state, backlog, serving, pc>>
    BY <1>7 DEF SendPiece, config, clientVars
  <2>4. Gotten' = Gotten
    BY <2>1, <2>2, <2>3 DEF Gotten
  <2>. QED
    BY <1>1, <2>3, <2>4 DEF Asked, Phase, Line, Closed
<1>8. CASE Close
  BY <1>8, CloseServes DEF Service!Next
<1>9. ASSUME NEW c \in Client, Connect(c) PROVE Service!Next
  <2>1. Line' = Append(Line, c) /\ \A i \in DOMAIN Line : Line[i] # c
    BY <1>9, ConnectedIsLast
  <2>2. c \notin Closed /\ Phase = "up" /\ Phase' = "up"
    BY <1>9 DEF Connect, Closed, Phase, serverVars
  <2>3. Closed' = Closed /\ Gotten' = Gotten
    BY <1>9 DEF Connect, Closed, Gotten, ServerInv, Types
  <2>4. UNCHANGED <<Asked, limit>>
    BY <1>9 DEF Connect, Asked, serverVars, clientVars, config
  <2>5. Service!Join(c)
    BY <2>1, <2>2, <2>3, <2>4 DEF Service!Join, Line, Closed, Phase, Gotten, Asked
  <2>. QED
    BY <2>5 DEF Service!Next
<1>10. ASSUME NEW c \in Client, Arrive(c) \/ Shut(c) \/ Lose(c) PROVE Idle
  <2>1. UNCHANGED <<program, limit, pc, message, state, backlog, reply, serving>>
    BY <1>10 DEF Arrive, Shut, Lose, serverVars, config
  <2>. QED
    BY <2>1 DEF Asked, Phase, Line, Closed, Gotten
<1>. QED
  BY <1>1, <1>2, <1>3, <1>4, <1>5, <1>6, <1>7, <1>8, <1>9, <1>10 DEF Next, Server, Network

\* The server implements the service: clients are served one at a time, in the order they
\* connected, each once, with the right answer, a part of it, or nothing.
THEOREM Refinement == Spec => ImplementsService
<1>1. Init => Service!Init
  <2>. SUFFICES ASSUME Init PROVE Service!Init
    OBVIOUS
  <2>1. Line = <<>>
    BY DEF Init, Line
  <2>2. Closed = {} /\ Gotten = [c \in Client |-> <<>>] /\ Phase = "down"
    BY DEF Init, Closed, Gotten, Phase
  <2>. QED
    BY <2>1, <2>2 DEF Service!Init, Line, Closed, Gotten, Phase
<1>2. ServerInv /\ [Next]_vars => [Service!Next]_Service!serviceVars
  BY StepRefines
<1>. QED
  BY <1>1, <1>2, ServerInvariant, PTL DEF Spec, ImplementsService, Service!Spec

-----------------------------------------------------------------------------
(* The answer to a message that says where it ends is the answer to all of *)
(* it, however it arrives: WholeAnswer, for any clients and messages.      *)

\* What a prefix of a message is.
LEMMA PrefixOf ==
  ASSUME NEW m \in Seq(Token), NEW k \in 0 .. Len(m)
  PROVE  /\ Len(m) \in Nat
         /\ Len(SubSeq(m, 1, k)) = k
         /\ \A i \in 1 .. k : SubSeq(m, 1, k)[i] = m[i]
<1>1. Len(m) \in Nat
  BY LenProperties
<1>. QED
  BY <1>1, SubSeqProperties

\* The first of a set of one position.
LEMMA FirstOfOne == ASSUME NEW e \in Nat PROVE First({e}) = e
  BY DEF First

\* A sum no greater than the largest std::size_t does not wrap.
LEMMA NoWrap == ASSUME NEW n \in Nat, n <= SizeMax PROVE n % (SizeMax + 1) = n
  BY SizeMaxAssumption, SMT DEF SizeMaxAssumption

\* Where the header of a prefix ends: where that of the message does, if the
\* prefix reaches that far.
LEMMA HeaderOfPrefix ==
  ASSUME NEW m \in Seq(Token), NEW k \in 0 .. Len(m), NEW e \in 1 .. Len(m),
         Where(m, CRLF) \cup Where(m, LF) = {e}
  PROVE  HeaderEnd(SubSeq(m, 1, k)) = IF e <= k THEN e ELSE 0
<1>. DEFINE p == SubSeq(m, 1, k)
<1>1. Len(m) \in Nat /\ Len(p) = k /\ k \in Nat /\ \A i \in 1 .. k : p[i] = m[i]
  BY PrefixOf
<1>2. Where(p, CRLF) = Where(m, CRLF) \cap 1 .. k /\ Where(p, LF) = Where(m, LF) \cap 1 .. k
  BY <1>1 DEF Where
<1>. HIDE DEF p
<1>3. CASE e <= k
  <2>1. Where(p, CRLF) \in {{}, {e}} /\ Where(p, LF) \in {{}, {e}}
    BY <1>1, <1>2
  <2>2. e \in Where(p, CRLF) \/ e \in Where(p, LF)
    <3>1. e \in Where(m, CRLF) \/ e \in Where(m, LF)
      OBVIOUS
    <3>2. e \in 1 .. k
      BY <1>1, <1>3
    <3>. QED
      BY <1>2, <3>1, <3>2
  <2>. QED
    BY <1>3, <2>1, <2>2, FirstOfOne DEF HeaderEnd, p
<1>4. CASE ~(e <= k)
  <2>1. Where(p, CRLF) = {} /\ Where(p, LF) = {}
    BY <1>1, <1>2, <1>4
  <2>. QED
    BY <1>4, <2>1 DEF HeaderEnd, p
<1>. QED
  BY <1>3, <1>4

\* What has been received of a framed message is a complete request when it is
\* the whole message, and not before.
LEMMA CompleteWhenWhole ==
  ASSUME NEW m \in Seq(Token), Framed(m), NEW k \in 0 .. Len(m)
  PROVE  HasCompleteRequest(SubSeq(m, 1, k)) <=> k = Len(m)
<1>. DEFINE p == SubSeq(m, 1, k)
            ls == {i \in DOMAIN m : IsLength(m[i])}
<1>1. Len(m) \in Nat /\ Len(p) = k /\ k \in Nat /\ \A i \in 1 .. k : p[i] = m[i]
  BY PrefixOf
<1>2. PICK e \in Where(m, CRLF) \cup Where(m, LF) :
        /\ Where(m, CRLF) \cup Where(m, LF) = {e}
        /\ \/ ls = {} /\ e = Len(m)
           \/ \E i \in 1 .. e : ls = {i} /\ m[i].length = Len(m) - e
  BY DEF Framed
<1>3. e \in 1 .. Len(m)
  BY <1>2 DEF Where
<1>4. HeaderEnd(p) = IF e <= k THEN e ELSE 0
  BY <1>2, <1>3, HeaderOfPrefix
<1>5. CASE ~(e <= k)
  BY <1>1, <1>3, <1>4, <1>5 DEF HasCompleteRequest
<1>6. CASE e <= k
  <2>1. Lengths(p, e) = ls
    <3>1. DOMAIN m = 1 .. Len(m)
      BY LenProperties
    <3>2. \A i \in 1 .. e : p[i] = m[i] /\ i \in DOMAIN m
      BY <1>1, <1>3, <1>6, <3>1
    <3>3. ls \subseteq 1 .. e
      BY <1>1, <1>2, <1>3, <3>1
    <3>. QED
      BY <3>2, <3>3 DEF Lengths
  <2>2. ContentLength(p, e) = Len(m) - e
    <3>1. CASE ls = {} /\ e = Len(m)
      BY <1>1, <2>1, <3>1 DEF ContentLength
    <3>2. ASSUME NEW i \in 1 .. e, ls = {i}, m[i].length = Len(m) - e
          PROVE  ContentLength(p, e) = Len(m) - e
      <4>1. First(ls) = i /\ p[i] = m[i]
        BY <1>1, <1>3, <1>6, <3>2, FirstOfOne
      <4>2. m[i].length # Unreadable
        BY <1>1, <1>3, <3>2 DEF Unreadable
      <4>. QED
        BY <2>1, <3>2, <4>1, <4>2 DEF ContentLength
    <3>. QED
      BY <1>2, <3>1, <3>2
  <2>3. Len(m) <= SizeMax
    BY <1>1, ServerAssumption, SizeMaxAssumption DEF Framed, ServerAssumption, SizeMaxAssumption
  <2>4. (e + ContentLength(p, e)) % (SizeMax + 1) = Len(m)
    <3>1. e + ContentLength(p, e) = Len(m)
      BY <1>1, <1>3, <2>2
    <3>. QED
      BY <1>1, <2>3, <3>1, NoWrap
  <2>. QED
    BY <1>1, <1>3, <1>4, <1>6, <2>4 DEF HasCompleteRequest
<1>. QED
  BY <1>5, <1>6

-----------------------------------------------------------------------------

\* The answer to all of what c sends.
FullAnswer(c) == HandleRawHttpRequest(program, message[c])

\* The server will not get all of it.
CutShort(c) == lost[c] \/ (shut[c] /\ arrived[c] < Len(message[c]))

\* What is sent, or was, to a client with a framed message.
Answered ==
  /\ shut \in [Client -> BOOLEAN] /\ lost \in [Client -> BOOLEAN]
  /\ pc = "recv" => ~HasCompleteRequest(buffer)
  /\ pc = "send" /\ Framed(message[serving]) => response = FullAnswer(serving) \/ CutShort(serving)
  /\ \A c \in Client : state[c] = "closed" /\ Framed(message[c]) =>
       reply[c] = <<FullAnswer(c), Pieces>> \/ CutShort(c)

\* The inductive invariant of WholeAnswer.
AnswerInv == ServerInv /\ Answered

\* What is asked stays, and what is cut short stays so.
LEMMA CutShortStays ==
  ASSUME AnswerInv, [Next]_vars
  PROVE  /\ program' = program /\ message' = message
         /\ shut' \in [Client -> BOOLEAN] /\ lost' \in [Client -> BOOLEAN]
         /\ \A c \in Client : CutShort(c) => CutShort(c)'
<1>. USE DEF config, serverVars, clientVars
<1>1. shut \in [Client -> BOOLEAN] /\ lost \in [Client -> BOOLEAN] /\ arrived \in [Client -> Nat]
  BY DEF AnswerInv, Answered, ServerInv, Types
<1>2. CASE program' = program /\ message' = message /\ shut' = shut /\ lost' = lost /\ arrived' = arrived
  BY <1>1, <1>2 DEF CutShort
<1>3. CASE UNCHANGED vars \/ Server \/ AcceptFails
  BY <1>2, <1>3 DEF vars, Server, AcceptFails, Start, Accept, LimitReached, Stop, Recv, RecvEnd, RecvFails,
                    TooLarge, Answer, SendPiece, Close
<1>4. ASSUME NEW c \in Client, Connect(c) \/ Shut(c) \/ Lose(c)
      PROVE  /\ program' = program /\ message' = message
             /\ shut' \in [Client -> BOOLEAN] /\ lost' \in [Client -> BOOLEAN]
             /\ \A d \in Client : CutShort(d) => CutShort(d)'
  <2>1. /\ program' = program /\ message' = message /\ arrived' = arrived
        /\ shut' = shut \/ shut' = [shut EXCEPT ![c] = TRUE]
        /\ lost' = lost \/ lost' = [lost EXCEPT ![c] = TRUE]
    BY <1>4 DEF Connect, Shut, Lose
  <2>. QED
    BY <1>1, <2>1 DEF CutShort
<1>5. ASSUME NEW c \in Client, Arrive(c)
      PROVE  /\ program' = program /\ message' = message
             /\ shut' \in [Client -> BOOLEAN] /\ lost' \in [Client -> BOOLEAN]
             /\ \A d \in Client : CutShort(d) => CutShort(d)'
  <2>1. /\ program' = program /\ message' = message /\ shut' = shut /\ lost' = lost
        /\ ~lost[c] /\ ~shut[c] /\ arrived' = [arrived EXCEPT ![c] = @ + 1]
    BY <1>5 DEF Arrive, Live
  <2>. QED
    BY <1>1, <2>1 DEF CutShort
<1>. QED
  BY <1>3, <1>4, <1>5 DEF Next, Network

\* Steps that answer nobody and close nothing.
LEMMA QuietKeeps ==
  ASSUME AnswerInv, [Next]_vars,
         pc' = "recv" => ~HasCompleteRequest(buffer'),
         pc' = "send" => pc = "send" /\ serving' = serving /\ response' = response,
         \A c \in Client : state'[c] = "closed" => state[c] = "closed" /\ reply'[c] = reply[c]
  PROVE  Answered'
<1>1. /\ program' = program /\ message' = message
      /\ shut' \in [Client -> BOOLEAN] /\ lost' \in [Client -> BOOLEAN]
      /\ \A c \in Client : CutShort(c) => CutShort(c)'
  BY CutShortStays
<1>2. \A c \in Client : FullAnswer(c)' = FullAnswer(c)
  BY <1>1 DEF FullAnswer
<1>3. pc' = "send" /\ Framed(message[serving])' => response' = FullAnswer(serving)' \/ CutShort(serving)'
  <2>1. SUFFICES ASSUME pc' = "send", Framed(message[serving])'
                 PROVE  response' = FullAnswer(serving)' \/ CutShort(serving)'
    OBVIOUS
  <2>2. serving \in Client /\ Framed(message[serving])
    BY <1>1, <2>1 DEF AnswerInv, ServerInv, TypeOK
  <2>. QED
    BY <1>1, <1>2, <2>1, <2>2 DEF AnswerInv, Answered, FullAnswer, CutShort
<1>4. \A c \in Client : state'[c] = "closed" /\ Framed(message[c])' =>
        reply'[c] = <<FullAnswer(c)', Pieces>> \/ CutShort(c)'
  BY <1>1, <1>2 DEF AnswerInv, Answered
<1>. QED
  BY <1>1, <1>3, <1>4 DEF Answered

\* An answer to all of the message, or to one cut short.
LEMMA AnsweringKeeps ==
  ASSUME AnswerInv, [Next]_vars, NEW r, Answer(r), pc = "recv",
         Framed(message[serving]) => r = FullAnswer(serving) \/ CutShort(serving)
  PROVE  Answered'
<1>. USE DEF Answer, config, clientVars
<1>1. serving \in Client
  BY WhileReceiving DEF AnswerInv
<1>. QED
  BY <1>1 DEF AnswerInv, Answered, FullAnswer, CutShort

LEMMA RecvAnswers ==
  ASSUME AnswerInv, [Next]_vars, Recv
  PROVE  Answered'
<1>. DEFINE m == message[serving]
<1>1. PICK n \in 1 .. BufferSize :
         /\ taken + n <= arrived[serving]
         /\ buffer' = buffer \o SubSeq(m, taken + 1, taken + n)
  BY DEF Recv
<1>2. /\ pc = "recv" /\ serving \in Client /\ m \in Seq(Token) /\ Len(m) \in Nat
      /\ arrived[serving] \in Nat /\ arrived[serving] <= Len(m) /\ taken \in Nat
      /\ buffer = SubSeq(m, 1, taken) /\ n \in Nat /\ taken + n \in 0 .. Len(m)
  <2>1. pc = "recv"
    BY DEF Recv, Receiving
  <2>2. BufferSize \in Nat
    BY ServerAssumption DEF ServerAssumption
  <2>3. /\ serving \in Client /\ m \in Seq(Token) /\ Len(m) \in Nat
        /\ arrived[serving] \in Nat /\ arrived[serving] <= Len(m) /\ taken \in Nat
        /\ buffer = SubSeq(m, 1, taken)
    BY <2>1, WhileReceiving DEF AnswerInv
  <2>4. n \in Nat
    BY <2>2
  <2>. QED
    BY <1>1, <2>1, <2>3, <2>4
<1>3. buffer' = SubSeq(m, 1, taken + n)
  <2>1. taken + n <= Len(m)
    BY <1>2
  <2>. QED
    BY <1>1, <1>2, <2>1, BufferGrows
<1>4. CASE HasCompleteRequest(buffer')
  <2>1. Answer(HandleRawHttpRequest(program, buffer'))
    BY <1>4 DEF Recv
  <2>2. Framed(m) => buffer' = m
    <3>1. ASSUME Framed(m) PROVE taken + n = Len(m)
      BY <1>2, <1>3, <1>4, <3>1, CompleteWhenWhole
    <3>2. SubSeq(m, 1, Len(m)) = m
      BY <1>2, SubSeqFull
    <3>. QED
      BY <1>3, <3>1, <3>2
  <2>. QED
    BY <1>2, <2>1, <2>2, AnsweringKeeps DEF FullAnswer
<1>5. CASE ~HasCompleteRequest(buffer')
  <2>1. UNCHANGED <<pc, serving, response, state, reply>>
    BY <1>5 DEF Recv
  <2>. QED
    BY <1>2, <1>5, <2>1, QuietKeeps
<1>. QED
  BY <1>4, <1>5

\* The loop is left without a request only if the message was cut short, or is
\* not framed: a framed one that is all there would have been complete.
LEMMA LeavingAnswers ==
  ASSUME AnswerInv, [Next]_vars, RecvEnd \/ RecvFails \/ TooLarge
  PROVE  Answered'
<1>. DEFINE m == message[serving]
<1>1. /\ pc = "recv" /\ serving \in Client /\ m \in Seq(Token) /\ Len(m) \in Nat
      /\ arrived[serving] \in Nat /\ arrived[serving] <= Len(m) /\ taken \in Nat /\ taken <= arrived[serving]
      /\ buffer = SubSeq(m, 1, taken) /\ Len(buffer) = taken
  <2>1. pc = "recv"
    BY DEF RecvEnd, RecvFails, TooLarge, Receiving
  <2>. QED
    BY <2>1, WhileReceiving DEF AnswerInv
<1>2. ~HasCompleteRequest(buffer)
  BY <1>1 DEF AnswerInv, Answered
<1>3. Framed(m) => taken < Len(m)
  <2>1. taken \in 0 .. Len(m)
    BY <1>1
  <2>. QED
    BY <1>1, <1>2, <2>1, CompleteWhenWhole
<1>4. Answer(Error(400))
  BY <1>2 DEF RecvEnd, RecvFails, TooLarge
<1>5. Framed(m) => CutShort(serving)
  <2>1. CASE RecvEnd
    BY <1>1, <1>3, <2>1 DEF RecvEnd, CutShort
  <2>2. CASE RecvFails
    BY <2>2 DEF RecvFails, CutShort
  <2>3. CASE TooLarge
    <3>1. taken >= MaxBytes /\ MaxBytes \in Nat
      BY <1>1, <2>3, ServerAssumption DEF TooLarge, ServerAssumption
    <3>2. Framed(m) => Len(m) <= MaxBytes
      BY DEF Framed
    <3>. QED
      BY <1>1, <1>3, <3>1, <3>2
  <2>. QED
    BY <2>1, <2>2, <2>3
<1>. QED
  BY <1>1, <1>4, <1>5, AnsweringKeeps

LEMMA CloseAnswers ==
  ASSUME AnswerInv, [Next]_vars, Close
  PROVE  Answered'
<1>. USE DEF Close, config, clientVars
<1>1. serving \in Client /\ pc = "send" /\ pieces \in Nat
  BY DEF AnswerInv, ServerInv, TypeOK
<1>2. state' = [state EXCEPT ![serving] = "closed"] /\ state \in [Client -> {"new", "queued", "open", "closed"}]
  BY DEF AnswerInv, ServerInv, Types
<1>3. \A c \in Client : FullAnswer(c)' = FullAnswer(c) /\ (CutShort(c)' <=> CutShort(c))
  BY DEF FullAnswer, CutShort
<1>4. Framed(message[serving]) => reply[serving] = <<FullAnswer(serving), Pieces>> \/ CutShort(serving)
  <2>1. CASE lost[serving]
    BY <2>1 DEF CutShort
  <2>2. CASE pieces = Pieces
    <3>1. reply[serving] = <<response, Pieces>>
      BY <1>1, <2>2, ServerAssumption DEF AnswerInv, ServerInv, Receipt, ServerAssumption
    <3>. QED
      BY <1>1, <3>1 DEF AnswerInv, Answered
  <2>. QED
    BY <2>1, <2>2
<1>5. \A c \in Client : state'[c] = "closed" /\ Framed(message[c]) =>
        reply[c] = <<FullAnswer(c), Pieces>> \/ CutShort(c)
  BY <1>2, <1>4 DEF AnswerInv, Answered
<1>. QED
  BY <1>3, <1>5 DEF AnswerInv, Answered

\* Every step keeps the inductive invariant.
LEMMA StepAnswers == AnswerInv /\ [Next]_vars => AnswerInv'
<1>. SUFFICES ASSUME AnswerInv, [Next]_vars PROVE AnswerInv'
  OBVIOUS
<1>1. ServerInv'
  BY StepKeeps DEF AnswerInv
<1>2. CASE UNCHANGED vars
  <2>1. UNCHANGED <<pc, serving, buffer, response, state, reply>>
    BY <1>2 DEF vars, serverVars
  <2>2. pc = "recv" => ~HasCompleteRequest(buffer)
    BY DEF AnswerInv, Answered
  <2>3. Answered'
    BY <2>1, <2>2, QuietKeeps
  <2>. QED
    BY <1>1, <2>3 DEF AnswerInv
<1>3. CASE Start \/ LimitReached \/ AcceptFails
  <2>1. pc' \in {"accept", "stopped"} /\ state' = state /\ reply' = reply
    BY <1>3 DEF Start, LimitReached, AcceptFails, Stop
  <2>2. Answered'
    BY <2>1, QuietKeeps
  <2>. QED
    BY <1>1, <2>2 DEF AnswerInv
<1>4. CASE Accept
  <2>1. pc' = "recv" /\ buffer' = <<>> /\ reply' = reply
        /\ state' = [state EXCEPT ![Head(backlog)] = "open"]
    BY <1>4 DEF Accept
  <2>2. \A c \in Client : state'[c] = "closed" => state[c] = "closed"
    BY <2>1 DEF AnswerInv, ServerInv, Types
  <2>3. Answered'
    BY <2>1, <2>2, NothingIsIncomplete, QuietKeeps
  <2>. QED
    BY <1>1, <2>3 DEF AnswerInv
<1>5. CASE Recv
  BY <1>1, <1>5, RecvAnswers DEF AnswerInv
<1>6. CASE RecvEnd \/ RecvFails \/ TooLarge
  BY <1>1, <1>6, LeavingAnswers DEF AnswerInv
<1>7. CASE SendPiece
  <2>1. serving \in Client /\ state[serving] = "open"
    BY <1>7, ServerAssumption DEF SendPiece, AnswerInv, ServerInv, TypeOK, ServerAssumption
  <2>2. pc' = "send" /\ pc = "send" /\ serving' = serving /\ response' = response /\ state' = state
    BY <1>7 DEF SendPiece
  <2>3. \A c \in Client \ {serving} : reply'[c] = reply[c]
    BY <1>7 DEF SendPiece, AnswerInv, ServerInv, Types
  <2>4. Answered'
    BY <2>1, <2>2, <2>3, QuietKeeps
  <2>. QED
    BY <1>1, <2>4 DEF AnswerInv
<1>8. CASE Close
  BY <1>1, <1>8, CloseAnswers DEF AnswerInv
<1>9. ASSUME NEW c \in Client, Connect(c) \/ Arrive(c) \/ Shut(c) \/ Lose(c) PROVE Answered'
  <2>1. UNCHANGED <<pc, serving, buffer, response, reply>>
    BY <1>9 DEF Connect, Arrive, Shut, Lose, serverVars
  <2>2. \A d \in Client : state'[d] = "closed" => state[d] = "closed"
    BY <1>9 DEF Connect, Arrive, Shut, Lose, AnswerInv, ServerInv, Types
  <2>3. pc = "recv" => ~HasCompleteRequest(buffer)
    BY DEF AnswerInv, Answered
  <2>. QED
    BY <2>1, <2>2, <2>3, QuietKeeps
<1>. QED
  BY <1>1, <1>2, <1>3, <1>4, <1>5, <1>6, <1>7, <1>8, <1>9 DEF Next, Server, Network, AnswerInv

\* A framed message that arrives is answered as a whole and in full, whatever pieces
\* recv returned it in: readHttpRequestFromSocket() leaves its loop at its end, not before.
THEOREM AnswersWhole == Spec => []WholeAnswer
<1>1. Init => AnswerInv
  <2>1. Init => Answered
    BY DEF Init, Answered
  <2>. QED
    BY <2>1, InitServer DEF AnswerInv
<1>2. AnswerInv => WholeAnswer
  <2>. SUFFICES ASSUME AnswerInv, NEW c \in Client, Framed(message[c]), arrived[c] = Len(message[c]),
                       state[c] = "closed", ~lost[c]
                PROVE  reply[c] = <<HandleRawHttpRequest(program, message[c]), Pieces>>
    BY DEF WholeAnswer
  <2>1. Len(message[c]) \in Nat
    BY LenProperties DEF AnswerInv, ServerInv, Types
  <2>2. ~CutShort(c)
    BY <2>1 DEF CutShort
  <2>. QED
    BY <2>2 DEF AnswerInv, Answered, FullAnswer
<1>. QED
  BY <1>1, <1>2, StepAnswers, PTL DEF Spec
=============================================================================
