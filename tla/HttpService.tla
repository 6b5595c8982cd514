----------------------------- MODULE HttpService -----------------------------
(***************************************************************************)
(* What the HTTP server promises: connections are served one at a time, in *)
(* the order they came, each once, with an answer to what it asked or with *)
(* nothing, and no more of them than the limit.  How requests are received *)
(* and answers are sent is hidden: a connection is served in one step.     *)
(***************************************************************************)
EXTENDS Naturals, Sequences, FiniteSets

CONSTANTS
  Client,
  Right(_, _),  \* what is asked, client -> the right answers
  Pieces        \* an answer is received in this many, or cut short

VARIABLES
  asked,   \* what is served, and what each client asks for
  limit,   \* how many connections are served, 0 for no limit
  phase,   \* "down", "up", "over"
  line,    \* who waits, the one being served included
  served,  \* who has been served
  answer   \* client -> <<>>, or <<answer, pieces>>

serviceVars == <<asked, limit, phase, line, served, answer>>

Init ==
  /\ phase = "down"
  /\ line = <<>>
  /\ served = {}
  /\ answer = [c \in Client |-> <<>>]

Open ==
  /\ phase = "down"
  /\ phase' \in {"up", "over"}
  /\ UNCHANGED <<asked, limit, line, served, answer>>

Join(c) ==
  /\ phase = "up"
  /\ c \notin served /\ \A i \in DOMAIN line : line[i] # c
  /\ line' = Append(line, c)
  /\ UNCHANGED <<asked, limit, phase, served, answer>>

\* What a client may have received when it is dismissed.
Received(c) == {<<>>} \cup {<<a, n>> : a \in Right(asked, c), n \in 1 .. Pieces}

Serve ==
  /\ phase = "up" /\ line # <<>>
  /\ limit = 0 \/ Cardinality(served) < limit
  /\ \E a \in Received(Head(line)) : answer' = [answer EXCEPT ![Head(line)] = a]
  /\ line' = Tail(line)
  /\ served' = served \cup {Head(line)}
  /\ UNCHANGED <<asked, limit, phase>>

Leave ==
  /\ phase = "up"
  /\ phase' = "over"
  /\ UNCHANGED <<asked, limit, line, served, answer>>

Next == Open \/ Serve \/ Leave \/ \E c \in Client : Join(c)

Spec == Init /\ [][Next]_serviceVars
=============================================================================
