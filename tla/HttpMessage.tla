----------------------------- MODULE HttpMessage -----------------------------
(***************************************************************************)
(* What the server makes of the bytes it receives (src/http/http_message   *)
(* .cpp and the framing helpers of src/http/http_server.cpp).              *)
(*                                                                         *)
(* A request is a sequence of tokens of one unit each: a request line, a   *)
(* header line, an empty line or a unit of body.  An empty line ends the   *)
(* header as CRLF CRLF ("crlf") or as LF LF ("lf").  A line cut in two by  *)
(* the network is a line not yet received.                                 *)
(***************************************************************************)
EXTENDS Integers, Sequences

CONSTANTS
  SizeMax,      \* the largest std::size_t
  Target        \* method and path of a request line

ASSUME SizeMaxAssumption == SizeMax \in Nat

\* A length is what std::from_chars reads, Unreadable if it reads none.
Unreadable == -1

RequestLine(t) == [request |-> t]       \* METHOD PATH HTTP/1.1
LengthLine(n)  == [length |-> n]        \* Content-Length: n
Plain(kind)    == [plain |-> kind]

Header  == Plain("header")              \* Name: value
NoColon == Plain("text")                \* any other line, or a unit of body
CRLF    == Plain("crlf")
LF      == Plain("lf")

Token == [request : Target] \cup [length : {Unreadable} \cup 0 .. SizeMax]
           \cup [plain : {"header", "text", "crlf", "lf"}]

IsLength(tok) == DOMAIN tok = {"length"}
IsRequest(tok) == DOMAIN tok = {"request"}

Where(raw, tok) == {i \in 1 .. Len(raw) : raw[i] = tok}
First(s) == CHOOSE i \in s : \A j \in s : i <= j
Last(s)  == CHOOSE i \in s : \A j \in s : j <= i

-----------------------------------------------------------------------------
(* Framing.                                                                *)

\* The position of the empty line, 0 if there is none.  A CRLF one is looked
\* for in all of raw before an LF one is.
HeaderEnd(raw) ==
  IF Where(raw, CRLF) # {} THEN First(Where(raw, CRLF))
  ELSE IF Where(raw, LF) # {} THEN First(Where(raw, LF))
  ELSE 0

Lengths(raw, end) == {i \in 1 .. end : IsLength(raw[i])}

\* contentLengthFromHeaders: the first Content-Length line, 0 if unreadable.
ContentLength(raw, end) ==
  LET ls == Lengths(raw, end)
  IN  IF ls = {} \/ raw[First(ls)].length = Unreadable THEN 0 ELSE raw[First(ls)].length

\* Mutations: the body is not waited for; one unit more is waited for.
HeaderIsComplete(raw) == HeaderEnd(raw) # 0
MoreThanComplete(raw) ==
  LET end == HeaderEnd(raw)
  IN  end # 0 /\ Len(raw) > end + ContentLength(raw, end)

\* headerEnd + separatorSize + contentLength is a std::size_t sum.
HasCompleteRequest(raw) ==
  LET end == HeaderEnd(raw)
  IN  end # 0 /\ Len(raw) >= (end + ContentLength(raw, end)) % (SizeMax + 1)

-----------------------------------------------------------------------------
(* Parsing.                                                                *)

Rejected == [ok |-> FALSE]
Parsed(t, b) == [ok |-> TRUE, target |-> t, body |-> b]

\* Header lines without a colon (a second request line is one) and unreadable
\* lengths are refused; of several lengths the last counts.  Empty lines are
\* skipped.
WellFormedHeader(raw, end) ==
  /\ end > 1
  /\ IsRequest(raw[1])
  /\ \A i \in 2 .. end - 1 : /\ raw[i] # NoColon
                            /\ raw[i] # LengthLine(Unreadable)
                            /\ ~IsRequest(raw[i])

ParseHttpRequest(raw) ==
  LET end  == HeaderEnd(raw)
      ls   == Lengths(raw, end)
      body == SubSeq(raw, end + 1, Len(raw))
  IN  IF ~WellFormedHeader(raw, end) THEN Rejected
      ELSE IF ls = {} THEN Parsed(raw[1].request, body)
      ELSE LET n == raw[Last(ls)].length
           IN  IF Len(body) < n THEN Rejected
               ELSE Parsed(raw[1].request, SubSeq(body, 1, n))
=============================================================================
