------------------------------- MODULE Request -------------------------------
(***************************************************************************)
(* How one request is read and framed: recv_request() of                   *)
(* src/tcp_server.cpp, which collects the bytes a client sends in whatever *)
(* pieces recv() returns them, and HttpParser::parse() of                  *)
(* src/http_parser.cpp, which finds the header, the Content-Length and the *)
(* body in what was collected.  The two look for the same things in        *)
(* different data at different times, and have to agree.                   *)
(*                                                                         *)
(* Bytes are counted, not represented: a request is described by where its *)
(* header ends, what its Content-Length says and how long its body is.     *)
(***************************************************************************)
EXTENDS Naturals

CONSTANTS
  Requests,       \* descriptions of requests, see Described
  MaxHeaderSize,  \* config_.max_header_size
  MaxBodySize,    \* config_.max_body_size
  BufferSize      \* what one recv() takes at most: sizeof(buffer) - 1

(***************************************************************************)
(* head: bytes up to and including the empty line; body: bytes the client  *)
(* sends after it; line: the request line can be parsed; field: the first  *)
(* "content-length:" is in the header with a number or with something      *)
(* std::stoull rejects, or it is text inside the body, or there is none;   *)
(* n: its number; quoteEnd: how much of the body contains the quoted text. *)
(***************************************************************************)
Described ==
  [head : Nat \ {0}, body : Nat, line : BOOLEAN,
   field : {"number", "bad", "quoted", "none"}, n : Nat, quoteEnd : Nat]

ASSUME RequestAssumption ==
  /\ Requests \subseteq Described
  /\ MaxHeaderSize \in Nat
  /\ MaxBodySize \in Nat
  /\ BufferSize \in Nat \ {0}

VARIABLES
  req,        \* what the client sends
  arrived,    \* bytes of it that have reached the server
  closed,     \* the client has closed its end
  request,    \* bytes recv_request() has collected
  pc,         \* "header", "body" in recv_request(); "parse"; "done"
  failed,     \* a recv() of the loop for the body returned nothing
  outcome,    \* ParseResult::error, or "EMPTY" when nothing was received
  body        \* the length of ParseResult::body

vars == <<req, arrived, closed, request, pc, failed, outcome, body>>

Total == req.head + req.body

Init ==
  /\ req \in Requests
  /\ arrived = 0
  /\ closed = FALSE
  /\ request = 0
  /\ pc = "header"
  /\ failed = FALSE
  /\ outcome = "NONE"
  /\ body = 0

-----------------------------------------------------------------------------
(***************************************************************************)
(* The client and the network                                              *)
(***************************************************************************)
Arrive ==
  /\ ~closed
  /\ arrived < Total
  /\ arrived' \in (arrived + 1)..Total
  /\ UNCHANGED <<req, closed, request, pc, failed, outcome, body>>

ClientCloses ==
  /\ ~closed
  /\ closed' = TRUE
  /\ UNCHANGED <<req, arrived, request, pc, failed, outcome, body>>

(* The connection is reset: what has not been read is lost. *)
ClientResets ==
  /\ ~closed
  /\ closed' = TRUE
  /\ arrived' = request
  /\ UNCHANGED <<req, request, pc, failed, outcome, body>>

-----------------------------------------------------------------------------
(***************************************************************************)
(* recv_request()                                                          *)
(***************************************************************************)
Waiting == arrived - request

(* Mutant of Received: the whole buffer is appended, not the n bytes received. *)
ReceivedWholeBuffer == request + BufferSize

(* What is collected once recv() has returned what waits, or a bufferful.  *)
Received == request + (IF Waiting < BufferSize THEN Waiting ELSE BufferSize)

(* Content-Length as recv_request() sees it, in all it has received.       *)
FieldSeen(r) ==
  \/ req.field = "number"
  \/ req.field = "quoted" /\ r >= req.head + req.quoteEnd

(* Mutant of MoreBody: the last byte is not waited for. *)
MoreBodyButOne(r) ==
  /\ FieldSeen(r)
  /\ r + 1 < req.head + req.n
  /\ r < req.head + MaxBodySize

(* The condition of the loop for the body; a field that is not there or    *)
(* not a number ends recv_request() at once.                               *)
MoreBody(r) ==
  /\ FieldSeen(r)
  /\ r < req.head + req.n
  /\ r < req.head + MaxBodySize

(* Mutant of AfterHeader: no limit while the header is incomplete. *)
AfterHeaderUnlimited(r) ==
  CASE r >= req.head /\ MoreBody(r) -> "body"
    [] r >= req.head /\ ~MoreBody(r) -> "parse"
    [] r < req.head -> "header"

(* Where a recv() of the first loop leads. *)
AfterHeader(r) ==
  CASE r >= req.head /\ MoreBody(r) -> "body"
    [] r >= req.head /\ ~MoreBody(r) -> "parse"
    [] r < req.head /\ r > MaxHeaderSize -> "parse"
    [] r < req.head /\ r <= MaxHeaderSize -> "header"

RecvHeader ==
  /\ pc = "header"
  /\ Waiting > 0
  /\ request' = Received
  /\ pc' = AfterHeader(Received)
  /\ UNCHANGED <<req, arrived, closed, failed, outcome, body>>

(* recv() returns 0 or fails.  A timeout leads back to it, changing nothing. *)
RecvHeaderEnds ==
  /\ pc = "header"
  /\ Waiting = 0
  /\ closed
  /\ pc' = "parse"
  /\ UNCHANGED <<req, arrived, closed, request, failed, outcome, body>>

RecvBody ==
  /\ pc = "body"
  /\ Waiting > 0
  /\ request' = Received
  /\ pc' = IF Received < req.head + req.n /\ Received < req.head + MaxBodySize
           THEN "body" ELSE "parse"
  /\ UNCHANGED <<req, arrived, closed, failed, outcome, body>>

(* Mutant of RecvBodyEnds: a timeout leads back to recv() here, too. *)
RecvBodyEndsByClose ==
  /\ pc = "body"
  /\ Waiting = 0
  /\ closed
  /\ pc' = "parse"
  /\ failed' = TRUE
  /\ UNCHANGED <<req, arrived, closed, request, outcome, body>>

(* recv() returns 0, times out or fails: the loop ends. *)
RecvBodyEnds ==
  /\ pc = "body"
  /\ Waiting = 0
  /\ pc' = "parse"
  /\ failed' = TRUE
  /\ UNCHANGED <<req, arrived, closed, request, outcome, body>>

-----------------------------------------------------------------------------
(***************************************************************************)
(* handle_client()'s test for an empty request, and HttpParser::parse()    *)
(***************************************************************************)
(* Mutant of ParseError: the body is not compared with Content-Length. *)
ParseErrorShort ==
  CASE request = 0 -> "EMPTY"
    [] request # 0 /\ request < req.head -> "INCOMPLETE"
    [] request >= req.head /\ req.head > MaxHeaderSize -> "HEADER_TOO_LARGE"
    [] request >= req.head /\ req.head <= MaxHeaderSize /\ ~req.line -> "MALFORMED"
    [] request >= req.head /\ req.head <= MaxHeaderSize /\ req.line ->
         CASE req.field \in {"none", "quoted"} -> "NONE"
           [] req.field = "bad" -> "MALFORMED"
           [] req.field = "number" ->
                IF req.n > MaxBodySize THEN "BODY_TOO_LARGE" ELSE "NONE"

ParseError ==
  CASE request = 0 -> "EMPTY"
    [] request # 0 /\ request < req.head -> "INCOMPLETE"
    [] request >= req.head /\ req.head > MaxHeaderSize -> "HEADER_TOO_LARGE"
    [] request >= req.head /\ req.head <= MaxHeaderSize /\ ~req.line -> "MALFORMED"
    [] request >= req.head /\ req.head <= MaxHeaderSize /\ req.line ->
         CASE req.field \in {"none", "quoted"} -> "NONE"
           [] req.field = "bad" -> "MALFORMED"
           [] req.field = "number" /\ req.n > MaxBodySize -> "BODY_TOO_LARGE"
           [] req.field = "number" /\ req.n <= MaxBodySize ->
                IF request - req.head < req.n THEN "INCOMPLETE" ELSE "NONE"

Parse ==
  /\ pc = "parse"
  /\ pc' = "done"
  /\ outcome' = ParseError
  /\ body' = IF ParseError # "NONE" THEN 0
             ELSE IF req.field = "number" THEN req.n ELSE request - req.head
  /\ UNCHANGED <<req, arrived, closed, request, failed>>

(* The response follows; what still arrives is not read. *)
Done == pc = "done" /\ UNCHANGED vars

Next ==
  \/ Arrive
  \/ ClientCloses
  \/ ClientResets
  \/ RecvHeader
  \/ RecvHeaderEnds
  \/ RecvBody
  \/ RecvBodyEnds
  \/ Parse
  \/ Done

Spec == Init /\ [][Next]_vars

(* The worker runs, and a recv() of the loop for the body times out if     *)
(* nothing arrives.  Nothing is assumed of the client.                     *)
Fairness ==
  /\ WF_vars(RecvHeader)
  /\ WF_vars(RecvHeaderEnds)
  /\ WF_vars(RecvBody \/ RecvBodyEnds)
  /\ WF_vars(Parse)

FairSpec == Spec /\ Fairness

-----------------------------------------------------------------------------
(* Types, and the counters' order: what was collected has arrived.         *)
TypeOK ==
  /\ req \in Requests
  /\ arrived \in Nat /\ arrived <= Total
  /\ closed \in BOOLEAN
  /\ request \in Nat /\ request <= arrived
  /\ pc \in {"header", "body", "parse", "done"}
  /\ failed \in BOOLEAN
  /\ outcome \in {"NONE", "EMPTY", "INCOMPLETE", "MALFORMED", "HEADER_TOO_LARGE",
                  "BODY_TOO_LARGE"}
  /\ body \in Nat

(* Whatever a client sends, the memory a connection takes is bounded: the  *)
(* two limits, each overrun by less than one recv().                       *)
BoundedMemory == request < MaxHeaderSize + MaxBodySize + 2 * BufferSize

(* A request whose lengths are right and within the limits.                *)
Intact ==
  /\ req.line
  /\ req.head <= MaxHeaderSize
  /\ \/ req.field = "number" /\ req.n <= MaxBodySize /\ req.body >= req.n
     \/ req.field = "none" /\ req.body = 0 /\ req.n = 0

(* The pieces in which a request arrives do not matter: recv_request()     *)
(* stops neither too early nor too late for the parser, which finds the    *)
(* request complete, with the body its Content-Length announced.           *)
PiecesDoNotMatter ==
  pc = "done" /\ Intact /\ ~failed /\ arrived >= req.head + req.n
    => outcome = "NONE" /\ body = req.n

(* A request that reaches the router is complete and within both limits:   *)
(* one cut short by the client or by the timeout never does.               *)
AcceptedIsComplete ==
  pc = "done" /\ outcome = "NONE" =>
    /\ req.line
    /\ request >= req.head /\ req.head <= MaxHeaderSize
    /\ req.field = "number" =>
         body = req.n /\ req.n <= MaxBodySize /\ request >= req.head + req.n

(* Reading ends when the client has closed its end, and also, by the       *)
(* timeout, when its header has arrived and its body never does.           *)
ReadingEnds == closed \/ arrived >= req.head ~> pc = "done"

=============================================================================
