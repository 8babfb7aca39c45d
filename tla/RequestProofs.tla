---------------------------- MODULE RequestProofs ----------------------------
(***************************************************************************)
(* Proofs about Request, for any limits, any size of the buffer and any    *)
(* requests: the memory bound, and that recv_request() and the parser      *)
(* agree on what a complete request is.                                    *)
(***************************************************************************)
EXTENDS Request, TLAPS

(* The sizes a control point of recv_request() implies.                    *)
Sizes ==
  /\ pc = "header" => request < req.head /\ request <= MaxHeaderSize
  /\ pc = "body" => /\ req.head <= request
                    /\ req.field \in {"number", "quoted"}
                    /\ request < req.head + req.n
                    /\ request < req.head + MaxBodySize
  /\ request >= req.head => req.head <= MaxHeaderSize + BufferSize

(* A request that could be complete is, when it goes to the parser, unless *)
(* the client closed its end early.                                        *)
EnoughForParser ==
  pc \in {"parse", "done"} /\ Intact /\ ~failed =>
    request >= req.head + req.n \/ (closed /\ request = arrived)

RequestInv ==
  /\ TypeOK
  /\ Sizes
  /\ BoundedMemory
  /\ EnoughForParser
  /\ PiecesDoNotMatter
  /\ AcceptedIsComplete

-----------------------------------------------------------------------------
(* The fields of the request being read have their types.                  *)
LEMMA ReqFields ==
  ASSUME req \in Requests
  PROVE  /\ req.head \in Nat /\ req.head > 0
         /\ req.body \in Nat /\ req.n \in Nat /\ req.quoteEnd \in Nat
         /\ req.line \in BOOLEAN
         /\ req.field \in {"number", "bad", "quoted", "none"}
<1>1. req \in Described
  BY RequestAssumption
<1> QED
  BY <1>1 DEF Described

(* One recv() takes something of what has arrived, at most a buffer.       *)
LEMMA ReceivedBounds ==
  ASSUME TypeOK, Waiting > 0
  PROVE  /\ Received \in Nat
         /\ request < Received
         /\ Received <= arrived
         /\ Received <= request + BufferSize
  BY RequestAssumption, ReqFields DEF TypeOK, Waiting, Received, Total

(* Initially nothing has arrived.                                          *)
LEMMA RequestInit == Init => RequestInv
<1> SUFFICES ASSUME Init PROVE RequestInv
  OBVIOUS
<1> USE RequestAssumption, ReqFields DEF Init
<1>1. TypeOK
  <2>1. arrived \in Nat /\ request \in Nat /\ body \in Nat /\ request <= arrived
    OBVIOUS
  <2>2. arrived <= Total
    BY DEF Total
  <2> QED
    BY <2>1, <2>2, Zenon DEF TypeOK
<1>2. Sizes /\ BoundedMemory
  BY DEF Sizes, BoundedMemory
<1>3. EnoughForParser /\ PiecesDoNotMatter /\ AcceptedIsComplete
  BY DEF EnoughForParser, PiecesDoNotMatter, AcceptedIsComplete
<1> QED
  BY <1>1, <1>2, <1>3 DEF RequestInv

(* Bytes that arrive, or a client that leaves, change no decision taken.   *)
LEMMA ClientStepInv ==
  ASSUME RequestInv, Arrive \/ ClientCloses \/ ClientResets
  PROVE  RequestInv'
<1> USE RequestAssumption, ReqFields DEF RequestInv, TypeOK, Total
<1>1. CASE Arrive
  <2> USE <1>1 DEF Arrive
  <2>1. TypeOK' /\ arrived < arrived'
    OBVIOUS
  <2>2. Sizes' /\ BoundedMemory'
    BY DEF Sizes, BoundedMemory
  <2>3. EnoughForParser' /\ AcceptedIsComplete'
    BY <2>1 DEF EnoughForParser, AcceptedIsComplete, Intact
  <2>4. PiecesDoNotMatter'
    BY <2>1 DEF PiecesDoNotMatter, EnoughForParser, Intact
  <2> QED
    BY <2>1, <2>2, <2>3, <2>4
<1>2. CASE ClientCloses
  BY <1>2 DEF ClientCloses, Sizes, BoundedMemory, EnoughForParser, AcceptedIsComplete,
              PiecesDoNotMatter, Intact
<1>3. CASE ClientResets
  BY <1>3 DEF ClientResets, Sizes, BoundedMemory, EnoughForParser, AcceptedIsComplete,
              PiecesDoNotMatter, Intact
<1> QED
  BY <1>1, <1>2, <1>3

(* The first loop of recv_request() goes on only below the header limit,   *)
(* and leaves for the parser only with enough for it.                      *)
LEMMA HeaderStepInv ==
  ASSUME RequestInv, RecvHeader \/ RecvHeaderEnds
  PROVE  RequestInv'
<1>0. req \in Requests
  BY DEF RequestInv, TypeOK
<1> USE RequestAssumption, <1>0, ReqFields DEF RequestInv
<1>1. CASE RecvHeader
  <2> USE <1>1 DEF RecvHeader
  <2>1. /\ request' = Received /\ Received \in Nat /\ Received <= arrived
        /\ Received <= request + BufferSize
    BY ReceivedBounds
  <2>2. /\ request < req.head /\ request <= MaxHeaderSize
        /\ request \in Nat /\ arrived \in Nat
    BY DEF Sizes, TypeOK
  <2>3. /\ pc' \in {"header", "body", "parse"}
        /\ pc' = "header" => Received < req.head /\ Received <= MaxHeaderSize
        /\ pc' = "body" => Received >= req.head /\ MoreBody(Received)
        /\ pc' = "parse" => \/ Received >= req.head /\ ~MoreBody(Received)
                            \/ Received < req.head /\ Received > MaxHeaderSize
    <3> USE <2>1, <2>2 DEF AfterHeader, TypeOK
    <3>1. CASE Received >= req.head /\ MoreBody(Received)
      BY <3>1
    <3>2. CASE Received >= req.head /\ ~MoreBody(Received)
      BY <3>2
    <3>3. CASE Received < req.head /\ Received > MaxHeaderSize
      BY <3>3
    <3>4. CASE Received < req.head /\ Received <= MaxHeaderSize
      BY <3>4
    <3> QED
      BY <3>1, <3>2, <3>3, <3>4
  <2>4. TypeOK'
    BY <2>1, <2>3 DEF TypeOK, Total
  <2>5. Sizes'
    BY <2>1, <2>2, <2>3 DEF Sizes, TypeOK, MoreBody, FieldSeen
  <2>6. BoundedMemory'
    BY <2>1, <2>2 DEF BoundedMemory
  <2>7. EnoughForParser'
    BY <2>1, <2>2, <2>3 DEF EnoughForParser, Intact, MoreBody, FieldSeen, TypeOK
  <2>8. PiecesDoNotMatter' /\ AcceptedIsComplete'
    BY <2>3 DEF PiecesDoNotMatter, AcceptedIsComplete
  <2> QED
    BY <2>4, <2>5, <2>6, <2>7, <2>8
<1>2. CASE RecvHeaderEnds
  BY <1>2 DEF RecvHeaderEnds, Waiting, TypeOK, Total, Sizes, BoundedMemory,
              EnoughForParser, PiecesDoNotMatter, AcceptedIsComplete, Intact
<1> QED
  BY <1>1, <1>2

(* The loop for the body goes on only below both Content-Length and the    *)
(* body limit.                                                             *)
LEMMA BodyStepInv ==
  ASSUME RequestInv, RecvBody \/ RecvBodyEnds
  PROVE  RequestInv'
<1>0. req \in Requests
  BY DEF RequestInv, TypeOK
<1> USE RequestAssumption, <1>0, ReqFields DEF RequestInv
<1>1. CASE RecvBody
  <2> USE <1>1 DEF RecvBody
  <2>1. /\ request' = Received /\ Received \in Nat /\ Received <= arrived
        /\ request < Received /\ Received <= request + BufferSize
    BY ReceivedBounds
  <2>2. /\ req.head <= request /\ request < req.head + req.n
        /\ request < req.head + MaxBodySize /\ req.head <= MaxHeaderSize + BufferSize
        /\ req.field \in {"number", "quoted"}
        /\ request \in Nat /\ arrived \in Nat
    BY DEF Sizes, TypeOK
  <2>3. TypeOK'
    BY <2>1 DEF TypeOK, Total
  <2>4. Sizes'
    BY <2>1, <2>2 DEF Sizes
  <2>5. BoundedMemory'
    BY <2>1, <2>2 DEF BoundedMemory
  <2>6. EnoughForParser'
    BY <2>1, <2>2 DEF EnoughForParser, Intact
  <2>7. PiecesDoNotMatter' /\ AcceptedIsComplete'
    BY DEF PiecesDoNotMatter, AcceptedIsComplete
  <2> QED
    BY <2>3, <2>4, <2>5, <2>6, <2>7
<1>2. CASE RecvBodyEnds
  BY <1>2 DEF RecvBodyEnds, TypeOK, Total, Sizes, BoundedMemory, EnoughForParser,
              PiecesDoNotMatter, AcceptedIsComplete, Intact
<1> QED
  BY <1>1, <1>2

(* HttpParser::parse() takes a request for complete just when it is.       *)
LEMMA ParseStepInv ==
  ASSUME RequestInv, Parse
  PROVE  RequestInv'
<1>0. req \in Requests
  BY DEF RequestInv, TypeOK
<1> USE RequestAssumption, <1>0, ReqFields DEF RequestInv, Parse
<1>1. request \in Nat /\ arrived \in Nat /\ request <= arrived
  BY DEF TypeOK
<1>2. /\ ParseError \in {"NONE", "EMPTY", "INCOMPLETE", "MALFORMED", "HEADER_TOO_LARGE",
                         "BODY_TOO_LARGE"}
      /\ ParseError = "NONE" <=>
           /\ request >= req.head /\ req.head <= MaxHeaderSize /\ req.line
           /\ req.field # "bad"
           /\ req.field = "number" => req.n <= MaxBodySize /\ request - req.head >= req.n
  <2> USE <1>1 DEF ParseError
  <2>1. CASE request < req.head \/ req.head > MaxHeaderSize \/ ~req.line
    BY <2>1
  <2>2. CASE request >= req.head /\ req.head <= MaxHeaderSize /\ req.line
    <3>1. CASE req.field \in {"none", "quoted"}
      BY <2>2, <3>1
    <3>2. CASE req.field = "bad"
      BY <2>2, <3>2
    <3>3. CASE req.field = "number" /\ req.n > MaxBodySize
      BY <2>2, <3>3
    <3>4. CASE req.field = "number" /\ req.n <= MaxBodySize
      BY <2>2, <3>4
    <3> QED
      BY <3>1, <3>2, <3>3, <3>4
  <2> QED
    BY <2>1, <2>2
<1>3. TypeOK'
  BY <1>1, <1>2 DEF TypeOK, Total
<1>4. Sizes' /\ BoundedMemory'
  BY DEF Sizes, BoundedMemory
<1>5. EnoughForParser'
  BY DEF EnoughForParser, Intact
<1>6. AcceptedIsComplete'
  BY <1>1, <1>2 DEF AcceptedIsComplete
<1>7. PiecesDoNotMatter'
  <2> SUFFICES ASSUME Intact, ~failed, arrived >= req.head + req.n
               PROVE  ParseError = "NONE" /\ body' = req.n
    BY DEF PiecesDoNotMatter, Intact
  <2>1. request >= req.head + req.n
    BY <1>1 DEF EnoughForParser
  <2>2. ParseError = "NONE"
    BY <1>1, <1>2, <2>1 DEF Intact
  <2>3. request <= Total
    BY <1>1 DEF TypeOK, Total
  <2> QED
    BY <1>1, <2>1, <2>2, <2>3 DEF Intact, Total
<1> QED
  BY <1>3, <1>4, <1>5, <1>6, <1>7

(* The inductive invariant holds in every reachable state.                 *)
THEOREM RequestInvariant == Spec => []RequestInv
<1>1. Init => RequestInv
  BY RequestInit
<1>2. RequestInv /\ [Next]_vars => RequestInv'
  <2> SUFFICES ASSUME RequestInv, [Next]_vars PROVE RequestInv'
    OBVIOUS
  <2>1. CASE Arrive \/ ClientCloses \/ ClientResets
    BY <2>1, ClientStepInv
  <2>2. CASE RecvHeader \/ RecvHeaderEnds
    BY <2>2, HeaderStepInv
  <2>3. CASE RecvBody \/ RecvBodyEnds
    BY <2>3, BodyStepInv
  <2>4. CASE Parse
    BY <2>4, ParseStepInv
  <2>5. CASE Done \/ UNCHANGED vars
    BY <2>5 DEF Done, vars, RequestInv, TypeOK, Total, Sizes, BoundedMemory,
                EnoughForParser, PiecesDoNotMatter, AcceptedIsComplete, Intact
  <2> QED
    BY <2>1, <2>2, <2>3, <2>4, <2>5 DEF Next
<1> QED
  BY <1>1, <1>2, PTL DEF Spec

(* Types, and the order of the counters: recv_request() never holds more   *)
(* than has arrived, also after a reset has dropped what was not read.     *)
THEOREM RequestTypeCorrect == Spec => []TypeOK
<1>1. RequestInv => TypeOK
  BY DEF RequestInv
<1> QED
  BY <1>1, RequestInvariant, PTL

(* The memory a connection takes is bounded by the limits of the           *)
(* configuration, whatever the client sends and however it arrives.        *)
THEOREM MemoryBounded == Spec => []BoundedMemory
<1>1. RequestInv => BoundedMemory
  BY DEF RequestInv
<1> QED
  BY <1>1, RequestInvariant, PTL

(* recv_request() and HttpParser::parse() agree on complete requests, in   *)
(* whatever pieces they arrive.                                            *)
THEOREM FramingAgrees == Spec => []PiecesDoNotMatter
<1>1. RequestInv => PiecesDoNotMatter
  BY DEF RequestInv
<1> QED
  BY <1>1, RequestInvariant, PTL

(* No request that was cut short or exceeds a limit reaches the router.    *)
THEOREM OnlyCompleteAccepted == Spec => []AcceptedIsComplete
<1>1. RequestInv => AcceptedIsComplete
  BY DEF RequestInv
<1> QED
  BY <1>1, RequestInvariant, PTL

=============================================================================
