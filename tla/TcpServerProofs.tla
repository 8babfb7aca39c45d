--------------------------- MODULE TcpServerProofs ---------------------------
(***************************************************************************)
(* Proofs about TcpServer, for any number of connections and workers, any  *)
(* capacity of the queue, and signals at any point of the main thread.     *)
(*                                                                         *)
(* The properties of TcpServer relate what is true of a connection at the  *)
(* end to all that happened to it; the inductive invariant says what is    *)
(* true at every point on the way: which connections the pool has, how far *)
(* main is, who has the descriptor, and what has been recorded and sent.   *)
(***************************************************************************)
EXTENDS TcpServer, TLAPS, FiniteSetTheorems

(* TypeOK, without what follows from the parts below.                      *)
Types ==
  /\ pending \in Seq(Conns)
  /\ executing \subseteq Conns
  /\ settled \subseteq Conns
  /\ phase \in {"open", "closing", "closed"}
  /\ running_ \in BOOLEAN
  /\ listen_fd_ \in {"fd", "invalid"}
  /\ pool_ \in {"null", "live"}
  /\ mpc \in MainPoints
  /\ client_fd \in Conns \cup {NoConn}
  /\ hpc \in [Conns -> HandlerPoints]
  /\ raw_request \in [Conns -> Amounts]
  /\ sock \in [Conns -> {"none", "backlog", "open", "closed", "reset"}]
  /\ sent \in [Conns -> Amounts]
  /\ gone \subseteq Conns
  /\ timedOut \subseteq Conns
  /\ signals \in 0..MaxSignals
  /\ process \in {"up", "terminated", "killed"}
  /\ recorded \in [Conns -> Seq(Classes)]
  /\ responses \in [Conns -> Seq(Classes)]

(* The pool's tasks are the connections that wait for or have a worker,    *)
(* each of them once.                                                      *)
Running == Using \cup {"uncount"}
TasksOfPool ==
  /\ \A i \in 1..Len(pending) : hpc[pending[i]] = "queued"
  /\ \A i, j \in 1..Len(pending) : pending[i] = pending[j] => i = j
  /\ \A c \in Conns : hpc[c] = "queued" => \E i \in 1..Len(pending) : pending[i] = c
  /\ executing = {c \in Conns : hpc[c] \in Running}

(* How far main is: there is a pool from accept_loop() to pool_.reset(),   *)
(* and a task only up to the return of shutdown(); an open listening       *)
(* socket means that nobody has called stop().                             *)
Serving ==
  {"loop", "accept", "error_log", "opened", "submit", "reject_log", "reject", "reject_close",
   "reject_uncount", "down_log", "down", "join"}
Waiting == {"hung", "stuck"}
Course ==
  /\ mpc \in Serving \cup {"reset"} => pool_ = "live"
  /\ mpc \notin Serving \cup Waiting \cup {"reset"} => pool_ = "null"
  /\ mpc \notin Serving \cup Waiting => pending = <<>> /\ executing = {}
  /\ PoolOutlivesTasks
  /\ listen_fd_ = "fd" => running_
  /\ mpc \in {"ctor", "routes_log", "main", "start", "stop_log", "bye_log", "exit"} =>
       listen_fd_ = "invalid"

(* A descriptor is open while main, the queue or a worker has it.          *)
Holding == {"opened", "submit", "reject_log", "reject", "reject_close"}
Sockets ==
  /\ mpc \in Holding => client_fd \in Conns
  /\ client_fd \in Conns => mpc \in Holding \cup Waiting
  /\ client_fd \in Conns => hpc[client_fd] = "none"
  /\ \A c \in Conns : sock[c] = "open" <=> hpc[c] \in Using \cup {"queued"} \/ client_fd = c
  /\ \A c \in Conns : hpc[c] \in {"uncount", "done"} => sock[c] = "closed"
  /\ \A c \in Conns : sock[c] = "backlog" => listen_fd_ = "fd"

(* What has been recorded for a connection and sent to it, at each point   *)
(* of its handling.                                                        *)
Says(c, outcomes, answers) == recorded[c] = outcomes /\ responses[c] = answers
Failed(k) == Append(<<k>>, "5xx")
Story(c) ==
  /\ hpc[c] = "none" =>
       IF sock[c] = "closed" \/ (client_fd = c /\ mpc = "reject_close")
         THEN Says(c, <<"5xx">>, <<"5xx">>)
         ELSE Says(c, <<>>, <<>>)
  /\ hpc[c] \in {"queued", "recv", "body", "route"} => Says(c, <<>>, <<>>)
  /\ hpc[c] = "send" => \E k \in Classes : Says(c, <<k>>, <<>>)
  /\ hpc[c] = "log" => \E k \in Classes : Says(c, <<k>>, <<k>>)
  /\ hpc[c] = "failed" =>
       \/ Says(c, <<>>, <<>>)
       \/ \E k \in Classes : Says(c, <<k>>, <<>>) \/ Says(c, <<k>>, <<k>>)
  /\ hpc[c] = "sorry" =>
       \/ Says(c, <<"5xx">>, <<>>)
       \/ \E k \in Classes : Says(c, Failed(k), <<>>) \/ Says(c, Failed(k), <<k>>)
  /\ hpc[c] \in {"close", "uncount", "done"} =>
       \/ Says(c, <<>>, <<>>) /\ c \in gone
       \/ \E k \in Classes :
            \/ Says(c, <<k>>, <<k>>)
            \/ Says(c, Failed(k), <<"5xx">>)
            \/ Says(c, Failed(k), Failed(k))
Stories == \A c \in Conns : Story(c)

ServerInv ==
  /\ Types
  /\ TasksOfPool
  /\ Course
  /\ Sockets
  /\ Stories

-----------------------------------------------------------------------------
(* The invariant holds at the start.                                       *)
LEMMA InitInv == Init => ServerInv
<1> SUFFICES ASSUME Init PROVE ServerInv
  OBVIOUS
<1> USE ServerAssumption DEF Init, P!PoolInit
<1>0. <<>> \in Seq(Conns) /\ <<>> \in Seq(Classes) /\ 0 \in 0..MaxSignals
  OBVIOUS
<1>1. Types
  BY <1>0 DEF Types, MainPoints, HandlerPoints, Amounts
<1>2. TasksOfPool
  BY DEF TasksOfPool, Running, Using
<1>3. Course
  BY DEF Course, Serving, Waiting, PoolOutlivesTasks
<1>4. Sockets
  BY DEF Sockets, Holding, Waiting, Using
<1>5. Stories
  BY DEF Stories, Story, Says
<1> QED
  BY <1>1, <1>2, <1>3, <1>4, <1>5 DEF ServerInv

(* Steps of main that only move on.                                        *)
LEMMA MainMoves ==
  ASSUME ServerInv,
         Construct \/ MakeServer \/ StartFails \/ LogReturns \/ LoopTest \/ AcceptFails
  PROVE  ServerInv'
<1> USE DEF ServerInv, MainGoes, idleVars, quietVars, poolVars, serverVars, metricVars,
            outputVars, handlerVars, worldVars, clientVars, restVars, LogNext, LogPoints,
            Construct, MakeServer, StartFails, LogReturns, LoopTest, AcceptFails
<1>0. UNCHANGED idleVars
  OBVIOUS
<1>1. Types'
  BY <1>0 DEF Types, MainPoints
<1>2. TasksOfPool'
  BY <1>0 DEF TasksOfPool
<1>3. Course'
  BY <1>0 DEF Course, PoolOutlivesTasks, Serving, Waiting
<1>4. Sockets'
  BY <1>0 DEF Sockets, Holding, Waiting
<1>5. Stories'
  BY <1>0 DEF Stories, Story, Says
<1> QED
  BY <1>1, <1>2, <1>3, <1>4, <1>5

(* connection_opened() counts the connection that accept() has returned.   *)
LEMMA Counts ==
  ASSUME ServerInv, CountConn
  PROVE  ServerInv'
<1> USE DEF ServerInv, MainGoes, quietVars, poolVars, serverVars, outputVars, handlerVars,
            worldVars, clientVars, restVars, CountConn
<1>1. Types'
  BY DEF Types, MainPoints
<1>2. TasksOfPool'
  BY DEF TasksOfPool
<1>3. Course'
  BY DEF Course, PoolOutlivesTasks, Serving, Waiting
<1>4. Sockets'
  BY DEF Sockets, Holding, Waiting
<1>5. Stories'
  BY DEF Stories, Story, Says
<1> QED
  BY <1>1, <1>2, <1>3, <1>4, <1>5

(* start() sets the server up.                                             *)
LEMMA StartsUp ==
  ASSUME ServerInv, StartListens \/ PoolReady \/ PoolFails
  PROVE  ServerInv'
<1> USE DEF ServerInv, MainGoes, quietVars, poolVars, serverVars, metricVars,
            outputVars, handlerVars, worldVars, clientVars, restVars,
            StartListens, PoolReady, PoolFails
<1>1. Types'
  <2>1. mpc' \in MainPoints /\ listen_fd_' \in {"fd", "invalid"} /\ running_' \in BOOLEAN
    BY DEF Types, MainPoints, LogPoints, LogNext
  <2>2. pool_' \in {"null", "live"} /\ process' \in {"up", "terminated", "killed"}
    BY DEF Types
  <2>3. UNCHANGED <<pending, executing, settled, phase, client_fd, hpc, raw_request, sock, sent,
                    gone, timedOut, signals, recorded, responses>>
    OBVIOUS
  <2> QED
    BY <2>1, <2>2, <2>3 DEF Types
<1>2. TasksOfPool'
  BY DEF TasksOfPool
<1>3. Course'
  BY DEF Course, PoolOutlivesTasks, Serving, Waiting
<1>4. Sockets'
  BY DEF Sockets, Holding, Waiting
<1>5. Stories'
  BY DEF Stories, Story, Says
<1> QED
  BY <1>1, <1>2, <1>3, <1>4, <1>5

(* start() takes the pool down.                                            *)
LEMMA TakesPoolDown ==
  ASSUME ServerInv, ShutdownCalled \/ ShutdownReturns \/ ResetPool
  PROVE  ServerInv'
<1> USE DEF ServerInv, MainGoes, quietVars, poolVars, serverVars, metricVars,
            outputVars, handlerVars, worldVars, clientVars, restVars,
            ShutdownCalled, ShutdownReturns, ResetPool, P!Close, P!Closed
<1>1. Types'
  BY DEF Types, MainPoints, LogPoints, LogNext
<1>2. TasksOfPool'
  BY DEF TasksOfPool
<1>3. Course'
  BY DEF Course, PoolOutlivesTasks, Serving, Waiting
<1>4. Sockets'
  BY DEF Sockets, Holding, Waiting
<1>5. Stories'
  BY DEF Stories, Story, Says
<1> QED
  BY <1>1, <1>2, <1>3, <1>4, <1>5

(* Closing the listening socket resets the backlog and nothing else.       *)
LEMMA ClosesListener ==
  ASSUME ServerInv, Stop \/ (StartReturns /\ UNCHANGED running_)
  PROVE  /\ running_' \in BOOLEAN
         /\ listen_fd_' = "invalid"
         /\ sock' \in [Conns -> {"none", "backlog", "open", "closed", "reset"}]
         /\ \A c \in Conns : /\ sock'[c] = "open" <=> sock[c] = "open"
                             /\ sock'[c] = "closed" <=> sock[c] = "closed"
                             /\ sock'[c] # "backlog"
<1>0. /\ running_ \in BOOLEAN /\ listen_fd_ \in {"fd", "invalid"}
      /\ sock \in [Conns -> {"none", "backlog", "open", "closed", "reset"}]
      /\ listen_fd_ = "fd" => running_
      /\ \A c \in Conns : sock[c] = "backlog" => listen_fd_ = "fd"
  BY DEF ServerInv, Types, Course, Sockets
<1>1. running_' \in BOOLEAN
  BY <1>0 DEF Stop
<1>2. CASE listen_fd_ = "fd"
  <2>1. CloseListener
    BY <1>0, <1>2 DEF Stop, StartReturns
  <2> QED
    BY <1>0, <1>1, <2>1 DEF CloseListener
<1>3. CASE listen_fd_ = "invalid"
  <2>1. UNCHANGED <<listen_fd_, sock>>
    BY <1>3 DEF Stop, StartReturns
  <2> QED
    BY <1>0, <1>1, <1>3, <2>1
<1> QED
  BY <1>0, <1>2, <1>3

(* start() returns, the server is destroyed, or a signal arrives.          *)
LEMMA StopsOrSignal ==
  ASSUME ServerInv, StartReturns \/ DestroyServer \/ HandleSignal
  PROVE  ServerInv'
<1> USE DEF ServerInv, MainGoes, quietVars, poolVars, serverVars, metricVars,
            outputVars, handlerVars, worldVars, clientVars, restVars,
            LogPoints, LogNext
<1>1. CASE StartReturns
  <2>0. UNCHANGED running_
    BY <1>1 DEF StartReturns
  <2> USE <1>1, <2>0, ClosesListener DEF StartReturns
  <2>1. Types'
    BY DEF Types, MainPoints
  <2>2. TasksOfPool'
    BY DEF TasksOfPool
  <2>3. Course'
    BY DEF Course, PoolOutlivesTasks, Serving, Waiting
  <2>4. Sockets'
    BY DEF Sockets, Holding, Waiting, Types
  <2>5. Stories'
    BY DEF Stories, Story, Says
  <2> QED
    BY <2>1, <2>2, <2>3, <2>4, <2>5
<1>2. CASE DestroyServer
  <2>0. Stop
    BY <1>2 DEF DestroyServer
  <2> USE <1>2, <2>0, ClosesListener DEF DestroyServer
  <2>1. Types'
    BY DEF Types, MainPoints
  <2>2. TasksOfPool'
    BY DEF TasksOfPool
  <2>3. Course'
    BY DEF Course, PoolOutlivesTasks, Serving, Waiting
  <2>4. Sockets'
    BY DEF Sockets, Holding, Waiting, Types
  <2>5. Stories'
    BY DEF Stories, Story, Says
  <2> QED
    BY <2>1, <2>2, <2>3, <2>4, <2>5
<1>3. CASE HandleSignal
  <2>0. signals' \in 0..MaxSignals
    BY <1>3, ServerAssumption DEF HandleSignal, Types
  <2>1. CASE SignalHangs
    <3> USE <1>3, <2>0, <2>1 DEF HandleSignal, SignalHangs, Allocates
    <3>1. Types'
      BY DEF Types, MainPoints
    <3>2. TasksOfPool'
      BY DEF TasksOfPool
    <3>3. Course'
      BY DEF Course, PoolOutlivesTasks, Serving, Waiting
    <3>4. Sockets'
      BY DEF Sockets, Holding, Waiting, Types
    <3>5. Stories'
      BY DEF Stories, Story, Says, Sockets
    <3> QED
      BY <3>1, <3>2, <3>3, <3>4, <3>5
  <2>2. CASE SignalStops
    <3>0. Stop
      BY <2>2 DEF SignalStops
    <3> USE <1>3, <2>0, <2>2, <3>0, ClosesListener DEF HandleSignal, SignalStops
    <3>1. Types'
      BY DEF Types, MainPoints
    <3>2. TasksOfPool'
      BY DEF TasksOfPool
    <3>3. Course'
      BY DEF Course, PoolOutlivesTasks, Serving, Waiting
    <3>4. Sockets'
      BY DEF Sockets, Holding, Waiting, Types
    <3>5. Stories'
      BY DEF Stories, Story, Says
    <3> QED
      BY <3>1, <3>2, <3>3, <3>4, <3>5
  <2>3. CASE SignalIgnored
    <3> USE <1>3, <2>0, <2>3 DEF HandleSignal, SignalIgnored
    <3>1. Types'
      BY DEF Types, MainPoints
    <3>2. TasksOfPool' /\ Sockets'
      BY DEF TasksOfPool, Sockets
    <3>3. Course'
      BY DEF Course, PoolOutlivesTasks
    <3>4. Stories'
      BY DEF Stories, Story, Says
    <3> QED
      BY <3>1, <3>2, <3>3, <3>4
  <2> QED
    BY <1>3, <2>1, <2>2, <2>3 DEF HandleSignal
<1> QED
  BY <1>1, <1>2, <1>3

-----------------------------------------------------------------------------
(* What is true of c stays true while nothing it depends on changes.       *)
LEMMA StoryKept ==
  ASSUME NEW c \in Conns, Story(c),
         hpc'[c] = hpc[c], recorded'[c] = recorded[c], responses'[c] = responses[c],
         (sock[c] = "closed")' <=> sock[c] = "closed",
         (client_fd = c /\ mpc = "reject_close")' <=> (client_fd = c /\ mpc = "reject_close"),
         c \in gone => c \in gone'
  PROVE  Story(c)'
  BY DEF Story, Says

(* A class more for one connection.                                        *)
LEMMA OneMore ==
  ASSUME NEW f \in [Conns -> Seq(Classes)], NEW c \in Conns, NEW k \in Classes
  PROVE  [f EXCEPT ![c] = Append(@, k)] \in [Conns -> Seq(Classes)]
<1>1. Append(f[c], k) \in Seq(Classes)
  OBVIOUS
<1> QED
  BY <1>1

(* accept() returns a connection.                                          *)
LEMMA Accepts ==
  ASSUME ServerInv, NEW c \in Conns, AcceptConn(c)
  PROVE  ServerInv'
<1> USE DEF ServerInv, MainGoes, poolVars, serverVars, outputVars, handlerVars, worldVars,
            clientVars, restVars, metricVars, LogPoints, LogNext, AcceptConn
<1>1. Types'
  BY DEF Types, MainPoints
<1>2. TasksOfPool'
  BY DEF TasksOfPool
<1>3. Course'
  BY DEF Course, PoolOutlivesTasks, Serving, Waiting
<1>4. Sockets'
  <2>1. /\ mpc' = "opened" /\ client_fd' = c /\ c \in Conns
        /\ UNCHANGED <<hpc, listen_fd_>>
        /\ sock' = [sock EXCEPT ![c] = "open"] /\ sock[c] = "backlog"
    OBVIOUS
  <2>2. sock \in [Conns -> {"none", "backlog", "open", "closed", "reset"}] /\ hpc \in [Conns -> HandlerPoints]
    BY DEF Types
  <2>3. client_fd \notin Conns
    BY DEF Sockets, Holding, Waiting
  <2>4. hpc[c] = "none"
    <3>1. hpc[c] \in HandlerPoints /\ hpc[c] \notin Using \cup {"queued", "uncount", "done"}
      BY <2>1, <2>2 DEF Sockets
    <3> QED
      BY <3>1 DEF HandlerPoints, Using
  <2>5. \A d \in Conns : sock'[d] = "open" <=> hpc'[d] \in Using \cup {"queued"} \/ client_fd' = d
    BY <2>1, <2>2, <2>3 DEF Sockets
  <2>6. \A d \in Conns : hpc'[d] \in {"uncount", "done"} => sock'[d] = "closed"
    BY <2>1, <2>2, <2>4 DEF Sockets
  <2>7. \A d \in Conns : sock'[d] = "backlog" => listen_fd_' = "fd"
    BY <2>1, <2>2 DEF Sockets
  <2> QED
    BY <2>1, <2>4, <2>5, <2>6, <2>7 DEF Sockets, Holding, Waiting
<1>5. ASSUME NEW d \in Conns PROVE Story(d)'
  <2>1. (sock[d] = "closed")' <=> sock[d] = "closed"
    BY DEF Types
  <2> QED
    BY <2>1, StoryKept DEF Stories
<1> QED
  BY <1>1, <1>2, <1>3, <1>4, <1>5 DEF Stories

(* The connection goes to the pool.                                        *)
LEMMA Submits ==
  ASSUME ServerInv, SubmitAccepted
  PROVE  ServerInv'
<1> USE ServerAssumption
    DEF ServerInv, MainGoes, poolVars, serverVars, outputVars, metricVars, worldVars,
        clientVars, restVars, LogPoints, LogNext, SubmitAccepted, Handler, P!Accept
<1>0. client_fd \in Conns /\ sock[client_fd] = "open"
  BY DEF Sockets, Holding, Waiting
<1> USE <1>0
<1>1. Types'
  BY DEF Types, MainPoints, HandlerPoints
<1>2. TasksOfPool'
  <2>1. /\ Len(pending') = Len(pending) + 1 /\ Len(pending) \in Nat
        /\ pending'[Len(pending) + 1] = client_fd
        /\ \A i \in 1..Len(pending) : pending'[i] = pending[i] /\ pending[i] # client_fd
    BY DEF Types, P!Fresh
  <2>2. \A i \in 1..Len(pending') : i \in 1..Len(pending) \/ i = Len(pending) + 1
    BY <2>1
  <2>3. ASSUME NEW i \in 1..Len(pending') PROVE hpc'[pending'[i]] = "queued"
    <3>1. CASE i \in 1..Len(pending)
      <4>1. pending'[i] = pending[i] /\ pending[i] # client_fd /\ hpc[pending[i]] = "queued"
        BY <2>1, <3>1 DEF TasksOfPool
      <4>2. pending[i] \in Conns
        BY <3>1 DEF Types
      <4> QED
        BY <4>1, <4>2 DEF Types
    <3>2. CASE i = Len(pending) + 1
      BY <2>1, <3>2 DEF Types
    <3> QED
      BY <2>2, <3>1, <3>2
  <2>4. \A i, j \in 1..Len(pending') : pending'[i] = pending'[j] => i = j
    BY <2>1, <2>2 DEF TasksOfPool
  <2>5. ASSUME NEW d \in Conns, hpc'[d] = "queued"
        PROVE  \E i \in 1..Len(pending') : pending'[i] = d
    <3>1. CASE d = client_fd
      BY <2>1, <3>1
    <3>2. CASE d # client_fd
      <4>1. hpc[d] = "queued"
        BY <2>5, <3>2 DEF Types
      <4>2. PICK i \in 1..Len(pending) : pending[i] = d
        BY <4>1 DEF TasksOfPool
      <4>3. i \in 1..Len(pending') /\ pending'[i] = d
        BY <2>1, <4>2
      <4> QED
        BY <4>3
    <3> QED
      BY <3>1, <3>2
  <2>6. executing' = {d \in Conns : hpc'[d] \in Running}
    BY DEF TasksOfPool, Types, Running, Using
  <2> QED
    BY <2>3, <2>4, <2>5, <2>6 DEF TasksOfPool
<1>3. Course'
  BY DEF Course, PoolOutlivesTasks, Serving, Waiting, Types
<1>4. Sockets'
  BY DEF Sockets, Holding, Waiting, Types, Using
<1>5. ASSUME NEW d \in Conns PROVE Story(d)'
  <2>1. CASE d = client_fd
    <3>1. hpc'[d] = "queued" /\ Says(d, <<>>, <<>>)
      BY <2>1 DEF Stories, Story, Types
    <3> QED
      BY <3>1 DEF Story, Says
  <2>2. CASE d # client_fd
    <3>1. hpc'[d] = hpc[d]
      BY <2>2 DEF Types
    <3> QED
      BY <2>2, <3>1, StoryKept DEF Stories
  <2> QED
    BY <2>1, <2>2
<1> QED
  BY <1>1, <1>2, <1>3, <1>4, <1>5 DEF Stories

(* The connection is refused, answered with 503, closed and uncounted.     *)
LEMMA Refuses ==
  ASSUME ServerInv, SubmitRefused \/ RejectSend \/ RejectClose \/ RejectUncount
  PROVE  ServerInv'
<1> USE ServerAssumption
    DEF ServerInv, MainGoes, quietVars, poolVars, serverVars, outputVars, metricVars,
        handlerVars, worldVars, clientVars, restVars, LogPoints, LogNext,
        P!Refuse, P!SubmitThrows, send_all, Record, CloseConn
<1>0. mpc \in Holding \cup {"reject_uncount"}
  BY DEF SubmitRefused, RejectSend, RejectClose, RejectUncount, Holding
<1>1. Types'
  <2>1. CASE SubmitRefused \/ RejectUncount
    BY <2>1 DEF SubmitRefused, RejectUncount, Sockets, Holding, Waiting, Types, MainPoints
  <2>2. CASE RejectSend
    <3>1. "5xx" \in Classes /\ client_fd \in Conns
      BY <2>2 DEF Classes, RejectSend, Sockets, Holding, Waiting
    <3>2. recorded' \in [Conns -> Seq(Classes)] /\ responses' \in [Conns -> Seq(Classes)]
      BY <2>2, <3>1, OneMore DEF RejectSend, Types
    <3> QED
      BY <2>2, <3>2 DEF RejectSend, Types, MainPoints
  <2>3. CASE RejectClose
    BY <2>3 DEF RejectClose, Types, MainPoints
  <2> QED
    BY <2>1, <2>2, <2>3
<1> USE DEF SubmitRefused, RejectSend, RejectClose, RejectUncount
<1>2. TasksOfPool'
  BY DEF TasksOfPool
<1>3. Course'
  BY DEF Course, PoolOutlivesTasks, Serving, Waiting
<1>4. Sockets'
  BY DEF Sockets, Holding, Waiting, Types, Using
<1>5. ASSUME NEW d \in Conns PROVE Story(d)'
  <2>1. CASE client_fd = d
    <3>1. hpc[d] = "none" /\ hpc'[d] = "none" /\ sock[d] = "open"
      BY <2>1 DEF Sockets
    <3>2. CASE SubmitRefused \/ RejectUncount
      BY <2>1, <3>2, StoryKept DEF Stories, Sockets, Holding, Waiting
    <3>3. CASE RejectSend
      <4>1. Says(d, <<>>, <<>>)
        BY <2>1, <3>1, <3>3 DEF Stories, Story
      <4>2. recorded'[d] = <<"5xx">> /\ responses'[d] = <<"5xx">>
        BY <2>1, <3>3, <4>1 DEF Says, Types
      <4> QED
        BY <2>1, <3>1, <3>3, <4>2 DEF Story, Says
    <3>4. CASE RejectClose
      <4>1. Says(d, <<"5xx">>, <<"5xx">>)
        BY <2>1, <3>1, <3>4 DEF Stories, Story
      <4> QED
        BY <2>1, <3>1, <3>4, <4>1 DEF Story, Says, Types
    <3> QED
      BY <3>2, <3>3, <3>4
  <2>2. CASE client_fd # d
    <3>1. /\ recorded'[d] = recorded[d] /\ responses'[d] = responses[d]
          /\ sock'[d] = sock[d] /\ hpc'[d] = hpc[d] /\ client_fd' # d
      BY <2>2 DEF Types
    <3> QED
      BY <2>2, <3>1, StoryKept DEF Stories
  <2> QED
    BY <2>1, <2>2
<1> QED
  BY <1>1, <1>2, <1>3, <1>4, <1>5 DEF Stories

-----------------------------------------------------------------------------
(* A worker takes the oldest connection.                                   *)
LEMMA Handles ==
  ASSUME ServerInv, NEW c \in Conns, HandleClient(c)
  PROVE  ServerInv'
<1> USE DEF ServerInv, awayVars, serverVars, mainVars, outputVars, metricVars, worldVars,
            clientVars, restVars, HandleClient, Handler, P!Start
<1>0. /\ Len(pending) \in Nat \ {0}
      /\ c = pending[1]
      /\ Len(pending') = Len(pending) - 1
      /\ \A i \in 1..Len(pending') : pending'[i] = pending[i + 1]
  BY DEF Types
<1>1. Types'
  BY DEF Types, HandlerPoints
<1>2. TasksOfPool'
  <2>1. \A i \in 1..Len(pending') : hpc'[pending'[i]] = "queued"
    BY <1>0 DEF TasksOfPool, Types
  <2>2. \A i, j \in 1..Len(pending') : pending'[i] = pending'[j] => i = j
    BY <1>0 DEF TasksOfPool
  <2>3. ASSUME NEW d \in Conns, hpc'[d] = "queued"
        PROVE  \E i \in 1..Len(pending') : pending'[i] = d
    <3>1. d # c /\ hpc[d] = "queued"
      BY <2>3 DEF Types
    <3>2. PICK i \in 1..Len(pending) : pending[i] = d
      BY <3>1 DEF TasksOfPool
    <3>3. i - 1 \in 1..Len(pending') /\ pending'[i - 1] = d
      BY <1>0, <3>1, <3>2
    <3> QED
      BY <3>3
  <2>4. executing' = {d \in Conns : hpc'[d] \in Running}
    BY <1>0 DEF TasksOfPool, Types, Running, Using
  <2> QED
    BY <2>1, <2>2, <2>3, <2>4 DEF TasksOfPool
<1>3. Course'
  BY <1>0 DEF Course, PoolOutlivesTasks, Serving, Waiting
<1>4. Sockets'
  BY DEF Sockets, Types, Using
<1>5. ASSUME NEW d \in Conns PROVE Story(d)'
  <2>1. CASE d = c
    <3>1. hpc'[d] = "recv" /\ Says(d, <<>>, <<>>)
      BY <2>1 DEF Stories, Story, Types
    <3> QED
      BY <3>1 DEF Story, Says
  <2>2. CASE d # c
    <3>1. hpc'[d] = hpc[d]
      BY <2>2 DEF Types
    <3> QED
      BY <3>1, StoryKept DEF Stories
  <2> QED
    BY <2>1, <2>2
<1> QED
  BY <1>1, <1>2, <1>3, <1>4, <1>5 DEF Stories

(* What the steps of a worker with c open have in common.                  *)
WorkerStep(c, from, to) ==
  /\ Handler(c, from, to)
  /\ UNCHANGED <<awayVars, poolVars, sock>>
  /\ raw_request' \in [Conns -> Amounts]
  /\ process' \in {"up", "terminated", "killed"}
  /\ recorded' \in [Conns -> Seq(Classes)]
  /\ responses' \in [Conns -> Seq(Classes)]
  /\ \A d \in Conns \ {c} : recorded'[d] = recorded[d] /\ responses'[d] = responses[d]

(* Such a step keeps the invariant if what it records and sends is right.  *)
LEMMA WorkerKeeps ==
  ASSUME ServerInv, NEW c \in Conns, NEW from \in Using, NEW to \in Using,
         WorkerStep(c, from, to), Story(c)'
  PROVE  ServerInv'
<1> USE DEF ServerInv, WorkerStep, Handler, awayVars, serverVars, mainVars, poolVars,
            worldVars, clientVars, restVars
<1>0. /\ hpc[c] \in Using /\ hpc'[c] \in Using
      /\ \A d \in Conns \ {c} : hpc'[d] = hpc[d]
  BY DEF Types
<1>1. Types'
  BY DEF Types, HandlerPoints, Using
<1>2. TasksOfPool'
  <2>1. \A d \in Conns : /\ hpc'[d] = "queued" <=> hpc[d] = "queued"
                         /\ hpc'[d] \in Running <=> hpc[d] \in Running
    BY <1>0 DEF Using, Running
  <2>2. \A i \in 1..Len(pending) : pending[i] \in Conns
    BY DEF Types
  <2> QED
    BY <2>1, <2>2 DEF TasksOfPool
<1>3. Course'
  BY DEF Course, PoolOutlivesTasks
<1>4. Sockets'
  <2>1. \A d \in Conns : /\ hpc'[d] \in Using \cup {"queued"} <=> hpc[d] \in Using \cup {"queued"}
                         /\ hpc'[d] \in {"uncount", "done"} <=> hpc[d] \in {"uncount", "done"}
                         /\ hpc'[d] = "none" <=> hpc[d] = "none"
    BY <1>0 DEF Using
  <2> QED
    BY <2>1 DEF Sockets
<1>5. ASSUME NEW d \in Conns PROVE Story(d)'
  BY <1>0, StoryKept DEF Stories
<1> QED
  BY <1>1, <1>2, <1>3, <1>4, <1>5 DEF Stories

(* recv_request() returns.                                                 *)
LEMMA ReturnsRequest ==
  ASSUME ServerInv, NEW c \in Conns, NEW from \in {"recv", "body"}, NEW r \in Amounts,
         r = "nothing" => c \in gone, RecvReturns(c, from, r)
  PROVE  ServerInv'
<1> DEFINE to == IF r = "nothing" THEN "close" ELSE "route"
<1>1. WorkerStep(c, from, to)
  BY DEF RecvReturns, WorkerStep, ServerInv, Types, Handler, outputVars, metricVars
<1>2. Says(c, <<>>, <<>>) /\ hpc'[c] = to
  BY DEF ServerInv, Stories, Story, Types, RecvReturns, Handler
<1>3. Story(c)'
  BY <1>2 DEF Story, Says, RecvReturns, outputVars, metricVars, awayVars, worldVars, clientVars
<1>4. from \in Using /\ to \in Using
  BY DEF Using
<1> QED
  BY <1>1, <1>3, <1>4, WorkerKeeps

(* recv_request() goes on, or returns.                                     *)
LEMMA Receives ==
  ASSUME ServerInv, NEW c \in Conns,
         RecvWhole(c) \/ RecvEnds(c) \/ RecvHead(c) \/ RecvBody(c) \/ RecvBodyEnds(c)
  PROVE  ServerInv'
<1>1. CASE RecvHead(c)
  <2>1. WorkerStep(c, "recv", "body")
    BY <1>1 DEF RecvHead, WorkerStep, ServerInv, Types, Handler, outputVars, metricVars
  <2>2. Says(c, <<>>, <<>>) /\ hpc'[c] = "body"
    BY <1>1 DEF ServerInv, Stories, Story, Types, RecvHead, Handler
  <2>3. Story(c)'
    BY <1>1, <2>2 DEF Story, Says, RecvHead, outputVars, metricVars
  <2> QED
    BY <2>1, <2>3, WorkerKeeps DEF Using
<1>2. CASE RecvWhole(c) \/ RecvBody(c) \/ RecvBodyEnds(c)
  BY <1>2, ReturnsRequest DEF RecvWhole, RecvBody, RecvBodyEnds, Amounts
<1>3. CASE RecvEnds(c)
  BY <1>3, ReturnsRequest DEF RecvEnds, Amounts
<1> QED
  BY <1>1, <1>2, <1>3

(* The response is chosen, sent and logged.                                *)
LEMMA Answers ==
  ASSUME ServerInv, NEW c \in Conns, Route(c) \/ SendResponse(c) \/ LogRequest(c)
  PROVE  ServerInv'
<1> USE DEF ServerInv, Handler, outputVars, metricVars
<1>1. CASE Route(c)
  <2>1. PICK k \in Classes : Record(c, k)
    BY <1>1 DEF Route, Classes
  <2>2. Says(c, <<>>, <<>>) /\ hpc'[c] = "send"
    BY <1>1 DEF Stories, Story, Types, Route
  <2>3. recorded'[c] = <<k>> /\ responses'[c] = <<>>
    BY <1>1, <2>1, <2>2 DEF Types, Record, Route, Says
  <2>4. WorkerStep(c, "route", "send")
    BY <1>1, <2>1, OneMore DEF Route, Record, WorkerStep, Types
  <2>5. Story(c)'
    BY <2>2, <2>3 DEF Story, Says
  <2> QED
    BY <2>4, <2>5, WorkerKeeps DEF Using
<1>2. CASE SendResponse(c)
  <2>1. PICK k \in Classes : Says(c, <<k>>, <<>>)
    BY <1>2 DEF SendResponse, Stories, Story
  <2>2. recorded[c][Len(recorded[c])] = k
    BY <2>1 DEF Says
  <2>3. send_all(c, k) /\ UNCHANGED recorded /\ hpc'[c] = "log"
    BY <1>2, <2>2 DEF SendResponse, Types
  <2>4. recorded'[c] = <<k>> /\ responses'[c] = <<k>>
    BY <2>1, <2>3 DEF send_all, Says, Types
  <2>5. WorkerStep(c, "send", "log")
    BY <1>2, <2>3, OneMore DEF SendResponse, send_all, WorkerStep, Types
  <2>6. Story(c)'
    BY <2>3, <2>4 DEF Story, Says
  <2> QED
    BY <2>5, <2>6, WorkerKeeps DEF Using
<1>3. CASE LogRequest(c)
  <2>1. PICK k \in Classes : Says(c, <<k>>, <<k>>)
    BY <1>3 DEF LogRequest, Stories, Story
  <2>2. WorkerStep(c, "log", "close") /\ hpc'[c] = "close"
    BY <1>3 DEF LogRequest, WorkerStep, Types
  <2>3. Story(c)'
    BY <1>3, <2>1, <2>2 DEF LogRequest, Story, Says
  <2> QED
    BY <2>2, <2>3, WorkerKeeps DEF Using
<1> QED
  BY <1>1, <1>2, <1>3

(* An exception leaves the try block, is recorded and answered.            *)
LEMMA Catches ==
  ASSUME ServerInv, NEW c \in Conns, Throws(c) \/ CatchRecords(c) \/ CatchSends(c)
  PROVE  ServerInv'
<1> USE DEF ServerInv, Handler, outputVars, metricVars
<1>0. "5xx" \in Classes
  BY DEF Classes
<1>1. CASE Throws(c)
  <2>1. PICK p \in {"recv", "route", "send", "log"} : Handler(c, p, "failed")
    BY <1>1 DEF Throws
  <2>2. WorkerStep(c, p, "failed") /\ hpc'[c] = "failed"
    BY <1>1, <2>1 DEF Throws, WorkerStep, Types
  <2>3. \/ Says(c, <<>>, <<>>)
        \/ \E k \in Classes : Says(c, <<k>>, <<>>) \/ Says(c, <<k>>, <<k>>)
    BY <2>1 DEF Stories, Story
  <2>4. Story(c)'
    BY <1>1, <2>2, <2>3 DEF Throws, Story, Says
  <2> QED
    BY <2>2, <2>4, WorkerKeeps DEF Using
<1>2. CASE CatchRecords(c)
  <2>1. WorkerStep(c, "failed", "sorry") /\ hpc'[c] = "sorry"
    BY <1>0, <1>2, OneMore DEF CatchRecords, Record, WorkerStep, Types
  <2>2. responses'[c] = responses[c] /\ recorded'[c] = Append(recorded[c], "5xx")
    BY <1>2 DEF CatchRecords, Record, Types
  <2>3. CASE Says(c, <<>>, <<>>)
    <3>1. Says(c, <<"5xx">>, <<>>)'
      BY <2>2, <2>3 DEF Says
    <3> QED
      BY <2>1, <3>1, WorkerKeeps DEF Using, Story
  <2>4. ASSUME NEW k \in Classes, Says(c, <<k>>, <<>>) \/ Says(c, <<k>>, <<k>>)
        PROVE  ServerInv'
    <3>1. Says(c, Failed(k), <<>>)' \/ Says(c, Failed(k), <<k>>)'
      BY <2>2, <2>4 DEF Says, Failed
    <3> QED
      BY <2>1, <3>1, WorkerKeeps DEF Using, Story
  <2> QED
    BY <1>2, <2>3, <2>4 DEF CatchRecords, Stories, Story
<1>3. CASE CatchSends(c)
  <2>1. WorkerStep(c, "sorry", "close") /\ hpc'[c] = "close"
    BY <1>0, <1>3, OneMore DEF CatchSends, send_all, WorkerStep, Types
  <2>2. recorded'[c] = recorded[c] /\ responses'[c] = Append(responses[c], "5xx")
    BY <1>3 DEF CatchSends, send_all, Types
  <2>3. CASE Says(c, <<"5xx">>, <<>>)
    <3>1. Says(c, <<"5xx">>, <<"5xx">>)'
      BY <2>2, <2>3 DEF Says
    <3> QED
      BY <1>0, <2>1, <3>1, WorkerKeeps DEF Using, Story
  <2>4. ASSUME NEW k \in Classes, Says(c, Failed(k), <<>>) \/ Says(c, Failed(k), <<k>>)
        PROVE  ServerInv'
    <3>1. Says(c, Failed(k), <<"5xx">>)' \/ Says(c, Failed(k), Failed(k))'
      <4>1. CASE responses[c] = <<>>
        <5>1. responses'[c] = <<"5xx">>
          BY <2>2, <4>1
        <5> QED
          BY <2>2, <2>4, <5>1 DEF Says
      <4>2. CASE responses[c] = <<k>>
        <5>1. responses'[c] = Failed(k)
          BY <2>2, <4>2 DEF Failed
        <5> QED
          BY <2>2, <2>4, <5>1 DEF Says
      <4> QED
        BY <2>4, <4>1, <4>2 DEF Says
    <3> QED
      BY <2>1, <3>1, WorkerKeeps DEF Using, Story
  <2> QED
    BY <1>3, <2>3, <2>4 DEF CatchSends, Stories, Story
<1> QED
  BY <1>1, <1>2, <1>3

(* The connection is closed, and its task ends.                            *)
LEMMA Ends ==
  ASSUME ServerInv, NEW c \in Conns, CloseClient(c) \/ Uncount(c)
  PROVE  ServerInv'
<1> USE DEF ServerInv, awayVars, serverVars, mainVars, poolVars, outputVars, metricVars,
            worldVars, clientVars, restVars, Handler, CloseConn, P!End,
            CloseClient, Uncount
<1>0. /\ hpc[c] \in {"close", "uncount"} /\ hpc'[c] \in {"uncount", "done"}
      /\ sock'[c] = "closed" /\ client_fd # c
      /\ \A d \in Conns \ {c} : hpc'[d] = hpc[d] /\ sock'[d] = sock[d]
  BY DEF Types, Sockets
<1>1. Types'
  <2>1. hpc' \in [Conns -> HandlerPoints]
    BY DEF Types, HandlerPoints
  <2>2. sock' \in [Conns -> {"none", "backlog", "open", "closed", "reset"}]
    BY DEF Types
  <2>3. executing' \subseteq Conns /\ settled' \subseteq Conns
    BY DEF Types
  <2>4. UNCHANGED <<pending, phase, running_, listen_fd_, pool_, mpc, client_fd, sent, gone,
                    timedOut, signals, process, recorded, responses>>
    OBVIOUS
  <2>5. raw_request' \in [Conns -> Amounts]
    BY DEF Types
  <2> QED
    BY <2>1, <2>2, <2>3, <2>4, <2>5 DEF Types
<1>2. TasksOfPool'
  <2>1. \A d \in Conns : hpc'[d] = "queued" <=> hpc[d] = "queued"
    BY <1>0
  <2>2. \A i \in 1..Len(pending) : pending[i] \in Conns
    BY DEF Types
  <2>3. executing' = {d \in Conns : hpc'[d] \in Running}
    BY DEF TasksOfPool, Types, Running, Using
  <2> QED
    BY <2>1, <2>2, <2>3 DEF TasksOfPool
<1>3. Course'
  BY DEF Course, PoolOutlivesTasks
<1>4. Sockets'
  BY <1>0 DEF Sockets, Using
<1>5. ASSUME NEW d \in Conns PROVE Story(d)'
  <2>1. CASE d = c
    BY <1>0, <2>1 DEF Stories, Story, Says
  <2>2. CASE d # c
    BY <1>0, <2>2, StoryKept DEF Stories
  <2> QED
    BY <2>1, <2>2
<1> QED
  BY <1>1, <1>2, <1>3, <1>4, <1>5 DEF Stories

(* What the clients do, and a timeout.                                     *)
LEMMA ClientsAct ==
  ASSUME ServerInv, NEW c \in Conns,
         Connect(c) \/ ClientSends(c) \/ ClientLeaves(c) \/ RecvTimeout(c)
  PROVE  ServerInv'
<1> USE DEF ServerInv, awayVars, serverVars, mainVars, poolVars, handlerVars, outputVars,
            metricVars, worldVars, clientVars, restVars
<1>1. CASE Connect(c)
  <2>1. Types' /\ TasksOfPool' /\ Course'
    BY <1>1 DEF Connect, Types, TasksOfPool, Course, PoolOutlivesTasks
  <2>2. Sockets'
    BY <1>1 DEF Connect, Types, Sockets
  <2>3. ASSUME NEW d \in Conns PROVE Story(d)'
    <3>1. (sock[d] = "closed")' <=> sock[d] = "closed"
      BY <1>1 DEF Connect, Types
    <3> QED
      BY <1>1, <3>1, StoryKept DEF Connect, Stories
  <2> QED
    BY <2>1, <2>2, <2>3 DEF Stories
<1>2. CASE ClientSends(c)
  <2>1. sent' \in [Conns -> Amounts]
    BY <1>2 DEF ClientSends, Types, Amounts, More
  <2>2. Types' /\ TasksOfPool' /\ Course' /\ Sockets'
    BY <1>2, <2>1 DEF ClientSends, Types, TasksOfPool, Course, PoolOutlivesTasks, Sockets
  <2>3. Stories'
    BY <1>2 DEF ClientSends, Stories, Story, Says
  <2> QED
    BY <2>2, <2>3
<1>3. CASE ClientLeaves(c) \/ RecvTimeout(c)
  <2>1. Types'
    BY <1>3 DEF ClientLeaves, RecvTimeout, Types
  <2>2. TasksOfPool' /\ Course' /\ Sockets'
    BY <1>3 DEF ClientLeaves, RecvTimeout, TasksOfPool, Course, PoolOutlivesTasks, Sockets
  <2>3. ASSUME NEW d \in Conns PROVE Story(d)'
    BY <1>3, StoryKept DEF ClientLeaves, RecvTimeout, Stories
  <2> QED
    BY <2>1, <2>2, <2>3 DEF Stories
<1> QED
  BY <1>1, <1>2, <1>3

-----------------------------------------------------------------------------
(* Every step keeps the invariant.                                         *)
LEMMA NextInv == ServerInv /\ [Next]_vars => ServerInv'
<1> SUFFICES ASSUME ServerInv, [Next]_vars PROVE ServerInv'
  OBVIOUS
<1>1. CASE MainRuns
  BY <1>1, MainMoves, Counts, StartsUp, TakesPoolDown, StopsOrSignal, Submits, Refuses DEF MainRuns
<1>2. CASE StartFails \/ PoolFails \/ AcceptFails \/ HandleSignal
  BY <1>2, MainMoves, StartsUp, StopsOrSignal
<1>3. ASSUME NEW c \in Conns, AcceptConn(c) PROVE ServerInv'
  BY <1>3, Accepts
<1>4. ASSUME NEW c \in Conns, WorkerRuns(c) \/ WorkerSends(c) \/ Throws(c) PROVE ServerInv'
  BY <1>4, Handles, Receives, Answers, Catches, Ends DEF WorkerRuns, WorkerSends
<1>5. ASSUME NEW c \in Conns,
             Connect(c) \/ ClientSends(c) \/ ClientLeaves(c) \/ RecvTimeout(c)
      PROVE  ServerInv'
  BY <1>5, ClientsAct
<1>6. CASE UNCHANGED vars
  <2> USE <1>6 DEF vars, poolVars, serverVars, mainVars, handlerVars, metricVars, outputVars,
                   worldVars, clientVars, restVars, ServerInv
  <2>1. Types'
    BY DEF Types
  <2>2. TasksOfPool' /\ Course' /\ Sockets'
    BY DEF TasksOfPool, Course, PoolOutlivesTasks, Sockets
  <2>3. Stories'
    BY DEF Stories, Story, Says
  <2> QED
    BY <2>1, <2>2, <2>3
<1> QED
  BY <1>1, <1>2, <1>3, <1>4, <1>5, <1>6 DEF Next, Over

(* The invariant that the theorems below rest on: it ties the handling of  *)
(* each connection to the pool, to the main thread, to the descriptor and  *)
(* to what has been recorded and sent.                                     *)
THEOREM ServerInvariant == Spec => []ServerInv
  BY InitInv, NextInv, PTL DEF Spec

(* No descriptor is leaked, closed twice or used after it was closed.      *)
THEOREM DescriptorsOwned == Spec => []OneHolder
<1>1. ServerInv => OneHolder
  <2> SUFFICES ASSUME ServerInv, NEW c \in Conns
               PROVE  Cardinality(Holders(c)) = (IF sock[c] = "open" THEN 1 ELSE 0)
    BY DEF OneHolder
  <2> USE DEF ServerInv
  <2>1. (\E i \in 1..Len(pending) : pending[i] = c) <=> hpc[c] = "queued"
    BY DEF TasksOfPool
  <2>2. CASE client_fd = c
    <3>1. hpc[c] = "none" /\ sock[c] = "open"
      BY <2>2 DEF Sockets
    <3>2. Holders(c) = {"main"}
      BY <2>1, <2>2, <3>1 DEF Holders, Using
    <3> QED
      BY <3>1, <3>2, FS_Singleton
  <2>3. CASE client_fd # c /\ hpc[c] = "queued"
    <3>1. Holders(c) = {"queue"}
      BY <2>1, <2>3 DEF Holders, Using
    <3> QED
      BY <2>3, <3>1, FS_Singleton DEF Sockets
  <2>4. CASE client_fd # c /\ hpc[c] \in Using
    <3>1. Holders(c) = {"worker"}
      BY <2>1, <2>4 DEF Holders, Using
    <3> QED
      BY <2>4, <3>1, FS_Singleton DEF Sockets
  <2>5. CASE client_fd # c /\ hpc[c] \notin Using \cup {"queued"}
    <3>1. Holders(c) = {}
      BY <2>1, <2>5 DEF Holders
    <3> QED
      BY <2>5, <3>1, FS_EmptySet DEF Sockets
  <2> QED
    BY <2>2, <2>3, <2>4, <2>5
<1> QED
  BY <1>1, ServerInvariant, PTL

(* pool_ is never null while a task that reads it waits or runs.           *)
THEOREM PoolOutlives == Spec => []PoolOutlivesTasks
<1>1. ServerInv => PoolOutlivesTasks
  BY DEF ServerInv, Course
<1> QED
  BY <1>1, ServerInvariant, PTL

(* The metrics and the client agree on how a closed connection ended.      *)
THEOREM OutcomesTrue == Spec => []OutcomesMatchResponses
<1>1. ServerInv => OutcomesMatchResponses
  <2> SUFFICES ASSUME ServerInv, NEW c \in Conns, sock[c] = "closed"
               PROVE  \/ recorded[c] = responses[c] /\ Len(recorded[c]) <= 1
                      \/ /\ Len(recorded[c]) \in {1, 2}
                         /\ recorded[c][Len(recorded[c])] = "5xx"
                         /\ responses[c] \in {recorded[c], <<"5xx">>}
    BY DEF OutcomesMatchResponses
  <2>1. hpc[c] \in {"none", "uncount", "done"}
    BY DEF ServerInv, Types, HandlerPoints, Sockets, Using
  <2>2. \/ Says(c, <<>>, <<>>)
        \/ \E k \in Classes :
             \/ Says(c, <<k>>, <<k>>)
             \/ Says(c, Failed(k), <<"5xx">>)
             \/ Says(c, Failed(k), Failed(k))
    BY <2>1 DEF ServerInv, Stories, Story, Classes
  <2>3. \A k \in Classes : Len(Failed(k)) = 2 /\ Failed(k)[2] = "5xx"
    BY DEF Failed
  <2>4. CASE Says(c, <<>>, <<>>)
    BY <2>4 DEF Says
  <2>5. ASSUME NEW k \in Classes, Says(c, <<k>>, <<k>>)
        PROVE  recorded[c] = responses[c] /\ Len(recorded[c]) <= 1
    BY <2>5 DEF Says
  <2>6. ASSUME NEW k \in Classes, Says(c, Failed(k), <<"5xx">>) \/ Says(c, Failed(k), Failed(k))
        PROVE  /\ Len(recorded[c]) \in {1, 2}
               /\ recorded[c][Len(recorded[c])] = "5xx"
               /\ responses[c] \in {recorded[c], <<"5xx">>}
    BY <2>3, <2>6 DEF Says
  <2> QED
    BY <2>2, <2>4, <2>5, <2>6
<1> QED
  BY <1>1, ServerInvariant, PTL

(* Only a client that has left is closed without an answer.                *)
THEOREM EveryoneAnswered == Spec => []Answered
<1>1. ServerInv => Answered
  <2> SUFFICES ASSUME ServerInv, NEW c \in Conns, sock[c] = "closed", responses[c] = <<>>
               PROVE  c \in gone
    BY DEF Answered
  <2>1. hpc[c] \in {"none", "uncount", "done"}
    BY DEF ServerInv, Types, HandlerPoints, Sockets, Using
  <2>2. \A k \in Classes : Failed(k) # <<>>
    BY DEF Failed
  <2> QED
    BY <2>1, <2>2 DEF ServerInv, Stories, Story, Says
<1> QED
  BY <1>1, ServerInvariant, PTL

-----------------------------------------------------------------------------
(* The connections the gauge counts, apart from one just refused.          *)
Uncounted(c) == mpc = "opened" /\ client_fd = c
Counted == {c \in Conns : \/ sock[c] = "open" /\ ~Uncounted(c)
                          \/ hpc[c] = "uncount"}
Refused == IF mpc = "reject_uncount" THEN 1 ELSE 0

(* They are finitely many, before and after a step.                        *)
LEMMA CountedFinite ==
  /\ IsFiniteSet(Counted) /\ Cardinality(Counted) \in Nat
  /\ IsFiniteSet(Counted') /\ Cardinality(Counted') \in Nat
<1>1. Counted \subseteq Conns /\ Counted' \subseteq Conns
  BY DEF Counted
<1> QED
  BY <1>1, ServerAssumption, FS_Subset, FS_CardinalityType

(* A step that neither opens, closes nor counts changes nothing here.      *)
LEMMA OthersDoNotCount ==
  ASSUME ServerInv, Next,
         ~CountConn, ~RejectClose, ~RejectUncount,
         \A c \in Conns : ~Uncount(c)
  PROVE  Counted' = Counted /\ Refused' = Refused /\ active_connections_' = active_connections_
<1> USE DEF ServerInv, Counted, Refused, Uncounted
<1>1. CASE MainRuns \/ StartFails \/ PoolFails \/ AcceptFails
  <2> USE DEF MainGoes, idleVars, quietVars, poolVars, serverVars, metricVars, outputVars,
              handlerVars, worldVars
  <2>1. CASE \/ Construct \/ MakeServer \/ StartFails \/ LogReturns \/ LoopTest \/ AcceptFails
             \/ StartListens \/ PoolReady \/ PoolFails \/ ShutdownCalled \/ ShutdownReturns
             \/ ResetPool \/ SubmitRefused \/ RejectSend
    BY <2>1 DEF Construct, MakeServer, StartFails, LogReturns, LogNext, LogPoints, LoopTest,
                AcceptFails, StartListens, PoolReady, PoolFails, ShutdownCalled,
                ShutdownReturns, ResetPool, SubmitRefused, RejectSend
  <2>2. CASE StartReturns \/ DestroyServer
    BY <2>2, ClosesListener DEF StartReturns, DestroyServer
  <2>3. CASE SubmitAccepted
    BY <2>3 DEF SubmitAccepted, Handler, Types
  <2> QED
    BY <1>1, <2>1, <2>2, <2>3 DEF MainRuns
<1>2. CASE HandleSignal
  BY <1>2, ClosesListener
     DEF HandleSignal, SignalHangs, SignalStops, SignalIgnored, Allocates, handlerVars,
         metricVars, LogPoints, LogNext
<1>3. ASSUME NEW c \in Conns, WorkerRuns(c) \/ WorkerSends(c) \/ Throws(c)
      PROVE  Counted' = Counted /\ Refused' = Refused /\ active_connections_' = active_connections_
  <2>1. /\ mpc' = mpc /\ client_fd' = client_fd /\ active_connections_' = active_connections_
        /\ \/ UNCHANGED sock /\ hpc[c] # "uncount"
              /\ \E p \in HandlerPoints \ {"uncount"} : hpc' = [hpc EXCEPT ![c] = p]
           \/ CloseClient(c)
    BY <1>3
       DEF WorkerRuns, WorkerSends, Throws, HandleClient, RecvWhole, RecvEnds, RecvHead,
           RecvBody, RecvBodyEnds, RecvReturns, Route, SendResponse, LogRequest, CatchRecords,
           CatchSends, CloseClient, Handler, awayVars, mainVars, metricVars, HandlerPoints
  <2>2. CASE CloseClient(c)
    <3>1. hpc[c] = "close" /\ sock[c] = "open" /\ client_fd # c
      BY <2>2 DEF CloseClient, Handler, Sockets, Using
    <3> QED
      BY <2>1, <2>2, <3>1 DEF CloseClient, CloseConn, Handler, Types
  <2>3. CASE ~CloseClient(c)
    BY <2>1, <2>3 DEF Types
  <2> QED
    BY <2>1, <2>2, <2>3
<1>4. ASSUME NEW c \in Conns,
             Connect(c) \/ ClientSends(c) \/ ClientLeaves(c) \/ RecvTimeout(c)
      PROVE  Counted' = Counted /\ Refused' = Refused /\ active_connections_' = active_connections_
  BY <1>4 DEF Connect, ClientSends, ClientLeaves, RecvTimeout, awayVars, mainVars,
              handlerVars, metricVars, Types
<1>5. CASE Over
  BY <1>5 DEF Over, vars, mainVars, handlerVars, metricVars
<1>6. ASSUME NEW c \in Conns, AcceptConn(c)
      PROVE  Counted' = Counted /\ Refused' = Refused /\ active_connections_' = active_connections_
  <2>1. /\ mpc = "accept" /\ mpc' = "opened" /\ client_fd' = c
        /\ sock[c] = "backlog" /\ sock' = [sock EXCEPT ![c] = "open"]
        /\ UNCHANGED <<hpc, active_connections_>>
    BY <1>6 DEF AcceptConn, MainGoes, handlerVars, metricVars
  <2> QED
    BY <2>1 DEF Types
<1> QED
  BY <1>1, <1>2, <1>3, <1>4, <1>5, <1>6 DEF Next

(* The gauge of connections is exact, whatever interleaves: it counts the  *)
(* open sockets and those on their way out.                                *)
THEOREM GaugeExact == Spec => []ConnectionGauge
<1> DEFINE Exact == active_connections_ = Cardinality(Counted) + Refused
<1>0. ConnectionGauge <=> Exact
  BY DEF ConnectionGauge, Counted, Refused, Uncounted
<1>1. Init => Exact
  <2> SUFFICES ASSUME Init PROVE Exact
    OBVIOUS
  <2>1. Counted = {} /\ Refused = 0
    BY DEF Init, Counted, Refused, Uncounted
  <2> QED
    BY <2>1, FS_EmptySet DEF Init
<1>2. ServerInv /\ Exact /\ [Next]_vars => Exact'
  <2> SUFFICES ASSUME ServerInv, Exact, [Next]_vars PROVE Exact'
    OBVIOUS
  <2> USE DEF ServerInv
  <2>1. CASE CountConn
    <3>1. /\ mpc = "opened" /\ mpc' = "submit" /\ client_fd \in Conns
          /\ sock[client_fd] = "open" /\ hpc[client_fd] = "none"
          /\ UNCHANGED <<client_fd, sock, hpc>>
      BY <2>1 DEF CountConn, MainGoes, quietVars, handlerVars, Sockets, Holding
    <3>2. client_fd \notin Counted /\ Counted' = Counted \cup {client_fd}
      BY <3>1 DEF Counted, Uncounted
    <3>3. Refused = 0 /\ Refused' = 0
      BY <3>1 DEF Refused
    <3> QED
      BY <2>1, <3>2, <3>3, CountedFinite, FS_AddElement DEF CountConn
  <2>2. CASE RejectClose
    <3>1. client_fd \in Counted /\ Counted' = Counted \ {client_fd}
      BY <2>2 DEF RejectClose, MainGoes, CloseConn, handlerVars, Counted, Uncounted, Types, Sockets,
                    Holding
    <3>2. Refused = 0 /\ Refused' = 1
      BY <2>2 DEF RejectClose, MainGoes, Refused
    <3> QED
      BY <2>2, <3>1, <3>2, CountedFinite, FS_RemoveElement DEF RejectClose, metricVars
  <2>3. CASE RejectUncount
    <3>1. Counted' = Counted /\ Refused = 1 /\ Refused' = 0
      BY <2>3 DEF RejectUncount, MainGoes, quietVars, handlerVars, Counted, Uncounted, Refused
    <3> QED
      BY <2>3, <3>1, CountedFinite DEF RejectUncount
  <2>4. ASSUME NEW c \in Conns, Uncount(c) PROVE Exact'
    <3>1. c \in Counted /\ Counted' = Counted \ {c}
      BY <2>4 DEF Uncount, Handler, awayVars, mainVars, Counted, Uncounted, Types, Sockets
    <3>2. Refused' = Refused /\ Refused \in {0, 1}
      BY <2>4 DEF Uncount, awayVars, mainVars, Refused
    <3> QED
      BY <2>4, <3>1, <3>2, CountedFinite, FS_RemoveElement DEF Uncount
  <2>5. CASE /\ Next /\ ~CountConn /\ ~RejectClose /\ ~RejectUncount
             /\ \A c \in Conns : ~Uncount(c)
    BY <2>5, OthersDoNotCount
  <2>6. CASE UNCHANGED vars
    BY <2>6 DEF vars, mainVars, handlerVars, metricVars, Counted, Uncounted, Refused
  <2> QED
    BY <2>1, <2>2, <2>3, <2>4, <2>5, <2>6
<1> QED
  BY <1>0, <1>1, <1>2, ServerInvariant, PTL DEF Spec

(* Types; the gauge, a signed counter, never goes below zero.              *)
THEOREM ServerTypeCorrect == Spec => []TypeOK
<1>1. ServerInv /\ ConnectionGauge => TypeOK
  <2> SUFFICES ASSUME ServerInv, ConnectionGauge PROVE TypeOK
    OBVIOUS
  <2>1. active_connections_ \in Nat
    BY CountedFinite DEF ConnectionGauge, Counted, Uncounted
  <2> QED
    BY <2>1 DEF ServerInv, Types, TypeOK
<1> QED
  BY <1>1, ServerInvariant, GaugeExact, PTL

(* When start() has returned, every connection has been dealt with: none   *)
(* is open, waiting or counted, and the listener and the pool are gone.    *)
THEOREM ReleasedAtTheEnd == Spec => []AllReleased
<1>1. ServerInv /\ ConnectionGauge => AllReleased
  <2> SUFFICES ASSUME ServerInv, ConnectionGauge, mpc \in {"stop_log", "bye_log", "exit"}
               PROVE  /\ \A c \in Conns : sock[c] \notin {"open", "backlog"}
                      /\ active_connections_ = 0
                      /\ listen_fd_ = "invalid"
                      /\ pool_ = "null"
    BY DEF AllReleased
  <2> USE DEF ServerInv
  <2>1. listen_fd_ = "invalid" /\ pool_ = "null" /\ pending = <<>> /\ executing = {}
    BY DEF Course, Serving, Waiting
  <2>2. client_fd \notin Conns
    BY DEF Sockets, Holding, Waiting
  <2>3. \A c \in Conns : hpc[c] \notin Running \cup {"queued"}
    BY <2>1 DEF TasksOfPool
  <2>4. \A c \in Conns : sock[c] \notin {"open", "backlog"}
    BY <2>1, <2>2, <2>3 DEF Sockets, Running
  <2>5. Counted = {}
    BY <2>3, <2>4 DEF Counted, Running
  <2>6. active_connections_ = 0
    BY <2>5, FS_EmptySet DEF ConnectionGauge, Counted, Uncounted
  <2> QED
    BY <2>1, <2>4, <2>6
<1> QED
  BY <1>1, ServerInvariant, GaugeExact, PTL

=============================================================================
