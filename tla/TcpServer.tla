------------------------------ MODULE TcpServer ------------------------------
(***************************************************************************)
(* TcpServer of src/tcp_server.cpp with main() and the signal handler of   *)
(* src/main.cpp (the POSIX build).                                         *)
(*                                                                         *)
(* The main thread starts the server, accepts connections and hands each   *)
(* one to the pool; a worker runs handle_client() for it.  The pool is the *)
(* one TaskPool specifies and ThreadPool implements: its tasks are the     *)
(* connections.  SIGINT and SIGTERM are handled on the main thread, to     *)
(* which Linux delivers them: the handler runs between two steps of main.  *)
(* Requests are abstracted to how much of them the client has sent, and    *)
(* responses to the class of their status code.                            *)
(***************************************************************************)
EXTENDS Naturals, Sequences, FiniteSets

CONSTANTS
  Conns,       \* the connections clients make
  NumWorkers,  \* thread_count
  Capacity,    \* queue_capacity
  MaxSignals,  \* bound: how many signals arrive
  SignalAt,    \* the points of the main thread at which they may, and "malloc"
               \* if they may also interrupt it inside malloc() or free()
  InPieces,    \* connections whose request arrives in pieces
  Silent,      \* connections whose client may be slow, or silent for ever
  Leavers,     \* connections whose client may leave at any moment
  Failing,     \* connections whose handling may throw an exception
  NoConn

ASSUME ServerAssumption ==
  /\ IsFiniteSet(Conns)
  /\ NumWorkers \in Nat \ {0}
  /\ Capacity \in Nat
  /\ MaxSignals \in Nat
  /\ NoConn \notin Conns

VARIABLES
  \* the pool (TaskPool)
  pending, executing, settled, phase,
  \* TcpServer
  running_,
  listen_fd_,           \* "fd" or "invalid"
  pool_,                \* "null" or "live"
  mpc,                  \* where the main thread is
  client_fd,            \* the connection accept_loop() holds, or NoConn
  hpc,                  \* where handle_client() is, for each connection
  raw_request,          \* what recv_request() has returned to it
  \* Metrics
  active_connections_,
  recorded,             \* the outcomes recorded for each connection
  \* the world: sockets, clients, signals, the process
  sock,                 \* "none", "backlog", "open", "closed" or "reset"
  sent,                 \* what the client has sent of its request
  gone,                 \* the connections whose client has closed its end
  responses,            \* what the server has written to each connection
  timedOut,             \* connections on which recv() has reached its timeout
  signals,              \* signals so far
  process               \* "up", "terminated" (std::terminate), "killed" (SIGPIPE)

P == INSTANCE TaskPool WITH Tasks <- Conns, Width <- NumWorkers

poolVars == <<pending, executing, settled, phase>>
serverVars == <<running_, listen_fd_, pool_>>
mainVars == <<mpc, client_fd>>
handlerVars == <<hpc, raw_request>>
metricVars == <<active_connections_, recorded>>
clientVars == <<sent, gone>>
outputVars == <<responses, process>>
restVars == <<timedOut, signals>>
worldVars == <<clientVars, restVars>>
vars == <<poolVars, serverVars, mainVars, handlerVars, metricVars, sock, outputVars, worldVars>>

(* What most steps of main leave alone, and those that only move on; what  *)
(* no step of a worker changes.                                            *)
quietVars == <<client_fd, handlerVars, worldVars>>
idleVars == <<quietVars, poolVars, serverVars, metricVars, sock, outputVars>>
awayVars == <<serverVars, mainVars, worldVars>>

(***************************************************************************)
(* mpc: "ctor" in the constructor, "main" before g_server is set, "start"  *)
(* in start() up to running_ being set; "pool" constructing the pool;      *)
(* "loop" the test of accept_loop() and "accept" its call of accept();     *)
(* "opened" with a new connection, "submit" once it is counted;            *)
(* "reject", "reject_close", "reject_uncount" answering 503; "down" and    *)
(* "join" in pool_->shutdown(), "reset", "tail" the rest of start();       *)
(* "stopped" back in main().  At a point of LogNext main is inside         *)
(* Logger::log() and holds its mutex; the value is where it goes next.  At *)
(* "hung" it waits in the signal handler for a lock it holds itself, with  *)
(* the Logger's mutex taken, at "stuck" likewise, with that mutex free.    *)
(***************************************************************************)
LogNext ==
  [ routes_log |-> "main", listen_log |-> "pool", error_log |-> "loop", reject_log |-> "reject",
    down_log |-> "down", stop_log |-> "stopped", fatal_log |-> "stopped",
    bye_log |-> "exit" ]
LogPoints == DOMAIN LogNext

MainPoints ==
  LogPoints \cup
  {"ctor", "main", "start", "pool", "loop", "accept", "opened", "submit", "reject",
   "reject_close", "reject_uncount", "down", "join", "reset", "tail", "stopped", "exit",
   "hung", "stuck"}

(* The steps in which main allocates or frees memory. *)
Allocates == {"ctor", "main", "start", "pool", "submit", "reject", "reset", "stopped"}

(***************************************************************************)
(* hpc: "queued" in the pool; "recv" in recv_request() up to the end of    *)
(* the header, "body" in its loop for the body; "route", "send", "log" the *)
(* rest of the try block, "failed" and "sorry" the handler of its          *)
(* exceptions; "close" and "uncount" the last two statements.              *)
(***************************************************************************)
HandlerPoints ==
  {"none", "queued", "recv", "body", "route", "send", "log", "failed", "sorry",
   "close", "uncount", "done"}

(* What a client has sent: part of the header, the header of a request     *)
(* with a body, or all that recv_request() waits for (which a header above *)
(* max_header_size is, too).                                               *)
Amounts == {"nothing", "part", "head", "whole"}

Init ==
  /\ P!PoolInit
  /\ running_ = FALSE
  /\ listen_fd_ = "invalid"
  /\ pool_ = "null"
  /\ mpc = "ctor"
  /\ client_fd = NoConn
  /\ hpc = [c \in Conns |-> "none"]
  /\ raw_request = [c \in Conns |-> "nothing"]
  /\ active_connections_ = 0
  /\ recorded = [c \in Conns |-> <<>>]
  /\ sock = [c \in Conns |-> "none"]
  /\ sent = [c \in Conns |-> "nothing"]
  /\ gone = {}
  /\ responses = [c \in Conns |-> <<>>]
  /\ timedOut = {}
  /\ signals = 0
  /\ process = "up"

MainGoes(from, to) == mpc = from /\ mpc' = to
Handler(c, from, to) == hpc[c] = from /\ hpc' = [hpc EXCEPT ![c] = to]
Record(c, class) == recorded' = [recorded EXCEPT ![c] = Append(@, class)]
CloseConn(c) == sock' = [sock EXCEPT ![c] = "closed"]

(* send_all(): its result is ignored by every caller.  SIGPIPE has its     *)
(* default action, so a send to a client that has left may kill the        *)
(* process.                                                                *)
send_all(c, class) ==
  /\ responses' = [responses EXCEPT ![c] = Append(@, class)]
  /\ process' \in IF c \in gone THEN {"up", "killed"} ELSE {"up"}

(* A worker's LOG_...: it gets the Logger's mutex once main has left it. *)
LoggerFree == mpc \notin LogPoints \cup {"hung"}

-----------------------------------------------------------------------------
(***************************************************************************)
(* main() and start()                                                      *)
(***************************************************************************)
Construct ==
  /\ MainGoes("ctor", "routes_log")
  /\ UNCHANGED idleVars

MakeServer ==
  /\ MainGoes("main", "start")
  /\ UNCHANGED idleVars

(* socket(), setsockopt(), bind() or listen() fails: the socket, if there  *)
(* is one, is closed and main() catches the exception.                     *)
StartFails ==
  /\ MainGoes("start", "fatal_log")
  /\ UNCHANGED idleVars

StartListens ==
  /\ MainGoes("start", "listen_log")
  /\ listen_fd_' = "fd"
  /\ running_' = TRUE
  /\ UNCHANGED <<quietVars, poolVars, pool_, metricVars, sock, outputVars>>

PoolReady ==
  /\ MainGoes("pool", "loop")
  /\ pool_' = "live"
  /\ UNCHANGED <<quietVars, poolVars, running_, listen_fd_, metricVars, sock, outputVars>>

(* A worker thread cannot be started: ThreadPool's SpawnFails. *)
PoolFails ==
  /\ MainGoes("pool", "fatal_log")
  /\ process' \in {"up", "terminated"}
  /\ UNCHANGED <<quietVars, poolVars, serverVars, metricVars, sock, responses>>

LogReturns ==
  /\ mpc \in LogPoints
  /\ mpc' = LogNext[mpc]
  /\ UNCHANGED idleVars

(* The kernel resets the connections nobody has accepted. *)
CloseListener ==
  /\ listen_fd_' = "invalid"
  /\ sock' = [c \in Conns |-> IF sock[c] = "backlog" THEN "reset" ELSE sock[c]]

(* Mutant of Stop: running_ is read, not exchanged. *)
StopKeepsRunning ==
  /\ UNCHANGED running_
  /\ IF running_ /\ listen_fd_ = "fd" THEN CloseListener
                                      ELSE UNCHANGED <<listen_fd_, sock>>

(* stop(): whoever resets running_ closes the listening socket. *)
Stop ==
  /\ running_' = FALSE
  /\ IF running_ /\ listen_fd_ = "fd" THEN CloseListener
                                      ELSE UNCHANGED <<listen_fd_, sock>>

ShutdownCalled ==
  /\ MainGoes("down", "join")
  /\ P!Close
  /\ UNCHANGED <<quietVars, serverVars, metricVars, sock, outputVars>>

(* Mutant of ShutdownReturns: the workers are detached, not joined. *)
ShutdownDetaches ==
  /\ MainGoes("join", "reset")
  /\ UNCHANGED idleVars

ShutdownReturns ==
  /\ MainGoes("join", "reset")
  /\ P!Closed
  /\ UNCHANGED <<quietVars, serverVars, metricVars, sock, outputVars>>

ResetPool ==
  /\ MainGoes("reset", "tail")
  /\ pool_' = "null"
  /\ UNCHANGED <<quietVars, poolVars, running_, listen_fd_, metricVars, sock, outputVars>>

StartReturns ==
  /\ MainGoes("tail", "stop_log")
  /\ IF listen_fd_ = "fd" THEN CloseListener ELSE UNCHANGED <<listen_fd_, sock>>
  /\ UNCHANGED <<quietVars, poolVars, running_, pool_, metricVars, outputVars>>

(* g_server.reset(): the destructor calls stop(). *)
DestroyServer ==
  /\ MainGoes("stopped", "bye_log")
  /\ Stop
  /\ UNCHANGED <<quietVars, poolVars, pool_, metricVars, outputVars>>

-----------------------------------------------------------------------------
(***************************************************************************)
(* accept_loop()                                                           *)
(***************************************************************************)
LoopTest ==
  /\ MainGoes("loop", IF running_ THEN "accept" ELSE "down_log")
  /\ UNCHANGED idleVars

(* accept() returns a connection. *)
AcceptConn(c) ==
  /\ MainGoes("accept", "opened")
  /\ listen_fd_ = "fd"
  /\ sock[c] = "backlog"
  /\ sock' = [sock EXCEPT ![c] = "open"]
  /\ client_fd' = c
  /\ UNCHANGED <<poolVars, serverVars, handlerVars, metricVars, outputVars, worldVars>>

(* It is counted: connection_opened(). *)
CountConn ==
  /\ MainGoes("opened", "submit")
  /\ active_connections_' = active_connections_ + 1
  /\ UNCHANGED <<quietVars, poolVars, serverVars, recorded, sock, outputVars>>

(* accept() fails.  After stop() it does: the signal has interrupted it,   *)
(* or its descriptor is invalid, and running_ ends the loop.  While the    *)
(* server runs it may, for want of descriptors say, and is tried again     *)
(* (without a message after EINTR).                                        *)
AcceptFails ==
  /\ mpc = "accept"
  /\ mpc' \in IF running_ THEN {"loop", "error_log"} ELSE {"down_log"}
  /\ UNCHANGED idleVars

(* The task, and with it the descriptor, is the pool's. *)
SubmitAccepted ==
  /\ MainGoes("submit", "loop")
  /\ P!Accept(client_fd)
  /\ Handler(client_fd, "none", "queued")
  /\ client_fd' = NoConn
  /\ UNCHANGED <<serverVars, raw_request, metricVars, sock, outputVars, worldVars>>

(* submit() returns false or throws; both are answered in the same way. *)
SubmitRefused ==
  /\ MainGoes("submit", "reject_log")
  /\ P!Refuse(client_fd) \/ P!SubmitThrows(client_fd)
  /\ UNCHANGED <<quietVars, serverVars, metricVars, sock, outputVars>>

(* Mutant of RejectSend: a connection is refused without an answer. *)
RejectSilently ==
  /\ MainGoes("reject", "reject_close")
  /\ Record(client_fd, "5xx")
  /\ UNCHANGED <<quietVars, poolVars, serverVars, active_connections_, sock, outputVars>>

RejectSend ==
  /\ MainGoes("reject", "reject_close")
  /\ send_all(client_fd, "5xx")
  /\ Record(client_fd, "5xx")
  /\ UNCHANGED <<quietVars, poolVars, serverVars, active_connections_, sock>>

(* Mutant of RejectClose: connection_closed() is called here already. *)
RejectCloseCounts ==
  /\ MainGoes("reject_close", "reject_uncount")
  /\ CloseConn(client_fd)
  /\ client_fd' = NoConn
  /\ active_connections_' = active_connections_ - 1
  /\ UNCHANGED <<poolVars, serverVars, handlerVars, recorded, outputVars, worldVars>>

RejectClose ==
  /\ MainGoes("reject_close", "reject_uncount")
  /\ CloseConn(client_fd)
  /\ client_fd' = NoConn
  /\ UNCHANGED <<poolVars, serverVars, handlerVars, metricVars, outputVars, worldVars>>

(* Mutant of RejectUncount: a refused connection stays counted. *)
RejectStaysCounted ==
  /\ MainGoes("reject_uncount", "loop")
  /\ UNCHANGED idleVars

RejectUncount ==
  /\ MainGoes("reject_uncount", "loop")
  /\ active_connections_' = active_connections_ - 1
  /\ UNCHANGED <<quietVars, poolVars, serverVars, recorded, sock, outputVars>>

-----------------------------------------------------------------------------
(***************************************************************************)
(* handle_client() in a worker                                             *)
(***************************************************************************)
HandleClient(c) ==
  /\ Handler(c, "queued", "recv")
  /\ P!Start
  /\ c = Head(pending)
  /\ UNCHANGED <<awayVars, raw_request, metricVars, sock, outputVars>>

(* recv_request() returns r to the try block, which gives up on nothing. *)
RecvReturns(c, from, r) ==
  /\ Handler(c, from, IF r = "nothing" THEN "close" ELSE "route")
  /\ raw_request' = [raw_request EXCEPT ![c] = r]
  /\ UNCHANGED <<awayVars, poolVars, metricVars, sock, outputVars>>

RecvWhole(c) ==
  /\ sent[c] = "whole"
  /\ RecvReturns(c, "recv", "whole")

(* recv() returns 0 or fails: what was received before it is the request. *)
RecvEnds(c) ==
  /\ c \in gone
  /\ \E r \in IF sent[c] = "nothing" THEN {"nothing"} ELSE {"nothing", "part"} :
       RecvReturns(c, "recv", r)

(* The timeout of 10 s: EAGAIN is treated like EINTR and recv() called again. *)
RecvTimeout(c) ==
  /\ hpc[c] = "recv"
  /\ c \in Silent \ gone
  /\ sent[c] \in {"nothing", "part"}
  /\ timedOut' = timedOut \cup {c}
  /\ UNCHANGED <<poolVars, serverVars, mainVars, handlerVars, metricVars, sock, clientVars,
                 outputVars, signals>>

RecvHead(c) ==
  /\ Handler(c, "recv", "body")
  /\ sent[c] \in {"head", "whole"}
  /\ UNCHANGED <<awayVars, poolVars, raw_request, metricVars, sock, outputVars>>

RecvBody(c) ==
  /\ sent[c] = "whole"
  /\ RecvReturns(c, "body", "whole")

(* In the loop for the body any failure of recv() ends it, a timeout too,  *)
(* and so does an exception.                                               *)
RecvBodyEnds(c) ==
  /\ sent[c] = "head" \/ c \in gone \cup Failing
  /\ RecvReturns(c, "body", "head")

(* The parser and the router choose a response and its class is recorded.  *)
(* Every error of the parser is a client error; no route returns 5xx.  The *)
(* parser may accept what recv_request() waited in vain to complete, as it *)
(* looks for the length in fewer places (Request).                         *)
Route(c) ==
  /\ Handler(c, "route", "send")
  /\ \E class \in IF raw_request[c] \in {"head", "whole"} THEN {"2xx", "4xx"} ELSE {"4xx"} :
       Record(c, class)
  /\ UNCHANGED <<awayVars, poolVars, raw_request, active_connections_, sock, outputVars>>

(* The response recorded last is sent. *)
SendResponse(c) ==
  /\ Handler(c, "send", "log")
  /\ send_all(c, recorded[c][Len(recorded[c])])
  /\ UNCHANGED <<awayVars, poolVars, raw_request, metricVars, sock>>

LogRequest(c) ==
  /\ Handler(c, "log", "close")
  /\ LoggerFree
  /\ UNCHANGED <<awayVars, poolVars, raw_request, metricVars, sock, outputVars>>

(* Mutant of Throws: the exception is left to worker_loop(). *)
ThrowsToWorker(c) ==
  /\ c \in Failing
  /\ \E p \in {"recv", "route", "send", "log"} : Handler(c, p, "done")
  /\ P!End(c)
  /\ UNCHANGED <<awayVars, raw_request, metricVars, sock, outputVars>>

(* An exception of recv_request() outside its loop for the body, of a      *)
(* route (is_regular_file), of serialize() or of the log message leaves    *)
(* the try block.                                                          *)
Throws(c) ==
  /\ c \in Failing
  /\ \E p \in {"recv", "route", "send", "log"} : Handler(c, p, "failed")
  /\ UNCHANGED <<awayVars, poolVars, raw_request, metricVars, sock, outputVars>>

(* Mutant of CatchRecords: the outcome is not recorded. *)
CatchForgets(c) ==
  /\ Handler(c, "failed", "sorry")
  /\ LoggerFree
  /\ UNCHANGED <<awayVars, poolVars, raw_request, metricVars, sock, outputVars>>

CatchRecords(c) ==
  /\ Handler(c, "failed", "sorry")
  /\ LoggerFree
  /\ Record(c, "5xx")
  /\ UNCHANGED <<awayVars, poolVars, raw_request, active_connections_, sock, outputVars>>

CatchSends(c) ==
  /\ Handler(c, "sorry", "close")
  /\ send_all(c, "5xx")
  /\ UNCHANGED <<awayVars, poolVars, raw_request, metricVars, sock>>

(* Mutant of CloseClient: the path of an empty request closes the socket   *)
(* and falls through to the common end, which closes it again.             *)
CloseTwice(c) ==
  /\ Handler(c, "close",
       IF raw_request[c] = "nothing" /\ sock[c] = "open" THEN "close" ELSE "uncount")
  /\ CloseConn(c)
  /\ UNCHANGED <<awayVars, poolVars, raw_request, metricVars, outputVars>>

CloseClient(c) ==
  /\ Handler(c, "close", "uncount")
  /\ CloseConn(c)
  /\ UNCHANGED <<awayVars, poolVars, raw_request, metricVars, outputVars>>

(* Mutant of Uncount: the path of an empty request does not count down. *)
UncountAnswered(c) ==
  /\ Handler(c, "uncount", "done")
  /\ active_connections_' =
       IF raw_request[c] = "nothing" THEN active_connections_ ELSE active_connections_ - 1
  /\ P!End(c)
  /\ UNCHANGED <<awayVars, raw_request, recorded, sock, outputVars>>

Uncount(c) ==
  /\ Handler(c, "uncount", "done")
  /\ active_connections_' = active_connections_ - 1
  /\ P!End(c)
  /\ UNCHANGED <<awayVars, raw_request, recorded, sock, outputVars>>

-----------------------------------------------------------------------------
(***************************************************************************)
(* Clients                                                                 *)
(***************************************************************************)
Connect(c) ==
  /\ listen_fd_ = "fd"
  /\ sock[c] = "none"
  /\ sock' = [sock EXCEPT ![c] = "backlog"]
  /\ UNCHANGED <<awayVars, poolVars, handlerVars, metricVars, outputVars>>

More == [nothing |-> {"part"}, part |-> {"head", "whole"}, head |-> {"whole"}, whole |-> {}]

ClientSends(c) ==
  /\ sock[c] \in {"backlog", "open"}
  /\ c \notin gone
  /\ \E m \in IF c \in InPieces THEN More[sent[c]] ELSE {"whole"} \ {sent[c]} :
       sent' = [sent EXCEPT ![c] = m]
  /\ UNCHANGED <<poolVars, serverVars, mainVars, handlerVars, metricVars, sock, gone,
                 outputVars, restVars>>

ClientLeaves(c) ==
  /\ c \in Leavers \ gone
  /\ sock[c] \in {"backlog", "open"}
  /\ gone' = gone \cup {c}
  /\ UNCHANGED <<poolVars, serverVars, mainVars, handlerVars, metricVars, sock, sent,
                 outputVars, restVars>>

-----------------------------------------------------------------------------
(***************************************************************************)
(* signal_handler(): it logs first, and deadlocks if the signal has caught *)
(* the main thread inside Logger::log(), or inside malloc() or free(),     *)
(* before or after the handler has taken the Logger's mutex; then it calls *)
(* stop() on g_server, if there is one.                                    *)
(***************************************************************************)
SignalHangs ==
  /\ \/ mpc \in LogPoints \cap SignalAt /\ mpc' = "hung"
     \/ mpc \in Allocates /\ "malloc" \in SignalAt /\ mpc' \in {"hung", "stuck"}
  /\ UNCHANGED <<serverVars, sock>>

SignalStops ==
  /\ mpc \in SignalAt \ (LogPoints \cup {"ctor", "main", "exit", "hung", "stuck"})
  /\ Stop
  /\ UNCHANGED <<mpc, pool_>>

SignalIgnored ==
  /\ mpc \in {"ctor", "main"} \cap SignalAt
  /\ UNCHANGED <<mpc, serverVars, sock>>

HandleSignal ==
  /\ signals < MaxSignals
  /\ signals' = signals + 1
  /\ SignalHangs \/ SignalStops \/ SignalIgnored
  /\ UNCHANGED <<poolVars, client_fd, handlerVars, metricVars, clientVars, outputVars, timedOut>>

-----------------------------------------------------------------------------
MainRuns ==
  \/ Construct \/ MakeServer \/ StartListens \/ PoolReady \/ LogReturns
  \/ ShutdownCalled \/ ShutdownReturns \/ ResetPool \/ StartReturns \/ DestroyServer
  \/ LoopTest \/ CountConn \/ SubmitAccepted \/ SubmitRefused
  \/ RejectSend \/ RejectClose \/ RejectUncount
  \/ ~running_ /\ AcceptFails

WorkerRuns(c) ==
  \/ HandleClient(c)
  \/ RecvWhole(c) \/ RecvEnds(c) \/ RecvHead(c) \/ RecvBody(c) \/ RecvBodyEnds(c)
  \/ Route(c) \/ LogRequest(c)
  \/ CatchRecords(c) \/ CloseClient(c) \/ Uncount(c)

(* A send waits for as long as the client does not read. *)
WorkerSends(c) == SendResponse(c) \/ CatchSends(c)

(* Nothing is left to do, or nobody to do it. *)
Over ==
  /\ mpc \in {"exit", "hung", "stuck"} \/ process # "up"
  /\ UNCHANGED vars

Next ==
  \/ /\ process = "up"
     /\ \/ MainRuns
        \/ StartFails
        \/ PoolFails
        \/ running_ /\ AcceptFails
        \/ HandleSignal
        \/ \E c \in Conns :
             \/ AcceptConn(c)
             \/ WorkerRuns(c)
             \/ WorkerSends(c)
             \/ RecvTimeout(c)
             \/ Throws(c)
             \/ Connect(c)
             \/ ClientSends(c)
             \/ ClientLeaves(c)
  \/ Over

Spec == Init /\ [][Next]_vars

(***************************************************************************)
(* Fairness.  The threads run; accept() does not fail for ever while a     *)
(* connection waits; the Logger's mutex starves no worker; a client that   *)
(* is not in Silent sends its request and reads the response.  Nothing     *)
(* forces a signal, a connection, a failure or a timeout.                  *)
(***************************************************************************)
Fairness ==
  /\ WF_vars(process = "up" /\ MainRuns)
  /\ \A c \in Conns :
       /\ SF_vars(process = "up" /\ AcceptConn(c))
       /\ SF_vars(process = "up" /\ WorkerRuns(c))
  /\ \A c \in Conns \ Silent :
       /\ WF_vars(process = "up" /\ ClientSends(c))
       /\ WF_vars(process = "up" /\ WorkerSends(c))

FairSpec == Spec /\ Fairness

-----------------------------------------------------------------------------
Classes == {"2xx", "4xx", "5xx"}

(* Types.                                                                  *)
TypeOK ==
  /\ pending \in Seq(Conns)
  /\ executing \subseteq Conns
  /\ settled \subseteq Conns
  /\ phase \in {"open", "closing", "closed"}
  /\ running_ \in BOOLEAN
  /\ listen_fd_ \in {"fd", "invalid"}
  /\ pool_ \in {"null", "live"}
  /\ mpc \in MainPoints
  /\ client_fd \in Conns \cup {NoConn}
  /\ hpc \in [Conns -> HandlerPoints]
  /\ raw_request \in [Conns -> Amounts]
  /\ active_connections_ \in Nat
  /\ recorded \in [Conns -> Seq(Classes)]
  /\ sock \in [Conns -> {"none", "backlog", "open", "closed", "reset"}]
  /\ sent \in [Conns -> Amounts]
  /\ gone \subseteq Conns
  /\ responses \in [Conns -> Seq(Classes)]
  /\ timedOut \subseteq Conns
  /\ signals \in 0..MaxSignals
  /\ process \in {"up", "terminated", "killed"}

(* Who will close the descriptor of c: accept_loop(), a task in the queue, *)
(* or the worker in handle_client().                                       *)
Using == {"recv", "body", "route", "send", "log", "failed", "sorry", "close"}
Holders(c) ==
  {h \in {"main", "queue", "worker"} :
     \/ h = "main" /\ client_fd = c
     \/ h = "queue" /\ \E i \in 1..Len(pending) : pending[i] = c
     \/ h = "worker" /\ hpc[c] \in Using}

(* Every accepted socket has one holder until it is closed, and none       *)
(* after: it is never leaked, closed twice or used after close_socket(),   *)
(* on the paths of a served, an empty, a failed and a refused request.     *)
OneHolder ==
  \A c \in Conns : Cardinality(Holders(c)) = (IF sock[c] = "open" THEN 1 ELSE 0)

(* Once start() has returned normally, nothing is left over: no connection *)
(* is open or waiting in the backlog, the gauge is back at zero, the       *)
(* listening socket is closed and the pool gone.                           *)
AllReleased ==
  mpc \in {"stop_log", "bye_log", "exit"} =>
    /\ \A c \in Conns : sock[c] \notin {"open", "backlog"}
    /\ active_connections_ = 0
    /\ listen_fd_ = "invalid"
    /\ pool_ = "null"

(* handle_client() reads pool_ without a lock; while a task waits or runs  *)
(* the pool is there: pool_.reset() comes after the last one has ended.    *)
PoolOutlivesTasks == pending # <<>> \/ executing # {} => pool_ = "live"

(* active_connections_ is the number of open sockets, but for the one that *)
(* accept() has just returned, plus those that are between their           *)
(* close_socket() and their connection_closed().                           *)
ConnectionGauge ==
  active_connections_ =
    Cardinality({c \in Conns : \/ sock[c] = "open" /\ ~(mpc = "opened" /\ client_fd = c)
                               \/ hpc[c] = "uncount"})
      + (IF mpc = "reject_uncount" THEN 1 ELSE 0)

(* What the metrics say of a finished connection is what its client was    *)
(* sent: one outcome, the class of the one response; an exception adds     *)
(* 5xx to both, and may then leave one outcome whose response was never    *)
(* written.                                                                *)
OutcomesMatchResponses ==
  \A c \in Conns : sock[c] = "closed" =>
    \/ recorded[c] = responses[c] /\ Len(recorded[c]) <= 1
    \/ /\ Len(recorded[c]) \in {1, 2}
       /\ recorded[c][Len(recorded[c])] = "5xx"
       /\ responses[c] \in {recorded[c], <<"5xx">>}

(* Nobody is turned away in silence: a connection that the server closes   *)
(* without a response is one its client had left.                          *)
Answered ==
  \A c \in Conns : sock[c] = "closed" /\ responses[c] = <<>> => c \in gone

(* A stop request takes effect: the process ends (README, Graceful         *)
(* Shutdown), whatever is queued or running when it arrives.               *)
StopTakesEffect == signals > 0 ~> mpc = "exit" \/ process = "terminated"

(* A connection is served, refused or reset in the end, also when the      *)
(* server is stopped while it waits.                                       *)
ConnectionsEnd ==
  \A c \in Conns :
    sock[c] = "backlog" ~> sock[c] \in {"closed", "reset"} \/ process = "terminated"

(* A receive timeout ends a connection that hangs.                         *)
TimeoutEndsConnection ==
  \A c \in Conns : c \in timedOut ~> sock[c] = "closed"

(* An error of a socket does not end the process.                          *)
SocketErrorsSurvived == process # "killed"

=============================================================================
