# A verification project for the Multithreaded HTTP Server

TLA+ modules that model the server's core, TLC configurations that check them on
small instances, and TLAPS proofs of the results that should hold for every
instance. Paths below are relative to the repository; `PROJECT.json` maps every
definition to the lines it models.

## 1. Inventory

The program is one process: the main thread accepts connections and hands each
one, as a task, to a fixed pool of workers over a bounded queue; a worker reads
one request, parses and routes it, answers and closes the connection.

| Component | State | Operations | Hard because | Correct when |
|---|---|---|---|---|
| `BoundedBlockingQueue` (`include/server/blocking_queue.hpp`) | `queue_`, `shutdown_`, a mutex, a condition variable | `push`, `wait_and_pop`, `try_pop`, `shutdown` | lost wakeups, the bound, `notify_all` outside the lock | bounded; an item never waits beside a sleeping worker; nobody sleeps after `shutdown` |
| `ThreadPool` (`include/server/thread_pool.hpp`) | `workers_`, `stopped_`, `active_workers_` | constructor, `submit`, `worker_loop`, `shutdown`, destructor | test-then-push in `submit`, drain, exceptions of tasks, failure to start a thread | each accepted task runs once; `shutdown` returns, with all of them ended |
| `TcpServer` (`src/tcp_server.cpp`) | `listen_fd_`, `running_`, `pool_`, one descriptor per connection | `start`, `stop`, `accept_loop`, `handle_client`, `send_all`, `recv_request` | ownership of descriptors over threads and error paths, signals, clients that leave or stay silent | every socket closed once; all released at the end; a stop takes effect |
| `main`, `signal_handler` (`src/main.cpp`) | `g_server` | start, signal, destruction | the handler runs between any two steps of the main thread | a signal ends the process |
| `recv_request`, `HttpParser::parse` (`src/tcp_server.cpp`, `src/http_parser.cpp`) | the bytes collected | two receive loops; the parser's checks | arbitrary segmentation, limits, timeouts; two searches in different data | both agree on what a request is; memory is bounded |
| `Metrics` (`include/server/metrics.hpp`) | atomic counters and gauges, a latency sum under a mutex | `record_*`, `connection_opened/closed`, `set_*`, `to_json` | a compare-exchange loop, sampled gauges, snapshots read member by member | the peak is exact; totals never fall; a snapshot accounts for what it shows; outcomes match responses |
| `Logger` (`include/server/logger.hpp`) | a mutex | `log` | called in the signal handler | no thread waits for itself |
| `Router` (`src/router.cpp`) | `routes_`, filled at construction | `handle`, the default routes | routes are looked up by the raw target, files by the decoded one | the documented endpoints answer; 405 lists the methods there are |
| `StaticFileHandler` (`src/static_file_handler.cpp`) | `document_root_` | `serve`, `url_decode`, `normalize_path` | encodings, separators, dots and links combined; files that change between two calls | only regular files below the root are served, and those are |
| `Config` (`include/server/config.hpp`) | none | `parse` | options that take options as values, conversions that fail, truncate or wrap | the last use of an option counts; at least one thread |

`HttpRequest` and `HttpResponse` are value types. `public/` (the dashboard),
`deploy/`, the container files, `benchmarks/` and `tests/` hold no server logic;
the tests show how the pool is meant to be called.

Interactions: `main` → `TcpServer::start` → `ThreadPool` → queue; workers call
`handle_client`, which reads `pool_` and `router_` without a lock; the signal
handler calls `Logger::log` and `TcpServer::stop`; every thread updates `Metrics`
and takes the Logger's mutex. The hazards that follow from this are listed in
`PROJECT.json`, each at its line.

## 2. Modules

```
BlockingQueue  <--EXTENDS--  ThreadPool  --implements-->  TaskPool  <--INSTANCE--  TcpServer
      ^                          ^                                                     ^
BlockingQueueProofs <--EXTENDS-- ThreadPoolProofs                               TcpServerProofs
                                 ^
                                 ThreadPoolRefinement

Request <-- RequestProofs        Metrics <-- MetricsProofs

Config, Paths  <--EXTENDS--  Site
      ^                       ^
InputProofs  <---EXTENDS--- SiteProofs
```

- **BlockingQueue** models mutex and condition variable explicitly. An operation
  takes `mutex_` in one step (`Lock`) and runs its critical section in the next;
  `cv_.wait` is three steps: test the predicate, release and block, re-acquire.
  `waiters` are the blocked threads; `notify_one` removes any one of them,
  `notify_all` all; a spurious wakeup may remove one at any time. The observers
  (`size`, `empty`, `is_full`) change nothing and are left out. By itself the
  queue runs under its most general client: any thread calls anything. That is what
  the proofs are about; TLC runs the queue inside the pool, which calls all of it but
  `try_pop` (in the repository only tests call that).
- **ThreadPool** restricts the queue to the code that calls it. Workers loop in
  `worker_loop`, `Submitters` call `submit` (the test of `stopped_` and the push
  are separate steps), and `Owner` constructs, shuts down and destroys the pool.
  `std::terminate` out of the constructor, `std::bad_alloc` out of `push` and
  exceptions of tasks are outcomes of their own. One rule of the callers is an
  assumption of the model: no `submit` of another thread overlaps `shutdown`.
  In the server, one thread does both in sequence; the tests join their
  producers first. (The rule is needed: without it, `submit` could push after the
  workers have left.)
- **TaskPool** is the abstract pool: a FIFO of at most `Capacity` tasks, at most
  `Width` executing, refusal only when full or closed, `shutdown` returning only
  when all has ended. `ThreadPool` implements it (property
  `ImplementsTaskPool`, with the refinement mapping at the end of `ThreadPool`).
- **TcpServer** composes `TaskPool` with the main thread (`mpc`), one handler per
  connection (`hpc`), sockets, clients and signals. A step ends where another
  thread could see or disturb something: at each change of a socket, a counter or
  the pool, at every call that blocks, and at every message of the main thread,
  during which it holds the Logger's mutex. `accept` and the `connection_opened` that
  counts its connection are two steps.
- **Request** looks into `recv_request` and `HttpParser::parse`, for one
  connection and at the level of byte counts: where the header ends, what the first
  `content-length:` says, how long the body is, and in which pieces it arrives.
  A request may also quote the text `content-length:` in its body, which
  `recv_request` takes for a header field and the parser does not.
- **Metrics** takes the counters out of `TcpServer` and gives every access to one
  of them a step of its own, in the order in which `accept_loop` and
  `handle_client` make them: the load and the exchanges of `connection_opened`,
  the two-step gauges (`active_workers_`, `queue_size_`: read here, stored there), the
  outcome, the bytes and the latency of a response, and each load of `to_json`
  in the worker that answers `/metrics`. The history variable `highest` is the
  true peak; `pending` remembers who was in between two updates when `to_json`
  read the first of them, so that the properties can say by how much a snapshot
  may be off and by whom.
- **Config** is `Config::parse` as a fold over `argv`, and beside it what an environment
  and a command line mean, stated without the loop, with the variables that the table of
  `README.md:672-677` gives and not those the code looks up. **Paths** is `url_decode` and
  `normalize_path` over sequences of characters, and beside them `Encode` (what a
  client does to a name) and `Meaning` (the components below which the rest of a
  path never climbs, found by counting, not by a stack).
- **Site** composes them: a process is started with some environment and command line,
  constructs `Router` and `StaticFileHandler`, and answers one request. Every
  call that asks the file system (`canonical` twice, `is_regular_file`, the open,
  `weakly_canonical` at construction, which may also fail and leave the path as it was
  given) is a step, and paths in `Volatile` come and go in between. `routes_` and `document_root_` do not change after construction and
  requests share nothing else, so one request stands for all.
- **MC...** modules only give constants their values, symmetry sets and sets of
  points for signals. **...Proofs** modules and **ThreadPoolRefinement** hold the
  theorems.

Definitions named "Mutant of ..." in comments are wrong variants of the
definition that follows them. No specification uses them; substituted for it,
each makes the property it is listed with in `PROJECT.json` fail, which shows
that the property depends on that code.

### Abstractions

- The POSIX build. SIGINT and SIGTERM are handled on the main thread, to which
  Linux delivers them unless it blocks them; the handler is atomic, except that it
  hangs when the main thread was inside `Logger::log`, or inside `malloc` or `free`, since its
  message allocates. It then has the Logger's mutex (`hung`) or not (`stuck`). The
  C library's lock is not otherwise represented: workers that need it are not stopped.
- Responses are the class of their status code. `Router::handle` returns 2xx or
  4xx (no route builds a 5xx: `Site` has each status it
  can return) or throws. A request cut short in its body may be answered 2xx: the
  parser may find no length in it (`Request`).
- How much of its request a client has sent is one of four values in `TcpServer`
  (nothing, part of the header, the header of a request with a body, all of
  it); `Request` has the detail.
- Allocation failures occur where the code has a handler: in `submit` and in
  the `try` block of `handle_client`, `recv_request` included. Those before `accept_loop`'s `try` or inside
  a `catch` are not modelled (section 6).
- The kernel's backlog is a set: `accept` returns any waiting connection.
- `send_all` is one step, and its result is dropped, as by its callers. To a
  client that has left it may raise SIGPIPE (`process = "killed"`).
- The counters of `Metrics` are sequentially consistent. The code asks for relaxed
  order, in which x86's locked instructions give no less; a weaker processor
  could show more. A response is one unit of `total_bytes_sent_`. A worker leaves
  the busy ones with its `connection_closed()`, a moment before the pool counts it.
- `Metrics` has two threads in `accept_loop` in its run. The server has one; the
  compare-exchange loop is written for several, and with one nothing could happen to it.
- In `Site` a word that is never taken apart ("work", "index.html") is one
  character; a body is a word or the path of the file it was read from. Paths come and
  go, but what is at a path (a file, a directory, a link) does not change, so a file that is replaced by a
  link between `canonical` and the open is outside the model. Links lead to paths without links; opening a file that exists may
  fail (descriptors, rights). `is_regular_file` throwing is `Throws` in `TcpServer`.
- `int` has 20 bits and `size_t` 24 in the run, so that TLC's integers can go
  beyond both; `uint16_t` has its 16.
- Byte sums do not wrap: sizes are `Nat`, and limits far below 2^64.

## 3. Runs

| Run | Instance | Checks |
|---|---|---|
| `pool` | 2 workers, 2 submitting threads, 3 tasks, capacity 2 | `TypeOK`, `TaskInOnePlace`, `ActiveCount`, `Drained`, `NoLostWakeup`, `NoSleeperAfterShutdown`; `ImplementsTaskPool`, `AcceptedTasksEnd`, `ShutdownReturns` under fairness |
| `server_safety` | 3 connections, 1 worker, capacity 1, a signal at any point, also inside `malloc` | `TypeOK`, `OneHolder`, `AllReleased`, `PoolOutlivesTasks`, `ConnectionGauge`, `OutcomesMatchResponses`, `Answered` |
| `server_liveness` | 2 connections, 1 worker, 2 signals while serving | `StopTakesEffect`, `ConnectionsEnd` |
| `request` | header of 1 to 6 bytes (limit 3), body and Content-Length of 0 to 4 (limit 2), buffer of 2 | `TypeOK`, `BoundedMemory`, `PiecesDoNotMatter`, `AcceptedIsComplete`, `ReadingEnds` |
| `metrics` | 3 connections, one of them polling `/metrics`; 2 workers, capacity 1, 2 accepting threads | `TypeOK`, `PeakExact`, `PeakShown`, `OutcomesShown`, `LatencyShown`, `GaugesInRange`, `TotalsGrow` |
| `site` | some 4000 command lines, 1900 requests, a tree of 11 paths with 3 links, 2 of them volatile | `TypeOK`, `ConfigMeans`, `DecodeInverts`, `NormalizedAgrees`, `OnlyBelowRoot`, `PresentIsServed`, `EndpointsAnswer` |
| `early_signal` | 1 connection, a signal before `running_` is set | `StopTakesEffect` is violated |
| `signal_in_logger` | 1 connection, a signal inside `Logger::log` | `StopTakesEffect` is violated |
| `receive_timeout` | 1 connection, a silent client | `TimeoutEndsConnection` is violated |
| `send_to_closed` | 1 connection, a client that leaves | `SocketErrorsSurvived` is violated |
| `work_query` | the instance of `site` | `WorkHonoursQuery` is violated |
| `threads_variable` | the instance of `site` | `EnvironmentHonoured` is violated |

Why the bounds are enough. Two workers, two submitting threads and a queue of two
give two sleepers with two pushes under way, notifications that meet a worker between its
test and its blocking, a full queue, a refusal, an idle worker beside a busy one, and a
drain with work left. Three connections with one worker are one being served, one queued,
one refused. One of them, `c1`, has a client that sends in pieces, may be silent and may
leave, and its handling may throw; the other two send whole requests and wait,
and are symmetric. (The close of the listening
socket at the end of `start` is the one branch no run takes: `accept_loop` returns
only after `stop` has closed it.) In `request`
every size takes values below, at and above its limit, and pieces are
smaller than, equal to and larger than the buffer. In `metrics` two
threads contend for the peak while a third reads, with one connection refused,
dropped, failed or served beside it. In `site` the requests are every path of up to
three characters from `/ \ . a NUL` and of four from `/ . a`, with no character, any one
or all of them encoded, which is enough for `/../a`, `/a/..`, `/..\` and a NUL between
two dots, names with `%` and `+`, and every endpoint with four methods. The tree has what the checks could
confuse: a directory beside the root whose name begins with the root's, a
link out of the root and one inside it, a root that is a link. Command lines
are all of two arguments, all pairs of options with values, and three options
in a row. The proofs (section 5) remove the
bounds for every safety property of the passing runs.

What the properties say:

- `NoLostWakeup`: while a thread is blocked in `wait_and_pop`, every queued item
  has an awake thread of its own that will test the predicate. It is stronger than
  "somebody is awake", which would not exclude an item left beside a sleeper.
- `NoSleeperAfterShutdown`: after the flag is set, a thread is blocked only as
  long as a `notify_all` is still to come.
- `TaskInOnePlace`, `Drained`, `ActiveCount`: no task lost or run twice; nothing
  left when `shutdown` returns; the unsigned counter never drifts or wraps.
- `OneHolder`: each open socket has one holder that will close it (the accept
  loop, the queue, a worker) and a closed one has none: no leak, no double close.
- `PoolOutlivesTasks`: `pool_` is not reset while a worker may read it.
- `ConnectionGauge`: `active_connections_` is the number of open sockets, but for one that
  `accept` has just returned, plus those between their close and their count.
- `OutcomesMatchResponses`: what the metrics record of a connection is what its
  client was sent. An exception late in `handle_client` does record and send a
  second outcome: the property states exactly that much.
- `PiecesDoNotMatter`: a request with correct lengths is accepted, with the body
  it announced, however it is cut into segments.
- `PeakExact`: `peak_connections_` is the highest value `active_connections_` ever had,
  except while the thread that saw it is still in its loop.
- `PeakShown`, `OutcomesShown`, `LatencyShown`: a snapshot is no picture of one moment, and
  these say what holds of it all the same, thanks to the order in which `to_json`
  reads. Connections may exceed the peak by the threads inside
  `connection_opened`; every request has its outcome or was without one when the
  total was read; the average latency is over responses that are shown. The
  converse of `OutcomesShown` is not true: a snapshot may show more outcomes than
  requests (503s are never counted as requests, an exception may add a second
  outcome).
- `GaugesInRange`: `active_workers` and `queue_size` are stale, and the latter may
  be overwritten by an older value, but they never leave their ranges.
- `ConfigMeans`, `DecodeInverts`, `NormalizedAgrees`: the loops compute what the
  reference definitions say. `ConfigMeans` says nothing of the number of threads when
  only `THREADS` gives it; `EnvironmentHonoured` does, and is violated.
- `OnlyBelowRoot` and `PresentIsServed` are the two halves of what serving files means:
  nothing but regular files strictly below the root, whatever comes and goes
  meanwhile; and every one of them, if nothing does. "The root" in `OnlyBelowRoot` is
  where the configured path leads when nothing is missing, so it does not
  depend on what happens to be there when the request is answered.
- `EndpointsAnswer`: the table of `README.md:683-695` and the methods not in it. The row for
  `/` is a file, `index.html`, and so `PresentIsServed`'s.
- `ReadingEnds`: reading ends when the client closes or once its header is
  complete. It says nothing about a header that never completes: see below.

### Disagreements found

1. `receive_timeout`: `recv_request` treats EAGAIN, which is how SO_RCVTIMEO
   reports the timeout, like EINTR and calls `recv` again
   (`src/tcp_server.cpp:268`). A client that sends no complete header holds a
   worker for ever, and shutdown waits for that worker. `docs/interview-guide.md:86`: "Timeout
   (10s) prevents hanging connections." In the body loop the timeout does work.
2. `early_signal`: a signal after `sigaction` and before `running_` is stored
   (`src/tcp_server.cpp:52`) is consumed without effect.
3. `signal_in_logger`: the handler calls `LOG_INFO` (`src/main.cpp:52`); if it
   interrupted `Logger::log` on the same thread, it waits for itself.
   Both contradict the "Graceful Shutdown" of `README.md:481`.
4. `send_to_closed`: `send` without MSG_NOSIGNAL and with SIGPIPE at its default
   (`src/tcp_server.cpp:239`) lets a client that leaves end the process;
   `docs/architecture.md:242`: "Check return values, handle EINTR".

5. `work_query`: `handle` looks routes up by the target with its query string
   (`src/router.cpp:19`), so `/work?delay=500` is answered 404 and the code that
   reads `delay` and `body` never runs; `README.md:472` and `:667`, and `public/lab.html:255`,
   rely on it.
6. `threads_variable`: `Config::parse` looks up `PORT` and `QUEUE_CAPACITY`
   (`include/server/config.hpp:23` and `:30`) and no other variable. `README.md:675` gives `THREADS` as the
   variable of `--threads`, and so does `docs/deployment.md:75`.

Met while reading, and not stated as properties: the `active_workers` gauge is
not "incremented on task pickup" (`README.md:386`) but sampled in the accept loop
(`src/tcp_server.cpp:116`); the bytes of a 500 response are not added to
`total_bytes_sent`, which `README.md:381` has "after each send"; a HEAD request that is
answered 404 or 405 gets a body; a value of `--port` or `--threads` that is no
number ends the process with an uncaught exception; an oversized header is answered
with 400 or 413 depending on how it is segmented.

## 4. Fairness

- **Pool.** Strong fairness of each worker, submitter and of the owner: a thread
  that can run again and again is run; in particular a mutex starves nobody
  for ever. Tasks end. Nothing forces a call, a spurious wakeup or a failure.
- **Server.** Weak fairness of the main thread; strong fairness of `accept` (it does
  not fail for ever while a connection waits) and of each worker's steps (they
  compete for the Logger's mutex). Clients outside `Silent` send their request
  and read the response; no other client is forced to do anything. Signals,
  connections, failures and timeouts are never forced.
- **Request.** The worker runs, and a `recv` of the body loop ends by the timeout if
  nothing arrives. Nothing is assumed of the client.
- **Metrics** and **Site** have safety properties only, and no fairness.

## 5. Proofs

All theorems hold for every value of the constants, from the named assumptions
(`QueueAssumption`, `PoolAssumption`, `RequestAssumption`, `ServerAssumption`,
`MetricsAssumption`), which only say that sets of threads and connections are finite,
that placeholders are no threads, tasks or connections, and that sizes are natural
numbers. `ConfigAssumption` says that `uint16_t` is narrower than `int`, `int` not wider than
`size_t`, and that the defaults fit into them. `SiteAssumption` says what a file system is: paths are
sequences of names without slashes, links lead to paths that are in the tree,
every argument names some path when it is taken for a document root, and clients encode
characters of the name they ask for whose codes `Ascii` gives. A capacity of zero and limits of zero are included, and in
`MetricsProofs` so are a server without workers and one with many accepting threads.

- **BlockingQueueProofs.** `QueueTypeCorrect`, `NoSleeperCorrect`,
  `NoLostWakeupCorrect`. Neither of the last two is inductive. The strengthening
  ties `mutex_` to control points (a thread is at a critical point just when it
  holds `mutex_`), says that a blocked thread is at `wait`, and that a thread
  about to block has tested a predicate that is still false. The last is the core
  of the argument: since the flag and the queue change only under `mutex_`, nothing can slip between
  test and block. `NoLostWakeup` is then a counting argument: a push adds one
  item and wakes one thread; a pop removes one item, loses one awake thread
  and wakes another.
- **ThreadPoolProofs.** `PoolInvariant` is the conjunction of the queue's
  invariant (every step of the pool is a step of the queue or leaves it alone),
  `PoolTypes`, `Placement` (which point of the queue a point of the pool
  implies), `Closing` (what each point of `shutdown` implies: a worker leaves only
  after the flag is set and the queue empty, and nobody pushes after it), `Held` and
  `Queued` (status, queue and workers agree on where each task is). From it follow `EachTaskOnce`,
  `ShutdownDrains`, `ActiveCountCorrect` and `PoolTypeCorrect`; and `PoolWakesWorkers`, since a
  behaviour of the pool is one of the queue, of which `NoLostWakeup` and
  `NoSleeperAfterShutdown` are proved.
- **ThreadPoolRefinement.** `PoolRefinesTaskPool`: `Spec => TP!PoolSpec`, the safety
  part of `ImplementsTaskPool`. Each step of the pool is one of `TaskPool` or is
  invisible in it (`Silent`): the push decides `Accept`, `Refuse` or
  `SubmitThrows`; a pop is `Start`; the end of a task is `End`; the first and the
  last step of `shutdown` are `Close` and `Closed`. It rests on `PoolInv`: a worker that
  pops holds no task, so fewer than `Width` execute (`RoomForOne`); no two workers hold
  the same task, so that exactly one ends; a client inside `submit` means the
  pool is open; and workers that have all left mean that nothing waits or runs. `TcpServer`,
  which is built on `TaskPool`, thereby rests on the threads below it.
- **TcpServerProofs.** The properties say what is true of a connection in the end;
  none is inductive, since what happened on the way decides it. `ServerInv` says
  what is true at each point: `TasksOfPool` (the pool's tasks are the connections
  that are queued or handled, each once), `Course` (how far `main` is decides whether there is
  a pool, whether it may have tasks and whether the listener is open), `Sockets` (a
  descriptor is open just while `main`, the queue or a worker has it) and `Stories`
  (for every point of `handle_client` and of the rejection, which outcomes have been recorded
  and which responses sent). The case of a late exception is why a story has two
  entries: the point `failed` is reached with nothing, with an outcome, or with an
  outcome and its response. From it follow `DescriptorsOwned` (`OneHolder`), `PoolOutlives`,
  `OutcomesTrue`, `EveryoneAnswered` and `ReleasedAtTheEnd`. `GaugeExact` is
  inductive relative to it, by counting the connections that are open, apart from the one just
  accepted, or on their way out; `ServerTypeCorrect` follows from that, as a gauge that
  equals a cardinality is never below zero.
- **MetricsProofs.** `MetricsInv` has four parts besides the types. `Counts` relates
  the counters to where threads are: connections exactly, requests and latencies by an
  inequality with the threads that have counted one and not yet the other.
  `Samples` bounds the two gauges and, because reading and storing are separate steps,
  the values still on their way. `Peak` is what the compare-exchange loop needs:
  a thread about to exchange has loaded less than its own value, so the peak only
  rises; if the peak is below the highest value there was, the thread that saw that value is
  still in the loop; and for every level `p` from the peak to the highest,
  connections exceed `p` by no more than the threads in the loop that saw more than
  `p`. The last is needed for all levels at once because an exchange may
  raise the peak to any of them. `Snapshots` states what `to_json` promises of the
  members it has read, taking for one it has not read yet its current value
  (`Seen`): true at the moment a member is read (`MomentRight`), and kept because every
  member on the larger side of the inequality is a total, and totals never
  fall. From it follow `NoPeakLost`, `SnapshotsShowPeak`, `SnapshotsShowOutcomes`,
  `SnapshotsShowLatency`, `SnapshotsShowGauges`, `MetricsTypeCorrect` and the action property
  `TotalsNeverFall`.
- **RequestProofs.** `RequestInvariant` adds to the properties the sizes each
  control point implies (`Sizes`: the header loop runs only below the header
  limit, the body loop only below Content-Length and the body limit) and
  `EnoughForParser`: a request that could be complete is, when it goes to the
  parser, unless the client left early. From it follow `MemoryBounded`,
  `FramingAgrees`, `OnlyCompleteAccepted` and `RequestTypeCorrect`.

- **InputProofs.** What the operators of `Config` and `Paths` compute for inputs of any
  length. The library's induction theorems cannot be instantiated here, so
  `NatSetInduction` states induction for a set instead of a predicate and is proved
  from `WFMin`: a non-empty set of numbers has a least one. Each recursive
  definition (the fold behind `FoldLeft`, `FlattenSeq`, `url_decode`) is first shown to
  have a solution, by induction over the lengths for which one exists (`Iterates`, `Foldings`,
  `Flattened`, `Decodings`); then what it computes follows by another one, with a loop
  invariant: a state belongs to the text or the arguments read so far.
  `ParseTyped`: every turn of the loop of `Config::parse` keeps each setting in its type,
  so the result is in range for any command line, with at least one thread.
  `ParseMeans`: the loop finds what the command line means. Its invariant `Reached` says
  that after `k` turns either the first argument that stops the loop is among the
  first `k` and the state is its end, or none is, each setting comes from the last use of
  its option so far, and the next turn is skipped just if its argument was taken as a value.
  `EnvironmentMeans` is its start: each setting comes from its documented variable, except for the threads.
  `DecodeOfEncode`: `url_decode` undoes a client's encoding, by induction from the
  end of the text, since that is the direction its recursion runs in: behind each encoded
  character, what is decoded is the rest of the name.
  `NormalizeMeans`: `normalize_path` finds what the path means, which is stated by counting
  (`Kept`: the names below which the level never falls again) and not by a stack. `Reading`
  says which components are complete, `Stacked` what the stack is worth: its `m` parts
  stand at increasing positions, the level from the `n`-th of them to here is `m - n + 1`,
  and every other name read so far is `Gone`, below a level that has fallen to zero. So a
  `..` brings exactly the top one's level to zero (`CompleteStep`), and at the end the
  positions on the stack are `Kept`, in order (`StackedMeans`).
- **SiteProofs.** `SiteInv` adds to the properties `SetupOK` (the two document
  roots are paths, what is handled is a request), `FoundOK` (below) and `HandlingOK`,
  which says what each check of `serve` has
  established, in terms that do not mention what is missing now: after the second check
  the path found lies `Within` a root that `canonical` finds in the whole tree, after
  the third it is a regular file. That is why files that come and go cannot
  undo it. Two lemmas carry `TraversalPrevented` (`OnlyBelowRoot`).
  `WithinIsBelow`: the code compares texts, and a text with the root's text and a slash
  in front belongs to a path strictly below the root, because the names agree one by
  one: a name ends where the next slash is, as names contain none.
  `CanonicalFound`: whatever `canonical` finds while some paths are missing, it also finds
  while none is. `TableKept` (`EndpointsAnswer`) compares the routes with the table and
  needs that `weakly_canonical` of a path that `canonical` finds is what it finds.
  `FilesServed` (`PresentIsServed`) is the converse of `TraversalPrevented`: each check of
  `serve` lets a file below the root pass. `FoundOK` says that while nothing happens to the
  files the path found earlier is one a search would find now; `CanonicalUnique` that there is only
  one; `NormalizedIsNamed` that it was looked for where the client's path leads; and
  `BelowIsWithin`, the converse of `WithinIsBelow`, that the comparison of texts
  refuses nothing strictly below the root.
  `ConfigurationMeant` (`ConfigMeans`), `PathsNormalized` (`NormalizedAgrees`),
  `DecodingInverts` (`DecodeInverts`) and `SiteTypeCorrect` (`TypeOK`) apply the
  results of `InputProofs` to every request and every command line.

The inductive invariants were checked with TLC on the runs' instances first, but for the clause
of `SetupOK` that what is handled is a request, which rests on its proof alone.

## 6. Only model-checked, and not modelled

Only model-checked: liveness (`AcceptedTasksEnd`, `ShutdownReturns`, `StopTakesEffect`,
`ConnectionsEnd`, `ReadingEnds`, and the fairness of `ImplementsTaskPool`), since TLAPS has no
support for fairness and ENABLED here. Every invariant and every action property that
a passing run checks is also a theorem.

Not modelled: the Windows build; text formatting (`serialize`, the JSON and log
layouts), MIME types, the map of headers (built by `build_request` and read by
nothing), the HTML pages; the sum of latencies and times other than the receive
timeout's expiry; levels of the Logger. `deploy/`, the container files and
`benchmarks/` hold no program logic. Allocation failures outside the code's own
`try` blocks: one that leaves `accept_loop` skips `shutdown`, leaks the
connection just accepted and destroys `router_` before `pool_` has joined the workers
that use it. No document says what should happen then, so there is nothing
to check it against.

## 7. Plan

1. The queue, the pool, the server and the framing of requests: modelled, checked,
   proved.
2. `Metrics`, `Config`, `Paths` and `Site`, model-checked: done.
3. Proofs about `Metrics` and `TcpServer` for any number of threads and
   connections, and the refinement from `ThreadPool` to `TaskPool`: done.
4. Proofs about `Site` for every tree, every request and every command line: done.

What would come next: a prover for the liveness properties; and the nine hazards without
a property in `PROJECT.json`, once the repository says what should happen in them.
