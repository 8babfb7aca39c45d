------------------------------- MODULE Metrics -------------------------------
(***************************************************************************)
(* The Metrics singleton of include/server/metrics.hpp, updated by the     *)
(* accept loop and the workers in the order of src/tcp_server.cpp and read *)
(* by to_json() in the worker that answers GET /metrics.                   *)
(*                                                                         *)
(* Every member is an atomic of its own, so each access is a step: a       *)
(* snapshot is put together while others count.  One response is one unit  *)
(* of total_bytes_sent_.  Of the latency only the count matters here; its  *)
(* sum changes and is read with it, under a mutex.                         *)
(***************************************************************************)
EXTENDS Naturals, Sequences, FiniteSets

CONSTANTS
  Conns,      \* the connections clients make
  Readers,    \* those of them that ask for /metrics
  Acceptors,  \* threads in accept_loop(): the server has one
  Workers,    \* thread_count
  Capacity    \* queue_capacity

ASSUME MetricsAssumption ==
  /\ IsFiniteSet(Conns)
  /\ Readers \subseteq Conns
  /\ Acceptors \in Nat /\ Workers \in Nat /\ Capacity \in Nat

VARIABLES
  counter,  \* the atomic members, by name
  pc,       \* where the thread that has the connection is
  current,  \* connection_opened()'s local variable
  loaded,   \* a value a thread has loaded and not used yet
  snap,     \* what to_json() has read so far, in the order of Fields
  highest,  \* history: the highest active_connections_ so far
  pending   \* history: when to_json() read a member, who was about to change another:
            \* requests without an outcome (total_requests_), threads in
            \* connection_opened() (active_connections_)

vars == <<counter, pc, current, loaded, snap, highest, pending>>
openVars == <<current, highest>>
readVars == <<snap, pending>>

(* Mutant of Fields: the peak is read before the connections. *)
FieldsPeakFirst ==
  <<"latency_count_", "active_workers_", "total_requests_", "successful_requests_",
    "client_errors_", "server_errors_", "peak_connections_", "active_connections_",
    "total_bytes_sent_", "queue_size_">>

(* Mutant of Fields: the latency is read after the counters. *)
FieldsLatencyLast ==
  <<"active_workers_", "total_requests_", "successful_requests_",
    "client_errors_", "server_errors_", "active_connections_", "peak_connections_",
    "total_bytes_sent_", "queue_size_", "latency_count_">>

(* What to_json() reads, in its order.  (thread_count_ and queue_capacity_ *)
(* are set once, before the first connection.)                             *)
Fields ==
  <<"latency_count_", "active_workers_", "total_requests_", "successful_requests_",
    "client_errors_", "server_errors_", "active_connections_", "peak_connections_",
    "total_bytes_sent_", "queue_size_">>

Names == {Fields[i] : i \in 1..Len(Fields)}

(***************************************************************************)
(* pc: "load" and "cas" in connection_opened(); "sample" and "store"       *)
(* setting active_workers_; "submit"; "refuse", "refused" and "turned"     *)
(* answering 503; "queued"; then handle_client(): "size" and "set" for     *)
(* queue_size_, "recv", "json" in to_json(), "outcome", "sent", "timed"    *)
(* and "log" in its try block, "close"; "drop" and "dropped" when nothing  *)
(* was received.                                                           *)
(***************************************************************************)
Opening == {"load", "cas"}
Accepting == Opening \cup {"sample", "store", "submit", "refuse", "refused", "turned"}
Uncounted == {"size", "set", "recv", "json", "outcome", "drop"}
Handling == Uncounted \cup {"sent", "timed", "log", "close"}
Trying == {"recv", "json", "outcome", "sent", "timed", "log"}
Unsettled == Uncounted \cup {"dropped"}
Ends == [turned |-> "done", drop |-> "dropped", log |-> "done", close |-> "done"]
At(points) == {c \in Conns : pc[c] \in points}

Init ==
  /\ counter = [f \in Names |-> 0]
  /\ pc = [c \in Conns |-> "new"]
  /\ current = [c \in Conns |-> 0]
  /\ loaded = [c \in Conns |-> 0]
  /\ snap = [c \in Readers |-> <<>>]
  /\ highest = 0
  /\ pending = [c \in Readers |-> [requests |-> 0, openers |-> 0]]

Goes(c, from, to) == pc[c] = from /\ pc' = [pc EXCEPT ![c] = to]
Add(f) == counter' = [counter EXCEPT ![f] = @ + 1]
Set(f, n) == counter' = [counter EXCEPT ![f] = n]
Loads(c, n) == loaded' = [loaded EXCEPT ![c] = n]

-----------------------------------------------------------------------------
(***************************************************************************)
(* connection_opened()                                                     *)
(***************************************************************************)
Open(c) ==
  /\ Cardinality(At(Accepting)) < Acceptors
  /\ Goes(c, "new", "load")
  /\ Add("active_connections_")
  /\ current' = [current EXCEPT ![c] = counter'["active_connections_"]]
  /\ highest' = IF current'[c] > highest THEN current'[c] ELSE highest
  /\ UNCHANGED <<loaded, readVars>>

(* The loop's condition, with the peak just loaded. *)
Try(c, from) ==
  /\ Loads(c, counter["peak_connections_"])
  /\ Goes(c, from, IF current[c] > counter["peak_connections_"] THEN "cas" ELSE "sample")
  /\ UNCHANGED <<counter, openVars, readVars>>

LoadPeak(c) == Try(c, "load")

(* Mutant of Exchange: the peak is stored, whatever it has become. *)
ExchangeBlindly(c) ==
  /\ Goes(c, "cas", "sample")
  /\ Set("peak_connections_", current[c])
  /\ UNCHANGED <<openVars, loaded, readVars>>

Exchange(c) ==
  /\ counter["peak_connections_"] = loaded[c]
  /\ Goes(c, "cas", "sample")
  /\ Set("peak_connections_", current[c])
  /\ UNCHANGED <<openVars, loaded, readVars>>

(* Mutant of ExchangeFails: an exchange that has lost is not tried again. *)
ExchangeGivesUp(c) ==
  /\ Goes(c, "cas", "sample")
  /\ Loads(c, counter["peak_connections_"])
  /\ UNCHANGED <<counter, openVars, readVars>>

(* compare_exchange_weak() fails, spuriously or because the peak has been  *)
(* changed, and loads it.                                                  *)
ExchangeFails(c) == Try(c, "cas")

-----------------------------------------------------------------------------
(***************************************************************************)
(* The rest of accept_loop()                                               *)
(***************************************************************************)
(* Mutant of Sample: the connections are counted, not the busy workers. *)
SampleConns(c) ==
  /\ Goes(c, "sample", "store")
  /\ Loads(c, counter["active_connections_"])
  /\ current' = [current EXCEPT ![c] = 0]
  /\ UNCHANGED <<counter, highest, readVars>>

(* set_active_workers(pool_->active_workers()); connection_opened() has    *)
(* returned, and its local variable is gone.                               *)
Sample(c) ==
  /\ Goes(c, "sample", "store")
  /\ Loads(c, Cardinality(At(Handling)))
  /\ current' = [current EXCEPT ![c] = 0]
  /\ UNCHANGED <<counter, highest, readVars>>

StoreSample(c) ==
  /\ Goes(c, "store", "submit")
  /\ Set("active_workers_", loaded[c])
  /\ Loads(c, 0)
  /\ UNCHANGED <<openVars, readVars>>

(* submit() returns true if the queue is not full; or it returns false or  *)
(* throws, which is answered in the same way.                              *)
Submit(c) ==
  /\ \/ Cardinality(At({"queued"})) < Capacity /\ Goes(c, "submit", "queued")
     \/ Goes(c, "submit", "refuse")
  /\ UNCHANGED <<counter, openVars, loaded, readVars>>

RefuseBytes(c) ==
  /\ Goes(c, "refuse", "refused")
  /\ Add("total_bytes_sent_")
  /\ UNCHANGED <<openVars, loaded, readVars>>

RefuseError(c) ==
  /\ Goes(c, "refused", "turned")
  /\ Add("server_errors_")
  /\ UNCHANGED <<openVars, loaded, readVars>>

-----------------------------------------------------------------------------
(***************************************************************************)
(* handle_client()                                                         *)
(***************************************************************************)
RecordRequest(c) ==
  /\ Cardinality(At(Handling)) < Workers
  /\ Goes(c, "queued", "size")
  /\ Add("total_requests_")
  /\ UNCHANGED <<openVars, loaded, readVars>>

LoadSize(c) ==
  /\ Goes(c, "size", "set")
  /\ Loads(c, Cardinality(At({"queued"})))
  /\ UNCHANGED <<counter, openVars, readVars>>

StoreSize(c) ==
  /\ Goes(c, "set", "recv")
  /\ Set("queue_size_", loaded[c])
  /\ Loads(c, 0)
  /\ UNCHANGED <<openVars, readVars>>

(* Nothing was received: the connection is closed without an outcome. *)
RecvNothing(c) ==
  /\ Goes(c, "recv", "drop")
  /\ UNCHANGED <<counter, openVars, loaded, readVars>>

RecvRequest(c) ==
  /\ Goes(c, "recv", IF c \in Readers THEN "json" ELSE "outcome")
  /\ UNCHANGED <<counter, openVars, loaded, readVars>>

(* to_json() reads the next member. *)
ReadField(c) ==
  LET n == Len(snap[c]) + 1
  IN  /\ Goes(c, "json", IF n = Len(Fields) THEN "outcome" ELSE "json")
      /\ snap' = [snap EXCEPT ![c] = Append(@, counter[Fields[n]])]
      /\ pending' = CASE Fields[n] = "total_requests_" ->
                         [pending EXCEPT ![c].requests = Cardinality(At(Unsettled))]
                    [] Fields[n] = "active_connections_" ->
                         [pending EXCEPT ![c].openers = Cardinality(At(Opening))]
                    [] OTHER -> pending
      /\ UNCHANGED <<counter, openVars, loaded>>

(* The response is built, and the snapshot gone. *)
Forget(c) ==
  /\ snap' = [r \in Readers |-> IF r = c THEN <<>> ELSE snap[r]]
  /\ pending' = [r \in Readers |-> IF r = c THEN [requests |-> 0, openers |-> 0]
                                            ELSE pending[r]]

(* Mutant of Outcome: client errors are not recorded. *)
OutcomeOnlySuccess(c) ==
  /\ Goes(c, "outcome", "sent")
  /\ Add("successful_requests_") \/ (c \notin Readers /\ UNCHANGED counter)
  /\ Forget(c)
  /\ UNCHANGED <<openVars, loaded>>

(* /metrics is a success; another request is one, or a client error. *)
Outcome(c) ==
  /\ Goes(c, "outcome", "sent")
  /\ Add("successful_requests_") \/ (c \notin Readers /\ Add("client_errors_"))
  /\ Forget(c)
  /\ UNCHANGED <<openVars, loaded>>

(* An exception, before the outcome is recorded or after it: a server      *)
(* error is, and the bytes of the 500 are not added.                       *)
CatchError(c) ==
  /\ \E p \in Trying : Goes(c, p, "close")
  /\ Add("server_errors_")
  /\ Forget(c)
  /\ UNCHANGED <<openVars, loaded>>

AddBytes(c) ==
  /\ Goes(c, "sent", "timed")
  /\ Add("total_bytes_sent_")
  /\ UNCHANGED <<openVars, loaded, readVars>>

RecordLatency(c) ==
  /\ Goes(c, "timed", "log")
  /\ Add("latency_count_")
  /\ UNCHANGED <<openVars, loaded, readVars>>

(* Mutant of Closed: a connection that sent nothing is counted down twice. *)
ClosedTwice(c) ==
  /\ pc[c] \in DOMAIN Ends
  /\ pc' = [pc EXCEPT ![c] = IF @ = "drop" THEN "close" ELSE Ends[@]]
  /\ Set("active_connections_", counter["active_connections_"] - 1)
  /\ UNCHANGED <<openVars, loaded, readVars>>

(* connection_closed() *)
Closed(c) ==
  /\ pc[c] \in DOMAIN Ends
  /\ pc' = [pc EXCEPT ![c] = Ends[@]]
  /\ Set("active_connections_", counter["active_connections_"] - 1)
  /\ UNCHANGED <<openVars, loaded, readVars>>

-----------------------------------------------------------------------------
Over == At({"done", "dropped"}) = Conns /\ UNCHANGED vars

Next ==
  \/ \E c \in Conns :
       \/ Open(c) \/ LoadPeak(c) \/ Exchange(c) \/ ExchangeFails(c)
       \/ Sample(c) \/ StoreSample(c) \/ Submit(c) \/ RefuseBytes(c) \/ RefuseError(c)
       \/ RecordRequest(c) \/ LoadSize(c) \/ StoreSize(c) \/ RecvNothing(c) \/ RecvRequest(c)
       \/ Outcome(c) \/ CatchError(c) \/ AddBytes(c) \/ RecordLatency(c) \/ Closed(c)
  \/ \E c \in Readers : ReadField(c)
  \/ Over

Spec == Init /\ [][Next]_vars

-----------------------------------------------------------------------------
(* Types; in particular, no counter falls below zero.                      *)
TypeOK ==
  /\ counter \in [Names -> Nat]
  /\ pc \in [Conns -> Accepting \cup Handling \cup {"new", "queued", "done", "dropped"}]
  /\ current \in [Conns -> Nat]
  /\ loaded \in [Conns -> Nat]
  /\ snap \in [Readers -> Seq(Nat)]
  /\ highest \in Nat
  /\ pending \in [Readers -> [requests : Nat, openers : Nat]]

(* However the exchanges of several threads interleave and fail, no peak   *)
(* is lost: peak_connections_ is the highest number of connections there   *)
(* ever was, except while a thread that saw it is still in its loop.       *)
PeakExact ==
  \/ counter["peak_connections_"] = highest
  \/ counter["peak_connections_"] < highest
     /\ \E c \in At(Opening) : current[c] = highest

(* The snapshots that are complete. *)
Finished == {c \in Readers : Len(snap[c]) = Len(Fields)}
Shown(c, f) == snap[c][CHOOSE i \in 1..Len(Fields) : Fields[i] = f]

(* A snapshot may show more connections than their peak, but only by those *)
(* that are inside connection_opened() when it reads them: to_json() reads *)
(* the connections first, and the peak never falls.                        *)
PeakShown ==
  \A c \in Finished :
    Shown(c, "active_connections_") <=
      Shown(c, "peak_connections_") + pending[c].openers

(* Every request of a snapshot is accounted for in it: each has its        *)
(* outcome there, or had none yet when the total was read (it was still    *)
(* being handled, or had ended without an answer).                         *)
OutcomesShown ==
  \A c \in Finished :
    Shown(c, "total_requests_") <=
      Shown(c, "successful_requests_") + Shown(c, "client_errors_")
        + Shown(c, "server_errors_") + pending[c].requests

(* The average latency of a snapshot is taken over responses it shows:     *)
(* to_json() reads it before the outcomes, which are recorded before it.   *)
LatencyShown ==
  \A c \in Finished :
    Shown(c, "latency_count_") <= Shown(c, "successful_requests_") + Shown(c, "client_errors_")

(* No total, nor the peak, ever falls: of two successive polls of /metrics *)
(* the second never shows less than the first, although neither is a       *)
(* picture of one moment.                                                  *)
Totals == Names \ {"active_connections_", "active_workers_", "queue_size_"}
TotalsGrow == [][\A f \in Totals : counter'[f] >= counter[f]]_vars

(* The gauges are samples, stale when shown, but never beyond what they    *)
(* count: "idle_workers", the threads minus the sample, is not cut off at  *)
(* zero, and the queue never appears longer than its capacity.             *)
GaugesInRange ==
  \A c \in Finished :
    Shown(c, "active_workers_") <= Workers /\ Shown(c, "queue_size_") <= Capacity

=============================================================================
