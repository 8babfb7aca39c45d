---------------------------- MODULE MetricsProofs ----------------------------
(***************************************************************************)
(* Proofs about Metrics, for any number of connections, of threads that    *)
(* accept or handle them, and of clients that ask for /metrics.            *)
(*                                                                         *)
(* What a snapshot shows follows from three things: what is true of the    *)
(* counters at every moment (Counts, Samples, Peak), the order in which    *)
(* to_json() reads them, and that the totals never fall.                   *)
(***************************************************************************)
EXTENDS Metrics, TLAPS, FiniteSetTheorems

(* The counters and where the threads are.                                 *)
Connected == Accepting \cup Handling \cup {"queued"}
Answering == {"sent", "timed"}
Counts ==
  /\ counter["active_connections_"] = Cardinality(At(Connected))
  /\ Cardinality(At(Handling)) <= Workers
  /\ Cardinality(At({"queued"})) <= Capacity
  /\ counter["total_requests_"] <=
       counter["successful_requests_"] + counter["client_errors_"] + counter["server_errors_"]
         + Cardinality(At(Unsettled))
  /\ counter["latency_count_"] + Cardinality(At(Answering)) <=
       counter["successful_requests_"] + counter["client_errors_"]

(* The sampled gauges, and the samples on their way to them.               *)
Samples ==
  /\ counter["active_workers_"] <= Workers
  /\ counter["queue_size_"] <= Capacity
  /\ \A c \in At({"store"}) : loaded[c] <= Workers
  /\ \A c \in At({"set"}) : loaded[c] <= Capacity

(* The exchanges: whoever has seen more than the peak is still trying, and *)
(* at every level above the peak there are enough of them.                 *)
Above(p) == {c \in At(Opening) : current[c] > p}
Peak ==
  /\ counter["active_connections_"] <= highest
  /\ counter["peak_connections_"] <= highest
  /\ \A c \in Conns : current[c] <= highest
  /\ \A c \in At({"cas"}) : loaded[c] < current[c]
  /\ counter["peak_connections_"] < highest => \E c \in At(Opening) : current[c] = highest
  /\ \A p \in counter["peak_connections_"]..highest :
       counter["active_connections_"] <= p + Cardinality(Above(p))

(* What a snapshot shows of its i-th member, or would if it were read now. *)
Seen(c, i) == IF i <= Len(snap[c]) THEN snap[c][i] ELSE counter[Fields[i]]
Snapshot(c) ==
  /\ Len(snap[c]) <= 10
  /\ pc[c] = "json" => Len(snap[c]) < 10
  /\ pc[c] \notin {"json", "outcome"} => snap[c] = <<>>
  /\ Len(snap[c]) >= 1 => Seen(c, 1) <= Seen(c, 4) + Seen(c, 5)
  /\ Len(snap[c]) >= 2 => Seen(c, 2) <= Workers
  /\ Len(snap[c]) >= 3 =>
       Seen(c, 3) <= Seen(c, 4) + Seen(c, 5) + Seen(c, 6) + pending[c].requests
  /\ Len(snap[c]) >= 7 => Seen(c, 7) <= Seen(c, 8) + pending[c].openers
  /\ Len(snap[c]) >= 10 => Seen(c, 10) <= Capacity
Snapshots == \A c \in Readers : Snapshot(c)

MetricsInv ==
  /\ TypeOK
  /\ Counts
  /\ Samples
  /\ Peak
  /\ Snapshots

-----------------------------------------------------------------------------
(* The members and the order of to_json().                                 *)
LEMMA FieldOrder ==
  /\ Len(Fields) = 10
  /\ Fields[1] = "latency_count_" /\ Fields[2] = "active_workers_"
  /\ Fields[3] = "total_requests_" /\ Fields[4] = "successful_requests_"
  /\ Fields[5] = "client_errors_" /\ Fields[6] = "server_errors_"
  /\ Fields[7] = "active_connections_" /\ Fields[8] = "peak_connections_"
  /\ Fields[9] = "total_bytes_sent_" /\ Fields[10] = "queue_size_"
  BY DEF Fields

LEMMA NamesAre ==
  Names = {"latency_count_", "active_workers_", "total_requests_", "successful_requests_",
           "client_errors_", "server_errors_", "active_connections_", "peak_connections_",
           "total_bytes_sent_", "queue_size_"}
<1>1. \A i \in 1..10 : i \in {1, 2, 3, 4, 5, 6, 7, 8, 9, 10}
  OBVIOUS
<1> QED
  BY <1>1, FieldOrder DEF Names

(* fetch_add() and store() change one member.                              *)
LEMMA AddEffect ==
  ASSUME TypeOK, NEW f \in Names, Add(f)
  PROVE  /\ counter' \in [Names -> Nat]
         /\ counter'[f] = counter[f] + 1
         /\ \A g \in Names \ {f} : counter'[g] = counter[g]
  BY DEF TypeOK, Add

LEMMA SetEffect ==
  ASSUME TypeOK, NEW f \in Names, NEW n \in Nat, Set(f, n)
  PROVE  /\ counter' \in [Names -> Nat]
         /\ counter'[f] = n
         /\ \A g \in Names \ {f} : counter'[g] = counter[g]
  BY DEF TypeOK, Set

(* The threads at some points are finitely many.                           *)
LEMMA AtFinite ==
  ASSUME NEW S
  PROVE  IsFiniteSet(At(S)) /\ Cardinality(At(S)) \in Nat
<1>1. At(S) \subseteq Conns
  BY DEF At
<1> QED
  BY <1>1, MetricsAssumption, FS_Subset, FS_CardinalityType

(* One thread goes from one point to another.                              *)
LEMMA AtMoves ==
  ASSUME TypeOK, NEW c \in Conns, NEW q, pc' = [pc EXCEPT ![c] = q], NEW S
  PROVE  /\ Cardinality(At(S)') \in Nat
         /\ Cardinality(At(S)) \in Nat
         /\ Cardinality(At(S)') + (IF pc[c] \in S THEN 1 ELSE 0)
              = Cardinality(At(S)) + (IF q \in S THEN 1 ELSE 0)
<1>0. IsFiniteSet(At(S)) /\ Cardinality(At(S)) \in Nat
  BY AtFinite
<1>1. pc \in [Conns -> Accepting \cup Handling \cup {"new", "queued", "done", "dropped"}]
  BY DEF TypeOK
<1>2. CASE pc[c] \in S <=> q \in S
  <2>1. At(S)' = At(S)
    BY <1>1, <1>2 DEF At
  <2> QED
    BY <1>0, <1>2, <2>1
<1>3. CASE pc[c] \notin S /\ q \in S
  <2>1. c \notin At(S) /\ At(S)' = At(S) \cup {c}
    BY <1>1, <1>3 DEF At
  <2> QED
    BY <1>0, <1>3, <2>1, FS_AddElement
<1>4. CASE pc[c] \in S /\ q \notin S
  <2>1. c \in At(S) /\ At(S)' = At(S) \ {c}
    BY <1>1, <1>4 DEF At
  <2>2. Cardinality(At(S)') = Cardinality(At(S)) - 1 /\ Cardinality(At(S)') \in Nat
    BY <1>0, <2>1, FS_RemoveElement, FS_CardinalityType
  <2> QED
    BY <1>0, <1>4, <2>2
<1> QED
  BY <1>2, <1>3, <1>4

(* How a move changes the numbers of threads that Counts is about.         *)
Moved(S, from, to) ==
  /\ Cardinality(At(S)') \in Nat
  /\ Cardinality(At(S)) \in Nat
  /\ Cardinality(At(S)') + (IF from \in S THEN 1 ELSE 0)
       = Cardinality(At(S)) + (IF to \in S THEN 1 ELSE 0)
Tally(from, to) ==
  /\ Moved(Connected, from, to)
  /\ Moved(Handling, from, to)
  /\ Moved({"queued"}, from, to)
  /\ Moved(Unsettled, from, to)
  /\ Moved(Answering, from, to)

LEMMA Census ==
  ASSUME TypeOK, NEW c \in Conns, NEW from, NEW to, Goes(c, from, to)
  PROVE  Tally(from, to)
<1>1. ASSUME NEW S PROVE Moved(S, from, to)
  <2>1. pc[c] = from /\ pc' = [pc EXCEPT ![c] = to]
    BY DEF Goes
  <2>2. /\ Cardinality(At(S)') \in Nat
        /\ Cardinality(At(S)) \in Nat
        /\ Cardinality(At(S)') + (IF pc[c] \in S THEN 1 ELSE 0)
             = Cardinality(At(S)) + (IF to \in S THEN 1 ELSE 0)
    BY <2>1, AtMoves, Zenon
  <2> QED
    BY <2>1, <2>2 DEF Moved
<1> QED
  BY <1>1 DEF Tally

-----------------------------------------------------------------------------
(* The actions, by what they do to the counters: steps that read, steps    *)
(* that add, and steps that store.                                         *)
Reads(c) ==
  \/ LoadPeak(c) \/ ExchangeFails(c) \/ Sample(c) \/ Submit(c) \/ LoadSize(c)
  \/ RecvNothing(c) \/ RecvRequest(c)
Adds(c) ==
  \/ RefuseBytes(c) \/ RefuseError(c) \/ RecordRequest(c) \/ Outcome(c) \/ CatchError(c)
  \/ AddBytes(c) \/ RecordLatency(c)
Stores(c) == StoreSample(c) \/ StoreSize(c)

(* connection_closed() never counts below zero.                            *)
LEMMA CloseEffect ==
  ASSUME MetricsInv, NEW c \in Conns, Closed(c)
  PROVE  /\ counter["active_connections_"] \in Nat \ {0}
         /\ counter' \in [Names -> Nat]
         /\ counter'["active_connections_"] = counter["active_connections_"] - 1
         /\ \A g \in Names \ {"active_connections_"} : counter'[g] = counter[g]
<1>0. PICK p, q : p = pc[c] /\ q = Ends[pc[c]]
  OBVIOUS
<1>1. p \in Connected /\ q \notin Connected
  BY <1>0 DEF Closed, Ends, Connected, Accepting, Opening, Handling, Uncounted
<1>2. Goes(c, p, q) /\ TypeOK
  BY <1>0 DEF Closed, Goes, MetricsInv
<1>3. /\ Cardinality(At(Connected)') \in Nat /\ Cardinality(At(Connected)) \in Nat
      /\ Cardinality(At(Connected)') + 1 = Cardinality(At(Connected))
  BY <1>1, <1>2, Census DEF Tally, Moved
<1>4. counter["active_connections_"] \in Nat \ {0}
  BY <1>3 DEF MetricsInv, Counts
<1> QED
  BY <1>4, SetEffect, NamesAre DEF Closed, MetricsInv

(* to_json()'s next member is one of the ten.                              *)
LEMMA NextField ==
  ASSUME MetricsInv, NEW c \in Readers, ReadField(c)
  PROVE  /\ Len(snap[c]) \in 0..9
         /\ Len(snap[c]) + 1 \in 1..10
         /\ counter[Fields[Len(snap[c]) + 1]] \in Nat
<1>1. snap[c] \in Seq(Nat) /\ counter \in [Names -> Nat]
  BY DEF MetricsInv, TypeOK
<1>2. Len(snap[c]) < 10
  BY DEF MetricsInv, Snapshots, Snapshot, ReadField, Goes
<1>3. Len(snap[c]) + 1 \in 1..10 /\ Len(snap[c]) \in 0..9
  <2>1. Len(snap[c]) \in Nat
    BY <1>1
  <2>2. \A n \in Nat : n < 10 => n + 1 \in 1..10 /\ n \in 0..9
    OBVIOUS
  <2> QED
    BY <1>2, <2>1, <2>2
<1>4. Fields[Len(snap[c]) + 1] \in Names
  BY <1>3, FieldOrder DEF Names
<1> QED
  BY <1>1, <1>3, <1>4

(* It is read without changing anything but the snapshot.                  *)
LEMMA ReadEffect ==
  ASSUME NEW c \in Readers, ReadField(c)
  PROVE  /\ Goes(c, "json", "outcome") \/ Goes(c, "json", "json")
         /\ UNCHANGED <<counter, current, highest, loaded>>
  BY DEF ReadField, openVars

(* The points of the threads.                                              *)
Points == Accepting \cup Handling \cup {"new", "queued", "done", "dropped"}

(* Types are kept: where the threads are ...                               *)
LEMMA PointsStep ==
  ASSUME MetricsInv, Next
  PROVE  pc' \in [Conns -> Points]
<1> USE DEF MetricsInv, TypeOK, Points, Goes, Accepting, Opening, Handling, Uncounted
<1>1. ASSUME NEW c \in Conns, Open(c) \/ Exchange(c) \/ Stores(c) PROVE pc' \in [Conns -> Points]
  BY <1>1 DEF Open, Exchange, Stores, StoreSample, StoreSize
<1>2. ASSUME NEW c \in Conns, Reads(c) PROVE pc' \in [Conns -> Points]
  BY <1>2
     DEF Reads, LoadPeak, ExchangeFails, Try, Sample, Submit, LoadSize, RecvNothing, RecvRequest
<1>3. ASSUME NEW c \in Conns, Adds(c) PROVE pc' \in [Conns -> Points]
  <2>1. CASE CatchError(c)
    BY <2>1 DEF CatchError
  <2>2. CASE RefuseBytes(c) \/ RefuseError(c) \/ RecordRequest(c)
    BY <2>2 DEF RefuseBytes, RefuseError, RecordRequest
  <2>3. CASE Outcome(c) \/ AddBytes(c) \/ RecordLatency(c)
    BY <2>3 DEF Outcome, AddBytes, RecordLatency
  <2> QED
    BY <1>3, <2>1, <2>2, <2>3 DEF Adds
<1>4. ASSUME NEW c \in Conns, Closed(c) PROVE pc' \in [Conns -> Points]
  <2>1. Ends[pc[c]] \in {"done", "dropped"}
    BY <1>4 DEF Closed, Ends
  <2> QED
    BY <1>4, <2>1 DEF Closed
<1>5. ASSUME NEW c \in Readers, ReadField(c) PROVE pc' \in [Conns -> Points]
  BY <1>5, MetricsAssumption DEF ReadField
<1>6. CASE Over
  BY <1>6 DEF Over, vars
<1> QED
  BY <1>1, <1>2, <1>3, <1>4, <1>5, <1>6 DEF Next, Reads, Adds, Stores

(* ... the counters and the threads' variables ...                         *)
LEMMA ValuesStep ==
  ASSUME MetricsInv, Next
  PROVE  /\ counter' \in [Names -> Nat]
         /\ current' \in [Conns -> Nat] /\ loaded' \in [Conns -> Nat] /\ highest' \in Nat
<1> DEFINE Goal == /\ counter' \in [Names -> Nat]
                   /\ current' \in [Conns -> Nat] /\ loaded' \in [Conns -> Nat] /\ highest' \in Nat
<1> USE DEF MetricsInv, openVars
<1>0. /\ counter \in [Names -> Nat]
      /\ current \in [Conns -> Nat] /\ loaded \in [Conns -> Nat] /\ highest \in Nat
  BY DEF TypeOK
<1>1. ASSUME NEW c \in Conns, Open(c) PROVE Goal
  <2>1. counter' \in [Names -> Nat] /\ counter'["active_connections_"] \in Nat
    BY <1>1, AddEffect, NamesAre DEF Open
  <2> QED
    BY <1>0, <1>1, <2>1 DEF Open
<1>2. ASSUME NEW c \in Conns, Reads(c) PROVE Goal
  <2>1. Cardinality(At(Handling)) \in Nat /\ Cardinality(At({"queued"})) \in Nat
    BY AtFinite
  <2>2. counter["peak_connections_"] \in Nat
    BY <1>0, NamesAre
  <2> QED
    BY <1>0, <1>2, <2>1, <2>2
       DEF Reads, LoadPeak, ExchangeFails, Try, Sample, Submit, LoadSize, RecvNothing,
           RecvRequest, Loads
<1>3. ASSUME NEW c \in Conns, Adds(c) PROVE Goal
  <2>1. counter' \in [Names -> Nat]
    BY <1>3, AddEffect, NamesAre
       DEF Adds, RefuseBytes, RefuseError, RecordRequest, Outcome, CatchError, AddBytes,
           RecordLatency
  <2> QED
    BY <1>0, <1>3, <2>1
       DEF Adds, RefuseBytes, RefuseError, RecordRequest, Outcome, CatchError, AddBytes,
           RecordLatency
<1>4. ASSUME NEW c \in Conns, Stores(c) \/ Exchange(c) PROVE Goal
  <2>1. counter' \in [Names -> Nat]
    BY <1>0, <1>4, SetEffect, NamesAre DEF Stores, StoreSample, StoreSize, Exchange
  <2> QED
    BY <1>0, <1>4, <2>1 DEF Stores, StoreSample, StoreSize, Exchange, Loads
<1>5. ASSUME NEW c \in Conns, Closed(c) PROVE Goal
  BY <1>0, <1>5, CloseEffect DEF Closed
<1>6. ASSUME NEW c \in Readers, ReadField(c) PROVE Goal
  BY <1>0, <1>6 DEF ReadField
<1>7. CASE Over
  BY <1>0, <1>7 DEF Over, vars
<1> QED
  BY <1>1, <1>2, <1>3, <1>4, <1>5, <1>6, <1>7 DEF Next, Reads, Adds, Stores

(* ... and the snapshots.                                                  *)
LEMMA ReadersStep ==
  ASSUME MetricsInv, Next
  PROVE  snap' \in [Readers -> Seq(Nat)] /\ pending' \in [Readers -> [requests : Nat, openers : Nat]]
<1> DEFINE Goal == /\ snap' \in [Readers -> Seq(Nat)]
                   /\ pending' \in [Readers -> [requests : Nat, openers : Nat]]
<1>0. snap \in [Readers -> Seq(Nat)] /\ pending \in [Readers -> [requests : Nat, openers : Nat]]
  BY DEF MetricsInv, TypeOK
<1>1. ASSUME NEW c \in Conns, Forget(c) PROVE Goal
  <2>1. <<>> \in Seq(Nat) /\ [requests |-> 0, openers |-> 0] \in [requests : Nat, openers : Nat]
    OBVIOUS
  <2> QED
    BY <1>0, <1>1, <2>1 DEF Forget
<1>2. ASSUME NEW c \in Readers, ReadField(c) PROVE Goal
  <2>1. Cardinality(At(Unsettled)) \in Nat /\ Cardinality(At(Opening)) \in Nat
    BY AtFinite
  <2>2. pending' \in [Readers -> [requests : Nat, openers : Nat]]
    BY <1>0, <1>2, <2>1 DEF ReadField
  <2>3. counter[Fields[Len(snap[c]) + 1]] \in Nat
    BY <1>2, NextField
  <2>4. snap' \in [Readers -> Seq(Nat)]
    BY <1>0, <1>2, <2>3 DEF ReadField
  <2> QED
    BY <2>2, <2>4
<1>3. CASE UNCHANGED readVars
  BY <1>0, <1>3 DEF readVars
<1>4. ASSUME NEW c \in Conns, Outcome(c) \/ CatchError(c) PROVE Forget(c)
  BY <1>4 DEF Outcome, CatchError
<1>5. CASE \E c \in Conns :
             \/ Open(c) \/ Exchange(c) \/ Reads(c) \/ Stores(c) \/ Closed(c)
             \/ RefuseBytes(c) \/ RefuseError(c) \/ RecordRequest(c) \/ AddBytes(c)
             \/ RecordLatency(c)
  <2>1. UNCHANGED readVars
    BY <1>5
       DEF Open, Exchange, Stores, StoreSample, StoreSize, Closed, Reads, LoadPeak,
           ExchangeFails, Try, Sample, Submit, LoadSize, RecvNothing, RecvRequest,
           RefuseBytes, RefuseError, RecordRequest, AddBytes, RecordLatency
  <2> QED
    BY <1>3, <2>1
<1>6. CASE Over
  BY <1>0, <1>6 DEF Over, vars
<1> QED
  BY <1>1, <1>2, <1>4, <1>5, <1>6 DEF Next, Reads, Adds, Stores

LEMMA TypeStep ==
  ASSUME MetricsInv, Next
  PROVE  TypeOK'
  BY PointsStep, ValuesStep, ReadersStep DEF TypeOK, Points

-----------------------------------------------------------------------------
(* No total falls, whatever the step.                                      *)
LEMMA TotalsStep ==
  ASSUME MetricsInv, Next
  PROVE  \A f \in Totals : counter'[f] >= counter[f]
<1> DEFINE Goal == \A f \in Totals : counter'[f] >= counter[f]
<1>0. /\ counter \in [Names -> Nat] /\ TypeOK
      /\ Totals \subseteq Names /\ \A f \in Totals : counter[f] \in Nat
  BY DEF MetricsInv, TypeOK, Totals
<1>1. ASSUME NEW f \in Names, Add(f) PROVE Goal
  BY <1>0, <1>1, AddEffect
<1>2. ASSUME NEW f \in Names \ Totals, NEW n, Set(f, n) PROVE Goal
  BY <1>0, <1>2 DEF Set
<1>3. CASE UNCHANGED counter
  BY <1>0, <1>3
<1>4. ASSUME NEW c \in Conns, Open(c) \/ Adds(c) PROVE Goal
  BY <1>1, <1>4, NamesAre
     DEF Open, Adds, RefuseBytes, RefuseError, RecordRequest, Outcome, CatchError, AddBytes,
         RecordLatency
<1>5. ASSUME NEW c \in Conns, Stores(c) \/ Closed(c) PROVE Goal
  BY <1>2, <1>5, NamesAre DEF Stores, StoreSample, StoreSize, Closed, Totals
<1>6. ASSUME NEW c \in Conns, Exchange(c) PROVE Goal
  <2>1. /\ current[c] \in Nat /\ loaded[c] \in Nat /\ loaded[c] < current[c]
        /\ counter["peak_connections_"] = loaded[c]
    BY <1>6 DEF Exchange, Goes, MetricsInv, TypeOK, Peak, At
  <2> QED
    BY <1>0, <1>6, <2>1, SetEffect, NamesAre DEF Exchange
<1>7. ASSUME NEW c \in Conns, Reads(c) PROVE UNCHANGED counter
  BY <1>7
     DEF Reads, LoadPeak, ExchangeFails, Try, Sample, Submit, LoadSize, RecvNothing, RecvRequest
<1>8. CASE (\E c \in Readers : ReadField(c)) \/ Over
  BY <1>3, <1>8 DEF ReadField, Over, vars
<1> QED
  BY <1>3, <1>4, <1>5, <1>6, <1>7, <1>8 DEF Next, Reads, Adds, Stores

(* The counters agree with the threads after every step.                   *)
LEMMA CountsStep ==
  ASSUME MetricsInv, Next
  PROVE  Counts'
<1>0. /\ TypeOK /\ Counts
      /\ counter \in [Names -> Nat]
      /\ Workers \in Nat /\ Capacity \in Nat
  BY MetricsAssumption DEF MetricsInv, TypeOK
<1> USE <1>0, NamesAre
    DEF Counts, Tally, Moved, Connected, Answering, Accepting, Opening, Handling, Uncounted,
        Unsettled
<1>1. ASSUME NEW c \in Conns, Open(c) PROVE Counts'
  <2>1. Tally("new", "load") /\ Add("active_connections_")
    BY <1>1, Census DEF Open
  <2> QED
    BY <2>1, AddEffect
<1>2. ASSUME NEW c \in Conns, Exchange(c) \/ Stores(c) PROVE Counts'
  <2>1. Tally("cas", "sample") \/ Tally("store", "submit") \/ Tally("set", "recv")
    BY <1>2, Census DEF Exchange, Stores, StoreSample, StoreSize
  <2>2. PICK f \in {"peak_connections_", "active_workers_", "queue_size_"} : \E n : Set(f, n)
    BY <1>2 DEF Exchange, Stores, StoreSample, StoreSize
  <2>3. /\ counter'["active_connections_"] = counter["active_connections_"]
        /\ counter'["total_requests_"] = counter["total_requests_"]
        /\ counter'["successful_requests_"] = counter["successful_requests_"]
        /\ counter'["client_errors_"] = counter["client_errors_"]
        /\ counter'["server_errors_"] = counter["server_errors_"]
        /\ counter'["latency_count_"] = counter["latency_count_"]
    BY <2>2 DEF Set
  <2> QED
    BY <2>1, <2>3
<1>3. ASSUME NEW c \in Conns, Reads(c) PROVE Counts'
  <2>0. UNCHANGED counter
    BY <1>3
       DEF Reads, LoadPeak, ExchangeFails, Try, Sample, Submit, LoadSize, RecvNothing, RecvRequest
  <2>1. CASE LoadPeak(c) \/ ExchangeFails(c) \/ Sample(c) \/ LoadSize(c)
    <3>1. \/ Tally("load", "cas") \/ Tally("load", "sample") \/ Tally("cas", "cas")
          \/ Tally("cas", "sample") \/ Tally("sample", "store") \/ Tally("size", "set")
      <4> HIDE DEF Tally
      <4>1. CASE LoadPeak(c) \/ ExchangeFails(c)
        BY <4>1, Census DEF LoadPeak, ExchangeFails, Try
      <4>2. CASE Sample(c) \/ LoadSize(c)
        BY <4>2, Census DEF Sample, LoadSize
      <4> QED
        BY <2>1, <4>1, <4>2
    <3> QED
      BY <2>0, <3>1
  <2>2. CASE Submit(c)
    <3>1. \/ Tally("submit", "queued") /\ Cardinality(At({"queued"})) < Capacity
          \/ Tally("submit", "refuse")
      BY <2>2, Census DEF Submit
    <3> QED
      BY <2>0, <3>1
  <2>3. CASE RecvNothing(c) \/ RecvRequest(c)
    <3>1. Tally("recv", "drop") \/ Tally("recv", "json") \/ Tally("recv", "outcome")
      BY <2>3, Census DEF RecvNothing, RecvRequest
    <3> QED
      BY <2>0, <3>1
  <2> QED
    BY <1>3, <2>1, <2>2, <2>3 DEF Reads
<1>4. ASSUME NEW c \in Conns, Adds(c) PROVE Counts'
  <2>1. CASE RefuseBytes(c) \/ AddBytes(c)
    <3>1. Tally("refuse", "refused") \/ Tally("sent", "timed")
      BY <2>1, Census DEF RefuseBytes, AddBytes
    <3>2. Add("total_bytes_sent_")
      BY <2>1 DEF RefuseBytes, AddBytes
    <3> QED
      BY <3>1, <3>2, AddEffect
  <2>2. CASE RefuseError(c)
    <3>1. Tally("refused", "turned") /\ Add("server_errors_")
      BY <2>2, Census DEF RefuseError
    <3> QED
      BY <3>1, AddEffect
  <2>3. CASE RecordRequest(c)
    <3>1. /\ Tally("queued", "size") /\ Add("total_requests_")
          /\ Cardinality(At(Handling)) < Workers
      BY <2>3, Census DEF RecordRequest
    <3> QED
      BY <3>1, AddEffect
  <2>4. CASE Outcome(c)
    <3>1. Tally("outcome", "sent")
      BY <2>4, Census DEF Outcome
    <3>2. Add("successful_requests_") \/ Add("client_errors_")
      BY <2>4 DEF Outcome
    <3> QED
      BY <3>1, <3>2, AddEffect
  <2>5. CASE CatchError(c)
    <3>1. PICK p \in Trying : Tally(p, "close")
      BY <2>5, Census DEF CatchError
    <3>2. Add("server_errors_")
      BY <2>5 DEF CatchError
    <3> QED
      BY <3>1, <3>2, AddEffect DEF Trying
  <2>6. CASE RecordLatency(c)
    <3>1. Tally("timed", "log") /\ Add("latency_count_")
      BY <2>6, Census DEF RecordLatency
    <3> QED
      BY <3>1, AddEffect
  <2> QED
    BY <1>4, <2>1, <2>2, <2>3, <2>4, <2>5, <2>6 DEF Adds
<1>5. ASSUME NEW c \in Conns, Closed(c) PROVE Counts'
  <2>1. Goes(c, pc[c], Ends[pc[c]]) /\ pc[c] \in {"turned", "drop", "log", "close"}
    BY <1>5 DEF Closed, Goes, Ends
  <2>2. Tally(pc[c], Ends[pc[c]])
    BY <2>1, Census
  <2> QED
    BY <1>5, <2>1, <2>2, CloseEffect DEF Ends
<1>6. ASSUME NEW c \in Readers, ReadField(c) PROVE Counts'
  <2>1. Tally("json", "outcome") \/ Tally("json", "json")
    BY <1>6, Census, ReadEffect, MetricsAssumption
  <2>2. UNCHANGED counter
    BY <1>6, ReadEffect
  <2> QED
    BY <2>1, <2>2
<1>7. CASE Over
  BY <1>7 DEF Over, vars, At
<1> QED
  BY <1>1, <1>2, <1>3, <1>4, <1>5, <1>6, <1>7 DEF Next, Reads, Adds, Stores

(* The steps that are not in connection_opened(): they leave the peak and  *)
(* the threads inside it alone, and open no connection.                    *)
LEMMA Elsewhere ==
  ASSUME MetricsInv, NEW c \in Conns,
         Sample(c) \/ Submit(c) \/ LoadSize(c) \/ RecvNothing(c) \/ RecvRequest(c)
           \/ Adds(c) \/ Stores(c) \/ Closed(c) \/ (c \in Readers /\ ReadField(c))
  PROVE  /\ counter'["peak_connections_"] = counter["peak_connections_"]
         /\ counter'["active_connections_"] \in Nat
         /\ counter'["active_connections_"] <= counter["active_connections_"]
         /\ pc[c] \notin Opening /\ pc'[c] \notin Opening
         /\ \A d \in Conns \ {c} : /\ pc'[d] = pc[d] /\ loaded'[d] = loaded[d]
                                   /\ current'[d] = current[d]
         /\ current'[c] \in {0, current[c]} /\ highest' = highest
<1>0. /\ TypeOK /\ counter \in [Names -> Nat]
      /\ pc \in [Conns -> Points] /\ current \in [Conns -> Nat] /\ loaded \in [Conns -> Nat]
  BY DEF MetricsInv, TypeOK, Points
<1>1. /\ counter'["peak_connections_"] = counter["peak_connections_"]
      /\ counter'["active_connections_"] \in Nat
      /\ counter'["active_connections_"] <= counter["active_connections_"]
  <2>1. CASE Sample(c) \/ Submit(c) \/ LoadSize(c) \/ RecvNothing(c) \/ RecvRequest(c)
               \/ (c \in Readers /\ ReadField(c))
    <3>1. UNCHANGED counter
      BY <2>1, ReadEffect DEF Sample, Submit, LoadSize, RecvNothing, RecvRequest
    <3> QED
      BY <1>0, <3>1, NamesAre
  <2>2. CASE Adds(c)
    <3>1. PICK f \in Names \ {"peak_connections_", "active_connections_"} : Add(f)
      BY <2>2, NamesAre
         DEF Adds, RefuseBytes, RefuseError, RecordRequest, Outcome, CatchError, AddBytes,
             RecordLatency
    <3> QED
      BY <1>0, <3>1, AddEffect, NamesAre
  <2>3. CASE Stores(c)
    <3>1. PICK f \in {"active_workers_", "queue_size_"} : \E n : Set(f, n)
      BY <2>3 DEF Stores, StoreSample, StoreSize
    <3> QED
      BY <1>0, <3>1, NamesAre DEF Set
  <2>4. CASE Closed(c)
    BY <1>0, <2>4, CloseEffect, NamesAre
  <2> QED
    BY <2>1, <2>2, <2>3, <2>4
<1>2. PICK q \in Points \ Opening : pc' = [pc EXCEPT ![c] = q] /\ pc[c] \notin Opening
  <2> USE DEF Goes, Points, Accepting, Opening, Handling, Uncounted
  <2>1. CASE Sample(c) \/ Submit(c) \/ LoadSize(c) \/ RecvNothing(c) \/ RecvRequest(c)
    BY <2>1 DEF Sample, Submit, LoadSize, RecvNothing, RecvRequest
  <2>2. CASE Adds(c)
    BY <2>2
       DEF Adds, RefuseBytes, RefuseError, RecordRequest, Outcome, CatchError, AddBytes,
           RecordLatency, Trying
  <2>3. CASE Stores(c)
    BY <2>3 DEF Stores, StoreSample, StoreSize
  <2>4. CASE Closed(c)
    <3>1. Ends[pc[c]] \in {"done", "dropped"} /\ pc[c] \notin Opening
      BY <2>4 DEF Closed, Ends
    <3> QED
      BY <2>4, <3>1 DEF Closed
  <2>5. CASE c \in Readers /\ ReadField(c)
    BY <2>5, ReadEffect
  <2> QED
    BY <2>1, <2>2, <2>3, <2>4, <2>5
<1>3. /\ UNCHANGED current \/ current' = [current EXCEPT ![c] = 0]
      /\ UNCHANGED loaded \/ \E n : loaded' = [loaded EXCEPT ![c] = n]
      /\ highest' = highest
  BY ReadEffect
     DEF Sample, Submit, LoadSize, RecvNothing, RecvRequest, Adds, RefuseBytes, RefuseError,
         RecordRequest, Outcome, CatchError, AddBytes, RecordLatency, Stores, StoreSample,
         StoreSize, Closed, Loads, openVars
<1> QED
  BY <1>0, <1>1, <1>2, <1>3

(* The exchanges lose no peak.                                             *)
LEMMA PeakStep ==
  ASSUME MetricsInv, Next
  PROVE  Peak'
<1>0. /\ TypeOK /\ counter \in [Names -> Nat]
      /\ pc \in [Conns -> Points] /\ current \in [Conns -> Nat] /\ loaded \in [Conns -> Nat]
      /\ counter["peak_connections_"] \in Nat /\ counter["active_connections_"] \in Nat
      /\ highest \in Nat
  BY NamesAre DEF MetricsInv, TypeOK, Points
<1>a. \A p : IsFiniteSet(Above(p)) /\ Cardinality(Above(p)) \in Nat
  <2> SUFFICES ASSUME NEW p PROVE IsFiniteSet(Above(p)) /\ Cardinality(Above(p)) \in Nat
    OBVIOUS
  <2>1. Above(p) \subseteq Conns
    BY DEF Above, At
  <2> QED
    BY <2>1, MetricsAssumption, FS_Subset, FS_CardinalityType
<1>b. Peak
  BY DEF MetricsInv
<1>1. ASSUME NEW c \in Conns, Open(c) PROVE Peak'
  <2>1. /\ pc[c] = "new" /\ pc' = [pc EXCEPT ![c] = "load"]
        /\ counter'["active_connections_"] = counter["active_connections_"] + 1
        /\ counter'["peak_connections_"] = counter["peak_connections_"]
        /\ current' = [current EXCEPT ![c] = counter["active_connections_"] + 1]
        /\ highest' = IF counter["active_connections_"] + 1 > highest
                        THEN counter["active_connections_"] + 1 ELSE highest
        /\ UNCHANGED loaded
    <3>1. /\ counter'["active_connections_"] = counter["active_connections_"] + 1
          /\ counter'["peak_connections_"] = counter["peak_connections_"]
      BY <1>0, <1>1, AddEffect, NamesAre DEF Open
    <3>2. /\ pc[c] = "new" /\ pc' = [pc EXCEPT ![c] = "load"] /\ UNCHANGED loaded
          /\ current' = [current EXCEPT ![c] = counter'["active_connections_"]]
          /\ highest' = IF current'[c] > highest THEN current'[c] ELSE highest
      BY <1>1 DEF Open, Goes
    <3>3. current'[c] = counter'["active_connections_"]
      BY <1>0, <3>2
    <3> QED
      BY <3>1, <3>2, <3>3
  <2>2. /\ counter'["active_connections_"] <= highest'
        /\ counter'["peak_connections_"] <= highest'
        /\ \A d \in Conns : current'[d] <= highest'
    BY <1>0, <1>b, <2>1 DEF Peak
  <2>3. \A d \in At({"cas"})' : loaded'[d] < current'[d]
    BY <1>0, <1>b, <2>1 DEF Peak, At
  <2>4. counter'["peak_connections_"] < highest' => \E d \in At(Opening)' : current'[d] = highest'
    <3>1. CASE counter["active_connections_"] + 1 > highest
      BY <1>0, <2>1, <3>1 DEF At, Opening
    <3>2. CASE ~(counter["active_connections_"] + 1 > highest)
      <4>1. ASSUME NEW d \in At(Opening), current[d] = highest
            PROVE  d \in At(Opening)' /\ current'[d] = highest'
        BY <1>0, <2>1, <3>2, <4>1 DEF At, Opening
      <4> QED
        BY <1>b, <2>1, <3>2, <4>1 DEF Peak
    <3> QED
      BY <3>1, <3>2
  <2>5. ASSUME NEW p \in counter'["peak_connections_"]..highest'
        PROVE  counter'["active_connections_"] <= p + Cardinality(Above(p)')
    <3>1. p \in Nat /\ p >= counter["peak_connections_"]
      BY <1>0, <2>1, <2>5
    <3>2. CASE p <= counter["active_connections_"]
      <4>1. c \notin Above(p) /\ Above(p)' = Above(p) \cup {c}
        BY <1>0, <2>1, <3>1, <3>2 DEF Above, At, Opening
      <4>2. Cardinality(Above(p)') = Cardinality(Above(p)) + 1
        BY <1>a, <4>1, FS_AddElement
      <4>3. p \in counter["peak_connections_"]..highest
        BY <1>0, <1>b, <3>1, <3>2 DEF Peak
      <4>4. counter["active_connections_"] <= p + Cardinality(Above(p))
        BY <1>b, <4>3 DEF Peak
      <4>5. Cardinality(Above(p)) \in Nat
        BY <1>a
      <4> QED
        BY <1>0, <2>1, <3>1, <4>2, <4>4, <4>5
    <3>3. CASE p > counter["active_connections_"]
      <4>1. Above(p)' = Above(p)
        BY <1>0, <2>1, <3>1, <3>3 DEF Above, At, Opening
      <4>2. Cardinality(Above(p)') \in Nat
        BY <1>a, <4>1
      <4> QED
        BY <1>0, <2>1, <3>1, <3>3, <4>2
    <3> QED
      BY <1>0, <3>1, <3>2, <3>3
  <2> QED
    BY <2>2, <2>3, <2>4, <2>5 DEF Peak
<1>2. ASSUME NEW c \in Conns, LoadPeak(c) \/ ExchangeFails(c) PROVE Peak'
  <2>1. /\ pc[c] \in Opening
        /\ loaded' = [loaded EXCEPT ![c] = counter["peak_connections_"]]
        /\ pc' = [pc EXCEPT ![c] = IF current[c] > counter["peak_connections_"]
                                     THEN "cas" ELSE "sample"]
        /\ UNCHANGED <<counter, current, highest>>
    BY <1>2 DEF LoadPeak, ExchangeFails, Try, Loads, Goes, Opening, openVars
  <2>2. \A d \in At({"cas"})' : loaded'[d] < current'[d]
    BY <1>0, <1>b, <2>1 DEF Peak, At
  <2>3. counter'["peak_connections_"] < highest' => \E d \in At(Opening)' : current'[d] = highest'
    BY <1>0, <1>b, <2>1 DEF Peak, At, Opening
  <2>4. ASSUME NEW p \in counter["peak_connections_"]..highest PROVE Above(p)' = Above(p)
    BY <1>0, <2>1, <2>4 DEF Above, At, Opening
  <2> QED
    BY <1>b, <2>1, <2>2, <2>3, <2>4 DEF Peak
<1>3. ASSUME NEW c \in Conns, Exchange(c) PROVE Peak'
  <2>1. /\ pc[c] = "cas" /\ pc' = [pc EXCEPT ![c] = "sample"]
        /\ counter'["peak_connections_"] = current[c]
        /\ counter["peak_connections_"] < current[c]
        /\ counter'["active_connections_"] = counter["active_connections_"]
        /\ UNCHANGED <<current, highest, loaded>>
    BY <1>0, <1>3, <1>b, SetEffect, NamesAre DEF Exchange, Goes, Peak, At, openVars
  <2>2. \A d \in At({"cas"})' : loaded'[d] < current'[d]
    BY <1>0, <1>b, <2>1 DEF Peak, At
  <2>3. counter'["peak_connections_"] < highest' => \E d \in At(Opening)' : current'[d] = highest'
    BY <1>0, <1>b, <2>1 DEF Peak, At, Opening
  <2>4. ASSUME NEW p \in current[c]..highest
        PROVE  p \in counter["peak_connections_"]..highest /\ Above(p)' = Above(p)
    BY <1>0, <2>1, <2>4 DEF Above, At, Opening
  <2> QED
    BY <1>b, <2>1, <2>2, <2>3, <2>4 DEF Peak
<1>4. ASSUME NEW c \in Conns,
             Sample(c) \/ Submit(c) \/ LoadSize(c) \/ RecvNothing(c) \/ RecvRequest(c)
               \/ Adds(c) \/ Stores(c) \/ Closed(c) \/ (c \in Readers /\ ReadField(c))
      PROVE  Peak'
  <2>1. /\ counter'["peak_connections_"] = counter["peak_connections_"]
        /\ counter'["active_connections_"] \in Nat
        /\ counter'["active_connections_"] <= counter["active_connections_"]
        /\ pc[c] \notin Opening /\ pc'[c] \notin Opening
        /\ \A d \in Conns \ {c} : /\ pc'[d] = pc[d] /\ loaded'[d] = loaded[d]
                                  /\ current'[d] = current[d]
        /\ current'[c] \in {0, current[c]} /\ highest' = highest
    BY <1>4, Elsewhere
  <2>2. At(Opening)' = At(Opening) /\ At({"cas"})' = At({"cas"}) /\ At({"cas"}) \subseteq At(Opening)
    BY <2>1 DEF At, Opening
  <2>3. \A d \in At(Opening) : d \in Conns \ {c}
    BY <2>1 DEF At
  <2>4. \A p : Above(p)' = Above(p)
    BY <2>1, <2>2, <2>3 DEF Above
  <2>5. /\ counter'["active_connections_"] <= highest'
        /\ counter'["peak_connections_"] <= highest'
        /\ \A d \in Conns : current'[d] <= highest'
    BY <1>0, <1>b, <2>1 DEF Peak
  <2>6. \A d \in At({"cas"})' : loaded'[d] < current'[d]
    BY <1>b, <2>1, <2>2, <2>3 DEF Peak
  <2>7. counter'["peak_connections_"] < highest' => \E d \in At(Opening)' : current'[d] = highest'
    BY <1>b, <2>1, <2>2, <2>3 DEF Peak
  <2>8. ASSUME NEW p \in counter["peak_connections_"]..highest
        PROVE  counter'["active_connections_"] <= p + Cardinality(Above(p))
    <3>1. counter["active_connections_"] <= p + Cardinality(Above(p))
      BY <1>b, <2>8 DEF Peak
    <3>2. p \in Nat /\ Cardinality(Above(p)) \in Nat
      BY <1>0, <1>a, <2>8
    <3> QED
      BY <1>0, <2>1, <3>1, <3>2
  <2> QED
    BY <2>1, <2>4, <2>5, <2>6, <2>7, <2>8 DEF Peak
<1>5. CASE Over
  BY <1>5, <1>b DEF Over, vars, Peak, At, Above
<1> QED
  BY <1>1, <1>2, <1>3, <1>4, <1>5, MetricsAssumption DEF Next, Reads, Adds, Stores

(* A sample is never beyond what it counts, on its way or stored.          *)
LEMMA SamplesStep ==
  ASSUME MetricsInv, Next
  PROVE  Samples'
<1>0. /\ TypeOK /\ counter \in [Names -> Nat]
      /\ pc \in [Conns -> Points] /\ loaded \in [Conns -> Nat]
      /\ Workers \in Nat /\ Capacity \in Nat
  BY MetricsAssumption DEF MetricsInv, TypeOK, Points
<1>a. Samples
  BY DEF MetricsInv
<1>1. ASSUME NEW c \in Conns, Sample(c) PROVE Samples'
  <2>1. Cardinality(At(Handling)) \in Nat /\ Cardinality(At(Handling)) <= Workers
    BY AtFinite DEF MetricsInv, Counts
  <2> QED
    BY <1>0, <1>1, <1>a, <2>1 DEF Sample, Goes, Loads, Samples, At
<1>2. ASSUME NEW c \in Conns, LoadSize(c) PROVE Samples'
  <2>1. Cardinality(At({"queued"})) \in Nat /\ Cardinality(At({"queued"})) <= Capacity
    BY AtFinite DEF MetricsInv, Counts
  <2> QED
    BY <1>0, <1>2, <1>a, <2>1 DEF LoadSize, Goes, Loads, Samples, At
<1>3. ASSUME NEW c \in Conns, Stores(c) PROVE Samples'
  BY <1>0, <1>3, <1>a, SetEffect, NamesAre
     DEF Stores, StoreSample, StoreSize, Goes, Loads, Samples, At
<1>4. ASSUME counter'["active_workers_"] = counter["active_workers_"],
             counter'["queue_size_"] = counter["queue_size_"],
             \A d \in Conns : pc'[d] \in {"store", "set"} => pc'[d] = pc[d] /\ loaded'[d] = loaded[d]
      PROVE  Samples'
  BY <1>4, <1>a DEF Samples, At
<1>5. ASSUME NEW c \in Conns,
             LoadPeak(c) \/ ExchangeFails(c) \/ Submit(c) \/ RecvNothing(c) \/ RecvRequest(c)
               \/ (c \in Readers /\ ReadField(c))
      PROVE  Samples'
  <2>1. UNCHANGED counter
    BY <1>5, ReadEffect DEF LoadPeak, ExchangeFails, Try, Submit, RecvNothing, RecvRequest
  <2>2. \A d \in Conns : pc'[d] \in {"store", "set"} => pc'[d] = pc[d] /\ loaded'[d] = loaded[d]
    BY <1>0, <1>5, ReadEffect
       DEF LoadPeak, ExchangeFails, Try, Submit, RecvNothing, RecvRequest, Goes, Loads
  <2> QED
    BY <1>4, <2>1, <2>2
<1>6. ASSUME NEW c \in Conns, Open(c) \/ Adds(c) \/ Exchange(c) \/ Closed(c) PROVE Samples'
  <2>1. \/ \E f \in Names \ {"active_workers_", "queue_size_"} : Add(f)
        \/ \E f \in Names \ {"active_workers_", "queue_size_"} : \E n : Set(f, n)
    BY <1>6, NamesAre
       DEF Open, Adds, RefuseBytes, RefuseError, RecordRequest, Outcome, CatchError, AddBytes,
           RecordLatency, Exchange, Closed
  <2>2. /\ counter'["active_workers_"] = counter["active_workers_"]
        /\ counter'["queue_size_"] = counter["queue_size_"]
    BY <1>0, <2>1, NamesAre DEF Add, Set
  <2>3. PICK q : pc' = [pc EXCEPT ![c] = q] /\ q \notin {"store", "set"}
    <3>1. CASE Closed(c)
      <4>1. Ends[pc[c]] \in {"done", "dropped"}
        BY <3>1 DEF Closed, Ends
      <4> QED
        BY <3>1, <4>1 DEF Closed
    <3>2. CASE ~Closed(c)
      BY <1>6, <3>2
         DEF Open, Adds, RefuseBytes, RefuseError, RecordRequest, Outcome, CatchError, AddBytes,
             RecordLatency, Exchange, Goes
    <3> QED
      BY <3>1, <3>2
  <2>4. UNCHANGED loaded
    BY <1>6
       DEF Open, Adds, RefuseBytes, RefuseError, RecordRequest, Outcome, CatchError, AddBytes,
           RecordLatency, Exchange, Closed
  <2>5. \A d \in Conns : pc'[d] \in {"store", "set"} => pc'[d] = pc[d] /\ loaded'[d] = loaded[d]
    BY <1>0, <2>3, <2>4
  <2> QED
    BY <1>4, <2>2, <2>5
<1>7. CASE Over
  BY <1>4, <1>7 DEF Over, vars
<1> QED
  BY <1>1, <1>2, <1>3, <1>5, <1>6, <1>7, MetricsAssumption DEF Next, Reads, Adds, Stores

-----------------------------------------------------------------------------
(* What a snapshot shows stays within its bounds while others count.       *)
LEMMA SnapshotKept ==
  ASSUME MetricsInv, NEW c \in Readers, counter' \in [Names -> Nat],
         \A f \in Totals : counter'[f] >= counter[f],
         snap'[c] = snap[c], pending'[c] = pending[c],
         pc'[c] = "json" => pc[c] \in {"json", "recv"},
         pc'[c] \notin {"json", "outcome"} => pc[c] \notin {"json", "outcome"}
  PROVE  Snapshot(c)'
<1> DEFINE n == Len(snap[c])
<1>0. /\ snap[c] \in Seq(Nat) /\ n \in Nat
      /\ counter \in [Names -> Nat]
      /\ pending[c].requests \in Nat /\ pending[c].openers \in Nat
      /\ Snapshot(c)
  BY DEF MetricsInv, TypeOK, Snapshots
<1>1. ASSUME NEW i \in 1..10
      PROVE  /\ Seen(c, i) \in Nat /\ Seen(c, i)' \in Nat
             /\ i <= n => Seen(c, i)' = Seen(c, i)
             /\ Fields[i] \in Totals => Seen(c, i)' >= Seen(c, i)
  <2>1. Fields[i] \in Names
    BY FieldOrder DEF Names
  <2>2. counter[Fields[i]] \in Nat /\ counter'[Fields[i]] \in Nat
    BY <1>0, <2>1
  <2>3. CASE i <= n
    <3>1. snap[c][i] \in Nat
      BY <1>0, <2>3
    <3>2. Seen(c, i) = snap[c][i] /\ Seen(c, i)' = snap[c][i]
      BY <2>3 DEF Seen
    <3> QED
      BY <3>1, <3>2
  <2>4. CASE ~(i <= n)
    <3>1. Seen(c, i) = counter[Fields[i]] /\ Seen(c, i)' = counter'[Fields[i]]
      BY <2>4 DEF Seen
    <3> QED
      BY <2>2, <2>4, <3>1
  <2> QED
    BY <2>3, <2>4
<1>2. Fields[4] \in Totals /\ Fields[5] \in Totals /\ Fields[6] \in Totals /\ Fields[8] \in Totals
  BY FieldOrder, NamesAre DEF Totals
<1>3. /\ Seen(c, 4) \in Nat /\ Seen(c, 4)' \in Nat /\ Seen(c, 4)' >= Seen(c, 4)
      /\ Seen(c, 5) \in Nat /\ Seen(c, 5)' \in Nat /\ Seen(c, 5)' >= Seen(c, 5)
      /\ Seen(c, 6) \in Nat /\ Seen(c, 6)' \in Nat /\ Seen(c, 6)' >= Seen(c, 6)
      /\ Seen(c, 8) \in Nat /\ Seen(c, 8)' \in Nat /\ Seen(c, 8)' >= Seen(c, 8)
  BY <1>1, <1>2
<1>4. /\ Seen(c, 1) \in Nat /\ Seen(c, 3) \in Nat /\ Seen(c, 7) \in Nat
      /\ n >= 1 => Seen(c, 1)' = Seen(c, 1)
      /\ n >= 2 => Seen(c, 2)' = Seen(c, 2)
      /\ n >= 3 => Seen(c, 3)' = Seen(c, 3)
      /\ n >= 7 => Seen(c, 7)' = Seen(c, 7)
      /\ n >= 10 => Seen(c, 10)' = Seen(c, 10)
  BY <1>0, <1>1
<1>6. /\ Len(snap'[c]) <= 10
      /\ pc'[c] = "json" => Len(snap'[c]) < 10
      /\ pc'[c] \notin {"json", "outcome"} => snap'[c] = <<>>
  <2>1. /\ n <= 10
        /\ pc[c] = "json" => n < 10
        /\ pc[c] \notin {"json", "outcome"} => snap[c] = <<>>
    BY <1>0 DEF Snapshot
  <2>2. snap[c] = <<>> => n = 0
    OBVIOUS
  <2>3. pc'[c] = "json" => n < 10
    <3>1. CASE pc[c] = "json"
      BY <2>1, <3>1
    <3>2. CASE pc[c] = "recv"
      BY <2>1, <2>2, <3>2
    <3> QED
      BY <3>1, <3>2
  <2>4. Len(snap'[c]) = n
    OBVIOUS
  <2>5. Len(snap'[c]) <= 10 /\ (pc'[c] = "json" => Len(snap'[c]) < 10)
    <3> HIDE DEF n
    <3> QED
      BY <2>1, <2>3, <2>4
  <2> QED
    BY <2>1, <2>5
<1>7. n >= 1 => Seen(c, 1)' <= Seen(c, 4)' + Seen(c, 5)'
  <2>1. n >= 1 => Seen(c, 1) <= Seen(c, 4) + Seen(c, 5)
    BY <1>0 DEF Snapshot
  <2>2. ASSUME n >= 1 PROVE Seen(c, 1)' <= Seen(c, 4)' + Seen(c, 5)'
    <3>1. Seen(c, 1)' = Seen(c, 1) /\ Seen(c, 1) <= Seen(c, 4) + Seen(c, 5)
      BY <1>4, <2>1, <2>2
    <3>2. Seen(c, 1) \in Nat
      BY <1>4
    <3> QED
      BY <1>3, <3>1, <3>2
  <2> QED
    BY <2>2
<1>8. n >= 2 => Seen(c, 2)' <= Workers
  BY <1>0, <1>4 DEF Snapshot
<1>9. n >= 3 => Seen(c, 3)' <= Seen(c, 4)' + Seen(c, 5)' + Seen(c, 6)' + pending'[c].requests
  <2>1. PICK r \in Nat : r = pending[c].requests /\ r = pending'[c].requests
    BY <1>0
  <2>2. n >= 3 => Seen(c, 3) <= Seen(c, 4) + Seen(c, 5) + Seen(c, 6) + r
    BY <1>0, <2>1 DEF Snapshot
  <2>3. ASSUME n >= 3 PROVE Seen(c, 3)' <= Seen(c, 4)' + Seen(c, 5)' + Seen(c, 6)' + r
    <3>1. Seen(c, 3)' = Seen(c, 3) /\ Seen(c, 3) <= Seen(c, 4) + Seen(c, 5) + Seen(c, 6) + r
      BY <1>4, <2>2, <2>3
    <3>2. Seen(c, 3) \in Nat
      BY <1>4
    <3> QED
      BY <1>3, <3>1, <3>2
  <2> QED
    BY <2>1, <2>3, Zenon
<1>10. n >= 7 => Seen(c, 7)' <= Seen(c, 8)' + pending'[c].openers
  <2>1. PICK r \in Nat : r = pending[c].openers /\ r = pending'[c].openers
    BY <1>0
  <2>2. n >= 7 => Seen(c, 7) <= Seen(c, 8) + r
    BY <1>0, <2>1 DEF Snapshot
  <2>3. ASSUME n >= 7 PROVE Seen(c, 7)' <= Seen(c, 8)' + r
    <3>1. Seen(c, 7)' = Seen(c, 7) /\ Seen(c, 7) <= Seen(c, 8) + r
      BY <1>4, <2>2, <2>3
    <3>2. Seen(c, 7) \in Nat
      BY <1>4
    <3> QED
      BY <1>3, <3>1, <3>2
  <2> QED
    BY <2>1, <2>3, Zenon
<1>11. n >= 10 => Seen(c, 10)' <= Capacity
  BY <1>0, <1>4 DEF Snapshot
<1> QED
  BY <1>6, <1>7, <1>8, <1>9, <1>10, <1>11 DEF Snapshot

(* At every moment, a snapshot that could be taken at once would be right. *)
LEMMA MomentRight ==
  ASSUME MetricsInv
  PROVE  /\ counter["latency_count_"] <=
              counter["successful_requests_"] + counter["client_errors_"]
         /\ counter["active_workers_"] <= Workers
         /\ counter["total_requests_"] <=
              counter["successful_requests_"] + counter["client_errors_"]
                + counter["server_errors_"] + Cardinality(At(Unsettled))
         /\ counter["active_connections_"] <=
              counter["peak_connections_"] + Cardinality(At(Opening))
         /\ counter["queue_size_"] <= Capacity
<1>0. \A f \in Names : counter[f] \in Nat
  BY DEF MetricsInv, TypeOK
<1>1. counter["latency_count_"] <= counter["successful_requests_"] + counter["client_errors_"]
  <2>1. Cardinality(At(Answering)) \in Nat
    BY AtFinite
  <2> QED
    BY <1>0, <2>1, NamesAre DEF MetricsInv, Counts
<1>2. counter["active_connections_"] <= counter["peak_connections_"] + Cardinality(At(Opening))
  <2> DEFINE p == counter["peak_connections_"]
  <2>1. p \in p..highest
    BY <1>0, NamesAre DEF MetricsInv, TypeOK, Peak
  <2>2. counter["active_connections_"] <= p + Cardinality(Above(p))
    BY <2>1 DEF MetricsInv, Peak
  <2>3. Above(p) \subseteq At(Opening)
    BY DEF Above
  <2>4. /\ IsFiniteSet(At(Opening)) /\ Cardinality(At(Opening)) \in Nat
        /\ Cardinality(Above(p)) \in Nat /\ Cardinality(Above(p)) <= Cardinality(At(Opening))
    BY <2>3, AtFinite, FS_Subset, FS_CardinalityType
  <2> QED
    BY <1>0, <2>2, <2>4, NamesAre
<1> QED
  BY <1>1, <1>2 DEF MetricsInv, Counts, Samples

(* Reading the next member keeps a snapshot right.                         *)
LEMMA ReadKeeps ==
  ASSUME MetricsInv, NEW c \in Readers, ReadField(c)
  PROVE  Snapshot(c)'
<1>0. /\ snap \in [Readers -> Seq(Nat)]
      /\ pending \in [Readers -> [requests : Nat, openers : Nat]]
      /\ Snapshot(c)
  BY DEF MetricsInv, TypeOK, Snapshots
<1>n. PICK n \in 0..9 : n = Len(snap[c])
  BY NextField
<1>1. /\ snap'[c] = Append(snap[c], counter[Fields[n + 1]])
      /\ UNCHANGED counter
      /\ pc' = [pc EXCEPT ![c] = IF n + 1 = 10 THEN "outcome" ELSE "json"]
  BY <1>0, <1>n, FieldOrder DEF ReadField, Goes
<1>2. /\ Len(snap'[c]) = n + 1
      /\ \A i \in 1..n : snap'[c][i] = snap[c][i]
      /\ snap'[c][n + 1] = counter[Fields[n + 1]]
  BY <1>0, <1>1, <1>n
<1>3. ASSUME NEW i \in 1..10 PROVE Seen(c, i)' = Seen(c, i)
  <2>1. CASE i <= n
    <3>1. i \in 1..n /\ i <= n + 1
      BY <2>1
    <3>2. Seen(c, i) = snap[c][i] /\ Seen(c, i)' = snap'[c][i]
      BY <1>n, <1>2, <2>1, <3>1 DEF Seen
    <3> QED
      BY <1>2, <3>1, <3>2
  <2>2. CASE i = n + 1
    BY <1>n, <1>2, <2>2 DEF Seen
  <2>3. CASE i > n + 1
    BY <1>n, <1>1, <1>2, <2>3 DEF Seen
  <2> QED
    BY <2>1, <2>2, <2>3
<1>4. /\ n + 1 <= 10
      /\ pc'[c] = "json" => n + 1 < 10
      /\ pc'[c] \in {"json", "outcome"}
  <2>1. pc'[c] = IF n + 1 = 10 THEN "outcome" ELSE "json"
    BY <1>1, MetricsAssumption DEF MetricsInv, TypeOK
  <2> QED
    BY <2>1
<1>5. ASSUME NEW i \in 1..10, n < i PROVE Seen(c, i) = counter[Fields[i]]
  BY <1>5, <1>n DEF Seen
<1>6. ASSUME n + 1 >= 1 PROVE Seen(c, 1)' <= Seen(c, 4)' + Seen(c, 5)'
  <2>1. CASE n = 0
    <3>1. /\ Seen(c, 1) = counter["latency_count_"]
          /\ Seen(c, 4) = counter["successful_requests_"] /\ Seen(c, 5) = counter["client_errors_"]
      BY <1>5, <2>1, FieldOrder
    <3> QED
      BY <1>3, <3>1, MomentRight
  <2>2. CASE n >= 1
    BY <1>0, <1>n, <1>3, <2>2 DEF Snapshot
  <2> QED
    BY <2>1, <2>2
<1>7. ASSUME n + 1 >= 2 PROVE Seen(c, 2)' <= Workers
  <2>1. CASE n = 1
    <3>1. Seen(c, 2) = counter["active_workers_"]
      BY <1>5, <2>1, FieldOrder
    <3> QED
      BY <1>3, <3>1, MomentRight
  <2>2. CASE n >= 2
    BY <1>0, <1>n, <1>3, <2>2 DEF Snapshot
  <2> QED
    BY <1>7, <2>1, <2>2
<1>8. ASSUME n + 1 >= 3
      PROVE  Seen(c, 3)' <= Seen(c, 4)' + Seen(c, 5)' + Seen(c, 6)' + pending'[c].requests
  <2>1. CASE n = 2
    <3>1. pending'[c].requests = Cardinality(At(Unsettled))
      BY <1>0, <1>n, <2>1, FieldOrder DEF ReadField
    <3>2. /\ Seen(c, 3) = counter["total_requests_"]
          /\ Seen(c, 4) = counter["successful_requests_"] /\ Seen(c, 5) = counter["client_errors_"]
          /\ Seen(c, 6) = counter["server_errors_"]
      BY <1>5, <2>1, FieldOrder
    <3> QED
      BY <1>3, <3>1, <3>2, MomentRight
  <2>2. CASE n >= 3
    <3>1. Fields[n + 1] # "total_requests_"
      <4>1. n \in {3, 4, 5, 6, 7, 8, 9}
        BY <2>2
      <4> QED
        BY <4>1, FieldOrder
    <3>2. pending'[c].requests = pending[c].requests
      BY <1>0, <1>n, <3>1 DEF ReadField
    <3>3. Seen(c, 3) <= Seen(c, 4) + Seen(c, 5) + Seen(c, 6) + pending[c].requests
      BY <1>0, <1>n, <2>2 DEF Snapshot
    <3> QED
      BY <1>3, <3>2, <3>3
  <2> QED
    BY <1>8, <2>1, <2>2
<1>9. ASSUME n + 1 >= 7 PROVE Seen(c, 7)' <= Seen(c, 8)' + pending'[c].openers
  <2>1. CASE n = 6
    <3>1. pending'[c].openers = Cardinality(At(Opening))
      BY <1>0, <1>n, <2>1, FieldOrder DEF ReadField
    <3>2. /\ Seen(c, 7) = counter["active_connections_"]
          /\ Seen(c, 8) = counter["peak_connections_"]
      BY <1>5, <2>1, FieldOrder
    <3> QED
      BY <1>3, <3>1, <3>2, MomentRight
  <2>2. CASE n >= 7
    <3>1. Fields[n + 1] # "active_connections_"
      <4>1. n \in {7, 8, 9}
        BY <2>2
      <4> QED
        BY <4>1, FieldOrder
    <3>2. pending'[c].openers = pending[c].openers
      BY <1>0, <1>n, <3>1 DEF ReadField
    <3>3. Seen(c, 7) <= Seen(c, 8) + pending[c].openers
      BY <1>0, <1>n, <2>2 DEF Snapshot
    <3> QED
      BY <1>3, <3>2, <3>3
  <2> QED
    BY <1>9, <2>1, <2>2
<1>10. ASSUME n + 1 >= 10 PROVE Seen(c, 10)' <= Capacity
  <2>1. n = 9
    BY <1>10
  <2>2. Seen(c, 10) = counter["queue_size_"]
    BY <1>5, <2>1, FieldOrder
  <2> QED
    BY <1>3, <2>2, MomentRight
<1> QED
  BY <1>2, <1>4, <1>6, <1>7, <1>8, <1>9, <1>10 DEF Snapshot

(* Every snapshot stays right, whoever takes a step.                       *)
LEMMA SnapshotsStep ==
  ASSUME MetricsInv, Next
  PROVE  Snapshots'
<1> SUFFICES ASSUME NEW c \in Readers PROVE Snapshot(c)'
  BY DEF Snapshots
<1>0. /\ c \in Conns /\ pc \in [Conns -> Points]
      /\ snap \in [Readers -> Seq(Nat)]
      /\ pending \in [Readers -> [requests : Nat, openers : Nat]]
  BY MetricsAssumption DEF MetricsInv, TypeOK, Points
<1> DEFINE Stays == /\ pc'[c] = "json" => pc[c] \in {"json", "recv"}
                    /\ pc'[c] \notin {"json", "outcome"} => pc[c] \notin {"json", "outcome"}
<1>1. ASSUME snap'[c] = snap[c], pending'[c] = pending[c], Stays PROVE Snapshot(c)'
  BY <1>1, SnapshotKept, ValuesStep, TotalsStep
<1>2. ASSUME NEW d \in Readers, ReadField(d) PROVE Snapshot(c)'
  <2>1. CASE d = c
    BY <1>2, <2>1, ReadKeeps
  <2>2. CASE d # c
    <3>1. snap'[c] = snap[c] /\ pending'[c] = pending[c]
      BY <1>0, <1>2, <2>2 DEF ReadField
    <3>2. pc'[c] = pc[c]
      BY <1>0, <1>2, <2>2 DEF ReadField, Goes
    <3> QED
      BY <1>1, <3>1, <3>2
  <2> QED
    BY <2>1, <2>2
<1>3. ASSUME NEW d \in Conns, Outcome(d) \/ CatchError(d) PROVE Snapshot(c)'
  <2>0. Forget(d) /\ pc' \in [Conns -> Points] /\ \E p, q : Goes(d, p, q) /\ q \in {"sent", "close"}
    BY <1>3, PointsStep DEF Outcome, CatchError
  <2>1. CASE d = c
    <3>1. snap'[c] = <<>> /\ pc'[c] \in {"sent", "close"}
      BY <1>0, <2>0, <2>1 DEF Forget, Goes
    <3>2. Len(snap'[c]) = 0
      BY <3>1
    <3> QED
      BY <3>1, <3>2 DEF Snapshot
  <2>2. CASE d # c
    BY <1>0, <1>1, <2>0, <2>2 DEF Forget, Goes
  <2> QED
    BY <2>1, <2>2
<1>4. ASSUME NEW d \in Conns,
             Open(d) \/ Exchange(d) \/ Stores(d) \/ Closed(d) \/ RefuseBytes(d) \/ RefuseError(d)
               \/ RecordRequest(d) \/ AddBytes(d) \/ RecordLatency(d)
      PROVE  Snapshot(c)'
  <2>1. UNCHANGED readVars
    BY <1>4
       DEF Open, Exchange, Stores, StoreSample, StoreSize, Closed, RefuseBytes, RefuseError,
           RecordRequest, AddBytes, RecordLatency
  <2>2. Stays
    <3>1. CASE Closed(d)
      <4>1. Ends[pc[d]] \in {"done", "dropped"} /\ pc[d] \notin {"json", "outcome"}
        BY <3>1 DEF Closed, Ends
      <4> QED
        BY <1>0, <3>1, <4>1 DEF Closed
    <3>2. CASE ~Closed(d)
      BY <1>0, <1>4, <3>2
         DEF Open, Exchange, Stores, StoreSample, StoreSize, RefuseBytes, RefuseError,
             RecordRequest, AddBytes, RecordLatency, Goes
    <3> QED
      BY <3>1, <3>2
  <2> QED
    BY <1>1, <2>1, <2>2 DEF readVars
<1>5. ASSUME NEW d \in Conns, Reads(d) PROVE Snapshot(c)'
  <2>1. UNCHANGED readVars
    BY <1>5
       DEF Reads, LoadPeak, ExchangeFails, Try, Sample, Submit, LoadSize, RecvNothing, RecvRequest
  <2>2. Stays
    BY <1>0, <1>5
       DEF Reads, LoadPeak, ExchangeFails, Try, Sample, Submit, LoadSize, RecvNothing,
           RecvRequest, Goes
  <2> QED
    BY <1>1, <2>1, <2>2 DEF readVars
<1>6. CASE Over
  BY <1>1, <1>6 DEF Over, vars
<1> QED
  BY <1>2, <1>3, <1>4, <1>5, <1>6 DEF Next, Reads, Stores

-----------------------------------------------------------------------------
(* Before the first connection all counters are zero.                      *)
LEMMA InitInv ==
  ASSUME Init
  PROVE  MetricsInv
<1>1. TypeOK
  <2>1. [requests |-> 0, openers |-> 0] \in [requests : Nat, openers : Nat] /\ <<>> \in Seq(Nat)
    OBVIOUS
  <2> QED
    BY <2>1 DEF Init, TypeOK
<1>2. \A f \in Names : counter[f] = 0
  BY DEF Init
<1>3. ASSUME NEW S, "new" \notin S PROVE At(S) = {} /\ Cardinality(At(S)) = 0
  BY <1>3, FS_EmptySet DEF Init, At
<1>4. Counts
  <2>1. /\ Cardinality(At(Connected)) = 0 /\ Cardinality(At(Handling)) = 0
        /\ Cardinality(At({"queued"})) = 0 /\ Cardinality(At(Unsettled)) = 0
        /\ Cardinality(At(Answering)) = 0
    BY <1>3 DEF Connected, Accepting, Opening, Handling, Uncounted, Unsettled, Answering
  <2> QED
    BY <1>2, <2>1, NamesAre, MetricsAssumption DEF Counts
<1>5. Samples
  BY <1>2, <1>3, NamesAre, MetricsAssumption DEF Samples
<1>6. Peak
  <2>1. At({"cas"}) = {} /\ At(Opening) = {}
    BY <1>3 DEF Opening
  <2>2. counter["active_connections_"] = 0 /\ counter["peak_connections_"] = 0 /\ highest = 0
    BY <1>2, NamesAre DEF Init
  <2>3. ASSUME NEW p \in 0..0 PROVE 0 <= p + Cardinality(Above(p))
    <3>1. Above(p) = {} /\ p = 0
      BY <2>1 DEF Above
    <3> QED
      BY <3>1, FS_EmptySet
  <2>4. \A c \in Conns : current[c] <= highest
    BY <2>2 DEF Init
  <2> QED
    BY <2>1, <2>2, <2>3, <2>4 DEF Peak
<1>7. Snapshots
  <2>1. \A c \in Readers : snap[c] = <<>> /\ Len(snap[c]) = 0 /\ pc[c] = "new"
    BY MetricsAssumption DEF Init
  <2> QED
    BY <2>1 DEF Snapshots, Snapshot
<1> QED
  BY <1>1, <1>4, <1>5, <1>6, <1>7 DEF MetricsInv

(* The inductive invariant holds in every reachable state.                 *)
THEOREM MetricsInvariant == Spec => []MetricsInv
<1>1. Init => MetricsInv
  BY InitInv
<1>2. MetricsInv /\ [Next]_vars => MetricsInv'
  <2> SUFFICES ASSUME MetricsInv, [Next]_vars PROVE MetricsInv'
    OBVIOUS
  <2>1. CASE Next
    BY <2>1, TypeStep, CountsStep, SamplesStep, PeakStep, SnapshotsStep DEF MetricsInv
  <2>2. CASE UNCHANGED vars
    <3>1. TypeOK' /\ Counts' /\ Samples'
      BY <2>2 DEF vars, MetricsInv, TypeOK, Counts, Samples, At
    <3>2. Peak'
      BY <2>2 DEF vars, MetricsInv, Peak, At, Above
    <3>3. Snapshots'
      BY <2>2 DEF vars, MetricsInv, Snapshots, Snapshot, Seen
    <3> QED
      BY <3>1, <3>2, <3>3 DEF MetricsInv
  <2> QED
    BY <2>1, <2>2
<1> QED
  BY <1>1, <1>2, PTL DEF Spec

(* Every member has its type in every reachable state: active_connections_ *)
(* in particular is never counted below zero.                              *)
THEOREM MetricsTypeCorrect == Spec => []TypeOK
  BY MetricsInvariant, PTL DEF MetricsInv

(* However many threads are in connection_opened() at once, no peak is     *)
(* lost: PeakExact.                                                        *)
THEOREM NoPeakLost == Spec => []PeakExact
<1>1. MetricsInv => PeakExact
  <2> SUFFICES ASSUME MetricsInv PROVE PeakExact
    OBVIOUS
  <2>1. counter["peak_connections_"] \in Nat /\ highest \in Nat
    BY NamesAre DEF MetricsInv, TypeOK
  <2> QED
    BY <2>1 DEF MetricsInv, Peak, PeakExact
<1> QED
  BY <1>1, MetricsInvariant, PTL

(* No total falls, whatever the step: TotalsGrow.                          *)
THEOREM TotalsNeverFall == Spec => TotalsGrow
<1>1. MetricsInv /\ [Next]_vars => [\A f \in Totals : counter'[f] >= counter[f]]_vars
  BY TotalsStep
<1> QED
  BY <1>1, MetricsInvariant, PTL DEF Spec, TotalsGrow

(* What a complete snapshot shows of a member is what it read of it.       *)
LEMMA ShownIsSeen ==
  ASSUME MetricsInv, NEW c \in Finished
  PROVE  /\ c \in Readers /\ Snapshot(c) /\ Len(snap[c]) = 10
         /\ \A i \in 1..10 : Shown(c, Fields[i]) = Seen(c, i)
<1>1. c \in Readers /\ Snapshot(c) /\ Len(snap[c]) = 10
  BY FieldOrder DEF Finished, MetricsInv, Snapshots
<1>2. ASSUME NEW i \in 1..10 PROVE Shown(c, Fields[i]) = Seen(c, i)
  <2>1. \A j \in 1..10 : Fields[j] = Fields[i] => j = i
    <3>1. \A k \in 1..10 : k \in {1, 2, 3, 4, 5, 6, 7, 8, 9, 10}
      OBVIOUS
    <3> QED
      BY <3>1, FieldOrder
  <2>2. (CHOOSE j \in 1..10 : Fields[j] = Fields[i]) = i
    BY <2>1
  <2>3. Seen(c, i) = snap[c][i]
    BY <1>1 DEF Seen
  <2> QED
    BY <2>2, <2>3, FieldOrder DEF Shown
<1> QED
  BY <1>1, <1>2

(* Everything a complete snapshot promises.                                *)
LEMMA ShownRight ==
  ASSUME MetricsInv
  PROVE  PeakShown /\ OutcomesShown /\ LatencyShown /\ GaugesInRange
<1>1. ASSUME NEW c \in Finished
      PROVE  /\ Shown(c, "active_connections_") <=
                  Shown(c, "peak_connections_") + pending[c].openers
             /\ Shown(c, "total_requests_") <=
                  Shown(c, "successful_requests_") + Shown(c, "client_errors_")
                    + Shown(c, "server_errors_") + pending[c].requests
             /\ Shown(c, "latency_count_") <=
                  Shown(c, "successful_requests_") + Shown(c, "client_errors_")
             /\ Shown(c, "active_workers_") <= Workers /\ Shown(c, "queue_size_") <= Capacity
  <2>1. Snapshot(c) /\ Len(snap[c]) = 10
    BY ShownIsSeen
  <2>2. /\ Shown(c, "latency_count_") = Seen(c, 1) /\ Shown(c, "active_workers_") = Seen(c, 2)
        /\ Shown(c, "total_requests_") = Seen(c, 3)
        /\ Shown(c, "successful_requests_") = Seen(c, 4)
        /\ Shown(c, "client_errors_") = Seen(c, 5) /\ Shown(c, "server_errors_") = Seen(c, 6)
        /\ Shown(c, "active_connections_") = Seen(c, 7)
        /\ Shown(c, "peak_connections_") = Seen(c, 8) /\ Shown(c, "queue_size_") = Seen(c, 10)
    BY ShownIsSeen, FieldOrder
  <2> QED
    BY <2>1, <2>2 DEF Snapshot
<1> QED
  BY <1>1 DEF PeakShown, OutcomesShown, LatencyShown, GaugesInRange

(* A snapshot shows more connections than their peak only by those that    *)
(* were inside connection_opened() when it read them: PeakShown.           *)
THEOREM SnapshotsShowPeak == Spec => []PeakShown
  BY ShownRight, MetricsInvariant, PTL

(* Every request of a snapshot has its outcome in it, or had none when the *)
(* total was read: OutcomesShown.                                          *)
THEOREM SnapshotsShowOutcomes == Spec => []OutcomesShown
  BY ShownRight, MetricsInvariant, PTL

(* The average latency of a snapshot is taken over responses whose outcome *)
(* it shows: LatencyShown.                                                 *)
THEOREM SnapshotsShowLatency == Spec => []LatencyShown
  BY ShownRight, MetricsInvariant, PTL

(* The gauges of a snapshot are never beyond what they count:              *)
(* GaugesInRange.                                                          *)
THEOREM SnapshotsShowGauges == Spec => []GaugesInRange
  BY ShownRight, MetricsInvariant, PTL

=============================================================================
