------------------------- MODULE ThreadPoolRefinement -------------------------
(***************************************************************************)
(* The pool of threads implements TaskPool, whatever its size: every step  *)
(* of ThreadPool is a step of TaskPool under the mapping TP, or changes    *)
(* nothing that TaskPool has.  The mapping is a step further from the code *)
(* than an invariant: that a pop is TaskPool's Start needs that a worker   *)
(* which pops holds no task, and that the end of a task is its End needs   *)
(* that no two workers hold the same one.  This is the safety part of      *)
(* ImplementsTaskPool; its fairness is left to the model checker.          *)
(***************************************************************************)
EXTENDS ThreadPoolProofs

(* The mapping's images.                                                   *)
Ended == {"refused", "threw", "returned", "caught"}
Executing == {task[w] : w \in Busy}
Settled == {x \in Items : status[x] \in Ended}
Phase ==
  IF pc[Owner] \in {"closed", "destroyed"} THEN "closed"
  ELSE IF stopped_ THEN "closing" ELSE "open"

(* A step of the pool that TaskPool does not see.                          *)
Silent ==
  /\ UNCHANGED queue_
  /\ Executing' = Executing
  /\ Settled' = Settled
  /\ Phase' = Phase

LEMMA SilentStutters == Silent => UNCHANGED TP!poolVars
  BY DEF Silent, TP!poolVars, Executing, Settled, Phase, Ended

(* The steps of TaskPool.                                                  *)
LEMMA StepsOfTaskPool ==
  /\ \A x \in Items : TP!Accept(x) \/ TP!Refuse(x) \/ TP!SubmitThrows(x) \/ TP!End(x)
                        => TP!PoolNext
  /\ TP!Start \/ TP!Close \/ TP!Closed => TP!PoolNext
  BY DEF TP!PoolNext

(* A task that submit() has not settled yet is new to TaskPool.            *)
LEMMA UnsettledIsFresh ==
  ASSUME PoolInv, NEW x \in Items, status[x] \in {"new", "submitting"}
  PROVE  TP!Fresh(x)
<1>1. x \notin Executing
  BY DEF Executing, Busy, PoolInv, Held
<1>2. x \notin Settled
  BY DEF Settled, Ended
<1>3. \A i \in 1..Len(queue_) : queue_[i] # x
  BY DEF PoolInv, Queued
<1> QED
  BY <1>1, <1>2, <1>3 DEF TP!Fresh, Executing, Settled, Ended

(* A step of a client changes no worker's task.                            *)
LEMMA ClientsDoNotExecute ==
  ASSUME PoolInv, NEW c \in Clients, NEW p, NEW x,
         pc' = [pc EXCEPT ![c] = p], task' = [task EXCEPT ![c] = x]
  PROVE  Executing' = Executing
<1>1. \A w \in Workers : pc'[w] = pc[w] /\ task'[w] = task[w]
  BY ThreadSets DEF PoolInv, PoolTypes
<1> QED
  BY <1>1 DEF Executing, Busy

(* submit(): the step in which push() decides is the one TaskPool sees, or *)
(* the test of stopped_ when it is set.                                    *)
LEMMA ClientRefines ==
  ASSUME PoolInv, NEW c \in Submitters, ClientStep(c)
  PROVE  TP!PoolNext \/ Silent
<1>0. /\ c \in Clients /\ c \in Threads /\ Owner \in Threads
      /\ pc \in [Threads -> WorkerPCs \cup ClientPCs]
      /\ task \in [Threads -> Items \cup {NoTask}]
      /\ status \in [Items -> Statuses]
  BY ThreadSets DEF PoolInv, PoolTypes
<1>1. ASSUME NEW x \in Items, SubmitStopped(c, x) PROVE TP!Refuse(x)
  <2>1. TP!Fresh(x)
    BY <1>1, UnsettledIsFresh DEF SubmitStopped, CanSubmit
  <2>2. Phase # "open"
    BY <1>1 DEF SubmitStopped, Phase
  <2>3. Settled' = Settled \cup {x}
    BY <1>0, <1>1 DEF SubmitStopped, Becomes, Settled, Ended
  <2>4. UNCHANGED <<queue_, pc, task, stopped_>>
    BY <1>1 DEF SubmitStopped, qvars
  <2> QED
    BY <2>1, <2>2, <2>3, <2>4 DEF TP!Refuse, Settled, Ended, Phase, Busy
<1>2. ASSUME NEW x \in Items, SubmitOpen(c, x) PROVE Silent
  <2>1. Settled' = Settled
    BY <1>0, <1>2 DEF SubmitOpen, CanSubmit, Becomes, Settled, Ended
  <2>2. Executing' = Executing
    BY <1>0, <1>2, ClientsDoNotExecute DEF SubmitOpen, Hold, Goto
  <2>3. Phase' = Phase
    BY <1>0, <1>2 DEF SubmitOpen, CanSubmit, Goto, Phase, PoolInv, Closing
  <2> QED
    BY <1>2, <2>1, <2>2, <2>3 DEF Silent, SubmitOpen, qvars
<1>3. ASSUME SubmitLock(c) PROVE Silent
  BY <1>3 DEF SubmitLock, Lock, pvars, Silent, Executing, Busy, Settled, Phase
<1>4. ASSUME NEW s \in {"queued", "refused", "threw"}, SubmitReturns(c, s)
      PROVE  /\ task[c] \in Items /\ TP!Fresh(task[c])
             /\ Executing' = Executing
             /\ Phase = "open" /\ Phase' = "open"
             /\ Settled' = IF s = "queued" THEN Settled ELSE Settled \cup {task[c]}
  <2>1. task[c] \in Items /\ status[task[c]] = "submitting"
    BY <1>0, <1>4 DEF SubmitReturns, PoolInv, Held
  <2>2. TP!Fresh(task[c])
    BY <2>1, UnsettledIsFresh
  <2>3. Executing' = Executing
    BY <1>0, <1>4, ClientsDoNotExecute DEF SubmitReturns, Hold, Goto
  <2>4. ~stopped_ /\ pc[Owner] \notin {"closed", "destroyed"}
    BY <1>0, <1>4 DEF SubmitReturns, PoolInv, Closing
  <2>5. Phase = "open" /\ Phase' = "open"
    BY <1>0, <1>4, <2>4 DEF SubmitReturns, Goto, Phase
  <2>6. status' = [status EXCEPT ![task[c]] = s]
    BY <1>4 DEF SubmitReturns, Becomes
  <2>7. s = "queued" => Settled' = Settled
    BY <1>0, <2>1, <2>6 DEF Settled, Ended
  <2>8. s # "queued" => Settled' = Settled \cup {task[c]}
    BY <1>0, <2>1, <2>6 DEF Settled, Ended
  <2> QED
    BY <2>1, <2>2, <2>3, <2>5, <2>7, <2>8
<1>5. ASSUME SubmitPushed(c) PROVE \E x \in Items : TP!Accept(x)
  <2>1. PushItem(c, task[c]) /\ SubmitReturns(c, "queued")
    BY <1>5 DEF SubmitPushed
  <2>2. PICK x \in Items : x = task[c]
    BY <1>4, <2>1
  <2>3. TP!Accept(x)
    BY <1>4, <2>1, <2>2 DEF PushItem, TP!Accept, Executing, Settled, Ended, Phase
  <2> QED
    BY <2>3
<1>6. ASSUME SubmitFull(c) PROVE \E x \in Items : TP!Refuse(x)
  <2>1. PushFull(c) /\ SubmitReturns(c, "refused")
    BY <1>6 DEF SubmitFull
  <2>2. PICK x \in Items : x = task[c]
    BY <1>4, <2>1
  <2>3. TP!Refuse(x)
    BY <1>4, <2>1, <2>2 DEF PushFull, TP!Refuse, Executing, Settled, Ended, Phase
  <2> QED
    BY <2>3
<1>7. ASSUME SubmitThrown(c) PROVE \E x \in Items : TP!SubmitThrows(x)
  <2>1. PushThrows(c) /\ SubmitReturns(c, "threw")
    BY <1>7 DEF SubmitThrown
  <2>2. PICK x \in Items : x = task[c]
    BY <1>4, <2>1
  <2>3. TP!SubmitThrows(x)
    BY <1>4, <2>1, <2>2 DEF PushThrows, TP!SubmitThrows, Executing, Settled, Ended, Phase
  <2> QED
    BY <2>3
<1>8. ASSUME SubmitterDone(c) PROVE Silent
  <2>1. Executing' = Executing
    BY <1>0, <1>8, ThreadSets DEF SubmitterDone, Goto, Executing, Busy
  <2>2. Phase' = Phase
    BY <1>0, <1>8 DEF SubmitterDone, Goto, Phase
  <2> QED
    BY <1>8, <2>1, <2>2 DEF SubmitterDone, qvars, Silent, Settled
<1> QED
  BY <1>1, <1>2, <1>3, <1>5, <1>6, <1>7, <1>8, StepsOfTaskPool DEF ClientStep

(* A worker that holds no task leaves room for one more.                   *)
LEMMA RoomForOne ==
  ASSUME NEW w \in Workers, w \notin Busy
  PROVE  Cardinality(Executing) < Cardinality(Workers)
<1>1. IsFiniteSet(Workers) /\ Cardinality(Workers) \in Nat
  BY ThreadSets, QueueAssumption, FS_Subset, FS_CardinalityType
<1>2. /\ IsFiniteSet(Workers \ {w})
      /\ Cardinality(Workers \ {w}) = Cardinality(Workers) - 1
  BY <1>1, FS_RemoveElement
<1>3. Busy \subseteq Workers \ {w}
  BY DEF Busy
<1>4. /\ IsFiniteSet(Busy) /\ Cardinality(Busy) \in Nat
      /\ Cardinality(Busy) <= Cardinality(Workers) - 1
  BY <1>2, <1>3, FS_Subset, FS_CardinalityType
<1> DEFINE f == [v \in Busy |-> task[v]]
<1>5. f \in Surjection(Busy, Executing)
  BY DEF Surjection, Executing
<1>6. IsFiniteSet(Executing) /\ Cardinality(Executing) <= Cardinality(Busy)
  <2> HIDE DEF f
  <2> QED
    BY <1>4, <1>5, FS_Surjection
<1>7. Cardinality(Executing) \in Nat
  BY <1>6, FS_CardinalityType
<1> QED
  BY <1>1, <1>4, <1>6, <1>7

(* worker_loop(): a pop is a Start, the end of a task its End.             *)
LEMMA WorkerRefines ==
  ASSUME PoolInv, NEW w \in Workers, WorkerStep(w)
  PROVE  TP!PoolNext \/ Silent
<1>0. /\ w \in Threads /\ Owner \in Threads /\ w # Owner
      /\ pc \in [Threads -> WorkerPCs \cup ClientPCs]
      /\ task \in [Threads -> Items \cup {NoTask}]
      /\ status \in [Items -> Statuses]
      /\ Workers \subseteq Threads
  BY ThreadSets DEF PoolInv, PoolTypes
<1>1. ASSUME WorkerLock(w) \/ WorkerWaits(w) \/ WorkerWakes(w) \/ WorkerSpurious(w) PROVE Silent
  BY <1>1
     DEF WorkerLock, Lock, WorkerWaits, PopTest, PopSleep, WorkerWakes, PopWake,
         WorkerSpurious, PopSpurious, pvars, Silent, Executing, Busy, Settled, Phase
<1>2. ASSUME WorkerPops(w) PROVE TP!Start
  <2> DEFINE x == Head(queue_)
  <2>1. queue_ # <<>> /\ queue_' = Tail(queue_) /\ at[w] = "test"
    BY <1>2 DEF WorkerPops, PopItem, TakeFront
  <2>2. x \in Items /\ status[x] = "queued"
    <3>1. queue_ \in Seq(Items)
      BY DEF PoolInv, QueueInv, QueueTypeOK
    <3>2. 1 \in 1..Len(queue_) /\ queue_[1] = x
      BY <2>1, <3>1
    <3> QED
      BY <2>1, <3>1, <3>2 DEF PoolInv, Queued
  <2>3. pc[w] = "loop" /\ w \notin Busy
    BY <2>1 DEF PoolInv, Placement, Busy
  <2>4. TP!Cardinality(Executing) < Cardinality(Workers)
    <3>1. TP!Cardinality(Executing) = Cardinality(Executing)
      BY DEF TP!Cardinality, Cardinality
    <3> QED
      BY <2>3, <3>1, RoomForOne
  <2>5. Executing' = Executing \cup {x}
    <3>1. Busy' = Busy \cup {w}
      BY <1>0, <1>2 DEF WorkerPops, Goto, Busy
    <3>2. task'[w] = x /\ \A v \in Workers \ {w} : task'[v] = task[v]
      BY <1>0, <1>2 DEF WorkerPops, Hold
    <3>3. Busy \subseteq Workers \ {w}
      BY <2>3 DEF Busy
    <3> QED
      BY <3>1, <3>2, <3>3 DEF Executing
  <2>6. Settled' = Settled
    BY <1>0, <1>2, <2>2 DEF WorkerPops, Becomes, Settled, Ended
  <2>7. Phase' = Phase
    BY <1>0, <1>2 DEF WorkerPops, Goto, Phase
  <2> QED
    BY <2>1, <2>4, <2>5, <2>6, <2>7 DEF TP!Start, Executing, Settled, Ended, Phase
<1>3. ASSUME WorkerExits(w) PROVE Silent
  <2>1. pc[w] = "loop" /\ UNCHANGED <<queue_, task, status, stopped_>>
    BY <1>3 DEF WorkerExits, PopNull, PoolInv, Placement
  <2>2. Busy' = Busy /\ Phase' = Phase
    BY <1>0, <1>3, <2>1 DEF WorkerExits, Goto, Busy, Phase
  <2> QED
    BY <2>1, <2>2 DEF Silent, Executing, Settled
<1>4. ASSUME WorkerActive(w) \/ WorkerIdle(w) PROVE Silent
  <2>1. UNCHANGED <<queue_, task, status, stopped_>>
    BY <1>4 DEF WorkerActive, WorkerIdle, qvars
  <2>2. Busy' = Busy /\ Phase' = Phase
    BY <1>0, <1>4, <2>1 DEF WorkerActive, WorkerIdle, Goto, Busy, Phase
  <2> QED
    BY <2>1, <2>2 DEF Silent, Executing, Settled
<1>5. ASSUME NEW how \in {"returned", "caught"}, TaskEnds(w, how)
      PROVE  \E x \in Items : TP!End(x)
  <2>1. task[w] \in Items /\ w \in Busy /\ task[w] \in Executing
    BY <1>5 DEF TaskEnds, PoolInv, Held, Busy, Executing
  <2>2. Executing' = Executing \ {task[w]}
    <3>1. Busy' = Busy \ {w}
      BY <1>0, <1>5 DEF TaskEnds, Goto, Busy
    <3>2. \A v \in Busy \ {w} : task'[v] = task[v]
      BY <1>0, <1>5 DEF TaskEnds, Hold, Busy
    <3>3. \A v \in Busy : task[v] = task[w] => v = w
      BY <1>0, <2>1, PoolAssumption DEF PoolInv, Held, Busy
    <3> QED
      BY <2>1, <3>1, <3>2, <3>3 DEF Executing
  <2>3. Settled' = Settled \cup {task[w]}
    BY <1>0, <1>5, <2>1 DEF TaskEnds, Becomes, Settled, Ended
  <2>4. UNCHANGED queue_ /\ Phase' = Phase
    BY <1>0, <1>5 DEF TaskEnds, Goto, Phase, qvars
  <2>5. PICK x \in Items : x = task[w]
    BY <2>1
  <2>6. TP!End(x)
    BY <2>1, <2>2, <2>3, <2>4, <2>5 DEF TP!End, Executing, Settled, Ended, Phase
  <2> QED
    BY <2>6
<1> QED
  BY <1>1, <1>2, <1>3, <1>4, <1>5, StepsOfTaskPool DEF WorkerStep

(* shutdown(): its call is Close; that the workers are joined is Closed,   *)
(* because a worker exits only from an empty queue and holds no task.      *)
LEMMA OwnerRefines ==
  ASSUME PoolInv, OwnerStep
  PROVE  TP!PoolNext \/ Silent
<1>0. /\ Owner \in Threads /\ Owner \notin Workers /\ Workers \subseteq Threads
      /\ pc \in [Threads -> WorkerPCs \cup ClientPCs]
      /\ stopped_ \in BOOLEAN
  BY ThreadSets DEF PoolInv, PoolTypes
<1>1. ASSUME NEW w \in Workers, Spawn(w) PROVE Silent
  <2>1. Busy' = Busy /\ Phase' = Phase
    BY <1>0, <1>1 DEF Spawn, Goto, Busy, Phase
  <2> QED
    BY <1>1, <2>1 DEF Spawn, qvars, Silent, Executing, Settled
<1>2. ASSUME Constructed \/ SpawnFails \/ Destroy PROVE Silent
  <2>1. Busy' = Busy /\ Phase' = Phase
    BY <1>0, <1>2 DEF Constructed, SpawnFails, Destroy, Goto, Busy, Phase
  <2> QED
    BY <1>2, <2>1 DEF Constructed, SpawnFails, Destroy, qvars, Silent, Executing, Settled
<1>3. ASSUME ShutdownLock \/ ShutdownSets PROVE Silent
  BY <1>3
     DEF ShutdownLock, Lock, ShutdownSets, ShutSet, pvars, Silent, Executing, Busy, Settled, Phase
<1>4. ASSUME ShutdownNotifies PROVE Silent
  <2>1. UNCHANGED <<queue_, task, status, stopped_>> /\ pc[Owner] = "closing"
    BY <1>4, ThreadSets DEF ShutdownNotifies, ShutNotify, PoolInv, Placement
  <2>2. Busy' = Busy /\ Phase' = Phase
    BY <1>0, <1>4, <2>1 DEF ShutdownNotifies, Goto, Busy, Phase
  <2> QED
    BY <2>1, <2>2 DEF Silent, Executing, Settled
<1>5. ASSUME ShutdownBegins PROVE TP!Close
  <2>1. UNCHANGED <<queue_, task, status>> /\ Busy' = Busy
    BY <1>0, <1>5 DEF ShutdownBegins, Goto, Busy, qvars
  <2>2. Phase = "open" /\ Phase' = "closing"
    BY <1>0, <1>5 DEF ShutdownBegins, Goto, Phase
  <2> QED
    BY <2>1, <2>2 DEF TP!Close, Phase
<1>6. ASSUME ShutdownJoined PROVE TP!Closed
  <2>1. UNCHANGED <<queue_, task, status>> /\ Busy' = Busy
    BY <1>0, <1>6 DEF ShutdownJoined, Goto, Busy, qvars
  <2>2. queue_ = <<>> /\ Executing = {}
    BY <1>6, PoolAssumption DEF ShutdownJoined, PoolInv, Closing, Executing, Busy
  <2>3. Phase = "closing" /\ Phase' = "closed"
    BY <1>0, <1>6 DEF ShutdownJoined, Goto, Phase, PoolInv, Closing
  <2> QED
    BY <2>1, <2>2, <2>3 DEF TP!Closed, Executing, Phase
<1> QED
  BY <1>1, <1>2, <1>3, <1>4, <1>5, <1>6, StepsOfTaskPool DEF OwnerStep

-----------------------------------------------------------------------------
(* The pool of threads is a TaskPool, for any workers, submitters, tasks   *)
(* and capacity: tasks start in the order submit() accepted them, at most  *)
(* Capacity wait, each accepted one is started once and settled once,      *)
(* submit() refuses only a full or stopped pool, and shutdown() returns    *)
(* only when no task waits or runs.                                        *)
THEOREM PoolRefinesTaskPool == Spec => TP!PoolSpec
<1>1. Init => TP!PoolInit
  BY ThreadSets DEF Init, QueueInit, TP!PoolInit, Busy
<1>2. PoolInv /\ [Next]_vars => [TP!PoolNext]_(TP!poolVars)
  <2> SUFFICES ASSUME PoolInv, [Next]_vars
               PROVE  TP!PoolNext \/ UNCHANGED TP!poolVars
    OBVIOUS
  <2>1. CASE Next
    <3>1. CASE Over
      BY <3>1 DEF Over, vars, TP!poolVars, Busy
    <3>2. CASE ~Over
      BY <2>1, <3>2, ClientRefines, WorkerRefines, OwnerRefines, SilentStutters DEF Next
    <3> QED
      BY <3>1, <3>2
  <2>2. CASE UNCHANGED vars
    BY <2>2 DEF vars, TP!poolVars, Busy
  <2> QED
    BY <2>1, <2>2
<1> QED
  BY <1>1, <1>2, PoolInvariant, PTL DEF Spec, TP!PoolSpec

=============================================================================
