--------------------------- MODULE ThreadPoolProofs ---------------------------
(***************************************************************************)
(* Proofs about ThreadPool, for any number of workers and submitters, any  *)
(* tasks and any capacity.  Every step of the pool is a step of the queue  *)
(* or leaves the queue alone, so what BlockingQueueProofs proves of the    *)
(* queue holds in the pool; on top of it, no task is lost or run twice,    *)
(* and shutdown() returns only after the queue has been drained.           *)
(***************************************************************************)
EXTENDS ThreadPool, BlockingQueueProofs

PoolTypes ==
  /\ stopped_ \in BOOLEAN
  /\ pc \in [Threads -> WorkerPCs \cup ClientPCs]
  /\ \A w \in Workers : pc[w] \in WorkerPCs
  /\ \A c \in Clients : pc[c] \in ClientPCs
  /\ \A c \in Clients \ {Owner} : pc[c] \in {"idle", "submit", "done"}
  /\ task \in [Threads -> Items \cup {NoTask}]
  /\ status \in [Items -> Statuses]

(* Which operation of the queue a thread is in, by where it is in the      *)
(* pool's code.                                                            *)
Placement ==
  /\ \A w \in Workers : /\ at[w] \in {"idle", "test", "sleep", "wait"}
                        /\ at[w] # "idle" => pc[w] = "loop"
  /\ \A c \in Clients : /\ at[c] \in {"idle", "push", "shut", "notify"}
                        /\ at[c] = "push" => pc[c] = "submit"
                        /\ at[c] \in {"shut", "notify"} => c = Owner /\ pc[c] = "closing"

(* What shutdown() has established: nobody submits any more, and a worker  *)
(* leaves its loop only when the queue is empty for good.                  *)
Closing ==
  /\ stopped_ <=> pc[Owner] \in {"closing", "joining", "closed", "destroyed"}
  /\ shutdown_ => stopped_
  /\ stopped_ => \A c \in Clients : pc[c] # "submit"
  /\ stopped_ => \A c \in Submitters \ {Owner} : pc[c] = "done"
  /\ \A w \in Workers : pc[w] = "exited" => shutdown_ /\ queue_ = <<>>
  /\ pc[Owner] \in {"closed", "destroyed"} => \A w \in Workers : pc[w] = "exited"

(* A task is in the hands of one thread, the one its status says.          *)
Held ==
  /\ \A w \in Workers :
       IF pc[w] \in {"got", "run"} THEN task[w] \in Items /\ status[task[w]] = "running"
                                   ELSE task[w] = NoTask
  /\ \A c \in Clients :
       IF pc[c] = "submit" THEN task[c] \in Items /\ status[task[c]] = "submitting"
                           ELSE task[c] = NoTask
  /\ \A x \in Items : status[x] = "running" => \E w \in Workers : task[w] = x
  /\ \A x \in Items : status[x] = "submitting" => \E c \in Clients : task[c] = x
  /\ \A t, u \in Threads : task[t] # NoTask /\ task[t] = task[u] => t = u

(* The queue holds the queued tasks, each of them once.                    *)
Queued ==
  /\ \A i \in 1..Len(queue_) : status[queue_[i]] = "queued"
  /\ \A i, j \in 1..Len(queue_) : queue_[i] = queue_[j] => i = j
  /\ \A x \in Items : status[x] = "queued" => \E i \in 1..Len(queue_) : queue_[i] = x

PoolInv ==
  /\ QueueInv
  /\ PoolTypes
  /\ Placement
  /\ Closing
  /\ Held
  /\ Queued

-----------------------------------------------------------------------------
(* The threads of the pool, its clients and its workers.                   *)
LEMMA ThreadSets ==
  /\ Workers \subseteq Threads /\ Clients \subseteq Threads /\ Owner \in Clients
  /\ Submitters \subseteq Clients /\ Workers \cap Clients = {}
  BY PoolAssumption DEF Clients

(* Every step of the pool is one of the queue, or none.                    *)
LEMMA PoolStepIsQueueStep ==
  ASSUME PoolInv, Next
  PROVE  (\E t \in Threads : QueueStep(t)) \/ UNCHANGED qvars
<1>1. CASE \E c \in Submitters : ClientStep(c)
  <2> PICK c \in Submitters : ClientStep(c)
    BY <1>1
  <2>1. c \in Threads /\ c \in Clients
    BY ThreadSets
  <2>2. CASE \E x \in Items : SubmitStopped(c, x) \/ SubmitOpen(c, x)
    BY <2>2 DEF SubmitStopped, SubmitOpen
  <2>3. CASE SubmitLock(c)
    BY <2>1, <2>3 DEF SubmitLock, QueueStep
  <2>4. CASE SubmitPushed(c)
    <3>1. task[c] \in Items
      BY <2>1, <2>4 DEF SubmitPushed, SubmitReturns, PoolInv, Held
    <3> QED
      BY <2>1, <2>4, <3>1 DEF SubmitPushed, QueueStep
  <2>5. CASE SubmitFull(c) \/ SubmitThrown(c)
    BY <2>1, <2>5 DEF SubmitFull, SubmitThrown, QueueStep
  <2>6. CASE SubmitterDone(c)
    BY <2>6 DEF SubmitterDone
  <2> QED
    BY <2>2, <2>3, <2>4, <2>5, <2>6 DEF ClientStep
<1>2. CASE \E w \in Workers : WorkerStep(w)
  <2> PICK w \in Workers : WorkerStep(w)
    BY <1>2
  <2>1. w \in Threads
    BY ThreadSets
  <2>2. CASE WorkerActive(w) \/ WorkerIdle(w) \/ \E how \in {"returned", "caught"} : TaskEnds(w, how)
    BY <2>2 DEF WorkerActive, WorkerIdle, TaskEnds
  <2>3. CASE WorkerLock(w) \/ WorkerWaits(w) \/ WorkerWakes(w) \/ WorkerSpurious(w)
    BY <2>1, <2>3 DEF WorkerLock, WorkerWaits, WorkerWakes, WorkerSpurious, QueueStep
  <2>4. CASE WorkerPops(w) \/ WorkerExits(w)
    BY <2>1, <2>4 DEF WorkerPops, WorkerExits, QueueStep
  <2> QED
    BY <2>2, <2>3, <2>4 DEF WorkerStep
<1>3. CASE OwnerStep
  <2>1. Owner \in Threads
    BY ThreadSets
  <2>2. CASE (\E w \in Workers : Spawn(w)) \/ Constructed \/ SpawnFails \/ ShutdownBegins
             \/ ShutdownJoined \/ Destroy
    BY <2>2 DEF Spawn, Constructed, SpawnFails, ShutdownBegins, ShutdownJoined, Destroy
  <2>3. CASE ShutdownLock \/ ShutdownSets \/ ShutdownNotifies
    BY <2>1, <2>3 DEF ShutdownLock, ShutdownSets, ShutdownNotifies, QueueStep
  <2> QED
    BY <1>3, <2>2, <2>3 DEF OwnerStep
<1>4. CASE Over
  BY <1>4 DEF Over, vars, qvars
<1> QED
  BY <1>1, <1>2, <1>3, <1>4 DEF Next

(* So the inductive invariant of the queue is kept by the pool.            *)
LEMMA PoolKeepsQueueInv ==
  ASSUME PoolInv, [Next]_vars
  PROVE  QueueInv'
<1>1. CASE UNCHANGED qvars
  BY <1>1 DEF PoolInv, QueueInv, QueueTypeOK, MutualExclusion, WaitersWait,
              SleepersSawNothing, qvars
<1>2. CASE \E t \in Threads : QueueStep(t)
  BY <1>2, QueueInvStep DEF PoolInv
<1> QED
  BY <1>1, <1>2, PoolStepIsQueueStep DEF vars, qvars

-----------------------------------------------------------------------------
(* The parts of the invariant that are about the pool itself.              *)
PoolPart == PoolTypes /\ Placement /\ Closing /\ Held /\ Queued

(* submit() up to its call of push(): a new task is taken by its caller,   *)
(* unless the pool is stopped.                                             *)
LEMMA SubmitEntryInv ==
  ASSUME PoolInv, NEW c \in Submitters, NEW x \in Items,
         SubmitStopped(c, x) \/ SubmitOpen(c, x)
  PROVE  PoolPart'
<1> USE ThreadSets DEF PoolInv, qvars
<1>1. CASE SubmitStopped(c, x)
  <2> USE <1>1 DEF SubmitStopped, CanSubmit, Becomes
  <2>1. PoolTypes'
    BY DEF PoolTypes, Statuses
  <2>2. Placement' /\ Closing'
    BY DEF Placement, Closing
  <2>3. Held'
    BY DEF PoolTypes, Held
  <2>4. Queued'
    BY DEF PoolTypes, Queued, QueueInv, QueueTypeOK
  <2> QED
    BY <2>1, <2>2, <2>3, <2>4 DEF PoolPart
<1>2. CASE SubmitOpen(c, x)
  <2> USE <1>2 DEF SubmitOpen, CanSubmit, Becomes, Hold, Goto
  <2>1. PoolTypes'
    BY DEF PoolTypes, Statuses, ClientPCs
  <2>2. Placement' /\ Closing'
    BY DEF PoolTypes, Placement, Closing
  <2>3. Held'
    BY PoolAssumption DEF PoolTypes, Held
  <2>4. Queued'
    BY DEF PoolTypes, Queued, QueueInv, QueueTypeOK
  <2> QED
    BY <2>1, <2>2, <2>3, <2>4 DEF PoolPart
<1> QED
  BY <1>1, <1>2

(* push() returns to submit(): the task is queued once, or nowhere.        *)
LEMMA SubmitExitInv ==
  ASSUME PoolInv, NEW c \in Submitters,
         SubmitPushed(c) \/ SubmitFull(c) \/ SubmitThrown(c)
  PROVE  PoolPart'
<1> USE ThreadSets DEF PoolInv
<1>1. CASE SubmitPushed(c)
  <2> USE <1>1 DEF SubmitPushed, SubmitReturns, PushItem, Unlock, Becomes, Hold, Goto
  <2>0. /\ task[c] \in Items /\ status[task[c]] = "submitting" /\ pc[c] = "submit"
        /\ ~stopped_
    BY DEF Held, Closing
  <2>1. PoolTypes'
    BY <2>0 DEF PoolTypes, Statuses, ClientPCs
  <2>2. Placement' /\ Closing'
    BY <2>0 DEF PoolTypes, Placement, Closing, QueueInv, QueueTypeOK
  <2>3. Held'
    BY <2>0, PoolAssumption DEF PoolTypes, Held
  <2>4. Queued'
    <3>1. /\ Len(queue_) \in Nat /\ Len(queue_') = Len(queue_) + 1
          /\ \A i \in 1..Len(queue_) : queue_'[i] = queue_[i] /\ queue_[i] \in Items
          /\ queue_'[Len(queue_) + 1] = task[c]
      BY <2>0 DEF QueueInv, QueueTypeOK
    <3>2. \A i \in 1..Len(queue_) : status[queue_[i]] = "queued" /\ queue_[i] # task[c]
      BY <2>0 DEF Queued
    <3>3. \A i \in 1..Len(queue_') : status'[queue_'[i]] = "queued"
      BY <2>0, <3>1, <3>2 DEF PoolTypes
    <3>4. \A i, j \in 1..Len(queue_') : queue_'[i] = queue_'[j] => i = j
      BY <3>1, <3>2 DEF Queued
    <3>5. \A y \in Items : status'[y] = "queued" => \E i \in 1..Len(queue_') : queue_'[i] = y
      <4> SUFFICES ASSUME NEW y \in Items, status'[y] = "queued"
                   PROVE  \E i \in 1..Len(queue_') : queue_'[i] = y
        OBVIOUS
      <4>1. CASE y = task[c]
        BY <3>1, <4>1
      <4>2. CASE y # task[c]
        <5>1. PICK i \in 1..Len(queue_) : queue_[i] = y
          BY <4>2, <2>0 DEF PoolTypes, Queued
        <5> QED
          BY <5>1, <3>1
      <4> QED
        BY <4>1, <4>2
    <3> QED
      BY <3>3, <3>4, <3>5 DEF Queued
  <2> QED
    BY <2>1, <2>2, <2>3, <2>4 DEF PoolPart
<1>2. CASE SubmitFull(c) \/ SubmitThrown(c)
  <2> USE <1>2 DEF SubmitFull, SubmitThrown, SubmitReturns, PushFull, PushThrows, Unlock,
                   Becomes, Hold, Goto
  <2>0. /\ task[c] \in Items /\ status[task[c]] = "submitting" /\ pc[c] = "submit"
        /\ ~stopped_
    BY DEF Held, Closing
  <2>1. PoolTypes'
    BY <2>0 DEF PoolTypes, Statuses, ClientPCs
  <2>2. Placement' /\ Closing'
    BY <2>0 DEF PoolTypes, Placement, Closing, QueueInv, QueueTypeOK
  <2>3. Held'
    BY <2>0, PoolAssumption DEF PoolTypes, Held
  <2>4. Queued'
    <3>1. queue_' = queue_ /\ \A i \in 1..Len(queue_) : queue_[i] \in Items
      BY DEF QueueInv, QueueTypeOK
    <3>2. \A x \in Items : status[x] = "queued" <=> status'[x] = "queued"
      BY <2>0 DEF PoolTypes
    <3>3. \A i \in 1..Len(queue_) : status'[queue_[i]] = "queued"
      BY <3>1, <3>2, Zenon DEF Queued
    <3>4. \A x \in Items : status'[x] = "queued" => \E i \in 1..Len(queue_) : queue_[i] = x
      BY <3>2, Zenon DEF Queued
    <3>5. \A i, j \in 1..Len(queue_) : queue_[i] = queue_[j] => i = j
      BY Zenon DEF Queued
    <3> HIDE <1>2
    <3> QED
      BY <3>1, <3>3, <3>4, <3>5, Zenon DEF Queued
  <2> QED
    BY <2>1, <2>2, <2>3, <2>4 DEF PoolPart
<1> QED
  BY <1>1, <1>2

(* The steps that move a thread inside an operation of the queue only.     *)
LEMMA InsideQueueInv ==
  ASSUME PoolInv,
         \/ \E c \in Submitters : SubmitLock(c)
         \/ \E w \in Workers : \/ WorkerLock(w) \/ WorkerWaits(w) \/ WorkerWakes(w)
                               \/ WorkerSpurious(w)
         \/ ShutdownLock \/ ShutdownSets
  PROVE  PoolPart'
<1> USE ThreadSets DEF PoolInv, pvars
<1>1. CASE \E c \in Submitters : SubmitLock(c)
  BY <1>1 DEF SubmitLock, Lock, PoolPart, PoolTypes, Placement, Closing, Held, Queued,
              QueueInv, QueueTypeOK
<1>2. ASSUME NEW w \in Workers,
             WorkerLock(w) \/ WorkerWaits(w) \/ WorkerWakes(w) \/ WorkerSpurious(w)
      PROVE  PoolPart'
  BY <1>2 DEF WorkerLock, WorkerWaits, WorkerWakes, WorkerSpurious, Lock, PopTest, PopSleep,
              PopWake, PopSpurious, Unlock,
              PoolPart, PoolTypes, Placement, Closing, Held, Queued, QueueInv, QueueTypeOK
<1>3. CASE ShutdownLock
  BY <1>3 DEF ShutdownLock, Lock, PoolPart, PoolTypes, Placement, Closing, Held, Queued,
              QueueInv, QueueTypeOK
<1>4. CASE ShutdownSets
  BY <1>4 DEF ShutdownSets, ShutSet, Unlock, PoolPart, PoolTypes, Placement, Closing, Held,
              Queued, QueueInv, QueueTypeOK
<1> QED
  BY <1>1, <1>2, <1>3, <1>4

(* A worker takes the oldest task, which leaves the queue.                 *)
LEMMA WorkerPopsInv ==
  ASSUME PoolInv, NEW w \in Workers, WorkerPops(w)
  PROVE  PoolPart'
<1> USE ThreadSets DEF PoolInv, WorkerPops, PopItem, TakeFront, Unlock, Becomes, Hold, Goto
<1> DEFINE x == Head(queue_)
<1>1. /\ Len(queue_) \in Nat /\ Len(queue_) > 0 /\ Len(queue_') = Len(queue_) - 1
      /\ x = queue_[1] /\ x \in Items
      /\ \A i \in 1..Len(queue_') : queue_'[i] = queue_[i + 1]
      /\ \A i \in 1..Len(queue_) : queue_[i] \in Items
  BY DEF QueueInv, QueueTypeOK
<1>2. status[x] = "queued" /\ \A i \in 2..Len(queue_) : queue_[i] # x
  BY <1>1 DEF Queued
<1>3. pc[w] = "loop" /\ at[w] = "test"
  BY DEF Placement
<1>4. status' = [status EXCEPT ![x] = "running"] /\ task' = [task EXCEPT ![w] = x]
  OBVIOUS
<1> HIDE DEF x
<1>5. PoolTypes'
  BY <1>1, <1>4 DEF PoolTypes, Statuses, WorkerPCs
<1>6. Placement' /\ Closing'
  BY <1>3 DEF PoolTypes, Placement, Closing, QueueInv, QueueTypeOK
<1>7. Held'
  <2>1. \A t \in Threads : task[t] # x
    BY <1>1, <1>2, PoolAssumption DEF Held, PoolTypes, Clients
  <2>2. /\ \A v \in Workers : IF pc'[v] \in {"got", "run"}
                              THEN task'[v] \in Items /\ status'[task'[v]] = "running"
                              ELSE task'[v] = NoTask
        /\ \A c \in Clients : IF pc'[c] = "submit"
                              THEN task'[c] \in Items /\ status'[task'[c]] = "submitting"
                              ELSE task'[c] = NoTask
    BY <1>1, <1>3, <1>4, <2>1 DEF Held, PoolTypes
  <2>3. \A y \in Items : status'[y] = "running" => \E v \in Workers : task'[v] = y
    BY <1>1, <1>3, <1>4, PoolAssumption DEF Held, PoolTypes
  <2>4. \A y \in Items : status'[y] = "submitting" => \E c \in Clients : task'[c] = y
    BY <1>1, <1>3, <1>4 DEF Held, PoolTypes
  <2>5. \A t, u \in Threads : task'[t] # NoTask /\ task'[t] = task'[u] => t = u
    BY <1>4, <2>1 DEF Held, PoolTypes
  <2> QED
    BY <2>2, <2>3, <2>4, <2>5 DEF Held
<1>8. Queued'
  <2>1. \A i \in 1..Len(queue_') : i + 1 \in 2..Len(queue_) /\ queue_'[i] # x
    BY <1>1, <1>2
  <2>2. \A i \in 1..Len(queue_') : status'[queue_'[i]] = "queued"
    BY <1>1, <1>4, <2>1 DEF Queued, PoolTypes
  <2>3. \A i, j \in 1..Len(queue_') : queue_'[i] = queue_'[j] => i = j
    BY <1>1, <2>1 DEF Queued
  <2>4. \A y \in Items : status'[y] = "queued" => \E i \in 1..Len(queue_') : queue_'[i] = y
    <3> SUFFICES ASSUME NEW y \in Items, status'[y] = "queued"
                 PROVE  \E i \in 1..Len(queue_') : queue_'[i] = y
      OBVIOUS
    <3>1. y # x /\ status[y] = "queued"
      BY <1>1, <1>4 DEF PoolTypes
    <3>2. PICK i \in 1..Len(queue_) : queue_[i] = y
      BY <3>1 DEF Queued
    <3>3. i - 1 \in 1..Len(queue_') /\ i = (i - 1) + 1
      BY <1>1, <3>1, <3>2
    <3> QED
      BY <1>1, <3>2, <3>3
  <2> QED
    BY <2>2, <2>3, <2>4 DEF Queued
<1> QED
  BY <1>5, <1>6, <1>7, <1>8 DEF PoolPart

(* A worker leaves its loop only after shutdown, with the queue empty.     *)
LEMMA WorkerExitsInv ==
  ASSUME PoolInv, NEW w \in Workers, WorkerExits(w)
  PROVE  PoolPart'
<1> USE ThreadSets DEF PoolInv, WorkerExits, PopNull, Unlock, Goto
<1>0. pc[w] = "loop"
  BY DEF Placement
<1>1. PoolTypes'
  BY DEF PoolTypes, WorkerPCs
<1>2. Placement' /\ Closing'
  BY <1>0 DEF PoolTypes, Placement, Closing, QueueInv, QueueTypeOK
<1>3. Held' /\ Queued'
  BY <1>0 DEF PoolTypes, Held, Queued
<1> QED
  BY <1>1, <1>2, <1>3 DEF PoolPart

(* A worker around and inside its task.                                    *)
LEMMA WorkerRunsInv ==
  ASSUME PoolInv, NEW w \in Workers,
         WorkerActive(w) \/ WorkerIdle(w) \/ \E how \in {"returned", "caught"} : TaskEnds(w, how)
  PROVE  PoolPart'
<1> USE ThreadSets DEF PoolInv, Goto, qvars
<1>1. CASE WorkerActive(w) \/ WorkerIdle(w)
  <2> USE <1>1 DEF WorkerActive, WorkerIdle
  <2>1. PoolTypes'
    BY DEF PoolTypes, WorkerPCs
  <2>2. Placement' /\ Closing'
    BY DEF PoolTypes, Placement, Closing
  <2>3. Held' /\ Queued'
    BY DEF PoolTypes, Held, Queued
  <2> QED
    BY <2>1, <2>2, <2>3 DEF PoolPart
<1>2. ASSUME NEW how \in {"returned", "caught"}, TaskEnds(w, how)
      PROVE  PoolPart'
  <2> USE <1>2 DEF TaskEnds, Becomes, Hold
  <2>0. task[w] \in Items /\ status[task[w]] = "running"
    BY DEF Held
  <2>1. PoolTypes'
    BY <2>0 DEF PoolTypes, WorkerPCs, Statuses
  <2>2. Placement' /\ Closing'
    BY DEF PoolTypes, Placement, Closing
  <2>3. Held'
    BY <2>0, PoolAssumption DEF PoolTypes, Held
  <2>4. Queued'
    BY <2>0 DEF PoolTypes, Queued, QueueInv, QueueTypeOK
  <2> QED
    BY <2>1, <2>2, <2>3, <2>4 DEF PoolPart
<1> QED
  BY <1>1, <1>2

(* The constructor, shutdown() and the destructor, and a submitter that    *)
(* makes no further call.                                                  *)
LEMMA OwnerInv ==
  ASSUME PoolInv,
         \/ (\E w \in Workers : Spawn(w)) \/ Constructed \/ SpawnFails
         \/ ShutdownBegins \/ ShutdownNotifies \/ ShutdownJoined \/ Destroy
         \/ \E c \in Submitters : SubmitterDone(c)
  PROVE  PoolPart'
<1> USE ThreadSets DEF PoolInv, Goto, qvars
<1>1. ASSUME NEW w \in Workers, Spawn(w) PROVE PoolPart'
  BY <1>1 DEF Spawn, PoolPart, PoolTypes, WorkerPCs, Placement, Closing, Held, Queued
<1>2. CASE Constructed \/ SpawnFails
  BY <1>2 DEF Constructed, SpawnFails, PoolPart, PoolTypes, ClientPCs, OwnerPCs, Placement,
              Closing, Held, Queued
<1>3. CASE ShutdownBegins
  BY <1>3 DEF ShutdownBegins, PoolPart, PoolTypes, ClientPCs, OwnerPCs, Placement, Closing,
              Held, Queued, Clients
<1>4. CASE ShutdownNotifies
  BY <1>4 DEF ShutdownNotifies, ShutNotify, PoolPart, PoolTypes, ClientPCs, OwnerPCs,
              Placement, Closing, Held, Queued, QueueInv, QueueTypeOK
<1>5. CASE ShutdownJoined \/ Destroy
  BY <1>5 DEF ShutdownJoined, Destroy, PoolPart, PoolTypes, ClientPCs, OwnerPCs, Placement,
              Closing, Held, Queued
<1>6. ASSUME NEW c \in Submitters, SubmitterDone(c) PROVE PoolPart'
  BY <1>6 DEF SubmitterDone, PoolPart, PoolTypes, ClientPCs, Placement, Closing, Held, Queued
<1> QED
  BY <1>1, <1>2, <1>3, <1>4, <1>5, <1>6

-----------------------------------------------------------------------------
(* A pool under construction.                                              *)
LEMMA PoolInitInv == Init => PoolInv
<1> SUFFICES ASSUME Init PROVE PoolInv
  OBVIOUS
<1> USE ThreadSets DEF Init
<1>1. QueueInv
  BY QueueInitInv
<1>2. PoolTypes
  BY DEF PoolTypes, WorkerPCs, ClientPCs, OwnerPCs, Statuses
<1>3. Placement /\ Closing
  BY DEF QueueInit, Placement, Closing
<1>4. Held
  BY DEF Held
<1>5. Queued
  BY DEF QueueInit, Queued
<1> QED
  BY <1>1, <1>2, <1>3, <1>4, <1>5 DEF PoolInv

(* Every step of the pool keeps the inductive invariant.                   *)
LEMMA PoolStepInv ==
  ASSUME PoolInv, [Next]_vars
  PROVE  PoolInv'
<1>1. QueueInv'
  BY PoolKeepsQueueInv
<1>2. PoolPart'
  <2>1. CASE \E c \in Submitters : ClientStep(c)
    BY <2>1, SubmitEntryInv, SubmitExitInv, InsideQueueInv, OwnerInv DEF ClientStep
  <2>2. CASE \E w \in Workers : WorkerStep(w)
    BY <2>2, WorkerPopsInv, WorkerExitsInv, WorkerRunsInv, InsideQueueInv DEF WorkerStep
  <2>3. CASE OwnerStep
    BY <2>3, InsideQueueInv, OwnerInv DEF OwnerStep
  <2>4. CASE UNCHANGED vars
    BY <2>4 DEF vars, PoolInv, PoolPart, PoolTypes, Placement, Closing, Held, Queued
  <2> QED
    BY <2>1, <2>2, <2>3, <2>4 DEF Next, Over
<1> QED
  BY <1>1, <1>2 DEF PoolInv, PoolPart

(* The inductive invariant of the pool.                                    *)
THEOREM PoolInvariant == Spec => []PoolInv
<1>1. Init => PoolInv
  BY PoolInitInv
<1>2. PoolInv /\ [Next]_vars => PoolInv'
  BY PoolStepInv
<1> QED
  BY <1>1, <1>2, PTL DEF Spec

(* shutdown() drains: when it has returned, every accepted task has ended  *)
(* and every worker has left worker_loop().                                *)
THEOREM ShutdownDrains == Spec => []Drained
<1>1. PoolInv => Drained
  <2> SUFFICES ASSUME PoolInv, pc[Owner] \in {"closed", "destroyed"}
               PROVE  /\ \A x \in Items : status[x] \notin {"submitting", "queued", "running"}
                      /\ \A w \in Workers : pc[w] = "exited"
    BY DEF Drained
  <2>1. \A w \in Workers : pc[w] = "exited"
    BY DEF PoolInv, Closing
  <2>2. stopped_ /\ queue_ = <<>>
    BY <2>1, PoolAssumption DEF PoolInv, Closing
  <2>3. ASSUME NEW x \in Items PROVE status[x] # "submitting"
    BY <2>2, PoolAssumption DEF PoolInv, Closing, Held
  <2>4. ASSUME NEW x \in Items PROVE status[x] # "queued"
    BY <2>2 DEF PoolInv, Queued
  <2>5. ASSUME NEW x \in Items PROVE status[x] # "running"
    BY <2>1, PoolAssumption DEF PoolInv, Held
  <2> QED
    BY <2>1, <2>3, <2>4, <2>5
<1> QED
  BY <1>1, PoolInvariant, PTL

(* No task is lost, duplicated or run by two workers.                      *)
THEOREM EachTaskOnce == Spec => []TaskInOnePlace
<1>1. PoolInv => TaskInOnePlace
  <2> SUFFICES ASSUME PoolInv, NEW x \in Items
               PROVE  /\ Cardinality(InQueue(x)) = (IF status[x] = "queued" THEN 1 ELSE 0)
                      /\ Cardinality(HeldBy(x)) = (IF status[x] = "running" THEN 1 ELSE 0)
    BY DEF TaskInOnePlace
  <2>1. Cardinality(InQueue(x)) = (IF status[x] = "queued" THEN 1 ELSE 0)
    <3>1. CASE status[x] = "queued"
      <4>1. PICK i \in 1..Len(queue_) : queue_[i] = x
        BY <3>1 DEF PoolInv, Queued
      <4>2. InQueue(x) = {i}
        BY <4>1 DEF PoolInv, Queued, InQueue
      <4> QED
        BY <3>1, <4>2, FS_Singleton
    <3>2. CASE status[x] # "queued"
      <4>1. InQueue(x) = {}
        BY <3>2 DEF PoolInv, Queued, InQueue
      <4> QED
        BY <3>2, <4>1, FS_EmptySet
    <3> QED
      BY <3>1, <3>2
  <2>2. Cardinality(HeldBy(x)) = (IF status[x] = "running" THEN 1 ELSE 0)
    <3>1. CASE status[x] = "running"
      <4>1. PICK w \in Workers : task[w] = x
        BY <3>1 DEF PoolInv, Held
      <4>2. HeldBy(x) = {w}
        BY <4>1, ThreadSets, PoolAssumption DEF PoolInv, Held, HeldBy
      <4> QED
        BY <3>1, <4>2, FS_Singleton
    <3>2. CASE status[x] # "running"
      <4>1. HeldBy(x) = {}
        BY <3>2, PoolAssumption DEF PoolInv, Held, HeldBy
      <4> QED
        BY <3>2, <4>1, FS_EmptySet
    <3> QED
      BY <3>1, <3>2
  <2> QED
    BY <2>1, <2>2
<1> QED
  BY <1>1, PoolInvariant, PTL

-----------------------------------------------------------------------------
(* The workers active_workers_ counts.                                     *)
Counting == {w \in Workers : pc[w] \in {"run", "ran"}}

(* They are finitely many, before and after a step.                        *)
LEMMA CountingFinite ==
  /\ IsFiniteSet(Counting) /\ Cardinality(Counting) \in Nat
  /\ IsFiniteSet(Counting') /\ Cardinality(Counting') \in Nat
<1>1. Counting \subseteq Threads /\ Counting' \subseteq Threads
  BY ThreadSets DEF Counting
<1> QED
  BY <1>1, QueueAssumption, FS_Subset, FS_CardinalityType

(* A step other than the two of worker_loop() that count changes neither   *)
(* the counter nor the set of workers counted.                             *)
LEMMA OthersDoNotCount ==
  ASSUME PoolInv, Next,
         \A w \in Workers : ~WorkerActive(w) /\ ~WorkerIdle(w)
  PROVE  Counting' = Counting /\ active_workers_' = active_workers_
<1> USE ThreadSets DEF PoolInv, PoolTypes, Placement, Counting, Goto
<1>1. ASSUME NEW c \in Submitters, ClientStep(c)
      PROVE  Counting' = Counting /\ active_workers_' = active_workers_
  BY <1>1 DEF ClientStep, SubmitStopped, SubmitOpen, SubmitLock, SubmitPushed, SubmitFull,
              SubmitThrown, SubmitReturns, SubmitterDone, pvars
<1>2. ASSUME NEW w \in Workers, WorkerStep(w)
      PROVE  Counting' = Counting /\ active_workers_' = active_workers_
  <2>1. CASE WorkerLock(w) \/ WorkerWaits(w) \/ WorkerWakes(w) \/ WorkerSpurious(w)
    BY <2>1 DEF WorkerLock, WorkerWaits, WorkerWakes, WorkerSpurious, pvars
  <2>2. CASE WorkerPops(w) \/ WorkerExits(w)
    BY <2>2 DEF WorkerPops, WorkerExits, PopItem, PopNull
  <2>3. CASE \E how \in {"returned", "caught"} : TaskEnds(w, how)
    BY <2>3 DEF TaskEnds
  <2> QED
    BY <1>2, <2>1, <2>2, <2>3 DEF WorkerStep
<1>3. CASE OwnerStep
  <2>1. CASE \E w \in Workers : Spawn(w)
    BY <2>1 DEF Spawn
  <2>2. CASE ~\E w \in Workers : Spawn(w)
    BY <1>3, <2>2 DEF OwnerStep, Constructed, SpawnFails, ShutdownBegins, ShutdownLock,
                ShutdownSets, ShutdownNotifies, ShutdownJoined, Destroy, pvars
  <2> QED
    BY <2>1, <2>2
<1>4. CASE Over
  BY <1>4 DEF Over, vars
<1> QED
  BY <1>1, <1>2, <1>3, <1>4 DEF Next

(* active_workers_ counts the workers between its two updates, whether     *)
(* tasks return or throw, so that idle_workers() never wraps.              *)
THEOREM ActiveCountCorrect == Spec => []ActiveCount
<1>1. Init => ActiveCount
  <2> SUFFICES ASSUME Init PROVE active_workers_ = Cardinality(Counting)
    BY DEF ActiveCount, Counting
  <2>1. Counting = {}
    BY ThreadSets DEF Init, Counting
  <2> QED
    BY <2>1, FS_EmptySet DEF Init
<1>2. PoolInv /\ ActiveCount /\ [Next]_vars => ActiveCount'
  <2> SUFFICES ASSUME PoolInv, ActiveCount, [Next]_vars PROVE ActiveCount'
    OBVIOUS
  <2>0. active_workers_ = Cardinality(Counting)
    BY DEF ActiveCount, Counting
  <2>1. ASSUME NEW w \in Workers, WorkerActive(w) PROVE ActiveCount'
    <3>1. w \notin Counting /\ Counting' = Counting \cup {w}
      BY <2>1, ThreadSets DEF WorkerActive, Goto, Counting, PoolInv, PoolTypes
    <3>2. active_workers_' = active_workers_ + 1
      BY <2>1 DEF WorkerActive
    <3>3. active_workers_' = Cardinality(Counting')
      BY <2>0, <3>1, <3>2, CountingFinite, FS_AddElement
    <3> QED
      BY <3>3 DEF ActiveCount, Counting
  <2>2. ASSUME NEW w \in Workers, WorkerIdle(w) PROVE ActiveCount'
    <3>1. w \in Counting /\ Counting' = Counting \ {w}
      BY <2>2, ThreadSets DEF WorkerIdle, Goto, Counting, PoolInv, PoolTypes
    <3>2. active_workers_' = active_workers_ - 1
      BY <2>2 DEF WorkerIdle
    <3>3. active_workers_' = Cardinality(Counting')
      BY <2>0, <3>1, <3>2, CountingFinite, FS_RemoveElement
    <3> QED
      BY <3>3 DEF ActiveCount, Counting
  <2>3. CASE Next /\ \A w \in Workers : ~WorkerActive(w) /\ ~WorkerIdle(w)
    BY <2>0, <2>3, OthersDoNotCount DEF ActiveCount, Counting
  <2>4. CASE UNCHANGED vars
    BY <2>4 DEF vars, ActiveCount
  <2> QED
    BY <2>1, <2>2, <2>3, <2>4
<1> QED
  BY <1>1, <1>2, PoolInvariant, PTL DEF Spec

-----------------------------------------------------------------------------
(* The pool uses its queue as BlockingQueue allows, so what holds of the   *)
(* queue under any client holds of it under the pool: no notification is   *)
(* lost between submit() and worker_loop(), and shutdown() leaves no       *)
(* worker asleep.                                                          *)
THEOREM PoolWakesWorkers == Spec => [](NoLostWakeup /\ NoSleeperAfterShutdown)
<1>1. Init => QueueInit
  BY DEF Init
<1>2. PoolInv /\ [Next]_vars => [QueueNext]_qvars
  <2> SUFFICES ASSUME PoolInv, [Next]_vars PROVE [QueueNext]_qvars
    OBVIOUS
  <2>1. CASE Next
    BY <2>1, PoolStepIsQueueStep DEF QueueNext
  <2>2. CASE UNCHANGED vars
    BY <2>2 DEF vars, qvars
  <2> QED
    BY <2>1, <2>2
<1> QED
  BY <1>1, <1>2, PoolInvariant, NoLostWakeupCorrect, NoSleeperCorrect, PTL DEF Spec, QueueSpec

(* The pool is well typed; in particular its unsigned counter of active    *)
(* workers never goes below zero.                                          *)
THEOREM PoolTypeCorrect == Spec => []TypeOK
<1>1. PoolInv /\ ActiveCount => TypeOK
  BY CountingFinite DEF PoolInv, QueueInv, ActiveCount, Counting, PoolTypes, TypeOK
<1> QED
  BY <1>1, PoolInvariant, ActiveCountCorrect, PTL

=============================================================================
