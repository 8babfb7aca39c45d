------------------------------ MODULE ThreadPool ------------------------------
(***************************************************************************)
(* ThreadPool of include/server/thread_pool.hpp, on top of the queue.      *)
(*                                                                         *)
(* Owner constructs the pool, shuts it down and destroys it; Submitters    *)
(* call submit().  In the server the two are one thread, the one that runs *)
(* TcpServer::start(): accept_loop() submits, and start() shuts down after *)
(* accept_loop() has returned.  The unit tests also submit from several    *)
(* threads, which they join before shutdown().  Both uses keep to one rule *)
(* of the caller: no submit() of another thread overlaps or follows        *)
(* shutdown().  The items of the queue are the tasks.                      *)
(***************************************************************************)
EXTENDS BlockingQueue

CONSTANTS
  Workers,    \* the threads of workers_
  Submitters,
  Owner,
  NoTask

ASSUME PoolAssumption ==
  /\ Workers # {}
  /\ Threads = Workers \cup Submitters \cup {Owner}
  /\ Workers \cap (Submitters \cup {Owner}) = {}
  /\ NoTask \notin Items

VARIABLES
  stopped_,
  active_workers_,
  pc,         \* where each thread is in the pool's code
  task,       \* the task a thread submits or executes
  status      \* what has become of each task

pvars == <<stopped_, active_workers_, pc, task, status>>
vars == <<queue_, shutdown_, mutex_, waiters, at,
          stopped_, active_workers_, pc, task, status>>

Clients == Submitters \cup {Owner}

(***************************************************************************)
(* pc of a worker: "unborn" until the constructor starts its thread,       *)
(* "loop" in queue_->wait_and_pop(), "got" with a task, "run" inside the   *)
(* task, "ran" after it, "exited" once worker_loop() has returned.         *)
(* pc of a client: "idle", "submit" between submit()'s test of stopped_    *)
(* and its call of push(); "done" for a submitter that has been joined;    *)
(* and, for Owner alone, "ctor" in the constructor, "closing" in           *)
(* queue_->shutdown(), "joining", "closed" once shutdown() has returned,   *)
(* "destroyed" after the destructor, "threw" if the constructor threw and  *)
(* "terminated" if it brought the process down.                            *)
(***************************************************************************)
WorkerPCs == {"unborn", "loop", "got", "run", "ran", "exited"}
OwnerPCs == {"ctor", "closing", "joining", "closed", "destroyed", "threw", "terminated"}
ClientPCs == {"idle", "submit", "done"} \cup OwnerPCs

Init ==
  /\ QueueInit
  /\ stopped_ = FALSE
  /\ active_workers_ = 0
  /\ pc = [t \in Threads |-> IF t \in Workers THEN "unborn"
                             ELSE IF t = Owner THEN "ctor" ELSE "idle"]
  /\ task = [t \in Threads |-> NoTask]
  /\ status = [x \in Items |-> "new"]

Goto(t, p) == pc' = [pc EXCEPT ![t] = p]
Becomes(x, s) == status' = [status EXCEPT ![x] = s]
Hold(t, x) == task' = [task EXCEPT ![t] = x]

-----------------------------------------------------------------------------
(***************************************************************************)
(* The constructor starts the workers one after the other; those that run  *)
(* already wait for tasks.  A failure to start a thread leaves the         *)
(* constructor by an exception, and the destruction of workers_ then finds *)
(* the threads already started joinable and calls std::terminate.          *)
(***************************************************************************)
Spawn(w) ==
  /\ pc[Owner] = "ctor"
  /\ pc[w] = "unborn"
  /\ Goto(w, "loop")
  /\ UNCHANGED <<qvars, stopped_, active_workers_, task, status>>

Constructed ==
  /\ pc[Owner] = "ctor"
  /\ \A w \in Workers : pc[w] # "unborn"
  /\ Goto(Owner, "idle")
  /\ UNCHANGED <<qvars, stopped_, active_workers_, task, status>>

SpawnFails ==
  /\ pc[Owner] = "ctor"
  /\ \E w \in Workers : pc[w] = "unborn"
  /\ Goto(Owner, IF \A w \in Workers : pc[w] = "unborn" THEN "threw" ELSE "terminated")
  /\ UNCHANGED <<qvars, stopped_, active_workers_, task, status>>

-----------------------------------------------------------------------------
(***************************************************************************)
(* submit(task): stopped_ is read without a lock, then push() is called.   *)
(* Callers see the pool only between its constructor and its destructor.   *)
(***************************************************************************)
CanSubmit(c, x) ==
  /\ pc[Owner] \notin {"ctor", "threw", "terminated", "destroyed"}
  /\ pc[c] \in {"idle", "closed"}
  /\ status[x] = "new"

SubmitStopped(c, x) ==
  /\ CanSubmit(c, x)
  /\ stopped_
  /\ Becomes(x, "refused")
  /\ UNCHANGED <<qvars, stopped_, active_workers_, pc, task>>

SubmitOpen(c, x) ==
  /\ CanSubmit(c, x)
  /\ ~stopped_
  /\ Becomes(x, "submitting")
  /\ Hold(c, x)
  /\ Goto(c, "submit")
  /\ UNCHANGED <<qvars, stopped_, active_workers_>>

SubmitLock(c) ==
  /\ pc[c] = "submit"
  /\ Lock(c, "push")
  /\ UNCHANGED pvars

SubmitReturns(c, s) ==
  /\ pc[c] = "submit"
  /\ Becomes(task[c], s)
  /\ Hold(c, NoTask)
  /\ Goto(c, "idle")
  /\ UNCHANGED <<stopped_, active_workers_>>

SubmitPushed(c) == PushItem(c, task[c]) /\ SubmitReturns(c, "queued")

SubmitFull(c) == PushFull(c) /\ SubmitReturns(c, "refused")

SubmitThrown(c) == PushThrows(c) /\ SubmitReturns(c, "threw")

(* A thread other than Owner makes no further call. *)
SubmitterDone(c) ==
  /\ c # Owner
  /\ pc[c] = "idle"
  /\ Goto(c, "done")
  /\ UNCHANGED <<qvars, stopped_, active_workers_, task, status>>

-----------------------------------------------------------------------------
(***************************************************************************)
(* worker_loop()                                                           *)
(***************************************************************************)
WorkerLock(w) ==
  /\ pc[w] = "loop"
  /\ Lock(w, "test")
  /\ UNCHANGED pvars

(* Inside wait_and_pop(). *)
WorkerWaits(w) ==
  /\ PopTest(w) \/ PopSleep(w)
  /\ UNCHANGED pvars

WorkerWakes(w) == PopWake(w) /\ UNCHANGED pvars

WorkerSpurious(w) == PopSpurious(w) /\ UNCHANGED pvars

WorkerPops(w) ==
  /\ PopItem(w)
  /\ Becomes(Head(queue_), "running")
  /\ Hold(w, Head(queue_))
  /\ Goto(w, "got")
  /\ UNCHANGED <<stopped_, active_workers_>>

WorkerExits(w) ==
  /\ PopNull(w)
  /\ Goto(w, "exited")
  /\ UNCHANGED <<stopped_, active_workers_, task, status>>

(* Mutant of WorkerActive: the worker is not counted in. *)
WorkerActiveUncounted(w) ==
  /\ pc[w] = "got"
  /\ Goto(w, "run")
  /\ UNCHANGED <<qvars, stopped_, active_workers_, task, status>>

WorkerActive(w) ==
  /\ pc[w] = "got"
  /\ active_workers_' = active_workers_ + 1
  /\ Goto(w, "run")
  /\ UNCHANGED <<qvars, stopped_, task, status>>

(* Mutant of TaskEnds: an exception skips the decrement of active_workers_. *)
TaskEndsUncounted(w, how) ==
  /\ pc[w] = "run"
  /\ Becomes(task[w], how)
  /\ Hold(w, NoTask)
  /\ Goto(w, IF how = "caught" THEN "loop" ELSE "ran")
  /\ UNCHANGED <<qvars, stopped_, active_workers_>>

(* The task returns, or throws and one of the two handlers catches it. *)
TaskEnds(w, how) ==
  /\ pc[w] = "run"
  /\ Becomes(task[w], how)
  /\ Hold(w, NoTask)
  /\ Goto(w, "ran")
  /\ UNCHANGED <<qvars, stopped_, active_workers_>>

WorkerIdle(w) ==
  /\ pc[w] = "ran"
  /\ active_workers_' = active_workers_ - 1
  /\ Goto(w, "loop")
  /\ UNCHANGED <<qvars, stopped_, task, status>>

-----------------------------------------------------------------------------
(***************************************************************************)
(* shutdown(), called by Owner; the destructor calls it again and returns  *)
(* from its compare_exchange.                                              *)
(***************************************************************************)
ShutdownBegins ==
  /\ pc[Owner] = "idle"
  /\ \A c \in Submitters \ {Owner} : pc[c] = "done"
  /\ ~stopped_
  /\ stopped_' = TRUE
  /\ Goto(Owner, "closing")
  /\ UNCHANGED <<qvars, active_workers_, task, status>>

(* Mutant of ShutdownLock: shutdown_ is set without taking mutex_. *)
ShutdownSetsUnlocked ==
  /\ pc[Owner] = "closing"
  /\ at[Owner] = "idle"
  /\ shutdown_' = TRUE
  /\ at' = [at EXCEPT ![Owner] = "notify"]
  /\ UNCHANGED <<queue_, mutex_, waiters, pvars>>

ShutdownLock ==
  /\ pc[Owner] = "closing"
  /\ Lock(Owner, "shut")
  /\ UNCHANGED pvars

ShutdownSets == ShutSet(Owner) /\ UNCHANGED pvars

ShutdownNotifies ==
  /\ ShutNotify(Owner)
  /\ Goto(Owner, "joining")
  /\ UNCHANGED <<stopped_, active_workers_, task, status>>

(* The loop over workers_ ends when each of them has been joined. *)
ShutdownJoined ==
  /\ pc[Owner] = "joining"
  /\ \A w \in Workers : pc[w] = "exited"
  /\ Goto(Owner, "closed")
  /\ UNCHANGED <<qvars, stopped_, active_workers_, task, status>>

(* The destructor: its shutdown() finds stopped_ set and joins nobody. *)
Destroy ==
  /\ pc[Owner] = "closed"
  /\ stopped_
  /\ Goto(Owner, "destroyed")
  /\ UNCHANGED <<qvars, stopped_, active_workers_, task, status>>

-----------------------------------------------------------------------------
ClientStep(c) ==
  \/ \E x \in Items : SubmitStopped(c, x) \/ SubmitOpen(c, x)
  \/ SubmitLock(c)
  \/ SubmitPushed(c)
  \/ SubmitFull(c)
  \/ SubmitThrown(c)
  \/ SubmitterDone(c)

WorkerStep(w) ==
  \/ WorkerLock(w)
  \/ WorkerWaits(w)
  \/ WorkerWakes(w)
  \/ WorkerSpurious(w)
  \/ WorkerPops(w)
  \/ WorkerExits(w)
  \/ WorkerActive(w)
  \/ \E how \in {"returned", "caught"} : TaskEnds(w, how)
  \/ WorkerIdle(w)

OwnerStep ==
  \/ \E w \in Workers : Spawn(w)
  \/ Constructed
  \/ SpawnFails
  \/ ShutdownBegins
  \/ ShutdownLock
  \/ ShutdownSets
  \/ ShutdownNotifies
  \/ ShutdownJoined
  \/ Destroy

(* std::terminate stops every thread. *)
Alive == pc[Owner] # "terminated"

(* The object is gone: nothing is left to do. *)
Over ==
  /\ pc[Owner] \in {"destroyed", "threw", "terminated"}
  /\ UNCHANGED vars

Next ==
  \/ Alive /\ \E c \in Submitters : ClientStep(c)
  \/ Alive /\ \E w \in Workers : WorkerStep(w)
  \/ OwnerStep
  \/ Over

Spec == Init /\ [][Next]_vars

(***************************************************************************)
(* Fairness.  A thread that can run again and again is run, in particular  *)
(* it gets mutex_ in the end: the scheduler and the mutex starve nobody.   *)
(* Tasks end.  Nothing forces a call of submit() or shutdown(), a spurious *)
(* wakeup or a failure.                                                    *)
(***************************************************************************)
ClientRuns(c) == SubmitLock(c) \/ SubmitPushed(c) \/ SubmitFull(c) \/ SubmitterDone(c)

WorkerRuns(w) ==
  \/ WorkerLock(w) \/ WorkerWaits(w) \/ WorkerWakes(w) \/ WorkerPops(w) \/ WorkerExits(w)
  \/ WorkerActive(w) \/ TaskEnds(w, "returned") \/ WorkerIdle(w)

OwnerRuns ==
  \/ ShutdownLock \/ ShutdownSets \/ ShutdownNotifies \/ ShutdownJoined

Fairness ==
  /\ \A c \in Submitters : SF_vars(ClientRuns(c))
  /\ \A w \in Workers : SF_vars(WorkerRuns(w))
  /\ SF_vars(OwnerRuns)

FairSpec == Spec /\ Fairness

-----------------------------------------------------------------------------
Statuses == {"new", "submitting", "refused", "threw", "queued", "running",
             "returned", "caught"}

(* Types.  That active_workers_ stays in Nat is that the unsigned counter  *)
(* never wraps below zero.                                                 *)
TypeOK ==
  /\ QueueTypeOK
  /\ stopped_ \in BOOLEAN
  /\ active_workers_ \in Nat
  /\ pc \in [Threads -> WorkerPCs \cup ClientPCs]
  /\ task \in [Threads -> Items \cup {NoTask}]
  /\ status \in [Items -> Statuses]

InQueue(x) == {i \in 1..Len(queue_) : queue_[i] = x}
HeldBy(x) == {w \in Workers : task[w] = x}

(***************************************************************************)
(* No task is lost, duplicated or run twice between submit() and           *)
(* worker_loop(): a queued task is at one place of the queue and in no     *)
(* worker, a running one in one worker and nowhere in the queue, and every *)
(* other task in neither.                                                  *)
(***************************************************************************)
TaskInOnePlace ==
  \A x \in Items :
    /\ Cardinality(InQueue(x)) = (IF status[x] = "queued" THEN 1 ELSE 0)
    /\ Cardinality(HeldBy(x)) = (IF status[x] = "running" THEN 1 ELSE 0)

(* The counter behind active_workers() and idle_workers() is the number of *)
(* workers between the fetch_add and the fetch_sub of worker_loop(), also  *)
(* after a task has thrown, so thread_count() - active_workers() does not  *)
(* wrap.                                                                   *)
ActiveCount ==
  active_workers_ = Cardinality({w \in Workers : pc[w] \in {"run", "ran"}})

(* shutdown() drains: when it has returned, no accepted task is waiting,   *)
(* none is running and no worker is left that could touch the pool.        *)
Drained ==
  pc[Owner] \in {"closed", "destroyed"} =>
    /\ \A x \in Items : status[x] \notin {"submitting", "queued", "running"}
    /\ \A w \in Workers : pc[w] = "exited"

(* A task that submit() accepted ends, whatever else the pool does.        *)
AcceptedTasksEnd ==
  \A x \in Items : status[x] = "queued" ~> status[x] \in {"returned", "caught"}

(* shutdown() returns: no worker stays blocked in wait_and_pop().          *)
ShutdownReturns == pc[Owner] = "closing" ~> pc[Owner] = "closed"

-----------------------------------------------------------------------------
(***************************************************************************)
(* The refinement mapping to TaskPool.                                     *)
(***************************************************************************)
Busy == {w \in Workers : pc[w] \in {"got", "run"}}

TP == INSTANCE TaskPool WITH
        Tasks <- Items,
        Width <- Cardinality(Workers),
        pending <- queue_,
        executing <- {task[w] : w \in Busy},
        settled <- {x \in Items : status[x] \in {"refused", "threw", "returned", "caught"}},
        phase <- IF pc[Owner] \in {"closed", "destroyed"} THEN "closed"
                 ELSE IF stopped_ THEN "closing" ELSE "open"

(* The pool implements TaskPool: FIFO, bounded, each accepted task once,   *)
(* submit() refuses only a full or closed pool, shutdown() drains, and, by *)
(* the fairness of TaskPool, nothing is left waiting for ever.             *)
ImplementsTaskPool == TP!FairPoolSpec

=============================================================================
