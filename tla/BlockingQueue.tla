---------------------------- MODULE BlockingQueue ----------------------------
(***************************************************************************)
(* BoundedBlockingQueue<T> of include/server/blocking_queue.hpp.           *)
(*                                                                         *)
(* The mutex and the condition variable are explicit: an operation first   *)
(* takes mutex_ (Lock), then runs its critical section; cv_.wait tests its *)
(* predicate with mutex_ held and only then gives mutex_ up and blocks, so *)
(* what may happen between the test and the blocking is part of the model. *)
(* A critical section that leaves mutex_ is one action.  The queue runs    *)
(* under its most general client: any thread calls any operation whenever  *)
(* it is in no other.  ThreadPool extends this module and restricts it.    *)
(***************************************************************************)
EXTENDS Naturals, Sequences, FiniteSets

CONSTANTS
  Threads,    \* every thread that calls an operation of the queue
  Items,      \* the values of T
  Capacity,   \* capacity_: zero is a legal configuration (--capacity 0)
  NoThread    \* mutex_ is free

ASSUME QueueAssumption ==
  /\ IsFiniteSet(Threads)
  /\ NoThread \notin Threads
  /\ Capacity \in Nat

VARIABLES
  queue_,     \* the std::queue, oldest item first
  shutdown_,
  mutex_,     \* the thread that holds mutex_, or NoThread
  waiters,    \* the threads blocked in cv_.wait
  at          \* where each thread is inside an operation of the queue

qvars == <<queue_, shutdown_, mutex_, waiters, at>>

(***************************************************************************)
(* Control points.  At "push", "test", "sleep", "try" and "shut" a thread  *)
(* holds mutex_.  At "wait" it is inside cv_.wait: blocked while it is in  *)
(* waiters, on its way back to mutex_ once it no longer is.  At "notify"   *)
(* shutdown() has left its block and has yet to call notify_all.           *)
(***************************************************************************)
Critical == {"push", "test", "sleep", "try", "shut"}
Points == Critical \cup {"idle", "wait", "notify"}

QueueInit ==
  /\ queue_ = <<>>
  /\ shutdown_ = FALSE
  /\ mutex_ = NoThread
  /\ waiters = {}
  /\ at = [t \in Threads |-> "idle"]

(* An operation begins: the call's lock object takes mutex_. *)
Lock(t, op) ==
  /\ at[t] = "idle"
  /\ mutex_ = NoThread
  /\ mutex_' = t
  /\ at' = [at EXCEPT ![t] = op]
  /\ UNCHANGED <<queue_, shutdown_, waiters>>

(* The lock object's destructor: t leaves its critical section for p. *)
Unlock(t, p) ==
  /\ mutex_' = NoThread
  /\ at' = [at EXCEPT ![t] = p]

(* cv_.notify_one(): some blocked thread, if there is one. *)
NotifyOne ==
  IF waiters = {} THEN UNCHANGED waiters
                  ELSE \E w \in waiters : waiters' = waiters \ {w}

(***************************************************************************)
(* push(item)                                                              *)
(***************************************************************************)
PushFull(t) ==
  /\ at[t] = "push"
  /\ Len(queue_) >= Capacity
  /\ Unlock(t, "idle")
  /\ UNCHANGED <<queue_, shutdown_, waiters>>

(* Mutant of PushItem: the notification is missing. *)
PushSilently(t, x) ==
  /\ at[t] = "push"
  /\ Len(queue_) < Capacity
  /\ queue_' = Append(queue_, x)
  /\ Unlock(t, "idle")
  /\ UNCHANGED <<shutdown_, waiters>>

PushItem(t, x) ==
  /\ at[t] = "push"
  /\ Len(queue_) < Capacity
  /\ queue_' = Append(queue_, x)
  /\ NotifyOne
  /\ Unlock(t, "idle")
  /\ UNCHANGED shutdown_

(* queue_.push throws std::bad_alloc: the lock object gives mutex_ back. *)
PushThrows(t) ==
  /\ at[t] = "push"
  /\ Len(queue_) < Capacity
  /\ Unlock(t, "idle")
  /\ UNCHANGED <<queue_, shutdown_, waiters>>

(***************************************************************************)
(* wait_and_pop()                                                          *)
(***************************************************************************)
Ready == queue_ # <<>> \/ shutdown_

PopTest(t) ==
  /\ at[t] = "test"
  /\ ~Ready
  /\ at' = [at EXCEPT ![t] = "sleep"]
  /\ UNCHANGED <<queue_, shutdown_, mutex_, waiters>>

PopSleep(t) ==
  /\ at[t] = "sleep"
  /\ waiters' = waiters \cup {t}
  /\ Unlock(t, "wait")
  /\ UNCHANGED <<queue_, shutdown_>>

(* C++ allows wait to return without a notification. *)
PopSpurious(t) ==
  /\ t \in waiters
  /\ waiters' = waiters \ {t}
  /\ UNCHANGED <<queue_, shutdown_, mutex_, at>>

PopWake(t) ==
  /\ at[t] = "wait"
  /\ t \notin waiters
  /\ mutex_ = NoThread
  /\ mutex_' = t
  /\ at' = [at EXCEPT ![t] = "test"]
  /\ UNCHANGED <<queue_, shutdown_, waiters>>

(* Mutant of TakeFront: the item is moved out and not removed. *)
TakeFrontKeeps(t) ==
  /\ queue_ # <<>>
  /\ NotifyOne
  /\ Unlock(t, "idle")
  /\ UNCHANGED <<queue_, shutdown_>>

(* The front item goes to the caller, which reads Head(queue_). *)
TakeFront(t) ==
  /\ queue_ # <<>>
  /\ queue_' = Tail(queue_)
  /\ NotifyOne
  /\ Unlock(t, "idle")
  /\ UNCHANGED shutdown_

PopItem(t) ==
  /\ at[t] = "test"
  /\ TakeFront(t)

(* Mutant of PopNull: the flag alone ends the wait. *)
PopNullUndrained(t) ==
  /\ at[t] = "test"
  /\ shutdown_
  /\ Unlock(t, "idle")
  /\ UNCHANGED <<queue_, shutdown_, waiters>>

PopNull(t) ==
  /\ at[t] = "test"
  /\ shutdown_
  /\ queue_ = <<>>
  /\ Unlock(t, "idle")
  /\ UNCHANGED <<queue_, shutdown_, waiters>>

(***************************************************************************)
(* try_pop()                                                               *)
(***************************************************************************)
TryItem(t) ==
  /\ at[t] = "try"
  /\ TakeFront(t)

TryNull(t) ==
  /\ at[t] = "try"
  /\ queue_ = <<>>
  /\ Unlock(t, "idle")
  /\ UNCHANGED <<queue_, shutdown_, waiters>>

(***************************************************************************)
(* shutdown(): the flag inside mutex_, notify_all outside it               *)
(***************************************************************************)
ShutSet(t) ==
  /\ at[t] = "shut"
  /\ shutdown_' = TRUE
  /\ Unlock(t, "notify")
  /\ UNCHANGED <<queue_, waiters>>

(* Mutant of ShutNotify: notify_one in place of notify_all. *)
ShutNotifyOne(t) ==
  /\ at[t] = "notify"
  /\ NotifyOne
  /\ at' = [at EXCEPT ![t] = "idle"]
  /\ UNCHANGED <<queue_, shutdown_, mutex_>>

ShutNotify(t) ==
  /\ at[t] = "notify"
  /\ waiters' = {}
  /\ at' = [at EXCEPT ![t] = "idle"]
  /\ UNCHANGED <<queue_, shutdown_, mutex_>>

-----------------------------------------------------------------------------
QueueStep(t) ==
  \/ \E op \in {"push", "test", "try", "shut"} : Lock(t, op)
  \/ PushFull(t)
  \/ \E x \in Items : PushItem(t, x)
  \/ PushThrows(t)
  \/ PopTest(t)
  \/ PopSleep(t)
  \/ PopSpurious(t)
  \/ PopWake(t)
  \/ PopItem(t)
  \/ PopNull(t)
  \/ TryItem(t)
  \/ TryNull(t)
  \/ ShutSet(t)
  \/ ShutNotify(t)

QueueNext == \E t \in Threads : QueueStep(t)

QueueSpec == QueueInit /\ [][QueueNext]_qvars

-----------------------------------------------------------------------------
(* Types, and the bound push() enforces: never more than capacity_ items.  *)
QueueTypeOK ==
  /\ queue_ \in Seq(Items)
  /\ Len(queue_) <= Capacity
  /\ shutdown_ \in BOOLEAN
  /\ mutex_ \in Threads \cup {NoThread}
  /\ waiters \subseteq Threads
  /\ at \in [Threads -> Points]

(* The threads inside wait_and_pop that will look at the queue again.      *)
Awake == {t \in Threads : at[t] = "test" \/ (at[t] = "wait" /\ t \notin waiters)}

(***************************************************************************)
(* No notification is lost: while a thread is blocked in wait_and_pop,     *)
(* every queued item is matched by a thread of its own that is awake and   *)
(* about to test the predicate (push's and the pops' notify_one).          *)
(***************************************************************************)
NoLostWakeup == waiters # {} => Len(queue_) <= Cardinality(Awake)

(***************************************************************************)
(* shutdown() leaves nobody asleep: once the flag is set, a thread can be  *)
(* blocked in wait_and_pop only as long as a notify_all is still to come.  *)
(* It rests on the flag being set under mutex_: no thread can be between   *)
(* its test of the predicate and its blocking when the flag changes.       *)
(***************************************************************************)
NoSleeperAfterShutdown ==
  shutdown_ /\ waiters # {} => \E t \in Threads : at[t] = "notify"

=============================================================================
