------------------------- MODULE BlockingQueueProofs -------------------------
(***************************************************************************)
(* Proofs about BlockingQueue, for any set of threads, any items and any   *)
(* capacity: the bound on the queue, mutual exclusion, and that neither    *)
(* notify_one nor notify_all is lost.                                      *)
(***************************************************************************)
EXTENDS BlockingQueue, FiniteSetTheorems, TLAPS

(* mutex_ is held by the one thread that is in a critical section.         *)
MutualExclusion == \A t \in Threads : at[t] \in Critical <=> mutex_ = t

(* The blocked threads are inside cv_.wait.                                *)
WaitersWait == \A t \in waiters : at[t] = "wait"

(* Between a failed test of the predicate and blocking, mutex_ is held, so *)
(* the predicate is still false.                                           *)
SleepersSawNothing == \A t \in Threads : at[t] = "sleep" => queue_ = <<>> /\ ~shutdown_

(* The inductive invariant but for the two properties it serves.           *)
QueueInv ==
  /\ QueueTypeOK
  /\ MutualExclusion
  /\ WaitersWait
  /\ SleepersSawNothing

-----------------------------------------------------------------------------
(* What notify_one does to the set of blocked threads: it only shrinks.    *)
LEMMA NotifyOneShrinks == NotifyOne => waiters' \subseteq waiters
  BY DEF NotifyOne

(* Every operation of the queue keeps the types and the bound of push().   *)
LEMMA QueueTypeStep ==
  ASSUME QueueTypeOK, NEW t \in Threads, QueueStep(t)
  PROVE  QueueTypeOK'
<1> USE QueueAssumption DEF QueueTypeOK, Points, Critical
<1>1. CASE \E op \in {"push", "test", "try", "shut"} : Lock(t, op)
  BY <1>1 DEF Lock
<1>2. CASE PushFull(t) \/ PushThrows(t) \/ PopNull(t) \/ TryNull(t)
  BY <1>2 DEF PushFull, PushThrows, PopNull, TryNull, Unlock
<1>3. CASE \E x \in Items : PushItem(t, x)
  BY <1>3, NotifyOneShrinks DEF PushItem, Unlock
<1>4. CASE PopTest(t) \/ PopSleep(t) \/ PopSpurious(t) \/ PopWake(t)
  BY <1>4 DEF PopTest, PopSleep, PopSpurious, PopWake, Unlock
<1>5. CASE PopItem(t) \/ TryItem(t)
  BY <1>5, NotifyOneShrinks DEF PopItem, TryItem, TakeFront, Unlock
<1>6. CASE ShutSet(t) \/ ShutNotify(t)
  BY <1>6 DEF ShutSet, ShutNotify, Unlock
<1> QED
  BY <1>1, <1>2, <1>3, <1>4, <1>5, <1>6 DEF QueueStep

(* A queue just constructed is well typed, also with capacity_ = 0.        *)
LEMMA QueueInitTypeOK == QueueInit => QueueTypeOK
<1> SUFFICES ASSUME QueueInit PROVE QueueTypeOK
  OBVIOUS
<1>1. queue_ \in Seq(Items) /\ Len(queue_) <= Capacity
  BY QueueAssumption DEF QueueInit
<1>2. at \in [Threads -> Points]
  BY DEF QueueInit, Points
<1> QED
  BY <1>1, <1>2 DEF QueueInit, QueueTypeOK

(* The queue is well typed and never holds more than capacity_ items.      *)
THEOREM QueueTypeCorrect == QueueSpec => []QueueTypeOK
<1>1. QueueInit => QueueTypeOK
  BY QueueInitTypeOK
<1>2. QueueTypeOK /\ [QueueNext]_qvars => QueueTypeOK'
  <2> SUFFICES ASSUME QueueTypeOK, [QueueNext]_qvars PROVE QueueTypeOK'
    OBVIOUS
  <2>1. CASE UNCHANGED qvars
    BY <2>1 DEF QueueTypeOK, qvars
  <2>2. CASE QueueNext
    BY <2>2, QueueTypeStep DEF QueueNext
  <2> QED
    BY <2>1, <2>2
<1> QED
  BY <1>1, <1>2, PTL DEF QueueSpec

-----------------------------------------------------------------------------
(* Every operation of the queue keeps the inductive invariant: a step that *)
(* changes queue_ or shutdown_ holds mutex_, so no thread is at "sleep".   *)
LEMMA QueueInvStep ==
  ASSUME QueueInv, NEW t \in Threads, QueueStep(t)
  PROVE  QueueInv'
<1>1. QueueTypeOK'
  BY QueueTypeStep DEF QueueInv
<1>2. MutualExclusion' /\ WaitersWait' /\ SleepersSawNothing'
  <2> USE QueueAssumption
        DEF QueueInv, QueueTypeOK, MutualExclusion, WaitersWait, SleepersSawNothing,
            Points, Critical
  <2>1. CASE \E op \in {"push", "test", "try", "shut"} : Lock(t, op)
    BY <2>1 DEF Lock
  <2>2. CASE PushFull(t) \/ PushThrows(t) \/ PopNull(t) \/ TryNull(t)
    BY <2>2 DEF PushFull, PushThrows, PopNull, TryNull, Unlock
  <2>3. CASE \E x \in Items : PushItem(t, x)
    BY <2>3, NotifyOneShrinks DEF PushItem, Unlock
  <2>4. CASE PopTest(t)
    BY <2>4 DEF PopTest, Ready
  <2>5. CASE PopSleep(t)
    BY <2>5 DEF PopSleep, Unlock
  <2>6. CASE PopSpurious(t) \/ PopWake(t)
    BY <2>6 DEF PopSpurious, PopWake
  <2>7. CASE PopItem(t) \/ TryItem(t)
    BY <2>7, NotifyOneShrinks DEF PopItem, TryItem, TakeFront, Unlock
  <2>8. CASE ShutSet(t)
    BY <2>8 DEF ShutSet, Unlock
  <2>9. CASE ShutNotify(t)
    BY <2>9 DEF ShutNotify
  <2> QED
    BY <2>1, <2>2, <2>3, <2>4, <2>5, <2>6, <2>7, <2>8, <2>9 DEF QueueStep
<1> QED
  BY <1>1, <1>2 DEF QueueInv

(* In a queue just constructed nobody holds mutex_ or waits.               *)
LEMMA QueueInitInv == QueueInit => QueueInv
<1> SUFFICES ASSUME QueueInit PROVE QueueInv
  OBVIOUS
<1>1. QueueTypeOK
  BY QueueInitTypeOK
<1>2. MutualExclusion /\ WaitersWait /\ SleepersSawNothing
  BY QueueAssumption
     DEF QueueInit, MutualExclusion, WaitersWait, SleepersSawNothing, Critical
<1> QED
  BY <1>1, <1>2 DEF QueueInv

(* mutex_ excludes, and nobody blocks on a predicate that has become true. *)
THEOREM QueueInvariant == QueueSpec => []QueueInv
<1>1. QueueInit => QueueInv
  BY QueueInitInv
<1>2. QueueInv /\ [QueueNext]_qvars => QueueInv'
  <2> SUFFICES ASSUME QueueInv, [QueueNext]_qvars PROVE QueueInv'
    OBVIOUS
  <2>1. CASE UNCHANGED qvars
    BY <2>1 DEF QueueInv, QueueTypeOK, MutualExclusion, WaitersWait, SleepersSawNothing, qvars
  <2>2. CASE QueueNext
    BY <2>2, QueueInvStep DEF QueueNext
  <2> QED
    BY <2>1, <2>2
<1> QED
  BY <1>1, <1>2, PTL DEF QueueSpec

-----------------------------------------------------------------------------
(* shutdown() wakes everybody: its flag is set under mutex_, when no       *)
(* thread is on its way to block, and notify_all follows.                  *)
LEMMA NoSleeperStep ==
  ASSUME QueueInv, NoSleeperAfterShutdown, NEW t \in Threads, QueueStep(t)
  PROVE  NoSleeperAfterShutdown'
<1> USE DEF QueueInv, QueueTypeOK, NoSleeperAfterShutdown, Points, Critical
<1>1. CASE \E op \in {"push", "test", "try", "shut"} : Lock(t, op)
  BY <1>1 DEF Lock
<1>2. CASE PushFull(t) \/ PushThrows(t) \/ PopNull(t) \/ TryNull(t)
  BY <1>2 DEF PushFull, PushThrows, PopNull, TryNull, Unlock
<1>3. CASE \E x \in Items : PushItem(t, x)
  BY <1>3, NotifyOneShrinks DEF PushItem, Unlock
<1>4. CASE PopTest(t) \/ PopSpurious(t) \/ PopWake(t)
  BY <1>4 DEF PopTest, PopSpurious, PopWake
<1>5. CASE PopSleep(t)
  BY <1>5 DEF PopSleep, Unlock, SleepersSawNothing
<1>6. CASE PopItem(t) \/ TryItem(t)
  BY <1>6, NotifyOneShrinks DEF PopItem, TryItem, TakeFront, Unlock
<1>7. CASE ShutSet(t) \/ ShutNotify(t)
  BY <1>7 DEF ShutSet, ShutNotify, Unlock
<1> QED
  BY <1>1, <1>2, <1>3, <1>4, <1>5, <1>6, <1>7 DEF QueueStep

(* No thread stays blocked in wait_and_pop() after a completed shutdown(). *)
THEOREM NoSleeperCorrect == QueueSpec => []NoSleeperAfterShutdown
<1>1. QueueInit => NoSleeperAfterShutdown
  BY DEF QueueInit, NoSleeperAfterShutdown
<1>2. QueueInv /\ NoSleeperAfterShutdown /\ [QueueNext]_qvars => NoSleeperAfterShutdown'
  <2> SUFFICES ASSUME QueueInv, NoSleeperAfterShutdown, [QueueNext]_qvars
               PROVE  NoSleeperAfterShutdown'
    OBVIOUS
  <2>1. CASE UNCHANGED qvars
    BY <2>1 DEF NoSleeperAfterShutdown, qvars
  <2>2. CASE QueueNext
    BY <2>2, NoSleeperStep DEF QueueNext
  <2> QED
    BY <2>1, <2>2
<1> QED
  BY <1>1, <1>2, QueueInvariant, PTL DEF QueueSpec

-----------------------------------------------------------------------------
(* The awake threads are finitely many, before and after a step.           *)
LEMMA AwakeFinite ==
  /\ IsFiniteSet(Awake) /\ Cardinality(Awake) \in Nat
  /\ IsFiniteSet(Awake') /\ Cardinality(Awake') \in Nat
<1>1. Awake \subseteq Threads /\ Awake' \subseteq Threads
  BY DEF Awake
<1> QED
  BY <1>1, QueueAssumption, FS_Subset, FS_CardinalityType

(* A step that adds no item and puts no awake thread to sleep keeps        *)
(* NoLostWakeup, if it blocks nobody.                                      *)
LEMMA MoreAwake ==
  ASSUME QueueTypeOK, QueueTypeOK', NoLostWakeup,
         Len(queue_') <= Len(queue_), waiters' \subseteq waiters, Awake \subseteq Awake'
  PROVE  NoLostWakeup'
<1> SUFFICES ASSUME waiters' # {} PROVE Len(queue_') <= Cardinality(Awake')
  BY DEF NoLostWakeup
<1>1. Len(queue_) <= Cardinality(Awake)
  BY DEF NoLostWakeup
<1>2. Cardinality(Awake) <= Cardinality(Awake')
  BY AwakeFinite, FS_Subset
<1> QED
  BY <1>1, <1>2, AwakeFinite DEF QueueTypeOK

(* An empty queue needs nobody awake.                                      *)
LEMMA EmptyNeedsNobody == queue_' = <<>> => NoLostWakeup'
  BY AwakeFinite DEF NoLostWakeup

(* push() of an item wakes a thread for it, if one is blocked.             *)
LEMMA PushWakes ==
  ASSUME QueueInv, QueueTypeOK', NoLostWakeup,
         NEW t \in Threads, NEW x \in Items, PushItem(t, x)
  PROVE  NoLostWakeup'
<1> SUFFICES ASSUME waiters' # {} PROVE Len(queue_') <= Cardinality(Awake')
  BY DEF NoLostWakeup
<1>1. PICK w \in waiters : waiters' = waiters \ {w}
  BY DEF PushItem, NotifyOne
<1>2. w \in Threads /\ w # t /\ w \notin Awake
  BY <1>1 DEF QueueInv, QueueTypeOK, WaitersWait, Awake, PushItem
<1>3. Awake' = Awake \cup {w}
  BY <1>1, <1>2 DEF QueueInv, QueueTypeOK, WaitersWait, Awake, PushItem, Unlock
<1>4. Cardinality(Awake') = Cardinality(Awake) + 1
  BY <1>2, <1>3, AwakeFinite, FS_AddElement
<1>5. Len(queue_') = Len(queue_) + 1
  BY DEF QueueInv, QueueTypeOK, PushItem
<1>6. Len(queue_) <= Cardinality(Awake)
  BY <1>1 DEF NoLostWakeup
<1> QED
  BY <1>4, <1>5, <1>6, AwakeFinite DEF QueueInv, QueueTypeOK

(* wait_and_pop() removes an item together with the thread it is for.      *)
LEMMA PopTakesItsItem ==
  ASSUME QueueInv, QueueTypeOK', NoLostWakeup, NEW t \in Threads, PopItem(t)
  PROVE  NoLostWakeup'
<1> SUFFICES ASSUME waiters' # {} PROVE Len(queue_') <= Cardinality(Awake')
  BY DEF NoLostWakeup
<1>1. waiters' \subseteq waiters
  BY NotifyOneShrinks DEF PopItem, TakeFront
<1>2. Awake \ {t} \subseteq Awake' /\ t \in Awake
  BY <1>1 DEF QueueInv, QueueTypeOK, Awake, PopItem, TakeFront, Unlock
<1>3. /\ IsFiniteSet(Awake \ {t})
      /\ Cardinality(Awake \ {t}) = Cardinality(Awake) - 1
  BY <1>2, AwakeFinite, FS_RemoveElement
<1>4. Cardinality(Awake) - 1 <= Cardinality(Awake')
  BY <1>2, <1>3, AwakeFinite, FS_Subset
<1>5. Len(queue_') = Len(queue_) - 1
  BY DEF QueueInv, QueueTypeOK, PopItem, TakeFront
<1>6. Len(queue_) <= Cardinality(Awake)
  BY <1>1 DEF NoLostWakeup
<1> QED
  BY <1>4, <1>5, <1>6, AwakeFinite DEF QueueInv, QueueTypeOK

(* Every operation of the queue keeps an awake thread for every item.      *)
LEMMA NoLostWakeupStep ==
  ASSUME QueueInv, NoLostWakeup, NEW t \in Threads, QueueStep(t)
  PROVE  NoLostWakeup'
<1>0. QueueTypeOK' /\ QueueTypeOK
  BY QueueTypeStep DEF QueueInv
<1>1. CASE \E op \in {"push", "test", "try", "shut"} : Lock(t, op)
  <2>1. Awake \subseteq Awake'
    BY <1>1, <1>0 DEF Lock, Awake, QueueTypeOK
  <2> QED
    BY <1>0, <1>1, <2>1, MoreAwake DEF Lock, QueueTypeOK
<1>2. CASE PushFull(t) \/ PushThrows(t) \/ ShutSet(t)
  <2>1. Awake \subseteq Awake'
    BY <1>2, <1>0 DEF PushFull, PushThrows, ShutSet, Unlock, Awake, QueueTypeOK
  <2> QED
    BY <1>0, <1>2, <2>1, MoreAwake DEF PushFull, PushThrows, ShutSet, QueueTypeOK
<1>3. CASE \E x \in Items : PushItem(t, x)
  BY <1>0, <1>3, PushWakes
<1>4. CASE PopTest(t) \/ PopSleep(t) \/ PopNull(t) \/ TryNull(t)
  BY <1>4, EmptyNeedsNobody
     DEF PopTest, Ready, PopSleep, PopNull, TryNull, QueueInv, SleepersSawNothing
<1>5. CASE PopSpurious(t)
  <2>1. Awake \subseteq Awake'
    BY <1>5, <1>0 DEF PopSpurious, Awake, QueueTypeOK
  <2> QED
    BY <1>0, <1>5, <2>1, MoreAwake DEF PopSpurious, QueueTypeOK
<1>6. CASE PopWake(t)
  <2>1. Awake \subseteq Awake'
    BY <1>6, <1>0 DEF PopWake, Awake, QueueTypeOK
  <2> QED
    BY <1>0, <1>6, <2>1, MoreAwake DEF PopWake, QueueTypeOK
<1>7. CASE PopItem(t)
  BY <1>0, <1>7, PopTakesItsItem
<1>8. CASE TryItem(t)
  <2>1. waiters' \subseteq waiters
    BY <1>8, NotifyOneShrinks DEF TryItem, TakeFront
  <2>2. Awake \subseteq Awake'
    BY <1>8, <1>0, <2>1 DEF TryItem, TakeFront, Unlock, Awake, QueueTypeOK
  <2>3. Len(queue_') <= Len(queue_)
    BY <1>8, <1>0 DEF TryItem, TakeFront, QueueTypeOK
  <2> QED
    BY <1>0, <2>1, <2>2, <2>3, MoreAwake
<1>9. CASE ShutNotify(t)
  BY <1>9 DEF ShutNotify, NoLostWakeup
<1> QED
  BY <1>1, <1>2, <1>3, <1>4, <1>5, <1>6, <1>7, <1>8, <1>9 DEF QueueStep

(* No notification is lost: while a thread is blocked in wait_and_pop(),   *)
(* every queued item has an awake thread of its own.                       *)
THEOREM NoLostWakeupCorrect == QueueSpec => []NoLostWakeup
<1>1. QueueInit => NoLostWakeup
  BY DEF QueueInit, NoLostWakeup
<1>2. QueueInv /\ NoLostWakeup /\ [QueueNext]_qvars => NoLostWakeup'
  <2> SUFFICES ASSUME QueueInv, NoLostWakeup, [QueueNext]_qvars PROVE NoLostWakeup'
    OBVIOUS
  <2>1. CASE UNCHANGED qvars
    BY <2>1 DEF NoLostWakeup, Awake, qvars
  <2>2. CASE QueueNext
    BY <2>2, NoLostWakeupStep DEF QueueNext
  <2> QED
    BY <2>1, <2>2
<1> QED
  BY <1>1, <1>2, QueueInvariant, PTL DEF QueueSpec

=============================================================================
