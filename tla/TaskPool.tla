------------------------------- MODULE TaskPool -------------------------------
(***************************************************************************)
(* What the thread pool promises its caller, without threads, locks or     *)
(* condition variables: a task that submit() accepts waits in FIFO order   *)
(* among at most Capacity others, is started once, ends, and shutdown()    *)
(* returns only when every accepted task has ended.  ThreadPool is shown   *)
(* to implement this specification, and TcpServer is built on it.          *)
(***************************************************************************)
EXTENDS Naturals, Sequences, FiniteSets

CONSTANTS
  Tasks,
  Width,      \* how many tasks run at the same time: the worker count
  Capacity

VARIABLES
  pending,    \* accepted, not started, oldest first
  executing,  \* started, not ended
  settled,    \* ended, refused, or lost to an exception of submit()
  phase       \* "open", then "closing" in shutdown(), then "closed"

poolVars == <<pending, executing, settled, phase>>

PoolInit ==
  /\ pending = <<>>
  /\ executing = {}
  /\ settled = {}
  /\ phase = "open"

Fresh(x) ==
  /\ x \notin executing \cup settled
  /\ \A i \in 1..Len(pending) : pending[i] # x

(* submit() returns true. *)
Accept(x) ==
  /\ Fresh(x)
  /\ phase = "open"
  /\ Len(pending) < Capacity
  /\ pending' = Append(pending, x)
  /\ UNCHANGED <<executing, settled, phase>>

(* submit() returns false, which it does only for a full or a closed pool. *)
Refuse(x) ==
  /\ Fresh(x)
  /\ phase # "open" \/ Len(pending) >= Capacity
  /\ settled' = settled \cup {x}
  /\ UNCHANGED <<pending, executing, phase>>

(* submit() throws: out of memory. *)
SubmitThrows(x) ==
  /\ Fresh(x)
  /\ phase = "open"
  /\ settled' = settled \cup {x}
  /\ UNCHANGED <<pending, executing, phase>>

Start ==
  /\ pending # <<>>
  /\ Cardinality(executing) < Width
  /\ executing' = executing \cup {Head(pending)}
  /\ pending' = Tail(pending)
  /\ UNCHANGED <<settled, phase>>

End(x) ==
  /\ x \in executing
  /\ executing' = executing \ {x}
  /\ settled' = settled \cup {x}
  /\ UNCHANGED <<pending, phase>>

(* shutdown() is called ... *)
Close ==
  /\ phase = "open"
  /\ phase' = "closing"
  /\ UNCHANGED <<pending, executing, settled>>

(* ... and returns. *)
Closed ==
  /\ phase = "closing"
  /\ pending = <<>>
  /\ executing = {}
  /\ phase' = "closed"
  /\ UNCHANGED <<pending, executing, settled>>

PoolNext ==
  \/ \E x \in Tasks : Accept(x) \/ Refuse(x) \/ SubmitThrows(x) \/ End(x)
  \/ Start
  \/ Close
  \/ Closed

PoolSpec == PoolInit /\ [][PoolNext]_poolVars

(* Every accepted task is started and ends, and shutdown() returns, as     *)
(* long as the tasks themselves end.                                       *)
PoolFairness ==
  /\ WF_poolVars(Start)
  /\ \A x \in Tasks : WF_poolVars(End(x))
  /\ WF_poolVars(Closed)

FairPoolSpec == PoolSpec /\ PoolFairness

=============================================================================
