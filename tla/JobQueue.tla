------------------------------ MODULE JobQueue ------------------------------
(***************************************************************************)
(* What a queue of medusa/queues/generic_queue.py promises the rest of the *)
(* program: it accepts jobs, runs one at a time, and starts next the one   *)
(* of the highest priority, among those of one priority the oldest.        *)
(*                                                                         *)
(* GenericQueue implements it (GenericQueueProofs has the proof).          *)
(***************************************************************************)
EXTENDS Integers

CONSTANTS
  Item,        \* the jobs, each accepted at most once
  PriorityOf   \* item -> its priority

VARIABLES
  place,    \* item -> where it is
  arrived   \* item -> when it was accepted

Init ==
  /\ place = [i \in Item |-> "out"]
  /\ arrived = [i \in Item |-> 0]

\* Nothing that waits is younger than a job that arrives.
Accept(i) ==
  /\ place[i] = "out"
  /\ place' = [place EXCEPT ![i] = "waiting"]
  /\ arrived' = [arrived EXCEPT ![i] = arrived'[i]]
  /\ \A j \in Item : place[j] = "waiting" => arrived[j] <= arrived'[i]

\* i may start before j.
Precedes(i, j) ==
  \/ PriorityOf[j] < PriorityOf[i]
  \/ PriorityOf[j] = PriorityOf[i] /\ arrived[i] <= arrived[j]

Start(i) ==
  /\ place[i] = "waiting"
  /\ \A j \in Item : place[j] # "active"
  /\ \A j \in Item : place[j] = "waiting" => Precedes(i, j)
  /\ place' = [place EXCEPT ![i] = "active"]
  /\ UNCHANGED arrived

End(i) ==
  /\ place[i] = "active"
  /\ place' = [place EXCEPT ![i] = "done"]
  /\ UNCHANGED arrived

Next == \E i \in Item : Accept(i) \/ Start(i) \/ End(i)

Spec == Init /\ [][Next]_<<place, arrived>>
=============================================================================
