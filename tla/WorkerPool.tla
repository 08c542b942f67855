------------------------------ MODULE WorkerPool ------------------------------
(***************************************************************************)
(* What the worker-slot pool of the job scheduler promises, without its    *)
(* counter and its resolver array: a semaphore of Size slots served in     *)
(* arrival order.  Scheduler implements it (Scheduler!Pool).               *)
(***************************************************************************)
EXTENDS Naturals, Sequences, FiniteSets

CONSTANTS
  Jobs,   \* the jobs that may ask for a slot
  Size    \* the number of slots

VARIABLES
  holding,  \* jobs that hold a slot
  waiting,  \* jobs that wait for one, oldest first
  lost      \* slots whose holder went away without giving them back

poolVars == <<holding, waiting, lost>>

Free == Cardinality(holding) + lost < Size

PoolInit ==
  /\ holding = {}
  /\ waiting = <<>>
  /\ lost = 0

(* A job arrives: it takes a free slot or goes to the end of the line. *)
Acquire(j) ==
  /\ j \notin holding
  /\ \A i \in DOMAIN waiting : waiting[i] # j
  /\ IF Free THEN holding' = holding \cup {j} /\ waiting' = waiting
             ELSE holding' = holding /\ waiting' = Append(waiting, j)
  /\ UNCHANGED lost

(* A holder gives its slot back; the oldest waiter, if any, inherits it. *)
Release(j) ==
  /\ j \in holding
  /\ IF waiting = <<>>
       THEN holding' = holding \ {j} /\ waiting' = waiting
       ELSE /\ holding' = (holding \ {j}) \cup {Head(waiting)}
            /\ waiting' = Tail(waiting)
  /\ UNCHANGED lost

(* A holder vanishes and takes its slot with it. *)
Lose(j) ==
  /\ j \in holding
  /\ holding' = holding \ {j}
  /\ lost' = lost + 1
  /\ UNCHANGED waiting

PoolNext == \E j \in Jobs : Acquire(j) \/ Release(j) \/ Lose(j)

PoolSpec == PoolInit /\ [][PoolNext]_poolVars
===============================================================================
