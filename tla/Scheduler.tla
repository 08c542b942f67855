------------------------------ MODULE Scheduler ------------------------------
(***************************************************************************)
(* The job scheduler, server/core/scheduler.js: jobs that run once or      *)
(* repeat, in the server process (inline) or in a forked Node process      *)
(* (worker), the pool of MAX_CONCURRENT_WORKERS worker slots, the kill     *)
(* timer of a worker, Job.stop, and the scheduler's part of the graceful   *)
(* shutdown in server/core/kernel.js.                                      *)
(*                                                                         *)
(* A step is one run of the JavaScript event loop up to the next await, so *)
(* the code between two awaits is one action.                              *)
(***************************************************************************)
EXTENDS Integers, Sequences, FiniteSets

CONSTANTS
  Jobs,              \* Job objects; each one is registered at most once
  Workers,           \* jobs registered with worker: true
  Immediate,         \* jobs registered with immediate: true
  Repeating,         \* jobs registered with repeat: true
  Awaited,           \* jobs whose registrar goes on to `await job.finished`
  MaxWorkers,        \* MAX_CONCURRENT_WORKERS
  MaxForkFailures    \* bound: how many forks the operating system refuses

ASSUME JobsAssumption ==
  /\ IsFiniteSet(Jobs)
  /\ Workers \subseteq Immediate \ Repeating
  /\ Immediate \subseteq Jobs
  /\ Repeating \subseteq Jobs
  /\ Awaited \subseteq Immediate \ Repeating
ASSUME BoundsAssumption ==
  /\ MaxWorkers \in Nat \ {0}
  /\ MaxForkFailures \in Nat

VARIABLES
  activeWorkers,  \* module variable activeWorkers: slots in use
  workerQueue,    \* module variable workerQueue: whose resolver waits, oldest first
  jobs,           \* scheduler.jobs, the registered jobs
  stage,          \* where each job's invoke() is, see Stages
  finished,       \* the state of the promise job.finished refers to
  proc,           \* the child process of a worker job
  caller,         \* the code that registered an Awaited job
  phase,          \* kernel.shutdown as far as the scheduler goes
  shutdownWaits   \* jobs whose promise scheduler.stop() waits for

poolState == <<activeWorkers, workerQueue>>
vars == <<activeWorkers, workerQueue, jobs, stage, finished, proc,
          caller, phase, shutdownWaits>>

(***************************************************************************)
(* new      not registered yet                                             *)
(* timer    waits for its setTimeout                                       *)
(* waiting  awaits acquireWorkerSlot, its resolver is in workerQueue       *)
(* granted  the slot promise is resolved, the fork is yet to be made       *)
(* running  the child process, or the inline promise, is under way         *)
(* settled  `await this.finished` is over, the rest of invoke is to run    *)
(* done     nothing of this job will run again                             *)
(***************************************************************************)
Stages == {"new", "timer", "waiting", "granted", "running", "settled", "done"}
Inline == Jobs \ Workers

(* "initial" is the resolved promise the constructor stores. *)
Resolved(j) == finished[j] \in {"initial", "resolved"}

(* Worker jobs whose fork threw: they went on without returning their slot. *)
Unforked == {j \in Workers : stage[j] \in {"settled", "done"} /\ finished[j] = "initial"}
ForkFailures == Cardinality(Unforked) + Cardinality({j \in Workers : proc[j] = "unspawned"})

TypeOK ==
  /\ activeWorkers \in 0..MaxWorkers
  /\ workerQueue \in Seq(Workers)
  /\ jobs \subseteq Jobs
  /\ stage \in [Jobs -> Stages]
  /\ finished \in [Jobs -> {"initial", "pending", "resolved", "rejected"}]
  /\ proc \in [Jobs -> {"none", "alive", "killed", "unspawned"}]
  /\ caller \in [Jobs -> {"none", "early", "called", "returned", "threw"}]
  /\ phase \in {"up", "stopping", "down", "aborted"}
  /\ shutdownWaits \subseteq Jobs

Init ==
  /\ activeWorkers = 0
  /\ workerQueue = <<>>
  /\ jobs = {}
  /\ stage = [j \in Jobs |-> "new"]
  /\ finished = [j \in Jobs |-> "initial"]
  /\ proc = [j \in Jobs |-> "none"]
  /\ caller = [j \in Jobs |-> "none"]
  /\ phase = "up"
  /\ shutdownWaits = {}

-----------------------------------------------------------------------------
(* The worker-slot pool. *)

SlotFree_OffByOne == activeWorkers <= MaxWorkers
SlotFree == activeWorkers < MaxWorkers

(* acquireWorkerSlot, for the job whose invoke() calls it. *)
AcquireWorkerSlot(j) ==
  IF SlotFree
    THEN /\ activeWorkers' = activeWorkers + 1
         /\ stage' = [stage EXCEPT ![j] = "granted"]
         /\ UNCHANGED workerQueue
    ELSE /\ workerQueue' = Append(workerQueue, j)
         /\ stage' = [stage EXCEPT ![j] = "waiting"]
         /\ UNCHANGED activeWorkers

ReleaseWorkerSlot_NoHandover(j) ==
  /\ activeWorkers' = activeWorkers - 1
  /\ stage' = [stage EXCEPT ![j] = "settled"]
  /\ UNCHANGED workerQueue

ReleaseWorkerSlot_Decrements(j) ==
  /\ activeWorkers' = activeWorkers - 1
  /\ IF workerQueue = <<>>
       THEN stage' = [stage EXCEPT ![j] = "settled"] /\ UNCHANGED workerQueue
       ELSE /\ workerQueue' = Tail(workerQueue)
            /\ stage' = [stage EXCEPT ![j] = "settled", ![Head(workerQueue)] = "granted"]

(* releaseWorkerSlot, called by the exit handler of j, which then settles.  *)
(* A waiting job inherits the slot, so activeWorkers does not move.         *)
ReleaseWorkerSlot(j) ==
  IF workerQueue = <<>>
    THEN /\ activeWorkers' = activeWorkers - 1
         /\ stage' = [stage EXCEPT ![j] = "settled"]
         /\ UNCHANGED workerQueue
    ELSE /\ workerQueue' = Tail(workerQueue)
         /\ stage' = [stage EXCEPT ![j] = "settled", ![Head(workerQueue)] = "granted"]
         /\ UNCHANGED activeWorkers

-----------------------------------------------------------------------------
(* The life of a job. *)

(* A shutdown that failed leaves the process running. *)
ProcessUp == phase # "down"

(* Microtasks run before the next timer, signal or child event: a granted   *)
(* slot is used before any of these.                                        *)
NextEvent == ProcessUp /\ \A j \in Workers : stage[j] # "granted"

(* invoke() up to its first await: ask for a slot, or start the inline job. *)
Invoke(j) ==
  IF j \in Workers
    THEN /\ AcquireWorkerSlot(j)
         /\ UNCHANGED finished
    ELSE /\ stage' = [stage EXCEPT ![j] = "running"]
         /\ finished' = [finished EXCEPT ![j] = "pending"]
         /\ UNCHANGED poolState

(* registerJob, then the caller's `await` of the Job (not a promise, so one *)
(* microtask).  If invoke got a slot, its continuation is queued first and  *)
(* forks before the caller reads job.finished (CallerResumes).  If it is in *)
(* workerQueue, the caller reads the promise the constructor put there,     *)
(* which is resolved.                                                       *)
CallerAfterRegister(j) ==
  IF j \notin Awaited THEN "none"
  ELSE IF j \in Workers /\ ~SlotFree THEN "early"
  ELSE "called"

RegisterJob(j) ==
  /\ ProcessUp
  /\ stage[j] = "new"
  /\ jobs' = jobs \cup {j}
  /\ IF j \in Immediate
       THEN Invoke(j)
       ELSE stage' = [stage EXCEPT ![j] = "timer"] /\ UNCHANGED <<finished, poolState>>
  /\ caller' = [caller EXCEPT ![j] = CallerAfterRegister(j)]
  /\ UNCHANGED <<proc, phase, shutdownWaits>>

(* The setTimeout of enqueue fires. *)
TimerFires(j) ==
  /\ NextEvent
  /\ stage[j] = "timer"
  /\ Invoke(j)
  /\ UNCHANGED <<jobs, proc, caller, phase, shutdownWaits>>

Fork_KeepsPromise(j) ==
  /\ ProcessUp
  /\ stage[j] = "granted"
  /\ stage' = [stage EXCEPT ![j] = "running"]
  /\ proc' = [proc EXCEPT ![j] = "alive"]
  /\ UNCHANGED <<poolState, jobs, finished, caller, phase, shutdownWaits>>

(* The slot promise is resolved: fork, arm the kill timer and replace       *)
(* job.finished by a promise the exit handler settles.                      *)
Fork(j) ==
  /\ ProcessUp
  /\ stage[j] = "granted"
  /\ stage' = [stage EXCEPT ![j] = "running"]
  /\ finished' = [finished EXCEPT ![j] = "pending"]
  /\ proc' = [proc EXCEPT ![j] = "alive"]
  /\ UNCHANGED <<poolState, jobs, caller, phase, shutdownWaits>>

(* No descriptors left (EMFILE, ENFILE): fork returns a child without       *)
(* stderr, proc.stderr.on throws, and invoke's catch only logs.  The slot   *)
(* stays taken and job.finished is not replaced.                            *)
ForkThrows(j) ==
  /\ ProcessUp
  /\ stage[j] = "granted"
  /\ ForkFailures < MaxForkFailures
  /\ stage' = [stage EXCEPT ![j] = "settled"]
  /\ UNCHANGED <<poolState, jobs, finished, proc, caller, phase, shutdownWaits>>

(* No process could be made (EAGAIN, ENOENT): the child emits 'error',      *)
(* which has no listener here, and never emits 'exit'.                      *)
SpawnError(j) ==
  /\ ProcessUp
  /\ stage[j] = "granted"
  /\ ForkFailures < MaxForkFailures
  /\ stage' = [stage EXCEPT ![j] = "running"]
  /\ finished' = [finished EXCEPT ![j] = "pending"]
  /\ proc' = [proc EXCEPT ![j] = "unspawned"]
  /\ UNCHANGED <<poolState, jobs, caller, phase, shutdownWaits>>

KillTimeout_Cleared(j) == proc[j] = "alive" /\ FALSE /\ UNCHANGED vars

(* The kill timer of WORKER_TIMEOUT_MS: SIGKILL.  On a child that was never *)
(* spawned it does nothing.                                                 *)
KillTimeout(j) ==
  /\ NextEvent
  /\ proc[j] = "alive"
  /\ proc' = [proc EXCEPT ![j] = "killed"]
  /\ UNCHANGED <<poolState, jobs, stage, finished, caller, phase, shutdownWaits>>

(* The promise settles by the exit code, or as the inline promise does. *)
Settle(j, ok) == finished' = [finished EXCEPT ![j] = IF ok THEN "resolved" ELSE "rejected"]

(* The 'exit' event of a child: its slot goes on before its promise settles. *)
(* A child that exits just before SIGKILL reaches it still reports code 0.   *)
WorkerExit(j, ok) ==
  /\ NextEvent
  /\ proc[j] \in {"alive", "killed"}
  /\ proc' = [proc EXCEPT ![j] = "none"]
  /\ ReleaseWorkerSlot(j)
  /\ Settle(j, ok)
  /\ UNCHANGED <<jobs, caller, phase, shutdownWaits>>

(* The promise of an inline job settles. *)
InlineSettles(j, ok) ==
  /\ ProcessUp
  /\ j \in Inline
  /\ stage[j] = "running"
  /\ stage' = [stage EXCEPT ![j] = "settled"]
  /\ Settle(j, ok)
  /\ UNCHANGED <<poolState, jobs, proc, caller, phase, shutdownWaits>>

AfterRun_AlwaysRearms(j) ==
  /\ ProcessUp
  /\ stage[j] = "settled"
  /\ IF j \in Repeating
       THEN stage' = [stage EXCEPT ![j] = "timer"] /\ UNCHANGED jobs
       ELSE stage' = [stage EXCEPT ![j] = "done"] /\ jobs' = jobs \ {j}
  /\ UNCHANGED <<poolState, finished, proc, caller, phase, shutdownWaits>>

(* The rest of invoke, after try/catch: re-arm a repeating job that is      *)
(* still registered, stop any other.                                        *)
AfterRun(j) ==
  /\ ProcessUp
  /\ stage[j] = "settled"
  /\ IF j \in Repeating /\ j \in jobs
       THEN stage' = [stage EXCEPT ![j] = "timer"] /\ UNCHANGED jobs
       ELSE stage' = [stage EXCEPT ![j] = "done"] /\ jobs' = jobs \ {j}
  /\ UNCHANGED <<poolState, finished, proc, caller, phase, shutdownWaits>>

(* Job.stop on a set of jobs: clear their timers, drop them from the list. *)
StopEach(js) ==
  /\ jobs' = jobs \ js
  /\ stage' = [j \in Jobs |-> IF j \in js /\ stage[j] = "timer" THEN "done" ELSE stage[j]]

(* storage.initTargets stops the sync jobs of the previous configuration.   *)
StopJob(j) ==
  /\ ProcessUp
  /\ j \in jobs \cap Repeating
  /\ StopEach({j})
  /\ UNCHANGED <<poolState, finished, proc, caller, phase, shutdownWaits>>

-----------------------------------------------------------------------------
(* The code that registered a job and awaits it. *)

CallerResumes(j) ==
  /\ ProcessUp
  /\ caller[j] = "called"
  /\ stage[j] # "granted"
  /\ finished[j] # "pending"
  /\ caller' = [caller EXCEPT ![j] = IF Resolved(j) THEN "returned" ELSE "threw"]
  /\ UNCHANGED <<poolState, jobs, stage, finished, proc, phase, shutdownWaits>>

-----------------------------------------------------------------------------
(* kernel.shutdown: scheduler.stop() stops every registered job and awaits  *)
(* Promise.all of their promises, which rejects as soon as one of them does. *)
(* The promise of a job that waits for a slot is the resolved initial one.   *)

Shutdown ==
  /\ NextEvent
  /\ phase = "up"
  /\ phase' = "stopping"
  /\ shutdownWaits' = {j \in jobs : ~Resolved(j)}
  /\ StopEach(jobs)
  /\ UNCHANGED <<poolState, finished, proc, caller>>

SchedulerStopped ==
  /\ phase = "stopping"
  /\ \A j \in shutdownWaits : Resolved(j)
  /\ phase' = "down"
  /\ UNCHANGED <<poolState, jobs, stage, finished, proc, caller, shutdownWaits>>

(* The rejection leaves shutdown() before it closes the database and calls  *)
(* process.exit.                                                            *)
ShutdownThrows ==
  /\ phase = "stopping"
  /\ \E j \in shutdownWaits : finished[j] = "rejected"
  /\ phase' = "aborted"
  /\ UNCHANGED <<poolState, jobs, stage, finished, proc, caller, shutdownWaits>>

-----------------------------------------------------------------------------
JobStep(j) ==
  \/ RegisterJob(j)
  \/ TimerFires(j)
  \/ Fork(j)
  \/ ForkThrows(j)
  \/ SpawnError(j)
  \/ KillTimeout(j)
  \/ \E ok \in BOOLEAN : WorkerExit(j, ok)
  \/ \E ok \in BOOLEAN : InlineSettles(j, ok)
  \/ AfterRun(j)
  \/ StopJob(j)
  \/ CallerResumes(j)

Next ==
  \/ \E j \in Jobs : JobStep(j)
  \/ Shutdown
  \/ SchedulerStopped
  \/ ShutdownThrows

Spec == Init /\ [][Next]_vars

(***************************************************************************)
(* What runs of its own accord: timers fire, microtasks run, the kill      *)
(* timer goes off and a killed child exits.  Nothing makes a live child or *)
(* an inline job finish, nobody has to register, stop or shut down.        *)
(***************************************************************************)
Fairness ==
  /\ \A j \in Jobs :
       /\ WF_vars(TimerFires(j))
       /\ WF_vars(Fork(j))
       /\ WF_vars(KillTimeout(j))
       /\ WF_vars(proc[j] = "killed" /\ \E ok \in BOOLEAN : WorkerExit(j, ok))
       /\ WF_vars(AfterRun(j))
       /\ WF_vars(CallerResumes(j))
  /\ WF_vars(SchedulerStopped)
  /\ WF_vars(ShutdownThrows)

FairSpec == Spec /\ Fairness

-----------------------------------------------------------------------------
(* Properties. *)

Holders == {j \in Workers : stage[j] \in {"granted", "running"}}

(* Every slot is accounted for, a job queues only while the pool is full (no *)
(* waiter is ever forgotten next to a free slot), and the queue holds the    *)
(* waiting jobs, each of them once: scheduler.js:15-32, across every         *)
(* interleaving of registrations, exits, kills and failed forks.             *)
QueueIsWaiting ==
  /\ \A a, b \in DOMAIN workerQueue : workerQueue[a] = workerQueue[b] => a = b
  /\ \A j \in Jobs : stage[j] = "waiting" <=> \E i \in DOMAIN workerQueue : workerQueue[i] = j
SlotsAddUp == activeWorkers = Cardinality(Holders) + Cardinality(Unforked)
QueueOnlyWhenFull == workerQueue # <<>> => activeWorkers = MaxWorkers
PoolConsistent == QueueIsWaiting /\ SlotsAddUp /\ QueueOnlyWhenFull

(* Never more than MAX_CONCURRENT_WORKERS child processes at once           *)
(* (scheduler.js:8-10).                                                     *)
BoundedForks == Cardinality({j \in Jobs : proc[j] \in {"alive", "killed"}}) <= MaxWorkers

(* A job that was stopped while it ran never arms its timer again, and what *)
(* stays registered is what will run again or is running (scheduler.js      *)
(* 125-139).                                                                *)
OnlyRegisteredJobsRecur ==
  /\ \A j \in Jobs : stage[j] = "timer" => j \in jobs
  /\ \A j \in jobs : stage[j] \notin {"new", "done"}

(* `await job.finished` outlasts the run of a job that got a slot at once:  *)
(* its caller resumes only after the child has exited, or was not forked    *)
(* (scheduler.js:84-121, pages.js:905-927).  A job that had to queue is the *)
(* exception: its caller resumes "early".                                   *)
CallerWaitsForRun ==
  \A j \in Awaited : caller[j] \in {"returned", "threw"} => stage[j] \in {"settled", "done"}

(* The counter and the resolver array implement a FIFO semaphore. *)
Pool == INSTANCE WorkerPool WITH
  Jobs <- Workers, Size <- MaxWorkers,
  holding <- Holders, waiting <- workerQueue, lost <- Cardinality(Unforked)
ImplementsPool == Pool!PoolSpec

(* Unless a fork failed, a job that waits for a slot gets to run: a hung    *)
(* child ahead of it is killed after WORKER_TIMEOUT_MS and its slot moves   *)
(* on (scheduler.js:25-32, 97-104).                                         *)
QueuedJobRuns ==
  \A j \in Workers :
    stage[j] = "waiting" ~> (stage[j] = "running" \/ ForkFailures > 0 \/ phase = "down")

(* "Stop any future job invocation from occuring" (scheduler.js:133): a job *)
(* that is stopped while it waits for a slot is not given one.              *)
StoppedJobGetsNoSlot ==
  [][\A j \in Workers : stage[j] = "waiting" /\ j \notin jobs => stage'[j] = "waiting"]_vars
===============================================================================
