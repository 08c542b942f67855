--------------------------- MODULE SchedulerProofs ---------------------------
(***************************************************************************)
(* Theorems about Scheduler, for every set of jobs and every number of     *)
(* worker slots.                                                           *)
(***************************************************************************)
EXTENDS Scheduler, FiniteSetTheorems, TLAPS

(* What ties a worker's child process and promise to its stage.            *)
ProcMatchesStage ==
  /\ \A j \in Workers :
       /\ proc[j] # "none" <=> stage[j] = "running"
       /\ stage[j] \in {"new", "waiting", "granted"} => finished[j] = "initial"
       /\ stage[j] = "running" => finished[j] = "pending"
       /\ stage[j] # "timer"
  /\ \A j \in Inline : proc[j] = "none" /\ stage[j] \notin {"waiting", "granted"}

(* The inductive invariant. *)
Inv == TypeOK /\ ProcMatchesStage /\ PoolConsistent

LEMMA FiniteParts ==
  /\ IsFiniteSet(Workers)
  /\ IsFiniteSet(Holders) /\ Cardinality(Holders) \in Nat
  /\ IsFiniteSet(Unforked) /\ Cardinality(Unforked) \in Nat
<1>1. IsFiniteSet(Workers)
  BY JobsAssumption, FS_Subset
<1>2. Holders \in SUBSET Workers /\ Unforked \in SUBSET Workers
  BY DEF Holders, Unforked
<1>3. QED
  BY <1>1, <1>2, FS_Subset, FS_CardinalityType

LEMMA InitInv == Init => Inv
<1> SUFFICES ASSUME Init PROVE Inv
  OBVIOUS
<1>1. TypeOK
  BY JobsAssumption, BoundsAssumption DEF Init, TypeOK, Stages
<1>2. ProcMatchesStage
  BY JobsAssumption DEF Init, ProcMatchesStage, Inline
<1>3. Holders = {} /\ Unforked = {}
  BY JobsAssumption DEF Init, Holders, Unforked
<1>4. PoolConsistent
  <2>1. QueueIsWaiting
    BY DEF Init, QueueIsWaiting
  <2>2. SlotsAddUp
    BY <1>3, FS_EmptySet DEF Init, SlotsAddUp
  <2>3. QED
    BY <2>1, <2>2 DEF PoolConsistent, QueueOnlyWhenFull, Init
<1>5. QED
  BY <1>1, <1>2, <1>4 DEF Inv

(***************************************************************************)
(* The pool moves in five ways.  Each lemma below says what one of them    *)
(* does to the accounting.                                                 *)
(***************************************************************************)

(* Steps that move no slot. *)
LEMMA QuietStep ==
  ASSUME Inv, UNCHANGED poolState,
         \A j \in Jobs : stage'[j] = "waiting" <=> stage[j] = "waiting",
         Holders' = Holders, Unforked' = Unforked
  PROVE  PoolConsistent'
<1>1. QueueIsWaiting'
  BY DEF Inv, PoolConsistent, QueueIsWaiting, poolState
<1>2. SlotsAddUp' /\ QueueOnlyWhenFull'
  BY DEF Inv, PoolConsistent, SlotsAddUp, QueueOnlyWhenFull, poolState
<1>3. QED
  BY <1>1, <1>2 DEF PoolConsistent

(* A job asks for a slot. *)
LEMMA AcquireStep ==
  ASSUME Inv, NEW j \in Workers, stage[j] \in {"new", "timer"},
         AcquireWorkerSlot(j), UNCHANGED finished
  PROVE  /\ activeWorkers' \in 0..MaxWorkers /\ workerQueue' \in Seq(Workers)
         /\ stage' \in [Jobs -> Stages]
         /\ Unforked' = Unforked
         /\ IF SlotFree THEN Holders' = Holders \cup {j} /\ j \notin Holders
                        ELSE Holders' = Holders
         /\ PoolConsistent'
<1> USE JobsAssumption, BoundsAssumption DEF Inv, TypeOK
<1>1. CASE SlotFree
  <2>1. /\ activeWorkers' = activeWorkers + 1 /\ workerQueue' = workerQueue
        /\ stage' = [stage EXCEPT ![j] = "granted"]
    BY <1>1 DEF AcquireWorkerSlot
  <2>2. activeWorkers' \in 0..MaxWorkers /\ workerQueue' \in Seq(Workers)
    BY <1>1, <2>1 DEF SlotFree
  <2>3. stage' \in [Jobs -> Stages]
    BY <2>1 DEF Stages
  <2>4. Unforked' = Unforked
    BY <2>1 DEF Unforked, Stages
  <2>5. Holders' = Holders \cup {j} /\ j \notin Holders
    BY <2>1 DEF Holders, Stages
  <2>6. QueueIsWaiting'
    BY <2>1 DEF PoolConsistent, QueueIsWaiting, Stages
  <2>7. SlotsAddUp'
    <3>1. Cardinality(Holders') = Cardinality(Holders) + 1
      BY <2>5, FiniteParts, FS_AddElement
    <3>2. QED
      BY <3>1, <2>1, <2>4, FiniteParts DEF PoolConsistent, SlotsAddUp
  <2>8. QueueOnlyWhenFull'
    BY <1>1, <2>1 DEF PoolConsistent, QueueOnlyWhenFull, SlotFree
  <2>9. QED
    BY <1>1, <2>2, <2>3, <2>4, <2>5, <2>6, <2>7, <2>8 DEF PoolConsistent
<1>2. CASE ~SlotFree
  <2>1. /\ activeWorkers' = activeWorkers /\ workerQueue' = Append(workerQueue, j)
        /\ stage' = [stage EXCEPT ![j] = "waiting"]
    BY <1>2 DEF AcquireWorkerSlot
  <2>2. activeWorkers' \in 0..MaxWorkers /\ workerQueue' \in Seq(Workers)
    BY <2>1
  <2>3. stage' \in [Jobs -> Stages]
    BY <2>1 DEF Stages
  <2>4. Unforked' = Unforked
    BY <2>1 DEF Unforked, Stages
  <2>5. Holders' = Holders
    BY <2>1 DEF Holders, Stages
  <2>6. QueueIsWaiting'
    <3>1. /\ DOMAIN workerQueue = 1..Len(workerQueue) /\ Len(workerQueue) \in Nat
          /\ DOMAIN workerQueue' = 1..(Len(workerQueue) + 1)
          /\ workerQueue'[Len(workerQueue) + 1] = j
          /\ \A i \in DOMAIN workerQueue : workerQueue'[i] = workerQueue[i]
      BY <2>1
    <3>2. \A i \in DOMAIN workerQueue : workerQueue[i] # j
      BY DEF PoolConsistent, QueueIsWaiting, Stages
    <3>3. \A a, b \in DOMAIN workerQueue' : workerQueue'[a] = workerQueue'[b] => a = b
      BY <3>1, <3>2 DEF PoolConsistent, QueueIsWaiting
    <3>4. \A k \in Jobs : stage'[k] = "waiting" <=> k = j \/ stage[k] = "waiting"
      BY <2>1
    <3>5. \A k \in Jobs : stage'[k] = "waiting" <=> \E i \in DOMAIN workerQueue' : workerQueue'[i] = k
      <4> SUFFICES ASSUME NEW k \in Jobs
                   PROVE  stage'[k] = "waiting" <=> \E i \in DOMAIN workerQueue' : workerQueue'[i] = k
        OBVIOUS
      <4>1. CASE k = j
        BY <4>1, <3>1, <3>4
      <4>2. CASE k # j
        BY <4>2, <3>1, <3>4 DEF PoolConsistent, QueueIsWaiting
      <4>3. QED
        BY <4>1, <4>2
    <3>6. QED
      BY <3>3, <3>5 DEF QueueIsWaiting
  <2>7. SlotsAddUp'
    BY <2>1, <2>4, <2>5 DEF PoolConsistent, SlotsAddUp
  <2>8. QueueOnlyWhenFull'
    BY <1>2, <2>1 DEF QueueOnlyWhenFull, SlotFree
  <2>9. QED
    BY <1>2, <2>2, <2>3, <2>4, <2>5, <2>6, <2>7, <2>8 DEF PoolConsistent
<1>3. QED
  BY <1>1, <1>2

(* A child exits: its slot goes to the oldest waiter, or back to the pool. *)
LEMMA ReleaseStep ==
  ASSUME Inv, NEW j \in Workers, stage[j] = "running", finished[j] = "pending",
         ReleaseWorkerSlot(j), NEW ok \in BOOLEAN, Settle(j, ok)
  PROVE  /\ activeWorkers' \in 0..MaxWorkers /\ workerQueue' \in Seq(Workers)
         /\ stage' \in [Jobs -> Stages]
         /\ Unforked' = Unforked
         /\ j \in Holders
         /\ IF workerQueue = <<>> THEN Holders' = Holders \ {j}
            ELSE /\ Head(workerQueue) \in Workers
                 /\ stage[Head(workerQueue)] = "waiting"
                 /\ stage' = [stage EXCEPT ![j] = "settled", ![Head(workerQueue)] = "granted"]
                 /\ Holders' = (Holders \ {j}) \cup {Head(workerQueue)}
         /\ PoolConsistent'
<1> USE JobsAssumption, BoundsAssumption DEF Inv, TypeOK
<1>1. finished'[j] \in {"resolved", "rejected"} /\ \A k \in Jobs \ {j} : finished'[k] = finished[k]
  BY DEF Settle
<1>2. j \in Holders
  BY DEF Holders
<1>3. CASE workerQueue = <<>>
  <2>1. /\ activeWorkers' = activeWorkers - 1 /\ workerQueue' = workerQueue
        /\ stage' = [stage EXCEPT ![j] = "settled"]
    BY <1>3 DEF ReleaseWorkerSlot
  <2>2. activeWorkers \in 1..MaxWorkers
    <3>1. Cardinality(Holders) > 0
      BY <1>2, FiniteParts, FS_EmptySet
    <3>2. QED
      BY <3>1, FiniteParts DEF PoolConsistent, SlotsAddUp
  <2>3. stage' \in [Jobs -> Stages]
    BY <2>1 DEF Stages
  <2>4. Unforked' = Unforked
    BY <1>1, <2>1 DEF Unforked
  <2>5. Holders' = Holders \ {j}
    BY <2>1 DEF Holders
  <2>6. QueueIsWaiting'
    BY <2>1 DEF PoolConsistent, QueueIsWaiting
  <2>7. SlotsAddUp'
    <3>1. Cardinality(Holders') = Cardinality(Holders) - 1
      BY <1>2, <2>5, FiniteParts, FS_RemoveElement
    <3>2. QED
      BY <3>1, <2>1, <2>4, FiniteParts DEF PoolConsistent, SlotsAddUp
  <2>8. QueueOnlyWhenFull'
    BY <1>3, <2>1 DEF QueueOnlyWhenFull
  <2>9. QED
    BY <1>2, <1>3, <2>1, <2>2, <2>3, <2>4, <2>5, <2>6, <2>7, <2>8 DEF PoolConsistent
<1>4. CASE workerQueue # <<>>
  <2> DEFINE h == Head(workerQueue)
  <2>1. /\ activeWorkers' = activeWorkers /\ workerQueue' = Tail(workerQueue)
        /\ stage' = [stage EXCEPT ![j] = "settled", ![h] = "granted"]
    BY <1>4 DEF ReleaseWorkerSlot
  <2>2. /\ Len(workerQueue) \in Nat \ {0} /\ DOMAIN workerQueue = 1..Len(workerQueue)
        /\ DOMAIN workerQueue' = 1..(Len(workerQueue) - 1)
        /\ \A i \in DOMAIN workerQueue' : workerQueue'[i] = workerQueue[i + 1]
        /\ h = workerQueue[1] /\ h \in Workers /\ workerQueue' \in Seq(Workers)
    BY <1>4, <2>1
  <2>3. stage[h] = "waiting" /\ h # j
    BY <2>2 DEF PoolConsistent, QueueIsWaiting
  <2>4. /\ stage'[j] = "settled" /\ stage'[h] = "granted"
        /\ \A k \in Jobs \ {j, h} : stage'[k] = stage[k]
        /\ stage' \in [Jobs -> Stages]
    BY <2>1, <2>2, <2>3 DEF Stages
  <2>5. Unforked' = Unforked
    BY <1>1, <2>2, <2>3, <2>4 DEF Unforked
  <2>6. Holders' = (Holders \ {j}) \cup {h} /\ h \notin Holders \ {j}
    BY <2>2, <2>3, <2>4 DEF Holders
  <2>7. QueueIsWaiting'
    <3>1. ASSUME NEW a \in DOMAIN workerQueue', NEW b \in DOMAIN workerQueue',
                 workerQueue'[a] = workerQueue'[b]
          PROVE  a = b
      <4>1. /\ a \in Nat /\ b \in Nat
            /\ a + 1 \in DOMAIN workerQueue /\ b + 1 \in DOMAIN workerQueue
            /\ workerQueue[a + 1] = workerQueue[b + 1]
        BY <2>2, <3>1
      <4>2. a + 1 = b + 1
        BY <4>1 DEF PoolConsistent, QueueIsWaiting
      <4>3. QED
        BY <4>1, <4>2
    <3>2. ASSUME NEW k \in Jobs
          PROVE  stage'[k] = "waiting" <=> \E i \in DOMAIN workerQueue' : workerQueue'[i] = k
      <4>1. stage'[k] = "waiting" <=> stage[k] = "waiting" /\ k # h
        BY <2>3, <2>4
      <4>2. stage[k] = "waiting" <=> \E i \in DOMAIN workerQueue : workerQueue[i] = k
        BY DEF PoolConsistent, QueueIsWaiting
      <4>3. ASSUME NEW i \in DOMAIN workerQueue, workerQueue[i] = k, k # h
            PROVE  \E m \in DOMAIN workerQueue' : workerQueue'[m] = k
        <5>1. i # 1 /\ i - 1 \in DOMAIN workerQueue' /\ workerQueue'[i - 1] = k
          BY <2>2, <4>3
        <5>2. QED
          BY <5>1
      <4>4. ASSUME NEW m \in DOMAIN workerQueue', workerQueue'[m] = k
            PROVE  k # h /\ m + 1 \in DOMAIN workerQueue /\ workerQueue[m + 1] = k
        <5>1. m + 1 \in DOMAIN workerQueue /\ workerQueue[m + 1] = k /\ 1 \in DOMAIN workerQueue /\ m + 1 # 1
          BY <2>2, <4>4
        <5>2. QED
          BY <5>1, <2>2 DEF PoolConsistent, QueueIsWaiting
      <4>5. QED
        BY <4>1, <4>2, <4>3, <4>4
    <3>3. QED
      BY <3>1, <3>2 DEF QueueIsWaiting
  <2>8. SlotsAddUp'
    <3>1. IsFiniteSet(Holders \ {j}) /\ Cardinality(Holders \ {j}) = Cardinality(Holders) - 1
      BY <1>2, FiniteParts, FS_RemoveElement
    <3>2. Cardinality(Holders') = Cardinality(Holders \ {j}) + 1
      BY <2>6, <3>1, FS_AddElement
    <3>3. QED
      BY <3>1, <3>2, <2>1, <2>5, FiniteParts DEF PoolConsistent, SlotsAddUp
  <2>9. QueueOnlyWhenFull'
    BY <1>4, <2>1 DEF PoolConsistent, QueueOnlyWhenFull
  <2>10. QED
    BY <1>2, <1>4, <2>1, <2>2, <2>3, <2>4, <2>5, <2>6, <2>7, <2>8, <2>9 DEF PoolConsistent
<1>5. QED
  BY <1>3, <1>4

(* A fork throws: the job goes on without its slot. *)
LEMMA LoseStep ==
  ASSUME Inv, NEW j \in Jobs, ForkThrows(j)
  PROVE  /\ j \in Workers
         /\ j \in Holders /\ Holders' = Holders \ {j}
         /\ j \notin Unforked /\ Unforked' = Unforked \cup {j}
         /\ Cardinality(Unforked') = Cardinality(Unforked) + 1
         /\ PoolConsistent'
<1> USE JobsAssumption, BoundsAssumption DEF Inv, TypeOK
<1>1. j \in Workers /\ stage[j] = "granted" /\ finished[j] = "initial"
  BY DEF ForkThrows, ProcMatchesStage, Inline
<1>2. stage' = [stage EXCEPT ![j] = "settled"] /\ finished' = finished /\ UNCHANGED poolState
  BY DEF ForkThrows
<1>3. j \in Holders /\ Holders' = Holders \ {j}
  BY <1>1, <1>2 DEF Holders
<1>4. j \notin Unforked /\ Unforked' = Unforked \cup {j}
  BY <1>1, <1>2 DEF Unforked
<1>5. QueueIsWaiting'
  BY <1>1, <1>2 DEF PoolConsistent, QueueIsWaiting, poolState
<1>6. /\ Cardinality(Holders') = Cardinality(Holders) - 1
      /\ Cardinality(Unforked') = Cardinality(Unforked) + 1
  BY <1>3, <1>4, FiniteParts, FS_AddElement, FS_RemoveElement
<1>7. SlotsAddUp' /\ QueueOnlyWhenFull'
  BY <1>2, <1>6, FiniteParts DEF PoolConsistent, SlotsAddUp, QueueOnlyWhenFull, poolState
<1>8. QED
  BY <1>1, <1>3, <1>4, <1>5, <1>6, <1>7 DEF PoolConsistent

(***************************************************************************)
(* Every step keeps the invariant.                                         *)
(***************************************************************************)

(* Steps that leave the stage of every worker alone, or move it among new, *)
(* timer, settled and done, hold no slot before or after.                  *)
LEMMA HoldersUnchanged ==
  ASSUME Inv, NEW j \in Jobs, NEW s \in Stages \ {"waiting", "granted", "running"},
         stage' = [stage EXCEPT ![j] = s],
         j \in Workers => /\ stage[j] \notin {"waiting", "granted", "running"}
                          /\ stage[j] \in {"settled", "done"} <=> s \in {"settled", "done"},
         UNCHANGED poolState,
         \A k \in Workers : finished'[k] = finished[k]
  PROVE  Holders' = Holders /\ Unforked' = Unforked /\ PoolConsistent'
<1> USE JobsAssumption DEF Inv, TypeOK
<1>1. Holders' = Holders
  BY DEF Holders, Stages
<1>2. Unforked' = Unforked
  BY DEF Unforked, Stages
<1>3. \A k \in Jobs : stage'[k] = "waiting" <=> stage[k] = "waiting"
  BY DEF ProcMatchesStage, Inline
<1>4. QED
  BY <1>1, <1>2, <1>3, QuietStep

LEMMA StopKeepsPool ==
  ASSUME Inv, NEW js, StopEach(js), UNCHANGED <<poolState, finished, proc>>
  PROVE  /\ stage' \in [Jobs -> Stages] /\ \A j \in Workers : stage'[j] = stage[j]
         /\ Holders' = Holders /\ Unforked' = Unforked
         /\ ProcMatchesStage' /\ PoolConsistent'
<1> USE JobsAssumption DEF Inv, TypeOK
<1>1. /\ stage' \in [Jobs -> Stages]
      /\ \A j \in Workers : stage'[j] = stage[j]
      /\ \A j \in Jobs : stage'[j] = stage[j] \/ (stage[j] = "timer" /\ stage'[j] = "done")
  BY DEF StopEach, ProcMatchesStage, Stages
<1>2. Holders' = Holders /\ Unforked' = Unforked
  BY <1>1 DEF Holders, Unforked
<1>3. ProcMatchesStage'
  BY <1>1 DEF ProcMatchesStage, Inline
<1>4. \A j \in Jobs : stage'[j] = "waiting" <=> stage[j] = "waiting"
  BY <1>1
<1>5. QED
  BY <1>1, <1>2, <1>3, <1>4, QuietStep

LEMMA JobStepInv ==
  ASSUME Inv, NEW j \in Jobs, JobStep(j)
  PROVE  Inv'
<1> USE JobsAssumption, BoundsAssumption
<1>1. CASE RegisterJob(j) /\ j \in Workers
  <2>1. AcquireWorkerSlot(j) /\ UNCHANGED finished /\ stage[j] = "new"
    BY <1>1 DEF RegisterJob, Invoke
  <2>2. /\ activeWorkers' \in 0..MaxWorkers /\ workerQueue' \in Seq(Workers)
        /\ stage' \in [Jobs -> Stages] /\ PoolConsistent'
    BY <1>1, <2>1, AcquireStep
  <2>3. TypeOK'
    BY <1>1, <2>1, <2>2 DEF Inv, TypeOK, RegisterJob, CallerAfterRegister
  <2>4. ProcMatchesStage'
    <3>1. stage'[j] \in {"granted", "waiting"} /\ \A k \in Jobs \ {j} : stage'[k] = stage[k]
      BY <2>1 DEF AcquireWorkerSlot, Inv, TypeOK
    <3>2. proc' = proc /\ finished' = finished
      BY <1>1, <2>1 DEF RegisterJob
    <3>3. QED
      BY <1>1, <2>1, <3>1, <3>2 DEF Inv, ProcMatchesStage, Inline
  <2>5. QED
    BY <2>2, <2>3, <2>4 DEF Inv
<1>2. CASE (RegisterJob(j) \/ TimerFires(j)) /\ j \notin Workers
  <2>1. PICK s \in {"running", "timer"} :
          /\ stage' = [stage EXCEPT ![j] = s]
          /\ UNCHANGED <<poolState, proc>>
          /\ finished' \in [Jobs -> {"initial", "pending", "resolved", "rejected"}]
          /\ \A k \in Jobs \ {j} : finished'[k] = finished[k]
    BY <1>2 DEF RegisterJob, TimerFires, Invoke, Inv, TypeOK
  <2>2. TypeOK'
    BY <1>2, <2>1 DEF Inv, TypeOK, Stages, RegisterJob, TimerFires, CallerAfterRegister, poolState
  <2>3. ProcMatchesStage'
    BY <1>2, <2>1 DEF Inv, TypeOK, ProcMatchesStage, Inline
  <2>4. PoolConsistent'
    <3>1. Holders' = Holders /\ Unforked' = Unforked
      BY <1>2, <2>1 DEF Inv, TypeOK, Holders, Unforked
    <3>2. \A k \in Jobs : stage'[k] = "waiting" <=> stage[k] = "waiting"
      BY <1>2, <2>1 DEF Inv, TypeOK, ProcMatchesStage, Inline
    <3>3. QED
      BY <2>1, <3>1, <3>2, QuietStep
  <2>5. QED
    BY <2>2, <2>3, <2>4 DEF Inv
<1>3. CASE Fork(j) \/ SpawnError(j)
  <2>1. /\ j \in Workers /\ stage[j] = "granted"
        /\ stage' = [stage EXCEPT ![j] = "running"]
        /\ finished' = [finished EXCEPT ![j] = "pending"]
        /\ \E p \in {"alive", "unspawned"} : proc' = [proc EXCEPT ![j] = p]
        /\ UNCHANGED <<poolState, jobs, caller, phase, shutdownWaits>>
    BY <1>3 DEF Fork, SpawnError, Inv, ProcMatchesStage, Inline
  <2>2. TypeOK'
    BY <2>1 DEF Inv, TypeOK, Stages, poolState
  <2>3. ProcMatchesStage'
    BY <2>1 DEF Inv, TypeOK, ProcMatchesStage, Inline
  <2>4. PoolConsistent'
    <3>1. Holders' = Holders /\ Unforked' = Unforked
      BY <2>1 DEF Inv, TypeOK, Holders, Unforked
    <3>2. \A k \in Jobs : stage'[k] = "waiting" <=> stage[k] = "waiting"
      BY <2>1 DEF Inv, TypeOK
    <3>3. QED
      BY <2>1, <3>1, <3>2, QuietStep
  <2>5. QED
    BY <2>2, <2>3, <2>4 DEF Inv
<1>4. CASE ForkThrows(j)
  <2>1. j \in Workers /\ PoolConsistent'
    BY <1>4, LoseStep
  <2>2. TypeOK'
    BY <1>4 DEF ForkThrows, Inv, TypeOK, Stages, poolState
  <2>3. ProcMatchesStage'
    BY <1>4, <2>1 DEF ForkThrows, Inv, TypeOK, ProcMatchesStage, Inline
  <2>4. QED
    BY <2>1, <2>2, <2>3 DEF Inv
<1>5. CASE KillTimeout(j)
  <2>1. TypeOK'
    BY <1>5 DEF KillTimeout, Inv, TypeOK, poolState
  <2>2. ProcMatchesStage'
    BY <1>5 DEF KillTimeout, Inv, TypeOK, ProcMatchesStage, Inline
  <2>3. PoolConsistent'
    <3>1. UNCHANGED <<poolState, stage, finished>>
      BY <1>5 DEF KillTimeout
    <3>2. Holders' = Holders /\ Unforked' = Unforked
      BY <3>1 DEF Holders, Unforked
    <3>3. QED
      BY <3>1, <3>2, QuietStep
  <2>4. QED
    BY <2>1, <2>2, <2>3 DEF Inv
<1>6. ASSUME NEW ok \in BOOLEAN, WorkerExit(j, ok)
      PROVE  Inv'
  <2>1. /\ j \in Workers /\ stage[j] = "running" /\ finished[j] = "pending"
        /\ ReleaseWorkerSlot(j) /\ Settle(j, ok)
    BY <1>6 DEF WorkerExit, Inv, TypeOK, ProcMatchesStage, Inline
  <2>2. /\ activeWorkers' \in 0..MaxWorkers /\ workerQueue' \in Seq(Workers)
        /\ stage' \in [Jobs -> Stages] /\ PoolConsistent'
        /\ workerQueue # <<>> =>
             /\ Head(workerQueue) \in Workers /\ stage[Head(workerQueue)] = "waiting"
             /\ stage' = [stage EXCEPT ![j] = "settled", ![Head(workerQueue)] = "granted"]
    BY <2>1, ReleaseStep
  <2>3. TypeOK'
    BY <1>6, <2>1, <2>2 DEF Inv, TypeOK, WorkerExit, Settle
  <2>4. ProcMatchesStage'
    <3>1. /\ stage'[j] = "settled" /\ proc'[j] = "none"
          /\ \A k \in Jobs \ {j} : proc'[k] = proc[k] /\ finished'[k] = finished[k]
      BY <1>6, <2>1, <2>2 DEF Inv, TypeOK, WorkerExit, Settle, ReleaseWorkerSlot
    <3>2. \A k \in Jobs \ {j} :
            stage'[k] = stage[k] \/ (k \in Workers /\ stage[k] = "waiting" /\ stage'[k] = "granted")
      BY <2>1, <2>2 DEF Inv, TypeOK, ReleaseWorkerSlot
    <3>3. QED
      BY <3>1, <3>2, <2>1 DEF Inv, TypeOK, ProcMatchesStage, Inline
  <2>5. QED
    BY <2>2, <2>3, <2>4 DEF Inv
<1>7. ASSUME NEW ok \in BOOLEAN, InlineSettles(j, ok)
      PROVE  Inv'
  <2>1. /\ j \notin Workers
        /\ stage' = [stage EXCEPT ![j] = "settled"] /\ UNCHANGED poolState
        /\ \A k \in Workers : finished'[k] = finished[k]
    BY <1>7 DEF InlineSettles, Settle, Inline, Inv, TypeOK
  <2>2. TypeOK'
    BY <1>7 DEF InlineSettles, Settle, Inv, TypeOK, Stages, poolState
  <2>3. ProcMatchesStage'
    BY <1>7, <2>1 DEF InlineSettles, Inv, TypeOK, ProcMatchesStage, Inline
  <2>4. PoolConsistent'
    BY <2>1, HoldersUnchanged DEF Stages
  <2>5. QED
    BY <2>2, <2>3, <2>4 DEF Inv
<1>8. CASE AfterRun(j)
  <2>1. PICK s \in {"timer", "done"} :
          /\ stage' = [stage EXCEPT ![j] = s] /\ stage[j] = "settled"
          /\ j \in Workers => s = "done"
          /\ jobs' \subseteq jobs
          /\ UNCHANGED <<poolState, finished, proc, caller, phase, shutdownWaits>>
    BY <1>8 DEF AfterRun
  <2>2. TypeOK'
    BY <2>1 DEF Inv, TypeOK, Stages, poolState
  <2>3. ProcMatchesStage'
    BY <2>1 DEF Inv, TypeOK, ProcMatchesStage, Inline
  <2>4. PoolConsistent'
    BY <2>1, HoldersUnchanged DEF Stages
  <2>5. QED
    BY <2>2, <2>3, <2>4 DEF Inv
<1>9. CASE StopJob(j)
  <2>1. StopEach({j}) /\ UNCHANGED <<poolState, finished, proc, caller, phase, shutdownWaits>>
    BY <1>9 DEF StopJob
  <2>2. stage' \in [Jobs -> Stages] /\ ProcMatchesStage' /\ PoolConsistent'
    BY <2>1, StopKeepsPool
  <2>3. TypeOK'
    BY <2>1, <2>2 DEF Inv, TypeOK, StopEach, poolState
  <2>4. QED
    BY <2>2, <2>3 DEF Inv
<1>10. CASE CallerResumes(j)
  <2>1. UNCHANGED <<poolState, jobs, stage, finished, proc, phase, shutdownWaits>>
    BY <1>10 DEF CallerResumes
  <2>2. TypeOK'
    BY <1>10, <2>1 DEF CallerResumes, Inv, TypeOK, poolState
  <2>3. ProcMatchesStage'
    BY <2>1 DEF Inv, ProcMatchesStage
  <2>4. Holders' = Holders /\ Unforked' = Unforked
    BY <2>1 DEF Holders, Unforked
  <2>5. QED
    BY <2>1, <2>2, <2>3, <2>4, QuietStep DEF Inv
<1>11. CASE TimerFires(j) /\ j \in Workers
  BY <1>11 DEF TimerFires, Inv, ProcMatchesStage
<1>12. QED
  BY <1>1, <1>2, <1>3, <1>4, <1>5, <1>6, <1>7, <1>8, <1>9, <1>10, <1>11 DEF JobStep

LEMMA NextInv == Inv /\ [Next]_vars => Inv'
<1> SUFFICES ASSUME Inv, [Next]_vars PROVE Inv'
  OBVIOUS
<1>1. CASE \E j \in Jobs : JobStep(j)
  BY <1>1, JobStepInv
<1>2. CASE Shutdown
  <2>1. StopEach(jobs) /\ UNCHANGED <<poolState, finished, proc, caller>>
    BY <1>2 DEF Shutdown
  <2>2. stage' \in [Jobs -> Stages] /\ ProcMatchesStage' /\ PoolConsistent'
    BY <2>1, StopKeepsPool
  <2>3. TypeOK'
    BY <1>2, <2>1, <2>2 DEF Inv, TypeOK, Shutdown, StopEach, poolState
  <2>4. QED
    BY <2>2, <2>3 DEF Inv
<1>3. CASE SchedulerStopped \/ ShutdownThrows \/ UNCHANGED vars
  <2>1. /\ UNCHANGED <<poolState, jobs, stage, finished, proc, caller, shutdownWaits>>
        /\ phase' = phase \/ phase' \in {"down", "aborted"}
    BY <1>3 DEF SchedulerStopped, ShutdownThrows, vars, poolState
  <2>2. TypeOK'
    BY <2>1 DEF Inv, TypeOK, poolState
  <2>3. ProcMatchesStage'
    BY <2>1 DEF Inv, ProcMatchesStage
  <2>4. Holders' = Holders /\ Unforked' = Unforked
    BY <2>1 DEF Holders, Unforked
  <2>5. QED
    BY <2>1, <2>2, <2>3, <2>4, QuietStep DEF Inv
<1>4. QED
  BY <1>1, <1>2, <1>3 DEF Next

LEMMA Invariance == Spec => []Inv
  BY InitInv, NextInv, PTL DEF Spec

(* Every variable keeps its type, the counter stays within 0..MaxWorkers    *)
(* (scheduler.js:10-32).                                                    *)
THEOREM TypeCorrect == Spec => []TypeOK
  BY Invariance, PTL DEF Inv

(* However jobs are registered, run, fail to fork, hang and get killed, the *)
(* pool loses no slot it does not know of and forgets no waiter.            *)
THEOREM PoolIsConsistent == Spec => []PoolConsistent
  BY Invariance, PTL DEF Inv

(* There are never more child processes than MAX_CONCURRENT_WORKERS.        *)
THEOREM ForksAreBounded == Spec => []BoundedForks
<1>1. Inv => BoundedForks
  <2> SUFFICES ASSUME Inv PROVE BoundedForks
    OBVIOUS
  <2> DEFINE Children == {j \in Jobs : proc[j] \in {"alive", "killed"}}
  <2>1. Children \in SUBSET Holders
    BY DEF Inv, ProcMatchesStage, Inline, Holders
  <2>2. Cardinality(Children) <= Cardinality(Holders) /\ Cardinality(Children) \in Nat
    BY <2>1, FiniteParts, FS_Subset, FS_CardinalityType
  <2>3. Cardinality(Holders) <= activeWorkers
    BY FiniteParts DEF Inv, PoolConsistent, SlotsAddUp
  <2>4. activeWorkers \in 0..MaxWorkers /\ MaxWorkers \in Nat
    BY BoundsAssumption DEF Inv, TypeOK
  <2>5. QED
    BY <2>2, <2>3, <2>4, FiniteParts DEF BoundedForks
<1>2. QED
  BY Invariance, <1>1, PTL

(***************************************************************************)
(* The pool implements WorkerPool.                                         *)
(***************************************************************************)

(* The counter test of acquireWorkerSlot is the semaphore's.               *)
LEMMA FreeIsSlotFree == Inv => (Pool!Free <=> SlotFree)
<1>1. Pool!Cardinality(Holders) = Cardinality(Holders)
  BY DEF Pool!Cardinality, Cardinality, Pool!IsFiniteSet, IsFiniteSet
<1>2. QED
  BY <1>1, FiniteParts, BoundsAssumption
  DEF Inv, TypeOK, PoolConsistent, SlotsAddUp, Pool!Free, SlotFree

LEMMA QuietRefines ==
  ASSUME Holders' = Holders, Unforked' = Unforked, workerQueue' = workerQueue
  PROVE  UNCHANGED Pool!poolVars
  BY DEF Pool!poolVars

LEMMA AcquireRefines ==
  ASSUME Inv, NEW j \in Workers, stage[j] \in {"new", "timer"},
         AcquireWorkerSlot(j), UNCHANGED finished
  PROVE  Pool!Acquire(j)
<1>1. j \notin Holders
  BY DEF Holders
<1>2. \A i \in DOMAIN workerQueue : workerQueue[i] # j
  BY JobsAssumption DEF Inv, PoolConsistent, QueueIsWaiting
<1>3. /\ Unforked' = Unforked
      /\ IF SlotFree THEN Holders' = Holders \cup {j} ELSE Holders' = Holders
  BY AcquireStep
<1>4. IF SlotFree THEN workerQueue' = workerQueue ELSE workerQueue' = Append(workerQueue, j)
  BY DEF AcquireWorkerSlot
<1>5. QED
  BY <1>1, <1>2, <1>3, <1>4, FreeIsSlotFree DEF Pool!Acquire

LEMMA JobStepRefines ==
  ASSUME Inv, NEW j \in Jobs, JobStep(j)
  PROVE  Pool!PoolNext \/ UNCHANGED Pool!poolVars
<1> USE JobsAssumption
<1>1. CASE (RegisterJob(j) \/ TimerFires(j)) /\ j \in Workers
  <2>1. AcquireWorkerSlot(j) /\ UNCHANGED finished /\ stage[j] \in {"new", "timer"}
    BY <1>1 DEF RegisterJob, TimerFires, Invoke
  <2>2. Pool!Acquire(j)
    BY <1>1, <2>1, AcquireRefines
  <2>3. QED
    BY <1>1, <2>2 DEF Pool!PoolNext
<1>2. CASE (RegisterJob(j) \/ TimerFires(j) \/ AfterRun(j)) /\ j \notin Workers
  <2>1. /\ \A k \in Jobs \ {j} : stage'[k] = stage[k] /\ finished'[k] = finished[k]
        /\ workerQueue' = workerQueue
    BY <1>2 DEF RegisterJob, TimerFires, AfterRun, Invoke, Inv, TypeOK, poolState
  <2>2. Holders' = Holders /\ Unforked' = Unforked
    BY <1>2, <2>1 DEF Holders, Unforked
  <2>3. QED
    BY <2>1, <2>2, QuietRefines
<1>3. CASE Fork(j) \/ SpawnError(j)
  <2>1. /\ stage[j] = "granted" /\ stage' = [stage EXCEPT ![j] = "running"]
        /\ finished' = [finished EXCEPT ![j] = "pending"] /\ workerQueue' = workerQueue
    BY <1>3 DEF Fork, SpawnError, poolState
  <2>2. Holders' = Holders /\ Unforked' = Unforked
    BY <2>1 DEF Inv, TypeOK, Holders, Unforked
  <2>3. QED
    BY <2>1, <2>2, QuietRefines
<1>4. CASE ForkThrows(j)
  <2>1. Pool!Lose(j) /\ j \in Workers
    BY <1>4, LoseStep DEF Pool!Lose, ForkThrows, poolState
  <2>2. QED
    BY <2>1 DEF Pool!PoolNext
<1>5. ASSUME NEW ok \in BOOLEAN, WorkerExit(j, ok)
      PROVE  Pool!PoolNext
  <2>1. /\ j \in Workers /\ stage[j] = "running" /\ finished[j] = "pending"
        /\ ReleaseWorkerSlot(j) /\ Settle(j, ok)
    BY <1>5 DEF WorkerExit, Inv, TypeOK, ProcMatchesStage, Inline
  <2>2. /\ j \in Holders /\ Unforked' = Unforked
        /\ IF workerQueue = <<>> THEN Holders' = Holders \ {j}
           ELSE Holders' = (Holders \ {j}) \cup {Head(workerQueue)}
    BY <2>1, ReleaseStep
  <2>3. IF workerQueue = <<>> THEN workerQueue' = workerQueue ELSE workerQueue' = Tail(workerQueue)
    BY <2>1 DEF ReleaseWorkerSlot
  <2>4. Pool!Release(j)
    BY <2>2, <2>3 DEF Pool!Release
  <2>5. QED
    BY <2>1, <2>4 DEF Pool!PoolNext
<1>6. CASE (\E ok \in BOOLEAN : InlineSettles(j, ok)) \/ KillTimeout(j) \/ CallerResumes(j)
  <2>1. /\ \A k \in Workers : stage'[k] = stage[k] /\ finished'[k] = finished[k]
        /\ workerQueue' = workerQueue
    BY <1>6 DEF InlineSettles, Settle, Inline, KillTimeout, CallerResumes, Inv, TypeOK, poolState
  <2>2. Holders' = Holders /\ Unforked' = Unforked
    BY <2>1 DEF Holders, Unforked
  <2>3. QED
    BY <2>1, <2>2, QuietRefines
<1>7. CASE AfterRun(j) /\ j \in Workers
  <2>1. /\ stage[j] = "settled" /\ stage' = [stage EXCEPT ![j] = "done"]
        /\ finished' = finished /\ workerQueue' = workerQueue
    BY <1>7 DEF AfterRun, poolState
  <2>2. Holders' = Holders /\ Unforked' = Unforked
    BY <2>1 DEF Inv, TypeOK, Holders, Unforked
  <2>3. QED
    BY <2>1, <2>2, QuietRefines
<1>8. CASE StopJob(j)
  <2>1. StopEach({j}) /\ UNCHANGED <<poolState, finished, proc>> /\ workerQueue' = workerQueue
    BY <1>8 DEF StopJob, poolState
  <2>2. QED
    BY <2>1, StopKeepsPool, QuietRefines
<1>9. QED
  BY <1>1, <1>2, <1>3, <1>4, <1>5, <1>6, <1>7, <1>8 DEF JobStep

(* Requests for a worker slot are served as by a FIFO semaphore of          *)
(* MaxWorkers slots: first come, first served, and a slot that is given     *)
(* back next to a waiter passes straight on (scheduler.js:15-32).           *)
THEOREM PoolRefinement == Spec => ImplementsPool
<1>1. Init => Pool!PoolInit
  <2> SUFFICES ASSUME Init PROVE Pool!PoolInit
    OBVIOUS
  <2>1. Holders = {} /\ Unforked = {}
    BY JobsAssumption DEF Init, Holders, Unforked
  <2>2. QED
    BY <2>1, FS_EmptySet DEF Init, Pool!PoolInit
<1>2. Inv /\ [Next]_vars => [Pool!PoolNext]_(Pool!poolVars)
  <2> SUFFICES ASSUME Inv, [Next]_vars PROVE Pool!PoolNext \/ UNCHANGED Pool!poolVars
    OBVIOUS
  <2>1. CASE \E j \in Jobs : JobStep(j)
    BY <2>1, JobStepRefines
  <2>2. CASE Shutdown
    <3>1. StopEach(jobs) /\ UNCHANGED <<poolState, finished, proc>> /\ workerQueue' = workerQueue
      BY <2>2 DEF Shutdown, poolState
    <3>2. QED
      BY <3>1, StopKeepsPool, QuietRefines
  <2>3. CASE SchedulerStopped \/ ShutdownThrows \/ UNCHANGED vars
    <3>1. UNCHANGED <<workerQueue, stage, finished>>
      BY <2>3 DEF SchedulerStopped, ShutdownThrows, vars, poolState
    <3>2. Holders' = Holders /\ Unforked' = Unforked
      BY <3>1 DEF Holders, Unforked
    <3>3. QED
      BY <3>1, <3>2, QuietRefines
  <2>4. QED
    BY <2>1, <2>2, <2>3 DEF Next
<1>3. QED
  BY <1>1, <1>2, Invariance, PTL DEF Spec, ImplementsPool, Pool!PoolSpec

(***************************************************************************)
(* Registered jobs, and the callers that wait for a run.                   *)
(***************************************************************************)

(* A caller that awaits a run waits while the promise it reads is pending. *)
CallerFollows(j) ==
  /\ j \in Inline /\ stage[j] = "running" => finished[j] = "pending"
  /\ j \in Awaited =>
       /\ stage[j] # "timer"
       /\ caller[j] = "called" => stage[j] \in {"granted", "running", "settled", "done"}
       /\ caller[j] \in {"returned", "threw"} => stage[j] \in {"settled", "done"}
RunInv == OnlyRegisteredJobsRecur /\ \A j \in Jobs : CallerFollows(j)

LEMMA InitRun == Init => RunInv
BY JobsAssumption DEF Init, RunInv, OnlyRegisteredJobsRecur, CallerFollows

(* Nothing but j moves. *)
LEMMA FollowsKept ==
  ASSUME RunInv, NEW j \in Jobs, stage'[j] = stage[j], finished'[j] = finished[j], caller'[j] = caller[j]
  PROVE  CallerFollows(j)'
BY DEF RunInv, CallerFollows

LEMMA JobStepRun ==
  ASSUME Inv, RunInv, NEW j \in Jobs, JobStep(j)
  PROVE  RunInv'
<1> USE JobsAssumption
<1>1. /\ stage \in [Jobs -> Stages] /\ jobs \subseteq Jobs /\ CallerFollows(j) /\ OnlyRegisteredJobsRecur
      /\ finished \in [Jobs -> {"initial", "pending", "resolved", "rejected"}]
      /\ caller \in [Jobs -> {"none", "early", "called", "returned", "threw"}]
  BY DEF Inv, TypeOK, RunInv
<1>2. CASE RegisterJob(j)
  <2>1. /\ stage[j] = "new" /\ jobs' = jobs \cup {j}
        /\ \A k \in Jobs \ {j} : stage'[k] = stage[k] /\ finished'[k] = finished[k] /\ caller'[k] = caller[k]
    BY <1>1, <1>2 DEF RegisterJob, Invoke, AcquireWorkerSlot
  <2>2. stage'[j] \in {"granted", "waiting", "running", "timer"} /\ (stage'[j] = "timer" => j \notin Immediate)
    BY <1>1, <1>2 DEF RegisterJob, Invoke, AcquireWorkerSlot
  <2>3. j \in Inline /\ stage'[j] = "running" => finished'[j] = "pending"
    BY <1>1, <1>2 DEF RegisterJob, Invoke, Inline
  <2>4. /\ caller'[j] \in {"none", "early", "called"}
        /\ caller'[j] = "called" => stage'[j] \in {"granted", "running"}
    BY <1>1, <1>2 DEF RegisterJob, Invoke, AcquireWorkerSlot, CallerAfterRegister
  <2>5. CallerFollows(j)'
    BY <2>2, <2>3, <2>4 DEF CallerFollows, Inline
  <2>6. \A k \in Jobs : CallerFollows(k)'
    BY <2>1, <2>5, FollowsKept
  <2>7. OnlyRegisteredJobsRecur'
    BY <1>1, <2>1, <2>2 DEF OnlyRegisteredJobsRecur
  <2>8. QED
    BY <2>6, <2>7 DEF RunInv
<1>3. CASE TimerFires(j)
  <2>1. /\ stage[j] = "timer" /\ jobs' = jobs /\ caller' = caller
        /\ \A k \in Jobs \ {j} : stage'[k] = stage[k] /\ finished'[k] = finished[k]
    BY <1>1, <1>3 DEF TimerFires, Invoke, AcquireWorkerSlot
  <2>2. stage'[j] \in {"granted", "waiting", "running"} /\ (j \in Inline => finished'[j] = "pending")
    BY <1>1, <1>3 DEF TimerFires, Invoke, AcquireWorkerSlot, Inline
  <2>3. CallerFollows(j)'
    BY <1>1, <2>1, <2>2 DEF CallerFollows, Inline
  <2>4. \A k \in Jobs : CallerFollows(k)'
    BY <2>1, <2>3, FollowsKept
  <2>5. OnlyRegisteredJobsRecur'
    BY <1>1, <2>1, <2>2 DEF OnlyRegisteredJobsRecur
  <2>6. QED
    BY <2>4, <2>5 DEF RunInv
<1>4. CASE Fork(j) \/ SpawnError(j) \/ ForkThrows(j)
  <2>1. j \in Workers /\ j \notin Inline
    BY <1>1, <1>4 DEF Fork, SpawnError, ForkThrows, Inv, ProcMatchesStage, Inline
  <2>2. /\ stage[j] = "granted" /\ jobs' = jobs /\ caller' = caller /\ stage'[j] \in {"running", "settled"}
        /\ \A k \in Jobs \ {j} : stage'[k] = stage[k] /\ finished'[k] = finished[k]
    BY <1>1, <1>4 DEF Fork, SpawnError, ForkThrows
  <2>3. CallerFollows(j)'
    BY <1>1, <2>1, <2>2 DEF CallerFollows, Inline
  <2>4. \A k \in Jobs : CallerFollows(k)'
    BY <2>2, <2>3, FollowsKept
  <2>5. OnlyRegisteredJobsRecur'
    BY <1>1, <2>2 DEF OnlyRegisteredJobsRecur
  <2>6. QED
    BY <2>4, <2>5 DEF RunInv
<1>5. ASSUME NEW ok \in BOOLEAN, WorkerExit(j, ok)
      PROVE  RunInv'
  <2>1. /\ j \in Workers /\ stage[j] = "running" /\ finished[j] = "pending"
        /\ ReleaseWorkerSlot(j) /\ Settle(j, ok) /\ jobs' = jobs /\ caller' = caller
    BY <1>5 DEF WorkerExit, Inv, TypeOK, ProcMatchesStage, Inline
  <2>2. workerQueue # <<>> => Head(workerQueue) \in Workers /\ stage[Head(workerQueue)] = "waiting"
    BY <2>1, ReleaseStep
  <2>3. /\ stage'[j] = "settled"
        /\ \A k \in Jobs \ {j} : stage'[k] = stage[k] \/ (k \in Workers /\ stage[k] = "waiting" /\ stage'[k] = "granted")
        /\ \A k \in Jobs \ {j} : finished'[k] = finished[k]
    BY <1>1, <2>1, <2>2 DEF ReleaseWorkerSlot, Settle
  <2>4. ASSUME NEW k \in Jobs
        PROVE  CallerFollows(k)'
    <3>1. CallerFollows(k)
      BY DEF RunInv
    <3>2. QED
      BY <1>1, <2>1, <2>3, <3>1 DEF CallerFollows, Inline
  <2>5. OnlyRegisteredJobsRecur'
    BY <1>1, <2>1, <2>3 DEF OnlyRegisteredJobsRecur
  <2>6. QED
    BY <2>4, <2>5 DEF RunInv
<1>6. ASSUME NEW ok \in BOOLEAN, InlineSettles(j, ok)
      PROVE  RunInv'
  <2>1. /\ stage[j] = "running" /\ stage'[j] = "settled" /\ jobs' = jobs /\ caller' = caller
        /\ \A k \in Jobs \ {j} : stage'[k] = stage[k] /\ finished'[k] = finished[k]
    BY <1>1, <1>6 DEF InlineSettles, Settle
  <2>2. CallerFollows(j)'
    BY <1>1, <2>1 DEF CallerFollows
  <2>3. \A k \in Jobs : CallerFollows(k)'
    BY <2>1, <2>2, FollowsKept
  <2>4. OnlyRegisteredJobsRecur'
    BY <1>1, <2>1 DEF OnlyRegisteredJobsRecur
  <2>5. QED
    BY <2>3, <2>4 DEF RunInv
<1>7. CASE AfterRun(j)
  <2>1. /\ stage[j] = "settled" /\ finished' = finished /\ caller' = caller
        /\ \A k \in Jobs \ {j} : stage'[k] = stage[k]
        /\ \/ j \in Repeating /\ j \in jobs /\ jobs' = jobs /\ stage'[j] = "timer"
           \/ jobs' = jobs \ {j} /\ stage'[j] = "done"
    BY <1>1, <1>7 DEF AfterRun
  <2>2. CallerFollows(j)'
    BY <1>1, <2>1 DEF CallerFollows
  <2>3. \A k \in Jobs : CallerFollows(k)'
    BY <2>1, <2>2, FollowsKept
  <2>4. OnlyRegisteredJobsRecur'
    BY <1>1, <2>1 DEF OnlyRegisteredJobsRecur
  <2>5. QED
    BY <2>3, <2>4 DEF RunInv
<1>8. CASE StopJob(j)
  <2>1. /\ jobs' = jobs \ {j} /\ finished' = finished /\ caller' = caller
        /\ \A k \in Jobs \ {j} : stage'[k] = stage[k]
        /\ stage'[j] = IF stage[j] = "timer" THEN "done" ELSE stage[j]
    BY <1>1, <1>8 DEF StopJob, StopEach
  <2>2. CallerFollows(j)'
    BY <1>1, <2>1 DEF CallerFollows
  <2>3. \A k \in Jobs : CallerFollows(k)'
    BY <2>1, <2>2, FollowsKept
  <2>4. OnlyRegisteredJobsRecur'
    BY <1>1, <2>1 DEF OnlyRegisteredJobsRecur
  <2>5. QED
    BY <2>3, <2>4 DEF RunInv
<1>9. CASE CallerResumes(j)
  <2>1. /\ caller[j] = "called" /\ stage[j] # "granted" /\ finished[j] # "pending"
        /\ UNCHANGED <<jobs, stage, finished>>
        /\ \A k \in Jobs \ {j} : caller'[k] = caller[k]
    BY <1>1, <1>9 DEF CallerResumes
  <2>2. stage[j] = "running" => finished[j] = "pending"
    BY <1>1 DEF Inv, ProcMatchesStage, CallerFollows, Inline
  <2>3. CallerFollows(j)'
    BY <1>1, <2>1, <2>2 DEF CallerFollows
  <2>4. \A k \in Jobs : CallerFollows(k)'
    BY <2>1, <2>3, FollowsKept
  <2>5. OnlyRegisteredJobsRecur'
    BY <1>1, <2>1 DEF OnlyRegisteredJobsRecur
  <2>6. QED
    BY <2>4, <2>5 DEF RunInv
<1>10. CASE KillTimeout(j)
  <2>1. UNCHANGED <<jobs, stage, finished, caller>>
    BY <1>10 DEF KillTimeout
  <2>2. QED
    BY <2>1 DEF RunInv, CallerFollows, OnlyRegisteredJobsRecur
<1>11. QED
  BY <1>2, <1>3, <1>4, <1>5, <1>6, <1>7, <1>8, <1>9, <1>10 DEF JobStep

LEMMA NextRun == Inv /\ RunInv /\ [Next]_vars => RunInv'
<1> SUFFICES ASSUME Inv, RunInv, [Next]_vars PROVE RunInv'
  OBVIOUS
<1>1. CASE \E j \in Jobs : JobStep(j)
  BY <1>1, JobStepRun
<1>2. CASE Shutdown
  <2>1. /\ jobs' = jobs \ jobs /\ UNCHANGED <<finished, caller>>
        /\ \A j \in Jobs : stage'[j] = IF j \in jobs /\ stage[j] = "timer" THEN "done" ELSE stage[j]
    BY <1>2 DEF Shutdown, StopEach
  <2>2. OnlyRegisteredJobsRecur'
    BY <2>1 DEF RunInv, OnlyRegisteredJobsRecur
  <2>3. \A j \in Jobs : CallerFollows(j)'
    BY <2>1 DEF RunInv, CallerFollows
  <2>4. QED
    BY <2>2, <2>3 DEF RunInv
<1>3. CASE SchedulerStopped \/ ShutdownThrows \/ UNCHANGED vars
  <2>1. UNCHANGED <<jobs, stage, finished, caller>>
    BY <1>3 DEF SchedulerStopped, ShutdownThrows, vars
  <2>2. QED
    BY <2>1 DEF RunInv, CallerFollows, OnlyRegisteredJobsRecur
<1>4. QED
  BY <1>1, <1>2, <1>3 DEF Next

LEMMA RunInvHolds == Spec => []RunInv
<1>1. Inv /\ RunInv /\ [Next]_vars => RunInv'
  BY NextRun
<1>2. QED
  BY <1>1, InitRun, Invariance, PTL DEF Spec

(* A job that was stopped while it ran never arms its timer again, and      *)
(* everything registered runs or will run (scheduler.js:125-139).           *)
THEOREM StoppedJobsStayStopped == Spec => []OnlyRegisteredJobsRecur
  BY RunInvHolds, PTL DEF RunInv

(* `await job.finished` outlasts the run of a job that got a slot at once,  *)
(* because the promise the caller reads is pending until its run is over    *)
(* (scheduler.js:84-121, pages.js:905-927).                                 *)
THEOREM CallersWait == Spec => []CallerWaitsForRun
<1>1. RunInv => CallerWaitsForRun
  BY JobsAssumption DEF RunInv, CallerFollows, CallerWaitsForRun
<1>2. QED
  BY <1>1, RunInvHolds, PTL
=============================================================================
