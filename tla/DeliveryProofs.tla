--------------------------- MODULE DeliveryProofs ---------------------------
(***************************************************************************)
(* The gateway implements JobDelivery: under the mapping Stage, its        *)
(* initial states are initial there, and each of its steps moves one job   *)
(* as JobDelivery allows, ends some jobs together, or stutters.            *)
(***************************************************************************)
EXTENDS GatewayProofs

Inv == Typed /\ Tokens

(* The places of a job exclude one another, so Stage can be read off the   *)
(* place where the job is.                                                 *)
LEMMA StageOf ==
  ASSUME Inv, NEW j \in Jobs
  PROVE  /\ j \in Queued(queue) <=> Stage[j] = "queued"
         /\ HeldByLoop(j) <=> Stage[j] = "held"
         /\ Running(j) <=> Stage[j] = "running"
         /\ Stage[j] = "new" <=> j \notin entered
         /\ Stage[j] = "over" <=>
              j \in entered /\ j \notin Queued(queue) /\ ~HeldByLoop(j) /\ ~Running(j)
<1>1. j \in Queued(queue) => j \in entered /\ ~HeldByLoop(j) /\ runs[j] = 0
  BY DEF Inv, Tokens, QueueTokens
<1>2. HeldByLoop(j) => j \in entered /\ runs[j] = 0
  BY DEF Inv, Tokens, LoopTokens, HeldByLoop
<1>3. Running(j) => runs[j] = 1
  BY DEF Inv, Tokens, WorkerTokens, Running
<1>4. runs[j] = 1 => j \in entered
  BY DEF Inv, Tokens, HistoryTokens
<1> QED  BY <1>1, <1>2, <1>3, <1>4 DEF Stage

(* A step that changes the stage of one job is a Move.                     *)
LEMMA OneMoves ==
  ASSUME NEW j \in Jobs, NEW to, Stage'[j] = to,
         \A i \in Jobs \ {j} : Stage'[i] = Stage[i]
  PROVE  Stage' = [Stage EXCEPT ![j] = to]
<1>1. Stage = [i \in Jobs |-> Stage[i]] /\ Stage' = [i \in Jobs |-> Stage'[i]]
  BY DEF Stage
<1>2. [Stage EXCEPT ![j] = to] = [i \in Jobs |-> IF i = j THEN to ELSE Stage[i]]
  BY <1>1
<1>3. \A i \in Jobs : Stage'[i] = IF i = j THEN to ELSE Stage[i]
  OBVIOUS
<1> QED  BY <1>1, <1>2, <1>3

(* Steps that drop tokens of loops and workers, or none, are End steps.    *)
LEMMA DroppedIsEnd ==
  ASSUME Inv, Inv', UNCHANGED <<queue, entered>>,
         \A p \in Procs : ltask'[p] \in {ltask[p], NoJob},
         \A w \in Workers : wjob'[w] \in {wjob[w], NoJob}
  PROVE  Delivery!Next
<1> DEFINE S == {j \in Jobs : Stage'[j] # Stage[j]}
<1>0. NoJob \notin Jobs  BY StoresAssumption
<1>1. ASSUME NEW j \in Jobs
      PROVE  \/ Stage'[j] = Stage[j]
             \/ Stage[j] \in {"held", "running"} /\ Stage'[j] = "over"
  <2>1. HeldByLoop(j)' => HeldByLoop(j)  BY <1>0 DEF HeldByLoop
  <2>2. Running(j)' => Running(j)  BY <1>0 DEF Running
  <2>3. Queued(queue)' = Queued(queue)  BY DEF Queued
  <2>4. Running(j) => ~HeldByLoop(j)
    BY StageOf
  <2>5. j \in entered \/ ~(HeldByLoop(j) \/ Running(j))
    BY StageOf
  <2> QED  BY <2>1, <2>2, <2>3, <2>4, <2>5 DEF Stage
<1>2. \A j \in S : Stage[j] \in {"held", "running"}  BY <1>1
<1>3. Stage' = [j \in Jobs |-> IF j \in S THEN "over" ELSE Stage[j]]
  <2>1. Stage' = [j \in Jobs |-> Stage'[j]]  BY DEF Stage
  <2>2. \A j \in Jobs : Stage'[j] = IF j \in S THEN "over" ELSE Stage[j]  BY <1>1
  <2> QED  BY <2>1, <2>2
<1>4. Delivery!End(S)  BY <1>2, <1>3 DEF Delivery!End
<1>5. S \in SUBSET Jobs  OBVIOUS
<1> QED  BY <1>4, <1>5 DEF Delivery!Next

(* CreateBatch's Enqueue submits the job.                                  *)
LEMMA EnqueueIsSubmit ==
  ASSUME Inv, Inv', NEW h \in Handlers, CreateEnqueue(h), UNCHANGED procVars
  PROVE  Delivery!Next
<1> DEFINE j == hjob[h]
<1>0. j \in Jobs /\ j \notin entered /\ queue \in Seq(Jobs)
  BY DEF CreateEnqueue, Inv, Typed, TypeOK, StoresTypeOK, JobVarsOK, HandlerJobs,
         Tokens, HandlerTokens
<1>1. CASE queue' = queue /\ entered' = entered
  BY <1>1, DroppedIsEnd DEF procVars
<1>2. CASE queue' = Enqueued(queue, j) /\ entered' = entered \cup {j}
  <2>1. Queued(queue') = Queued(queue) \cup {j}  BY <1>0, <1>2, EnqueuedEntries
  <2>2. Stage[j] = "new" /\ Stage'[j] = "queued"
    BY <1>0, <2>1, StageOf DEF Stage
  <2>3. ASSUME NEW i \in Jobs \ {j} PROVE Stage'[i] = Stage[i]
    BY <1>2, <2>1 DEF Stage, HeldByLoop, Running, procVars
  <2>4. Delivery!Submit(j)
    BY <1>0, <2>2, <2>3, OneMoves DEF Delivery!Submit, Delivery!Move
  <2> QED  BY <1>0, <2>4 DEF Delivery!Next
<1> QED  BY <1>1, <1>2 DEF CreateEnqueue

(* CancelBatch's Remove withdraws the job, or finds it elsewhere.          *)
LEMMA RemoveIsWithdraw ==
  ASSUME Inv, Inv', NEW h \in Handlers, CancelRemove(h), UNCHANGED procVars
  PROVE  Delivery!Next
<1> DEFINE j == hjob[h]
<1>0. j \in Jobs /\ queue \in Seq(Jobs) /\ entered' = entered /\ NoDuplicate(queue)
  BY DEF CancelRemove, Inv, Typed, TypeOK, StoresTypeOK, JobVarsOK, HandlerJobs,
         Tokens, QueueTokens
<1>1. CASE queue' = queue
  BY <1>0, <1>1, DroppedIsEnd DEF procVars
<1>2. CASE queue' = Removed(queue, j) /\ j \in Queued(queue)
  <2>1. Queued(queue') = Queued(queue) \ {j}  BY <1>0, <1>2, RemovedEntries
  <2>2. /\ Stage[j] = "queued" /\ ~HeldByLoop(j) /\ ~Running(j) /\ j \in entered
    BY <1>0, <1>2, StageOf
  <2>3. Stage'[j] = "over"
    BY <1>0, <2>1, <2>2 DEF Stage, HeldByLoop, Running, procVars
  <2>4. ASSUME NEW i \in Jobs \ {j} PROVE Stage'[i] = Stage[i]
    BY <1>0, <2>1 DEF Stage, HeldByLoop, Running, procVars
  <2>5. Delivery!Withdraw(j)
    BY <1>0, <2>2, <2>3, <2>4, OneMoves DEF Delivery!Withdraw, Delivery!Move
  <2> QED  BY <1>0, <2>5 DEF Delivery!Next
<1>3. CASE queue' = Removed(queue, j) /\ j \notin Queued(queue)
  <2>1. Queued(queue') = Queued(queue)
    <3>1. Queued(queue) \ {j} = Queued(queue)  BY <1>3
    <3>2. /\ Queued(queue') \subseteq Queued(queue)
          /\ Queued(queue) \ {j} \subseteq Queued(queue')
      BY <1>0, <1>3, RemovedEntries
    <3> QED  BY <3>1, <3>2
  <2>2. \A i \in Jobs : Stage'[i] = Stage[i]
    BY <1>0, <2>1 DEF Stage, HeldByLoop, Running, procVars
  <2>3. Delivery!End({})
    <3>1. Stage' = [i \in Jobs |-> Stage'[i]]  BY DEF Stage
    <3> QED  BY <2>2, <3>1 DEF Delivery!End
  <2> QED  BY <2>3 DEF Delivery!Next
<1> QED  BY <1>1, <1>2, <1>3 DEF CancelRemove

(* Dequeue takes the head; when its reply is lost the job is gone.         *)
LEMMA DequeueIsTake ==
  ASSUME Inv, Inv', NEW p \in Procs, LoopDequeue(p), UNCHANGED apiVars
  PROVE  Delivery!Next
<1> DEFINE j == Head(queue)
<1>0. /\ queue \in Seq(Jobs) /\ entered' = entered /\ NoDuplicate(queue)
      /\ ltask \in [Procs -> Jobs \cup {NoJob}] /\ wjob' = wjob
      /\ ltask[p] = NoJob /\ NoJob \notin Jobs
  <2>1. /\ queue \in Seq(Jobs) /\ NoJob \notin Jobs
        /\ ltask \in [Procs -> Jobs \cup {NoJob}]
    BY StoresAssumption DEF Inv, Typed, TypeOK, StoresTypeOK, ProcTypeOK
  <2>2. NoDuplicate(queue)  BY DEF Inv, Tokens, QueueTokens
  <2>3. entered' = entered /\ wjob' = wjob
    BY DEF LoopDequeue, apiVars, workVars
  <2>4. ltask[p] \notin Jobs
    <3>1. lpc[p] = "dequeue"  BY DEF LoopDequeue
    <3>2. ltask[p] \in Jobs <=> lpc[p] \in {"getdata", "requeue"}
      BY DEF Inv, Typed, JobVarsOK, LoopJobs
    <3> QED  BY <3>1, <3>2
  <2>5. ltask[p] = NoJob  BY <2>1, <2>4
  <2> QED  BY <2>1, <2>2, <2>3, <2>5
<1>1. CASE queue' = queue /\ ltask' = ltask
  BY <1>0, <1>1, DroppedIsEnd
<1>2. ASSUME queue # <<>>, queue' = Dequeued(queue)
      PROVE  /\ j \in Jobs /\ Queued(queue') = Queued(queue) \ {j}
             /\ Stage[j] = "queued" /\ ~HeldByLoop(j) /\ ~Running(j) /\ j \in entered
  <2>1. j \in Jobs /\ j \in Queued(queue) /\ Queued(queue') = Queued(queue) \ {j}
    BY <1>0, <1>2, DequeuedEntries
  <2> QED  BY <2>1, StageOf
<1>3. CASE queue # <<>> /\ queue' = Dequeued(queue) /\ ltask' = ltask
  <2>1. Stage'[j] = "over"
    BY <1>0, <1>2, <1>3 DEF Stage, HeldByLoop, Running
  <2>2. ASSUME NEW i \in Jobs \ {j} PROVE Stage'[i] = Stage[i]
    BY <1>0, <1>2, <1>3 DEF Stage, HeldByLoop, Running
  <2>3. Delivery!Withdraw(j)
    BY <1>2, <1>3, <2>1, <2>2, OneMoves DEF Delivery!Withdraw, Delivery!Move
  <2> QED  BY <1>2, <1>3, <2>3 DEF Delivery!Next
<1>4. CASE queue # <<>> /\ queue' = Dequeued(queue) /\ ltask' = [ltask EXCEPT ![p] = j]
  <2> HIDE DEF j
  <2>0. \A q \in Procs : ltask'[q] = IF q = p THEN j ELSE ltask[q]  BY <1>0, <1>4
  <2>1. Stage'[j] = "held"
    BY <1>0, <1>2, <1>4, <2>0 DEF Stage, HeldByLoop
  <2>2. ASSUME NEW i \in Jobs \ {j} PROVE Stage'[i] = Stage[i]
    <3>1. HeldByLoop(i)' <=> HeldByLoop(i)  BY <1>0, <2>0 DEF HeldByLoop
    <3> QED  BY <1>0, <1>2, <1>4, <3>1 DEF Stage, Running
  <2>3. Delivery!Take(j)
    BY <1>2, <1>4, <2>1, <2>2, OneMoves DEF Delivery!Take, Delivery!Move
  <2> QED  BY <1>2, <1>4, <2>3 DEF Delivery!Next
<1> QED  BY <1>1, <1>3, <1>4 DEF LoopDequeue, Outcomes, Applied

(* The record starts the job; without it the loop keeps the task.          *)
LEMMA GetDataIsStart ==
  ASSUME Inv, Inv', NEW p \in Procs, LoopGetData(p), UNCHANGED apiVars
  PROVE  Delivery!Next
<1>j. PICK j \in Jobs : ltask[p] = j
  BY DEF LoopGetData, Inv, Typed, JobVarsOK, LoopJobs
<1>0. /\ queue' = queue /\ entered' = entered /\ NoJob \notin Jobs
      /\ ltask \in [Procs -> Jobs \cup {NoJob}] /\ wjob \in [Workers -> Jobs \cup {NoJob}]
  BY StoresAssumption
     DEF LoopGetData, Inv, Typed, TypeOK, ProcTypeOK, JobVarsOK, LoopJobs, apiVars
<1>1. CASE UNCHANGED <<ltask, workVars, runs>>
  BY <1>0, <1>1, DroppedIsEnd DEF workVars
<1>2. CASE /\ ltask' = [ltask EXCEPT ![p] = NoJob]
           /\ \E w \in Held(p) : wjob' = [wjob EXCEPT ![w] = j] /\ wpc[w] = "taken"
  <2>1. PICK w \in Workers : wjob' = [wjob EXCEPT ![w] = j] /\ wpc[w] = "taken"
    BY <1>2 DEF Held
  <2>2. wjob[w] \notin Jobs
    BY <2>1 DEF Inv, Typed, JobVarsOK, WorkerJobs, JobPC
  <2>3. Stage[j] = "held" /\ j \notin Queued(queue)
        /\ \A q \in Procs : ltask[q] = j => q = p
    <3>1. HeldByLoop(j)  BY <1>j DEF HeldByLoop
    <3> QED  BY <1>0, <1>j, <3>1, StageOf DEF Inv, Tokens, LoopTokens
  <2>4. \A q \in Procs : ltask'[q] = IF q = p THEN NoJob ELSE ltask[q]  BY <1>0, <1>2
  <2>5. \A v \in Workers : wjob'[v] = IF v = w THEN j ELSE wjob[v]  BY <1>0, <2>1
  <2>6. Stage'[j] = "running"
    <3>1. Running(j)'  BY <2>5 DEF Running
    <3>2. ~HeldByLoop(j)'  BY <1>0, <2>3, <2>4 DEF HeldByLoop
    <3>3. j \notin Queued(queue')  BY <1>0, <2>3
    <3> QED  BY <1>0, <3>1, <3>2, <3>3 DEF Stage
  <2>7. ASSUME NEW i \in Jobs \ {j} PROVE Stage'[i] = Stage[i]
    <3>1. HeldByLoop(i)' <=> HeldByLoop(i)  BY <1>0, <1>j, <2>4 DEF HeldByLoop
    <3>2. Running(i)' <=> Running(i)  BY <1>0, <2>2, <2>5 DEF Running
    <3> QED  BY <1>0, <3>1, <3>2 DEF Stage
  <2>8. Delivery!Start(j)
    BY <1>0, <2>3, <2>6, <2>7, OneMoves DEF Delivery!Start, Delivery!Move
  <2> QED  BY <1>0, <2>8 DEF Delivery!Next
<1> QED  BY <1>1, <1>2, <1>j DEF LoopGetData, Held

(* The requeue puts the job back, or loses it.                             *)
LEMMA RequeueIsPutBack ==
  ASSUME Inv, Inv', NEW p \in Procs, LoopRequeue(p), UNCHANGED apiVars
  PROVE  Delivery!Next
<1> DEFINE j == ltask[p]
<1>0. /\ j \in Jobs /\ queue \in Seq(Jobs) /\ entered' = entered /\ NoJob \notin Jobs
      /\ ltask \in [Procs -> Jobs \cup {NoJob}] /\ wjob' = wjob
      /\ ltask' = [ltask EXCEPT ![p] = NoJob]
  BY StoresAssumption
     DEF LoopRequeue, Inv, Typed, TypeOK, StoresTypeOK, ProcTypeOK, JobVarsOK, LoopJobs, apiVars
<1>1. CASE queue' = queue
  BY <1>0, <1>1, DroppedIsEnd
<1>2. CASE queue' = Enqueued(queue, j)
  <2>1. Queued(queue') = Queued(queue) \cup {j}  BY <1>0, <1>2, EnqueuedEntries
  <2>2. Stage[j] = "held"
    <3>1. HeldByLoop(j)  BY DEF HeldByLoop
    <3> QED  BY <1>0, <3>1, StageOf
  <2>3. Stage'[j] = "queued"  BY <1>0, <2>1 DEF Stage
  <2>4. \A q \in Procs : ltask'[q] = IF q = p THEN NoJob ELSE ltask[q]  BY <1>0
  <2>5. ASSUME NEW i \in Jobs \ {j} PROVE Stage'[i] = Stage[i]
    <3>1. HeldByLoop(i)' <=> HeldByLoop(i)  BY <1>0, <2>4 DEF HeldByLoop
    <3> QED  BY <1>0, <2>1, <3>1 DEF Stage, Running
  <2>6. Delivery!PutBack(j)
    BY <1>0, <2>2, <2>3, <2>5, OneMoves DEF Delivery!PutBack, Delivery!Move
  <2> QED  BY <1>0, <2>6 DEF Delivery!Next
<1> QED  BY <1>1, <1>2 DEF LoopRequeue

\* Every step of the gateway is a step of JobDelivery or a stutter.
LEMMA DeliveryStep == Inv /\ Inv' /\ [Next]_vars => [Delivery!Next]_Stage
<1> SUFFICES ASSUME Inv, Inv', [Next]_vars PROVE [Delivery!Next]_Stage  OBVIOUS
<1> DEFINE Goal == Delivery!Next
<1>0. ltask \in [Procs -> Jobs \cup {NoJob}] /\ wjob \in [Workers -> Jobs \cup {NoJob}]
  BY DEF Inv, Typed, TypeOK, ProcTypeOK
<1>1. ASSUME ApiNext, UNCHANGED procVars PROVE Goal
  <2>1. ASSUME NEW h \in Handlers, CreateEnqueue(h) PROVE Goal
    BY <1>1, <2>1, EnqueueIsSubmit
  <2>2. ASSUME NEW h \in Handlers, CancelRemove(h) PROVE Goal
    BY <1>1, <2>2, RemoveIsWithdraw
  <2>3. ASSUME NEW h \in Handlers, NEW j \in Jobs, CreateStore(h, j) \/ CancelGet(h, j)
        PROVE  Goal
    BY <1>1, <2>3, DroppedIsEnd DEF CreateStore, CancelGet, procVars, storeVars
  <2>4. ASSUME NEW h \in Handlers, CreateCleanup(h) \/ CancelSend(h) \/ CancelUpdate(h)
        PROVE  Goal
    BY <1>1, <2>4, DroppedIsEnd DEF CreateCleanup, CancelSend, CancelUpdate, procVars
  <2>5. ASSUME ApiDown PROVE Goal
    BY <1>1, <2>5, DroppedIsEnd DEF ApiDown, procVars
  <2> HIDE DEF Goal
  <2> QED  BY <1>1, <2>1, <2>2, <2>3, <2>4, <2>5 DEF ApiNext
<1>2. ASSUME ProcNext, UNCHANGED apiVars PROVE Goal
  <2>0. entered' = entered  BY <1>2 DEF apiVars
  <2>1. ASSUME NEW p \in Procs, LoopDequeue(p) PROVE Goal
    BY <1>2, <2>1, DequeueIsTake
  <2>2. ASSUME NEW p \in Procs, LoopGetData(p) PROVE Goal
    BY <1>2, <2>2, GetDataIsStart
  <2>3. ASSUME NEW p \in Procs, LoopRequeue(p) PROVE Goal
    BY <1>2, <2>3, RequeueIsPutBack
  <2>4. ASSUME NEW p \in Procs,
               LoopStop(p) \/ LoopAcquire(p) \/ LoopRelease(p) \/ Signal(p)
        PROVE  Goal
    BY <2>0, <2>4, DroppedIsEnd
       DEF LoopStop, LoopAcquire, LoopRelease, Signal, storeVars, loopVars, workVars
  <2>5. ASSUME NEW p \in Procs, Exit(p) \/ PanicExit(p) \/ Kill(p) PROVE Goal
    BY <1>0, <2>0, <2>5, DroppedIsEnd DEF Exit, PanicExit, Kill, Restart, storeVars
  <2>6. ASSUME NEW w \in Workers, WorkerNext(w) \/ WorkerPanic(w) PROVE Goal
    BY <1>0, <2>0, <2>6, DroppedIsEnd
       DEF WorkerNext, WorkerSet, WorkerLines, WorkerUpdate, WorkerRelease, WorkerPanic,
           WorkerGoto, storeVars, loopVars
  <2> HIDE DEF Goal
  <2> QED  BY <1>2, <2>1, <2>2, <2>3, <2>4, <2>5, <2>6 DEF ProcNext, LoopNext
<1>3. ASSUME NEW j \in Jobs, Expire(j) \/ ExpireStatus(j),
             UNCHANGED <<apiVars, procVars>>
      PROVE  Goal
  BY <1>3, DroppedIsEnd DEF Expire, ExpireStatus, apiVars, procVars
<1>4. CASE UNCHANGED vars
  <2>1. Stage' = Stage
    BY <1>4 DEF vars, storeVars, apiVars, procVars, Stage, HeldByLoop, Running
  <2> QED  BY <2>1
<1> HIDE DEF Goal
<1>5. ASSUME Next PROVE Goal  BY <1>1, <1>2, <1>3, <1>5 DEF Next
<1> QED  BY <1>4, <1>5 DEF Goal

(* The gateway implements JobDelivery, for every instance: handlers,       *)
(* loops, workers, their crashes and the lost replies of the stores do to  *)
(* a job only what the abstract specification allows.                      *)
THEOREM GatewayDelivers == Spec => DeliverySpec
<1>1. Init => Delivery!Init
  BY StoresAssumption
     DEF Init, StoresInit, ApiInit, ProcInit, Delivery!Init, Stage, Queued, ToSet,
            HeldByLoop, Running
<1>2. Init => Inv  BY TypedInit, TokensInit DEF Inv
<1>3. Inv /\ [Next]_vars => Inv'  BY TypedStep, TokensStep DEF Inv
<1>4. Inv /\ Inv' /\ [Next]_vars => [Delivery!Next]_Stage  BY DeliveryStep
<1> QED  BY <1>1, <1>2, <1>3, <1>4, PTL DEF Spec, DeliverySpec, Delivery!Spec
=============================================================================
