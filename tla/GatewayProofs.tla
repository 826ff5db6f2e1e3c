--------------------------- MODULE GatewayProofs ---------------------------
(***************************************************************************)
(* Proofs about the gateway, for every set of jobs, handlers, processes    *)
(* and workers, every SLO and every fault budget.                          *)
(***************************************************************************)
EXTENDS Gateway, PriorityQueueProofs

-----------------------------------------------------------------------------
\* Types

Typed == TypeOK /\ JobVarsOK

\* The initial state has its types.
LEMMA TypedInit == Init => Typed
<1> SUFFICES ASSUME Init PROVE Typed  OBVIOUS
<1> USE SLOAssumption, StoresAssumption, ProcessorAssumption
<1>1. StoresTypeOK
  BY DEF Init, StoresInit, StoresTypeOK
<1>2. ApiTypeOK
  BY DEF Init, ApiInit, ApiTypeOK, HandlerPC
<1>3. ProcTypeOK
  BY DEF Init, ProcInit, ProcTypeOK, LoopPC, WorkerPC, JobPC
<1>4. JobVarsOK
  BY DEF Init, ApiInit, ProcInit, JobVarsOK, HandlerJobs, LoopJobs, WorkerJobs, JobPC
<1> QED  BY <1>1, <1>2, <1>3, <1>4 DEF Typed, TypeOK

\* Charging a call of the API server keeps the fault count's type.
LEMMA ChargeType ==
  ASSUME faults \in 0..MaxFaults, NEW o \in Outcomes, Charge(o)
  PROVE  faults' \in 0..MaxFaults
BY StoresAssumption DEF Charge

\* Charging a call of a processor keeps the fault count's type.
LEMMA ProcChargeType ==
  ASSUME faults \in 0..MaxFaults, NEW p \in Procs, NEW o \in Outcomes, ProcCharge(p, o)
  PROVE  faults' \in 0..MaxFaults
BY StoresAssumption DEF Charge, ProcCharge

\* Charging a stop or a kill keeps that count's type.
LEMMA ChargeDownType ==
  ASSUME downs \in 0..MaxDowns, ChargeDown
  PROVE  downs' \in 0..MaxDowns
BY StoresAssumption DEF ChargeDown

\* Steps of the API server keep the types.
LEMMA TypedApi ==
  ASSUME Typed, ApiNext, UNCHANGED procVars
  PROVE  Typed'
<1> USE DEF Typed, TypeOK, StoresTypeOK, ApiTypeOK, HandlerJobs, HandlerPC, BatchStatus
<1> DEFINE Goal == StoresTypeOK' /\ ApiTypeOK' /\ HandlerJobs'
<1>0. ProcTypeOK' /\ LoopJobs' /\ WorkerJobs'
  BY DEF procVars, ProcTypeOK, JobVarsOK, LoopJobs, WorkerJobs
<1>a. SUFFICES Goal
  BY <1>0 DEF JobVarsOK
<1>b. \A h \in Handlers : hpc[h] # "idle" => hjob[h] \in Jobs
  BY DEF JobVarsOK, HandlerJobs
<1>1. ASSUME NEW h \in Handlers, NEW j \in Jobs, CreateStore(h, j)
      PROVE  Goal
  BY <1>1, <1>b, ChargeType DEF CreateStore, Begin, Stored
<1>2. ASSUME NEW h \in Handlers, NEW j \in Jobs, CancelGet(h, j)
      PROVE  Goal
  BY <1>2, <1>b DEF CancelGet, Begin, storeVars
<1>3. ASSUME NEW h \in Handlers, CreateEnqueue(h)
      PROVE  Goal
  <2>1. hjob[h] \in Jobs  BY <1>3, <1>b DEF CreateEnqueue
  <2>2. Enqueued(queue, hjob[h]) \in Seq(Jobs)  BY <2>1, EnqueuedEntries
  <2> QED  BY <1>3, <1>b, <2>1, <2>2, ChargeType DEF CreateEnqueue, Answer, Goto
<1>4. ASSUME NEW h \in Handlers, CreateCleanup(h)
      PROVE  Goal
  BY <1>4, <1>b DEF CreateCleanup, Answer, Deleted
<1>5. ASSUME NEW h \in Handlers, CancelRemove(h)
      PROVE  Goal
  <2>1. hjob[h] \in Jobs  BY <1>5, <1>b DEF CancelRemove
  <2>2. Removed(queue, hjob[h]) \in Seq(Jobs)  BY <2>1, RemovedEntries
  <2> QED  BY <1>5, <1>b, <2>1, <2>2, ChargeType DEF CancelRemove, Answer, Goto
<1>6. ASSUME NEW h \in Handlers, CancelSend(h)
      PROVE  Goal
  BY <1>6, <1>b, ChargeType DEF CancelSend, Answer, Goto
<1>7. ASSUME NEW h \in Handlers, CancelUpdate(h)
      PROVE  Goal
  BY <1>7, <1>b, ChargeType DEF CancelUpdate, Answer, Updated, Mark
<1>8. ASSUME ApiDown
      PROVE  Goal
  BY <1>8, ChargeDownType DEF ApiDown
<1> HIDE DEF Goal
<1> QED  BY <1>1, <1>2, <1>3, <1>4, <1>5, <1>6, <1>7, <1>8 DEF ApiNext

\* A Done on the WaitGroup keeps its type.
LEMMA WgDoneType ==
  ASSUME ProcTypeOK, NEW p \in Procs, WgDone(p)
  PROVE  /\ wg' \in [Procs -> Nat]
         /\ panicked' \in [Procs -> BOOLEAN]
         /\ crashed' \in BOOLEAN
<1>1. CASE wg[p] > 0
  <2>1. wg' = [wg EXCEPT ![p] = wg[p] - 1]  BY <1>1 DEF WgDone
  <2>2. panicked' = panicked /\ crashed' = crashed  BY <1>1 DEF WgDone
  <2>3. wg' \in [Procs -> Nat]  BY <1>1, <2>1 DEF ProcTypeOK
  <2> QED  BY <2>2, <2>3 DEF ProcTypeOK
<1>2. CASE ~(wg[p] > 0)
  <2>1. /\ panicked' = [panicked EXCEPT ![p] = TRUE]
        /\ crashed' = TRUE
        /\ wg' = wg
    BY <1>2 DEF WgDone
  <2> QED  BY <2>1, Zenon DEF ProcTypeOK
<1> QED  BY <1>1, <1>2

\* A process that starts again has its types.
LEMMA RestartType ==
  ASSUME ProcTypeOK, LoopJobs, WorkerJobs, NEW p \in Procs, Restart(p)
  PROVE  ProcTypeOK' /\ LoopJobs' /\ WorkerJobs'
BY StoresAssumption
   DEF Restart, ProcTypeOK, LoopJobs, WorkerJobs, LoopPC, WorkerPC, JobPC, BatchStatus

\* Steps of the polling loops keep the types.
LEMMA TypedLoop ==
  ASSUME Typed, NEW p \in Procs, LoopNext(p) \/ LoopStop(p), UNCHANGED apiVars
  PROVE  StoresTypeOK' /\ ProcTypeOK' /\ LoopJobs' /\ WorkerJobs'
<1> USE StoresAssumption, ProcessorAssumption
<1> USE DEF Typed, TypeOK, JobVarsOK, StoresTypeOK, ProcTypeOK, LoopJobs, WorkerJobs,
            LoopPC, WorkerPC, JobPC, LoopGoto
<1> DEFINE Goal == StoresTypeOK' /\ ProcTypeOK' /\ LoopJobs' /\ WorkerJobs'
<1> SUFFICES Goal  OBVIOUS
<1>1. ASSUME LoopStop(p) PROVE Goal
  BY <1>1 DEF LoopStop, storeVars, lifeVars, workVars
<1>2. ASSUME LoopAcquire(p) PROVE Goal
  BY <1>2 DEF LoopAcquire, storeVars, lifeVars
<1>3. ASSUME LoopDequeue(p) PROVE Goal
  <2>1. queue # <<>> => Dequeued(queue) \in Seq(Jobs) /\ Head(queue) \in Jobs
    BY DequeuedEntries
  <2>2. faults' \in 0..MaxFaults  BY <1>3, ProcChargeType DEF LoopDequeue
  <2>3. queue' \in Seq(Jobs)  BY <1>3, <2>1 DEF LoopDequeue
  <2>4. CASE lpc' = [lpc EXCEPT ![p] = "getdata"]
             /\ ltask' = [ltask EXCEPT ![p] = Head(queue)] /\ queue # <<>>
    BY <1>3, <2>1, <2>2, <2>3, <2>4 DEF LoopDequeue, lifeVars, workVars
  <2>5. CASE lpc' = [lpc EXCEPT ![p] = "release"] /\ ltask' = ltask
    BY <1>3, <2>2, <2>3, <2>5 DEF LoopDequeue, lifeVars, workVars
  <2> QED  BY <1>3, <2>4, <2>5 DEF LoopDequeue
<1>4. ASSUME LoopRelease(p) PROVE Goal
  <2>1. wpc' \in [Workers -> WorkerPC] /\ WorkerJobs'
    BY <1>4 DEF LoopRelease, Held
  <2> QED  BY <1>4, <2>1, WgDoneType DEF LoopRelease, storeVars
<1>5. ASSUME LoopGetData(p) PROVE Goal
  <2>0. ltask[p] \in Jobs  BY <1>5 DEF LoopGetData
  <2>1. faults' \in 0..MaxFaults
    BY <1>5, ProcChargeType DEF LoopGetData, Outcomes
  <2>2. /\ UNCHANGED <<db, queue, status, downs, wg, ctxDone, panicked, crashed>>
    BY <1>5 DEF LoopGetData, lifeVars
  <2>3. CASE UNCHANGED <<ltask, workVars, runs>> /\ LoopGoto(p, "requeue")
    BY <1>5, <2>1, <2>2, <2>3 DEF LoopGetData, workVars
  <2>4. CASE /\ LoopGoto(p, "acquire")
             /\ ltask' = [ltask EXCEPT ![p] = NoJob]
             /\ runs' = [runs EXCEPT ![ltask[p]] = @ + 1]
             /\ \E w \in Held(p) :
                  /\ wpc' = [wpc EXCEPT ![w] = "inprogress"]
                  /\ wjob' = [wjob EXCEPT ![w] = ltask[p]]
                  /\ wcopy' = [wcopy EXCEPT ![w] = db[ltask[p]]]
    <3>1. PICK w \in Held(p) : /\ wpc' = [wpc EXCEPT ![w] = "inprogress"]
                               /\ wjob' = [wjob EXCEPT ![w] = ltask[p]]
                               /\ wcopy' = [wcopy EXCEPT ![w] = db[ltask[p]]]
      BY <2>4
    <3>2. w \in Workers  BY DEF Held
    <3>3. runs' \in [Jobs -> Nat]  BY <2>0, <2>4
    <3>4. WorkerJobs' /\ wpc' \in [Workers -> WorkerPC]  BY <2>0, <3>1, <3>2
    <3>5. LoopJobs'  BY <2>4
    <3> QED  BY <2>0, <2>1, <2>2, <2>4, <3>1, <3>2, <3>3, <3>4, <3>5
  <2> QED  BY <1>5, <2>3, <2>4 DEF LoopGetData
<1>6. ASSUME LoopRequeue(p) PROVE Goal
  <2>0. ltask[p] \in Jobs  BY <1>6 DEF LoopRequeue
  <2>1. Enqueued(queue, ltask[p]) \in Seq(Jobs)  BY <2>0, EnqueuedEntries
  <2>2. faults' \in 0..MaxFaults /\ queue' \in Seq(Jobs)
    BY <1>6, <2>1, ProcChargeType DEF LoopRequeue
  <2>3. wpc' \in [Workers -> WorkerPC] /\ WorkerJobs'
    BY <1>6 DEF LoopRequeue, Held
  <2>4. LoopJobs' /\ lpc' \in [Procs -> LoopPC] /\ ltask' \in [Procs -> Jobs \cup {NoJob}]
    BY <1>6 DEF LoopRequeue
  <2>5. /\ wg' \in [Procs -> Nat] /\ panicked' \in [Procs -> BOOLEAN]
        /\ crashed' \in BOOLEAN
    BY <1>6, WgDoneType DEF LoopRequeue
  <2> QED  BY <1>6, <2>2, <2>3, <2>4, <2>5 DEF LoopRequeue
<1> HIDE DEF Goal
<1> QED  BY <1>1, <1>2, <1>3, <1>4, <1>5, <1>6 DEF LoopNext

\* Steps of the workers keep the types.
LEMMA TypedWorker ==
  ASSUME Typed, NEW w \in Workers, WorkerNext(w) \/ WorkerPanic(w), UNCHANGED apiVars
  PROVE  StoresTypeOK' /\ ProcTypeOK' /\ LoopJobs' /\ WorkerJobs'
<1> USE StoresAssumption, ProcessorAssumption
<1> USE DEF Typed, TypeOK, JobVarsOK, StoresTypeOK, ProcTypeOK, LoopJobs, WorkerJobs,
            WorkerPC, JobPC, WorkerGoto, BatchStatus
<1> DEFINE Goal == StoresTypeOK' /\ ProcTypeOK' /\ LoopJobs' /\ WorkerJobs'
<1> SUFFICES Goal  OBVIOUS
<1>0. Home[w] \in Procs  OBVIOUS
<1>1. ASSUME WorkerSet(w) PROVE Goal
  <2>1. faults' \in 0..MaxFaults  BY <1>0, <1>1, ProcChargeType DEF WorkerSet
  <2>2. wjob[w] \in Jobs /\ StatusAt(wpc[w]) \in BatchStatus
    BY <1>1 DEF WorkerSet, StatusAt
  <2>3. AfterSet(wpc[w]) \in JobPC \cup {"done"}
    BY <1>1 DEF WorkerSet, AfterSet
  <2> QED  BY <1>1, <2>1, <2>2, <2>3 DEF WorkerSet, StatusSet, loopVars, lifeVars
<1>2. ASSUME WorkerLines(w) PROVE Goal
  <2>1. PICK pc \in {"finalizing", "done"} : WorkerGoto(w, pc)
    BY <1>2 DEF WorkerLines
  <2> QED  BY <1>2, <2>1 DEF WorkerLines, storeVars, loopVars, lifeVars
<1>3. ASSUME WorkerUpdate(w) PROVE Goal
  <2>1. faults' \in 0..MaxFaults  BY <1>0, <1>3, ProcChargeType DEF WorkerUpdate
  <2> QED  BY <1>3, <2>1 DEF WorkerUpdate, Updated, loopVars, lifeVars
<1>4. ASSUME WorkerRelease(w) PROVE Goal
  BY <1>0, <1>4, WgDoneType DEF WorkerRelease, storeVars, loopVars
<1>5. ASSUME WorkerPanic(w) PROVE Goal
  <2>1. faults' \in 0..MaxFaults  BY <1>5, ChargeType DEF WorkerPanic, Outcomes
  <2> QED  BY <1>5, <2>1 DEF WorkerPanic, loopVars, lifeVars
<1> HIDE DEF Goal
<1> QED  BY <1>1, <1>2, <1>3, <1>4, <1>5 DEF WorkerNext

\* Steps of the processors keep the types.
LEMMA TypedProc ==
  ASSUME Typed, ProcNext, UNCHANGED apiVars
  PROVE  Typed'
<1> DEFINE Goal == StoresTypeOK' /\ ProcTypeOK' /\ LoopJobs' /\ WorkerJobs'
<1>0. ApiTypeOK' /\ HandlerJobs'
  BY DEF Typed, TypeOK, JobVarsOK, apiVars, ApiTypeOK, HandlerJobs
<1>a. SUFFICES Goal  BY <1>0 DEF Typed, TypeOK, JobVarsOK
<1>1. ASSUME NEW p \in Procs, LoopNext(p) \/ LoopStop(p) PROVE Goal
  BY <1>1, TypedLoop
<1>2. ASSUME NEW w \in Workers, WorkerNext(w) \/ WorkerPanic(w) PROVE Goal
  BY <1>2, TypedWorker
<1>3. ASSUME NEW p \in Procs, Signal(p) PROVE Goal
  BY <1>3, ChargeDownType
     DEF Signal, Typed, TypeOK, JobVarsOK, StoresTypeOK, ProcTypeOK, LoopJobs, WorkerJobs,
         loopVars, workVars
<1>4. ASSUME NEW p \in Procs, Exit(p) \/ PanicExit(p) PROVE Goal
  BY <1>4, RestartType
     DEF Exit, PanicExit, Typed, TypeOK, JobVarsOK, StoresTypeOK, storeVars
<1>5. ASSUME NEW p \in Procs, Kill(p) PROVE Goal
  BY <1>5, RestartType, ChargeDownType
     DEF Kill, Typed, TypeOK, JobVarsOK, StoresTypeOK
<1> HIDE DEF Goal
<1> QED  BY <1>1, <1>2, <1>3, <1>4, <1>5 DEF ProcNext

\* Every step keeps the types.
LEMMA TypedStep == Typed /\ [Next]_vars => Typed'
<1> SUFFICES ASSUME Typed, [Next]_vars PROVE Typed'  OBVIOUS
<1>1. CASE ApiNext /\ UNCHANGED procVars  BY <1>1, TypedApi
<1>2. CASE ProcNext /\ UNCHANGED apiVars  BY <1>2, TypedProc
<1>3. ASSUME NEW j \in Jobs, Expire(j) \/ ExpireStatus(j),
             UNCHANGED <<apiVars, procVars>>
      PROVE  Typed'
  BY <1>3 DEF Expire, ExpireStatus, Deleted, apiVars, procVars, Typed, TypeOK, StoresTypeOK, ApiTypeOK,
              ProcTypeOK, JobVarsOK, HandlerJobs, LoopJobs, WorkerJobs
<1>4. CASE UNCHANGED vars
  BY <1>4 DEF vars, storeVars, apiVars, procVars, Typed, TypeOK, StoresTypeOK, ApiTypeOK,
              ProcTypeOK, JobVarsOK, HandlerJobs, LoopJobs, WorkerJobs
<1> QED  BY <1>1, <1>2, <1>3, <1>4 DEF Next

(* Every variable keeps its type in every behaviour of the gateway, and a  *)
(* handler, loop or worker holds a job whenever its next call needs one.   *)
THEOREM TypeCorrect == Spec => [](TypeOK /\ JobVarsOK)
<1>1. Init => Typed  BY TypedInit
<1>2. Typed /\ [Next]_vars => Typed'  BY TypedStep
<1> QED  BY <1>1, <1>2, PTL DEF Spec, Typed

-----------------------------------------------------------------------------
\* One token per job

Tokens == QueueTokens /\ LoopTokens /\ WorkerTokens /\ HandlerTokens /\ HistoryTokens

\* No job is anywhere at the start.
LEMMA TokensInit == Init => Tokens
<1> SUFFICES ASSUME Init PROVE Tokens  OBVIOUS
<1>1. queue = <<>> /\ Queued(queue) = {}
  BY DEF Init, StoresInit, Queued, ToSet
<1>2. QueueTokens  BY <1>1 DEF QueueTokens, NoDuplicate
<1>3. LoopTokens /\ WorkerTokens
  BY StoresAssumption DEF Init, ProcInit, LoopTokens, WorkerTokens
<1>4. HandlerTokens /\ HistoryTokens
  BY DEF Init, ApiInit, ProcInit, HandlerTokens, HistoryTokens
<1> QED  BY <1>2, <1>3, <1>4 DEF Tokens

(* A step of a handler that starts no enqueueing leaves the tokens alone.  *)
LEMMA HandlersMoveOn ==
  ASSUME Typed, Tokens,
         UNCHANGED <<queue, ltask, wjob, runs, withdrawn, entered, created>>,
         \A h \in Handlers : hpc'[h] = "enqueue" => hpc[h] = "enqueue" /\ hjob'[h] = hjob[h]
  PROVE  Tokens'
<1>1. QueueTokens'
  BY DEF Tokens, QueueTokens, HeldByLoop, Queued, NoDuplicate, ToSet
<1>2. LoopTokens' /\ WorkerTokens' /\ HistoryTokens'
  BY DEF Tokens, LoopTokens, WorkerTokens, HistoryTokens
<1>3. HandlerTokens'
  BY DEF Tokens, HandlerTokens
<1> QED  BY <1>1, <1>2, <1>3 DEF Tokens

(* A token may be dropped by a loop or a worker at any time.               *)
LEMMA TokensDropped ==
  ASSUME Typed, Tokens, UNCHANGED <<queue, runs, apiVars>>,
         \A p \in Procs : ltask'[p] \in {ltask[p], NoJob},
         \A w \in Workers : wjob'[w] \in {wjob[w], NoJob}
  PROVE  Tokens'
<1> USE StoresAssumption DEF apiVars
<1>1. QueueTokens'
  <2>1. NoDuplicate(queue)' /\ Queued(queue)' = Queued(queue) /\ Queued(queue) \subseteq Jobs
    BY DEF Tokens, QueueTokens, NoDuplicate, Queued, ToSet, Typed, TypeOK, StoresTypeOK
  <2>2. \A j \in Queued(queue) : ~HeldByLoop(j)'
    BY <2>1 DEF Tokens, QueueTokens, HeldByLoop
  <2> QED  BY <2>1, <2>2 DEF Tokens, QueueTokens
<1>2. LoopTokens'  BY DEF Tokens, LoopTokens
<1>3. WorkerTokens'  BY DEF Tokens, WorkerTokens
<1>4. HandlerTokens' /\ HistoryTokens'
  BY DEF Tokens, HandlerTokens, HistoryTokens
<1> QED  BY <1>1, <1>2, <1>3, <1>4 DEF Tokens

\* Storing a record makes no token.
LEMMA TokensCreateStore ==
  ASSUME Typed, Tokens, NEW h \in Handlers, NEW j \in Jobs, CreateStore(h, j),
         UNCHANGED procVars
  PROVE  Tokens'
<1> USE DEF procVars
<1>1. QueueTokens'
  BY DEF CreateStore, Tokens, QueueTokens, HeldByLoop, Queued, NoDuplicate, ToSet
<1>2. LoopTokens' /\ WorkerTokens'
  BY DEF CreateStore, Tokens, LoopTokens, WorkerTokens
<1>3. HistoryTokens'
  BY DEF CreateStore, Tokens, HistoryTokens
<1>4. HandlerTokens'
  <2>1. j \notin created /\ created' = created \cup {j} /\ entered' = entered
    BY DEF CreateStore
  <2>2. CASE UNCHANGED <<hpc, hjob>>
    BY <2>1, <2>2 DEF Tokens, HandlerTokens
  <2>3. CASE Begin(h, "enqueue", j)
    BY <2>1, <2>3 DEF Begin, Tokens, HandlerTokens, HistoryTokens, Typed, TypeOK, ApiTypeOK
  <2> QED  BY <2>2, <2>3 DEF CreateStore
<1> QED  BY <1>1, <1>2, <1>3, <1>4 DEF Tokens

\* Enqueueing makes the one token of a job that never had one.
LEMMA TokensCreateEnqueue ==
  ASSUME Typed, Tokens, NEW h \in Handlers, CreateEnqueue(h), UNCHANGED procVars
  PROVE  Tokens'
<1> USE DEF procVars
<1> DEFINE j == hjob[h]
<1>0. /\ j \in Jobs /\ j \in created \ entered /\ hpc[h] = "enqueue"
      /\ queue \in Seq(Jobs) /\ runs[j] = 0
  BY DEF CreateEnqueue, Typed, TypeOK, StoresTypeOK, ProcTypeOK, JobVarsOK, HandlerJobs,
         Tokens, HandlerTokens, HistoryTokens
<1>1. /\ hpc' \in [Handlers -> HandlerPC] /\ hpc' = [hpc EXCEPT ![h] = hpc'[h]]
      /\ hpc'[h] # "enqueue"
      /\ \A g \in Handlers \ {h} : hpc'[g] = hpc[g] /\ hjob'[g] = hjob[g]
  BY DEF CreateEnqueue, Answer, Goto, Typed, TypeOK, ApiTypeOK, HandlerPC
<1>2. withdrawn' = withdrawn /\ created' = created
  BY DEF CreateEnqueue
<1>3. \/ queue' = queue /\ entered' = entered
      \/ queue' = Enqueued(queue, j) /\ entered' = entered \cup {j}
  BY DEF CreateEnqueue
<1>4. j \notin Queued(queue) /\ ~HeldByLoop(j) /\ j \notin withdrawn
  BY <1>0 DEF Tokens, QueueTokens, LoopTokens, HistoryTokens, HeldByLoop
<1>5. CASE queue' = queue /\ entered' = entered
  BY <1>1, <1>2, <1>5, HandlersMoveOn
<1>6. CASE queue' = Enqueued(queue, j) /\ entered' = entered \cup {j}
  <2>1. /\ Queued(queue') = Queued(queue) \cup {j}
        /\ NoDuplicate(queue')
    BY <1>0, <1>4, <1>6, EnqueuedEntries DEF Tokens, QueueTokens
  <2>2. QueueTokens'
    <3>1. \A i \in Jobs : HeldByLoop(i)' <=> HeldByLoop(i)  BY DEF HeldByLoop
    <3>2. Queued(queue) \subseteq Jobs  BY <1>0 DEF Queued, ToSet
    <3> QED  BY <1>0, <1>2, <1>4, <1>6, <2>1, <3>1, <3>2 DEF Tokens, QueueTokens
  <2>3. LoopTokens' /\ WorkerTokens'
    BY <1>2, <1>6 DEF Tokens, LoopTokens, WorkerTokens
  <2>4. HistoryTokens'
    BY <1>0, <1>2, <1>6 DEF Tokens, HistoryTokens
  <2>5. HandlerTokens'
    BY <1>0, <1>1, <1>2, <1>6 DEF Tokens, HandlerTokens
  <2> QED  BY <2>2, <2>3, <2>4, <2>5 DEF Tokens
<1> QED  BY <1>3, <1>5, <1>6

\* Removing an entry takes the token out of the queue.
LEMMA TokensCancelRemove ==
  ASSUME Typed, Tokens, NEW h \in Handlers, CancelRemove(h), UNCHANGED procVars
  PROVE  Tokens'
<1> USE DEF procVars
<1> DEFINE j == hjob[h]
<1>0. j \in Jobs /\ queue \in Seq(Jobs) /\ hpc[h] = "remove"
  BY DEF CancelRemove, Typed, TypeOK, StoresTypeOK, JobVarsOK, HandlerJobs
<1>1. \A g \in Handlers : hpc'[g] = "enqueue" => hpc[g] = "enqueue" /\ hjob'[g] = hjob[g]
  BY DEF CancelRemove, Answer, Goto, Typed, TypeOK, ApiTypeOK
<1>2. entered' = entered /\ created' = created  BY DEF CancelRemove
<1>3. \/ queue' = queue /\ withdrawn' = withdrawn
      \/ queue' = Removed(queue, j) /\ j \notin Queued(queue) /\ withdrawn' = withdrawn
      \/ queue' = Removed(queue, j) /\ j \in Queued(queue) /\ withdrawn' = withdrawn \cup {j}
  BY DEF CancelRemove
<1>4. CASE queue' = queue /\ withdrawn' = withdrawn
  BY <1>1, <1>2, <1>4, HandlersMoveOn
<1>5. CASE /\ queue' = Removed(queue, j)
           /\ withdrawn' = withdrawn \/ (j \in Queued(queue) /\ withdrawn' = withdrawn \cup {j})
  <2>1. /\ Queued(queue') = Queued(queue) \ {j}
        /\ NoDuplicate(queue')
    BY <1>0, <1>5, RemovedEntries DEF Tokens, QueueTokens
  <2>2. withdrawn' \subseteq withdrawn \cup {j}  BY <1>5
  <2>3. Queued(queue) \subseteq Jobs  BY <1>0 DEF Queued, ToSet
  <2>4. QueueTokens'
    <3>1. \A i \in Jobs : HeldByLoop(i)' <=> HeldByLoop(i)  BY DEF HeldByLoop
    <3> QED  BY <1>2, <2>1, <2>2, <2>3, <3>1 DEF Tokens, QueueTokens
  <2>5. LoopTokens'
    <3>1. \A p \in Procs : ltask[p] \in Jobs => ltask[p] \notin withdrawn'
      BY <1>5 DEF Tokens, LoopTokens, QueueTokens, HeldByLoop
    <3> QED  BY <1>2, <3>1 DEF Tokens, LoopTokens
  <2>6. WorkerTokens'  BY DEF Tokens, WorkerTokens
  <2>7. HistoryTokens'
    <3>1. \A i \in withdrawn' : i \in entered /\ (i \in Jobs => runs[i] = 0)
      BY <1>5 DEF Tokens, HistoryTokens, QueueTokens, Typed, TypeOK, ProcTypeOK
    <3> QED  BY <1>2, <3>1 DEF Tokens, HistoryTokens
  <2>8. HandlerTokens'
    BY <1>1, <1>2 DEF Tokens, HandlerTokens
  <2> QED  BY <2>4, <2>5, <2>6, <2>7, <2>8 DEF Tokens
<1> QED  BY <1>3, <1>4, <1>5

\* Dequeueing moves the token from the queue to a loop.
LEMMA TokensLoopDequeue ==
  ASSUME Typed, Tokens, NEW p \in Procs, LoopDequeue(p), UNCHANGED apiVars
  PROVE  Tokens'
<1> USE DEF apiVars
<1>0. /\ queue \in Seq(Jobs) /\ ltask \in [Procs -> Jobs \cup {NoJob}]
      /\ ltask[p] \notin Jobs
  BY DEF LoopDequeue, Typed, TypeOK, StoresTypeOK, ProcTypeOK, JobVarsOK, LoopJobs
<1>1. UNCHANGED <<wjob, runs>>  BY DEF LoopDequeue, workVars
<1>2. \/ queue' = queue /\ ltask' = ltask
      \/ queue # <<>> /\ queue' = Dequeued(queue) /\ ltask' = ltask
      \/ queue # <<>> /\ queue' = Dequeued(queue) /\ ltask' = [ltask EXCEPT ![p] = Head(queue)]
  BY DEF LoopDequeue, Applied
<1>3. CASE queue' = queue /\ ltask' = ltask
  BY <1>1, <1>3, TokensDropped
<1>4. CASE /\ queue # <<>> /\ queue' = Dequeued(queue)
           /\ ltask' = ltask \/ ltask' = [ltask EXCEPT ![p] = Head(queue)]
  <2> DEFINE j == Head(queue)
  <2>1. /\ j \in Queued(queue) /\ j \in Jobs
        /\ Queued(queue') = Queued(queue) \ {j}
        /\ NoDuplicate(queue')
    BY <1>0, <1>4, DequeuedEntries DEF Tokens, QueueTokens
  <2> HIDE DEF j
  <2>2. Queued(queue) \subseteq Jobs  BY <1>0 DEF Queued, ToSet
  <2>3. \A q \in Procs : ltask'[q] = ltask[q] \/ (q = p /\ ltask'[q] = j)
    BY <1>0, <1>4 DEF j
  <2>4. QueueTokens'
    <3>1. \A i \in Queued(queue') : ~HeldByLoop(i)'
      BY <2>1, <2>3 DEF Tokens, QueueTokens, HeldByLoop
    <3> QED  BY <1>1, <2>1, <3>1 DEF Tokens, QueueTokens
  <2>5. LoopTokens'
    <3>1. ASSUME NEW q \in Procs, ltask'[q] \in Jobs
          PROVE  /\ ltask'[q] \in entered \ withdrawn
                 /\ runs[ltask'[q]] = 0
      BY <2>1, <2>3, <3>1 DEF Tokens, QueueTokens, LoopTokens
    <3>2. ASSUME NEW q \in Procs, NEW r \in Procs, ltask'[q] \in Jobs, ltask'[r] = ltask'[q]
          PROVE  q = r
      BY <1>0, <2>1, <2>3, <3>2 DEF Tokens, QueueTokens, LoopTokens, HeldByLoop
    <3> QED  BY <1>1, <3>1, <3>2 DEF LoopTokens
  <2>6. WorkerTokens' /\ HandlerTokens' /\ HistoryTokens'
    BY <1>1 DEF Tokens, WorkerTokens, HandlerTokens, HistoryTokens
  <2> QED  BY <2>4, <2>5, <2>6 DEF Tokens
<1> QED  BY <1>2, <1>3, <1>4

\* Starting a job moves the token from the loop to a worker.
LEMMA TokensLoopGetData ==
  ASSUME Typed, Tokens, NEW p \in Procs, LoopGetData(p), UNCHANGED apiVars
  PROVE  Tokens'
<1> USE DEF apiVars
<1> DEFINE j == ltask[p]
<1>0. /\ j \in Jobs /\ queue' = queue /\ NoJob \notin Jobs
      /\ ltask \in [Procs -> Jobs \cup {NoJob}] /\ wjob \in [Workers -> Jobs \cup {NoJob}]
      /\ runs \in [Jobs -> Nat]
  BY StoresAssumption DEF LoopGetData, Typed, TypeOK, ProcTypeOK, JobVarsOK, LoopJobs
<1>1. CASE UNCHANGED <<ltask, workVars, runs>>
  BY <1>0, <1>1, TokensDropped DEF workVars
<1>2. CASE /\ ltask' = [ltask EXCEPT ![p] = NoJob]
           /\ runs' = [runs EXCEPT ![j] = @ + 1]
           /\ \E w \in Held(p) : wjob' = [wjob EXCEPT ![w] = j]
  <2>1. PICK w \in Workers : wjob' = [wjob EXCEPT ![w] = j]  BY <1>2 DEF Held
  <2>2. /\ j \in entered \ withdrawn /\ runs[j] = 0 /\ j \notin Queued(queue)
        /\ \A q \in Procs : ltask[q] = j => q = p
    BY <1>0 DEF Tokens, LoopTokens, QueueTokens, HeldByLoop
  <2>3. runs'[j] = 1 /\ \A i \in Jobs \ {j} : runs'[i] = runs[i]  BY <1>0, <1>2, <2>2
  <2>4. \A q \in Procs : ltask'[q] = IF q = p THEN NoJob ELSE ltask[q]  BY <1>0, <1>2
  <2>5. \A v \in Workers : wjob'[v] = IF v = w THEN j ELSE wjob[v]  BY <1>0, <2>1
  <2>6. \A v \in Workers : wjob[v] # j
    BY <1>0, <2>2 DEF Tokens, WorkerTokens
  <2>7. QueueTokens'
    <3>1. Queued(queue) \subseteq Jobs /\ Queued(queue') = Queued(queue) /\ NoDuplicate(queue')
      BY <1>0 DEF Queued, ToSet, Typed, TypeOK, StoresTypeOK, Tokens, QueueTokens
    <3>2. \A i \in Queued(queue) : ~HeldByLoop(i)'
      BY <1>0, <2>4, <3>1 DEF Tokens, QueueTokens, HeldByLoop
    <3> QED  BY <2>2, <2>3, <3>1, <3>2 DEF Tokens, QueueTokens
  <2>8. LoopTokens'
    BY <1>0, <2>2, <2>3, <2>4 DEF Tokens, LoopTokens
  <2>9. WorkerTokens'
    BY <1>0, <2>3, <2>5, <2>6 DEF Tokens, WorkerTokens
  <2>10. HistoryTokens'
    BY <1>0, <2>2, <2>3 DEF Tokens, HistoryTokens
  <2>11. HandlerTokens'  BY DEF Tokens, HandlerTokens
  <2> QED  BY <2>7, <2>8, <2>9, <2>10, <2>11 DEF Tokens
<1> QED  BY <1>1, <1>2 DEF LoopGetData

\* Putting a task back moves the token to the queue again.
LEMMA TokensLoopRequeue ==
  ASSUME Typed, Tokens, NEW p \in Procs, LoopRequeue(p), UNCHANGED apiVars
  PROVE  Tokens'
<1> USE DEF apiVars
<1> DEFINE j == ltask[p]
<1>0. /\ j \in Jobs /\ queue \in Seq(Jobs) /\ NoJob \notin Jobs
      /\ ltask \in [Procs -> Jobs \cup {NoJob}]
      /\ ltask' = [ltask EXCEPT ![p] = NoJob] /\ UNCHANGED <<wjob, runs>>
  BY StoresAssumption
     DEF LoopRequeue, Typed, TypeOK, StoresTypeOK, ProcTypeOK, JobVarsOK, LoopJobs
<1>1. queue' = queue \/ queue' = Enqueued(queue, j)  BY DEF LoopRequeue
<1>2. CASE queue' = queue
  BY <1>0, <1>2, TokensDropped
<1>3. CASE queue' = Enqueued(queue, j)
  <2>1. /\ j \in entered \ withdrawn /\ runs[j] = 0 /\ j \notin Queued(queue)
        /\ \A q \in Procs : ltask[q] = j => q = p
    BY <1>0 DEF Tokens, LoopTokens, QueueTokens, HeldByLoop
  <2>2. /\ Queued(queue') = Queued(queue) \cup {j}
        /\ NoDuplicate(queue')
    BY <1>0, <1>3, <2>1, EnqueuedEntries DEF Tokens, QueueTokens
  <2>3. \A q \in Procs : ltask'[q] = IF q = p THEN NoJob ELSE ltask[q]  BY <1>0
  <2>4. QueueTokens'
    <3>1. Queued(queue) \subseteq Jobs  BY <1>0 DEF Queued, ToSet
    <3>2. \A i \in Queued(queue') : ~HeldByLoop(i)'
      BY <1>0, <2>1, <2>2, <2>3, <3>1 DEF Tokens, QueueTokens, HeldByLoop
    <3> QED  BY <1>0, <2>1, <2>2, <3>2 DEF Tokens, QueueTokens
  <2>5. LoopTokens'
    BY <1>0, <2>3 DEF Tokens, LoopTokens
  <2>6. WorkerTokens' /\ HandlerTokens' /\ HistoryTokens'
    BY <1>0 DEF Tokens, WorkerTokens, HandlerTokens, HistoryTokens
  <2> QED  BY <2>4, <2>5, <2>6 DEF Tokens
<1> QED  BY <1>1, <1>2, <1>3

\* The API server's steps preserve the tokens.
LEMMA TokensApi ==
  ASSUME Typed, Tokens, ApiNext, UNCHANGED procVars
  PROVE  Tokens'
<1> USE DEF procVars, Typed, TypeOK, ApiTypeOK
<1>1. ASSUME NEW h \in Handlers, NEW j \in Jobs, CreateStore(h, j) PROVE Tokens'
  BY <1>1, TokensCreateStore
<1>2. ASSUME NEW h \in Handlers, NEW j \in Jobs, CancelGet(h, j) PROVE Tokens'
  BY <1>2, HandlersMoveOn DEF CancelGet, Begin, storeVars
<1>3. ASSUME NEW h \in Handlers, CreateEnqueue(h) PROVE Tokens'
  BY <1>3, TokensCreateEnqueue
<1>4. ASSUME NEW h \in Handlers, CreateCleanup(h) PROVE Tokens'
  BY <1>4, HandlersMoveOn DEF CreateCleanup, Answer
<1>5. ASSUME NEW h \in Handlers, CancelRemove(h) PROVE Tokens'
  BY <1>5, TokensCancelRemove
<1>6. ASSUME NEW h \in Handlers, CancelSend(h) PROVE Tokens'
  BY <1>6, HandlersMoveOn DEF CancelSend, Answer, Goto
<1>7. ASSUME NEW h \in Handlers, CancelUpdate(h) PROVE Tokens'
  BY <1>7, HandlersMoveOn DEF CancelUpdate, Answer
<1>8. ASSUME ApiDown PROVE Tokens'
  BY <1>8, HandlersMoveOn DEF ApiDown
<1> QED  BY <1>1, <1>2, <1>3, <1>4, <1>5, <1>6, <1>7, <1>8 DEF ApiNext

\* The processors' steps preserve the tokens.
LEMMA TokensProc ==
  ASSUME Typed, Tokens, ProcNext, UNCHANGED apiVars
  PROVE  Tokens'
<1>0. ltask \in [Procs -> Jobs \cup {NoJob}] /\ wjob \in [Workers -> Jobs \cup {NoJob}]
  BY DEF Typed, TypeOK, ProcTypeOK
<1>1. ASSUME NEW p \in Procs, LoopStop(p) \/ LoopAcquire(p) \/ LoopRelease(p)
      PROVE  Tokens'
  BY <1>1, TokensDropped
     DEF LoopStop, LoopAcquire, LoopRelease, storeVars, workVars
<1>2. ASSUME NEW p \in Procs, LoopDequeue(p) PROVE Tokens'
  BY <1>2, TokensLoopDequeue
<1>3. ASSUME NEW p \in Procs, LoopGetData(p) PROVE Tokens'
  BY <1>3, TokensLoopGetData
<1>4. ASSUME NEW p \in Procs, LoopRequeue(p) PROVE Tokens'
  BY <1>4, TokensLoopRequeue
<1>5. ASSUME NEW p \in Procs, Signal(p) PROVE Tokens'
  BY <1>5, TokensDropped DEF Signal, loopVars, workVars
<1>6. ASSUME NEW p \in Procs, Exit(p) \/ PanicExit(p) \/ Kill(p) PROVE Tokens'
  BY <1>0, <1>6, TokensDropped DEF Exit, PanicExit, Kill, Restart, storeVars
<1>7. ASSUME NEW w \in Workers, WorkerNext(w) \/ WorkerPanic(w) PROVE Tokens'
  BY <1>0, <1>7, TokensDropped
     DEF WorkerNext, WorkerSet, WorkerLines, WorkerUpdate, WorkerRelease, WorkerPanic,
         WorkerGoto, storeVars, loopVars
<1> QED  BY <1>1, <1>2, <1>3, <1>4, <1>5, <1>6, <1>7 DEF ProcNext, LoopNext

\* Every step preserves the tokens.
LEMMA TokensStep == Typed /\ Tokens /\ [Next]_vars => Tokens'
<1> SUFFICES ASSUME Typed, Tokens, [Next]_vars PROVE Tokens'  OBVIOUS
<1>1. CASE ApiNext /\ UNCHANGED procVars  BY <1>1, TokensApi
<1>2. CASE ProcNext /\ UNCHANGED apiVars  BY <1>2, TokensProc
<1>3. ASSUME NEW j \in Jobs, Expire(j) \/ ExpireStatus(j),
             UNCHANGED <<apiVars, procVars>>
      PROVE  Tokens'
  BY <1>3, TokensDropped DEF Expire, ExpireStatus, procVars
<1>4. CASE UNCHANGED vars
  BY <1>4, TokensDropped DEF vars, storeVars, procVars
<1> QED  BY <1>1, <1>2, <1>3, <1>4 DEF Next

(* OneToken is an invariant: whatever fails and whoever is killed, a job   *)
(* is in at most one place of the system.                                  *)
THEOREM OneTokenInvariant == Spec => []OneToken
<1>1. Init => Typed /\ Tokens  BY TypedInit, TokensInit
<1>2. Typed /\ Tokens /\ [Next]_vars => Typed' /\ Tokens'  BY TypedStep, TokensStep
<1>3. Typed /\ Tokens => OneToken
  BY DEF Typed, Tokens, OneToken
<1> QED  BY <1>1, <1>2, <1>3, PTL DEF Spec

(* No job is ever started twice.                                           *)
THEOREM JobsRunAtMostOnce == Spec => []AtMostOnce
<1>1. OneToken => AtMostOnce
  BY DEF OneToken, HistoryTokens, AtMostOnce
<1> QED  BY <1>1, OneTokenInvariant, PTL

(* A job that a cancel took out of the queue is never started.             *)
THEOREM CancelledJobsNeverRun == Spec => []WithdrawnNeverRuns
<1>1. Typed /\ OneToken => WithdrawnNeverRuns
  BY DEF Typed, TypeOK, ApiTypeOK, ProcTypeOK, OneToken, HistoryTokens, WithdrawnNeverRuns
<1> QED  BY <1>1, TypeCorrect, OneTokenInvariant, PTL DEF Typed

-----------------------------------------------------------------------------
\* The order of the queue

(* Whatever step is taken, the queue sees at most one of its own calls.    *)
LEMMA QueueStep ==
  ASSUME Typed, [Next]_vars
  PROVE  \/ queue' = queue
         \/ \E j \in Jobs : queue' = Enqueued(queue, j) \/ queue' = Removed(queue, j)
         \/ queue # <<>> /\ queue' = Dequeued(queue)
<1> DEFINE Goal == \/ queue' = queue
                   \/ \E j \in Jobs : queue' = Enqueued(queue, j) \/ queue' = Removed(queue, j)
                   \/ queue # <<>> /\ queue' = Dequeued(queue)
<1> SUFFICES Goal  OBVIOUS
<1>0. /\ \A h \in Handlers : hpc[h] # "idle" => hjob[h] \in Jobs
      /\ \A p \in Procs : lpc[p] = "requeue" => ltask[p] \in Jobs
  BY DEF Typed, JobVarsOK, HandlerJobs, LoopJobs
<1>1. ASSUME NEW h \in Handlers, CreateEnqueue(h) PROVE Goal
  BY <1>0, <1>1 DEF CreateEnqueue
<1>2. ASSUME NEW h \in Handlers, CancelRemove(h) PROVE Goal
  BY <1>0, <1>2 DEF CancelRemove
<1>3. ASSUME NEW p \in Procs, LoopDequeue(p) PROVE Goal
  BY <1>3 DEF LoopDequeue
<1>4. ASSUME NEW p \in Procs, LoopRequeue(p) PROVE Goal
  BY <1>0, <1>4 DEF LoopRequeue
<1>5. ASSUME NEW h \in Handlers, NEW j \in Jobs, CreateStore(h, j) \/ CancelGet(h, j) PROVE Goal
  BY <1>5 DEF CreateStore, CancelGet, storeVars
<1>6. ASSUME NEW h \in Handlers, CreateCleanup(h) \/ CancelSend(h) \/ CancelUpdate(h) PROVE Goal
  BY <1>6 DEF CreateCleanup, CancelSend, CancelUpdate
<1>7. ASSUME ApiDown PROVE Goal  BY <1>7 DEF ApiDown
<1>8. ASSUME NEW p \in Procs,
             LoopStop(p) \/ LoopAcquire(p) \/ LoopRelease(p) \/ LoopGetData(p)
      PROVE  Goal
  BY <1>8 DEF LoopStop, LoopAcquire, LoopRelease, LoopGetData, storeVars
<1>9. ASSUME NEW p \in Procs, Signal(p) \/ Exit(p) \/ PanicExit(p) \/ Kill(p) PROVE Goal
  BY <1>9 DEF Signal, Exit, PanicExit, Kill, storeVars
<1>10. ASSUME NEW w \in Workers, WorkerNext(w) \/ WorkerPanic(w) PROVE Goal
  BY <1>10 DEF WorkerNext, WorkerSet, WorkerLines, WorkerUpdate, WorkerRelease, WorkerPanic,
               storeVars
<1>11. ASSUME NEW j \in Jobs, Expire(j) \/ ExpireStatus(j) PROVE Goal
  BY <1>11 DEF Expire, ExpireStatus
<1>12. CASE UNCHANGED vars  BY <1>12 DEF vars, storeVars
<1> HIDE DEF Goal
<1> QED
  BY <1>1, <1>2, <1>3, <1>4, <1>5, <1>6, <1>7, <1>8, <1>9, <1>10, <1>11, <1>12
     DEF Next, ApiNext, ProcNext, LoopNext

(* The queue is sorted by SLO in every reachable state.                    *)
THEOREM QueueSorted == Spec => []SortedBySLO(queue)
<1>1. Init => SortedBySLO(queue)
  BY DEF Init, StoresInit, SortedBySLO
<1>2. Typed /\ SortedBySLO(queue) /\ [Next]_vars => SortedBySLO(queue)'
  <2> SUFFICES ASSUME Typed, SortedBySLO(queue), [Next]_vars PROVE SortedBySLO(queue')
    BY DEF SortedBySLO
  <2>0. queue \in Seq(Jobs)  BY DEF Typed, TypeOK, StoresTypeOK
  <2> QED  BY <2>0, QueueStep, EnqueuedEntries, DequeuedEntries, RemovedEntries
<1> QED  BY <1>1, <1>2, TypeCorrect, PTL DEF Spec, Typed

(* A loop takes a new task only by a Dequeue of the head.                  *)
LEMMA TaskTaken ==
  ASSUME Typed, [Next]_vars, NEW p \in Procs, ltask[p] = NoJob, ltask'[p] # NoJob
  PROVE  queue # <<>> /\ ltask'[p] = Head(queue)
<1> DEFINE Goal == queue # <<>> /\ ltask'[p] = Head(queue)
<1> SUFFICES Goal  OBVIOUS
<1>0. ltask \in [Procs -> Jobs \cup {NoJob}]  BY DEF Typed, TypeOK, ProcTypeOK
<1>1. ASSUME NEW q \in Procs, LoopDequeue(q) PROVE Goal
  BY <1>0, <1>1 DEF LoopDequeue
<1>2. ASSUME NEW q \in Procs,
             LoopStop(q) \/ LoopAcquire(q) \/ LoopRelease(q) \/ Signal(q)
      PROVE  Goal
  BY <1>2 DEF LoopStop, LoopAcquire, LoopRelease, Signal, loopVars
<1>3. ASSUME NEW q \in Procs, LoopGetData(q) \/ LoopRequeue(q) PROVE Goal
  BY <1>0, <1>3 DEF LoopGetData, LoopRequeue
<1>4. ASSUME NEW q \in Procs, Exit(q) \/ PanicExit(q) \/ Kill(q) PROVE Goal
  BY <1>0, <1>4 DEF Exit, PanicExit, Kill, Restart
<1>5. ASSUME NEW w \in Workers, WorkerNext(w) \/ WorkerPanic(w) PROVE Goal
  BY <1>5 DEF WorkerNext, WorkerSet, WorkerLines, WorkerUpdate, WorkerRelease, WorkerPanic,
              loopVars
<1>6. CASE UNCHANGED procVars  BY <1>6 DEF procVars
<1>7. CASE UNCHANGED vars  BY <1>7 DEF vars, procVars
<1> HIDE DEF Goal
<1> QED  BY <1>1, <1>2, <1>3, <1>4, <1>5, <1>6, <1>7 DEF Next, ProcNext, LoopNext

(* The task a loop takes is a most urgent one of the queue.                *)
THEOREM MostUrgentFirst == Spec => TakenIsMostUrgent
<1>1. Typed /\ SortedBySLO(queue) /\ [Next]_vars
        => [\A p \in Procs : ltask[p] = NoJob /\ ltask'[p] # NoJob
              => \A j \in Queued(queue) : SLO[ltask'[p]] <= SLO[j]]_vars
  <2> SUFFICES ASSUME Typed, SortedBySLO(queue), [Next]_vars,
                      NEW p \in Procs, ltask[p] = NoJob, ltask'[p] # NoJob,
                      NEW j \in Queued(queue)
               PROVE  SLO[ltask'[p]] <= SLO[j]
    OBVIOUS
  <2>0. queue \in Seq(Jobs)  BY DEF Typed, TypeOK, StoresTypeOK
  <2>1. queue # <<>> /\ ltask'[p] = Head(queue)  BY TaskTaken
  <2> QED  BY <2>0, <2>1, DequeuedEntries
<1> QED  BY <1>1, QueueSorted, TypeCorrect, PTL DEF Spec, Typed, TakenIsMostUrgent
=============================================================================
