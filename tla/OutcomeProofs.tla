--------------------------- MODULE OutcomeProofs ---------------------------
(***************************************************************************)
(* What clients of the gateway may rely on, for every set of jobs,         *)
(* handlers, processes and workers: how an enqueued job can be lost and    *)
(* how it cannot, that a cancelled one is marked and stays so, that a      *)
(* completed one stays completed; and what every Release of a worker ID    *)
(* does.                                                                   *)
(***************************************************************************)
EXTENDS GatewayProofs

-----------------------------------------------------------------------------
\* What the invariants of the gateway leave out.

\* Only created jobs have a record.
RecordIsCreated == \A j \in Jobs : db[j] # "absent" => j \in created

\* "cancelled" is only ever written to jobs that have been withdrawn.
CancelledIsWithdrawn ==
  /\ \A h \in Handlers : hpc[h] = "markCancelled" => hjob[h] \in withdrawn
  /\ \A j \in Jobs : db[j] = "cancelled" => j \in withdrawn
  /\ \A w \in Workers : wcopy[w] # "cancelled"

\* A completed job has run, and the goroutine that completed it is done.
CompletedHasRun ==
  \A j \in Jobs : status[j] = "completed" => runs[j] = 1 /\ ~Running(j)

-----------------------------------------------------------------------------
\* How an enqueued job can be lost

\* What takes j away in a step: a failure, or the end of a process that is
\* dequeuing j or has it in the hands of its loop.
Cause(j) ==
  \/ faults' > faults
  \/ \E p \in Procs :
       /\ Ending(p)
       /\ ltask[p] = j \/ (lpc[p] = "dequeue" /\ Head(queue) = j)

(* A call that fails without a cause costs nothing: its process is ending. *)
LEMMA ProcChargeFree ==
  ASSUME faults \in 0..MaxFaults, NEW p \in Procs, NEW o \in Outcomes, ProcCharge(p, o)
  PROVE  faults' > faults \/ o = "ok" \/ ctxDone[p]
BY StoresAssumption DEF Charge, ProcCharge

(* A step that moves no token leaves every placed job placed.              *)
LEMMA PlacedKept ==
  ASSUME Typed, NEW j \in Jobs, Placed(j), UNCHANGED <<queue, runs>>,
         withdrawn \subseteq withdrawn',
         \A p \in Procs : ltask[p] = j => ltask'[p] = j
  PROVE  Placed(j)'
<1>1. Queued(queue)' = Queued(queue)  BY DEF Queued
<1>2. HeldByLoop(j) => HeldByLoop(j)'  BY DEF HeldByLoop
<1> QED  BY <1>1, <1>2 DEF Placed

(* Steps of the API server place the jobs they enqueue and lose none.      *)
LEMMA PlacedApi ==
  ASSUME Typed, ApiNext, UNCHANGED procVars, NEW j \in entered', j \in entered => Placed(j)
  PROVE  Placed(j)'
<1>0. /\ queue \in Seq(Jobs) /\ entered \subseteq Jobs
      /\ \A h \in Handlers : hpc[h] # "idle" => hjob[h] \in Jobs
  BY DEF Typed, TypeOK, StoresTypeOK, ApiTypeOK, JobVarsOK, HandlerJobs
<1>1. UNCHANGED <<ltask, runs>>  BY DEF procVars
<1>2. \A i : HeldByLoop(i)' <=> HeldByLoop(i)  BY <1>1 DEF HeldByLoop
<1>3. ASSUME entered' = entered, UNCHANGED <<queue, withdrawn>>  PROVE Placed(j)'
  BY <1>0, <1>1, <1>3, PlacedKept
<1>4. ASSUME NEW h \in Handlers, CreateEnqueue(h)  PROVE Placed(j)'
  <2>1. CASE UNCHANGED <<queue, entered>>
    BY <1>3, <1>4, <2>1 DEF CreateEnqueue
  <2>2. CASE queue' = Enqueued(queue, hjob[h]) /\ entered' = entered \cup {hjob[h]}
    <3>1. Queued(queue') = Queued(queue) \cup {hjob[h]}
      BY <1>0, <1>4, <2>2, EnqueuedEntries DEF CreateEnqueue
    <3>2. withdrawn' = withdrawn  BY <1>4 DEF CreateEnqueue
    <3> QED  BY <1>1, <1>2, <2>2, <3>1, <3>2 DEF Placed
  <2> QED  BY <1>4, <2>1, <2>2 DEF CreateEnqueue
<1>5. ASSUME NEW h \in Handlers, CancelRemove(h)  PROVE Placed(j)'
  <2>0. entered' = entered  BY <1>5 DEF CancelRemove
  <2>1. CASE UNCHANGED <<queue, withdrawn>>  BY <1>3, <2>0, <2>1
  <2>2. CASE /\ queue' = Removed(queue, hjob[h])
             /\ withdrawn' = IF hjob[h] \in Queued(queue)
                               THEN withdrawn \cup {hjob[h]} ELSE withdrawn
    <3>1. Queued(queue) \ {hjob[h]} \subseteq Queued(queue')
      BY <1>0, <1>5, <2>2, RemovedEntries DEF CancelRemove
    <3> QED  BY <1>1, <1>2, <2>0, <2>2, <3>1 DEF Placed
  <2> QED  BY <1>5, <2>1, <2>2 DEF CancelRemove
<1>6. ASSUME NEW h \in Handlers, NEW i \in Jobs, CreateStore(h, i) \/ CancelGet(h, i)
      PROVE  Placed(j)'
  BY <1>3, <1>6 DEF CreateStore, CancelGet, storeVars
<1>7. ASSUME NEW h \in Handlers, CreateCleanup(h) \/ CancelSend(h) \/ CancelUpdate(h)
      PROVE  Placed(j)'
  BY <1>3, <1>7 DEF CreateCleanup, CancelSend, CancelUpdate
<1>8. ASSUME ApiDown  PROVE Placed(j)'
  BY <1>3, <1>8 DEF ApiDown
<1> QED  BY <1>4, <1>5, <1>6, <1>7, <1>8 DEF ApiNext

(* Steps of the loop of a process lose a job only with a cause.            *)
LEMMA PlacedLoop ==
  ASSUME Typed, NEW p \in Procs, LoopNext(p) \/ LoopStop(p), UNCHANGED apiVars,
         NEW j \in Jobs, Placed(j), ~Cause(j)
  PROVE  Placed(j)'
<1>0. /\ queue \in Seq(Jobs) /\ runs \in [Jobs -> Nat] /\ faults \in 0..MaxFaults
      /\ ltask \in [Procs -> Jobs \cup {NoJob}] /\ NoJob \notin Jobs
      /\ \A q \in Procs : ltask[q] \in Jobs <=> lpc[q] \in {"getdata", "requeue"}
  BY StoresAssumption DEF Typed, TypeOK, StoresTypeOK, ProcTypeOK, JobVarsOK, LoopJobs
<1>1. withdrawn' = withdrawn  BY DEF apiVars
<1>2. ASSUME UNCHANGED <<queue, runs, ltask>>  PROVE Placed(j)'
  BY <1>1, <1>2, PlacedKept
<1>3. ASSUME LoopDequeue(p)  PROVE Placed(j)'
  <2>0. runs' = runs /\ ltask[p] \notin Jobs  BY <1>0, <1>3 DEF LoopDequeue
  <2>1. CASE UNCHANGED <<queue, ltask>>  BY <1>2, <2>0, <2>1
  <2>2. CASE queue # <<>> /\ queue' = Dequeued(queue)
    <3>1. Queued(queue) = Queued(queue') \cup {Head(queue)}
      BY <1>0, <2>2, DequeuedEntries
    <3>2. CASE ltask' = [ltask EXCEPT ![p] = Head(queue)]
      <4>1. HeldByLoop(j) \/ j = Head(queue) => HeldByLoop(j)'
        BY <1>0, <2>0, <3>2 DEF HeldByLoop
      <4> QED  BY <1>1, <2>0, <3>1, <4>1 DEF Placed
    <3>3. CASE ltask' = ltask /\ \E o \in Outcomes : o # "ok" /\ ProcCharge(p, o)
      <4>1. ctxDone[p]  BY <1>0, <3>3, ProcChargeFree DEF Cause
      <4>2. Head(queue) # j  BY <1>3, <4>1 DEF Cause, Ending, LoopDequeue
      <4>3. HeldByLoop(j) => HeldByLoop(j)'  BY <3>3 DEF HeldByLoop
      <4> QED  BY <1>1, <2>0, <3>1, <4>2, <4>3 DEF Placed
    <3> QED  BY <1>3, <2>2, <3>2, <3>3 DEF LoopDequeue
  <2> QED  BY <1>3, <2>1, <2>2 DEF LoopDequeue, Applied
<1>4. ASSUME LoopGetData(p)  PROVE Placed(j)'
  <2>1. CASE UNCHANGED <<ltask, workVars, runs>>
    BY <1>2, <1>4, <2>1 DEF LoopGetData
  <2>2. CASE /\ ltask' = [ltask EXCEPT ![p] = NoJob]
             /\ runs' = [runs EXCEPT ![ltask[p]] = @ + 1]
    <3>1. ltask[p] \in Jobs  BY <1>0, <1>4 DEF LoopGetData
    <3>2. runs[j] > 0 \/ j = ltask[p] => runs'[j] > 0
      BY <1>0, <2>2, <3>1
    <3>3. j # ltask[p] /\ HeldByLoop(j) => HeldByLoop(j)'
      BY <1>0, <2>2 DEF HeldByLoop
    <3>4. Queued(queue)' = Queued(queue)  BY <1>4 DEF LoopGetData, Queued
    <3> QED  BY <1>1, <3>2, <3>3, <3>4 DEF Placed
  <2> QED  BY <1>4, <2>1, <2>2 DEF LoopGetData
<1>5. ASSUME LoopRequeue(p)  PROVE Placed(j)'
  <2>1. runs' = runs /\ ltask' = [ltask EXCEPT ![p] = NoJob]  BY <1>5 DEF LoopRequeue
  <2>2. j # ltask[p] /\ HeldByLoop(j) => HeldByLoop(j)'
    BY <1>0, <2>1 DEF HeldByLoop
  <2>3. Queued(queue) \subseteq Queued(queue')
    <3>1. CASE queue' = Enqueued(queue, ltask[p])
      BY <1>0, <1>5, <3>1, EnqueuedEntries DEF LoopRequeue
    <3> QED  BY <1>5, <3>1 DEF LoopRequeue
  <2>4. CASE ltask[p] # j  BY <1>1, <2>1, <2>2, <2>3, <2>4 DEF Placed
  <2>5. CASE ltask[p] = j
    <3>1. queue' = Enqueued(queue, j)
      <4>1. PICK o \in Outcomes :
              /\ ProcCharge(p, o)
              /\ queue' = IF Applied(o) THEN Enqueued(queue, ltask[p]) ELSE queue
        BY <1>5 DEF LoopRequeue
      <4>2. o = "ok"
        BY <1>0, <2>5, <4>1, ProcChargeFree DEF Cause, Ending
      <4> QED  BY <2>5, <4>1, <4>2 DEF Applied
    <3>2. j \in Queued(queue')  BY <1>0, <3>1, EnqueuedEntries
    <3> QED  BY <3>2 DEF Placed
  <2> QED  BY <2>4, <2>5
<1>6. ASSUME LoopStop(p) \/ LoopAcquire(p) \/ LoopRelease(p)  PROVE Placed(j)'
  BY <1>2, <1>6 DEF LoopStop, LoopAcquire, LoopRelease, storeVars
<1> QED  BY <1>3, <1>4, <1>5, <1>6 DEF LoopNext

(* The other steps of the processors lose a job only with a cause.         *)
LEMMA PlacedProc ==
  ASSUME Typed, ProcNext, UNCHANGED apiVars, NEW j \in Jobs, Placed(j), ~Cause(j)
  PROVE  Placed(j)'
<1>0. /\ ltask \in [Procs -> Jobs \cup {NoJob}] /\ NoJob \notin Jobs /\ downs \in 0..MaxDowns
      /\ \A q \in Procs : ltask[q] \in Jobs <=> lpc[q] \in {"getdata", "requeue"}
  BY StoresAssumption DEF Typed, TypeOK, StoresTypeOK, ProcTypeOK, JobVarsOK, LoopJobs
<1>1. withdrawn' = withdrawn  BY DEF apiVars
<1>2. ASSUME UNCHANGED <<queue, runs, ltask>>  PROVE Placed(j)'
  BY <1>1, <1>2, PlacedKept
<1>3. ASSUME NEW p \in Procs, LoopNext(p) \/ LoopStop(p)  PROVE Placed(j)'
  BY <1>3, PlacedLoop
<1>4. ASSUME NEW p \in Procs, Exit(p) \/ PanicExit(p) \/ Kill(p)  PROVE Placed(j)'
  <2>1. ltask[p] # j
    <3>1. CASE Exit(p)  BY <1>0, <3>1 DEF Exit, MayExit
    <3>2. CASE PanicExit(p)  BY <3>2 DEF PanicExit, Cause, Ending
    <3>3. CASE Kill(p)
      <4>1. downs' > downs  BY <1>0, <3>3, StoresAssumption DEF Kill, ChargeDown
      <4> QED  BY <4>1 DEF Cause, Ending
    <3> QED  BY <1>4, <3>1, <3>2, <3>3
  <2>2. UNCHANGED <<queue, runs>> /\ ltask' = [ltask EXCEPT ![p] = NoJob]
    BY <1>4 DEF Exit, PanicExit, Kill, Restart, storeVars
  <2> QED  BY <1>0, <1>1, <2>1, <2>2, PlacedKept
<1>5. ASSUME NEW p \in Procs, Signal(p)  PROVE Placed(j)'
  BY <1>2, <1>5 DEF Signal, loopVars
<1>6. ASSUME NEW w \in Workers, WorkerNext(w) \/ WorkerPanic(w)  PROVE Placed(j)'
  BY <1>2, <1>6 DEF WorkerNext, WorkerSet, WorkerLines, WorkerUpdate, WorkerRelease,
     WorkerPanic, storeVars, loopVars
<1> QED  BY <1>3, <1>4, <1>5, <1>6 DEF ProcNext

(* A job that has an entry is queued, held by a loop, started or withdrawn *)
(* until a store call fails or the process that has it ends: no            *)
(* interleaving of any number of handlers, loops, workers and restarts     *)
(* loses it in any other way (worker.go:183-225, batch_handler.go:372).    *)
THEOREM AcceptedJobsNotLost == Spec => NoSilentLoss
<1>1. ASSUME Typed, [Next]_vars, NEW j \in entered', ~Placed(j)', j \in entered => Placed(j)
      PROVE  Cause(j)
  <2>0. entered \subseteq Jobs  BY <1>1 DEF Typed, TypeOK, ApiTypeOK
  <2>1. CASE ApiNext /\ UNCHANGED procVars  BY <1>1, <2>1, PlacedApi
  <2>2. CASE ProcNext /\ UNCHANGED apiVars
    <3>1. j \in entered  BY <1>1, <2>2 DEF apiVars
    <3> QED  BY <1>1, <2>0, <2>2, <3>1, PlacedProc
  <2>3. CASE UNCHANGED <<queue, apiVars, procVars>>
    <3>1. j \in entered /\ UNCHANGED <<runs, ltask, withdrawn>>
      BY <1>1, <2>3 DEF apiVars, procVars
    <3> QED  BY <1>1, <2>0, <2>3, <3>1, PlacedKept
  <2> QED  BY <1>1, <2>1, <2>2, <2>3 DEF Next, Expire, ExpireStatus, vars, storeVars
<1>2. Typed /\ [Next]_vars
        => [\A j \in Lost' \ Lost :
              \/ faults' > faults
              \/ \E p \in Procs :
                   /\ Ending(p)
                   /\ ltask[p] = j \/ (lpc[p] = "dequeue" /\ Head(queue) = j)]_vars
  BY <1>1 DEF Lost, Cause
<1> QED  BY <1>2, TypeCorrect, PTL DEF Spec, Typed, NoSilentLoss

-----------------------------------------------------------------------------
\* Cancelled jobs

(* The four ways a record's status changes: CreateBatch stores it, it goes *)
(* (cleanup or TTL), CancelBatch marks it, or a worker writes its copy.    *)
LEMMA DbStep ==
  ASSUME Typed, [Next]_vars, NEW j \in Jobs, db'[j] # db[j]
  PROVE  \/ j \notin created /\ j \in created'
         \/ db'[j] = "absent"
         \/ /\ db[j] # "absent"
            /\ \E h \in Handlers : /\ hpc[h] \in {"markCancelled", "markCancelling"}
                                   /\ hjob[h] = j /\ db'[j] = Mark(hpc[h])
         \/ /\ db[j] # "absent"
            /\ \E w \in Workers : /\ wjob[w] = j /\ db'[j] = wcopy[w]
                                  /\ wpc[w] = "update" /\ wpc'[w] = "final"
<1> DEFINE Marked == \E h \in Handlers : /\ hpc[h] \in {"markCancelled", "markCancelling"}
                                         /\ hjob[h] = j /\ db'[j] = Mark(hpc[h])
           Copied == \E w \in Workers : /\ wjob[w] = j /\ db'[j] = wcopy[w]
                                        /\ wpc[w] = "update" /\ wpc'[w] = "final"
           Goal == \/ (j \notin created /\ j \in created') \/ db'[j] = "absent"
                   \/ (db[j] # "absent" /\ Marked) \/ (db[j] # "absent" /\ Copied)
<1> SUFFICES Goal  OBVIOUS
<1>0. db \in [Jobs -> BatchStatus \cup {"absent"}] /\ wpc \in [Workers -> WorkerPC]
  BY DEF Typed, TypeOK, StoresTypeOK, ProcTypeOK
<1>1. ASSUME NEW h \in Handlers, NEW i \in Jobs, CreateStore(h, i)  PROVE Goal
  BY <1>0, <1>1 DEF CreateStore, Stored
<1>2. ASSUME NEW h \in Handlers, CancelUpdate(h)  PROVE Goal
  BY <1>0, <1>2 DEF CancelUpdate, Updated, Found
<1>3. ASSUME NEW h \in Handlers, CreateCleanup(h)  PROVE Goal
  BY <1>0, <1>3 DEF CreateCleanup, Deleted
<1>4. ASSUME NEW w \in Workers, WorkerUpdate(w)  PROVE Goal
  <2>1. db' = Updated(wjob[w], wcopy[w])
    BY <1>4 DEF WorkerUpdate
  <2>2. db[j] # "absent" /\ wjob[w] = j /\ db'[j] = wcopy[w]
    BY <1>0, <2>1 DEF Updated, Found
  <2>3. wpc[w] = "update" /\ wpc'[w] = "final"
    BY <1>0, <1>4 DEF WorkerUpdate, WorkerGoto
  <2> QED  BY <2>2, <2>3
<1>5. ASSUME NEW i \in Jobs, Expire(i) \/ ExpireStatus(i)  PROVE Goal
  BY <1>0, <1>5 DEF Expire, ExpireStatus, Deleted
<1>6. ASSUME NEW h \in Handlers, CreateEnqueue(h) \/ CancelRemove(h) \/ CancelSend(h)  PROVE FALSE
  BY <1>6 DEF CreateEnqueue, CancelRemove, CancelSend
<1>7. ASSUME NEW h \in Handlers, NEW i \in Jobs, CancelGet(h, i)  PROVE FALSE
  BY <1>7 DEF CancelGet, storeVars
<1>8. ~ApiDown  BY DEF ApiDown
<1>9. ASSUME NEW p \in Procs, LoopNext(p) \/ LoopStop(p)  PROVE FALSE
  BY <1>9 DEF LoopNext, LoopStop, LoopAcquire, LoopDequeue, LoopRelease,
     LoopGetData, LoopRequeue, storeVars
<1>10. ASSUME NEW p \in Procs, Signal(p) \/ Exit(p) \/ PanicExit(p) \/ Kill(p)  PROVE FALSE
  BY <1>10 DEF Signal, Exit, PanicExit, Kill, storeVars
<1>11. ASSUME NEW w \in Workers,
              WorkerSet(w) \/ WorkerLines(w) \/ WorkerRelease(w) \/ WorkerPanic(w)
       PROVE  FALSE
  BY <1>11 DEF WorkerSet, WorkerLines, WorkerRelease, WorkerPanic, storeVars
<1>12. ASSUME UNCHANGED vars  PROVE FALSE
  BY <1>12 DEF vars, storeVars
<1> HIDE DEF Goal
<1> QED
  BY <1>1, <1>2, <1>3, <1>4, <1>5, <1>6, <1>7, <1>8, <1>9, <1>10, <1>11, <1>12
     DEF Next, ApiNext, ProcNext, WorkerNext

(* A handler comes to "markCancelled" by a Remove that found the entry.    *)
LEMMA MarkStep ==
  ASSUME Typed, [Next]_vars, NEW h \in Handlers, hpc'[h] = "markCancelled"
  PROVE  \/ hpc[h] = "markCancelled" /\ hjob'[h] = hjob[h]
         \/ CancelRemove(h) /\ hjob'[h] = hjob[h] /\ hjob[h] \in withdrawn'
<1> DEFINE Goal == \/ hpc[h] = "markCancelled" /\ hjob'[h] = hjob[h]
                   \/ CancelRemove(h) /\ hjob'[h] = hjob[h] /\ hjob[h] \in withdrawn'
<1> SUFFICES Goal  OBVIOUS
<1>0. hpc \in [Handlers -> HandlerPC] /\ hjob \in [Handlers -> Jobs \cup {NoJob}]
  BY DEF Typed, TypeOK, ApiTypeOK
<1>1. ASSUME NEW g \in Handlers, CancelRemove(g)  PROVE Goal
  BY <1>0, <1>1 DEF CancelRemove, Goto, Answer, Applied
<1>2. ASSUME NEW g \in Handlers, NEW j \in Jobs, CreateStore(g, j) \/ CancelGet(g, j)  PROVE Goal
  BY <1>0, <1>2 DEF CreateStore, CancelGet, Begin
<1>3. ASSUME NEW g \in Handlers, CreateEnqueue(g) \/ CreateCleanup(g)  PROVE Goal
  BY <1>0, <1>3 DEF CreateEnqueue, CreateCleanup, Goto, Answer
<1>4. ASSUME NEW g \in Handlers, CancelSend(g) \/ CancelUpdate(g)  PROVE Goal
  BY <1>0, <1>4 DEF CancelSend, CancelUpdate, Goto, Answer
<1>5. ASSUME ApiDown  PROVE Goal
  BY <1>5 DEF ApiDown
<1>6. CASE UNCHANGED apiVars  BY <1>6 DEF apiVars
<1>7. CASE UNCHANGED vars  BY <1>7 DEF vars, apiVars
<1> HIDE DEF Goal
<1> QED  BY <1>1, <1>2, <1>3, <1>4, <1>5, <1>6, <1>7 DEF Next, ApiNext

(* A worker's copy of the record is what LoopGetData found.                *)
LEMMA CopyStep ==
  ASSUME Typed, [Next]_vars, NEW w \in Workers
  PROVE  \/ wcopy'[w] \in {wcopy[w], "absent"}
         \/ \E p \in Procs : ltask[p] \in Jobs /\ wcopy'[w] = db[ltask[p]]
<1> DEFINE Goal == \/ wcopy'[w] \in {wcopy[w], "absent"}
                   \/ \E p \in Procs : ltask[p] \in Jobs /\ wcopy'[w] = db[ltask[p]]
<1> SUFFICES Goal  OBVIOUS
<1>0. /\ wcopy \in [Workers -> BatchStatus \cup {"absent"}]
      /\ \A p \in Procs : lpc[p] = "getdata" => ltask[p] \in Jobs
  BY DEF Typed, TypeOK, ProcTypeOK, JobVarsOK, LoopJobs
<1>1. ASSUME NEW p \in Procs, LoopGetData(p)  PROVE Goal
  BY <1>0, <1>1 DEF LoopGetData, workVars, Held
<1>2. ASSUME NEW p \in Procs, LoopStop(p) \/ LoopAcquire(p) \/ LoopDequeue(p) \/ LoopRelease(p)
                               \/ LoopRequeue(p) \/ Signal(p)
      PROVE  Goal
  BY <1>2 DEF LoopStop, LoopAcquire, LoopDequeue, LoopRelease, LoopRequeue, Signal,
     workVars
<1>3. ASSUME NEW p \in Procs, Exit(p) \/ PanicExit(p) \/ Kill(p)  PROVE Goal
  BY <1>3 DEF Exit, PanicExit, Kill, Restart
<1>4. ASSUME NEW v \in Workers, WorkerNext(v) \/ WorkerPanic(v)  PROVE Goal
  BY <1>0, <1>4 DEF WorkerNext, WorkerSet, WorkerLines, WorkerUpdate, WorkerRelease,
     WorkerPanic, WorkerGoto
<1>5. CASE UNCHANGED procVars  BY <1>5 DEF procVars
<1>6. CASE UNCHANGED vars  BY <1>6 DEF vars, procVars
<1> HIDE DEF Goal
<1> QED  BY <1>1, <1>2, <1>3, <1>4, <1>5, <1>6 DEF Next, ProcNext, LoopNext

(* Nobody forgets that a job was created or withdrawn.                     *)
LEMMA HistoryGrows == [Next]_vars => withdrawn \subseteq withdrawn' /\ created \subseteq created'
BY DEF Next, vars, apiVars, ApiNext, CreateStore, CancelGet, CreateEnqueue, CreateCleanup,
   CancelRemove, CancelSend, CancelUpdate, ApiDown

\* The record of a new job is "validating", or there is none.
LEMMA CreatedIsValidating ==
  ASSUME Typed, [Next]_vars, NEW j \in Jobs, j \notin created, j \in created'
  PROVE  db'[j] \in {db[j], "validating"}
<1>1. PICK h \in Handlers : CreateStore(h, j)
  BY DEF Next, vars, apiVars, ApiNext, CreateStore, CancelGet, CreateEnqueue,
     CreateCleanup, CancelRemove, CancelSend, CancelUpdate, ApiDown
<1> QED  BY <1>1 DEF CreateStore, Stored, Typed, TypeOK, StoresTypeOK

\* CancelledIsWithdrawn is inductive, given the tokens.
LEMMA CancelledStep ==
  Typed /\ Tokens /\ CancelledIsWithdrawn /\ [Next]_vars => CancelledIsWithdrawn'
<1> SUFFICES ASSUME Typed, Tokens, CancelledIsWithdrawn, [Next]_vars
             PROVE  CancelledIsWithdrawn'
  OBVIOUS
<1>0. withdrawn \subseteq withdrawn'  BY HistoryGrows
<1>1. ASSUME NEW h \in Handlers, hpc'[h] = "markCancelled"  PROVE hjob'[h] \in withdrawn'
  BY <1>0, <1>1, MarkStep DEF CancelledIsWithdrawn
<1>2. ASSUME NEW j \in Jobs, db'[j] = "cancelled"  PROVE j \in withdrawn'
  <2>1. CASE db'[j] = db[j]
    BY <1>0, <1>2, <2>1 DEF CancelledIsWithdrawn
  <2>2. CASE db'[j] # db[j]
    <3>1. \/ \E h \in Handlers : /\ hpc[h] \in {"markCancelled", "markCancelling"}
                                 /\ hjob[h] = j /\ Mark(hpc[h]) = "cancelled"
          \/ \E w \in Workers : wcopy[w] = "cancelled"
          \/ j \notin created /\ j \in created'
      BY <1>2, <2>2, DbStep
    <3>2. ~(j \notin created /\ j \in created')
      BY <1>2, <2>2, CreatedIsValidating
    <3> QED  BY <1>0, <3>1, <3>2 DEF CancelledIsWithdrawn, Mark
  <2> QED  BY <2>1, <2>2
<1>3. ASSUME NEW w \in Workers  PROVE wcopy'[w] # "cancelled"
  <2>1. ASSUME NEW p \in Procs, ltask[p] \in Jobs  PROVE db[ltask[p]] # "cancelled"
    BY <2>1 DEF Tokens, LoopTokens, CancelledIsWithdrawn
  <2> QED  BY <2>1, CopyStep DEF CancelledIsWithdrawn
<1> QED  BY <1>1, <1>2, <1>3 DEF CancelledIsWithdrawn

(* A withdrawn job is created and not running, so only a mark or the end   *)
(* of the record can change its status.                                    *)
LEMMA WithdrawnOnlyMarked ==
  ASSUME Typed, Tokens, [Next]_vars, NEW j \in withdrawn
  PROVE  db'[j] \in {db[j], "absent", "cancelling", "cancelled"}
<1>1. j \in Jobs /\ j \in created /\ runs[j] = 0
  BY DEF Typed, TypeOK, ApiTypeOK, ProcTypeOK, Tokens, HistoryTokens
<1>2. \A w \in Workers : wjob[w] # j
  BY <1>1 DEF Tokens, WorkerTokens
<1> QED  BY <1>1, <1>2, DbStep DEF Mark

\* RecordIsCreated is inductive.
LEMMA RecordStep == Typed /\ RecordIsCreated /\ [Next]_vars => RecordIsCreated'
<1> SUFFICES ASSUME Typed, RecordIsCreated, [Next]_vars, NEW j \in Jobs, db'[j] # "absent"
             PROVE  j \in created'
  BY DEF RecordIsCreated
<1>1. created \subseteq created'  BY HistoryGrows
<1>2. CASE db'[j] = db[j]  BY <1>1, <1>2 DEF RecordIsCreated
<1>3. CASE db'[j] # db[j]  BY <1>1, <1>3, DbStep DEF RecordIsCreated
<1> QED  BY <1>2, <1>3

(* A cancelled job never comes back to life: the late Update of a worker   *)
(* (worker.go:355) cannot be about it.  A cancelling one is taken back by  *)
(* that Update only, from the one worker that has the job.                 *)
THEOREM CancelledStaysCancelled == Spec => CancelledNotRevived
<1>1. Init => CancelledIsWithdrawn /\ RecordIsCreated
  BY DEF Init, StoresInit, ApiInit, ProcInit, CancelledIsWithdrawn, RecordIsCreated
<1>2. Typed /\ OneToken => Tokens
  BY DEF OneToken, Tokens
<1>3. Typed /\ Tokens /\ CancelledIsWithdrawn /\ RecordIsCreated /\ [Next]_vars
        => [\A j \in Jobs :
              db[j] \in Cancels =>
                \/ db'[j] \in Cancels \cup {"absent"}
                \/ /\ db[j] = "cancelling"
                   /\ \E w \in Workers : /\ wjob[w] = j /\ db'[j] = wcopy[w]
                                         /\ wpc[w] = "update" /\ wpc'[w] = "final"]_vars
  <2> SUFFICES ASSUME Typed, Tokens, CancelledIsWithdrawn, RecordIsCreated, [Next]_vars,
                      NEW j \in Jobs, db[j] \in Cancels,
                      db'[j] \notin Cancels \cup {"absent"}
               PROVE  /\ db[j] = "cancelling"
                      /\ \E w \in Workers : /\ wjob[w] = j /\ db'[j] = wcopy[w]
                                            /\ wpc[w] = "update" /\ wpc'[w] = "final"
    OBVIOUS
  <2>1. db[j] = "cancelling"
    BY WithdrawnOnlyMarked DEF CancelledIsWithdrawn, Cancels
  <2>2. j \in created  BY <2>1 DEF RecordIsCreated
  <2> QED  BY <2>1, <2>2, DbStep DEF Cancels, Mark
<1> QED
  BY <1>1, <1>2, <1>3, CancelledStep, RecordStep, TypeCorrect, OneTokenInvariant, PTL
     DEF Spec, Typed, CancelledNotRevived

(* The handler that is about to mark a job as cancelled goes on to do so,  *)
(* or a failed call or the end of the server ends it.                      *)
LEMMA MarkerStep ==
  ASSUME Typed, [Next]_vars, NEW h \in Handlers, hpc[h] = "markCancelled"
  PROVE  \/ hjob'[h] = hjob[h] /\ hpc'[h] = "markCancelled"
         \/ db'[hjob[h]] \in Cancels \cup {"absent"}
         \/ hpc'[h] = "idle" /\ (faults' > faults \/ downs' > downs)
<1> DEFINE Kept == hjob'[h] = hjob[h] /\ hpc'[h] = "markCancelled"
           Marked == db'[hjob[h]] \in Cancels \cup {"absent"}
           CutOff == hpc'[h] = "idle" /\ (faults' > faults \/ downs' > downs)
           Goal == Kept \/ Marked \/ CutOff
<1> SUFFICES Goal  OBVIOUS
<1>0. /\ faults \in 0..MaxFaults /\ downs \in 0..MaxDowns /\ hjob[h] \in Jobs
      /\ hpc \in [Handlers -> HandlerPC] /\ hjob \in [Handlers -> Jobs \cup {NoJob}]
      /\ db \in [Jobs -> BatchStatus \cup {"absent"}]
  BY DEF Typed, TypeOK, StoresTypeOK, ApiTypeOK, JobVarsOK, HandlerJobs
<1>1. CASE CancelUpdate(h)
  <2>1. PICK o \in Outcomes :
          /\ Charge(o)
          /\ db' = IF Applied(o) THEN Updated(hjob[h], "cancelled") ELSE db
    BY <1>1 DEF CancelUpdate, Mark
  <2>2. CASE Applied(o)
    BY <1>0, <2>1, <2>2 DEF Updated, Found, Cancels
  <2>3. CASE ~Applied(o)
    <3>1. faults' > faults
      BY <1>0, <2>1, <2>3, StoresAssumption DEF Charge, Applied
    <3>2. hpc'[h] = "idle"
      BY <1>0, <1>1 DEF CancelUpdate, Answer
    <3> QED  BY <3>1, <3>2
  <2> QED  BY <2>2, <2>3
<1>2. ASSUME NEW g \in Handlers, g # h, CancelUpdate(g)  PROVE Kept
  BY <1>0, <1>2 DEF CancelUpdate, Answer
<1>3. ASSUME NEW g \in Handlers, NEW i \in Jobs, CreateStore(g, i) \/ CancelGet(g, i)  PROVE Kept
  BY <1>0, <1>3 DEF CreateStore, CancelGet, Begin
<1>4. ASSUME NEW g \in Handlers, CreateEnqueue(g) \/ CreateCleanup(g)  PROVE Kept
  BY <1>0, <1>4 DEF CreateEnqueue, CreateCleanup, Goto, Answer
<1>5. ASSUME NEW g \in Handlers, CancelRemove(g) \/ CancelSend(g)  PROVE Kept
  BY <1>0, <1>5 DEF CancelRemove, CancelSend, Goto, Answer
<1>6. CASE ApiDown
  <2>1. downs' > downs  BY <1>0, <1>6, StoresAssumption DEF ApiDown, ChargeDown
  <2>2. hpc'[h] = "idle"  BY <1>6 DEF ApiDown
  <2> QED  BY <2>1, <2>2
<1>7. CASE UNCHANGED apiVars  BY <1>7 DEF apiVars
<1>8. CASE UNCHANGED vars  BY <1>8 DEF vars, apiVars
<1> HIDE DEF Goal
<1>9. Kept => Goal  BY DEF Goal
<1> HIDE DEF Kept
<1> QED
  BY <1>1, <1>2, <1>3, <1>4, <1>5, <1>6, <1>7, <1>8, <1>9 DEF Next, ApiNext

(* A job is withdrawn by a Remove that leads to the mark, unless its reply *)
(* is lost.                                                                *)
LEMMA WithdrawStep ==
  ASSUME Typed, [Next]_vars, NEW j \in withdrawn', j \notin withdrawn
  PROVE  \E h \in Handlers :
           /\ hpc[h] = "remove" /\ hjob[h] = j
           /\ \/ hjob'[h] = j /\ hpc'[h] = "markCancelled"
              \/ hpc'[h] = "idle" /\ faults' > faults
<1>0. /\ faults \in 0..MaxFaults /\ hpc \in [Handlers -> HandlerPC]
      /\ hjob \in [Handlers -> Jobs \cup {NoJob}]
  BY DEF Typed, TypeOK, StoresTypeOK, ApiTypeOK
<1>1. PICK h \in Handlers : CancelRemove(h) /\ hjob[h] = j
  BY DEF Next, vars, apiVars, ApiNext, CreateStore, CancelGet, CreateEnqueue,
     CreateCleanup, CancelRemove, CancelSend, CancelUpdate, ApiDown
<1>2. PICK o \in Outcomes :
        /\ Charge(o)
        /\ withdrawn' = IF Applied(o) /\ j \in Queued(queue) THEN withdrawn \cup {j} ELSE withdrawn
        /\ \/ o # "ok" /\ Answer(h)
           \/ o = "ok" /\ j \in Queued(queue) /\ Goto(h, "markCancelled")
           \/ o = "ok" /\ j \notin Queued(queue) /\ Goto(h, "send")
  BY <1>1 DEF CancelRemove
<1>3. j \in Queued(queue)  BY <1>2
<1>4. CASE o = "ok"
  BY <1>0, <1>1, <1>2, <1>3, <1>4 DEF Goto, CancelRemove
<1>5. CASE o # "ok"
  <2>1. faults' > faults  BY <1>0, <1>2, <1>5, StoresAssumption DEF Charge
  <2>2. hpc'[h] = "idle"  BY <1>0, <1>2, <1>5 DEF Answer
  <2> QED  BY <1>1, <2>1, <2>2 DEF CancelRemove
<1> QED  BY <1>4, <1>5

(* CancelBatch leaves a job half cancelled (batch_handler.go:379-413) only *)
(* when a call of its own fails or the server ends in between.             *)
THEOREM WithdrawnJobsAreMarked == Spec => WithdrawnIsMarked
<1>1. ASSUME Typed, Tokens, [Next]_vars, NEW j \in HalfCancelled', j \notin HalfCancelled
      PROVE  /\ \E h \in Handlers : /\ hjob[h] = j /\ hpc'[h] = "idle"
                                    /\ hpc[h] \in {"remove", "markCancelled"}
             /\ faults' > faults \/ downs' > downs
  <2>0. /\ j \in withdrawn' /\ db'[j] \notin Cancels \cup {"absent"}
        /\ \A h \in Handlers : hjob'[h] = j => hpc'[h] # "markCancelled"
    BY <1>1 DEF HalfCancelled
  <2>1. CASE j \notin withdrawn
    BY <1>1, <2>0, <2>1, WithdrawStep
  <2>2. CASE j \in withdrawn
    <3>1. db[j] \notin Cancels \cup {"absent"}
      BY <1>1, <2>0, <2>2, WithdrawnOnlyMarked DEF Cancels
    <3>2. PICK h \in Handlers : hjob[h] = j /\ hpc[h] = "markCancelled"
      BY <1>1, <2>2, <3>1 DEF HalfCancelled
    <3> QED  BY <1>1, <2>0, <3>2, MarkerStep
  <2> QED  BY <2>1, <2>2
<1>2. Typed /\ Tokens /\ [Next]_vars
        => [\A j \in HalfCancelled' \ HalfCancelled :
              /\ \E h \in Handlers : /\ hjob[h] = j /\ hpc'[h] = "idle"
                                     /\ hpc[h] \in {"remove", "markCancelled"}
              /\ faults' > faults \/ downs' > downs]_vars
  BY <1>1
<1>3. Typed /\ OneToken => Tokens
  BY DEF OneToken, Tokens
<1> QED
  BY <1>2, <1>3, TypeCorrect, OneTokenInvariant, PTL DEF Spec, Typed, WithdrawnIsMarked

-----------------------------------------------------------------------------
\* Completed jobs

(* A status that does not end with its TTL is set by the worker that has   *)
(* the job.                                                                *)
LEMMA StatusStep ==
  ASSUME Typed, [Next]_vars, NEW j \in Jobs, status'[j] \notin {status[j], "absent"}
  PROVE  \E w \in Workers : /\ WorkerSet(w) /\ wjob[w] = j
                            /\ status'[j] = StatusAt(wpc[w])
<1> DEFINE Goal == \E w \in Workers : /\ WorkerSet(w) /\ wjob[w] = j
                                      /\ status'[j] = StatusAt(wpc[w])
<1> SUFFICES Goal  OBVIOUS
<1>0. status \in [Jobs -> BatchStatus \cup {"absent"}]
  BY DEF Typed, TypeOK, StoresTypeOK
<1>1. ASSUME NEW w \in Workers, WorkerSet(w)  PROVE Goal
  BY <1>0, <1>1 DEF WorkerSet, StatusSet
<1>2. ASSUME NEW h \in Handlers, NEW i \in Jobs, CreateStore(h, i) \/ CancelGet(h, i)  PROVE FALSE
  BY <1>2 DEF CreateStore, CancelGet, storeVars
<1>3. ASSUME NEW h \in Handlers, CreateEnqueue(h) \/ CreateCleanup(h) \/ CancelRemove(h)
                                  \/ CancelSend(h) \/ CancelUpdate(h)
      PROVE  FALSE
  BY <1>3 DEF CreateEnqueue, CreateCleanup, CancelRemove, CancelSend, CancelUpdate
<1>4. ~ApiDown  BY DEF ApiDown
<1>5. ASSUME NEW p \in Procs, LoopNext(p) \/ LoopStop(p)  PROVE FALSE
  BY <1>5 DEF LoopNext, LoopStop, LoopAcquire, LoopDequeue, LoopRelease,
     LoopGetData, LoopRequeue, storeVars
<1>6. ASSUME NEW p \in Procs, Signal(p) \/ Exit(p) \/ PanicExit(p) \/ Kill(p)  PROVE FALSE
  BY <1>6 DEF Signal, Exit, PanicExit, Kill, storeVars
<1>7. ASSUME NEW w \in Workers,
              WorkerUpdate(w) \/ WorkerLines(w) \/ WorkerRelease(w) \/ WorkerPanic(w)
       PROVE  FALSE
  BY <1>7 DEF WorkerUpdate, WorkerLines, WorkerRelease, WorkerPanic, storeVars
<1>8. ASSUME NEW i \in Jobs, Expire(i) \/ ExpireStatus(i)  PROVE FALSE
  BY <1>0, <1>8 DEF Expire, ExpireStatus
<1>9. ASSUME UNCHANGED vars  PROVE FALSE
  BY <1>9 DEF vars, storeVars
<1> HIDE DEF Goal
<1> QED
  BY <1>1, <1>2, <1>3, <1>4, <1>5, <1>6, <1>7, <1>8, <1>9
     DEF Next, ApiNext, ProcNext, WorkerNext

(* A job that has run and is in no worker is never given to one again.     *)
LEMMA RunOnlyOnce ==
  ASSUME Typed, Tokens, [Next]_vars, NEW j \in Jobs, runs[j] = 1
  PROVE  runs'[j] = 1 /\ (Running(j)' => Running(j))
<1> DEFINE Goal == runs'[j] = 1 /\ (Running(j)' => Running(j))
<1> SUFFICES Goal  OBVIOUS
<1>0. /\ wjob \in [Workers -> Jobs \cup {NoJob}] /\ runs \in [Jobs -> Nat] /\ NoJob \notin Jobs
      /\ \A p \in Procs : ltask[p] # j
  BY StoresAssumption DEF Typed, TypeOK, ProcTypeOK, Tokens, LoopTokens
<1>1. ASSUME runs' = runs, \A w \in Workers : wjob'[w] \in {wjob[w], NoJob}  PROVE Goal
  BY <1>0, <1>1 DEF Running
<1>2. ASSUME NEW p \in Procs, LoopGetData(p)  PROVE Goal
  BY <1>0, <1>2 DEF LoopGetData, Held, Running, workVars
<1>3. ASSUME NEW p \in Procs, LoopStop(p) \/ LoopAcquire(p) \/ LoopDequeue(p) \/ LoopRelease(p)
                               \/ LoopRequeue(p) \/ Signal(p)
      PROVE  Goal
  BY <1>1, <1>3 DEF LoopStop, LoopAcquire, LoopDequeue, LoopRelease, LoopRequeue,
     Signal, workVars
<1>4. ASSUME NEW p \in Procs, Exit(p) \/ PanicExit(p) \/ Kill(p)  PROVE Goal
  BY <1>1, <1>4 DEF Exit, PanicExit, Kill, Restart
<1>5. ASSUME NEW w \in Workers, WorkerNext(w) \/ WorkerPanic(w)  PROVE Goal
  BY <1>0, <1>1, <1>5 DEF WorkerNext, WorkerSet, WorkerLines, WorkerUpdate, WorkerRelease,
     WorkerPanic, WorkerGoto
<1>6. CASE UNCHANGED procVars  BY <1>1, <1>6 DEF procVars
<1>7. CASE UNCHANGED vars  BY <1>1, <1>7 DEF vars, procVars
<1> HIDE DEF Goal
<1> QED  BY <1>2, <1>3, <1>4, <1>5, <1>6, <1>7 DEF Next, ProcNext, LoopNext

\* CompletedHasRun is inductive, given the tokens.
LEMMA CompletedStep ==
  Typed /\ Tokens /\ CompletedHasRun /\ [Next]_vars => CompletedHasRun'
<1> SUFFICES ASSUME Typed, Tokens, CompletedHasRun, [Next]_vars,
                    NEW j \in Jobs, status'[j] = "completed"
             PROVE  runs'[j] = 1 /\ ~Running(j)'
  BY DEF CompletedHasRun
<1>1. CASE status'[j] = status[j]
  BY <1>1, RunOnlyOnce DEF CompletedHasRun
<1>2. CASE status'[j] # status[j]
  <2>1. PICK w \in Workers : WorkerSet(w) /\ wjob[w] = j /\ StatusAt(wpc[w]) = "completed"
    BY <1>2, StatusStep
  <2>2. wpc[w] = "final"
    BY <2>1 DEF WorkerSet, StatusAt
  <2>3. wjob' = [wjob EXCEPT ![w] = NoJob] /\ runs' = runs
    BY <2>1, <2>2 DEF WorkerSet, WorkerGoto, AfterSet
  <2>4. runs[j] = 1 /\ \A v \in Workers : wjob[v] = j => v = w
    BY <2>1 DEF Tokens, WorkerTokens
  <2>5. wjob \in [Workers -> Jobs \cup {NoJob}] /\ NoJob # j
    BY StoresAssumption DEF Typed, TypeOK, ProcTypeOK
  <2> QED  BY <2>3, <2>4, <2>5 DEF Running
<1> QED  BY <1>1, <1>2

(* A client that has seen "completed" keeps seeing it until the status     *)
(* ends with its TTL.                                                      *)
THEOREM CompletedIsFinal == Spec => CompletedStays
<1>1. Init => CompletedHasRun
  BY DEF Init, StoresInit, CompletedHasRun
<1>2. OneToken => Tokens
  BY DEF OneToken, Tokens
<1>3. Typed /\ CompletedHasRun /\ [Next]_vars
        => [\A j \in Jobs :
              status[j] = "completed" => status'[j] \in {"completed", "absent"}]_vars
  <2> SUFFICES ASSUME Typed, CompletedHasRun, [Next]_vars,
                      NEW j \in Jobs, status[j] = "completed",
                      status'[j] \notin {status[j], "absent"}
               PROVE  FALSE
    OBVIOUS
  <2> QED  BY StatusStep DEF CompletedHasRun, Running
<1> QED
  BY <1>1, <1>2, <1>3, CompletedStep, TypeCorrect, OneTokenInvariant, PTL
     DEF Spec, Typed, CompletedStays

-----------------------------------------------------------------------------
\* The pool's WaitGroup

NeverCounted == \A p \in Procs : wg[p] = 0

(* The code's loop receives IDs from the channel without wg.Add(1)         *)
(* (worker.go:128): the WaitGroup stays at zero for ever, so Stop's        *)
(* WaitAll never waits, and every Release of a loop or a worker panics     *)
(* (worker_pool.go:53-56).                                                 *)
THEOREM EveryReleasePanics ==
  Spec => /\ []NeverCounted
          /\ [][\A p \in Procs, w \in Workers :
                  LoopRelease(p) \/ LoopRequeue(p) \/ WorkerRelease(w) => crashed']_vars
<1>1. Init => NeverCounted
  BY DEF Init, ProcInit, NeverCounted
<1>2. ASSUME Typed, NeverCounted, [Next]_vars  PROVE NeverCounted'
  <2>0. wg \in [Procs -> Nat] /\ \A w \in Workers : Home[w] \in Procs
    BY <1>2, ProcessorAssumption DEF Typed, TypeOK, ProcTypeOK
  <2>1. CASE wg' = wg  BY <1>2, <2>1 DEF NeverCounted
  <2>2. ASSUME NEW p \in Procs, WgDone(p)  PROVE wg' = wg
    <3>1. ~(wg[p] > 0)  BY <1>2 DEF NeverCounted
    <3> QED  BY <2>2, <3>1 DEF WgDone
  <2>3. ASSUME NEW p \in Procs, LoopAcquire(p)  PROVE NeverCounted'
    BY <1>2, <2>3 DEF LoopAcquire, lifeVars, NeverCounted
  <2>4. ASSUME NEW p \in Procs, LoopRelease(p) \/ LoopRequeue(p)  PROVE wg' = wg
    BY <2>2, <2>4 DEF LoopRelease, LoopRequeue
  <2>5. ASSUME NEW p \in Procs, LoopStop(p) \/ LoopDequeue(p) \/ LoopGetData(p)
                                 \/ Signal(p)
        PROVE  wg' = wg
    BY <2>5 DEF LoopStop, LoopDequeue, LoopGetData, Signal, lifeVars
  <2>6. ASSUME NEW p \in Procs, Exit(p) \/ PanicExit(p) \/ Kill(p)  PROVE NeverCounted'
    <3>1. wg' = [wg EXCEPT ![p] = 0]  BY <2>6 DEF Exit, PanicExit, Kill, Restart
    <3> QED  BY <1>2, <2>0, <3>1 DEF NeverCounted
  <2>7. ASSUME NEW w \in Workers, WorkerNext(w) \/ WorkerPanic(w)  PROVE wg' = wg
    <3>1. CASE WorkerRelease(w)  BY <2>0, <2>2, <3>1 DEF WorkerRelease
    <3>2. CASE ~WorkerRelease(w)
      BY <2>7, <3>2 DEF WorkerNext, WorkerSet, WorkerLines, WorkerUpdate, WorkerPanic, lifeVars
    <3> QED  BY <3>1, <3>2
  <2>8. CASE UNCHANGED procVars  BY <2>1, <2>8 DEF procVars
  <2>9. CASE UNCHANGED vars  BY <2>1, <2>9 DEF vars, procVars
  <2> QED
    BY <1>2, <2>1, <2>3, <2>4, <2>5, <2>6, <2>7, <2>8, <2>9 DEF Next, ProcNext, LoopNext
<1>3. ASSUME NeverCounted, NEW p \in Procs, NEW w \in Workers,
             LoopRelease(p) \/ LoopRequeue(p) \/ WorkerRelease(w)
      PROVE  crashed'
  <2>1. ASSUME NEW q \in Procs, WgDone(q)  PROVE crashed'
    <3>1. ~(wg[q] > 0)  BY <1>3 DEF NeverCounted
    <3> QED  BY <2>1, <3>1 DEF WgDone
  <2> QED  BY <1>3, <2>1, ProcessorAssumption DEF LoopRelease, LoopRequeue, WorkerRelease
<1>4. NeverCounted /\ [Next]_vars
        => [\A p \in Procs, w \in Workers :
              LoopRelease(p) \/ LoopRequeue(p) \/ WorkerRelease(w) => crashed']_vars
  BY <1>3
<1>5. Typed /\ NeverCounted /\ [Next]_vars => NeverCounted'
  BY <1>2
<1> QED  BY <1>1, <1>4, <1>5, TypeCorrect, PTL DEF Spec, Typed
=============================================================================
