----------------------------- MODULE Processor -----------------------------
(***************************************************************************)
(* The batch processors (internal/processor/worker/worker.go and           *)
(* worker_pool.go, cmd/batch-processor/main.go): the polling loop, which   *)
(* takes a worker ID from the pool, a task from the queue and the job's    *)
(* record from the database, and the goroutine it starts for the job.      *)
(*                                                                         *)
(* A process that ends, for whatever reason, is restarted by its           *)
(* Deployment: the actions that end one leave it in its initial state.     *)
(*                                                                         *)
(* The loop receives worker IDs from workerIds itself, without the         *)
(* wg.Add(1) of WorkerPool.TryAcquire, which nobody calls; Release still   *)
(* calls wg.Done().                                                        *)
(***************************************************************************)
EXTENDS BatchStores

CONSTANTS Procs,       \* processor processes
          Workers,     \* worker IDs, of all processes
          Home         \* Home[w]: the process of w

\* NewWorkerPool makes an int number of IDs per process.
ASSUME ProcessorAssumption ==
  /\ IsFiniteSet(Workers)
  /\ Home \in [Workers -> Procs]

VARIABLES
  lpc,       \* lpc[p]: where p's polling loop is
  ltask,     \* ltask[p]: the task the loop has dequeued
  wg,        \* wg[p]: the counter of the pool's WaitGroup
  ctxDone,   \* ctxDone[p]: p has received its shutdown signal
  panicked,  \* panicked[p]: a panic nobody recovers is ending p
  wpc,       \* wpc[w]: "idle" in the channel, "taken" by the loop, or
             \*         where the goroutine that has the ID is
  wjob,      \* wjob[w]: the job that goroutine processes
  wcopy,     \* wcopy[w]: the status in the record it was given
  \* History, read by no action:
  runs,      \* runs[j]: how often a goroutine was started for j
  crashed    \* has a process ended by a panic?

procVars == <<lpc, ltask, wg, ctxDone, panicked, wpc, wjob, wcopy, runs, crashed>>

loopVars == <<lpc, ltask>>
workVars == <<wpc, wjob, wcopy>>
lifeVars == <<wg, ctxDone, panicked, crashed>>

LoopPC == {"acquire", "dequeue", "getdata", "requeue", "release", "exit", "dead"}

\* The calls of processJob, in their order; "lines" is the line phase.
JobPC == {"inprogress", "validating", "lines", "finalizing", "update", "final"}

WorkerPC == JobPC \cup {"idle", "taken", "done"}

ProcTypeOK ==
  /\ lpc \in [Procs -> LoopPC]
  /\ ltask \in [Procs -> Jobs \cup {NoJob}]
  /\ wg \in [Procs -> Nat]
  /\ ctxDone \in [Procs -> BOOLEAN]
  /\ panicked \in [Procs -> BOOLEAN]
  /\ wpc \in [Workers -> WorkerPC]
  /\ wjob \in [Workers -> Jobs \cup {NoJob}]
  /\ wcopy \in [Workers -> BatchStatus \cup {"absent"}]
  /\ runs \in [Jobs -> Nat]
  /\ crashed \in BOOLEAN

ProcInit ==
  /\ lpc = [p \in Procs |-> "acquire"]
  /\ ltask = [p \in Procs |-> NoJob]
  /\ wg = [p \in Procs |-> 0]
  /\ ctxDone = [p \in Procs |-> FALSE]
  /\ panicked = [p \in Procs |-> FALSE]
  /\ wpc = [w \in Workers |-> "idle"]
  /\ wjob = [w \in Workers |-> NoJob]
  /\ wcopy = [w \in Workers |-> "absent"]
  /\ runs = [j \in Jobs |-> 0]
  /\ crashed = FALSE

\* The worker ID the loop of p holds.
Held(p) == {w \in Workers : Home[w] = p /\ wpc[w] = "taken"}

LoopGoto(p, pc) == lpc' = [lpc EXCEPT ![p] = pc]

(* A call of process p.  Its context is the signal context: once that is   *)
(* done any call may fail, at no cost to the fault budget.                 *)
ProcCharge(p, o) ==
  \/ Charge(o)
  \/ ctxDone[p] /\ o # "ok" /\ faults' = faults

\* Mutant of WgDone: a counter that goes below zero.
WgDone_unchecked(p) ==
  wg' = [wg EXCEPT ![p] = @ - 1] /\ UNCHANGED <<panicked, crashed>>

(* wg.Done() of Release: below zero it panics.  The ID is back in the      *)
(* channel by then.                                                        *)
WgDone(p) ==
  IF wg[p] > 0
    THEN wg' = [wg EXCEPT ![p] = @ - 1] /\ UNCHANGED <<panicked, crashed>>
    ELSE panicked' = [panicked EXCEPT ![p] = TRUE] /\ crashed' = TRUE /\ wg' = wg

-----------------------------------------------------------------------------
\* RunPollingLoop.  select picks either ready case: both actions below may
\* be enabled.

LoopStop(p) ==
  /\ lpc[p] = "acquire"
  /\ ctxDone[p]
  /\ LoopGoto(p, "exit")
  /\ UNCHANGED <<storeVars, ltask, lifeVars, workVars, runs>>

LoopAcquire(p) ==
  /\ lpc[p] = "acquire"
  /\ \E w \in Workers :
       /\ Home[w] = p /\ wpc[w] = "idle"
       /\ wpc' = [wpc EXCEPT ![w] = "taken"]
  /\ LoopGoto(p, "dequeue")
  /\ UNCHANGED <<storeVars, ltask, lifeVars, wjob, wcopy, runs>>

(* getTaskFromQueue.  An error counts as an empty queue, also when the     *)
(* entry has left the queue.                                               *)
LoopDequeue(p) ==
  /\ lpc[p] = "dequeue"
  /\ \E o \in Outcomes :
       /\ ProcCharge(p, o)
       /\ queue' = IF Applied(o) /\ queue # <<>> THEN Dequeued(queue) ELSE queue
       /\ IF o = "ok" /\ queue # <<>>
            THEN LoopGoto(p, "getdata") /\ ltask' = [ltask EXCEPT ![p] = Head(queue)]
            ELSE LoopGoto(p, "release") /\ ltask' = ltask
  /\ UNCHANGED <<db, status, downs, lifeVars, workVars, runs>>

(* The queue gave no task: Release.  The wait for the poll interval after  *)
(* it is only time: its select has the same context case as the next one.  *)
LoopRelease(p) ==
  /\ lpc[p] = "release"
  /\ \E w \in Held(p) : wpc' = [wpc EXCEPT ![w] = "idle"]
  /\ WgDone(p)
  /\ LoopGoto(p, IF wg[p] > 0 THEN "acquire" ELSE "dead")
  /\ UNCHANGED <<storeVars, ltask, ctxDone, wjob, wcopy, runs>>

\* Mutant of LoopGetData: a job that is being cancelled is put back as well.
LoopGetData_skipCancelling(p) ==
  /\ lpc[p] = "getdata"
  /\ LET j == ltask[p] IN
     IF db[j] \in {"absent", "cancelling"}
       THEN /\ LoopGoto(p, "requeue")
            /\ UNCHANGED <<ltask, workVars, runs>>
       ELSE /\ \E w \in Held(p) :
                 /\ wpc' = [wpc EXCEPT ![w] = "inprogress"]
                 /\ wjob' = [wjob EXCEPT ![w] = j]
                 /\ wcopy' = [wcopy EXCEPT ![w] = db[j]]
            /\ runs' = [runs EXCEPT ![j] = @ + 1]
            /\ ltask' = [ltask EXCEPT ![p] = NoJob]
            /\ LoopGoto(p, "acquire")
  /\ UNCHANGED <<storeVars, lifeVars>>

(* getJobData, the Get: the record starts the job's goroutine; an error or *)
(* no record sends the task back to the queue.                             *)
LoopGetData(p) ==
  /\ lpc[p] = "getdata"
  /\ LET j == ltask[p] IN
     \/ /\ Found(j)
        /\ \E w \in Held(p) :
             /\ wpc' = [wpc EXCEPT ![w] = "inprogress"]
             /\ wjob' = [wjob EXCEPT ![w] = j]
             /\ wcopy' = [wcopy EXCEPT ![w] = db[j]]
        /\ runs' = [runs EXCEPT ![j] = @ + 1]
        /\ ltask' = [ltask EXCEPT ![p] = NoJob]
        /\ LoopGoto(p, "acquire")
        /\ faults' = faults
     \/ /\ IF Found(j) THEN ProcCharge(p, "error") ELSE faults' = faults
        /\ LoopGoto(p, "requeue")
        /\ UNCHANGED <<ltask, workVars, runs>>
  /\ UNCHANGED <<db, queue, status, downs, lifeVars>>

(* getJobData, the Enqueue that puts the task back (a failure is only      *)
(* logged), and the Release after it.  The loop goes on without waiting.   *)
LoopRequeue(p) ==
  /\ lpc[p] = "requeue"
  /\ \E o \in Outcomes :
       /\ ProcCharge(p, o)
       /\ queue' = IF Applied(o) THEN Enqueued(queue, ltask[p]) ELSE queue
  /\ ltask' = [ltask EXCEPT ![p] = NoJob]
  /\ \E w \in Held(p) : wpc' = [wpc EXCEPT ![w] = "idle"]
  /\ WgDone(p)
  /\ LoopGoto(p, IF wg[p] > 0 THEN "acquire" ELSE "dead")
  /\ UNCHANGED <<db, status, downs, ctxDone, wjob, wcopy, runs>>

-----------------------------------------------------------------------------
\* The goroutine of a job: processJob and the deferred Release.

\* What the status.Set at each place writes, and what comes after it.
StatusAt(pc) ==
  CASE pc = "inprogress" -> "in_progress"
    [] pc = "validating" -> "validating"
    [] pc = "finalizing" -> "finalizing"
    [] pc = "final"      -> "completed"

AfterSet(pc) ==
  CASE pc = "inprogress" -> "validating"
    [] pc = "validating" -> "lines"
    [] pc = "finalizing" -> "update"
    [] pc = "final"      -> "done"

WorkerGoto(w, pc) ==
  /\ wpc' = [wpc EXCEPT ![w] = pc]
  /\ wjob' = IF pc = "done" THEN [wjob EXCEPT ![w] = NoJob] ELSE wjob
  /\ wcopy' = IF pc = "done" THEN [wcopy EXCEPT ![w] = "absent"] ELSE wcopy

\* status.Set; its error is dropped.
WorkerSet(w) ==
  /\ wpc[w] \in {"inprogress", "validating", "finalizing", "final"}
  /\ \E o \in Outcomes :
       /\ ProcCharge(Home[w], o)
       /\ status' = IF Applied(o) THEN StatusSet(wjob[w], StatusAt(wpc[w])) ELSE status
  /\ WorkerGoto(w, AfterSet(wpc[w]))
  /\ UNCHANGED <<db, queue, downs, loopVars, lifeVars, runs>>

(* The line phase, in one step; module JobRun has its goroutines.  It ends *)
(* with wg.Wait() and the final status, or returns early when the context  *)
(* is done.                                                                *)
WorkerLines(w) ==
  /\ wpc[w] = "lines"
  /\ \/ WorkerGoto(w, "finalizing")
     \/ ctxDone[Home[w]] /\ WorkerGoto(w, "done")
  /\ UNCHANGED <<storeVars, loopVars, lifeVars, runs>>

(* database.Update with the job as getJobData read it: its Status has not  *)
(* been touched since.  An error is only logged.                           *)
WorkerUpdate(w) ==
  /\ wpc[w] = "update"
  /\ \E o \in Outcomes :
       /\ ProcCharge(Home[w], o)
       /\ db' = IF Applied(o) THEN Updated(wjob[w], wcopy[w]) ELSE db
  /\ WorkerGoto(w, "final")
  /\ UNCHANGED <<queue, status, downs, loopVars, lifeVars, runs>>

\* Mutant of WorkerPanic: the job of a recovered panic is put back.
WorkerPanic_requeue(w) ==
  /\ wpc[w] \in JobPC
  /\ Charge("error")
  /\ queue' = Enqueued(queue, wjob[w])
  /\ WorkerGoto(w, "done")
  /\ UNCHANGED <<db, status, downs, loopVars, lifeVars, runs>>

\* A panic in processJob (a fault of a client) is recovered and logged.
WorkerPanic(w) ==
  /\ wpc[w] \in JobPC
  /\ Charge("error")
  /\ WorkerGoto(w, "done")
  /\ UNCHANGED <<db, queue, status, downs, loopVars, lifeVars, runs>>

\* The deferred Release.
WorkerRelease(w) ==
  /\ wpc[w] = "done"
  /\ WorkerGoto(w, "idle")
  /\ WgDone(Home[w])
  /\ UNCHANGED <<storeVars, loopVars, ctxDone, runs>>

-----------------------------------------------------------------------------
\* The life of a process.

\* The first SIGINT or SIGTERM cancels the context.
Signal(p) ==
  /\ ~ctxDone[p]
  /\ ChargeDown
  /\ ctxDone' = [ctxDone EXCEPT ![p] = TRUE]
  /\ UNCHANGED <<db, queue, status, faults, loopVars, wg, panicked, crashed,
                 workVars, runs>>

\* The process is gone with all its goroutines; its successor starts.
Restart(p) ==
  /\ lpc' = [lpc EXCEPT ![p] = "acquire"]
  /\ ltask' = [ltask EXCEPT ![p] = NoJob]
  /\ wg' = [wg EXCEPT ![p] = 0]
  /\ ctxDone' = [ctxDone EXCEPT ![p] = FALSE]
  /\ panicked' = [panicked EXCEPT ![p] = FALSE]
  /\ wpc' = [w \in Workers |-> IF Home[w] = p THEN "idle" ELSE wpc[w]]
  /\ wjob' = [w \in Workers |-> IF Home[w] = p THEN NoJob ELSE wjob[w]]
  /\ wcopy' = [w \in Workers |-> IF Home[w] = p THEN "absent" ELSE wcopy[w]]
  /\ UNCHANGED <<runs, crashed>>

\* Mutant of MayExit: WaitAll waits for one count per worker ID.
MayExit_perWorker(p) ==
  lpc[p] = "exit" /\ wg[p] = Cardinality({w \in Workers : Home[w] = p})

\* Stop's WaitAll has returned: the counter is zero.
MayExit(p) == lpc[p] = "exit" /\ wg[p] = 0

\* main returns after RunPollingLoop and Stop.
Exit(p) == MayExit(p) /\ Restart(p) /\ UNCHANGED storeVars

\* The runtime ends a process with an unrecovered panic.
PanicExit(p) == panicked[p] /\ Restart(p) /\ UNCHANGED storeVars

\* A crash, or the second signal's os.Exit(1).
Kill(p) ==
  /\ ChargeDown
  /\ Restart(p)
  /\ UNCHANGED <<db, queue, status, faults>>

LoopNext(p) ==
  \/ LoopAcquire(p) \/ LoopDequeue(p) \/ LoopRelease(p)
  \/ LoopGetData(p) \/ LoopRequeue(p)

WorkerNext(w) ==
  WorkerSet(w) \/ WorkerLines(w) \/ WorkerUpdate(w) \/ WorkerRelease(w)

ProcNext ==
  \/ \E p \in Procs : \/ LoopNext(p) \/ LoopStop(p)
                      \/ Signal(p) \/ Exit(p) \/ PanicExit(p) \/ Kill(p)
  \/ \E w \in Workers : WorkerNext(w) \/ WorkerPanic(w)
=============================================================================
