------------------------------ MODULE Gateway ------------------------------
(***************************************************************************)
(* The batch gateway: the API server and the processors over the shared    *)
(* stores.  The components interact only through the stores.               *)
(***************************************************************************)
EXTENDS ApiServer, Processor

vars == <<storeVars, apiVars, procVars>>

Init == StoresInit /\ ApiInit /\ ProcInit

\* A loop's Enqueue of a task it dequeued makes no new entry: entered stays.
Next ==
  \/ ApiNext /\ UNCHANGED procVars
  \/ ProcNext /\ UNCHANGED apiVars
  \/ \E j \in Jobs :
       (Expire(j) \/ ExpireStatus(j)) /\ UNCHANGED <<apiVars, procVars>>

Spec == Init /\ [][Next]_vars

(* Fairness.  A goroutine that can go on does: handlers, loops, workers,   *)
(* and the runtime that ends a panicking or exiting process.  A select     *)
(* with several ready cases picks one at random, so a loop that comes to   *)
(* its select again and again with the context done takes that case: this  *)
(* is the strong fairness of LoopStop.  Nothing is assumed of clients      *)
(* (new requests), faults, signals and kills.                              *)
Fairness ==
  /\ \A h \in Handlers :
       WF_vars((\/ CreateEnqueue(h) \/ CreateCleanup(h) \/ CancelRemove(h)
                \/ CancelSend(h) \/ CancelUpdate(h)) /\ UNCHANGED procVars)
  /\ \A p \in Procs :
       /\ WF_vars(LoopNext(p) /\ UNCHANGED apiVars)
       /\ SF_vars(LoopStop(p) /\ UNCHANGED apiVars)
       /\ WF_vars((Exit(p) \/ PanicExit(p)) /\ UNCHANGED apiVars)
  /\ \A w \in Workers : WF_vars(WorkerNext(w) /\ UNCHANGED apiVars)

FairSpec == Spec /\ Fairness

-----------------------------------------------------------------------------
\* Where the one token of a job is.

HeldByLoop(j) == \E p \in Procs : ltask[p] = j

Running(j) == \E w \in Workers : wjob[w] = j

Stage ==
  [j \in Jobs |->
     IF j \in Queued(queue) THEN "queued"
     ELSE IF HeldByLoop(j) THEN "held"
     ELSE IF Running(j) THEN "running"
     ELSE IF j \in entered THEN "over"
     ELSE "new"]

Delivery == INSTANCE JobDelivery WITH stage <- Stage

-----------------------------------------------------------------------------
(*                              Safety                                     *)

\* The statuses a cancel writes.
Cancels == {"cancelling", "cancelled"}

\* Every variable keeps its type.
TypeOK == StoresTypeOK /\ ApiTypeOK /\ ProcTypeOK

\* A job variable holds a job where its program counter says so.
HandlerJobs == \A h \in Handlers : hpc[h] # "idle" => hjob[h] \in Jobs

LoopJobs ==
  \A p \in Procs : ltask[p] \in Jobs <=> lpc[p] \in {"getdata", "requeue"}

WorkerJobs == \A w \in Workers : wjob[w] \in Jobs <=> wpc[w] \in JobPC

JobVarsOK == HandlerJobs /\ LoopJobs /\ WorkerJobs

\* A queue entry is the only trace of a job that nobody has started.
QueueTokens ==
  /\ NoDuplicate(queue)
  /\ \A j \in Queued(queue) : /\ j \in entered \ withdrawn
                              /\ runs[j] = 0
                              /\ ~HeldByLoop(j)

\* So is a task in the hands of a loop.
LoopTokens ==
  \A p \in Procs : ltask[p] \in Jobs =>
    /\ ltask[p] \in entered \ withdrawn
    /\ runs[ltask[p]] = 0
    /\ \A q \in Procs : ltask[q] = ltask[p] => q = p

\* A running job runs once, in one worker.
WorkerTokens ==
  \A w \in Workers : wjob[w] \in Jobs =>
    /\ runs[wjob[w]] = 1
    /\ \A v \in Workers : wjob[v] = wjob[w] => v = w

\* A job that is about to be enqueued has never been, and by one handler.
HandlerTokens ==
  \A h \in Handlers : hpc[h] = "enqueue" =>
    /\ hjob[h] \in created \ entered
    /\ \A g \in Handlers : hpc[g] = "enqueue" /\ hjob[g] = hjob[h] => g = h

\* What has happened to a job never happens again.
HistoryTokens ==
  /\ withdrawn \subseteq entered
  /\ entered \subseteq created
  /\ \A j \in Jobs : runs[j] <= 1 /\ (runs[j] > 0 => j \in entered \ withdrawn)

(* Every job is one token, in at most one place: a queue entry, the hands  *)
(* of one loop, or one worker.  The calls in between, their lost replies,  *)
(* the requeue (worker.go:216) and the restarts never double it: this is   *)
(* the invariant behind AtMostOnce and WithdrawnNeverRuns.                 *)
OneToken ==
  /\ JobVarsOK /\ QueueTokens /\ LoopTokens /\ WorkerTokens
  /\ HandlerTokens /\ HistoryTokens

(* No job is processed twice, whatever is lost, retried, requeued, killed  *)
(* or restarted: RunPollingLoop starts at most one goroutine per job       *)
(* (worker.go:163), over all processors and all their lives.               *)
AtMostOnce == \A j \in Jobs : runs[j] <= 1

(* A job that CancelBatch took out of the queue (batch_handler.go:372,     *)
(* removed > 0) is never started, before or after: a client told           *)
(* "cancelled" is told the truth.                                          *)
WithdrawnNeverRuns == \A j \in withdrawn : runs[j] = 0

(* A task is handed out by Dequeue only when no more urgent one is queued  *)
(* (worker.go:183 with the order mock_queue_client.go:44-50 keeps), also   *)
(* after loops have put tasks back and cancels have taken some out.        *)
TakenIsMostUrgent ==
  [][\A p \in Procs :
       ltask[p] = NoJob /\ ltask'[p] # NoJob
         => \A j \in Queued(queue) : SLO[ltask'[p]] <= SLO[j]]_vars

(* The processor's last Update (worker.go:355) writes the record as it was *)
(* read before the job started.  It never comes over a "cancelled"; over a *)
(* "cancelling" it comes from the one worker that has the job, once, with  *)
(* what that worker was given.  Nothing else takes a cancel back.          *)
CancelledNotRevived ==
  [][\A j \in Jobs :
       db[j] \in Cancels =>
         \/ db'[j] \in Cancels \cup {"absent"}
         \/ /\ db[j] = "cancelling"
            /\ \E w \in Workers : /\ wjob[w] = j /\ db'[j] = wcopy[w]
                                  /\ wpc[w] = "update" /\ wpc'[w] = "final"]_vars

(* The status a client sees in the status store leaves "completed"         *)
(* (worker.go:358) only at the end of its TTL: no later run of the job     *)
(* writes over it.                                                         *)
CompletedStays ==
  [][\A j \in Jobs :
       status[j] = "completed" => status'[j] \in {"completed", "absent"}]_vars

\* Where an entry of the queue may have gone.
Placed(j) ==
  j \in Queued(queue) \/ HeldByLoop(j) \/ runs[j] > 0 \/ j \in withdrawn

\* Jobs that had an entry and will not be started: nobody has them.
Lost == {j \in entered : ~Placed(j)}

\* p is on its way out, or goes down in this step.
Ending(p) == ctxDone[p] \/ panicked[p] \/ downs' > downs

(* A job that has been enqueued, above all one whose CreateBatch answered  *)
(* 200, is lost only in a step in which a store call fails                 *)
(* (worker.go:184, 216), or with a process that is ending while its loop   *)
(* takes the job or has it in its hands: no interleaving of handlers,      *)
(* loops, workers, panics and restarts loses one in any other way, and the *)
(* end of a process loses no job but that one before it was started.       *)
NoSilentLoss ==
  [][\A j \in Lost' \ Lost :
       \/ faults' > faults
       \/ \E p \in Procs :
            /\ Ending(p)
            /\ ltask[p] = j \/ (lpc[p] = "dequeue" /\ Head(queue) = j)]_vars

\* Jobs taken out of the queue by a cancel, with a record that does not say
\* so and no handler that is about to write it.
HalfCancelled ==
  {j \in withdrawn :
     /\ db[j] \notin Cancels \cup {"absent"}
     /\ \A h \in Handlers : hjob[h] = j => hpc[h] # "markCancelled"}

(* CancelBatch leaves a job half cancelled (batch_handler.go:379-413) only *)
(* in the step that ends it, by a call that fails or with the server.      *)
(* No other handler, no late Update of a worker and no restart of a        *)
(* processor does, before or after.                                        *)
WithdrawnIsMarked ==
  [][\A j \in HalfCancelled' \ HalfCancelled :
       /\ \E h \in Handlers : /\ hjob[h] = j /\ hpc'[h] = "idle"
                              /\ hpc[h] \in {"remove", "markCancelled"}
       /\ faults' > faults \/ downs' > downs]_vars

(* "Stop gracefully stops the processor, waiting for all workers to        *)
(* finish" (worker.go:374): when WaitAll lets main return, no goroutine of *)
(* the process has a worker ID.  The code fails it: nobody counts the      *)
(* WaitGroup up (worker.go:128).                                           *)
StopWaits ==
  \A p \in Procs :
    MayExit(p) => \A w \in Workers : Home[w] = p => wpc[w] = "idle"

(* A batch whose status is final "cannot be cancelled"                     *)
(* (batch_handler.go:361-363): a final status in the database is kept      *)
(* until the record goes.  CancelBatch checks it long before it writes.    *)
FinalStays ==
  [][\A j \in Jobs : IsFinal(db[j]) => db'[j] \in {db[j], "absent"}]_vars

(* Refinement: the gateway does to each job only what JobDelivery allows.  *)
DeliverySpec == Delivery!Spec

-----------------------------------------------------------------------------
(*                              Liveness                                   *)

(* A queued job leaves the queue: a loop takes it or a cancel removes it   *)
(* (worker.go:123-196; with the priority order, no entry starves).         *)
QueuedIsTaken == \A j \in Jobs : j \in Queued(queue) ~> j \notin Queued(queue)

(* Every job whose CreateBatch answered 200 is completed in the status     *)
(* store (worker.go:358) or withdrawn by a cancel, unless a store call     *)
(* failed or someone stopped a process.                                    *)
AckedCompletes ==
  \A j \in Jobs :
    j \in acked ~> \/ status[j] = "completed" \/ j \in withdrawn
                   \/ faults > 0 \/ downs > 0

(* Every signalled process comes to its end (main.go:176-184): the loop    *)
(* sees the context, and Stop's WaitAll returns.                           *)
SignalledExits == \A p \in Procs : ctxDone[p] ~> ~ctxDone[p]
=============================================================================
