----------------------------- MODULE ApiServer -----------------------------
(***************************************************************************)
(* The state-changing handlers of the batch API                            *)
(* (internal/apiserver/batch/batch_handler.go): CreateBatch and            *)
(* CancelBatch.  net/http runs every request in a goroutine of its own, so *)
(* a handler interleaves with every other one between two of its store     *)
(* calls; each action is one store call and the code up to the next one.   *)
(* A request that is refused before its first write (400, 404, a failed    *)
(* Get) changes nothing and is no step; ListBatches and RetrieveBatch only *)
(* read.                                                                   *)
(***************************************************************************)
EXTENDS BatchStores

CONSTANT Handlers      \* requests in flight at a time

VARIABLES
  hpc,        \* hpc[h]: the store call the request in h makes next
  hjob,       \* hjob[h]: the job it is about
  created,    \* jobs whose ID has been drawn (CreateBatch, uuid)
  \* History, read by no action:
  acked,      \* jobs whose CreateBatch answered 200
  withdrawn,  \* jobs a CancelBatch took out of the queue
  entered     \* jobs that have had a queue entry

apiVars == <<hpc, hjob, created, acked, withdrawn, entered>>

HandlerPC == {"idle", "enqueue", "cleanup", "remove", "send",
              "markCancelled", "markCancelling"}

ApiTypeOK ==
  /\ hpc \in [Handlers -> HandlerPC]
  /\ hjob \in [Handlers -> Jobs \cup {NoJob}]
  /\ created \in SUBSET Jobs
  /\ acked \in SUBSET Jobs
  /\ withdrawn \in SUBSET Jobs
  /\ entered \in SUBSET Jobs

ApiInit ==
  /\ hpc = [h \in Handlers |-> "idle"]
  /\ hjob = [h \in Handlers |-> NoJob]
  /\ created = {}
  /\ acked = {}
  /\ withdrawn = {}
  /\ entered = {}

\* The request goes on to the call pc, or is answered.
Goto(h, pc) == hpc' = [hpc EXCEPT ![h] = pc] /\ UNCHANGED hjob

Answer(h) ==
  /\ hpc' = [hpc EXCEPT ![h] = "idle"]
  /\ hjob' = [hjob EXCEPT ![h] = NoJob]

Begin(h, pc, j) ==
  /\ hpc' = [hpc EXCEPT ![h] = pc]
  /\ hjob' = [hjob EXCEPT ![h] = j]

-----------------------------------------------------------------------------
\* CreateBatch

\* The validated request draws an ID and stores the record.
CreateStore(h, j) ==
  /\ hpc[h] = "idle"
  /\ j \notin created
  /\ created' = created \cup {j}
  /\ \E o \in Outcomes :
       /\ Charge(o)
       /\ db' = IF Applied(o) THEN Stored(j) ELSE db
       /\ IF o = "ok" THEN Begin(h, "enqueue", j) ELSE UNCHANGED <<hpc, hjob>>
  /\ UNCHANGED <<queue, status, downs, acked, withdrawn, entered>>

\* Mutant of CreateEnqueue: a failed Enqueue is tried again.
CreateEnqueue_retry(h) ==
  /\ hpc[h] = "enqueue"
  /\ LET j == hjob[h] IN
     \E o \in Outcomes :
       /\ Charge(o)
       /\ IF Applied(o)
            THEN queue' = Enqueued(queue, j) /\ entered' = entered \cup {j}
            ELSE UNCHANGED <<queue, entered>>
       /\ IF o = "ok"
            THEN Answer(h) /\ acked' = acked \cup {j}
            ELSE UNCHANGED <<hpc, hjob, acked>>
  /\ UNCHANGED <<db, status, downs, created, withdrawn>>

\* Enqueue; 200 on success, cleanup of the record on failure.
CreateEnqueue(h) ==
  /\ hpc[h] = "enqueue"
  /\ LET j == hjob[h] IN
     \E o \in Outcomes :
       /\ Charge(o)
       /\ IF Applied(o)
            THEN queue' = Enqueued(queue, j) /\ entered' = entered \cup {j}
            ELSE UNCHANGED <<queue, entered>>
       /\ IF o = "ok"
            THEN Answer(h) /\ acked' = acked \cup {j}
            ELSE Goto(h, "cleanup") /\ acked' = acked
  /\ UNCHANGED <<db, status, downs, created, withdrawn>>

(* Delete the record again; whether it worked is only logged, then 500.    *)
(* The call is made with the request's context, like the Enqueue that      *)
(* failed: a client that has gone away fails both, so the failure of this  *)
(* one costs no further fault.                                             *)
CreateCleanup(h) ==
  /\ hpc[h] = "cleanup"
  /\ \E o \in Outcomes : db' = IF Applied(o) THEN Deleted(hjob[h]) ELSE db
  /\ Answer(h)
  /\ UNCHANGED <<queue, status, faults, downs,
                 created, acked, withdrawn, entered>>

-----------------------------------------------------------------------------
\* CancelBatch

\* Get the record: 404 when there is none, 400 when its status is final.
CancelGet(h, j) ==
  /\ hpc[h] = "idle"
  /\ Found(j)
  /\ ~IsFinal(db[j])
  /\ Begin(h, "remove", j)
  /\ UNCHANGED <<storeVars, created, acked, withdrawn, entered>>

\* Mutant of CancelRemove: a removed job is answered without the Update.
CancelRemove_unmarked(h) ==
  /\ hpc[h] = "remove"
  /\ LET j == hjob[h] IN
     \E o \in Outcomes :
       /\ Charge(o)
       /\ queue' = IF Applied(o) THEN Removed(queue, j) ELSE queue
       /\ withdrawn' = IF Applied(o) /\ j \in Queued(queue)
                         THEN withdrawn \cup {j} ELSE withdrawn
       /\ IF o = "ok" /\ j \notin Queued(queue) THEN Goto(h, "send") ELSE Answer(h)
  /\ UNCHANGED <<db, status, downs, created, acked, entered>>

(* Remove from the queue.  An error is a 500; an entry that was there      *)
(* makes the job cancelled; none leads to the cancel event.                *)
CancelRemove(h) ==
  /\ hpc[h] = "remove"
  /\ LET j == hjob[h] IN
     \E o \in Outcomes :
       /\ Charge(o)
       /\ queue' = IF Applied(o) THEN Removed(queue, j) ELSE queue
       /\ withdrawn' = IF Applied(o) /\ j \in Queued(queue)
                         THEN withdrawn \cup {j} ELSE withdrawn
       /\ \/ o # "ok" /\ Answer(h)
          \/ o = "ok" /\ j \in Queued(queue) /\ Goto(h, "markCancelled")
          \/ o = "ok" /\ j \notin Queued(queue) /\ Goto(h, "send")
  /\ UNCHANGED <<db, status, downs, created, acked, entered>>

(* Send the cancel event.  No processor opens a job's event channel        *)
(* (ConsumerGetChannel has no caller), so the client finds no consumer and *)
(* drops the event; only an error changes what the handler does.           *)
CancelSend(h) ==
  /\ hpc[h] = "send"
  /\ \E o \in Outcomes :
       /\ Charge(o)
       /\ IF o = "ok" THEN Goto(h, "markCancelling") ELSE Answer(h)
  /\ UNCHANGED <<db, queue, status, downs, created, acked, withdrawn, entered>>

\* What CancelBatch writes into the record.
Mark(pc) == IF pc = "markCancelled" THEN "cancelled" ELSE "cancelling"

\* Update the record: whatever its status has become meanwhile.
CancelUpdate(h) ==
  /\ hpc[h] \in {"markCancelled", "markCancelling"}
  /\ \E o \in Outcomes :
       /\ Charge(o)
       /\ db' = IF Applied(o) THEN Updated(hjob[h], Mark(hpc[h])) ELSE db
  /\ Answer(h)
  /\ UNCHANGED <<queue, status, downs, created, acked, withdrawn, entered>>

-----------------------------------------------------------------------------

(* The API server goes down and comes up again: the requests in flight are *)
(* gone wherever they were.  A SIGTERM ends the same way as a crash:       *)
(* Serve returns as soon as Shutdown begins, and Start and main with it,   *)
(* before Shutdown has waited for anyone.                                  *)
ApiDown ==
  /\ ChargeDown
  /\ hpc' = [h \in Handlers |-> "idle"]
  /\ hjob' = [h \in Handlers |-> NoJob]
  /\ UNCHANGED <<db, queue, status, faults, created, acked, withdrawn, entered>>

ApiNext ==
  \/ \E h \in Handlers, j \in Jobs : CreateStore(h, j) \/ CancelGet(h, j)
  \/ \E h \in Handlers :
       \/ CreateEnqueue(h) \/ CreateCleanup(h)
       \/ CancelRemove(h) \/ CancelSend(h) \/ CancelUpdate(h)
  \/ ApiDown
=============================================================================
