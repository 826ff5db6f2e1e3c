---------------------------- MODULE BatchStores ----------------------------
(***************************************************************************)
(* The stores that the API server and the processors share, as the client  *)
(* interfaces of internal/database/api/database.go describe them:          *)
(*   db      the job metadata store (BatchDBClient): the status of every   *)
(*           job's record, "absent" for a job that has none;               *)
(*   queue   the priority queue (BatchPriorityQueueClient);                *)
(*   status  the temporary status store (BatchStatusClient).               *)
(*                                                                         *)
(* Every call may fail.  An error says nothing of whether the call took    *)
(* effect, so an outcome is one of "ok", "error" (failed, not applied) and *)
(* "lost" (applied, but the caller is told it failed).  faults counts the  *)
(* failures; MaxFaults bounds them.  downs counts the processes that were  *)
(* stopped from outside; MaxDowns bounds them.                             *)
(***************************************************************************)
EXTENDS PriorityQueue, FiniteSets

CONSTANTS NoJob,       \* "no job", where a variable may hold one
          MaxFaults,   \* store calls that may fail
          MaxDowns,    \* processes that may be signalled or killed
          TTLExpires   \* may a record or a status reach the end of its TTL?

ASSUME StoresAssumption ==
  /\ NoJob \notin Jobs
  /\ MaxFaults \in Nat
  /\ MaxDowns \in Nat
  /\ TTLExpires \in BOOLEAN

VARIABLES db, queue, status, faults, downs

storeVars == <<db, queue, status, faults, downs>>

\* The statuses of openai/batch.go, and IsFinal.
BatchStatus == {"validating", "failed", "in_progress", "finalizing",
                "completed", "expired", "cancelling", "cancelled"}

IsFinal(s) == s \in {"completed", "failed", "expired", "cancelled"}

Outcomes == {"ok", "error", "lost"}

\* Did a call with this outcome take effect?
Applied(o) == o \in {"ok", "lost"}

\* A failed call uses up the fault budget.
Charge(o) ==
  \/ o = "ok" /\ faults' = faults
  \/ o # "ok" /\ faults < MaxFaults /\ faults' = faults + 1

\* Someone stops a process.
ChargeDown == downs < MaxDowns /\ downs' = downs + 1

StoresTypeOK ==
  /\ db \in [Jobs -> BatchStatus \cup {"absent"}]
  /\ queue \in Seq(Jobs)
  /\ status \in [Jobs -> BatchStatus \cup {"absent"}]
  /\ faults \in 0..MaxFaults
  /\ downs \in 0..MaxDowns

StoresInit ==
  /\ db = [j \in Jobs |-> "absent"]
  /\ queue = <<>>
  /\ status = [j \in Jobs |-> "absent"]
  /\ faults = 0
  /\ downs = 0

-----------------------------------------------------------------------------
\* Get by ID finds the record.
Found(j) == db[j] # "absent"

\* What an applied call leaves in db; each is used under Applied(o).

\* Store: a new record (the ID is a fresh UUID, there is none yet).
Stored(j) == [db EXCEPT ![j] = "validating"]

\* Update of the record's dynamic part: an error when there is no record.
Updated(j, s) == IF Found(j) THEN [db EXCEPT ![j] = s] ELSE db

\* Delete: no error when there is no record.
Deleted(j) == [db EXCEPT ![j] = "absent"]

\* Set of the temporary status: stored or overwritten, with a new TTL.
StatusSet(j, s) == [status EXCEPT ![j] = s]

(* External to the repository: the database drops a record whose TTL has   *)
(* passed.  The queue entry of the job carries no TTL and stays.           *)
Expire(j) ==
  /\ TTLExpires
  /\ Found(j)
  /\ db' = Deleted(j)
  /\ UNCHANGED <<queue, status, faults, downs>>

(* External as well: a temporary status ends with the 24 hours that every  *)
(* Set gives it (worker.go:257).                                           *)
ExpireStatus(j) ==
  /\ TTLExpires
  /\ status[j] # "absent"
  /\ status' = [status EXCEPT ![j] = "absent"]
  /\ UNCHANGED <<db, queue, faults, downs>>
=============================================================================
