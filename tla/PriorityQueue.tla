--------------------------- MODULE PriorityQueue ---------------------------
(***************************************************************************)
(* The priority queue of batch jobs: BatchPriorityQueueClient of           *)
(* internal/database/api/database.go, by the one implementation the        *)
(* repository has (internal/database/mock/mock_queue_client.go).           *)
(*                                                                         *)
(* An entry is a job's ID; its SLO, fixed when the job is created, is the  *)
(* constant SLO[j] (smaller = earlier = more urgent).  The operators give  *)
(* the queue each call leaves behind; every call holds the queue's mutex,  *)
(* so each is one step of whoever makes it.                                *)
(***************************************************************************)
EXTENDS Integers, Sequences, SequencesExt

CONSTANTS Jobs,      \* the batch jobs that may ever be created
          SLO        \* SLO[j]: the time by which job j is wanted

ASSUME SLOAssumption == SLO \in [Jobs -> Nat]

(* The entries that are strictly later than j's.  time.Time.Before is      *)
(* strict: j goes behind the entries whose SLO is the same.                *)
Later(q, j) == {i \in 1..Len(q) : SLO[j] < SLO[q[i]]}

\* Mutant of InsertIdx: the queue is a plain FIFO.
InsertIdx_append(q, j) == Len(q) + 1

(* Enqueue scans from the head for the first later entry; j goes in front  *)
(* of it, or at the tail when there is none.                               *)
InsertIdx(q, j) == IF Later(q, j) = {} THEN Len(q) + 1 ELSE Min(Later(q, j))

\* Enqueue(jobPriority).
Enqueued(q, j) == InsertAt(q, InsertIdx(q, j), j)

\* Mutants of Dequeued: the head is read and stays; one entry too many leaves.
Dequeued_peek(q) == q
Dequeued_two(q) == IF Len(q) > 1 THEN Tail(Tail(q)) ELSE Tail(q)

\* Dequeue(timeout = 0, maxObjs = 1): the head leaves; empty means no task.
Dequeued(q) == Tail(q)

\* Mutant of Removed: the comparison of the IDs is inverted.
Removed_other(q, j) == RemoveFirstMatch(q, LAMBDA i : i # j)

\* Remove(jobPriority): the first entry with the job's ID leaves, if any.
Removed(q, j) == RemoveFirst(q, j)

\* The jobs that have an entry.
Queued(q) == ToSet(q)

-----------------------------------------------------------------------------

(* The order the queue keeps: no entry stands behind a later one, so the   *)
(* head that Dequeue hands out is a most urgent job.                       *)
SortedBySLO(q) == \A i, k \in 1..Len(q) : i < k => SLO[q[i]] <= SLO[q[k]]

\* No job has two entries.
NoDuplicate(q) == \A i, k \in 1..Len(q) : i # k => q[i] # q[k]
=============================================================================
