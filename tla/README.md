# Verification of the offline batch gateway

TLA+ models of the batch gateway (Go), the TLC runs that check them on small
instances, and TLAPS proofs of the main safety results for every instance.
Line numbers refer to the sources under `src/`.

## 1. Inventory

| Component | State | Operations | Hard behaviour | What makes it correct |
|---|---|---|---|---|
| Priority queue (`database.go`, `mock_queue_client.go`) | list of (job, SLO) | Enqueue, Dequeue, Remove | lost replies, entries put back | sorted by SLO, no job twice |
| Metadata and status stores (`database.go`, `mock_db_client.go`, `mock_status_client.go`) | a record per job, a temporary status per job | Store, Get, Update, Delete; Set | calls fail or lose their reply, records expire | a final status stays; a cancelled job is not revived |
| Batch API (`batch_handler.go`) | requests in flight | CreateBatch, ListBatches, RetrieveBatch, CancelBatch | several store calls per request, concurrent requests, a stop in between; records shared by pointer | a withdrawn job is marked and never runs; reads show what was acknowledged |
| Request validation (`openai/batch.go`, `batch_handler.go:149-173`) | none | Validate, SLO and TTL | rounding, negative windows | a record whose expiry is honoured outlives its batch |
| Middleware and routing (`middleware/`, `rest.go`, `files/`, `health/`, `metrics/`) | the in-flight gauge, the captured status | security headers, request, recovery around every handler | panics, the order of the layers | the metrics count what was sent |
| API server process (`cmd/apiserver/main.go`, `server.go`, `common/config.go`, `interrupt.go`) | configuration, the shutdown goroutine | load, listen, serve, shut down | signals against requests in flight | a signal ends it, after the requests |
| Polling loop and worker pool (`worker.go`, `worker_pool.go`, `main.go`, `interrupt.go`) | the loop's place and task, worker IDs, a WaitGroup, the signal context | acquire, dequeue, get the record or requeue, start a goroutine, release, stop | several processes, panics, signals, kills, restarts | a job runs at most once, is not lost, does not starve; Stop waits |
| Line processing (`worker.go:263-349`) | channel, semaphore, WaitGroup, mutex, counters | producer, one goroutine per line | goroutines, a shutdown at any moment | bounded, exact counts, everything ends |
| Inference client (`client.go`, `errors.go`) | attempts, last reply, context | Generate with retries | context ends between reply, check and wait | retries and error categories agree |
| Event channels (`mock_event_client.go`) | channels per job, their buffers | ConsumerGetChannel, ProducerSendEvents, CloseFn, Close | senders share a read lock; slow consumers | no send to a closed channel, FIFO, no blocking |

The API server and the processors are separate processes. They interact only
through the stores: CreateBatch stores a record and then enqueues the job; a
polling loop dequeues it, reads the record and starts a goroutine, which writes
the temporary status and, at the end, the record; CancelBatch takes the job out
of the queue or, when it is not there, sends an event to whoever processes it,
and marks the record. No processor opens an event channel yet
(`ConsumerGetChannel` has no caller), so that event is dropped today.

The API server of today holds its stores in memory (`server.go:124-128`, a
TODO) and the processor gets nil clients. The project has both views: `Gateway`
is the system the interfaces describe, with stores in another process whose
calls may fail, and `HttpServer` is the API server process as it is built, whose
store calls cannot fail but whose handlers share the records they read and
write.

Not modelled:

- the processor's configuration, metrics and metrics server: read once, or
  written and never read back by any code; the numbers are constants here.
  `ProcessorConfig.Validate` has no caller;
- Redis and TLS utilities (`util/redis`, `util/tls`): connection set-up that no
  part of the gateway calls yet;
- the Redis and PostgreSQL back ends and the file stores: empty packages and an
  interface without an implementation;
- request IDs, log lines, headers, error texts and error types
  (`ErrorCodeToType`): data that no decision depends on;
- the request and response bodies of the inference client.

## 2. Modules

| Module | Models |
|---|---|
| `PriorityQueue` | the queue as operators on a sequence of jobs |
| `BatchStores` | `db`, `queue`, `status`; the outcome of a call; expiry (external) |
| `ApiServer` | CreateBatch, CancelBatch, one action per store call; a stop of the server |
| `Processor` | RunPollingLoop, the worker pool, a job's goroutine, the life of a process |
| `Gateway` | the composition, its fairness and its properties |
| `JobDelivery` | abstract: what may happen to one job |
| `JobRun` / `LinePhase` | the line phase of processJob / what it promises to the rest |
| `InferenceClient` | one call of Generate |
| `CreateRequest` | validation of a create request, its SLO and TTL (operators) |
| `ServerConfig` | the API server's configuration: Load, Validate, TLS (operators) |
| `Middleware` | routes, layers, what the metrics see of an answer (operators) |
| `RequestServing` | a request from the first layer to the last, all batch handlers, the in-memory stores |
| `HttpServer` | the API server process around it, its fairness and its properties |
| `EventChannels` | the event channel client |
| `MCGateway`, `MCEventChannels`, `MCHttpServer` | small instances |
| `PriorityQueueProofs` | lemmas on the queue |
| `GatewayProofs`, `OutcomeProofs`, `DeliveryProofs` | theorems of `Gateway`: one token, outcomes, refinement |
| `JobRunProofs`, `InferenceClientProofs`, `EventChannelsProofs` | theorems of those modules |
| `HttpServerProofs` | theorems of `HttpServer` and, in front, of `CreateRequest` |

Correspondence, in short (PROJECT.json has the lines of every definition):

- `hpc[h]` is the store call that request h makes next; an action is that call
  and the code up to the following one. Requests refused before their first
  write are not steps.
- `lpc[p]` is the place of p's loop, `ltask[p]` its dequeued task; `wpc[w]` is
  "idle" for an ID in the channel, "taken" for the one the loop holds, else the
  place of the goroutine that has it. `wcopy[w]` is the status in the record
  that goroutine was given.
- A store call is ok, fails, or takes effect and reports a failure ("lost").
  `faults` counts the failures; calls on a context that is done fail for free.
- A record or status is its status only; contents, tags and times are dropped.
  An SLO is a natural number fixed per job. Where `TTLExpires` is TRUE a record
  and a temporary status may expire at any time (`Expire`, `ExpireStatus`).
- Processes restart: what ends one (Exit, PanicExit, Kill, ApiDown) leaves its
  initial state.
- `acked`, `withdrawn`, `entered`, `runs`, `crashed`, `dropped` are history
  variables.
- In `HttpServer`, `conn[c]` holds the locals of the goroutine that serves c's
  request: `pc` is its next access to something shared, `sent` the status on
  the wire, `seen` the one the request middleware's writer has. `Arrive` is the
  way in through the layers, with decoding and validation, up to the first
  store call; `Leave` is the way out. `phase` is the place of main, `shut` that
  of the goroutine that calls Shutdown. The end of the process takes its memory
  with it; `cut` remembers who was being served.
- `acked`, `raced`, `cut` and the `known` of a request are history there.

Three decisions to know of:

- **The WaitGroup.** The loop takes IDs straight from the channel
  (`worker.go:128`) and never counts the WaitGroup up; `TryAcquire`, which
  does, has no caller. Release counts it down, so every Release, of a loop or
  of a goroutine, panics outside any recover and ends the process, in all runs
  and all theorems. What follows in the code after a Release is therefore never
  reached: the wait for the poll interval has no action of its own, and
  `LoopRelease` stands for `worker.go:138-148`.
- **Record copies.** `Get` returns a copy, as a database in another process
  does. The in-memory mock hands out shared pointers; that is what
  `RequestServing` models. Today's `main.go` passes nil
  database clients (a TODO) and so ends in `prepare`; the model is of the
  processor with its clients.

- **The race on a status.** `job.Status = ...` (`batch_handler.go:412`) writes a
  slice header, several words, into a record that other requests read without
  a lock. The model writes two words, pointer and length, in two steps and in
  either order, and names each by the status it belongs to. The texts of
  different statuses have different lengths (the timestamps they carry differ),
  so a read of mixed words is a truncated text or one with bytes after its end,
  and `json.Unmarshal` fails: "unreadable". A status of the same kind written
  again has the same length. The words of the reader are read at once: what a
  reader between two writes would see, it also sees between the two words of
  one write.

## 3. Runs

Passing:

| Run | Instance | Shows |
|---|---|---|
| `gateway_code` | 2 jobs, 1 handler, 2 processors with 1 worker, 1 fault | `OneToken`, `AtMostOnce`, `WithdrawnNeverRuns`, `TakenIsMostUrgent`, `CompletedStays`, `NoSilentLoss` under failing calls, the refinement `DeliverySpec` |
| `gateway_cancel` | 1 job, 2 handlers, 2 processors, 1 fault, 1 stop or kill, expiry | `WithdrawnIsMarked`, `CancelledNotRevived` |
| `live_code` | 2 jobs, 1 processor with 1 worker, 1 signal, kill or stop of the server, no fault | `NoSilentLoss` and `DeliverySpec` when processes end, `QueuedIsTaken`, `SignalledExits` |
| `job_run` | 3 lines (the number in the code), semaphore of 2 | `ConcurrencyBound`, `CountsExact`, `PhaseSpec`, `JobEnds`, `LinesEnd` |
| `inference` | 3 retries (the default), 11 status codes | `RetryableMeansExhausted`, `DefiniteNotResent`, `GenerateReturns` |
| `api_server` | 2 batches, 2 connections (one with every kind of request, one with creates and cancels), 6 bodies, 4 pages, 5 configurations | `MetricsAreExact`, `ErrorNeedsRace`, `ReadsSeeAcked`, `ListIsComplete`, `QueuedIsLive`, `OneWithdraws`, `RecordOutlivesBatch`, `RequestEnds`, `SignalEnds` |
| `events` | 2 jobs, 2 consumers, 2 concurrent calls of 1 or 2 events, buffer of 1 | `RegisteredAreOpen`, `FifoPerCall`, `SentReachesAll`, `PanicOnlyAfterClose`, `SendReturns` |

Violations, each a disagreement of the code with a comment or a document:

| Run | Property | What happens |
|---|---|---|
| `crash` | `AckedCompletes` | the first Release panics on the WaitGroup, outside any recover; the process ends with the jobs its other workers have |
| `stop` | `StopWaits` | the WaitGroup is zero, so Stop lets main return while a goroutine is processing a job |
| `poison` | `QueuedIsTaken` | an entry without a record goes back to the head, the Release after it ends the process, the next process takes it again; the job behind it starves |
| `cancel_race` | `FinalStays` | a second cancel writes "cancelling" over "cancelled" |
| `shutdown` | `ShutdownWaits` | Serve returns when Shutdown begins; main ends and cuts off a request in flight |

`crash` and `stop` have the same cause, the missing `wg.Add`. `poison` needs one
lost reply, and its cycle runs over restarts, since no loop survives a Release;
`live_code` checks the same property without faults.

Bounds. Two jobs give every order of two priorities, and an entry behind
another; two processors, or two workers in one, give every race for a task; two
handlers on one job give the races of two cancels, and of a cancel with a
create. One fault reaches each single lost or failed call, including the failed
cleanup, which shares its cause and is free. Calls of a signalled process fail
without limit. Counters that would grow without bound (`MaxFaults`, `MaxDowns`)
are bounded in the guards: one fault in `gateway_code`, `gateway_cancel` and
`poison`, one signal, kill or stop in `gateway_cancel`, `live_code` and `stop`,
none of either in `crash` and `cancel_race`; panics and the restarts after them
are not bounded. SLOs, jobs and capacities are constants. Two lines
over the semaphore's bound would add no new case: three lines over two tokens
already make one wait, and interleave two increments. A buffer of one makes the
full buffer happen. In `api_server` two batches give a page that is not the
last one; the second connection needs only the requests that change a record
the first may look at, since two reads do not affect one another and batches
are interchangeable; the supply of IDs bounds the create requests. The bodies
are two that pass (with and without an expiry) and neighbours that do not, the
configurations one that serves and others that fail in Load or in Start; all
windows and expiries are the subject of the theorems, and the truncation of a
window to whole seconds is evaluated for both signs (`WholeSecondsTruncates`). `JobRun`,
`InferenceClient` and `EventChannels` model calls that end, and `HttpServer` a
process that ends, so deadlock is not checked there; the liveness properties
say that they end as they should. In the gateway runs deadlock is checked.

Fairness. Weak fairness for what a goroutine does next once it can (handlers,
loops, workers, lines, the runtime that ends a process). The context case of
the loop's select has strong fairness: Go picks at random among ready cases, so
a loop that comes back to its select again and again with the context done
takes that case at some time. In `HttpServer`, main, the shutdown goroutine and
the goroutines of the requests go on when they can; the 60 seconds are not
assumed to pass. Requests, faults, signals, kills, receives of
consumers and the end of contexts are never assumed.

## 4. Proofs

Every invariant and every safety property that a passing run checks is also a
theorem, for every value of the constants that the named assumptions allow.
TLC evaluates these assumptions in the runs:

- `SLOAssumption`, `StoresAssumption`, `ProcessorAssumption` (`Gateway`): SLOs
  are natural numbers, workers are finite in number and belong to a process;
  any number of jobs, handlers, processes, faults, kills and expiries;
- `JobRunAssumption`: any number of lines, a semaphore of at least one token;
- `InferenceAssumption`: any retry limit, any three-digit status codes;
- `EventAssumption`: any jobs, consumers, producers and calls, a buffer of at
  least one;
- `ServingAssumption` (`HttpServer`): finitely many IDs and connections (lists
  and the gauge count them), any bodies, pages and configurations of the
  decoded types, and a value for "no request" that is no request.

### The gateway

- `PriorityQueueProofs`: what Enqueue, Dequeue and Remove do to the set of
  entries, to the order and to uniqueness. `InsertIdxPlace` is the core: all
  entries in front of the insertion point are no later than the new one, and,
  in a sorted queue, all behind it are later.
- `GatewayProofs`: `TypeCorrect`; `OneTokenInvariant`, from which
  `JobsRunAtMostOnce` and `CancelledJobsNeverRun` follow; `QueueSorted` and,
  from it, `MostUrgentFirst`.
- `DeliveryProofs`: `GatewayDelivers`, the refinement of `JobDelivery` under
  the mapping `Stage`, one lemma per kind of step.
- `OutcomeProofs`: what becomes of a job, from the tokens and one small
  invariant each.

`AtMostOnce` is not inductive: that a job has run at most once says nothing of
a second entry in the queue, or of a second loop that holds it. The inductive
invariant is `OneToken` (with the types): a queued job has one entry, nobody
holds it and it has not run (`QueueTokens`); a held one is with one loop and
has not run (`LoopTokens`); a running one has run once and is with one worker
(`WorkerTokens`); a job about to be enqueued has never been in the queue
(`HandlerTokens`); and the history fits (`HistoryTokens`). Steps that only drop
tokens (ends, panics, kills, lost replies) share one lemma, so that each of the
four steps that move a token has a proof of its own.

On top of it, in `OutcomeProofs`:

- `AcceptedJobsNotLost`: every step keeps a job that was enqueued in the queue,
  with a loop, started or withdrawn, but for the steps that `NoSilentLoss`
  names. The tokens say which loop or worker had the job; a step that ends a
  process loses only what that process's loop holds, since a worker's job has
  been started.
- `CancelledStaysCancelled`: the late Update of a worker (`worker.go:355`)
  writes the record as it was read. `CancelledIsWithdrawn` says that
  "cancelled" is only written of withdrawn jobs and is in no worker's copy; the
  tokens say that no worker has a withdrawn job. Over "cancelling" the worker
  that has the job may write, once, what it was given; nothing else does.
- `WithdrawnJobsAreMarked`: an action property; the tokens keep every other
  writer of the record away between Remove and Update, so only the step that
  ends the handler can leave a withdrawn job without its mark.
- `CompletedIsFinal`: `CompletedHasRun` says that a completed job has run once
  and nobody is running it; a second run would need a second token. Only the
  TTL of the status takes "completed" away.
- `EveryReleasePanics`: the WaitGroup is always zero (`NeverCounted`), so each
  Release of a loop or a worker ends in the panic that `crash` meets once.

### The line phase

`JobRunProofs`: `InFlightBounded`, `CountersAreExact` and `LinePhaseRefined`.
The invariant ties the channel-like counters to sets of goroutines:
`TokensCounted` (`sem` is the number of goroutines past the semaphore, `wg` of
those announced and not done), `MutexHeld` (between Lock and Unlock the mutex
is that goroutine's, and what it read is still in the counter), `LinesInOrder`
(which lines have been started, for each place of the job's goroutine) and
`ResultsKnown` (a goroutine without a result after Generate means a shutdown).
The refinement follows: at the decision `wg = 0`, so every line is counted, or
the context is done.

### The inference client

`InferenceClientProofs`: `RetryableIsExhausted` needs what is known before the
result: `OnTheWay` (a retry is left, and every attempt but the first follows a
reply worth retrying), `GivenUp` (Post ends early only when the context has
ended). `DefiniteIsFinal` is an action property and follows from `OnTheWay`:
the retry condition accepts only what `Category` calls retryable.

### The event channels

`EventChannelsProofs`: `SendsMeetOpenChannels`, `EventsInOrder`,
`SentIsOffered` and `DoubleCloseNeedsClose`. FIFO is not inductive: the next
event of a call must be later than all that have arrived, and it must not be
offered to a channel twice. `Behind` says that what has arrived is not ahead of
its call's place in the map; `Offered` that every channel the place has passed
got the event or was full; `MapKnown` that no channel is registered twice and
that a `CloseFn` that can still be called has an open channel unless the client
was closed. While a call sends, its read lock keeps the map as it is.

### The API server

`HttpServerProofs`. The inductive invariant `IInv` has a part for each thing a
request's goroutine relies on from one access of shared memory to the next:

| Part | Says |
|---|---|
| `LocalsKnown` | by its place: the operation, the answer so far, a valid body or page, the status a cancel has decided on |
| `Found` | records that were found, acknowledged or queued are there; an ID about to be stored is not |
| `Creators` | no two create requests have the same ID |
| `Overlap` | every overlap with a cancel on a batch is in `raced` |
| `Torn` | outside `raced` the two words of a status differ only under the cancel that writes them, and its own word is the one it decided on |
| `Wanted` | a batch in the queue, or on its way there, has nowhere been called cancelled |
| `OneTold` | of two cancels one is told "cancelled" |
| `CancelKept` | a cancel that was answered has written both words, for good |
| `ReadsKnow`, `Lists`, `RecordKept` | what a read or a list has collected so far, and what Store wrote |

Each action has a lemma on its effect; steps are grouped by what they do to
shared memory (reads, creates, enqueues, looks, withdraws, marks, leaves), and
each part of `IInv` has one lemma with a case per group. `ErrorsHaveACause`
needs `Torn`, which is inductive only because of `Overlap`; `QueueEntriesAreLive`
and `OneCancelWithdraws` rest on `Wanted` and `OneTold`; `HasMoreIsHonest` on
`Lists`, by counting; `RecordsOutliveBatches` on `ExpiryCoversWindow`.

`ExpiryCoversWindow` (the TTL reaches past the SLO) and `AcceptedIsValid` (what
is stored would pass `BatchJob.IsValid`) are about the operators of
`CreateRequest`, each under the conditions it needs. The first, and with it
`RecordsOutliveBatches`, is about bodies whose expiry CreateBatch honours
(given, without an anchor or with "created_at"), with any window; the other
bodies get the configured TTL, and of them nothing is claimed: it may end
before the SLO (section 5). The second needs a window that is not negative and
a positive configured TTL. The one fact about arithmetic is that whole seconds
lose less than a second.

### Only model-checked

All liveness, which rests on fairness: `QueuedIsTaken`, `SignalledExits`, `JobEnds`, `LinesEnd`, `GenerateReturns`, `SendReturns`,
`RequestEnds`, `SignalEnds`. The properties of the violation runs (`AckedCompletes`, `StopWaits`,
`FinalStays`, `ShutdownWaits`, and `QueuedIsTaken` when a reply is lost) are
false of the code and are checked nowhere else.

## 5. Observations

- A shutdown between Dequeue and the requeue loses the task: the requeue
  (`worker.go:216`) runs on the context that is already cancelled.
  `JobDelivery` allows it as an end of a held job.
- A job that dies with its process is never run again: its entry is gone, and
  nothing looks for records without one.
- `metadata.Validate` (`worker.go:346`) compares the counts with the total. As
  every line is counted unless the context is done, the warning about "partial
  failures" never appears for lines that failed, only after a shutdown.
- After an early return (`worker.go:296`) the producer goroutine stays blocked
  on its channel; line goroutines still end and give everything back
  (`LinesEnd`).
- Stop (`worker.go:374`) waits on a WaitGroup nobody has counted up and returns
  at once (run `stop`).
- CloseFn after Close closes a Go channel a second time and panics in the
  consumer (`mock_event_client.go:74` after lines 126-141), although
  `database.go:161` and `:169` tell the consumer to call CloseFn when it is done
  and do not except a client that was closed. `PanicOnlyAfterClose` allows
  exactly this panic and shows that it is the only one; nothing calls either
  function outside tests yet.
- A cancel of a job that is being processed marks it "cancelling" and answers
  with that (`batch_handler.go:385`); the worker's Update (`worker.go:355`)
  then writes the status the record had before, and the cancel is no longer
  visible. `CancelledNotRevived` allows this to the one worker that has the
  job, and shows that nothing else takes a cancel back and that "cancelled" is
  never written over by a worker.
- A temporary status lives for 24 hours (`worker.go:257`, `:261`): after that
  "completed" is gone as well (`ExpireStatus`).
- A batch without an `output_expires_after` gets the configured TTL whatever
  its window: a longer window outlives its record.
- The database never learns the outcome of a job: processJob passes the record
  to Update as it was read (`worker.go:354-355`, "job.Status should be updated
  before this line"), and no API handler reads the temporary status.
- A cancel that comes between Store and Enqueue (a list shows the ID) marks the
  batch cancelling and answers 200; the batch is then enqueued and will be
  processed. `QueuedIsLive` says what still holds.
- Two cancels at the same time may leave a record that no request can read any
  more: retrieve and cancel answer 500, and lists leave it out (`raced`).
- Validate accepts any duration, although the comment at `openai/batch.go:229`
  says "Currently only `24h` is supported"; a window may be negative (an SLO in
  the past, and with a short expiry a TTL below zero) or longer than the
  configured TTL. `BatchJob.IsValid` would refuse the first; nothing calls it.
- An `anchor` other than "created_at" passes Validate and is then ignored.
- `after` of a list is a number, `last_id` is an ID; the store ignores the
  number and ListBatches drops the cursor it returns, so there is no way to the
  second page. The interface (`database.go:64`) says that a Get without IDs and
  tags returns nothing; the mock returns everything.
- The keys in `cmd/batch-processor/config.yaml` (worker_poll_interval,
  max_workers, metrics_address) are not those of the struct (poll_interval,
  num_workers, addr): the processor runs with its defaults.

## 6. Plan

Done: the core (queue, stores, handlers, processors, their composition), the
abstract specifications, the line phase, the inference client, the event
channels, the API server process with its middleware, validation, listing and
shutdown; theorems for every safety property of the passing runs. Next:

1. What the configuration guarantees: `ServerConfig` lets a server serve only
   with a valid configuration, as a theorem of `HttpServer`; with it, the TTL
   of a stored record is positive where `AcceptedIsValid` says so.
2. The positive halves of the violation runs as theorems: without a second
   cancel a final status stays; no request is cut off unless a signal came.
3. A processor that opens an event channel, composed from `Processor` and
   `EventChannels`, as the abstract specification of the cancel that the
   interface describes.
