--------------------------- MODULE RequestServing ---------------------------
(***************************************************************************)
(* What the API server does with a request today: routing and middleware,  *)
(* and the batch handlers over the in-memory stores of buildHandler        *)
(* (server.go:124-128).  ApiServer has the same handlers over stores in    *)
(* another process, whose calls may fail; here no call fails, but the      *)
(* metadata store hands out pointers: a handler that got a record reads    *)
(* and writes the memory that all other handlers read and write            *)
(* (batch_handler.go:49, 412), without a lock.                             *)
(*                                                                         *)
(* net/http runs each request in a goroutine; an action is one access to   *)
(* something shared and the code up to the next one.                       *)
(***************************************************************************)
EXTENDS CreateRequest, ServerConfig, Middleware, FiniteSets

CONSTANTS IDs,       \* the batch IDs that may be drawn
          Conns,     \* connections, each with one request at a time
          Configs,   \* configurations the process may find
          Bodies,    \* bodies of create requests
          Pages,     \* query parameters of list requests, [limit, after]
          Asks,      \* Asks[c]: the requests that come in on c
          NotInt,    \* a parameter that is no integer
          NoReq      \* no request

Requests ==
  [op : DOMAIN FixedAnswer]
    \cup [op : {"create"}, body : Bodies, id : IDs]
    \cup [op : {"list"}, page : Pages]
    \cup [op : {"retrieve", "cancel"}, id : IDs]

ASSUME ServingAssumption ==
  /\ IsFiniteSet(IDs) /\ IsFiniteSet(Conns)
  /\ Configs \subseteq ServerConfigs
  /\ Bodies \subseteq CreateBodies
  /\ Asks \in [Conns -> SUBSET Requests]
  /\ NoReq \notin Requests

VARIABLES
  phase,      \* of the process: "load", "start", "serve", or how it ended
  cfg,        \* its configuration
  signals,    \* signals that ContextWithSignal has received
  shut,       \* the goroutine that calls Shutdown
  conn,       \* conn[c]: the goroutine that serves the request of c
  gauge,      \* http_requests_in_flight
  rec,        \* the record of every ID in the metadata store
  queue,      \* the IDs in the priority queue
  \* History, read by no action:
  acked,      \* [created, cancelled]: IDs a 200 has been sent for
  raced,      \* IDs on which a cancel overlapped with another request
  cut         \* connections whose request ended with the process

procVars == <<phase, cfg, signals, shut, cut>>
dataVars == <<rec, queue>>
histVars == <<acked, raced>>
vars == <<procVars, conn, gauge, dataVars, histVars>>

Statuses == {"validating", "cancelling", "cancelled"}

IsFinal(s) == s \in {"completed", "failed", "expired", "cancelled"}

(* A record: TTL and SLO, and the two words of the status slice.  Their    *)
(* values name the status they belong to; statuses of different contents   *)
(* have different lengths, so words of two statuses are no JSON text.      *)
NoRecord == [ptr |-> "none", len |-> "none", ttl |-> 0, slo |-> 0]

(* The locals of a request's goroutine: the request, the next step, the    *)
(* status sent and the one the responseWriter has, the (ID, status) pairs  *)
(* it answers with, the jobs a list has still to convert, has_more, and,   *)
(* for a read, what had been acknowledged when it came in (history).       *)
Nothing == [created |-> {}, cancelled |-> {}]

Idle == [rq |-> NoReq, pc |-> "idle", sent |-> 0, seen |-> 0, got |-> {},
         todo |-> {}, more |-> FALSE, known |-> Nothing]

Init ==
  /\ phase = "load"
  /\ cfg \in Configs
  /\ signals = 0
  /\ shut = "none"
  /\ conn = [c \in Conns |-> Idle]
  /\ gauge = 0
  /\ rec = [i \in IDs |-> NoRecord]
  /\ queue = {}
  /\ acked = Nothing
  /\ raced = {}
  /\ cut = {}

Busy == {c \in Conns : conn[c].pc # "idle"}

Present == {i \in IDs : rec[i] # NoRecord}

-----------------------------------------------------------------------------
\* Steps of a request

Set(c, locals) == conn' = [conn EXCEPT ![c] = locals]

\* WriteJSONResponse by a layer; what is left is the way back out.
Sent(l, layer, code) ==
  [l EXCEPT !.pc = "leave", !.sent = code, !.seen = StatusSeen(layer, code)]

Reply(l, code) == Sent(l, "handler", code)

At(c, op, pc) == conn[c].pc = pc /\ conn[c].rq.op = op

\* limit between 1 and 100, after not negative, both integers.
PageValid(page) ==
  /\ page.limit # NotInt /\ page.limit \in 1..100
  /\ page.after # NotInt /\ page.after >= 0

(* From the entry of the outermost layer to the first access to a store:   *)
(* decoding and validation.  The JSON text null makes the request nil, and *)
(* Validate panics on it.  The mux gives retrieve and cancel a batch_id    *)
(* that is never empty.                                                    *)
Dispatched(l) ==
  LET q == l.rq IN
  CASE q.op \in DOMAIN FixedAnswer -> Sent(l, AnsweredBy(q), FixedAnswer[q.op])
    [] q.op = "create" ->
         (CASE q.body.json = "malformed" -> Reply(l, 400)
            [] q.body.json = "null" -> [l EXCEPT !.pc = "panic"]
            [] q.body.json = "object" ->
                 IF Validate(q.body) THEN [l EXCEPT !.pc = "store"] ELSE Reply(l, 400))
    [] q.op = "list" -> IF PageValid(q.page) THEN [l EXCEPT !.pc = "get"] ELSE Reply(l, 400)
    [] q.op \in {"retrieve", "cancel"} -> [l EXCEPT !.pc = "get"]

\* The records a request reads or writes.
Touches(q) ==
  CASE q.op = "list" -> IDs
    [] q.op \in {"retrieve", "cancel"} -> {q.id}
    [] OTHER -> {}

(* uuid.NewString: an ID nobody has.  Drawn with the request here, so that *)
(* the supply of IDs bounds the create requests that get so far.           *)
Fresh(i) ==
  /\ i \notin Present
  /\ \A c \in Busy : conn[c].rq.op = "create" => conn[c].rq.id # i

Arrive(c, q) ==
  /\ phase = "serve" /\ shut = "waiting"
  /\ conn[c] = Idle
  /\ q.op = "create" => Fresh(q.id)
  /\ Set(c, Dispatched([Idle EXCEPT
                !.rq = q,
                !.known = IF q.op \in {"list", "retrieve"} THEN acked ELSE Nothing]))
  /\ gauge' = IF Counted(q) THEN gauge + 1 ELSE gauge
  /\ raced' = raced \cup
       UNION {Touches(q) \cap Touches(conn[d].rq) :
                d \in {d \in Busy : "cancel" \in {q.op, conn[d].rq.op}}}
  /\ UNCHANGED <<procVars, dataVars, acked>>

\* RecoveryMiddleware.
Recover(c) ==
  /\ conn[c].pc = "panic"
  /\ Set(c, Sent(conn[c], "recovery", 500))
  /\ UNCHANGED <<procVars, gauge, dataVars, histVars>>

\* Mutant of Leave: the requests that are not counted leave the gauge too.
Leave_all(c) ==
  /\ conn[c].pc = "leave"
  /\ Set(c, Idle)
  /\ gauge' = gauge - 1
  /\ UNCHANGED <<procVars, dataVars, histVars>>

\* Out through the layers: RecordRequestFinish, and the client has its answer.
Leave(c) ==
  /\ conn[c].pc = "leave"
  /\ Set(c, Idle)
  /\ gauge' = IF Counted(conn[c].rq) THEN gauge - 1 ELSE gauge
  /\ LET q == conn[c].rq
         done(op) == IF q.op = op /\ conn[c].sent = 200 THEN {q.id} ELSE {}
     IN acked' = [created |-> acked.created \cup done("create"),
                  cancelled |-> acked.cancelled \cup done("cancel")]
  /\ UNCHANGED <<procVars, dataVars, raced>>

-----------------------------------------------------------------------------
\* CreateBatch

\* Store the new record.
Store(c) ==
  /\ At(c, "create", "store")
  /\ LET q == conn[c].rq IN
       rec' = [rec EXCEPT ![q.id] =
                 [ptr |-> "validating", len |-> "validating",
                  ttl |-> TTL(q.body, cfg.batchTTLSeconds), slo |-> SLO(q.body)]]
  /\ Set(c, [conn[c] EXCEPT !.pc = "enqueue"])
  /\ UNCHANGED <<procVars, gauge, queue, histVars>>

\* Enqueue, which does not fail here, and answer.
Enqueue(c) ==
  /\ At(c, "create", "enqueue")
  /\ queue' = queue \cup {conn[c].rq.id}
  /\ Set(c, Reply(conn[c], 200))
  /\ UNCHANGED <<procVars, gauge, rec, histVars>>

-----------------------------------------------------------------------------
\* jobToBatch reads the status in place.

Unreadable == "unreadable"

Read(i) == IF rec[i].ptr = rec[i].len THEN rec[i].ptr ELSE Unreadable

\* What jobToBatch makes of a record: a pair, or nothing.
JobToBatch(i) == IF Read(i) = Unreadable THEN {} ELSE {<<i, Read(i)>>}

-----------------------------------------------------------------------------
\* ListBatches

\* Mutant of ListGet: one record too few is asked for.
ListGet_noExtra(c) ==
  /\ At(c, "list", "get")
  /\ LET limit == conn[c].rq.page.limit
     IN \E jobs \in SUBSET Present :
          /\ Cardinality(jobs) <= limit
          /\ jobs = Present \/ Cardinality(jobs) = limit
          /\ LET l == [conn[c] EXCEPT !.pc = "convert", !.todo = jobs]
             IN Set(c, IF jobs = {} THEN Reply(l, 200) ELSE l)
  /\ UNCHANGED <<procVars, gauge, dataVars, histVars>>

(* Get limit+1 records, in whatever order Range has them; the start is     *)
(* passed on and not used.  One step stands for Range: it finds every      *)
(* record that was there before it, as long as the limit lasts.            *)
ListGet(c) ==
  /\ At(c, "list", "get")
  /\ LET limit == conn[c].rq.page.limit
         \* n of the elements of S, or all of them when there are fewer
         UpTo(n, S) == {T \in SUBSET S :
                          Cardinality(T) = n \/ (T = S /\ Cardinality(S) < n)}
     IN \E jobs \in UpTo(limit + 1, Present) :
        \E page \in UpTo(limit, jobs) :
          LET l == [conn[c] EXCEPT !.pc = "convert", !.todo = page,
                                   !.more = Cardinality(jobs) > limit]
          IN Set(c, IF page = {} THEN Reply(l, 200) ELSE l)
  /\ UNCHANGED <<procVars, gauge, dataVars, histVars>>

\* Convert one record; one that cannot be read is left out.
ListConvert(c) ==
  /\ At(c, "list", "convert")
  /\ \E i \in conn[c].todo :
       LET l == [conn[c] EXCEPT !.todo = @ \ {i}, !.got = @ \cup JobToBatch(i)]
       IN Set(c, IF l.todo = {} THEN Reply(l, 200) ELSE l)
  /\ UNCHANGED <<procVars, gauge, dataVars, histVars>>

-----------------------------------------------------------------------------
\* RetrieveBatch

\* Mutant of Retrieve: a batch that is not there is an internal error.
Retrieve_no404(c) ==
  /\ At(c, "retrieve", "get")
  /\ LET i == conn[c].rq.id IN
       Set(c, IF i \notin Present \/ Read(i) = Unreadable THEN Reply(conn[c], 500)
              ELSE Reply([conn[c] EXCEPT !.got = JobToBatch(i)], 200))
  /\ UNCHANGED <<procVars, gauge, dataVars, histVars>>

Retrieve(c) ==
  /\ At(c, "retrieve", "get")
  /\ LET i == conn[c].rq.id IN
       Set(c, IF i \notin Present THEN Reply(conn[c], 404)
              ELSE IF Read(i) = Unreadable THEN Reply(conn[c], 500)
              ELSE Reply([conn[c] EXCEPT !.got = JobToBatch(i)], 200))
  /\ UNCHANGED <<procVars, gauge, dataVars, histVars>>

-----------------------------------------------------------------------------
\* CancelBatch

CancelGet(c) ==
  /\ At(c, "cancel", "get")
  /\ LET i == conn[c].rq.id IN
       Set(c, IF i \notin Present THEN Reply(conn[c], 404)
              ELSE IF Read(i) = Unreadable THEN Reply(conn[c], 500)
              ELSE IF IsFinal(Read(i)) THEN Reply(conn[c], 400)
              ELSE [conn[c] EXCEPT !.pc = "remove"])
  /\ UNCHANGED <<procVars, gauge, dataVars, histVars>>

\* Mutant of CancelRemove: the entry stays in the queue.
CancelRemove_peek(c) ==
  /\ At(c, "cancel", "remove")
  /\ LET i == conn[c].rq.id
         s == IF i \in queue THEN "cancelled" ELSE "cancelling"
         l == [conn[c] EXCEPT !.pc = "mark", !.got = {<<i, s>>}]
     IN /\ queue' = queue
        /\ Set(c, l)
  /\ UNCHANGED <<procVars, gauge, rec, histVars>>

\* Mutant of CancelRemove: removed is not looked at.
CancelRemove_always(c) ==
  /\ At(c, "cancel", "remove")
  /\ LET i == conn[c].rq.id
         s == "cancelled"
         l == [conn[c] EXCEPT !.pc = "mark", !.got = {<<i, s>>}]
     IN /\ queue' = queue \ {i}
        /\ Set(c, l)
  /\ UNCHANGED <<procVars, gauge, rec, histVars>>

\* Mutant of CancelRemove: a removed job is answered without the Update.
CancelRemove_unmarked(c) ==
  /\ At(c, "cancel", "remove")
  /\ LET i == conn[c].rq.id
         s == IF i \in queue THEN "cancelled" ELSE "cancelling"
         l == [conn[c] EXCEPT !.pc = "mark", !.got = {<<i, s>>}]
     IN /\ queue' = queue \ {i}
        /\ Set(c, IF i \in queue THEN Reply(l, 200) ELSE l)
  /\ UNCHANGED <<procVars, gauge, rec, histVars>>

\* Mutant of CancelRemove: the event waits for a consumer.
CancelRemove_blocks(c) ==
  /\ At(c, "cancel", "remove")
  /\ conn[c].rq.id \in queue
  /\ queue' = queue \ {conn[c].rq.id}
  /\ Set(c, [conn[c] EXCEPT !.pc = "mark", !.got = {<<conn[c].rq.id, "cancelled">>}])
  /\ UNCHANGED <<procVars, gauge, rec, histVars>>

(* Remove, and the status that follows from it.  For a job that was not    *)
(* queued the event is sent too, and dropped: nobody has opened a channel. *)
CancelRemove(c) ==
  /\ At(c, "cancel", "remove")
  /\ LET i == conn[c].rq.id
         s == IF i \in queue THEN "cancelled" ELSE "cancelling"
     IN /\ queue' = queue \ {i}
        /\ Set(c, [conn[c] EXCEPT !.pc = "mark", !.got = {<<i, s>>}])
  /\ UNCHANGED <<procVars, gauge, rec, histVars>>

\* The status a cancel has decided on.
NewStatus(c) == (CHOOSE p \in conn[c].got : TRUE)[2]

\* job.Status = ...: one word of the slice, in an order of the build's choice.
CancelMark(c) ==
  /\ At(c, "cancel", "mark")
  /\ \E word \in {"ptr", "len"} :
       /\ rec' = [rec EXCEPT ![conn[c].rq.id][word] = NewStatus(c)]
       /\ Set(c, [conn[c] EXCEPT !.pc = IF word = "ptr" THEN "len" ELSE "ptr"])
  /\ UNCHANGED <<procVars, gauge, queue, histVars>>

\* The other word; Update stores the pointer that is already there.
CancelUpdate(c) ==
  /\ At(c, "cancel", "ptr") \/ At(c, "cancel", "len")
  /\ rec' = [rec EXCEPT ![conn[c].rq.id][conn[c].pc] = NewStatus(c)]
  /\ Set(c, Reply(conn[c], 200))
  /\ UNCHANGED <<procVars, gauge, queue, histVars>>

Step(c) ==
  \/ Recover(c) \/ Leave(c)
  \/ Store(c) \/ Enqueue(c)
  \/ ListGet(c) \/ ListConvert(c)
  \/ Retrieve(c)
  \/ CancelGet(c) \/ CancelRemove(c) \/ CancelMark(c) \/ CancelUpdate(c)
=============================================================================
