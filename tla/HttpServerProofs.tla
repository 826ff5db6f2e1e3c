-------------------------- MODULE HttpServerProofs --------------------------
(***************************************************************************)
(* The API server, proved for any sets of IDs and connections, any bodies, *)
(* pages and configurations.                                               *)
(*                                                                         *)
(* A request's goroutine reads shared memory at one step and acts on it at *)
(* a later one; the invariants say what it may still rely on.              *)
(***************************************************************************)
EXTENDS HttpServer, FiniteSetTheorems, TLAPS

-----------------------------------------------------------------------------
(*               What validation guarantees of the TTL                     *)

\* A duration is less than a second longer than its whole seconds, and they
\* are negative only if it is.
LEMMA WholeSecondsBound ==
  ASSUME NEW ms \in Int
  PROVE  /\ WholeSeconds(ms) \in Int
         /\ ms >= 0 => WholeSeconds(ms) >= 0
         /\ ms < WholeSeconds(ms) * 1000 + 1000
BY SMT DEF WholeSeconds

(* CreateBatch gives every batch whose output is to expire after           *)
(* "created_at" a TTL beyond its SLO (batch_handler.go:159-164), for every *)
(* request that Validate accepts, negative windows included.  Of the       *)
(* others, whose TTL is the configured one, it says nothing.               *)
THEOREM ExpiryCoversWindow ==
  ASSUME NEW b \in CreateBodies, NEW default \in Int
  PROVE  CoversWindow(b, default)
<1> SUFFICES ASSUME Validate(b), Anchored(b)
             PROVE  TTL(b, default) * 1000 >= SLO(b) + (MinExpiry - 1) * 1000
  BY DEF CoversWindow
<1>1. PICK ms \in Int : ms = b.window.ms
  BY DEF CreateBodies, Windows
<1>2. b.expiry.seconds \in Int
  BY DEF CreateBodies, Expiries
<1>3. b.expiry.seconds >= MinExpiry
  BY Zenon DEF Validate, ExpiryValid, Anchored
<1>4. TTL(b, default) = WholeSeconds(ms) + b.expiry.seconds /\ SLO(b) = ms
  BY <1>1 DEF TTL, SLO
<1>5. PICK s \in Int : s = WholeSeconds(ms) /\ ms < s * 1000 + 1000
  BY WholeSecondsBound
<1> QED BY <1>2, <1>3, <1>4, <1>5 DEF MinExpiry

(* The record of every accepted request with a window that is not negative *)
(* passes BatchJob.IsValid (database.go:40-51), which CreateBatch does not *)
(* call, if the configured TTL is positive.                                *)
THEOREM AcceptedIsValid ==
  ASSUME NEW b \in CreateBodies, NEW default \in Int, default > 0,
         Validate(b), b.window.ms >= 0
  PROVE  IsValid([ttl |-> TTL(b, default)])
<1>1. CASE Anchored(b)
  <2>1. PICK ms \in Int : ms = b.window.ms /\ ms >= 0
    BY DEF CreateBodies, Windows
  <2>2. b.expiry.seconds \in Int /\ b.expiry.seconds >= MinExpiry
    <3>1. b.expiry.seconds \in Int
      BY DEF CreateBodies, Expiries
    <3>2. b.expiry.seconds >= MinExpiry
      BY <1>1, Zenon DEF Validate, ExpiryValid, Anchored
    <3> QED BY <3>1, <3>2
  <2>3. TTL(b, default) = WholeSeconds(ms) + b.expiry.seconds
    BY <1>1, <2>1 DEF TTL
  <2>4. WholeSeconds(ms) \in Int /\ WholeSeconds(ms) >= 0
    BY <2>1, WholeSecondsBound
  <2> QED BY <2>2, <2>3, <2>4 DEF IsValid, MinExpiry
<1>2. CASE ~Anchored(b)
  BY <1>2 DEF IsValid, TTL
<1> QED BY <1>1, <1>2

-----------------------------------------------------------------------------
(*                    Layers, requests and answers                         *)

\* The place of every layer in the chain of server.go:146-154.
LEMMA Depths ==
  /\ Depth("security") = 1 /\ Depth("request") = 2
  /\ Depth("recovery") = 3 /\ Depth("handler") = 4
<1>1. DOMAIN Chain = 1..3 /\ Chain[1] = "security" /\ Chain[2] = "request" /\ Chain[3] = "recovery"
      /\ Len(Chain) = 3
  BY DEF Chain
<1>2. \A i \in 1..3 : i = 1 \/ i = 2 \/ i = 3
  OBVIOUS
<1>3. ASSUME NEW layer, NEW i \in 1..3, Chain[i] = layer, layer # "handler"
      PROVE  Depth(layer) = i
  <2>1. \A k \in 1..3 : Chain[k] = layer => k = i
    BY <1>1, <1>2, <1>3
  <2>2. (CHOOSE k \in DOMAIN Chain : Chain[k] = layer) = i
    BY <1>1, <1>3, <2>1
  <2> QED BY <1>3, <2>2 DEF Depth
<1>4. Depth("handler") = 4
  BY <1>1 DEF Depth
<1>5. 1 \in 1..3 /\ 2 \in 1..3 /\ 3 \in 1..3
  OBVIOUS
<1> QED BY <1>1, <1>3, <1>4, <1>5

\* What the metrics see of an answer depends on the layer that writes it.
LEMMA SeenByLayer ==
  ASSUME NEW code
  PROVE  /\ StatusSeen("security", code) = 200
         /\ StatusSeen("recovery", code) = code
         /\ StatusSeen("handler", code) = code
<1>1. ~ThroughWriter("security") /\ ThroughWriter("recovery") /\ ThroughWriter("handler")
  BY Depths DEF ThroughWriter
<1> QED BY <1>1 DEF StatusSeen

\* A preflight request never reaches the metrics.
LEMMA OptionsUncounted ==
  ASSUME NEW q, q.op = "options"
  PROVE  ~Counted(q)
BY Depths DEF Counted

\* The requests by their operations.
LEMMA RequestFields ==
  ASSUME NEW q \in Requests
  PROVE  /\ q.op \in {"options", "health", "metrics", "file", "unrouted",
                      "create", "list", "retrieve", "cancel"}
         /\ q.op = "create" => q.body \in CreateBodies /\ q.id \in IDs
         /\ q.op = "list" => q.page \in Pages
         /\ q.op \in {"retrieve", "cancel"} => q.id \in IDs
<1>1. DOMAIN FixedAnswer = {"options", "health", "metrics", "file", "unrouted"}
  BY DEF FixedAnswer
<1>2. CASE q \in [op : DOMAIN FixedAnswer]
  BY <1>1, <1>2
<1>3. CASE q \in [op : {"create"}, body : Bodies, id : IDs]
  BY <1>3, ServingAssumption
<1>4. CASE q \in [op : {"list"}, page : Pages]
  BY <1>4
<1>5. CASE q \in [op : {"retrieve", "cancel"}, id : IDs]
  BY <1>5
<1> QED BY <1>2, <1>3, <1>4, <1>5 DEF Requests

-----------------------------------------------------------------------------
(*                       The inductive invariants                          *)

\* The statuses a cancel writes.
Decided == {"cancelling", "cancelled"}

\* What a goroutine knows by the place it is at, whatever the others do.
Local(l) ==
  /\ l \in Locals
  /\ l.pc = "idle" => l = Idle
  /\ l.pc # "idle" =>
       /\ l.rq \in Requests
       /\ l.pc = "panic" => l.rq.op = "create" /\ l.rq.body.json = "null"
       /\ l.pc \in {"store", "enqueue"} => l.rq.op = "create" /\ Validate(l.rq.body)
       /\ l.pc = "get" => l.rq.op \in {"list", "retrieve", "cancel"}
       /\ l.pc = "convert" => l.rq.op = "list"
       /\ l.pc \in {"remove", "mark", "ptr", "len"} => l.rq.op = "cancel"
       /\ l.pc # "leave" => l.sent = 0
       /\ l.pc = "leave" /\ Counted(l.rq) => l.seen = l.sent
       /\ l.sent = 500 => \/ l.rq.op = "create" /\ l.rq.body.json = "null"
                          \/ l.rq.op \in {"retrieve", "cancel"}

\* A cancel has decided on a status, once it is past the queue.
Told(l) ==
  l.pc # "idle" /\ l.rq.op = "cancel" =>
    IF l.pc \in {"mark", "ptr", "len"} \/ l.sent = 200
      THEN \E s \in Decided : l.got = {<<l.rq.id, s>>}
      ELSE l.got = {}

\* A list has checked its page, and is done when nothing is left to convert.
Paged(l) ==
  l.pc # "idle" /\ l.rq.op = "list" =>
    /\ l.pc # "leave" \/ l.sent = 200 => l.rq.page.limit \in 1..100
    /\ l.pc = "leave" => l.todo = {}

\* Records that a goroutine found, or that were acknowledged, are there.
Finds(c) ==
  LET l == conn[c] IN
  /\ l.todo \subseteq Present
  /\ l.known.created \subseteq acked.created /\ l.known.cancelled \subseteq acked.cancelled
  /\ l.rq.op = "cancel" /\ (l.pc \in {"remove", "mark", "ptr", "len"} \/ l.sent = 200)
       => l.rq.id \in Present
  /\ l.rq.op = "create" =>
       /\ l.pc = "store" => l.rq.id \notin Present
       /\ l.pc = "enqueue" => l.rq.id \in Present /\ l.rq.id \notin queue
       /\ l.sent = 200 => l.rq.id \in Present

Found ==
  /\ \A i \in Present : rec[i].ptr \in Statuses /\ rec[i].len \in Statuses
  /\ queue \subseteq Present /\ acked.created \subseteq Present
  /\ \A c \in Busy : Finds(c)

\* No two create requests have the same ID.
Creators ==
  \A c, d \in Busy :
    c # d /\ conn[c].rq.op = "create" /\ conn[d].rq.op = "create"
      => conn[c].rq.id # conn[d].rq.id

\* Every overlap of a cancel with another request on a batch is on record.
Overlap ==
  \A c, d \in Busy :
    c # d /\ conn[c].rq.op = "cancel" => Touches(conn[c].rq) \cap Touches(conn[d].rq) \subseteq raced

\* A cancel of the batch that has written one word of the status.
Writing(d, i) == conn[d].rq.op = "cancel" /\ conn[d].rq.id = i /\ conn[d].pc \in {"ptr", "len"}

\* The two words differ only under a cancel, or after overlapping ones.
Torn ==
  /\ \A i \in Present \ raced : rec[i].ptr = rec[i].len \/ \E d \in Busy : Writing(d, i)
  /\ \A d \in Busy : \A i \in IDs \ raced :
       Writing(d, i) =>
         /\ conn[d].pc = "ptr" => conn[d].got = {<<i, rec[i].len>>}
         /\ conn[d].pc = "len" => conn[d].got = {<<i, rec[i].ptr>>}

\* The batch has an entry in the queue, or is about to get one.
Awaited(i) ==
  \/ i \in queue
  \/ \E c \in Busy : /\ conn[c].rq.op = "create" /\ conn[c].rq.id = i
                     /\ conn[c].pc \in {"store", "enqueue"}

\* Nobody has been told, or has written, that such a batch is cancelled.
Wanted ==
  \A i \in IDs : Awaited(i) =>
    /\ rec[i].ptr # "cancelled" /\ rec[i].len # "cancelled"
    /\ \A d \in Busy : conn[d].rq.op = "cancel" => <<i, "cancelled">> \notin conn[d].got

\* Of two cancels of a batch, one is told that it is cancelled.
OneTold ==
  \A c, d \in Busy : \A i \in IDs :
    /\ c # d /\ conn[c].rq.op = "cancel" /\ conn[d].rq.op = "cancel"
    /\ <<i, "cancelled">> \in conn[c].got
    => <<i, "cancelled">> \notin conn[d].got

\* The record still has what Store wrote.
RecordKept ==
  \A c \in Busy :
    At(c, "create", "enqueue") =>
      /\ rec[conn[c].rq.id].ttl = TTL(conn[c].rq.body, cfg.batchTTLSeconds)
      /\ rec[conn[c].rq.id].slo = SLO(conn[c].rq.body)

\* A cancel that was answered has written both words, for good.
CancelKept ==
  /\ \A i \in acked.cancelled : i \in Present /\ rec[i].ptr \in Decided /\ rec[i].len \in Decided
  /\ \A c \in Busy : conn[c].rq.op = "cancel" =>
       /\ conn[c].pc = "ptr" \/ conn[c].sent = 200 => rec[conn[c].rq.id].len \in Decided
       /\ conn[c].pc = "len" \/ conn[c].sent = 200 => rec[conn[c].rq.id].ptr \in Decided

\* What a read has collected so far agrees with what it knew.
ReadsKnow ==
  \A c \in Busy :
    /\ conn[c].rq.op \in {"retrieve", "list"} =>
         \A b \in conn[c].got : b[1] \in conn[c].known.cancelled => b[2] # "validating"
    /\ conn[c].rq.op = "retrieve" /\ conn[c].sent = 404
         => conn[c].rq.id \notin conn[c].known.created

\* What a list has, or has still to convert, makes up the page it promised.
Covered(c) == {b[1] : b \in conn[c].got} \cup raced \cup conn[c].todo

Lists ==
  \A c \in Busy :
    conn[c].rq.op = "list" /\ (conn[c].pc = "convert" \/ conn[c].sent = 200) =>
      IF conn[c].more THEN Cardinality(Covered(c)) >= conn[c].rq.page.limit
                      ELSE conn[c].known.created \subseteq Covered(c)

\* The types of what the requests share.
DataTyped ==
  /\ cfg \in Configs
  /\ conn \in [Conns -> Locals]
  /\ rec \in [IDs -> [ptr : Statuses \cup {"none"}, len : Statuses \cup {"none"},
                      ttl : Int, slo : Int]]
  /\ queue \subseteq IDs
  /\ acked \in [created : SUBSET IDs, cancelled : SUBSET IDs]
  /\ raced \subseteq IDs

ProcTyped ==
  /\ phase \in Ended \cup {"load", "start", "serve"}
  /\ signals \in 0..1
  /\ shut \in {"none", "waiting", "draining", "done", "timeout"}
  /\ cut \subseteq Conns

LocalsKnown == \A c \in Conns : Local(conn[c]) /\ Told(conn[c]) /\ Paged(conn[c])

\* The inductive invariant of the server.
IInv ==
  /\ DataTyped /\ ProcTyped /\ LocalsKnown /\ Found /\ Creators /\ Overlap /\ Torn
  /\ Wanted /\ OneTold /\ RecordKept /\ CancelKept /\ ReadsKnow /\ Lists
  /\ MetricsAreExact /\ ErrorNeedsRace

-----------------------------------------------------------------------------
(*                       The kinds of steps                                *)

\* A step of the process that no request notices.
Quiet == cfg' = cfg /\ UNCHANGED serveVars

\* The end of the process.
Reset ==
  /\ cfg' = cfg
  /\ conn' = [c \in Conns |-> Idle]
  /\ gauge' = 0
  /\ rec' = [i \in IDs |-> NoRecord]
  /\ queue' = {}
  /\ acked' = Nothing
  /\ raced' = {}

\* Every step serves one request, ends the process or touches no request.
LEMMA Kinds ==
  ASSUME [Next]_vars
  PROVE  \/ Quiet
         \/ Reset
         \/ \E c \in Conns : \E q \in Asks[c] : Arrive(c, q)
         \/ \E c \in Conns : Step(c)
<1>1. ASSUME NEW how, End(how) PROVE Reset
  BY <1>1 DEF End, Reset
<1>2. CASE Load
  BY <1>1, <1>2 DEF Load, Quiet
<1>3. CASE Start
  BY <1>1, <1>3 DEF Start, Quiet
<1>4. CASE ServeFails
  BY <1>1, <1>4 DEF ServeFails
<1>5. CASE Signal
  BY <1>1, <1>5 DEF Signal, Quiet
<1>6. CASE Shutdown \/ ShutdownReturns
  BY <1>6 DEF Shutdown, ShutdownReturns, Quiet
<1>7. CASE MainReturns
  BY <1>1, <1>7 DEF MainReturns
<1>8. CASE UNCHANGED vars
  BY <1>8 DEF vars, procVars, serveVars, Quiet
<1>9. CASE \E c \in Conns : Serving(c)
  BY <1>9 DEF Serving
<1> QED BY <1>2, <1>3, <1>4, <1>5, <1>6, <1>7, <1>8, <1>9 DEF Next

\* How a step of c changes its locals: the request and what it knew stay.
Moves(c, pc, sent, got, todo, more) ==
  conn'[c] = [rq |-> conn[c].rq, pc |-> pc, sent |-> sent,
              seen |-> IF pc = "leave" THEN sent ELSE conn[c].seen,
              got |-> got, todo |-> todo, more |-> more, known |-> conn[c].known]

\* The locals of the others stay.
Alone(c) ==
  /\ conn' = [d \in Conns |-> conn'[d]]
  /\ \A d \in Conns : d # c => conn'[d] = conn[d]

\* Set changes the locals of one goroutine only.
LEMMA SetLocals ==
  ASSUME DataTyped, NEW c \in Conns, NEW m, Set(c, m)
  PROVE  conn'[c] = m /\ Alone(c)
BY DEF DataTyped, Set, Alone

\* Locals, field by field.
LEMMA LocalsFields ==
  ASSUME NEW l \in Locals
  PROVE  l = [rq |-> l.rq, pc |-> l.pc, sent |-> l.sent, seen |-> l.seen, got |-> l.got,
              todo |-> l.todo, more |-> l.more, known |-> l.known]
BY DEF Locals

\* A change of the place alone, field by field.
LEMMA PlaceFields ==
  ASSUME NEW l \in Locals, NEW pc
  PROVE  [l EXCEPT !.pc = pc] =
           [rq |-> l.rq, pc |-> pc, sent |-> l.sent, seen |-> l.seen, got |-> l.got,
            todo |-> l.todo, more |-> l.more, known |-> l.known]
BY DEF Locals

\* An answer of a layer, field by field.
LEMMA SentFields ==
  ASSUME NEW l \in Locals, NEW code, NEW layer, NEW seen, seen = StatusSeen(layer, code)
  PROVE  Sent(l, layer, code) =
           [rq |-> l.rq, pc |-> "leave", sent |-> code, seen |-> seen, got |-> l.got,
            todo |-> l.todo, more |-> l.more, known |-> l.known]
<1>1. Sent(l, layer, code) = [l EXCEPT !.pc = "leave", !.sent = code, !.seen = seen]
  BY DEF Sent
<1>2. PICK rq, pc, sent, sn, got, todo, more, known :
        /\ l = [rq |-> rq, pc |-> pc, sent |-> sent, seen |-> sn, got |-> got,
                todo |-> todo, more |-> more, known |-> known]
        /\ rq = l.rq /\ got = l.got /\ todo = l.todo /\ more = l.more /\ known = l.known
  BY LocalsFields
<1> QED BY <1>1, <1>2

\* The metrics see the answer of a handler and of the recovery.
LEMMA ReplyFields ==
  ASSUME NEW l \in Locals, NEW code, NEW layer \in {"handler", "recovery"}
  PROVE  Sent(l, layer, code) =
           [rq |-> l.rq, pc |-> "leave", sent |-> code, seen |-> code, got |-> l.got,
            todo |-> l.todo, more |-> l.more, known |-> l.known]
<1>1. code = StatusSeen(layer, code)
  BY SeenByLayer
<1> QED BY <1>1, SentFields

\* The answer to a preflight goes past them.
LEMMA PreflightFields ==
  ASSUME NEW l \in Locals, NEW code
  PROVE  Sent(l, "security", code) =
           [rq |-> l.rq, pc |-> "leave", sent |-> code, seen |-> 200, got |-> l.got,
            todo |-> l.todo, more |-> l.more, known |-> l.known]
<1>1. 200 = StatusSeen("security", code)
  BY SeenByLayer
<1> QED BY <1>1, SentFields

\* The recovery middleware answers 500 and changes nothing else.
LEMMA RecoverEffect ==
  ASSUME DataTyped, NEW c \in Conns, Recover(c)
  PROVE  /\ conn[c].pc = "panic" /\ Alone(c)
         /\ Moves(c, "leave", 500, conn[c].got, conn[c].todo, conn[c].more)
         /\ UNCHANGED <<cfg, gauge, rec, queue, acked, raced>>
<1>1. PICK l \in Locals : l = conn[c]
  BY DEF DataTyped
<1>2. Alone(c) /\ conn'[c] = Sent(l, "recovery", 500)
  BY <1>1, SetLocals DEF Recover
<1> QED BY <1>1, <1>2, ReplyFields DEF Moves, Recover, procVars, dataVars, histVars

\* The way out gives the locals up and leaves the stores alone.
LEMMA LeaveEffect ==
  ASSUME DataTyped, NEW c \in Conns, Leave(c)
  PROVE  /\ conn[c].pc = "leave" /\ conn'[c] = Idle /\ Alone(c)
         /\ UNCHANGED <<cfg, rec, queue, raced>>
BY SetLocals DEF Leave, procVars, dataVars

\* CreateBatch stores the record that its request asks for.
LEMMA StoreEffect ==
  ASSUME DataTyped, NEW c \in Conns, Store(c)
  PROVE  /\ At(c, "create", "store") /\ Alone(c)
         /\ Moves(c, "enqueue", conn[c].sent, conn[c].got, conn[c].todo, conn[c].more)
         /\ rec' = [rec EXCEPT ![conn[c].rq.id] =
                      [ptr |-> "validating", len |-> "validating",
                       ttl |-> TTL(conn[c].rq.body, cfg.batchTTLSeconds),
                       slo |-> SLO(conn[c].rq.body)]]
         /\ UNCHANGED <<cfg, gauge, queue, acked, raced>>
<1>1. PICK l \in Locals : l = conn[c]
  BY DEF DataTyped
<1>2. Alone(c) /\ conn'[c] = [l EXCEPT !.pc = "enqueue"]
  BY <1>1, SetLocals DEF Store
<1>3. Moves(c, "enqueue", conn[c].sent, conn[c].got, conn[c].todo, conn[c].more)
  BY <1>1, <1>2 DEF Moves, Locals
<1> QED BY <1>2, <1>3 DEF Store, procVars, histVars

\* CreateBatch adds one entry to the queue and answers 200.
LEMMA EnqueueEffect ==
  ASSUME DataTyped, NEW c \in Conns, Enqueue(c)
  PROVE  /\ At(c, "create", "enqueue") /\ Alone(c)
         /\ Moves(c, "leave", 200, conn[c].got, conn[c].todo, conn[c].more)
         /\ queue' = queue \cup {conn[c].rq.id}
         /\ UNCHANGED <<cfg, gauge, rec, acked, raced>>
<1>1. PICK l \in Locals : l = conn[c]
  BY DEF DataTyped
<1>2. Alone(c) /\ conn'[c] = Sent(l, "handler", 200)
  BY <1>1, SetLocals DEF Enqueue, Reply
<1>3. Moves(c, "leave", 200, conn[c].got, conn[c].todo, conn[c].more)
  BY <1>1, <1>2, ReplyFields DEF Moves
<1> QED BY <1>2, <1>3 DEF Enqueue, procVars, histVars

\* What jobToBatch makes of a record that is there.
LEMMA JobToBatchTyped ==
  ASSUME Found, NEW i \in Present
  PROVE  JobToBatch(i) \subseteq IDs \X Statuses
BY DEF Found, JobToBatch, Read, Unreadable, Statuses, Present

\* The locals of a list with a page to convert, field by field.
LEMMA PageFields ==
  ASSUME NEW l \in Locals, NEW page \in SUBSET IDs, NEW more \in BOOLEAN
  PROVE  [l EXCEPT !.pc = "convert", !.todo = page, !.more = more] =
           [rq |-> l.rq, pc |-> "convert", sent |-> l.sent, seen |-> l.seen, got |-> l.got,
            todo |-> page, more |-> more, known |-> l.known]
<1>1. PICK x : x = [l EXCEPT !.pc = "convert"]
  OBVIOUS
<1>2. /\ x \in Locals /\ x.rq = l.rq /\ x.pc = "convert" /\ x.sent = l.sent
      /\ x.seen = l.seen /\ x.got = l.got /\ x.known = l.known
  BY <1>1 DEF Locals
<1>3. PICK y : y = [x EXCEPT !.todo = page]
  OBVIOUS
<1>4. /\ y \in Locals /\ y.rq = x.rq /\ y.pc = x.pc /\ y.sent = x.sent
      /\ y.seen = x.seen /\ y.got = x.got /\ y.known = x.known /\ y.todo = page
  BY <1>2, <1>3 DEF Locals
<1>5. PICK z : z = [y EXCEPT !.more = more]
  OBVIOUS
<1>6. /\ z \in Locals /\ z.rq = y.rq /\ z.pc = y.pc /\ z.sent = y.sent
      /\ z.seen = y.seen /\ z.got = y.got /\ z.known = y.known /\ z.todo = y.todo
      /\ z.more = more
  BY <1>4, <1>5 DEF Locals
<1>7. [l EXCEPT !.pc = "convert", !.todo = page, !.more = more] = z
  BY <1>1, <1>3, <1>5, Zenon
<1> QED BY <1>2, <1>4, <1>6, <1>7, LocalsFields

\* A list takes a page of the records, and sees whether there are more.
LEMMA ListGetEffect ==
  ASSUME DataTyped, NEW c \in Conns, ListGet(c)
  PROVE  /\ At(c, "list", "get") /\ Alone(c)
         /\ UNCHANGED <<cfg, gauge, rec, queue, acked, raced>>
         /\ \E jobs \in SUBSET Present, page \in SUBSET Present :
              /\ page \subseteq jobs
              /\ \/ Cardinality(jobs) = conn[c].rq.page.limit + 1
                 \/ jobs = Present /\ Cardinality(Present) < conn[c].rq.page.limit + 1
              /\ \/ Cardinality(page) = conn[c].rq.page.limit
                 \/ page = jobs /\ Cardinality(jobs) < conn[c].rq.page.limit
              /\ Moves(c, IF page = {} THEN "leave" ELSE "convert",
                       IF page = {} THEN 200 ELSE conn[c].sent, conn[c].got, page,
                       Cardinality(jobs) > conn[c].rq.page.limit)
<1>1. PICK l \in Locals : l = conn[c]
  BY DEF DataTyped
<1>2. PICK jobs \in SUBSET Present, page \in SUBSET Present :
        /\ page \subseteq jobs
        /\ \/ Cardinality(jobs) = l.rq.page.limit + 1
           \/ jobs = Present /\ Cardinality(Present) < l.rq.page.limit + 1
        /\ \/ Cardinality(page) = l.rq.page.limit
           \/ page = jobs /\ Cardinality(jobs) < l.rq.page.limit
        /\ LET m == [l EXCEPT !.pc = "convert", !.todo = page,
                              !.more = Cardinality(jobs) > l.rq.page.limit]
           IN Set(c, IF page = {} THEN Reply(m, 200) ELSE m)
  BY <1>1, Zenon DEF ListGet
<1> DEFINE more == Cardinality(jobs) > l.rq.page.limit
           m == [l EXCEPT !.pc = "convert", !.todo = page, !.more = more]
<1>3. Set(c, IF page = {} THEN Reply(m, 200) ELSE m)
  BY <1>2
<1>4. more \in BOOLEAN /\ page \in SUBSET IDs
  BY DEF Present
<1> HIDE DEF more
<1>5. m = [rq |-> l.rq, pc |-> "convert", sent |-> l.sent, seen |-> l.seen, got |-> l.got,
           todo |-> page, more |-> more, known |-> l.known]
  BY <1>4, PageFields
<1>6. m \in Locals
  BY <1>4, <1>5 DEF Locals
<1>7. Sent(m, "handler", 200) =
        [rq |-> l.rq, pc |-> "leave", sent |-> 200, seen |-> 200, got |-> l.got,
         todo |-> page, more |-> more, known |-> l.known]
  BY <1>5, <1>6, ReplyFields
<1> HIDE DEF m
<1>8. Alone(c) /\ conn'[c] = IF page = {} THEN Sent(m, "handler", 200) ELSE m
  BY <1>3, SetLocals DEF Reply
<1>9. Moves(c, IF page = {} THEN "leave" ELSE "convert",
            IF page = {} THEN 200 ELSE l.sent, l.got, page, more)
  <2>1. CASE page = {}
    BY <1>1, <1>7, <1>8, <2>1 DEF Moves
  <2>2. CASE page # {}
    BY <1>1, <1>5, <1>8, <2>2 DEF Moves
  <2> QED BY <2>1, <2>2
<1>10. At(c, "list", "get") /\ UNCHANGED <<cfg, gauge, rec, queue, acked, raced>>
  BY DEF ListGet, procVars, dataVars, histVars
<1> QED BY <1>1, <1>2, <1>8, <1>9, <1>10 DEF more

\* A list converts one record; the answer goes out with the last one.
LEMMA ListConvertEffect ==
  ASSUME DataTyped, LocalsKnown, Found, NEW c \in Conns, ListConvert(c)
  PROVE  /\ At(c, "list", "convert") /\ Alone(c)
         /\ UNCHANGED <<cfg, gauge, rec, queue, acked, raced>>
         /\ \E i \in conn[c].todo :
              /\ i \in Present
              /\ JobToBatch(i) \subseteq IDs \X Statuses
              /\ LET rest == conn[c].todo \ {i} IN
                 Moves(c, IF rest = {} THEN "leave" ELSE "convert",
                       IF rest = {} THEN 200 ELSE conn[c].sent,
                       conn[c].got \cup JobToBatch(i), rest, conn[c].more)
<1>1. PICK l \in Locals : l = conn[c]
  BY DEF DataTyped
<1>2. PICK i \in l.todo :
        LET m == [l EXCEPT !.todo = @ \ {i}, !.got = @ \cup JobToBatch(i)]
        IN Set(c, IF m.todo = {} THEN Reply(m, 200) ELSE m)
  BY <1>1 DEF ListConvert
<1> DEFINE rest == l.todo \ {i}
           got == l.got \cup JobToBatch(i)
           m == [l EXCEPT !.todo = rest, !.got = got]
<1>3. Set(c, IF m.todo = {} THEN Reply(m, 200) ELSE m)
  BY <1>2
<1>4. At(c, "list", "convert") /\ UNCHANGED <<cfg, gauge, rec, queue, acked, raced>>
  BY DEF ListConvert, procVars, dataVars, histVars
<1>5. i \in Present /\ i \in IDs
  BY <1>1, <1>4 DEF Found, Finds, Busy, At, Present
<1>6. JobToBatch(i) \subseteq IDs \X Statuses
  BY <1>5, JobToBatchTyped
<1>7. rest \in SUBSET IDs /\ got \in SUBSET (IDs \X Statuses)
  BY <1>6 DEF Locals
<1> HIDE DEF rest, got
<1>8. m \in Locals /\ m = [rq |-> l.rq, pc |-> l.pc, sent |-> l.sent, seen |-> l.seen,
                           got |-> got, todo |-> rest, more |-> l.more, known |-> l.known]
  <2>1. PICK x : x = [l EXCEPT !.todo = rest]
    OBVIOUS
  <2>2. /\ x \in Locals /\ x.rq = l.rq /\ x.pc = l.pc /\ x.sent = l.sent /\ x.seen = l.seen
        /\ x.todo = rest /\ x.more = l.more /\ x.known = l.known
    BY <1>7, <2>1 DEF Locals
  <2>3. PICK y : y = [x EXCEPT !.got = got]
    OBVIOUS
  <2>4. /\ y \in Locals /\ y.rq = x.rq /\ y.pc = x.pc /\ y.sent = x.sent /\ y.seen = x.seen
        /\ y.got = got /\ y.todo = x.todo /\ y.more = x.more /\ y.known = x.known
    BY <1>7, <2>2, <2>3 DEF Locals
  <2>5. m = y
    BY <2>1, <2>3, Zenon
  <2> QED BY <2>2, <2>4, <2>5, LocalsFields
<1> HIDE DEF m
<1>9. m.todo = rest /\ Sent(m, "handler", 200) =
        [rq |-> l.rq, pc |-> "leave", sent |-> 200, seen |-> 200, got |-> got,
         todo |-> rest, more |-> l.more, known |-> l.known]
  BY <1>8, ReplyFields
<1>10. Alone(c) /\ conn'[c] = IF rest = {} THEN Sent(m, "handler", 200) ELSE m
  BY <1>3, <1>9, SetLocals DEF Reply
<1>11. Moves(c, IF rest = {} THEN "leave" ELSE "convert",
             IF rest = {} THEN 200 ELSE l.sent, got, rest, l.more)
  <2>1. CASE rest = {}
    BY <1>1, <1>9, <1>10, <2>1 DEF Moves
  <2>2. CASE rest # {}
    BY <1>1, <1>4, <1>8, <1>10, <2>2 DEF Moves, At
  <2> QED BY <2>1, <2>2
<1> QED BY <1>1, <1>4, <1>5, <1>6, <1>10, <1>11 DEF rest, got

\* RetrieveBatch answers 404, 500 or what it reads.
LEMMA RetrieveEffect ==
  ASSUME DataTyped, Found, NEW c \in Conns, Retrieve(c), conn[c].rq.id \in IDs
  PROVE  /\ At(c, "retrieve", "get") /\ Alone(c)
         /\ UNCHANGED <<cfg, gauge, rec, queue, acked, raced>>
         /\ \/ /\ conn[c].rq.id \notin Present
               /\ Moves(c, "leave", 404, conn[c].got, conn[c].todo, conn[c].more)
            \/ /\ conn[c].rq.id \in Present /\ Read(conn[c].rq.id) = Unreadable
               /\ Moves(c, "leave", 500, conn[c].got, conn[c].todo, conn[c].more)
            \/ /\ conn[c].rq.id \in Present
               /\ Moves(c, "leave", 200, JobToBatch(conn[c].rq.id), conn[c].todo, conn[c].more)
<1>1. PICK l \in Locals : l = conn[c]
  BY DEF DataTyped
<1>2. PICK i \in IDs : i = l.rq.id
  BY <1>1
<1>3. At(c, "retrieve", "get") /\ UNCHANGED <<cfg, gauge, rec, queue, acked, raced>>
  BY DEF Retrieve, procVars, dataVars, histVars
<1>4. Set(c, IF i \notin Present THEN Reply(l, 404)
             ELSE IF Read(i) = Unreadable THEN Reply(l, 500)
             ELSE Reply([l EXCEPT !.got = JobToBatch(i)], 200))
  BY <1>1, <1>2 DEF Retrieve
<1>5. CASE i \notin Present
  <2>1. Alone(c) /\ conn'[c] = Sent(l, "handler", 404)
    BY <1>4, <1>5, SetLocals DEF Reply
  <2> QED BY <1>1, <1>2, <1>3, <1>5, <2>1, ReplyFields DEF Moves
<1>6. CASE i \in Present /\ Read(i) = Unreadable
  <2>1. Alone(c) /\ conn'[c] = Sent(l, "handler", 500)
    BY <1>4, <1>6, SetLocals DEF Reply
  <2> QED BY <1>1, <1>2, <1>3, <1>6, <2>1, ReplyFields DEF Moves
<1>7. CASE i \in Present /\ Read(i) # Unreadable
  <2>1. PICK m : m = [l EXCEPT !.got = JobToBatch(i)]
    OBVIOUS
  <2>2. /\ m \in Locals /\ m.rq = l.rq /\ m.got = JobToBatch(i) /\ m.todo = l.todo
        /\ m.more = l.more /\ m.known = l.known
    <3>1. JobToBatch(i) \subseteq IDs \X Statuses
      BY <1>7, JobToBatchTyped
    <3> QED BY <2>1, <3>1 DEF Locals
  <2>3. Alone(c) /\ conn'[c] = Sent(m, "handler", 200)
    BY <1>4, <1>7, <2>1, SetLocals DEF Reply
  <2>4. Moves(c, "leave", 200, JobToBatch(i), l.todo, l.more)
    BY <1>1, <2>2, <2>3, ReplyFields DEF Moves
  <2> QED BY <1>1, <1>2, <1>3, <1>7, <2>3, <2>4
<1> QED BY <1>5, <1>6, <1>7

\* CancelBatch answers here, or goes on with a record that is there.
LEMMA CancelGetEffect ==
  ASSUME DataTyped, NEW c \in Conns, CancelGet(c)
  PROVE  /\ At(c, "cancel", "get") /\ Alone(c)
         /\ UNCHANGED <<cfg, gauge, rec, queue, acked, raced>>
         /\ \/ \E code \in {400, 404} :
                 Moves(c, "leave", code, conn[c].got, conn[c].todo, conn[c].more)
            \/ /\ conn[c].rq.id \in Present /\ Read(conn[c].rq.id) = Unreadable
               /\ Moves(c, "leave", 500, conn[c].got, conn[c].todo, conn[c].more)
            \/ /\ conn[c].rq.id \in Present
               /\ Moves(c, "remove", conn[c].sent, conn[c].got, conn[c].todo, conn[c].more)
<1>1. PICK l \in Locals : l = conn[c]
  BY DEF DataTyped
<1>2. PICK i : i = l.rq.id
  OBVIOUS
<1>3. At(c, "cancel", "get") /\ UNCHANGED <<cfg, gauge, rec, queue, acked, raced>>
  BY DEF CancelGet, procVars, dataVars, histVars
<1>4. Set(c, IF i \notin Present THEN Reply(l, 404)
             ELSE IF Read(i) = Unreadable THEN Reply(l, 500)
             ELSE IF IsFinal(Read(i)) THEN Reply(l, 400)
             ELSE [l EXCEPT !.pc = "remove"])
  BY <1>1, <1>2 DEF CancelGet
<1>5. CASE i \notin Present
  <2>1. Alone(c) /\ conn'[c] = Sent(l, "handler", 404)
    BY <1>4, <1>5, SetLocals DEF Reply
  <2>2. Moves(c, "leave", 404, l.got, l.todo, l.more)
    BY <1>1, <2>1, ReplyFields DEF Moves
  <2> QED BY <1>1, <1>3, <2>1, <2>2
<1>6. CASE i \in Present /\ Read(i) = Unreadable
  <2>1. Alone(c) /\ conn'[c] = Sent(l, "handler", 500)
    BY <1>4, <1>6, SetLocals DEF Reply
  <2> QED BY <1>1, <1>2, <1>3, <1>6, <2>1, ReplyFields DEF Moves
<1>7. CASE i \in Present /\ Read(i) # Unreadable /\ IsFinal(Read(i))
  <2>1. Alone(c) /\ conn'[c] = Sent(l, "handler", 400)
    BY <1>4, <1>7, SetLocals DEF Reply
  <2>2. Moves(c, "leave", 400, l.got, l.todo, l.more)
    BY <1>1, <2>1, ReplyFields DEF Moves
  <2> QED BY <1>1, <1>3, <2>1, <2>2
<1>8. CASE i \in Present /\ Read(i) # Unreadable /\ ~IsFinal(Read(i))
  <2>1. Alone(c) /\ conn'[c] = [l EXCEPT !.pc = "remove"]
    BY <1>4, <1>8, SetLocals
  <2>2. Moves(c, "remove", l.sent, l.got, l.todo, l.more)
    BY <1>1, <2>1 DEF Moves, Locals
  <2> QED BY <1>1, <1>2, <1>3, <1>8, <2>1, <2>2
<1> QED BY <1>5, <1>6, <1>7, <1>8

\* CancelBatch is told "cancelled" exactly if it took the entry out.
LEMMA CancelRemoveEffect ==
  ASSUME DataTyped, NEW c \in Conns, CancelRemove(c), conn[c].rq.id \in IDs
  PROVE  /\ At(c, "cancel", "remove") /\ Alone(c)
         /\ UNCHANGED <<cfg, gauge, rec, acked, raced>>
         /\ queue' = queue \ {conn[c].rq.id}
         /\ \E s \in Decided :
              /\ s = "cancelled" <=> conn[c].rq.id \in queue
              /\ Moves(c, "mark", conn[c].sent, {<<conn[c].rq.id, s>>}, conn[c].todo, conn[c].more)
<1>1. PICK l \in Locals : l = conn[c]
  BY DEF DataTyped
<1>2. PICK i \in IDs : i = l.rq.id
  BY <1>1
<1>3. /\ At(c, "cancel", "remove") /\ UNCHANGED <<cfg, gauge, rec, acked, raced>>
      /\ queue' = queue \ {i}
  BY <1>1, <1>2 DEF CancelRemove, procVars, histVars
<1>4. PICK s \in Decided : s = IF i \in queue THEN "cancelled" ELSE "cancelling"
  BY DEF Decided
<1>5. Set(c, [l EXCEPT !.pc = "mark", !.got = {<<i, s>>}])
  BY <1>1, <1>2, <1>4 DEF CancelRemove
<1>6. PICK x : x = [l EXCEPT !.pc = "mark"]
  OBVIOUS
<1>7. /\ x \in Locals /\ x.rq = l.rq /\ x.pc = "mark" /\ x.sent = l.sent /\ x.seen = l.seen
      /\ x.todo = l.todo /\ x.more = l.more /\ x.known = l.known
  BY <1>6 DEF Locals
<1>8. PICK y : y = [x EXCEPT !.got = {<<i, s>>}]
  OBVIOUS
<1>9. /\ y \in Locals /\ y.rq = x.rq /\ y.pc = x.pc /\ y.sent = x.sent /\ y.seen = x.seen
      /\ y.got = {<<i, s>>} /\ y.todo = x.todo /\ y.more = x.more /\ y.known = x.known
  <2>1. {<<i, s>>} \in SUBSET (IDs \X Statuses)
    BY DEF Decided, Statuses
  <2> QED BY <1>7, <1>8, <2>1 DEF Locals
<1>10. [l EXCEPT !.pc = "mark", !.got = {<<i, s>>}] = y
  BY <1>6, <1>8, Zenon
<1>11. Alone(c) /\ conn'[c] = y
  BY <1>5, <1>10, SetLocals
<1>12. Moves(c, "mark", l.sent, {<<i, s>>}, l.todo, l.more)
  BY <1>1, <1>7, <1>9, <1>11, LocalsFields DEF Moves
<1>13. s = "cancelled" <=> i \in queue
  BY <1>4
<1> QED BY <1>1, <1>2, <1>3, <1>11, <1>12, <1>13

\* One word of the status of record i is written, and nothing else.
Writes(i, ptr, len) ==
  /\ rec'[i] = [ptr |-> ptr, len |-> len, ttl |-> rec[i].ttl, slo |-> rec[i].slo]
  /\ \A k \in IDs : k # i => rec'[k] = rec[k]
  /\ DOMAIN rec' = IDs

\* A write of one word keeps the other one.
LEMMA WordWritten ==
  ASSUME DataTyped, NEW i \in IDs, NEW s, NEW word \in {"ptr", "len"},
         rec' = [rec EXCEPT ![i][word] = s]
  PROVE  /\ word = "ptr" => Writes(i, s, rec[i].len)
         /\ word = "len" => Writes(i, rec[i].ptr, s)
<1>1. rec' = [rec EXCEPT ![i] = [rec[i] EXCEPT ![word] = s]]
  OBVIOUS
<1>2. PICK r \in [ptr : Statuses \cup {"none"}, len : Statuses \cup {"none"}, ttl : Int, slo : Int] :
        r = rec[i]
  BY DEF DataTyped
<1>3. /\ rec'[i] = [r EXCEPT ![word] = s] /\ DOMAIN rec' = IDs
      /\ \A k \in IDs : k # i => rec'[k] = rec[k]
  BY <1>1, <1>2 DEF DataTyped
<1>4. CASE word = "ptr"
  <2>1. [r EXCEPT ![word] = s] = [ptr |-> s, len |-> r.len, ttl |-> r.ttl, slo |-> r.slo]
    <3>1. [r EXCEPT ![word] = s] = [r EXCEPT !.ptr = s]
      BY <1>4, Zenon
    <3> QED BY <3>1
  <2> QED BY <1>2, <1>3, <1>4, <2>1 DEF Writes
<1>5. CASE word = "len"
  <2>1. [r EXCEPT ![word] = s] = [ptr |-> r.ptr, len |-> s, ttl |-> r.ttl, slo |-> r.slo]
    <3>1. [r EXCEPT ![word] = s] = [r EXCEPT !.len = s]
      BY <1>5, Zenon
    <3> QED BY <3>1
  <2> QED BY <1>2, <1>3, <1>5, <2>1 DEF Writes
<1> QED BY <1>4, <1>5

\* NewStatus is the status that the cancel has decided on.
LEMMA NewStatusIs ==
  ASSUME NEW c, NEW i, NEW s, conn[c].got = {<<i, s>>}
  PROVE  NewStatus(c) = s
<1>1. (CHOOSE p \in {<<i, s>>} : TRUE) = <<i, s>>
  OBVIOUS
<1> QED BY <1>1 DEF NewStatus

\* The first word of the status, either one.
LEMMA CancelMarkEffect ==
  ASSUME DataTyped, LocalsKnown, NEW c \in Conns, CancelMark(c), conn[c].rq.id \in IDs
  PROVE  /\ At(c, "cancel", "mark") /\ Alone(c)
         /\ UNCHANGED <<cfg, gauge, queue, acked, raced>>
         /\ \E s \in Decided :
              /\ conn[c].got = {<<conn[c].rq.id, s>>}
              /\ \/ /\ Moves(c, "len", conn[c].sent, conn[c].got, conn[c].todo, conn[c].more)
                    /\ Writes(conn[c].rq.id, s, rec[conn[c].rq.id].len)
                 \/ /\ Moves(c, "ptr", conn[c].sent, conn[c].got, conn[c].todo, conn[c].more)
                    /\ Writes(conn[c].rq.id, rec[conn[c].rq.id].ptr, s)
<1>1. PICK l \in Locals : l = conn[c]
  BY DEF DataTyped
<1>2. PICK i \in IDs : i = l.rq.id
  BY <1>1
<1>3. At(c, "cancel", "mark") /\ UNCHANGED <<cfg, gauge, queue, acked, raced>>
  BY DEF CancelMark, procVars, histVars
<1>4. PICK s \in Decided : l.got = {<<i, s>>}
  BY <1>1, <1>2, <1>3 DEF LocalsKnown, Told, At
<1>5. NewStatus(c) = s
  BY <1>1, <1>4, NewStatusIs
<1>6. PICK word \in {"ptr", "len"} :
        /\ rec' = [rec EXCEPT ![i][word] = s]
        /\ Set(c, [l EXCEPT !.pc = IF word = "ptr" THEN "len" ELSE "ptr"])
  BY <1>1, <1>2, <1>5 DEF CancelMark
<1>7. Alone(c) /\ conn'[c] = [l EXCEPT !.pc = IF word = "ptr" THEN "len" ELSE "ptr"]
  BY <1>6, SetLocals
<1>8. CASE word = "ptr"
  <2>1. conn'[c] = [l EXCEPT !.pc = "len"]
    BY <1>7, <1>8
  <2>2. Moves(c, "len", l.sent, l.got, l.todo, l.more)
    BY <1>1, <2>1 DEF Moves, Locals
  <2>3. Writes(i, s, rec[i].len)
    BY <1>6, <1>8, WordWritten
  <2> QED BY <1>1, <1>2, <1>3, <1>4, <1>7, <2>2, <2>3
<1>9. CASE word = "len"
  <2>1. conn'[c] = [l EXCEPT !.pc = "ptr"]
    BY <1>7, <1>9
  <2>2. Moves(c, "ptr", l.sent, l.got, l.todo, l.more)
    BY <1>1, <2>1 DEF Moves, Locals
  <2>3. Writes(i, rec[i].ptr, s)
    BY <1>6, <1>9, WordWritten
  <2> QED BY <1>1, <1>2, <1>3, <1>4, <1>7, <2>2, <2>3
<1> QED BY <1>8, <1>9

\* The other word of the status, and the answer.
LEMMA CancelUpdateEffect ==
  ASSUME DataTyped, LocalsKnown, NEW c \in Conns, CancelUpdate(c), conn[c].rq.id \in IDs
  PROVE  /\ conn[c].rq.op = "cancel" /\ conn[c].pc \in {"ptr", "len"} /\ Alone(c)
         /\ UNCHANGED <<cfg, gauge, queue, acked, raced>>
         /\ Moves(c, "leave", 200, conn[c].got, conn[c].todo, conn[c].more)
         /\ \E s \in Decided :
              /\ conn[c].got = {<<conn[c].rq.id, s>>}
              /\ IF conn[c].pc = "ptr" THEN Writes(conn[c].rq.id, s, rec[conn[c].rq.id].len)
                                       ELSE Writes(conn[c].rq.id, rec[conn[c].rq.id].ptr, s)
<1>1. PICK l \in Locals : l = conn[c]
  BY DEF DataTyped
<1>2. PICK i \in IDs : i = l.rq.id
  BY <1>1
<1>3. /\ conn[c].rq.op = "cancel" /\ conn[c].pc \in {"ptr", "len"}
      /\ UNCHANGED <<cfg, gauge, queue, acked, raced>>
  BY DEF CancelUpdate, At, procVars, histVars
<1>4. PICK s \in Decided : l.got = {<<i, s>>}
  BY <1>1, <1>2, <1>3 DEF LocalsKnown, Told
<1>5. NewStatus(c) = s
  BY <1>1, <1>4, NewStatusIs
<1>6. PICK word \in {"ptr", "len"} : word = l.pc
  BY <1>1, <1>3
<1>7. rec' = [rec EXCEPT ![i][word] = s] /\ Set(c, Sent(l, "handler", 200))
  BY <1>1, <1>2, <1>5, <1>6 DEF CancelUpdate, Reply
<1>8. Alone(c) /\ Moves(c, "leave", 200, l.got, l.todo, l.more)
  BY <1>1, <1>7, SetLocals, ReplyFields DEF Moves
<1>9. /\ word = "ptr" => Writes(i, s, rec[i].len)
      /\ word = "len" => Writes(i, rec[i].ptr, s)
  BY <1>7, WordWritten
<1> QED BY <1>1, <1>2, <1>3, <1>4, <1>6, <1>8, <1>9

\* The locals of a request before it has read anything.
Blank(q, k, pc, sent, seen) ==
  [rq |-> q, pc |-> pc, sent |-> sent, seen |-> seen, got |-> {}, todo |-> {},
   more |-> FALSE, known |-> k]

\* The locals of a request that has just come in.
LEMMA EnteredLocals ==
  ASSUME NEW q \in Requests, NEW k \in [created : SUBSET IDs, cancelled : SUBSET IDs]
  PROVE  /\ [Idle EXCEPT !.rq = q, !.known = k] \in Locals
         /\ [Idle EXCEPT !.rq = q, !.known = k] = Blank(q, k, "idle", 0, 0)
         /\ Idle \in Locals /\ Nothing \in [created : SUBSET IDs, cancelled : SUBSET IDs]
<1>1. Nothing \in [created : SUBSET IDs, cancelled : SUBSET IDs]
  BY DEF Nothing
<1>2. Idle \in Locals
  BY <1>1 DEF Idle, Locals
<1>3. PICK x : x = [Idle EXCEPT !.rq = q]
  OBVIOUS
<1>4. /\ x \in Locals /\ x.rq = q /\ x.pc = "idle" /\ x.sent = 0 /\ x.seen = 0
      /\ x.got = {} /\ x.todo = {} /\ x.more = FALSE
  <2>1. x = [rq |-> q, pc |-> "idle", sent |-> 0, seen |-> 0, got |-> {}, todo |-> {},
             more |-> FALSE, known |-> Nothing]
    BY <1>3 DEF Idle
  <2> QED BY <1>1, <2>1 DEF Locals
<1>5. PICK y : y = [x EXCEPT !.known = k]
  OBVIOUS
<1>6. /\ y \in Locals /\ y.rq = x.rq /\ y.pc = x.pc /\ y.sent = x.sent /\ y.seen = x.seen
      /\ y.got = x.got /\ y.todo = x.todo /\ y.more = x.more /\ y.known = k
  BY <1>4, <1>5 DEF Locals
<1>7. [Idle EXCEPT !.rq = q, !.known = k] = y
  BY <1>3, <1>5, Zenon
<1> QED BY <1>1, <1>2, <1>4, <1>6, <1>7, LocalsFields DEF Blank

\* The fixed answers, by the layer that gives them.
LEMMA FixedAnswers ==
  ASSUME NEW q, q.op \in DOMAIN FixedAnswer
  PROVE  /\ FixedAnswer[q.op] \in {200, 204, 404, 501}
         /\ IF q.op = "options" THEN AnsweredBy(q) = "security" ELSE AnsweredBy(q) = "handler"
         /\ q.op \in {"options", "health", "metrics", "file", "unrouted"}
BY DEF FixedAnswer, AnsweredBy, Preflight, Health, MetricsPage, NotImplemented, NoRoute

\* The locals of a request that has been routed, decoded and validated.
Entered(m, q, k) ==
  /\ m.rq = q /\ m.known = k /\ m.got = {} /\ m.todo = {}
  /\ m.pc \in {"leave", "panic", "store", "get"}
  /\ q.op \in {"create", "list", "retrieve", "cancel"} => m.sent \in {0, 400}
  /\ Local(m) /\ Told(m) /\ Paged(m)

\* They are in order, if the place and the answer fit the request.
LEMMA EnteredInOrder ==
  ASSUME NEW q \in Requests, NEW k \in [created : SUBSET IDs, cancelled : SUBSET IDs],
         NEW pc \in {"leave", "panic", "store", "get"},
         NEW sent \in {0, 200, 204, 400, 404, 501}, NEW seen \in {0, 200, 204, 400, 404, 501},
         NEW m, m = Blank(q, k, pc, sent, seen),
         pc = "panic" => q.op = "create" /\ q.body.json = "null",
         pc = "store" => q.op = "create" /\ Validate(q.body),
         pc = "get" => \/ q.op \in {"retrieve", "cancel"}
                       \/ q.op = "list" /\ q.page.limit \in 1..100,
         pc = "leave" /\ Counted(q) => seen = sent,
         pc # "leave" => sent = 0,
         q.op \in {"create", "list", "retrieve", "cancel"} => sent \in {0, 400}
  PROVE  Entered(m, q, k)
<1>1. m \in Locals
  BY DEF Blank, Locals
<1>2. /\ m.rq = q /\ m.pc = pc /\ m.sent = sent /\ m.seen = seen /\ m.got = {}
      /\ m.todo = {} /\ m.known = k
  BY DEF Blank
<1>3. sent # 500 /\ pc # "idle"
  OBVIOUS
<1>4. Local(m)
  BY <1>1, <1>2, <1>3 DEF Local
<1>5. Told(m)
  BY <1>2 DEF Told
<1>6. Paged(m)
  BY <1>2 DEF Paged
<1> QED BY <1>2, <1>4, <1>5, <1>6 DEF Entered

\* Whatever the request, the layers leave its goroutine in order.
LEMMA DispatchedLocals ==
  ASSUME NEW q \in Requests, NEW k \in [created : SUBSET IDs, cancelled : SUBSET IDs],
         NEW l \in Locals,
         l = Blank(q, k, "idle", 0, 0)
  PROVE  Entered(Dispatched(l), q, k)
<1>0. PICK m : m = Dispatched(l)
  OBVIOUS
<1>1. /\ l.rq = q /\ l.sent = 0 /\ l.seen = 0 /\ l.got = {} /\ l.todo = {}
      /\ l.more = FALSE /\ l.known = k
  BY DEF Blank
<1>2. ASSUME NEW pc \in {"panic", "store", "get"}, m = [l EXCEPT !.pc = pc],
             pc = "panic" => q.op = "create" /\ q.body.json = "null",
             pc = "store" => q.op = "create" /\ Validate(q.body),
             pc = "get" => \/ q.op \in {"retrieve", "cancel"}
                           \/ q.op = "list" /\ q.page.limit \in 1..100
      PROVE  Entered(m, q, k)
  <2>1. m = Blank(q, k, pc, 0, 0)
    BY <1>1, <1>2, PlaceFields DEF Blank
  <2>2. pc \in {"leave", "panic", "store", "get"} /\ pc # "leave"
    OBVIOUS
  <2>3. PICK zero \in {0, 200, 204, 400, 404, 501} : zero = 0
    OBVIOUS
  <2>4. m = Blank(q, k, pc, zero, zero)
    BY <2>1, <2>3
  <2>5. zero \in {0, 400}
    BY <2>3
  <2>6. /\ pc = "panic" => q.op = "create" /\ q.body.json = "null"
        /\ pc = "store" => q.op = "create" /\ Validate(q.body)
        /\ pc = "get" => \/ q.op \in {"retrieve", "cancel"}
                         \/ q.op = "list" /\ q.page.limit \in 1..100
    BY <1>2
  <2> QED BY <2>2, <2>3, <2>4, <2>5, <2>6, EnteredInOrder
<1>3. ASSUME NEW code \in {200, 204, 400, 404, 501}, m = Sent(l, "handler", code),
             q.op \in {"create", "list", "retrieve", "cancel"} => code = 400
      PROVE  Entered(m, q, k)
  <2>1. m = Blank(q, k, "leave", code, code)
    BY <1>1, <1>3, ReplyFields DEF Blank
  <2>2. PICK pc \in {"leave", "panic", "store", "get"} : pc = "leave"
    OBVIOUS
  <2>3. code \in {0, 200, 204, 400, 404, 501}
    OBVIOUS
  <2> QED BY <1>3, <2>1, <2>2, <2>3, EnteredInOrder
<1>4. q.op \in {"options", "health", "metrics", "file", "unrouted",
                "create", "list", "retrieve", "cancel"}
  BY RequestFields
<1>5. DOMAIN FixedAnswer = {"options", "health", "metrics", "file", "unrouted"}
  BY DEF FixedAnswer
<1>6. CASE q.op \in DOMAIN FixedAnswer
  <2>1. m = Sent(l, AnsweredBy(q), FixedAnswer[q.op])
    <3>1. Dispatched(l) = Sent(l, AnsweredBy(l.rq), FixedAnswer[l.rq.op])
      BY <1>1, <1>5, <1>6, Zenon DEF Dispatched
    <3> QED BY <1>0, <1>1, <3>1
  <2>2. PICK code \in {200, 204, 404, 501} : code = FixedAnswer[q.op]
    BY <1>6, FixedAnswers
  <2>3. CASE q.op = "options"
    <3>1. m = Sent(l, "security", code)
      BY <1>6, <2>1, <2>2, <2>3, FixedAnswers
    <3>2. m = Blank(q, k, "leave", code, 200)
      BY <1>1, <3>1, PreflightFields DEF Blank
    <3>3. ~Counted(q)
      BY <2>3, OptionsUncounted
    <3>4. PICK pc \in {"leave", "panic", "store", "get"} : pc = "leave"
      OBVIOUS
    <3>5. PICK seen \in {0, 200, 204, 400, 404, 501} : seen = 200
      OBVIOUS
    <3>6. code \in {0, 200, 204, 400, 404, 501}
      OBVIOUS
    <3> QED BY <1>0, <2>3, <3>2, <3>3, <3>4, <3>5, <3>6, EnteredInOrder
  <2>4. CASE q.op # "options"
    <3>1. m = Sent(l, "handler", code)
      BY <1>6, <2>1, <2>2, <2>4, FixedAnswers
    <3>2. q.op \notin {"create", "list", "retrieve", "cancel"}
      BY <1>5, <1>6
    <3> QED BY <1>0, <1>3, <3>1, <3>2, EnteredInOrder
  <2> QED BY <2>3, <2>4
<1>7. CASE q.op = "create"
  <2>1. q.body.json \in {"malformed", "null", "object"}
    BY <1>7, RequestFields DEF CreateBodies
  <2>2. m = CASE q.body.json = "malformed" -> Reply(l, 400)
              [] q.body.json = "null" -> [l EXCEPT !.pc = "panic"]
              [] q.body.json = "object" ->
                   IF Validate(q.body) THEN [l EXCEPT !.pc = "store"] ELSE Reply(l, 400)
    BY <1>0, <1>1, <1>5, <1>7 DEF Dispatched
  <2>3. CASE \/ q.body.json = "malformed"
             \/ q.body.json = "object" /\ ~Validate(q.body)
    <3>1. m = Sent(l, "handler", 400)
      BY <2>2, <2>3 DEF Reply
    <3> QED BY <1>0, <1>3, <1>7, <3>1, EnteredInOrder
  <2>4. CASE q.body.json = "null"
    <3>1. m = [l EXCEPT !.pc = "panic"]
      BY <2>2, <2>4
    <3> QED BY <1>0, <1>2, <1>7, <2>4, <3>1, EnteredInOrder
  <2>5. CASE q.body.json = "object" /\ Validate(q.body)
    <3>1. m = [l EXCEPT !.pc = "store"]
      BY <2>2, <2>5
    <3> QED BY <1>0, <1>2, <1>7, <2>5, <3>1, EnteredInOrder
  <2> QED BY <2>1, <2>3, <2>4, <2>5
<1>8. CASE q.op = "list"
  <2>1. m = IF PageValid(q.page) THEN [l EXCEPT !.pc = "get"] ELSE Reply(l, 400)
    BY <1>0, <1>1, <1>5, <1>8 DEF Dispatched
  <2>2. CASE PageValid(q.page)
    <3>1. m = [l EXCEPT !.pc = "get"] /\ q.page.limit \in 1..100
      BY <2>1, <2>2 DEF PageValid
    <3> QED BY <1>0, <1>2, <1>8, <3>1, EnteredInOrder
  <2>3. CASE ~PageValid(q.page)
    <3>1. m = Sent(l, "handler", 400)
      BY <2>1, <2>3 DEF Reply
    <3> QED BY <1>0, <1>3, <1>8, <3>1, EnteredInOrder
  <2> QED BY <2>2, <2>3
<1>9. CASE q.op \in {"retrieve", "cancel"}
  <2>1. m = [l EXCEPT !.pc = "get"]
    BY <1>0, <1>1, <1>5, <1>9 DEF Dispatched
  <2> QED BY <1>0, <1>2, <1>9, <2>1, EnteredInOrder
<1> QED BY <1>4, <1>5, <1>6, <1>7, <1>8, <1>9

\* A new request has read nothing of the stores yet.
LEMMA ArriveEffect ==
  ASSUME DataTyped, NEW c \in Conns, NEW q \in Asks[c], Arrive(c, q)
  PROVE  /\ q \in Requests /\ conn[c] = Idle /\ Alone(c)
         /\ UNCHANGED <<cfg, rec, queue, acked>>
         /\ conn'[c].rq = q /\ conn'[c].got = {} /\ conn'[c].todo = {}
         /\ conn'[c].pc \in {"leave", "panic", "store", "get"}
         /\ conn'[c].known.created \subseteq acked.created
         /\ conn'[c].known.cancelled \subseteq acked.cancelled
         /\ q.op \in {"create", "list", "retrieve", "cancel"} => conn'[c].sent \in {0, 400}
         /\ Local(conn'[c]) /\ Told(conn'[c]) /\ Paged(conn'[c])
<1>1. q \in Requests
  BY ServingAssumption
<1>2. PICK k : k = IF q.op \in {"list", "retrieve"} THEN acked ELSE Nothing
  OBVIOUS
<1>3. /\ k \in [created : SUBSET IDs, cancelled : SUBSET IDs]
      /\ k.created \subseteq acked.created /\ k.cancelled \subseteq acked.cancelled
  BY <1>2 DEF Nothing, DataTyped
<1>4. PICK l \in Locals : /\ l = [Idle EXCEPT !.rq = q, !.known = k]
                         /\ l = Blank(q, k, "idle", 0, 0)
  BY <1>1, <1>3, EnteredLocals
<1>5. Set(c, Dispatched(l))
  BY <1>2, <1>4 DEF Arrive
<1>6. Alone(c) /\ conn'[c] = Dispatched(l)
  BY <1>5, SetLocals
<1>7. conn[c] = Idle /\ UNCHANGED <<cfg, rec, queue, acked>>
  BY DEF Arrive, procVars, dataVars
<1>8. Entered(conn'[c], q, k)
  <2>1. k \in [created : SUBSET IDs, cancelled : SUBSET IDs]
    BY <1>3
  <2>2. l = Blank(q, k, "idle", 0, 0)
    BY <1>4
  <2>3. Entered(Dispatched(l), q, k)
    BY <1>1, <2>1, <2>2, DispatchedLocals
  <2> QED BY <1>6, <2>3
<1> QED BY <1>1, <1>3, <1>6, <1>7, <1>8 DEF Entered

-----------------------------------------------------------------------------
(*                       What every step leaves alone                      *)

\* The locals of a goroutine after a move, field by field.
LEMMA MovedFields ==
  ASSUME NEW c, NEW pc, NEW sent, NEW got, NEW todo, NEW more,
         Moves(c, pc, sent, got, todo, more)
  PROVE  /\ conn'[c].rq = conn[c].rq /\ conn'[c].pc = pc /\ conn'[c].sent = sent
         /\ conn'[c].seen = IF pc = "leave" THEN sent ELSE conn[c].seen
         /\ conn'[c].got = got /\ conn'[c].todo = todo /\ conn'[c].more = more
         /\ conn'[c].known = conn[c].known
BY DEF Moves

\* The request of a goroutine, once it has one.
LEMMA BusyRequest ==
  ASSUME LocalsKnown, NEW c \in Conns, conn[c].pc # "idle"
  PROVE  /\ conn[c].rq \in Requests
         /\ conn[c].rq.op = "create" => conn[c].rq.body \in CreateBodies
         /\ conn[c].rq.op \in {"create", "retrieve", "cancel"} => conn[c].rq.id \in IDs
<1>1. conn[c].rq \in Requests
  BY DEF LocalsKnown, Local
<1> QED BY <1>1, RequestFields

\* A step of c, if not its last one.
Passes(c) ==
  /\ Alone(c)
  /\ conn[c].pc # "idle" /\ conn'[c].pc # "idle"
  /\ conn'[c].rq = conn[c].rq /\ conn'[c].known = conn[c].known
  /\ UNCHANGED <<cfg, gauge, acked, raced>>

\* A step inside a handler ends no request and keeps what it knows.
LEMMA PassingBusy ==
  ASSUME NEW c \in Conns, Passes(c)
  PROVE  /\ Busy' = Busy /\ c \in Busy
         /\ \A d \in Conns : conn'[d].rq = conn[d].rq /\ conn'[d].known = conn[d].known
BY DEF Passes, Alone, Busy

\* One that reads the records, or answers for a panic.
Reads(c) ==
  /\ Passes(c) /\ rec' = rec /\ queue' = queue
  /\ conn'[c].todo \subseteq Present
  /\ conn[c].rq.op # "cancel"
  /\ conn[c].rq.op = "create" => conn'[c].pc = "leave" /\ conn'[c].sent = 500
  /\ Recover(c) \/ ListGet(c) \/ ListConvert(c) \/ Retrieve(c)

\* Recovering, listing and retrieving write nothing shared.
LEMMA Readers ==
  ASSUME DataTyped, LocalsKnown, Found, NEW c \in Conns,
         Recover(c) \/ ListGet(c) \/ ListConvert(c) \/ Retrieve(c)
  PROVE  Reads(c)
<1>1. CASE Recover(c)
  <2>1. conn[c].todo \subseteq Present
    BY <1>1 DEF Recover, Found, Finds, Busy
  <2> QED BY <1>1, <2>1, RecoverEffect, MovedFields DEF Reads, Passes, LocalsKnown, Local
<1>2. CASE ListGet(c)
  <2>1. PICK jobs \in SUBSET Present, page \in SUBSET Present :
          Moves(c, IF page = {} THEN "leave" ELSE "convert",
                IF page = {} THEN 200 ELSE conn[c].sent, conn[c].got, page,
                Cardinality(jobs) > conn[c].rq.page.limit)
    BY <1>2, ListGetEffect
  <2>2. PICK pc, sent, more : Moves(c, pc, sent, conn[c].got, page, more) /\ pc # "idle"
    <3>1. PICK pc : pc = (IF page = {} THEN "leave" ELSE "convert") /\ pc # "idle"
      OBVIOUS
    <3> QED BY <2>1, <3>1
  <2> QED BY <1>2, <2>2, ListGetEffect, MovedFields DEF Reads, Passes, At
<1>3. CASE ListConvert(c)
  <2>1. PICK i \in conn[c].todo :
          LET rest == conn[c].todo \ {i} IN
          Moves(c, IF rest = {} THEN "leave" ELSE "convert",
                IF rest = {} THEN 200 ELSE conn[c].sent,
                conn[c].got \cup JobToBatch(i), rest, conn[c].more)
    BY <1>3, ListConvertEffect
  <2>2. PICK pc, sent, got, rest : /\ Moves(c, pc, sent, got, rest, conn[c].more)
                                   /\ pc # "idle" /\ rest = conn[c].todo \ {i}
    <3>1. PICK pc : pc = (IF conn[c].todo \ {i} = {} THEN "leave" ELSE "convert") /\ pc # "idle"
      OBVIOUS
    <3> QED BY <2>1, <3>1
  <2>3. rest \subseteq Present
    BY <1>3, <2>2 DEF ListConvert, At, Found, Finds, Busy
  <2> QED BY <1>3, <2>2, <2>3, ListConvertEffect, MovedFields DEF Reads, Passes, At
<1>4. CASE Retrieve(c)
  <2>1. conn[c].rq.id \in IDs
    BY <1>4, BusyRequest DEF Retrieve, At
  <2>2. conn[c].todo \subseteq Present
    BY <1>4 DEF Retrieve, At, Found, Finds, Busy
  <2> QED BY <1>4, <2>1, <2>2, RetrieveEffect, MovedFields DEF Reads, Passes, At
<1> QED BY <1>1, <1>2, <1>3, <1>4

\* Every step of a request but the last stays inside its handler.
LEMMA Passing ==
  ASSUME DataTyped, LocalsKnown, Found, NEW c \in Conns, Step(c)
  PROVE  Leave(c) \/ Passes(c)
<1>1. CASE Recover(c) \/ ListGet(c) \/ ListConvert(c) \/ Retrieve(c)
  BY <1>1, Readers DEF Reads
<1>2. CASE Store(c)
  <2>1. /\ At(c, "create", "store") /\ Alone(c) /\ UNCHANGED <<cfg, gauge, acked, raced>>
        /\ Moves(c, "enqueue", conn[c].sent, conn[c].got, conn[c].todo, conn[c].more)
    BY <1>2, StoreEffect
  <2> QED BY <2>1, MovedFields DEF Passes, At
<1>3. CASE Enqueue(c)
  BY <1>3, EnqueueEffect, MovedFields DEF Passes, At
<1>4. CASE CancelGet(c)
  <2>1. PICK pc, sent : /\ Moves(c, pc, sent, conn[c].got, conn[c].todo, conn[c].more)
                        /\ pc # "idle"
    BY <1>4, CancelGetEffect
  <2> QED BY <1>4, <2>1, CancelGetEffect, MovedFields DEF Passes, At
<1>5. CASE CancelRemove(c)
  <2>1. conn[c].rq.id \in IDs
    BY <1>5, BusyRequest DEF CancelRemove, At
  <2>2. PICK got : Moves(c, "mark", conn[c].sent, got, conn[c].todo, conn[c].more)
    BY <1>5, <2>1, CancelRemoveEffect
  <2> QED BY <1>5, <2>1, <2>2, CancelRemoveEffect, MovedFields DEF Passes, At
<1>6. CASE CancelMark(c)
  <2>1. conn[c].rq.id \in IDs
    BY <1>6, BusyRequest DEF CancelMark, At
  <2> QED BY <1>6, <2>1, CancelMarkEffect, MovedFields DEF Passes, At
<1>7. CASE CancelUpdate(c)
  <2>1. conn[c].rq.id \in IDs
    BY <1>7, BusyRequest DEF CancelUpdate, At
  <2> QED BY <1>7, <2>1, CancelUpdateEffect, MovedFields DEF Passes, At
<1> QED BY <1>1, <1>2, <1>3, <1>4, <1>5, <1>6, <1>7 DEF Step

-----------------------------------------------------------------------------
(*              What a goroutine knows by the place it is at               *)

\* A place, an answer and what is collected that fit the request.
Fits(q, pc, sent, got, todo) ==
  /\ pc = "enqueue" => q.op = "create" /\ Validate(q.body)
  /\ pc = "convert" => q.op = "list"
  /\ pc \in {"remove", "mark", "ptr", "len"} => q.op = "cancel"
  /\ pc # "leave" => sent = 0
  /\ sent = 500 => \/ q.op = "create" /\ q.body.json = "null"
                   \/ q.op \in {"retrieve", "cancel"}
  /\ q.op = "cancel" =>
       IF pc \in {"mark", "ptr", "len"} \/ sent = 200
         THEN \E s \in Decided : got = {<<q.id, s>>}
         ELSE got = {}
  /\ q.op = "list" =>
       /\ pc # "leave" \/ sent = 200 => q.page.limit \in 1..100
       /\ pc = "leave" => todo = {}

\* A move to a place that fits the request keeps the locals in order.
LEMMA MovedInOrder ==
  ASSUME DataTyped, LocalsKnown, NEW c \in Conns, conn[c].pc # "idle",
         NEW pc \in {"leave", "enqueue", "convert", "remove", "mark", "ptr", "len"},
         NEW sent \in {0, 200, 204, 400, 404, 500, 501},
         NEW got \in SUBSET (IDs \X Statuses), NEW todo \in SUBSET IDs, NEW more, more \in BOOLEAN,
         Moves(c, pc, sent, got, todo, more),
         Fits(conn[c].rq, pc, sent, got, todo)
  PROVE  Local(conn'[c]) /\ Told(conn'[c]) /\ Paged(conn'[c])
<1>1. PICK l \in Locals : l = conn[c]
  BY DEF DataTyped
<1>2. PICK m : m = conn'[c]
  OBVIOUS
<1>3. m = [rq |-> l.rq, pc |-> pc, sent |-> sent, seen |-> IF pc = "leave" THEN sent ELSE l.seen,
           got |-> got, todo |-> todo, more |-> more, known |-> l.known]
  BY <1>1, <1>2 DEF Moves
<1>4. m \in Locals
  BY <1>3 DEF Locals
<1>5. /\ m.rq = l.rq /\ m.pc = pc /\ m.sent = sent /\ m.got = got /\ m.todo = todo
      /\ pc = "leave" => m.seen = sent
  BY <1>3
<1>6. l.rq \in Requests /\ pc # "idle"
  BY <1>1, BusyRequest
<1>7. Local(m)
  BY <1>1, <1>4, <1>5, <1>6 DEF Local, Fits
<1>8. Told(m)
  BY <1>1, <1>5 DEF Told, Fits
<1>9. Paged(m)
  BY <1>1, <1>5 DEF Paged, Fits
<1> QED BY <1>2, <1>7, <1>8, <1>9

\* Every step of a request keeps its own locals in order.
LEMMA StepInOrder ==
  ASSUME DataTyped, LocalsKnown, Found, NEW c \in Conns, Step(c)
  PROVE  Local(conn'[c]) /\ Told(conn'[c]) /\ Paged(conn'[c])
<1> DEFINE Goal == Local(conn'[c]) /\ Told(conn'[c]) /\ Paged(conn'[c])
<1> SUFFICES Goal
  OBVIOUS
<1>1. PICK l \in Locals : l = conn[c]
  BY DEF DataTyped
<1>2. PICK q : q = l.rq
  OBVIOUS
<1>3. /\ l.got \in SUBSET (IDs \X Statuses) /\ l.todo \in SUBSET IDs /\ l.more \in BOOLEAN
      /\ Local(l) /\ Told(l) /\ Paged(l)
  BY <1>1 DEF Locals, LocalsKnown
<1> HIDE DEF Goal
<1>4. ASSUME NEW pc \in {"leave", "enqueue", "convert", "remove", "mark", "ptr", "len"},
             NEW sent \in {0, 200, 204, 400, 404, 500, 501},
             NEW got \in SUBSET (IDs \X Statuses), NEW todo \in SUBSET IDs,
             NEW more, more \in BOOLEAN, l.pc # "idle",
             Moves(c, pc, sent, got, todo, more), Fits(q, pc, sent, got, todo)
      PROVE  Goal
  BY <1>1, <1>2, <1>4, MovedInOrder DEF Goal
<1>5. CASE Recover(c)
  <2>1. Moves(c, "leave", 500, l.got, l.todo, l.more) /\ l.pc = "panic"
    BY <1>1, <1>5, RecoverEffect
  <2>2. Fits(q, "leave", 500, l.got, l.todo)
    BY <1>2, <1>3, <2>1 DEF Fits, Local
  <2> QED BY <1>3, <1>4, <2>1, <2>2
<1>6. CASE Leave(c)
  <2>1. conn'[c] = Idle /\ Idle.pc = "idle" /\ Idle \in Locals
    <3>1. Idle.pc = "idle" /\ Idle \in Locals
      BY DEF Idle, Locals, Nothing
    <3> QED BY <1>6, <3>1, LeaveEffect
  <2> QED BY <2>1 DEF Goal, Local, Told, Paged
<1>7. CASE Store(c)
  <2>1. /\ Moves(c, "enqueue", l.sent, l.got, l.todo, l.more)
        /\ l.pc = "store" /\ q.op = "create"
    BY <1>1, <1>2, <1>7, StoreEffect DEF At
  <2>2. Fits(q, "enqueue", l.sent, l.got, l.todo) /\ l.sent = 0
    BY <1>2, <1>3, <2>1 DEF Fits, Local
  <2> QED BY <1>3, <1>4, <2>1, <2>2
<1>8. CASE Enqueue(c)
  <2>1. /\ Moves(c, "leave", 200, l.got, l.todo, l.more)
        /\ l.pc = "enqueue" /\ q.op = "create"
    BY <1>1, <1>2, <1>8, EnqueueEffect DEF At
  <2>2. Fits(q, "leave", 200, l.got, l.todo)
    BY <2>1 DEF Fits
  <2> QED BY <1>3, <1>4, <2>1, <2>2
<1>9. CASE ListGet(c)
  <2>1. PICK page \in SUBSET Present, more \in BOOLEAN :
          Moves(c, IF page = {} THEN "leave" ELSE "convert",
                IF page = {} THEN 200 ELSE l.sent, l.got, page, more)
    <3>1. PICK jobs \in SUBSET Present, page \in SUBSET Present :
            Moves(c, IF page = {} THEN "leave" ELSE "convert",
                  IF page = {} THEN 200 ELSE conn[c].sent, conn[c].got, page,
                  Cardinality(jobs) > conn[c].rq.page.limit)
      BY <1>9, ListGetEffect
    <3>2. PICK more : more \in BOOLEAN /\ more = (Cardinality(jobs) > conn[c].rq.page.limit)
      <4>1. (Cardinality(jobs) > conn[c].rq.page.limit) \in BOOLEAN
        OBVIOUS
      <4> QED BY <4>1, Zenon
    <3>3. Moves(c, IF page = {} THEN "leave" ELSE "convert",
                IF page = {} THEN 200 ELSE conn[c].sent, conn[c].got, page, more)
      BY <3>1, <3>2, Zenon
    <3> QED BY <1>1, <3>2, <3>3, Zenon
  <2>2. l.pc = "get" /\ q.op = "list" /\ l.sent = 0 /\ page \in SUBSET IDs
        /\ q.page.limit \in 1..100
    BY <1>1, <1>2, <1>3, <1>9, ListGetEffect DEF At, Local, Paged, Present
  <2>3. PICK pc, sent : /\ pc = (IF page = {} THEN "leave" ELSE "convert")
                        /\ sent = (IF page = {} THEN 200 ELSE l.sent)
    OBVIOUS
  <2>4. /\ pc \in {"leave", "convert"} /\ sent \in {0, 200}
        /\ Fits(q, pc, sent, l.got, page)
    BY <2>2, <2>3 DEF Fits
  <2>5. Moves(c, pc, sent, l.got, page, more)
    BY <2>1, <2>3
  <2> QED BY <1>3, <1>4, <2>2, <2>4, <2>5
<1>10. CASE ListConvert(c)
  <2>1. PICK i \in l.todo :
          /\ JobToBatch(i) \subseteq IDs \X Statuses
          /\ LET rest == l.todo \ {i} IN
             Moves(c, IF rest = {} THEN "leave" ELSE "convert",
                   IF rest = {} THEN 200 ELSE l.sent,
                   l.got \cup JobToBatch(i), rest, l.more)
    BY <1>1, <1>10, ListConvertEffect
  <2>2. l.pc = "convert" /\ q.op = "list" /\ l.sent = 0 /\ q.page.limit \in 1..100
    BY <1>1, <1>2, <1>3, <1>10, ListConvertEffect DEF At, Local, Paged
  <2>3. PICK rest \in SUBSET IDs, got \in SUBSET (IDs \X Statuses) :
          rest = l.todo \ {i} /\ got = l.got \cup JobToBatch(i)
    BY <1>3, <2>1
  <2>4. PICK pc, sent : /\ pc = (IF rest = {} THEN "leave" ELSE "convert")
                        /\ sent = (IF rest = {} THEN 200 ELSE l.sent)
    OBVIOUS
  <2>5. /\ pc \in {"leave", "convert"} /\ sent \in {0, 200}
        /\ Fits(q, pc, sent, got, rest)
    BY <2>2, <2>4 DEF Fits
  <2>6. Moves(c, pc, sent, got, rest, l.more)
    BY <2>1, <2>3, <2>4
  <2> QED BY <1>3, <1>4, <2>2, <2>5, <2>6
<1>11. CASE Retrieve(c)
  <2>1. l.pc = "get" /\ q.op = "retrieve" /\ q.id \in IDs
    BY <1>1, <1>2, <1>11, BusyRequest DEF Retrieve, At
  <2>2. PICK sent \in {200, 404, 500}, got \in SUBSET (IDs \X Statuses) :
          Moves(c, "leave", sent, got, l.todo, l.more)
    BY <1>1, <1>2, <1>3, <1>11, <2>1, RetrieveEffect, JobToBatchTyped
  <2>3. Fits(q, "leave", sent, got, l.todo)
    BY <2>1 DEF Fits
  <2> QED BY <1>3, <1>4, <2>1, <2>2, <2>3
<1>12. CASE CancelGet(c)
  <2>1. l.pc = "get" /\ q.op = "cancel" /\ l.sent = 0 /\ l.got = {}
    BY <1>1, <1>2, <1>3, <1>12 DEF CancelGet, At, Local, Told
  <2>2. PICK pc \in {"leave", "remove"}, sent \in {0, 400, 404, 500} :
          /\ Moves(c, pc, sent, l.got, l.todo, l.more)
          /\ pc = "remove" => sent = 0
    <3>1. \/ \E code \in {400, 404} : Moves(c, "leave", code, l.got, l.todo, l.more)
          \/ Moves(c, "leave", 500, l.got, l.todo, l.more)
          \/ Moves(c, "remove", l.sent, l.got, l.todo, l.more)
      <4>1. \/ \E code \in {400, 404} :
                 Moves(c, "leave", code, conn[c].got, conn[c].todo, conn[c].more)
            \/ Moves(c, "leave", 500, conn[c].got, conn[c].todo, conn[c].more)
            \/ Moves(c, "remove", conn[c].sent, conn[c].got, conn[c].todo, conn[c].more)
        BY <1>12, CancelGetEffect
      <4> QED BY <1>1, <4>1
    <3>2. CASE \E code \in {400, 404} : Moves(c, "leave", code, l.got, l.todo, l.more)
      BY <3>2
    <3>3. CASE Moves(c, "leave", 500, l.got, l.todo, l.more)
      BY <3>3
    <3>4. CASE Moves(c, "remove", l.sent, l.got, l.todo, l.more)
      BY <2>1, <3>4
    <3> QED BY <3>1, <3>2, <3>3, <3>4
  <2>3. Fits(q, pc, sent, l.got, l.todo)
    BY <2>1, <2>2 DEF Fits
  <2> QED BY <1>3, <1>4, <2>1, <2>2, <2>3
<1>13. CASE CancelRemove(c)
  <2>1. l.pc = "remove" /\ q.op = "cancel" /\ l.sent = 0 /\ q.id \in IDs
    BY <1>1, <1>2, <1>3, <1>13, BusyRequest DEF CancelRemove, At, Local
  <2>2. PICK s \in Decided : Moves(c, "mark", l.sent, {<<q.id, s>>}, l.todo, l.more)
    BY <1>1, <1>2, <1>13, <2>1, CancelRemoveEffect
  <2>3. PICK got : got = {<<q.id, s>>}
    OBVIOUS
  <2>4. Fits(q, "mark", l.sent, got, l.todo) /\ got \in SUBSET (IDs \X Statuses)
    BY <2>1, <2>3 DEF Fits, Decided, Statuses
  <2> QED BY <1>3, <1>4, <2>1, <2>2, <2>3, <2>4
<1>14. CASE CancelMark(c)
  <2>1. l.pc = "mark" /\ q.op = "cancel" /\ l.sent = 0 /\ q.id \in IDs
    BY <1>1, <1>2, <1>3, <1>14, BusyRequest DEF CancelMark, At, Local
  <2>2. PICK pc \in {"ptr", "len"} : Moves(c, pc, l.sent, l.got, l.todo, l.more)
    BY <1>1, <1>2, <1>14, <2>1, CancelMarkEffect
  <2>3. Fits(q, pc, l.sent, l.got, l.todo)
    BY <1>2, <1>3, <2>1 DEF Fits, Told
  <2> QED BY <1>3, <1>4, <2>1, <2>2, <2>3
<1>15. CASE CancelUpdate(c)
  <2>1. l.pc \in {"ptr", "len"} /\ q.op = "cancel" /\ q.id \in IDs
    BY <1>1, <1>2, <1>3, <1>15, BusyRequest DEF CancelUpdate, At
  <2>2. Moves(c, "leave", 200, l.got, l.todo, l.more)
    BY <1>1, <1>2, <1>15, <2>1, CancelUpdateEffect
  <2>3. Fits(q, "leave", 200, l.got, l.todo)
    BY <1>2, <1>3, <2>1 DEF Fits, Told
  <2> QED BY <1>3, <1>4, <2>1, <2>2, <2>3
<1> QED BY <1>5, <1>6, <1>7, <1>8, <1>9, <1>10, <1>11, <1>12, <1>13, <1>14, <1>15
        DEF Step

-----------------------------------------------------------------------------
(*                        Who is busy after a step                         *)

\* After the end of the process nothing is left in its memory.
LEMMA ResetBusy ==
  ASSUME Reset
  PROVE  Busy' = {} /\ Present' = {} /\ queue' = {} /\ raced' = {} /\ gauge' = 0
         /\ acked'.created = {} /\ acked'.cancelled = {}
         /\ \A c \in Conns : conn'[c] = Idle
         /\ \A i \in IDs : rec'[i] = NoRecord
BY DEF Reset, Busy, Present, Idle, Nothing

\* An arrival makes one more request busy and disturbs no other.
LEMMA ArriveBusy ==
  ASSUME DataTyped, NEW c \in Conns, NEW q \in Asks[c], Arrive(c, q)
  PROVE  /\ Busy' = Busy \cup {c} /\ c \notin Busy /\ Present' = Present
         /\ \A d \in Busy : conn'[d] = conn[d]
         /\ raced \subseteq raced'
<1>1. /\ conn[c] = Idle /\ Alone(c) /\ rec' = rec
      /\ conn'[c].pc \in {"leave", "panic", "store", "get"}
  BY ArriveEffect
<1>2. conn[c].pc = "idle"
  BY <1>1 DEF Idle
<1>3. raced \subseteq raced'
  BY DEF Arrive
<1> QED BY <1>1, <1>2, <1>3 DEF Alone, Busy, Present

\* The way out makes one request less busy and disturbs no other.
LEMMA LeaveBusy ==
  ASSUME DataTyped, NEW c \in Conns, Leave(c)
  PROVE  /\ Busy' = Busy \ {c} /\ c \in Busy /\ Present' = Present
         /\ \A d \in Busy' : conn'[d] = conn[d]
<1>1. conn'[c].pc = "idle"
  BY LeaveEffect DEF Idle
<1> QED BY <1>1, LeaveEffect DEF Alone, Busy, Present

-----------------------------------------------------------------------------
(*                     One lemma per invariant                             *)

\* The locals of a connection without a request are in order.
LEMMA IdleInOrder ==
  Idle \in Locals /\ Local(Idle) /\ Told(Idle) /\ Paged(Idle)
<1>1. Idle.pc = "idle" /\ Idle \in Locals
  BY DEF Idle, Locals, Nothing
<1> QED BY <1>1 DEF Local, Told, Paged

\* LocalsKnown is inductive.
LEMMA LocalsStep ==
  ASSUME DataTyped, LocalsKnown, Found, [Next]_vars
  PROVE  LocalsKnown' /\ conn' \in [Conns -> Locals]
<1> DEFINE Fine(l) == Local(l) /\ Told(l) /\ Paged(l)
<1>1. ASSUME \A c \in Conns : Fine(conn'[c]), conn' = [c \in Conns |-> conn'[c]]
      PROVE  LocalsKnown' /\ conn' \in [Conns -> Locals]
  <2>1. \A c \in Conns : conn'[c] \in Locals
    BY <1>1 DEF Local
  <2> QED BY <1>1, <2>1 DEF LocalsKnown
<1>2. \A c \in Conns : Fine(conn[c])
  BY DEF LocalsKnown
<1> HIDE DEF Fine
<1>3. ASSUME NEW c \in Conns, Alone(c), Fine(conn'[c])
      PROVE  LocalsKnown' /\ conn' \in [Conns -> Locals]
  BY <1>1, <1>2, <1>3 DEF Alone
<1>4. CASE Quiet
  BY <1>1, <1>2, <1>4 DEF Quiet, serveVars, DataTyped
<1>5. CASE Reset
  BY <1>1, <1>5, IdleInOrder DEF Reset, Fine
<1>6. ASSUME NEW c \in Conns, NEW q \in Asks[c], Arrive(c, q)
      PROVE  LocalsKnown' /\ conn' \in [Conns -> Locals]
  BY <1>3, <1>6, ArriveEffect DEF Fine
<1>7. ASSUME NEW c \in Conns, Step(c)
      PROVE  LocalsKnown' /\ conn' \in [Conns -> Locals]
  <2>1. Alone(c)
    BY <1>7, Passing, LeaveEffect DEF Passes
  <2> QED BY <1>3, <1>7, <2>1, StepInOrder DEF Fine
<1> QED BY <1>4, <1>5, <1>6, <1>7, Kinds

\* What is computed for a record is a number.
LEMMA StoredNumbers ==
  ASSUME NEW b \in CreateBodies, NEW default \in Int
  PROVE  TTL(b, default) \in Int /\ SLO(b) \in Int
<1>1. PICK ms \in Int : ms = b.window.ms
  BY DEF CreateBodies, Windows
<1>2. b.expiry.seconds \in Int
  BY DEF CreateBodies, Expiries
<1>3. WholeSeconds(ms) \in Int
  BY DEF WholeSeconds
<1> QED BY <1>1, <1>2, <1>3 DEF TTL, SLO

\* A cancel with the status s of batch i writes a word of it; ptr and len
\* are the words there are then.
Marks(c, i, s, ptr, len) ==
  /\ Passes(c) /\ conn[c].rq.op = "cancel" /\ conn[c].rq.id = i
  /\ conn[c].got = {<<i, s>>} /\ conn'[c].got = {<<i, s>>}
  /\ conn'[c].todo = conn[c].todo
  /\ rec'[i] = [ptr |-> ptr, len |-> len, ttl |-> rec[i].ttl, slo |-> rec[i].slo]
  /\ \A k \in IDs : k # i => rec'[k] = rec[k]
  /\ queue' = queue /\ Present' = Present
  /\ \/ /\ conn[c].pc = "mark" /\ conn'[c].pc = "len" /\ conn'[c].sent = 0
        /\ ptr = s /\ len = rec[i].len
     \/ /\ conn[c].pc = "mark" /\ conn'[c].pc = "ptr" /\ conn'[c].sent = 0
        /\ ptr = rec[i].ptr /\ len = s
     \/ /\ conn[c].pc = "ptr" /\ conn'[c].pc = "leave" /\ conn'[c].sent = 200
        /\ ptr = s /\ len = rec[i].len
     \/ /\ conn[c].pc = "len" /\ conn'[c].pc = "leave" /\ conn'[c].sent = 200
        /\ ptr = rec[i].ptr /\ len = s

\* A write of a status neither adds nor removes a record.
LEMMA WrittenStays ==
  ASSUME DataTyped, NEW i \in Present, NEW ptr \in Statuses, NEW len, Writes(i, ptr, len)
  PROVE  Present' = Present
<1>1. rec'[i].ptr = ptr /\ NoRecord.ptr = "none" /\ ptr # "none"
  BY DEF Writes, NoRecord, Statuses
<1>2. rec'[i] # NoRecord
  BY <1>1
<1> QED BY <1>2 DEF Writes, Present

\* Both writes of a cancel are marks of a record that is there.
LEMMA Cancels ==
  ASSUME DataTyped, LocalsKnown, Found, NEW c \in Conns, CancelMark(c) \/ CancelUpdate(c)
  PROVE  \E i \in Present, s \in Decided, ptr \in Statuses, len \in Statuses :
           Marks(c, i, s, ptr, len)
<1>1. /\ conn[c].rq.op = "cancel" /\ conn[c].pc \in {"mark", "ptr", "len"}
  BY DEF CancelMark, CancelUpdate, At
<1>2. conn[c].rq.id \in IDs /\ conn[c].rq.id \in Present /\ c \in Busy
  BY <1>1, BusyRequest DEF Found, Finds, Busy
<1>3. PICK i \in Present : i = conn[c].rq.id
  BY <1>2
<1>4. rec[i].ptr \in Statuses /\ rec[i].len \in Statuses /\ Decided \subseteq Statuses
  BY DEF Found, Decided, Statuses
<1>5. Passes(c) /\ conn[c].sent = 0
  <2>1. ~Leave(c) /\ Step(c)
    BY <1>1 DEF Step, Leave
  <2> QED BY <1>1, <2>1, Passing DEF LocalsKnown, Local
<1>6. CASE CancelMark(c)
  <2>1. PICK s \in Decided :
          /\ conn[c].got = {<<i, s>>}
          /\ \/ /\ Moves(c, "len", conn[c].sent, conn[c].got, conn[c].todo, conn[c].more)
                /\ Writes(i, s, rec[i].len)
             \/ /\ Moves(c, "ptr", conn[c].sent, conn[c].got, conn[c].todo, conn[c].more)
                /\ Writes(i, rec[i].ptr, s)
    BY <1>2, <1>3, <1>6, CancelMarkEffect
  <2>2. conn[c].pc = "mark" /\ queue' = queue
    BY <1>2, <1>6, CancelMarkEffect DEF At
  <2>3. CASE /\ Moves(c, "len", conn[c].sent, conn[c].got, conn[c].todo, conn[c].more)
             /\ Writes(i, s, rec[i].len)
    <3>1. Present' = Present
      BY <1>4, <2>3, WrittenStays
    <3>2. /\ conn'[c].pc = "len" /\ conn'[c].sent = 0 /\ conn'[c].got = conn[c].got
          /\ conn'[c].todo = conn[c].todo
      BY <1>5, <2>3, MovedFields
    <3>3. Marks(c, i, s, s, rec[i].len)
      BY <1>1, <1>3, <1>5, <2>1, <2>2, <2>3, <3>1, <3>2 DEF Marks, Writes
    <3> QED BY <1>4, <3>3
  <2>4. CASE /\ Moves(c, "ptr", conn[c].sent, conn[c].got, conn[c].todo, conn[c].more)
             /\ Writes(i, rec[i].ptr, s)
    <3>1. Present' = Present
      BY <1>4, <2>4, WrittenStays
    <3>2. /\ conn'[c].pc = "ptr" /\ conn'[c].sent = 0 /\ conn'[c].got = conn[c].got
          /\ conn'[c].todo = conn[c].todo
      BY <1>5, <2>4, MovedFields
    <3>3. Marks(c, i, s, rec[i].ptr, s)
      BY <1>1, <1>3, <1>5, <2>1, <2>2, <2>4, <3>1, <3>2 DEF Marks, Writes
    <3> QED BY <1>4, <3>3
  <2> QED BY <2>1, <2>3, <2>4
<1>7. CASE CancelUpdate(c)
  <2>1. PICK s \in Decided :
          /\ conn[c].got = {<<i, s>>}
          /\ IF conn[c].pc = "ptr" THEN Writes(i, s, rec[i].len) ELSE Writes(i, rec[i].ptr, s)
    BY <1>2, <1>3, <1>7, CancelUpdateEffect
  <2>2. /\ conn[c].pc \in {"ptr", "len"} /\ queue' = queue
        /\ Moves(c, "leave", 200, conn[c].got, conn[c].todo, conn[c].more)
    BY <1>2, <1>7, CancelUpdateEffect
  <2>3. /\ conn'[c].pc = "leave" /\ conn'[c].sent = 200 /\ conn'[c].got = conn[c].got
        /\ conn'[c].todo = conn[c].todo
    BY <2>2, MovedFields
  <2>4. CASE conn[c].pc = "ptr"
    <3>1. Present' = Present
      BY <1>4, <2>1, <2>4, WrittenStays
    <3>2. Marks(c, i, s, s, rec[i].len)
      BY <1>1, <1>3, <1>5, <2>1, <2>2, <2>3, <2>4, <3>1 DEF Marks, Writes
    <3> QED BY <1>4, <3>2
  <2>5. CASE conn[c].pc = "len"
    <3>1. Present' = Present
      BY <1>4, <2>1, <2>5, WrittenStays
    <3>2. Marks(c, i, s, rec[i].ptr, s)
      BY <1>1, <1>3, <1>5, <2>1, <2>2, <2>3, <2>5, <3>1 DEF Marks, Writes
    <3> QED BY <1>4, <3>2
  <2> QED BY <2>2, <2>4, <2>5
<1> QED BY <1>6, <1>7

\* A create request writes the record of batch i.
Creates(c, i) ==
  /\ Passes(c) /\ conn[c].rq.op = "create" /\ conn[c].rq.id = i
  /\ conn[c].pc = "store" /\ conn'[c].pc = "enqueue" /\ conn'[c].sent = 0
  /\ conn'[c].todo = conn[c].todo /\ i \notin Present
  /\ rec'[i] = [ptr |-> "validating", len |-> "validating",
                ttl |-> TTL(conn[c].rq.body, cfg.batchTTLSeconds), slo |-> SLO(conn[c].rq.body)]
  /\ \A k \in IDs : k # i => rec'[k] = rec[k]
  /\ queue' = queue /\ Present' = Present \cup {i}

\* A Store creates a record under the ID of its request.
LEMMA Stores ==
  ASSUME DataTyped, LocalsKnown, Found, NEW c \in Conns, Store(c)
  PROVE  \E i \in IDs : Creates(c, i)
<1>1. conn[c].rq.op = "create" /\ conn[c].pc = "store" /\ queue' = queue
  BY DEF Store, At
<1>2. PICK i \in IDs : i = conn[c].rq.id
  BY <1>1, BusyRequest
<1>3. Passes(c) /\ conn[c].sent = 0 /\ i \notin Present
  <2>1. ~Leave(c) /\ Step(c)
    BY <1>1 DEF Step, Leave
  <2> QED BY <1>1, <1>2, <2>1, Passing DEF LocalsKnown, Local, Found, Finds, Busy
<1>4. Moves(c, "enqueue", conn[c].sent, conn[c].got, conn[c].todo, conn[c].more)
  BY StoreEffect
<1>5. conn'[c].pc = "enqueue" /\ conn'[c].sent = 0 /\ conn'[c].todo = conn[c].todo
  BY <1>3, <1>4, MovedFields
<1>6. PICK ttl, slo : /\ ttl = TTL(conn[c].rq.body, cfg.batchTTLSeconds)
                      /\ slo = SLO(conn[c].rq.body)
  OBVIOUS
<1>7. rec' = [rec EXCEPT ![i] = [ptr |-> "validating", len |-> "validating",
                                 ttl |-> ttl, slo |-> slo]]
  BY <1>2, <1>6 DEF Store
<1>8. /\ rec'[i] = [ptr |-> "validating", len |-> "validating", ttl |-> ttl, slo |-> slo]
      /\ \A k \in IDs : k # i => rec'[k] = rec[k]
  BY <1>7 DEF DataTyped
<1>9. Present' = Present \cup {i}
  <2>1. rec'[i].ptr = "validating" /\ NoRecord.ptr = "none"
    BY <1>8 DEF NoRecord
  <2>2. rec'[i] # NoRecord
    BY <2>1
  <2> QED BY <1>8, <2>2 DEF Present
<1> QED BY <1>1, <1>2, <1>3, <1>5, <1>6, <1>8, <1>9 DEF Creates

\* A create request puts batch i, which it has stored, into the queue.
Enqueues(c, i) ==
  /\ Passes(c) /\ conn[c].rq.op = "create" /\ conn[c].rq.id = i
  /\ conn[c].pc = "enqueue" /\ conn'[c].pc = "leave" /\ conn'[c].sent = 200
  /\ conn'[c].todo = conn[c].todo /\ i \in Present /\ i \notin queue
  /\ rec' = rec /\ queue' = queue \cup {i}

\* A cancel looks at batch i.
Looks(c, i) ==
  /\ Passes(c) /\ conn[c].rq.op = "cancel" /\ conn[c].rq.id = i
  /\ conn[c].pc = "get" /\ conn'[c].pc \in {"leave", "remove"} /\ conn'[c].sent # 200
  /\ conn'[c].got = {} /\ conn'[c].todo = conn[c].todo
  /\ conn'[c].pc = "remove" => i \in Present
  /\ conn'[c].sent = 500 => i \in Present /\ Read(i) = Unreadable
  /\ rec' = rec /\ queue' = queue

\* A cancel takes batch i out of the queue, if it is there, and decides on s.
Withdraws(c, i, s) ==
  /\ Passes(c) /\ conn[c].rq.op = "cancel" /\ conn[c].rq.id = i
  /\ conn[c].pc = "remove" /\ conn'[c].pc = "mark" /\ conn'[c].sent = 0
  /\ conn'[c].got = {<<i, s>>} /\ conn'[c].todo = conn[c].todo
  /\ s = "cancelled" <=> i \in queue
  /\ i \in Present /\ rec' = rec /\ queue' = queue \ {i}

\* An Enqueue adds the ID of its request.
LEMMA Queues ==
  ASSUME DataTyped, LocalsKnown, Found, NEW c \in Conns, Enqueue(c)
  PROVE  \E i \in IDs : Enqueues(c, i)
<1>1. conn[c].rq.op = "create" /\ conn[c].pc = "enqueue" /\ rec' = rec
  BY DEF Enqueue, At
<1>2. PICK i \in IDs : i = conn[c].rq.id
  BY <1>1, BusyRequest
<1>3. Passes(c) /\ i \in Present /\ i \notin queue
  <2>1. ~Leave(c) /\ Step(c)
    BY <1>1 DEF Step, Leave
  <2> QED BY <1>1, <1>2, <2>1, Passing DEF Found, Finds, Busy
<1>4. /\ Moves(c, "leave", 200, conn[c].got, conn[c].todo, conn[c].more)
      /\ queue' = queue \cup {i}
  BY <1>2, EnqueueEffect
<1>5. conn'[c].pc = "leave" /\ conn'[c].sent = 200 /\ conn'[c].todo = conn[c].todo
  BY <1>4, MovedFields
<1> QED BY <1>1, <1>2, <1>3, <1>4, <1>5 DEF Enqueues

\* The Get of a cancel looks at one record.
LEMMA GetsForCancel ==
  ASSUME DataTyped, LocalsKnown, Found, NEW c \in Conns, CancelGet(c)
  PROVE  \E i \in IDs : Looks(c, i)
<1>1. conn[c].rq.op = "cancel" /\ conn[c].pc = "get" /\ rec' = rec /\ queue' = queue
  BY DEF CancelGet, At, dataVars
<1>2. PICK i \in IDs : i = conn[c].rq.id
  BY <1>1, BusyRequest
<1>3. Passes(c) /\ conn[c].sent = 0 /\ conn[c].got = {}
  <2>1. ~Leave(c) /\ Step(c)
    BY <1>1 DEF Step, Leave
  <2> QED BY <1>1, <2>1, Passing DEF LocalsKnown, Local, Told
<1>4. PICK pc, sent :
        /\ Moves(c, pc, sent, conn[c].got, conn[c].todo, conn[c].more)
        /\ pc \in {"leave", "remove"} /\ sent # 200
        /\ pc = "remove" => i \in Present
        /\ sent = 500 => i \in Present /\ Read(i) = Unreadable
  <2>1. CASE \E code \in {400, 404} :
               Moves(c, "leave", code, conn[c].got, conn[c].todo, conn[c].more)
    BY <2>1
  <2>2. CASE /\ i \in Present /\ Read(i) = Unreadable
             /\ Moves(c, "leave", 500, conn[c].got, conn[c].todo, conn[c].more)
    BY <2>2
  <2>3. CASE /\ i \in Present
             /\ Moves(c, "remove", conn[c].sent, conn[c].got, conn[c].todo, conn[c].more)
    BY <1>3, <2>3
  <2> QED BY <1>2, <2>1, <2>2, <2>3, CancelGetEffect
<1>5. /\ conn'[c].pc = pc /\ conn'[c].sent = sent /\ conn'[c].got = conn[c].got
      /\ conn'[c].todo = conn[c].todo
  BY <1>4, MovedFields
<1> QED BY <1>1, <1>2, <1>3, <1>4, <1>5 DEF Looks

\* The Remove of a cancel withdraws one ID.
LEMMA Removes ==
  ASSUME DataTyped, LocalsKnown, Found, NEW c \in Conns, CancelRemove(c)
  PROVE  \E i \in IDs, s \in Decided : Withdraws(c, i, s)
<1>1. conn[c].rq.op = "cancel" /\ conn[c].pc = "remove" /\ rec' = rec
  BY DEF CancelRemove, At
<1>2. PICK i \in IDs : i = conn[c].rq.id
  BY <1>1, BusyRequest
<1>3. Passes(c) /\ conn[c].sent = 0 /\ i \in Present
  <2>1. ~Leave(c) /\ Step(c)
    BY <1>1 DEF Step, Leave
  <2> QED BY <1>1, <1>2, <2>1, Passing DEF LocalsKnown, Local, Found, Finds, Busy
<1>4. PICK s \in Decided :
        /\ s = "cancelled" <=> i \in queue
        /\ Moves(c, "mark", conn[c].sent, {<<i, s>>}, conn[c].todo, conn[c].more)
        /\ queue' = queue \ {i}
  BY <1>2, CancelRemoveEffect
<1>5. PICK got : /\ got = {<<i, s>>}
                 /\ Moves(c, "mark", conn[c].sent, got, conn[c].todo, conn[c].more)
  BY <1>4
<1>6. /\ conn'[c].pc = "mark" /\ conn'[c].sent = 0 /\ conn'[c].got = got
      /\ conn'[c].todo = conn[c].todo
  BY <1>3, <1>5, MovedFields
<1>7. Withdraws(c, i, s)
  BY <1>1, <1>2, <1>3, <1>4, <1>5, <1>6 DEF Withdraws
<1> QED BY <1>7

\* The steps of a goroutine, by what they do to the stores.
LEMMA Steps ==
  ASSUME DataTyped, LocalsKnown, Found, NEW c \in Conns, Step(c)
  PROVE  \/ Reads(c) \/ Leave(c)
         \/ \E i \in IDs : Creates(c, i) \/ Enqueues(c, i) \/ Looks(c, i)
         \/ \E i \in IDs, s \in Decided : Withdraws(c, i, s)
         \/ \E i \in Present, s \in Decided, ptr \in Statuses, len \in Statuses :
              Marks(c, i, s, ptr, len)
BY Readers, Stores, Queues, GetsForCancel, Removes, Cancels DEF Step

\* Every step of the server.
LEMMA EveryStep ==
  ASSUME DataTyped, LocalsKnown, Found, [Next]_vars
  PROVE  \/ Quiet \/ Reset
         \/ \E c \in Conns : \E q \in Asks[c] : Arrive(c, q)
         \/ \E c \in Conns : Reads(c) \/ Leave(c)
         \/ \E c \in Conns, i \in IDs : Creates(c, i) \/ Enqueues(c, i) \/ Looks(c, i)
         \/ \E c \in Conns, i \in IDs, s \in Decided : Withdraws(c, i, s)
         \/ \E c \in Conns, i \in Present, s \in Decided, ptr \in Statuses, len \in Statuses :
              Marks(c, i, s, ptr, len)
<1>1. CASE \E c \in Conns : Step(c)
  BY <1>1, Steps
<1> QED BY <1>1, Kinds

\* The record table stays a table.
LEMMA RecordsTable ==
  ASSUME DataTyped, [Next]_vars
  PROVE  rec' = [i \in IDs |-> rec'[i]]
<1>1. ASSUME rec' = rec PROVE rec' = [i \in IDs |-> rec'[i]]
  BY <1>1 DEF DataTyped
<1>2. CASE Quiet
  BY <1>1, <1>2 DEF Quiet, serveVars, dataVars
<1>3. CASE Reset
  BY <1>3 DEF Reset
<1>4. ASSUME NEW c \in Conns, NEW q, Arrive(c, q) PROVE rec' = [i \in IDs |-> rec'[i]]
  BY <1>1, <1>4 DEF Arrive, dataVars
<1>5. ASSUME NEW c \in Conns, Step(c) PROVE rec' = [i \in IDs |-> rec'[i]]
  <2>1. CASE \/ Recover(c) \/ Leave(c) \/ Enqueue(c) \/ ListGet(c) \/ ListConvert(c)
             \/ Retrieve(c) \/ CancelGet(c) \/ CancelRemove(c)
    BY <1>1, <2>1 DEF Recover, Leave, Enqueue, ListGet, ListConvert, Retrieve, CancelGet,
                      CancelRemove, dataVars
  <2>2. ASSUME NEW i, NEW r, rec' = [rec EXCEPT ![i] = r] PROVE rec' = [k \in IDs |-> rec'[k]]
    BY <2>2 DEF DataTyped
  <2>3. CASE Store(c)
    BY <2>2, <2>3 DEF Store
  <2>4. CASE CancelMark(c)
    BY <2>2, <2>4 DEF CancelMark
  <2>5. CASE CancelUpdate(c)
    BY <2>2, <2>5 DEF CancelUpdate
  <2> QED BY <1>5, <2>1, <2>3, <2>4, <2>5 DEF Step
<1> QED BY <1>2, <1>3, <1>4, <1>5, Kinds

\* The types of what the requests share are inductive.
LEMMA DataStep ==
  ASSUME DataTyped, LocalsKnown, Found, [Next]_vars
  PROVE  DataTyped'
<1> DEFINE Record == [ptr : Statuses \cup {"none"}, len : Statuses \cup {"none"},
                      ttl : Int, slo : Int]
           Shared == /\ cfg' \in Configs /\ queue' \subseteq IDs /\ raced' \subseteq IDs
                     /\ acked' \in [created : SUBSET IDs, cancelled : SUBSET IDs]
           Goal == Shared /\ \A i \in IDs : rec'[i] \in Record
<1>1. /\ cfg \in Configs /\ queue \subseteq IDs /\ raced \subseteq IDs
      /\ acked \in [created : SUBSET IDs, cancelled : SUBSET IDs]
      /\ \A i \in IDs : rec[i] \in Record
  BY DEF DataTyped
<1>2. SUFFICES Goal
  <2>1. conn' \in [Conns -> Locals]
    BY LocalsStep
  <2>2. rec' = [i \in IDs |-> rec'[i]]
    BY RecordsTable
  <2>3. rec' \in [IDs -> Record]
    BY <1>2, <2>2
  <2> QED BY <1>2, <2>1, <2>3 DEF DataTyped
<1>3. NoRecord \in Record
  BY DEF NoRecord
<1> HIDE DEF Record
<1>4. CASE Quiet
  BY <1>1, <1>4 DEF Quiet, serveVars, dataVars, histVars
<1>5. CASE Reset
  BY <1>1, <1>3, <1>5 DEF Reset, Nothing
<1>6. ASSUME NEW c \in Conns, NEW q \in Asks[c], Arrive(c, q) PROVE Goal
  <2>1. ASSUME NEW r \in Requests PROVE Touches(r) \subseteq IDs
    BY RequestFields DEF Touches
  <2>2. raced' \subseteq IDs
    <3>1. q \in Requests
      BY <1>6, ArriveEffect
    <3> QED BY <1>1, <1>6, <2>1, <3>1 DEF Arrive
  <2> QED BY <1>1, <1>6, <2>2, ArriveEffect
<1>7. ASSUME NEW c \in Conns, Leave(c) PROVE Goal
  <2>1. conn[c].pc = "leave" /\ cfg' = cfg /\ rec' = rec /\ queue' = queue /\ raced' = raced
    BY <1>7, LeaveEffect
  <2>2. conn[c].rq.op \in {"create", "cancel"} => conn[c].rq.id \in IDs
    BY <2>1, BusyRequest
  <2>3. acked' \in [created : SUBSET IDs, cancelled : SUBSET IDs]
    BY <1>1, <1>7, <2>2 DEF Leave
  <2> QED BY <1>1, <2>1, <2>3
<1>8. ASSUME NEW c \in Conns, Passes(c), rec' = rec, queue' \subseteq IDs PROVE Goal
  BY <1>1, <1>8 DEF Passes
<1>9. ASSUME NEW c \in Conns, NEW i \in IDs, Creates(c, i) PROVE Goal
  <2>1. PICK ttl \in Int, slo \in Int :
          rec'[i] = [ptr |-> "validating", len |-> "validating", ttl |-> ttl, slo |-> slo]
    <3>1. conn[c].rq.body \in CreateBodies
      BY <1>9, BusyRequest DEF Creates
    <3>2. cfg.batchTTLSeconds \in Int
      BY <1>1, ServingAssumption DEF ServerConfigs
    <3> QED BY <1>9, <3>1, <3>2, StoredNumbers DEF Creates
  <2>2. rec'[i] \in Record
    BY <2>1 DEF Record, Statuses
  <2> QED BY <1>1, <1>9, <2>2 DEF Creates, Passes
<1>10. ASSUME NEW c \in Conns, NEW i \in IDs, NEW s, NEW ptr \in Statuses, NEW len \in Statuses,
              Marks(c, i, s, ptr, len)
       PROVE  Goal
  <2>1. rec'[i] \in Record
    <3>1. rec[i].ttl \in Int /\ rec[i].slo \in Int
      BY <1>1 DEF Record
    <3> QED BY <1>10, <3>1 DEF Marks, Record
  <2> QED BY <1>1, <1>10, <2>1 DEF Marks, Passes
<1> HIDE DEF Goal
<1>11. ASSUME NEW c \in Conns, Reads(c) PROVE Goal
  BY <1>1, <1>8, <1>11 DEF Reads
<1>12. ASSUME NEW c \in Conns, NEW i \in IDs, Enqueues(c, i) \/ Looks(c, i) PROVE Goal
  BY <1>1, <1>8, <1>12 DEF Enqueues, Looks
<1>13. ASSUME NEW c \in Conns, NEW i \in IDs, NEW s, Withdraws(c, i, s) PROVE Goal
  BY <1>1, <1>8, <1>13 DEF Withdraws
<1>14. Present \subseteq IDs
  BY DEF Present
<1> QED BY <1>4, <1>5, <1>6, <1>7, <1>9, <1>10, <1>11, <1>12, <1>13, <1>14, EveryStep

\* The types of the process's own state are inductive.
LEMMA ProcStep ==
  ASSUME DataTyped, ProcTyped, [Next]_vars
  PROVE  ProcTyped'
<1>1. ASSUME NEW how \in Ended, End(how) PROVE ProcTyped'
  BY <1>1 DEF End, ProcTyped, Busy
<1>2. ASSUME UNCHANGED procVars PROVE ProcTyped'
  BY <1>2 DEF procVars, ProcTyped
<1>3. CASE Load
  BY <1>1, <1>3 DEF Load, Ended, ProcTyped
<1>4. CASE Start
  BY <1>1, <1>4 DEF Start, Ended, ProcTyped
<1>5. CASE ServeFails
  BY <1>1, <1>5 DEF ServeFails, Ended
<1>6. CASE Signal
  BY <1>1, <1>6 DEF Signal, Ended, ProcTyped
<1>7. CASE Shutdown \/ ShutdownReturns
  BY <1>7 DEF Shutdown, ShutdownReturns, ProcTyped
<1>8. CASE MainReturns
  BY <1>1, <1>8 DEF MainReturns, Ended
<1>9. ASSUME NEW c, NEW q, Arrive(c, q) PROVE ProcTyped'
  BY <1>2, <1>9 DEF Arrive
<1>10. ASSUME NEW c, Serving(c) PROVE ProcTyped'
  <2>1. UNCHANGED procVars
    BY <1>10 DEF Serving, Step, Recover, Leave, Store, Enqueue, ListGet, ListConvert, Retrieve,
                 CancelGet, CancelRemove, CancelMark, CancelUpdate
  <2> QED BY <1>2, <2>1
<1>11. CASE UNCHANGED vars
  BY <1>2, <1>11 DEF vars
<1> QED BY <1>3, <1>4, <1>5, <1>6, <1>7, <1>8, <1>9, <1>10, <1>11 DEF Next

\* What a goroutine has found stays, while it does not move.
LEMMA FindsStays ==
  ASSUME NEW d, Finds(d), conn'[d] = conn[d], Present \subseteq Present',
         acked.created \subseteq acked'.created, acked.cancelled \subseteq acked'.cancelled,
         conn[d].rq.op = "create" /\ conn[d].pc = "store" => conn[d].rq.id \notin Present',
         conn[d].rq.op = "create" /\ conn[d].pc = "enqueue" => conn[d].rq.id \notin queue'
  PROVE  Finds(d)'
BY DEF Finds

\* Found is inductive: no step but the end of the process removes a record.
LEMMA FoundStep ==
  ASSUME DataTyped, LocalsKnown, Found, Creators, [Next]_vars
  PROVE  Found'
<1> DEFINE Words == \A i \in Present' : rec'[i].ptr \in Statuses /\ rec'[i].len \in Statuses
           Goal == /\ Words /\ queue' \subseteq Present' /\ acked'.created \subseteq Present'
                   /\ \A d \in Busy' : Finds(d)'
<1>1. SUFFICES Goal
  BY DEF Found
<1>2. /\ \A i \in Present : rec[i].ptr \in Statuses /\ rec[i].len \in Statuses
      /\ queue \subseteq Present /\ acked.created \subseteq Present
      /\ \A d \in Busy : Finds(d)
  BY DEF Found
<1>3. CASE Quiet
  BY <1>2, <1>3 DEF Quiet, serveVars, dataVars, histVars, Present, Busy, Finds
<1>4. CASE Reset
  BY <1>4, ResetBusy
<1>5. ASSUME rec' = rec PROVE Words /\ Present' = Present
  BY <1>2, <1>5 DEF Present
<1> HIDE DEF Words
<1>6. ASSUME NEW c \in Conns, NEW q \in Asks[c], Arrive(c, q) PROVE Goal
  <2>1. rec' = rec /\ queue' = queue /\ acked' = acked
    BY <1>6, ArriveEffect
  <2>2. Words /\ Present' = Present
    BY <1>5, <2>1
  <2>3. /\ Busy' = Busy \cup {c} /\ c \notin Busy
        /\ \A d \in Busy : conn'[d] = conn[d]
    BY <1>6, ArriveBusy
  <2>4. ASSUME NEW d \in Busy PROVE Finds(d)'
    BY <1>2, <2>1, <2>2, <2>3, FindsStays DEF Finds
  <2>5. Finds(c)'
    <3>1. /\ conn'[c].rq = q /\ conn'[c].todo = {}
          /\ conn'[c].known.created \subseteq acked.created
          /\ conn'[c].known.cancelled \subseteq acked.cancelled
          /\ conn'[c].pc \in {"leave", "panic", "store", "get"}
          /\ q.op \in {"create", "list", "retrieve", "cancel"} => conn'[c].sent \in {0, 400}
      BY <1>6, ArriveEffect
    <3>2. q.op = "create" => q.id \notin Present
      BY <1>6 DEF Arrive, Fresh
    <3> QED BY <2>1, <2>2, <3>1, <3>2 DEF Finds
  <2> QED BY <1>2, <2>1, <2>2, <2>3, <2>4, <2>5
<1>7. ASSUME NEW c \in Conns, Leave(c) PROVE Goal
  <2>1. /\ conn[c].pc = "leave" /\ rec' = rec /\ queue' = queue
    BY <1>7, LeaveEffect
  <2>2. Words /\ Present' = Present
    BY <1>5, <2>1
  <2>3. /\ Busy' = Busy \ {c} /\ c \in Busy
        /\ \A d \in Busy' : conn'[d] = conn[d]
    BY <1>7, LeaveBusy
  <2>4. /\ acked.created \subseteq acked'.created /\ acked.cancelled \subseteq acked'.cancelled
        /\ acked'.created \subseteq Present
    BY <1>2, <1>7, <2>3 DEF Leave, Finds
  <2>5. ASSUME NEW d \in Busy' PROVE Finds(d)'
    BY <1>2, <2>1, <2>2, <2>3, <2>4, <2>5, FindsStays DEF Finds
  <2> QED BY <1>2, <2>1, <2>2, <2>4, <2>5
<1>8. ASSUME NEW c \in Conns, Passes(c), Words, Present \subseteq Present',
             queue' \subseteq Present', Finds(c)',
             \A d \in Busy : d # c /\ conn[d].rq.op = "create" /\ conn[d].pc = "store"
                => conn[d].rq.id \notin Present',
             \A d \in Busy : d # c /\ conn[d].rq.op = "create" /\ conn[d].pc = "enqueue"
                => conn[d].rq.id \notin queue'
      PROVE  Goal
  <2>1. Busy' = Busy /\ \A d \in Busy : d # c => conn'[d] = conn[d]
    BY <1>8, PassingBusy DEF Passes, Alone, Busy
  <2>2. acked' = acked
    BY <1>8 DEF Passes
  <2>3. ASSUME NEW d \in Busy, d # c PROVE Finds(d)'
    BY <1>2, <1>8, <2>1, <2>2, <2>3, FindsStays
  <2> QED BY <1>2, <1>8, <2>1, <2>2, <2>3
<1>9. ASSUME NEW d \in Busy, conn[d].rq.op = "create"
      PROVE  /\ conn[d].pc = "store" => conn[d].rq.id \notin Present
             /\ conn[d].pc = "enqueue" => conn[d].rq.id \notin queue
  BY <1>2, <1>9 DEF Finds
<1>10. ASSUME NEW c \in Conns, Passes(c) PROVE c \in Busy /\ Finds(c)
  BY <1>2, <1>10 DEF Passes, Busy
<1> HIDE DEF Goal
<1>11. ASSUME NEW c \in Conns, Reads(c) PROVE Goal
  <2>1. Words /\ Present' = Present
    BY <1>5, <1>11 DEF Reads
  <2>2. Finds(c)'
    BY <1>10, <1>11, <2>1 DEF Finds, Reads, Passes
  <2> QED BY <1>2, <1>8, <1>9, <1>11, <2>1, <2>2 DEF Reads
<1>12. ASSUME NEW c \in Conns, NEW i \in IDs, Creates(c, i) PROVE Goal
  <2>1. Present' = Present \cup {i} /\ queue' = queue /\ c \in Busy
    BY <1>10, <1>12 DEF Creates
  <2>2. Words
    BY <1>2, <1>12, <2>1 DEF Words, Creates, Present, Statuses
  <2>3. Finds(c)'
    BY <1>2, <1>10, <1>12, <2>1 DEF Finds, Creates, Passes
  <2>4. \A d \in Busy : d # c /\ conn[d].rq.op = "create" => conn[d].rq.id # i
    BY <1>12, <2>1 DEF Creators, Creates
  <2> QED BY <1>2, <1>8, <1>9, <1>12, <2>1, <2>2, <2>3, <2>4 DEF Creates
<1>13. ASSUME NEW c \in Conns, NEW i \in IDs, Enqueues(c, i) PROVE Goal
  <2>1. Words /\ Present' = Present /\ c \in Busy
    BY <1>5, <1>10, <1>13 DEF Enqueues
  <2>2. Finds(c)'
    BY <1>10, <1>13, <2>1 DEF Finds, Enqueues, Passes
  <2>3. \A d \in Busy : d # c /\ conn[d].rq.op = "create" => conn[d].rq.id # i
    BY <1>13, <2>1 DEF Creators, Enqueues
  <2> QED BY <1>2, <1>8, <1>9, <1>13, <2>1, <2>2, <2>3 DEF Enqueues
<1>14. ASSUME NEW c \in Conns, NEW i \in IDs, Looks(c, i) PROVE Goal
  <2>1. Words /\ Present' = Present
    BY <1>5, <1>14 DEF Looks
  <2>2. Finds(c)'
    BY <1>10, <1>14, <2>1 DEF Finds, Looks, Passes
  <2> QED BY <1>2, <1>8, <1>9, <1>14, <2>1, <2>2 DEF Looks
<1>15. ASSUME NEW c \in Conns, NEW i \in IDs, NEW s, Withdraws(c, i, s) PROVE Goal
  <2>1. Words /\ Present' = Present
    BY <1>5, <1>15 DEF Withdraws
  <2>2. Finds(c)'
    BY <1>10, <1>15, <2>1 DEF Finds, Withdraws, Passes
  <2> QED BY <1>2, <1>8, <1>9, <1>15, <2>1, <2>2 DEF Withdraws
<1>16. ASSUME NEW c \in Conns, NEW i \in Present, NEW s, NEW ptr \in Statuses,
              NEW len \in Statuses, Marks(c, i, s, ptr, len)
       PROVE  Goal
  <2>1. Present' = Present
    BY <1>16 DEF Marks
  <2>2. Words
    BY <1>2, <1>16, <2>1 DEF Words, Marks, Present
  <2>3. Finds(c)'
    BY <1>10, <1>16, <2>1 DEF Finds, Marks, Passes
  <2> QED BY <1>2, <1>8, <1>9, <1>16, <2>1, <2>2, <2>3 DEF Marks
<1> QED BY <1>3, <1>4, <1>6, <1>7, <1>11, <1>12, <1>13, <1>14, <1>15, <1>16, EveryStep
        DEF Goal

\* Every step, as far as the requests are concerned.
LEMMA EveryPass ==
  ASSUME DataTyped, LocalsKnown, Found, [Next]_vars
  PROVE  \/ Quiet \/ Reset
         \/ \E c \in Conns : \E q \in Asks[c] : Arrive(c, q)
         \/ \E c \in Conns : Leave(c) \/ Passes(c)
BY Kinds, Passing

\* Creators is inductive: Arrive gives every create request a fresh ID.
LEMMA CreatorsStep ==
  ASSUME DataTyped, LocalsKnown, Found, Creators, [Next]_vars
  PROVE  Creators'
<1>1. CASE Quiet
  BY <1>1 DEF Quiet, serveVars, Creators, Busy
<1>2. CASE Reset
  BY <1>2, ResetBusy DEF Creators
<1>3. ASSUME NEW c \in Conns, NEW q \in Asks[c], Arrive(c, q) PROVE Creators'
  <2>1. /\ Busy' = Busy \cup {c} /\ c \notin Busy /\ conn'[c].rq = q
        /\ \A d \in Busy : conn'[d] = conn[d]
    BY <1>3, ArriveBusy, ArriveEffect
  <2>2. q.op = "create" => \A d \in Busy : conn[d].rq.op = "create" => conn[d].rq.id # q.id
    BY <1>3 DEF Arrive, Fresh
  <2> QED BY <2>1, <2>2 DEF Creators
<1>4. ASSUME NEW c \in Conns, Leave(c) PROVE Creators'
  BY <1>4, LeaveBusy DEF Creators
<1>5. ASSUME NEW c \in Conns, Passes(c) PROVE Creators'
  <2>1. Busy' = Busy /\ \A d \in Busy : conn'[d].rq = conn[d].rq
    BY <1>5, PassingBusy DEF Busy
  <2> QED BY <2>1 DEF Creators
<1> QED BY <1>1, <1>2, <1>3, <1>4, <1>5, EveryPass

\* Overlap is inductive: every overlap begins with an arrival.
LEMMA OverlapStep ==
  ASSUME DataTyped, LocalsKnown, Found, Overlap, [Next]_vars
  PROVE  Overlap'
<1>1. CASE Quiet
  BY <1>1 DEF Quiet, serveVars, histVars, Overlap, Busy
<1>2. CASE Reset
  BY <1>2, ResetBusy DEF Overlap
<1>3. ASSUME NEW c \in Conns, NEW q \in Asks[c], Arrive(c, q) PROVE Overlap'
  <2>1. /\ Busy' = Busy \cup {c} /\ c \notin Busy /\ conn'[c].rq = q
        /\ raced \subseteq raced'
    BY <1>3, ArriveBusy, ArriveEffect
  <2>2. \A d \in Busy : conn'[d].rq = conn[d].rq
    BY <1>3, ArriveBusy
  <2>3. ASSUME NEW d \in Busy, q.op = "cancel" \/ conn[d].rq.op = "cancel"
        PROVE  Touches(q) \cap Touches(conn[d].rq) \subseteq raced'
    BY <1>3, <2>3 DEF Arrive
  <2>4. SUFFICES ASSUME NEW a \in Busy', NEW b \in Busy', a # b, conn'[a].rq.op = "cancel"
                 PROVE  Touches(conn'[a].rq) \cap Touches(conn'[b].rq) \subseteq raced'
    BY DEF Overlap
  <2>5. CASE a = c
    BY <2>1, <2>2, <2>3, <2>4, <2>5
  <2>6. CASE b = c
    BY <2>1, <2>2, <2>3, <2>4, <2>6
  <2>7. CASE a # c /\ b # c
    <3>1. Touches(conn[a].rq) \cap Touches(conn[b].rq) \subseteq raced
      BY <2>1, <2>2, <2>4, <2>7 DEF Overlap
    <3> QED BY <2>1, <2>2, <2>7, <3>1
  <2> QED BY <2>5, <2>6, <2>7
<1>4. ASSUME NEW c \in Conns, Leave(c) PROVE Overlap'
  <2>1. Busy' = Busy \ {c} /\ raced' = raced /\ \A d \in Busy' : conn'[d].rq = conn[d].rq
    BY <1>4, LeaveBusy, LeaveEffect
  <2> QED BY <2>1 DEF Overlap
<1>5. ASSUME NEW c \in Conns, Passes(c) PROVE Overlap'
  <2>1. Busy' = Busy /\ raced' = raced /\ \A d \in Busy : conn'[d].rq = conn[d].rq
    BY <1>5, PassingBusy DEF Busy, Passes
  <2> QED BY <2>1 DEF Overlap
<1> QED BY <1>1, <1>2, <1>3, <1>4, <1>5, EveryPass

(***************************************************************************)
(* The two words of a status: a reader that finds them apart has met a     *)
(* cancel of the same batch.                                               *)
(***************************************************************************)
LEMMA TornMeansRace ==
  ASSUME DataTyped, Overlap, Torn, NEW c \in Busy, NEW i \in Present, Read(i) = Unreadable,
         i \in Touches(conn[c].rq), conn[c].pc \notin {"ptr", "len"}, Found
  PROVE  i \in raced
<1>1. rec[i].ptr # rec[i].len
  BY DEF Read, Unreadable, Found, Statuses
<1>2. SUFFICES ASSUME i \notin raced PROVE FALSE
  OBVIOUS
<1>3. PICK d \in Busy : Writing(d, i)
  BY <1>1, <1>2 DEF Torn
<1>4. d # c /\ conn[d].rq.op = "cancel" /\ i \in Touches(conn[d].rq)
  BY <1>3 DEF Writing, Touches
<1> QED BY <1>2, <1>4 DEF Overlap

\* A cancel decides on one status.
LEMMA OneStatus ==
  ASSUME NEW got, NEW i, NEW s, NEW t, got = {<<i, s>>}, got = {<<i, t>>}
  PROVE  s = t
<1>1. <<i, s>> \in {<<i, t>>}
  OBVIOUS
<1>2. <<i, s>> = <<i, t>>
  BY <1>1
<1> QED BY <1>2

\* Torn is inductive: without an overlap nobody else writes a word.
LEMMA TornStep ==
  ASSUME DataTyped, LocalsKnown, Found, Overlap, Torn, [Next]_vars
  PROVE  Torn'
<1> DEFINE Whole == \A i \in Present' \ raced' :
                      rec'[i].ptr = rec'[i].len \/ \E d \in Busy' : Writing(d, i)'
           Half(d, i) == /\ conn'[d].pc = "ptr" => conn'[d].got = {<<i, rec'[i].len>>}
                         /\ conn'[d].pc = "len" => conn'[d].got = {<<i, rec'[i].ptr>>}
           Goal == Whole /\ \A d \in Busy' : \A i \in IDs \ raced' : Writing(d, i)' => Half(d, i)
<1>1. SUFFICES Goal
  BY DEF Torn
<1>2. /\ \A i \in Present \ raced : rec[i].ptr = rec[i].len \/ \E d \in Busy : Writing(d, i)
      /\ \A d \in Busy : \A i \in IDs \ raced :
           Writing(d, i) =>
             /\ conn[d].pc = "ptr" => conn[d].got = {<<i, rec[i].len>>}
             /\ conn[d].pc = "len" => conn[d].got = {<<i, rec[i].ptr>>}
  BY DEF Torn
<1>3. CASE Quiet
  BY <1>2, <1>3 DEF Quiet, serveVars, dataVars, histVars, Present, Busy, Writing
<1>4. CASE Reset
  BY <1>4, ResetBusy
<1>5. ASSUME NEW d, conn'[d] = conn[d] PROVE \A i \in IDs : Writing(d, i)' <=> Writing(d, i)
  BY <1>5 DEF Writing
<1>6. ASSUME NEW d, conn'[d].pc \notin {"ptr", "len"} PROVE \A i \in IDs : ~Writing(d, i)'
  BY <1>6 DEF Writing
<1>7. ASSUME NEW d, conn[d].pc \notin {"ptr", "len"} PROVE \A i \in IDs : ~Writing(d, i)
  BY <1>7 DEF Writing
<1>8. Present \subseteq IDs /\ Present' \subseteq IDs
  BY DEF Present
<1>9. ASSUME NEW c \in Conns, NEW q \in Asks[c], Arrive(c, q) PROVE Goal
  <2>1. /\ Busy' = Busy \cup {c} /\ Present' = Present /\ raced \subseteq raced'
        /\ \A d \in Busy : conn'[d] = conn[d]
    BY <1>9, ArriveBusy
  <2>2. rec' = rec /\ \A i \in IDs : ~Writing(c, i)'
    BY <1>6, <1>9, ArriveEffect
  <2>3. \A d \in Busy : \A i \in IDs : Writing(d, i)' <=> Writing(d, i)
    BY <1>5, <2>1
  <2> QED BY <1>2, <1>8, <2>1, <2>2, <2>3
<1>10. ASSUME NEW c \in Conns, Leave(c) PROVE Goal
  <2>1. /\ Busy' = Busy \ {c} /\ Present' = Present
        /\ \A d \in Busy' : conn'[d] = conn[d]
    BY <1>10, LeaveBusy
  <2>2. rec' = rec /\ raced' = raced /\ \A i \in IDs : ~Writing(c, i)
    BY <1>7, <1>10, LeaveEffect
  <2>3. \A d \in Busy' : \A i \in IDs : Writing(d, i)' <=> Writing(d, i)
    BY <1>5, <2>1
  <2> QED BY <1>2, <1>8, <2>1, <2>2, <2>3
<1>11. ASSUME NEW c \in Conns, Passes(c)
       PROVE  /\ Busy' = Busy /\ raced' = raced /\ c \in Busy
              /\ \A d \in Busy : d # c => conn'[d] = conn[d]
              /\ \A d \in Busy : d # c => \A i \in IDs : Writing(d, i)' <=> Writing(d, i)
  <2>1. /\ Busy' = Busy /\ raced' = raced /\ c \in Busy
        /\ \A d \in Busy : d # c => conn'[d] = conn[d]
    BY <1>11, PassingBusy DEF Passes, Alone, Busy
  <2> QED BY <1>5, <2>1
<1>12. ASSUME NEW c \in Conns, Passes(c), rec' = rec, \A i \in IDs : ~Writing(c, i)',
              \A i \in IDs : ~Writing(c, i)
       PROVE  Goal
  <2>1. Present' = Present
    BY <1>12 DEF Present
  <2> QED BY <1>2, <1>8, <1>11, <1>12, <2>1
<1>13. ASSUME NEW c \in Conns, NEW i \in IDs, Creates(c, i) PROVE Goal
  <2>1. /\ Present' = Present \cup {i} /\ i \notin Present
        /\ rec'[i].ptr = rec'[i].len /\ \A k \in IDs : k # i => rec'[k] = rec[k]
    BY <1>13 DEF Creates
  <2>2. /\ \A k \in IDs : ~Writing(c, k)' /\ ~Writing(c, k)
    BY <1>6, <1>7, <1>13 DEF Creates
  <2>3. \A d \in Busy : ~Writing(d, i)
    BY <2>1 DEF Writing, Found, Finds
  <2>4. Passes(c)
    BY <1>13 DEF Creates
  <2>5. Whole
    BY <1>2, <1>8, <1>11, <2>1, <2>2, <2>4
  <2>6. ASSUME NEW d \in Busy', NEW k \in IDs \ raced', Writing(d, k)' PROVE Half(d, k)
    <3>1. d # c /\ d \in Busy /\ Writing(d, k) /\ conn'[d] = conn[d] /\ raced' = raced
      BY <1>11, <2>2, <2>4, <2>6
    <3>2. k # i
      BY <2>3, <3>1
    <3> QED BY <1>2, <2>1, <3>1, <3>2
  <2> QED BY <2>5, <2>6
<1>14. ASSUME NEW c \in Conns, NEW i \in Present, NEW s, NEW ptr \in Statuses,
              NEW len \in Statuses, Marks(c, i, s, ptr, len)
       PROVE  Goal
  <2>1. /\ Present' = Present /\ Passes(c)
        /\ rec'[i].ptr = ptr /\ rec'[i].len = len /\ \A k \in IDs : k # i => rec'[k] = rec[k]
    BY <1>14 DEF Marks
  <2>2. \A k \in IDs : k # i => ~Writing(c, k)' /\ ~Writing(c, k)
    BY <1>14 DEF Marks, Writing, Passes
  <2>3. /\ Busy' = Busy /\ raced' = raced /\ c \in Busy
        /\ \A d \in Busy : d # c => conn'[d] = conn[d]
        /\ \A d \in Busy : d # c => \A k \in IDs : Writing(d, k)' <=> Writing(d, k)
    BY <1>11, <2>1
  <2>4. ASSUME i \notin raced, NEW d \in Busy, d # c PROVE ~Writing(d, i)
    <3>1. i \in Touches(conn[c].rq)
      BY <1>14 DEF Marks, Touches
    <3>2. Writing(d, i) => conn[d].rq.op = "cancel" /\ i \in Touches(conn[d].rq)
      BY DEF Writing, Touches
    <3> QED BY <2>3, <2>4, <3>1, <3>2 DEF Overlap
  <2>5. i \notin raced => rec'[i].ptr = rec'[i].len \/ Writing(c, i)'
    <3>1. CASE conn[c].pc = "mark"
      BY <1>14, <3>1 DEF Marks, Writing, Passes
    <3>2. CASE conn[c].pc \in {"ptr", "len"}
      <4>1. Writing(c, i) /\ conn[c].got = {<<i, s>>}
        BY <1>14, <3>2 DEF Marks, Writing
      <4>2. i \notin raced =>
              /\ conn[c].pc = "ptr" => conn[c].got = {<<i, rec[i].len>>}
              /\ conn[c].pc = "len" => conn[c].got = {<<i, rec[i].ptr>>}
        BY <1>2, <1>8, <2>3, <4>1
      <4>3. i \notin raced =>
              /\ conn[c].pc = "ptr" => s = rec[i].len
              /\ conn[c].pc = "len" => s = rec[i].ptr
        BY <4>1, <4>2, OneStatus
      <4>4. /\ conn[c].pc = "ptr" => ptr = s /\ len = rec[i].len
            /\ conn[c].pc = "len" => ptr = rec[i].ptr /\ len = s
        BY <1>14 DEF Marks
      <4>5. i \notin raced => ptr = len
        BY <3>2, <4>3, <4>4
      <4>6. rec'[i].ptr = ptr /\ rec'[i].len = len
        BY <2>1
      <4> QED BY <4>5, <4>6
    <3> QED BY <1>14, <3>1, <3>2 DEF Marks
  <2>6. Whole
    <3>1. ASSUME NEW k \in Present' \ raced', k # i
          PROVE  rec'[k].ptr = rec'[k].len \/ \E d \in Busy' : Writing(d, k)'
      BY <1>2, <1>8, <2>1, <2>2, <2>3, <3>1
    <3> QED BY <2>3, <2>5, <3>1
  <2>7. ASSUME NEW d \in Busy', NEW k \in IDs \ raced', Writing(d, k)' PROVE Half(d, k)
    <3>1. CASE k # i
      <4>1. d # c /\ d \in Busy /\ Writing(d, k) /\ conn'[d] = conn[d] /\ raced' = raced
            /\ rec'[k] = rec[k]
        BY <2>1, <2>2, <2>3, <2>7, <3>1
      <4> QED BY <1>2, <4>1
    <3>2. CASE k = i
      <4>1. d = c
        BY <2>3, <2>4, <2>7, <3>2
      <4>2. /\ conn'[c].got = {<<i, s>>}
            /\ conn'[c].pc = "len" => ptr = s
            /\ conn'[c].pc = "ptr" => len = s
        BY <1>14 DEF Marks
      <4> QED BY <2>1, <3>2, <4>1, <4>2
    <3> QED BY <3>1, <3>2
  <2> QED BY <2>6, <2>7
<1> HIDE DEF Goal
<1>15. ASSUME NEW c \in Conns, Reads(c) PROVE Goal
  <2>1. \A i \in IDs : ~Writing(c, i)' /\ ~Writing(c, i)
    BY <1>15 DEF Reads, Passes, Writing
  <2> QED BY <1>12, <1>15, <2>1 DEF Reads
<1>16. ASSUME NEW c \in Conns, NEW i \in IDs, Enqueues(c, i) \/ Looks(c, i) PROVE Goal
  <2>1. \A k \in IDs : ~Writing(c, k)' /\ ~Writing(c, k)
    BY <1>16 DEF Enqueues, Looks, Writing
  <2> QED BY <1>12, <1>16, <2>1 DEF Enqueues, Looks
<1>17. ASSUME NEW c \in Conns, NEW i \in IDs, NEW s, Withdraws(c, i, s) PROVE Goal
  <2>1. \A k \in IDs : ~Writing(c, k)' /\ ~Writing(c, k)
    BY <1>17 DEF Withdraws, Writing
  <2> QED BY <1>12, <1>17, <2>1 DEF Withdraws
<1> QED BY <1>3, <1>4, <1>9, <1>10, <1>13, <1>14, <1>15, <1>16, <1>17, EveryStep DEF Goal

\* What a cancel has been told is about a batch with a record.
LEMMA ToldIsThere ==
  ASSUME LocalsKnown, Found, NEW d \in Busy, conn[d].rq.op = "cancel", NEW i, NEW s,
         <<i, s>> \in conn[d].got
  PROVE  i = conn[d].rq.id /\ i \in Present /\ conn[d].got = {<<i, s>>}
<1>1. conn[d].pc # "idle" /\ Told(conn[d]) /\ Finds(d)
  BY DEF Busy, LocalsKnown, Found
<1>2. conn[d].pc \in {"mark", "ptr", "len"} \/ conn[d].sent = 200
  BY <1>1 DEF Told
<1>3. PICK t \in Decided : conn[d].got = {<<conn[d].rq.id, t>>}
  BY <1>1, <1>2 DEF Told
<1>4. i = conn[d].rq.id /\ s = t
  BY <1>3
<1> QED BY <1>1, <1>2, <1>3, <1>4 DEF Finds

\* Wanted is inductive: "cancelled" follows the removal of the entry.
LEMMA WantedStep ==
  ASSUME DataTyped, LocalsKnown, Found, Wanted, [Next]_vars
  PROVE  Wanted'
<1> DEFINE Unmarked(i) == rec'[i].ptr # "cancelled" /\ rec'[i].len # "cancelled"
           Untold(d, i) == conn'[d].rq.op = "cancel" => <<i, "cancelled">> \notin conn'[d].got
           Goal == \A i \in IDs : Awaited(i)' => Unmarked(i) /\ \A d \in Busy' : Untold(d, i)
<1>1. SUFFICES Goal
  BY DEF Wanted
<1>2. ASSUME NEW i \in IDs, Awaited(i)
      PROVE  /\ rec[i].ptr # "cancelled" /\ rec[i].len # "cancelled"
             /\ \A d \in Busy : conn[d].rq.op = "cancel" => <<i, "cancelled">> \notin conn[d].got
  BY <1>2 DEF Wanted
<1>3. CASE Quiet
  <2>1. ASSUME NEW i \in IDs PROVE Awaited(i)' <=> Awaited(i)
    BY <1>3 DEF Quiet, serveVars, dataVars, Awaited, Busy
  <2>2. Busy' = Busy /\ conn' = conn /\ rec' = rec
    BY <1>3 DEF Quiet, serveVars, dataVars, Busy
  <2> QED BY <1>2, <2>1, <2>2
<1>4. CASE Reset
  <2>1. \A i \in IDs : ~Awaited(i)'
    BY <1>4, ResetBusy DEF Awaited
  <2> QED BY <2>1
<1>5. ASSUME NEW c \in Conns, NEW q \in Asks[c], Arrive(c, q) PROVE Goal
  <2>1. /\ Busy' = Busy \cup {c} /\ \A d \in Busy : conn'[d] = conn[d]
        /\ conn'[c].rq = q /\ conn'[c].got = {} /\ rec' = rec /\ queue' = queue
    BY <1>5, ArriveBusy, ArriveEffect
  <2>2. ASSUME NEW i \in IDs, Awaited(i)' PROVE Awaited(i) \/ (q.op = "create" /\ q.id = i)
    BY <2>1, <2>2 DEF Awaited
  <2>3. ASSUME NEW i \in IDs, Awaited(i) PROVE Unmarked(i) /\ \A d \in Busy' : Untold(d, i)
    BY <1>2, <2>1, <2>3
  <2>4. ASSUME q.op = "create", NEW i \in IDs, i = q.id
        PROVE  Unmarked(i) /\ \A d \in Busy' : Untold(d, i)
    <3>1. i \notin Present
      BY <1>5, <2>4 DEF Arrive, Fresh
    <3>2. Unmarked(i)
      BY <2>1, <3>1 DEF Present, NoRecord
    <3>3. \A d \in Busy : conn[d].rq.op = "cancel" => <<i, "cancelled">> \notin conn[d].got
      BY <3>1, ToldIsThere
    <3> QED BY <2>1, <3>2, <3>3
  <2> QED BY <2>2, <2>3, <2>4
<1>6. ASSUME NEW c \in Conns, Leave(c) PROVE Goal
  <2>1. /\ Busy' = Busy \ {c} /\ \A d \in Busy' : conn'[d] = conn[d]
        /\ rec' = rec /\ queue' = queue
    BY <1>6, LeaveBusy, LeaveEffect
  <2>2. ASSUME NEW i \in IDs, Awaited(i)' PROVE Awaited(i)
    BY <2>1, <2>2 DEF Awaited
  <2> QED BY <1>2, <2>1, <2>2
<1>7. ASSUME NEW c \in Conns, Passes(c),
             NEW e, queue' \subseteq queue \cup e,
             conn[c].rq.op = "create" /\ conn'[c].pc \in {"store", "enqueue"}
               => conn[c].pc \in {"store", "enqueue"},
             \A i \in e : conn[c].rq.op = "create" /\ conn[c].rq.id = i /\ conn[c].pc = "enqueue"
      PROVE  \A i \in IDs : Awaited(i)' => Awaited(i)
  <2>1. /\ Busy' = Busy /\ c \in Busy
        /\ \A d \in Busy : d # c => conn'[d] = conn[d]
        /\ conn'[c].rq = conn[c].rq
    BY <1>7, PassingBusy DEF Passes, Alone, Busy
  <2>2. SUFFICES ASSUME NEW i \in IDs, Awaited(i)' PROVE Awaited(i)
    OBVIOUS
  <2>3. CASE i \in queue'
    BY <1>7, <2>1, <2>3 DEF Awaited
  <2>4. CASE \E d \in Busy' : /\ conn'[d].rq.op = "create" /\ conn'[d].rq.id = i
                              /\ conn'[d].pc \in {"store", "enqueue"}
    BY <1>7, <2>1, <2>4 DEF Awaited
  <2> QED BY <2>2, <2>3, <2>4 DEF Awaited
<1>8. ASSUME NEW c \in Conns, Passes(c), queue' \subseteq queue,
              conn[c].rq.op = "create" /\ conn'[c].pc \in {"store", "enqueue"}
                => conn[c].pc \in {"store", "enqueue"}
       PROVE  \A i \in IDs : Awaited(i)' => Awaited(i)
  <2>1. PICK e : e = {}
    OBVIOUS
  <2>2. queue' \subseteq queue \cup e /\ \A i \in e : FALSE
    BY <1>8, <2>1
  <2> QED BY <1>7, <1>8, <2>2
<1>9. ASSUME NEW c \in Conns, Passes(c), \A i \in IDs : Awaited(i)' => Awaited(i),
             \A i \in IDs : Awaited(i)' => Unmarked(i) /\ Untold(c, i)
      PROVE  Goal
  <2>1. Busy' = Busy /\ \A d \in Busy : d # c => conn'[d] = conn[d]
    BY <1>9, PassingBusy DEF Passes, Alone, Busy
  <2> QED BY <1>2, <1>9, <2>1
<1> HIDE DEF Goal
<1>10. ASSUME NEW c \in Conns, Reads(c) PROVE Goal
  <2>1. Passes(c) /\ rec' = rec /\ conn'[c].rq.op # "cancel"
    BY <1>10 DEF Reads, Passes
  <2>2. \A i \in IDs : Awaited(i)' => Awaited(i)
    <3>1. /\ queue' \subseteq queue
          /\ conn[c].rq.op = "create" => conn'[c].pc \notin {"store", "enqueue"}
      BY <1>10 DEF Reads
    <3> QED BY <1>8, <2>1, <3>1
  <2> QED BY <1>2, <1>9, <2>1, <2>2
<1>11. ASSUME NEW c \in Conns, NEW i \in IDs, Creates(c, i) PROVE Goal
  <2>1. /\ Passes(c) /\ conn'[c].rq.op # "cancel"
        /\ rec'[i].ptr = "validating" /\ rec'[i].len = "validating"
        /\ \A k \in IDs : k # i => rec'[k] = rec[k]
    BY <1>11 DEF Creates, Passes
  <2>2. \A k \in IDs : Awaited(k)' => Awaited(k)
    <3>1. /\ queue' \subseteq queue /\ conn[c].pc \in {"store", "enqueue"}
      BY <1>11 DEF Creates
    <3> QED BY <1>8, <2>1, <3>1
  <2> QED BY <1>2, <1>9, <2>1, <2>2
<1>12. ASSUME NEW c \in Conns, NEW i \in IDs, Enqueues(c, i) PROVE Goal
  <2>1. Passes(c) /\ conn'[c].rq.op # "cancel" /\ rec' = rec
    BY <1>12 DEF Enqueues, Passes
  <2>2. \A k \in IDs : Awaited(k)' => Awaited(k)
    <3>1. PICK e : e = {i}
      OBVIOUS
    <3>2. /\ queue' \subseteq queue \cup e /\ conn[c].pc \in {"store", "enqueue"}
          /\ \A k \in e : /\ conn[c].rq.op = "create" /\ conn[c].rq.id = k
                          /\ conn[c].pc = "enqueue"
      BY <1>12, <3>1 DEF Enqueues
    <3> QED BY <1>7, <2>1, <3>2
  <2> QED BY <1>2, <1>9, <2>1, <2>2
<1>13. ASSUME NEW c \in Conns, NEW i \in IDs, Looks(c, i) PROVE Goal
  <2>1. Passes(c) /\ rec' = rec /\ conn'[c].got = {}
    BY <1>13 DEF Looks
  <2>2. \A k \in IDs : Awaited(k)' => Awaited(k)
    <3>1. queue' \subseteq queue /\ conn[c].rq.op # "create"
      BY <1>13 DEF Looks
    <3> QED BY <1>8, <2>1, <3>1
  <2> QED BY <1>2, <1>9, <2>1, <2>2
<1>14. ASSUME NEW c \in Conns, NEW i \in IDs, NEW s \in Decided, Withdraws(c, i, s) PROVE Goal
  <2>1. Passes(c) /\ rec' = rec /\ conn'[c].got = {<<i, s>>} /\ conn[c].rq.op # "create"
    BY <1>14 DEF Withdraws
  <2>2. \A k \in IDs : Awaited(k)' => Awaited(k)
    <3>1. queue' \subseteq queue
      BY <1>14 DEF Withdraws
    <3> QED BY <1>8, <2>1, <3>1
  <2>3. s = "cancelled" => ~Awaited(i)'
    <3>1. SUFFICES ASSUME s = "cancelled", Awaited(i)' PROVE FALSE
      OBVIOUS
    <3>2. i \in queue /\ i \in Present /\ i \notin queue'
      BY <1>14, <3>1 DEF Withdraws
    <3>3. PICK d \in Busy' : /\ conn'[d].rq.op = "create" /\ conn'[d].rq.id = i
                             /\ conn'[d].pc \in {"store", "enqueue"}
      BY <3>1, <3>2 DEF Awaited
    <3>4. d # c
      BY <2>1, <3>3 DEF Passes
    <3>5. d \in Busy /\ conn'[d] = conn[d]
      BY <2>1, <3>3, <3>4, PassingBusy DEF Passes, Alone, Busy
    <3>6. conn[d].rq.op = "create" /\ conn[d].rq.id = i /\ conn[d].pc \in {"store", "enqueue"}
      BY <3>3, <3>5
    <3> QED BY <3>2, <3>5, <3>6 DEF Found, Finds
  <2>4. ASSUME NEW k \in IDs, Awaited(k)' PROVE <<k, "cancelled">> \notin conn'[c].got
    BY <2>1, <2>3, <2>4
  <2> QED BY <1>2, <1>9, <2>1, <2>2, <2>4
<1>15. ASSUME NEW c \in Conns, NEW i \in Present, NEW s \in Decided, NEW ptr \in Statuses,
              NEW len \in Statuses, Marks(c, i, s, ptr, len)
       PROVE  Goal
  <2>1. /\ Passes(c) /\ conn[c].rq.op = "cancel" /\ conn[c].got = {<<i, s>>}
        /\ conn'[c].got = conn[c].got
        /\ rec'[i].ptr \in {rec[i].ptr, s} /\ rec'[i].len \in {rec[i].len, s}
        /\ \A k \in IDs : k # i => rec'[k] = rec[k]
    BY <1>15 DEF Marks
  <2>2. \A k \in IDs : Awaited(k)' => Awaited(k)
    <3>1. queue' \subseteq queue
      BY <1>15 DEF Marks
    <3> QED BY <1>8, <2>1, <3>1
  <2>3. c \in Busy /\ i \in IDs
    BY <2>1 DEF Passes, Busy, Present
  <2>4. ASSUME NEW k \in IDs, Awaited(k)' PROVE Unmarked(k) /\ Untold(c, k)
    <3>1. /\ rec[k].ptr # "cancelled" /\ rec[k].len # "cancelled"
          /\ <<k, "cancelled">> \notin conn[c].got
      BY <1>2, <2>1, <2>2, <2>3, <2>4
    <3>2. k = i => s # "cancelled"
      BY <2>1, <3>1
    <3> QED BY <2>1, <3>1, <3>2
  <2> QED BY <1>9, <2>1, <2>2, <2>4
<1> QED BY <1>3, <1>4, <1>5, <1>6, <1>10, <1>11, <1>12, <1>13, <1>14, <1>15, EveryStep DEF Goal

\* OneTold is inductive: after one removal the entry is not there.
LEMMA OneToldStep ==
  ASSUME DataTyped, LocalsKnown, Found, Wanted, OneTold, [Next]_vars
  PROVE  OneTold'
<1> DEFINE Has(c, i) == conn[c].rq.op = "cancel" /\ <<i, "cancelled">> \in conn[c].got
           Has2(c, i) == conn'[c].rq.op = "cancel" /\ <<i, "cancelled">> \in conn'[c].got
           Goal == \A a, b \in Busy' : \A i \in IDs : a # b /\ Has2(a, i) => ~Has2(b, i)
<1>1. SUFFICES Goal
  BY DEF OneTold
<1>2. \A a, b \in Busy : \A i \in IDs : a # b /\ Has(a, i) => ~Has(b, i)
  BY DEF OneTold
<1>3. CASE Quiet
  BY <1>2, <1>3 DEF Quiet, serveVars, Busy
<1>4. CASE Reset
  BY <1>4, ResetBusy
<1>5. ASSUME NEW c \in Conns, NEW q \in Asks[c], Arrive(c, q) PROVE Goal
  <2>1. /\ Busy' = Busy \cup {c} /\ \A d \in Busy : conn'[d] = conn[d] /\ conn'[c].got = {}
    BY <1>5, ArriveBusy, ArriveEffect
  <2> QED BY <1>2, <2>1
<1>6. ASSUME NEW c \in Conns, Leave(c) PROVE Goal
  <2>1. Busy' = Busy \ {c} /\ \A d \in Busy' : conn'[d] = conn[d]
    BY <1>6, LeaveBusy
  <2> QED BY <1>2, <2>1
<1>7. ASSUME NEW c \in Conns, Passes(c), \A i \in IDs : Has2(c, i) => Has(c, i) \/ Awaited(i)
      PROVE  Goal
  <2>1. Busy' = Busy /\ c \in Busy /\ \A d \in Busy : d # c => conn'[d] = conn[d]
    BY <1>7, PassingBusy DEF Passes, Alone, Busy
  <2>2. ASSUME NEW i \in IDs, Awaited(i), NEW d \in Busy PROVE ~Has(d, i)
    BY <2>2 DEF Wanted
  <2>3. SUFFICES ASSUME NEW a \in Busy, NEW b \in Busy, NEW i \in IDs, a # b,
                        Has2(a, i), Has2(b, i)
                 PROVE  FALSE
    BY <2>1
  <2> HIDE DEF Has, Has2
  <2>4. ASSUME NEW d \in Busy, d # c, Has2(d, i) PROVE Has(d, i)
    BY <2>1, <2>4 DEF Has, Has2
  <2> QED BY <1>2, <1>7, <2>2, <2>3, <2>4
<1> HIDE DEF Goal
<1>8. ASSUME NEW c \in Conns, Reads(c) PROVE Goal
  BY <1>7, <1>8 DEF Reads, Passes
<1>9. ASSUME NEW c \in Conns, NEW i \in IDs, Creates(c, i) \/ Enqueues(c, i) PROVE Goal
  BY <1>7, <1>9 DEF Creates, Enqueues, Passes
<1>10. ASSUME NEW c \in Conns, NEW i \in IDs, Looks(c, i) PROVE Goal
  BY <1>7, <1>10 DEF Looks
<1>11. ASSUME NEW c \in Conns, NEW i \in IDs, NEW s, Withdraws(c, i, s) PROVE Goal
  <2>1. Passes(c) /\ conn'[c].got = {<<i, s>>} /\ (s = "cancelled" => Awaited(i))
    BY <1>11 DEF Withdraws, Awaited
  <2> QED BY <1>7, <2>1
<1>12. ASSUME NEW c \in Conns, NEW i \in Present, NEW s, NEW ptr \in Statuses,
              NEW len \in Statuses, Marks(c, i, s, ptr, len)
       PROVE  Goal
  <2>1. Passes(c) /\ conn'[c].got = conn[c].got /\ conn'[c].rq = conn[c].rq
    BY <1>12 DEF Marks, Passes
  <2> QED BY <1>7, <2>1
<1> QED BY <1>3, <1>4, <1>5, <1>6, <1>8, <1>9, <1>10, <1>11, <1>12, EveryStep DEF Goal

\* RecordKept is inductive: later writes keep the TTL and the SLO.
LEMMA RecordKeptStep ==
  ASSUME DataTyped, LocalsKnown, Found, RecordKept, [Next]_vars
  PROVE  RecordKept'
<1> DEFINE Kept(b, i) == /\ rec[i].ttl = TTL(b, cfg.batchTTLSeconds)
                         /\ rec[i].slo = SLO(b)
           Kept2(b, i) == /\ rec'[i].ttl = TTL(b, cfg'.batchTTLSeconds)
                          /\ rec'[i].slo = SLO(b)
           Stored(l) == l.pc = "enqueue" /\ l.rq.op = "create"
           Goal == \A d \in Busy' : Stored(conn'[d]) => Kept2(conn'[d].rq.body, conn'[d].rq.id)
<1>1. SUFFICES Goal
  BY DEF RecordKept, At
<1>2. \A d \in Busy : Stored(conn[d]) => Kept(conn[d].rq.body, conn[d].rq.id)
  BY DEF RecordKept, At
<1>3. ASSUME NEW d \in Busy, Stored(conn[d])
      PROVE  conn[d].rq.id \in IDs /\ conn[d].rq.id \in Present
  BY <1>3, BusyRequest DEF Found, Finds, Busy
<1>4. CASE Quiet
  BY <1>2, <1>4 DEF Quiet, serveVars, dataVars, Busy
<1>5. CASE Reset
  BY <1>5, ResetBusy
<1>6. ASSUME NEW c \in Conns, NEW q \in Asks[c], Arrive(c, q) PROVE Goal
  <2>1. /\ Busy' = Busy \cup {c} /\ \A d \in Busy : conn'[d] = conn[d]
        /\ conn'[c].pc # "enqueue" /\ rec' = rec /\ cfg' = cfg
    BY <1>6, ArriveBusy, ArriveEffect
  <2> QED BY <1>2, <2>1
<1>7. ASSUME NEW c \in Conns, Leave(c) PROVE Goal
  <2>1. /\ Busy' = Busy \ {c} /\ \A d \in Busy' : conn'[d] = conn[d]
        /\ rec' = rec /\ cfg' = cfg
    BY <1>7, LeaveBusy, LeaveEffect
  <2> QED BY <1>2, <2>1
<1>8. ASSUME NEW c \in Conns, Passes(c),
             \A i \in Present : rec'[i].ttl = rec[i].ttl /\ rec'[i].slo = rec[i].slo,
             Stored(conn'[c]) => Kept2(conn[c].rq.body, conn[c].rq.id)
      PROVE  Goal
  <2>1. /\ Busy' = Busy /\ cfg' = cfg /\ conn'[c].rq = conn[c].rq
        /\ \A d \in Busy : d # c => conn'[d] = conn[d]
    BY <1>8, PassingBusy DEF Passes, Alone, Busy
  <2>2. ASSUME NEW d \in Busy, d # c, Stored(conn'[d])
        PROVE  Kept2(conn'[d].rq.body, conn'[d].rq.id)
    BY <1>2, <1>3, <1>8, <2>1, <2>2
  <2> QED BY <1>8, <2>1, <2>2
<1> HIDE DEF Goal, Kept2
<1>9. ASSUME NEW c \in Conns, Reads(c) PROVE Goal
  <2>1. Passes(c) /\ rec' = rec /\ ~Stored(conn'[c])
    BY <1>9 DEF Reads, Passes
  <2> QED BY <1>8, <2>1
<1>10. ASSUME NEW c \in Conns, NEW i \in IDs, Creates(c, i) PROVE Goal
  <2>1. /\ Passes(c) /\ i = conn[c].rq.id /\ i \notin Present
        /\ \A k \in IDs : k # i => rec'[k] = rec[k]
    BY <1>10 DEF Creates
  <2>2. Kept2(conn[c].rq.body, conn[c].rq.id)
    BY <1>10 DEF Creates, Passes, Kept2
  <2>3. \A k \in Present : rec'[k] = rec[k]
    BY <2>1 DEF Present
  <2> QED BY <1>8, <2>1, <2>2, <2>3
<1>11. ASSUME NEW c \in Conns, NEW i \in IDs, Enqueues(c, i) \/ Looks(c, i) PROVE Goal
  <2>1. Passes(c) /\ rec' = rec /\ ~Stored(conn'[c])
    BY <1>11 DEF Enqueues, Looks
  <2> QED BY <1>8, <2>1
<1>12. ASSUME NEW c \in Conns, NEW i \in IDs, NEW s, Withdraws(c, i, s) PROVE Goal
  <2>1. Passes(c) /\ rec' = rec /\ ~Stored(conn'[c])
    BY <1>12 DEF Withdraws
  <2> QED BY <1>8, <2>1
<1>13. ASSUME NEW c \in Conns, NEW i \in Present, NEW s, NEW ptr \in Statuses,
              NEW len \in Statuses, Marks(c, i, s, ptr, len)
       PROVE  Goal
  <2>1. /\ Passes(c) /\ ~Stored(conn'[c])
        /\ rec'[i].ttl = rec[i].ttl /\ rec'[i].slo = rec[i].slo
        /\ \A k \in IDs : k # i => rec'[k] = rec[k]
    BY <1>13 DEF Marks
  <2>2. \A k \in Present : rec'[k].ttl = rec[k].ttl /\ rec'[k].slo = rec[k].slo
    BY <2>1 DEF Present
  <2> QED BY <1>8, <2>1, <2>2
<1> QED BY <1>4, <1>5, <1>6, <1>7, <1>9, <1>10, <1>11, <1>12, <1>13, EveryStep DEF Goal

\* CancelKept is inductive: only another cancel writes after a cancel.
LEMMA CancelKeptStep ==
  ASSUME DataTyped, LocalsKnown, Found, CancelKept, [Next]_vars
  PROVE  CancelKept'
<1> DEFINE Written(l) == /\ l.pc = "ptr" \/ l.sent = 200 => rec[l.rq.id].len \in Decided
                         /\ l.pc = "len" \/ l.sent = 200 => rec[l.rq.id].ptr \in Decided
           Written2(l) == /\ l.pc = "ptr" \/ l.sent = 200 => rec'[l.rq.id].len \in Decided
                          /\ l.pc = "len" \/ l.sent = 200 => rec'[l.rq.id].ptr \in Decided
           Done == \A i \in acked'.cancelled :
                     i \in Present' /\ rec'[i].ptr \in Decided /\ rec'[i].len \in Decided
           Goal == Done /\ \A d \in Busy' : conn'[d].rq.op = "cancel" => Written2(conn'[d])
<1>1. SUFFICES Goal
  BY DEF CancelKept
<1>2. /\ \A i \in acked.cancelled :
           i \in Present /\ rec[i].ptr \in Decided /\ rec[i].len \in Decided
      /\ \A d \in Busy : conn[d].rq.op = "cancel" => Written(conn[d])
  BY DEF CancelKept
<1>3. CASE Quiet
  BY <1>2, <1>3 DEF Quiet, serveVars, dataVars, histVars, Busy, Present
<1>4. CASE Reset
  BY <1>4, ResetBusy
<1>5. ASSUME NEW c \in Conns, NEW q \in Asks[c], Arrive(c, q) PROVE Goal
  <2>1. /\ Busy' = Busy \cup {c} /\ \A d \in Busy : conn'[d] = conn[d]
        /\ Present' = Present /\ rec' = rec /\ acked' = acked
    BY <1>5, ArriveBusy, ArriveEffect
  <2>2. /\ conn'[c].pc \notin {"ptr", "len"}
        /\ conn'[c].rq.op = "cancel" => conn'[c].sent # 200
    BY <1>5, ArriveEffect
  <2> QED BY <1>2, <2>1, <2>2
<1>6. ASSUME NEW c \in Conns, Leave(c) PROVE Goal
  <2>1. /\ Busy' = Busy \ {c} /\ \A d \in Busy' : conn'[d] = conn[d]
        /\ Present' = Present /\ rec' = rec /\ c \in Busy
    BY <1>6, LeaveBusy, LeaveEffect
  <2>2. acked'.cancelled = acked.cancelled \cup
          (IF conn[c].rq.op = "cancel" /\ conn[c].sent = 200 THEN {conn[c].rq.id} ELSE {})
    BY <1>6 DEF Leave
  <2>3. conn[c].rq.op = "cancel" /\ conn[c].sent = 200 =>
          /\ conn[c].rq.id \in Present
          /\ rec[conn[c].rq.id].ptr \in Decided /\ rec[conn[c].rq.id].len \in Decided
    BY <1>2, <2>1 DEF Found, Finds
  <2>4. Done
    BY <1>2, <2>1, <2>2, <2>3
  <2> QED BY <1>2, <2>1, <2>4
<1>7. ASSUME NEW c \in Conns, Passes(c), Present \subseteq Present',
             \A i \in Present : /\ rec[i].ptr \in Decided => rec'[i].ptr \in Decided
                                /\ rec[i].len \in Decided => rec'[i].len \in Decided,
             conn[c].rq.op = "cancel" => Written2(conn'[c])
      PROVE  Goal
  <2>1. /\ Busy' = Busy /\ conn'[c].rq = conn[c].rq /\ acked' = acked
        /\ \A d \in Busy : d # c => conn'[d] = conn[d]
    BY <1>7, PassingBusy DEF Passes, Alone, Busy
  <2>2. Done
    BY <1>2, <1>7, <2>1
  <2>3. ASSUME NEW d \in Busy, d # c, conn[d].rq.op = "cancel" PROVE Written2(conn[d])
    <3>1. conn[d].pc \in {"ptr", "len"} \/ conn[d].sent = 200 => conn[d].rq.id \in Present
      BY <2>3 DEF Found, Finds
    <3>2. Written(conn[d])
      BY <1>2, <2>3
    <3> QED BY <1>7, <3>1, <3>2
  <2> QED BY <1>7, <2>1, <2>2, <2>3
<1> HIDE DEF Goal, Written2
<1>8. ASSUME NEW c \in Conns, Passes(c), rec' = rec,
             conn[c].rq.op = "cancel" => Written2(conn'[c])
      PROVE  Goal
  <2>1. Present' = Present
    BY <1>8 DEF Present
  <2> QED BY <1>7, <1>8, <2>1
<1>9. ASSUME NEW c \in Conns, Reads(c) PROVE Goal
  BY <1>8, <1>9 DEF Reads
<1>10. ASSUME NEW c \in Conns, NEW i \in IDs, Creates(c, i) PROVE Goal
  <2>1. /\ Passes(c) /\ conn[c].rq.op # "cancel" /\ i \notin Present
        /\ Present \subseteq Present' /\ \A k \in IDs : k # i => rec'[k] = rec[k]
    BY <1>10 DEF Creates
  <2>2. \A k \in Present : rec'[k] = rec[k]
    BY <2>1 DEF Present
  <2> QED BY <1>7, <2>1, <2>2
<1>11. ASSUME NEW c \in Conns, NEW i \in IDs, Enqueues(c, i) PROVE Goal
  BY <1>8, <1>11 DEF Enqueues
<1>12. ASSUME NEW c \in Conns, NEW i \in IDs, Looks(c, i) PROVE Goal
  <2>1. Passes(c) /\ rec' = rec /\ Written2(conn'[c])
    BY <1>12 DEF Looks, Written2
  <2> QED BY <1>8, <2>1
<1>13. ASSUME NEW c \in Conns, NEW i \in IDs, NEW s, Withdraws(c, i, s) PROVE Goal
  <2>1. Passes(c) /\ rec' = rec /\ Written2(conn'[c])
    BY <1>13 DEF Withdraws, Written2
  <2> QED BY <1>8, <2>1
<1>14. ASSUME NEW c \in Conns, NEW i \in Present, NEW s \in Decided, NEW ptr \in Statuses,
              NEW len \in Statuses, Marks(c, i, s, ptr, len)
       PROVE  Goal
  <2>1. /\ Passes(c) /\ c \in Busy /\ Present' = Present
        /\ rec'[i].ptr \in {rec[i].ptr, s} /\ rec'[i].len \in {rec[i].len, s}
        /\ \A k \in IDs : k # i => rec'[k] = rec[k]
    BY <1>14 DEF Marks, Passes, Busy
  <2>2. \A k \in Present : /\ rec[k].ptr \in Decided => rec'[k].ptr \in Decided
                           /\ rec[k].len \in Decided => rec'[k].len \in Decided
    BY <2>1 DEF Present
  <2>3. Written(conn[c]) /\ conn[c].rq.id = i /\ conn'[c].rq.id = i
    BY <1>2, <1>14, <2>1 DEF Marks, Passes
  <2>4. Written2(conn'[c])
    BY <1>14, <2>3 DEF Marks, Written2
  <2> QED BY <1>7, <2>1, <2>2, <2>4
<1> QED BY <1>3, <1>4, <1>5, <1>6, <1>9, <1>10, <1>11, <1>12, <1>13, <1>14, EveryStep DEF Goal

\* What jobToBatch reads of a batch with an acknowledged cancel.
LEMMA ConvertedKnows ==
  ASSUME CancelKept, NEW i \in Present, NEW b \in JobToBatch(i)
  PROVE  b[1] = i /\ (i \in acked.cancelled => b[2] # "validating")
<1>1. Read(i) # Unreadable /\ b = <<i, Read(i)>>
  BY DEF JobToBatch
<1>2. Read(i) = rec[i].ptr
  BY <1>1 DEF Read
<1>3. i \in acked.cancelled => rec[i].ptr # "validating"
  BY DEF CancelKept, Decided
<1> QED BY <1>1, <1>2, <1>3

\* ReadsKnow is inductive: a read sees what was written before it came.
LEMMA ReadsKnowStep ==
  ASSUME DataTyped, LocalsKnown, Found, CancelKept, ReadsKnow, [Next]_vars
  PROVE  ReadsKnow'
<1> DEFINE Knows(l) ==
             /\ l.rq.op \in {"retrieve", "list"} =>
                  \A b \in l.got : b[1] \in l.known.cancelled => b[2] # "validating"
             /\ l.rq.op = "retrieve" /\ l.sent = 404 => l.rq.id \notin l.known.created
           Goal == \A d \in Busy' : Knows(conn'[d])
<1>1. SUFFICES Goal
  BY DEF ReadsKnow
<1>2. \A d \in Busy : Knows(conn[d])
  BY DEF ReadsKnow
<1>3. CASE Quiet
  BY <1>2, <1>3 DEF Quiet, serveVars, Busy
<1>4. CASE Reset
  BY <1>4, ResetBusy
<1>5. ASSUME NEW c \in Conns, NEW q \in Asks[c], Arrive(c, q) PROVE Goal
  <2>1. /\ Busy' = Busy \cup {c} /\ \A d \in Busy : conn'[d] = conn[d]
        /\ conn'[c].got = {} /\ conn'[c].rq = q
        /\ q.op \in {"create", "list", "retrieve", "cancel"} => conn'[c].sent \in {0, 400}
    BY <1>5, ArriveBusy, ArriveEffect
  <2>2. Knows(conn'[c])
    BY <2>1
  <2> QED BY <1>2, <2>1, <2>2
<1>6. ASSUME NEW c \in Conns, Leave(c) PROVE Goal
  BY <1>2, <1>6, LeaveBusy
<1>7. ASSUME NEW c \in Conns, Passes(c), Knows(conn'[c]) PROVE Goal
  <2>1. Busy' = Busy /\ \A d \in Busy : d # c => conn'[d] = conn[d]
    BY <1>7, PassingBusy DEF Passes, Alone, Busy
  <2> QED BY <1>2, <1>7, <2>1
<1> HIDE DEF Goal
<1>8. ASSUME NEW c \in Conns, Reads(c) PROVE Goal
  <2>1. /\ Passes(c) /\ c \in Busy /\ conn'[c].rq = conn[c].rq
        /\ conn'[c].known = conn[c].known /\ Knows(conn[c])
        /\ conn[c].known.cancelled \subseteq acked.cancelled
        /\ conn[c].known.created \subseteq Present
    <3>1. Passes(c) /\ c \in Busy
      BY <1>8, PassingBusy DEF Reads
    <3>2. Finds(c) /\ acked.created \subseteq Present
      BY <3>1 DEF Found
    <3> QED BY <1>2, <3>1, <3>2 DEF Finds, Passes
  <2>2. SUFFICES Knows(conn'[c])
    BY <1>7, <2>1
  <2>3. CASE Recover(c)
    BY <2>1, <2>3 DEF Recover, LocalsKnown, Local
  <2>4. CASE ListGet(c)
    <3>1. PICK pc, sent, page, more : Moves(c, pc, sent, conn[c].got, page, more)
      BY <2>4, ListGetEffect
    <3>2. conn'[c].got = conn[c].got /\ conn[c].rq.op = "list"
      BY <2>4, <3>1, MovedFields DEF ListGet, At
    <3> QED BY <2>1, <3>2
  <2>5. CASE ListConvert(c)
    <3>1. PICK i, pc, sent, todo, more, got :
            /\ i \in Present /\ Moves(c, pc, sent, got, todo, more)
            /\ got = conn[c].got \cup JobToBatch(i)
      BY <2>5, ListConvertEffect
    <3>2. conn'[c].got = conn[c].got \cup JobToBatch(i) /\ conn[c].rq.op = "list"
      BY <2>5, <3>1, MovedFields DEF ListConvert, At
    <3>3. \A b \in JobToBatch(i) : b[1] \in acked.cancelled => b[2] # "validating"
      BY <3>1, ConvertedKnows
    <3> QED BY <2>1, <3>2, <3>3
  <2>6. CASE Retrieve(c)
    <3>1. conn[c].rq.op = "retrieve" /\ conn[c].rq.id \in IDs
      BY <2>6, BusyRequest DEF Retrieve, At
    <3>2. CASE /\ conn[c].rq.id \notin Present
               /\ Moves(c, "leave", 404, conn[c].got, conn[c].todo, conn[c].more)
      <4>1. conn'[c].got = conn[c].got
        BY <3>2, MovedFields
      <4> QED BY <2>1, <3>1, <3>2, <4>1
    <3>3. CASE Moves(c, "leave", 500, conn[c].got, conn[c].todo, conn[c].more)
      <4>1. conn'[c].got = conn[c].got /\ conn'[c].sent = 500
        BY <3>3, MovedFields
      <4> QED BY <2>1, <3>1, <4>1
    <3>4. CASE /\ conn[c].rq.id \in Present
               /\ Moves(c, "leave", 200, JobToBatch(conn[c].rq.id), conn[c].todo, conn[c].more)
      <4>1. conn'[c].got = JobToBatch(conn[c].rq.id) /\ conn'[c].sent = 200
        BY <3>4, MovedFields
      <4>2. \A b \in conn'[c].got : b[1] \in acked.cancelled => b[2] # "validating"
        BY <3>4, <4>1, ConvertedKnows
      <4> QED BY <2>1, <3>1, <4>1, <4>2
    <3> QED BY <2>6, <3>1, <3>2, <3>3, <3>4, RetrieveEffect
  <2> QED BY <1>8, <2>3, <2>4, <2>5, <2>6 DEF Reads
<1>9. ASSUME NEW c \in Conns, Passes(c), conn[c].rq.op \in {"create", "cancel"} PROVE Goal
  BY <1>7, <1>9 DEF Passes
<1>10. ASSUME NEW c \in Conns, NEW i \in IDs, Creates(c, i) \/ Enqueues(c, i) \/ Looks(c, i)
       PROVE  Goal
  BY <1>9, <1>10 DEF Creates, Enqueues, Looks
<1>11. ASSUME NEW c \in Conns, NEW i \in IDs, NEW s, Withdraws(c, i, s) PROVE Goal
  BY <1>9, <1>11 DEF Withdraws
<1>12. ASSUME NEW c \in Conns, NEW i, NEW s, NEW ptr, NEW len, Marks(c, i, s, ptr, len)
       PROVE  Goal
  BY <1>9, <1>12 DEF Marks
<1> QED BY <1>3, <1>4, <1>5, <1>6, <1>8, <1>10, <1>11, <1>12, EveryStep DEF Goal

\* ErrorNeedsRace is inductive: an unreadable status is a torn one.
LEMMA ErrorStep ==
  ASSUME DataTyped, LocalsKnown, Found, Overlap, Torn, ErrorNeedsRace, [Next]_vars
  PROVE  ErrorNeedsRace'
<1> DEFINE Fails(l) == l.sent = 500 /\ l.rq.op \in {"retrieve", "cancel"}
           Goal == \A d \in Busy' : Fails(conn'[d]) => conn'[d].rq.id \in raced'
<1>1. SUFFICES Goal
  <2>1. \A d \in Conns : Local(conn'[d])
    BY LocalsStep DEF LocalsKnown
  <2>2. ASSUME NEW d \in Busy', conn'[d].sent = 500
        PROVE  \/ conn'[d].rq.op = "create" /\ conn'[d].rq.body.json = "null"
               \/ conn'[d].rq.op \in {"retrieve", "cancel"} /\ conn'[d].rq.id \in raced'
    BY <1>1, <2>1, <2>2 DEF Local, Busy
  <2> QED BY <2>2 DEF ErrorNeedsRace
<1>2. \A d \in Busy : Fails(conn[d]) => conn[d].rq.id \in raced
  BY DEF ErrorNeedsRace
<1>3. CASE Quiet
  BY <1>2, <1>3 DEF Quiet, serveVars, histVars, Busy
<1>4. CASE Reset
  BY <1>4, ResetBusy
<1>5. ASSUME NEW c \in Conns, NEW q \in Asks[c], Arrive(c, q) PROVE Goal
  <2>1. /\ Busy' = Busy \cup {c} /\ \A d \in Busy : conn'[d] = conn[d]
        /\ conn'[c].rq = q /\ raced \subseteq raced'
        /\ q.op \in {"create", "list", "retrieve", "cancel"} => conn'[c].sent \in {0, 400}
    BY <1>5, ArriveBusy, ArriveEffect
  <2>2. ~Fails(conn'[c])
    BY <2>1
  <2> QED BY <1>2, <2>1, <2>2
<1>6. ASSUME NEW c \in Conns, Leave(c) PROVE Goal
  <2>1. raced' = raced
    BY <1>6, LeaveEffect
  <2> QED BY <1>2, <1>6, <2>1, LeaveBusy
<1>7. ASSUME NEW c \in Conns, Passes(c), Fails(conn'[c]) => conn[c].rq.id \in raced PROVE Goal
  <2>1. /\ Busy' = Busy /\ \A d \in Busy : d # c => conn'[d] = conn[d]
        /\ conn'[c].rq = conn[c].rq /\ raced' = raced
    BY <1>7, PassingBusy DEF Passes, Alone, Busy
  <2> QED BY <1>2, <1>7, <2>1
<1> HIDE DEF Goal
<1>8. ASSUME NEW c \in Conns, Reads(c) PROVE Goal
  <2>1. Passes(c) /\ c \in Busy /\ conn'[c].rq = conn[c].rq /\ conn[c].rq.op # "cancel"
    BY <1>8, PassingBusy DEF Reads, Passes
  <2>2. CASE Recover(c) \/ ListGet(c) \/ ListConvert(c)
    <3>1. conn[c].rq.op \in {"create", "list"}
      BY <2>2 DEF Recover, ListGet, ListConvert, At, LocalsKnown, Local
    <3> QED BY <1>7, <2>1, <3>1
  <2>3. CASE Retrieve(c)
    <3>1. conn[c].rq.op = "retrieve" /\ conn[c].rq.id \in IDs /\ conn[c].pc = "get"
      BY <2>3, BusyRequest DEF Retrieve, At
    <3>2. CASE Moves(c, "leave", 404, conn[c].got, conn[c].todo, conn[c].more)
      BY <1>7, <2>1, <3>2, MovedFields
    <3>3. CASE /\ conn[c].rq.id \in Present /\ Read(conn[c].rq.id) = Unreadable
               /\ Moves(c, "leave", 500, conn[c].got, conn[c].todo, conn[c].more)
      <4>1. PICK i \in Present : i = conn[c].rq.id /\ Read(i) = Unreadable
        BY <3>3
      <4>2. i \in Touches(conn[c].rq)
        BY <3>1, <4>1 DEF Touches
      <4>3. i \in raced
        BY <2>1, <3>1, <4>1, <4>2, TornMeansRace
      <4> QED BY <1>7, <2>1, <4>1, <4>3
    <3>4. CASE Moves(c, "leave", 200, JobToBatch(conn[c].rq.id), conn[c].todo, conn[c].more)
      <4>1. conn'[c].sent = 200
        BY <3>4, MovedFields
      <4> QED BY <1>7, <2>1, <4>1
    <3> QED BY <2>3, <3>1, <3>2, <3>3, <3>4, RetrieveEffect
  <2> QED BY <1>8, <2>2, <2>3 DEF Reads
<1>9. ASSUME NEW c \in Conns, NEW i \in IDs, Looks(c, i) PROVE Goal
  <2>1. Passes(c) /\ conn[c].rq.op = "cancel" /\ conn[c].rq.id = i /\ conn[c].pc = "get"
    BY <1>9 DEF Looks
  <2>2. c \in Busy /\ i \in Touches(conn[c].rq)
    BY <2>1, PassingBusy DEF Touches
  <2>3. conn'[c].sent = 500 => i \in Present /\ Read(i) = Unreadable
    BY <1>9 DEF Looks
  <2>4. conn'[c].sent = 500 => i \in raced
    BY <2>1, <2>2, <2>3, TornMeansRace
  <2> QED BY <1>7, <2>1, <2>4
<1>10. ASSUME NEW c \in Conns, NEW i \in IDs, Creates(c, i) \/ Enqueues(c, i) PROVE Goal
  BY <1>7, <1>10 DEF Creates, Enqueues, Passes
<1>11. ASSUME NEW c \in Conns, NEW i \in IDs, NEW s, Withdraws(c, i, s) PROVE Goal
  BY <1>7, <1>11 DEF Withdraws
<1>12. ASSUME NEW c \in Conns, NEW i, NEW s, NEW ptr, NEW len, Marks(c, i, s, ptr, len)
       PROVE  Goal
  BY <1>7, <1>12 DEF Marks
<1> QED BY <1>3, <1>4, <1>5, <1>6, <1>8, <1>9, <1>10, <1>11, <1>12, EveryStep DEF Goal

(***************************************************************************)
(* The page of a list.                                                     *)
(***************************************************************************)
\* A page that covers the batches in S keeps its promise.
Promise(l, S) ==
  IF l.more THEN Cardinality(S) >= l.rq.page.limit ELSE l.known.created \subseteq S

\* A page that is covered stays covered by more.
LEMMA PromiseGrows ==
  ASSUME NEW l, l.rq.page.limit \in 1..100, NEW S, NEW T \in SUBSET IDs, S \subseteq T,
         Promise(l, S)
  PROVE  Promise(l, T)
<1>1. IsFiniteSet(T) /\ S \in SUBSET T
  BY FS_Subset, ServingAssumption
<1>2. /\ Cardinality(S) <= Cardinality(T) /\ Cardinality(T) \in Nat /\ Cardinality(S) \in Nat
  BY <1>1, FS_Subset, FS_CardinalityType
<1>3. CASE l.more
  BY <1>2, <1>3 DEF Promise
<1>4. CASE ~l.more
  BY <1>4 DEF Promise
<1> QED BY <1>3, <1>4

\* ListBatches asks for one record more than the page has.
LEMMA PagePromises ==
  ASSUME DataTyped, NEW jobs \in SUBSET Present, NEW page \in SUBSET Present,
         NEW limit \in 1..100, page \subseteq jobs,
         \/ Cardinality(jobs) = limit + 1
         \/ jobs = Present /\ Cardinality(Present) < limit + 1,
         \/ Cardinality(page) = limit
         \/ page = jobs /\ Cardinality(jobs) < limit
  PROVE  IF Cardinality(jobs) > limit THEN Cardinality(page) >= limit ELSE page = Present
<1>1. IsFiniteSet(Present)
  <2>1. Present \in SUBSET IDs
    BY DEF Present
  <2> QED BY <2>1, FS_Subset, ServingAssumption
<1>2. IsFiniteSet(jobs) /\ page \in SUBSET jobs
  BY <1>1, FS_Subset
<1>3. /\ Cardinality(jobs) \in Nat /\ Cardinality(page) \in Nat
      /\ Cardinality(page) <= Cardinality(jobs)
      /\ Cardinality(jobs) = Cardinality(page) => jobs = page
  <2>1. IsFiniteSet(page)
    BY <1>2, FS_Subset
  <2> QED BY <1>2, <2>1, FS_Subset, FS_CardinalityType
<1>4. CASE Cardinality(jobs) > limit
  BY <1>3, <1>4
<1>5. CASE ~(Cardinality(jobs) > limit)
  <2>1. jobs = Present
    BY <1>3, <1>5
  <2>2. page = jobs
    BY <1>3, <1>5
  <2> QED BY <1>5, <2>1, <2>2
<1> QED BY <1>4, <1>5

\* Lists is inductive: an ID left out is one of an overlap.
LEMMA ListsStep ==
  ASSUME DataTyped, LocalsKnown, Found, Overlap, Torn, Lists, [Next]_vars
  PROVE  Lists'
<1> DEFINE Under(l) == l.rq.op = "list" /\ (l.pc = "convert" \/ l.sent = 200)
           Cover2(d) == {b[1] : b \in conn'[d].got} \cup raced' \cup conn'[d].todo
           Goal == \A d \in Busy' : Under(conn'[d]) => Promise(conn'[d], Cover2(d))
<1>1. SUFFICES Goal
  <2>1. ASSUME NEW d \in Busy', Under(conn'[d])
        PROVE  IF conn'[d].more THEN Cardinality(Covered(d)') >= conn'[d].rq.page.limit
                                ELSE conn'[d].known.created \subseteq Covered(d)'
    BY <1>1, <2>1 DEF Promise, Covered
  <2> QED BY <2>1 DEF Lists
<1>2. \A d \in Busy : Under(conn[d]) => Promise(conn[d], Covered(d))
  BY DEF Lists, Promise
<1>3. ASSUME NEW d \in Busy, Under(conn[d]) PROVE conn[d].rq.page.limit \in 1..100
  BY <1>3 DEF Busy, LocalsKnown, Paged
<1>4. \A d \in Conns : Cover2(d) \subseteq IDs
  <2>1. DataTyped'
    BY DataStep
  <2>2. ASSUME NEW d \in Conns PROVE Cover2(d) \subseteq IDs
    <3>1. /\ conn'[d].got \subseteq IDs \X Statuses /\ conn'[d].todo \subseteq IDs
          /\ raced' \subseteq IDs
      BY <2>1 DEF DataTyped, Locals
    <3> QED BY <3>1
  <2> QED BY <2>2
<1>5. CASE Quiet
  <2>1. Busy' = Busy /\ conn' = conn /\ \A d \in Busy : Cover2(d) = Covered(d)
    BY <1>5 DEF Quiet, serveVars, histVars, Busy, Covered
  <2> HIDE DEF Cover2
  <2> QED BY <1>2, <2>1
<1>6. CASE Reset
  BY <1>6, ResetBusy
<1>7. ASSUME NEW d \in Busy, conn'[d] = conn[d], raced \subseteq raced', Under(conn'[d])
      PROVE  Promise(conn'[d], Cover2(d))
  <2>1. Covered(d) \subseteq Cover2(d)
    BY <1>7 DEF Covered
  <2>2. /\ Promise(conn[d], Covered(d)) /\ conn[d].rq.page.limit \in 1..100
        /\ Cover2(d) \in SUBSET IDs
    BY <1>2, <1>3, <1>4, <1>7 DEF Busy
  <2> HIDE DEF Cover2
  <2> QED BY <1>7, <2>1, <2>2, PromiseGrows
<1>8. ASSUME NEW c \in Conns, NEW q \in Asks[c], Arrive(c, q) PROVE Goal
  <2>1. /\ Busy' = Busy \cup {c} /\ \A d \in Busy : conn'[d] = conn[d]
        /\ conn'[c].rq = q /\ raced \subseteq raced' /\ conn'[c].pc # "convert"
        /\ q.op \in {"create", "list", "retrieve", "cancel"} => conn'[c].sent \in {0, 400}
    BY <1>8, ArriveBusy, ArriveEffect
  <2>2. ~Under(conn'[c])
    BY <2>1
  <2> HIDE DEF Cover2, Under
  <2> QED BY <1>7, <2>1, <2>2
<1>9. ASSUME NEW c \in Conns, Leave(c) PROVE Goal
  <2>1. raced' = raced /\ Busy' = Busy \ {c} /\ \A d \in Busy' : conn'[d] = conn[d]
    BY <1>9, LeaveEffect, LeaveBusy
  <2> HIDE DEF Cover2, Under
  <2> QED BY <1>7, <2>1
<1>10. ASSUME NEW c \in Conns, Passes(c), Under(conn'[c]) => Promise(conn'[c], Cover2(c))
       PROVE  Goal
  <2>1. /\ Busy' = Busy /\ raced' = raced
        /\ \A d \in Busy : d # c => conn'[d] = conn[d]
    BY <1>10, PassingBusy DEF Passes, Alone, Busy
  <2> HIDE DEF Cover2, Under
  <2> QED BY <1>7, <1>10, <2>1
<1>11. ASSUME NEW c \in Conns, Passes(c), conn[c].rq.op # "list" PROVE Goal
  BY <1>10, <1>11 DEF Passes
<1>12. ASSUME NEW c \in Conns, ListGet(c), Passes(c) PROVE Goal
  <2>1. conn[c].rq.op = "list" /\ conn[c].pc = "get" /\ c \in Busy
    BY <1>12, PassingBusy DEF ListGet, At
  <2>2. PICK limit \in 1..100 : limit = conn[c].rq.page.limit
    BY <2>1 DEF LocalsKnown, Paged
  <2>3. PICK jobs \in SUBSET Present, page \in SUBSET Present :
          /\ page \subseteq jobs
          /\ \/ Cardinality(jobs) = limit + 1
             \/ jobs = Present /\ Cardinality(Present) < limit + 1
          /\ \/ Cardinality(page) = limit
             \/ page = jobs /\ Cardinality(jobs) < limit
          /\ \E pc, sent : Moves(c, pc, sent, conn[c].got, page, Cardinality(jobs) > limit)
    BY <1>12, <2>2, ListGetEffect
  <2>4. IF Cardinality(jobs) > limit THEN Cardinality(page) >= limit ELSE page = Present
    BY <2>3, PagePromises
  <2>5. PICK pc, sent, more : /\ more = (Cardinality(jobs) > limit)
                              /\ Moves(c, pc, sent, conn[c].got, page, more)
    BY <2>3, Zenon
  <2>6. /\ conn'[c].todo = page /\ conn'[c].more = more /\ conn'[c].rq = conn[c].rq
        /\ conn'[c].known = conn[c].known
    BY <2>5, MovedFields
  <2>7. conn[c].known.created \subseteq Present
    BY <2>1 DEF Found, Finds
  <2>8. Promise(conn'[c], page)
    <3>1. CASE more
      <4>1. Cardinality(page) >= limit
        BY <2>4, <2>5, <3>1
      <4> QED BY <2>2, <2>6, <3>1, <4>1 DEF Promise
    <3>2. CASE ~more
      <4>1. page = Present
        BY <2>4, <2>5, <3>2
      <4> QED BY <2>6, <2>7, <3>2, <4>1 DEF Promise
    <3> QED BY <2>5, <3>1, <3>2
  <2>9. Promise(conn'[c], Cover2(c))
    <3>1. page \subseteq Cover2(c) /\ Cover2(c) \in SUBSET IDs
      BY <1>4, <2>6
    <3>2. conn'[c].rq.page.limit \in 1..100
      BY <2>2, <2>6
    <3> HIDE DEF Cover2
    <3> QED BY <2>8, <3>1, <3>2, PromiseGrows
  <2> QED BY <1>10, <1>12, <2>9
<1>13. ASSUME NEW c \in Conns, ListConvert(c), Passes(c) PROVE Goal
  <2>1. conn[c].rq.op = "list" /\ conn[c].pc = "convert" /\ c \in Busy
    BY <1>13, PassingBusy DEF ListConvert, At
  <2>2. Promise(conn[c], Covered(c)) /\ conn[c].rq.page.limit \in 1..100
    BY <1>2, <1>3, <2>1
  <2>3. PICK i \in conn[c].todo :
          /\ i \in Present
          /\ \E pc, sent, rest, got :
               /\ rest = conn[c].todo \ {i} /\ got = conn[c].got \cup JobToBatch(i)
               /\ Moves(c, pc, sent, got, rest, conn[c].more)
    BY <1>13, ListConvertEffect
  <2>4. /\ conn'[c].todo = conn[c].todo \ {i} /\ conn'[c].got = conn[c].got \cup JobToBatch(i)
        /\ conn'[c].more = conn[c].more /\ conn'[c].rq = conn[c].rq
        /\ conn'[c].known = conn[c].known /\ raced' = raced
    BY <1>13, <2>3, MovedFields DEF Passes
  <2>5. i \in raced \/ \E b \in JobToBatch(i) : b[1] = i
    <3>1. CASE Read(i) = Unreadable
      <4>1. i \in Touches(conn[c].rq)
        BY <2>1, <2>3 DEF Touches, Present
      <4> QED BY <2>1, <2>3, <3>1, <4>1, TornMeansRace
    <3>2. CASE Read(i) # Unreadable
      <4>1. <<i, Read(i)>> \in JobToBatch(i) /\ <<i, Read(i)>>[1] = i
        BY <3>2 DEF JobToBatch
      <4> QED BY <4>1
    <3> QED BY <3>1, <3>2
  <2>6. Covered(c) \subseteq Cover2(c)
    <3>1. SUFFICES ASSUME NEW x \in Covered(c) PROVE x \in Cover2(c)
      OBVIOUS
    <3>2. CASE \E b \in conn[c].got : x = b[1]
      BY <2>4, <3>2
    <3>3. CASE x \in raced
      BY <2>4, <3>3
    <3>4. CASE x \in conn[c].todo
      <4>1. CASE x = i
        BY <2>4, <2>5, <4>1
      <4>2. CASE x # i
        BY <2>4, <3>4, <4>2
      <4> QED BY <4>1, <4>2
    <3> QED BY <3>1, <3>2, <3>3, <3>4 DEF Covered
  <2>7. Promise(conn[c], Cover2(c))
    <3>1. Cover2(c) \in SUBSET IDs
      BY <1>4
    <3> HIDE DEF Cover2
    <3> QED BY <2>2, <2>6, <3>1, PromiseGrows
  <2>8. Promise(conn'[c], Cover2(c))
    <3> HIDE DEF Cover2
    <3> QED BY <2>4, <2>7 DEF Promise
  <2> QED BY <1>10, <1>13, <2>8
<1> HIDE DEF Goal
<1>14. ASSUME NEW c \in Conns, Reads(c) PROVE Goal
  <2>1. CASE Recover(c) \/ Retrieve(c)
    <3>1. conn[c].rq.op # "list"
      BY <2>1 DEF Recover, Retrieve, At, LocalsKnown, Local
    <3> QED BY <1>11, <1>14, <3>1 DEF Reads
  <2> QED BY <1>12, <1>13, <1>14, <2>1 DEF Reads
<1>15. ASSUME NEW c \in Conns, NEW i \in IDs, Creates(c, i) \/ Enqueues(c, i) \/ Looks(c, i)
       PROVE  Goal
  BY <1>11, <1>15 DEF Creates, Enqueues, Looks
<1>16. ASSUME NEW c \in Conns, NEW i \in IDs, NEW s, Withdraws(c, i, s) PROVE Goal
  BY <1>11, <1>16 DEF Withdraws
<1>17. ASSUME NEW c \in Conns, NEW i, NEW s, NEW ptr, NEW len, Marks(c, i, s, ptr, len)
       PROVE  Goal
  BY <1>11, <1>17 DEF Marks
<1> QED BY <1>5, <1>6, <1>8, <1>9, <1>14, <1>15, <1>16, <1>17, EveryStep DEF Goal

(***************************************************************************)
(* The metrics.                                                            *)
(***************************************************************************)
LEMMA MetricsStep ==
  ASSUME DataTyped, LocalsKnown, Found, MetricsAreExact, [Next]_vars
  PROVE  MetricsAreExact'
<1> DEFINE Inside == {c \in Busy : Counted(conn[c].rq)}
           Inside2 == {c \in Busy' : Counted(conn'[c].rq)}
<1>1. gauge = Cardinality(Inside) /\ IsFiniteSet(Inside)
  <2>1. Inside \in SUBSET Conns
    BY DEF Busy
  <2> QED BY <2>1, FS_Subset, ServingAssumption DEF MetricsAreExact
<1>2. SUFFICES gauge' = Cardinality(Inside2)
  <2>1. LocalsKnown'
    BY LocalsStep
  <2>2. ASSUME NEW c \in Busy', conn'[c].pc = "leave", Counted(conn'[c].rq)
        PROVE  conn'[c].seen = conn'[c].sent
    BY <2>1, <2>2 DEF LocalsKnown, Local, Busy
  <2> QED BY <1>2, <2>2 DEF MetricsAreExact
<1>3. CASE Quiet
  <2>1. Inside2 = Inside /\ gauge' = gauge
    BY <1>3 DEF Quiet, serveVars, Busy
  <2> QED BY <1>1, <2>1
<1>4. CASE Reset
  <2>1. Inside2 = {} /\ gauge' = 0
    BY <1>4, ResetBusy
  <2> QED BY <2>1, FS_EmptySet
<1>5. ASSUME NEW c \in Conns, NEW q \in Asks[c], Arrive(c, q)
      PROVE  gauge' = Cardinality(Inside2)
  <2>1. /\ Busy' = Busy \cup {c} /\ c \notin Busy /\ \A d \in Busy : conn'[d] = conn[d]
        /\ conn'[c].rq = q
    BY <1>5, ArriveBusy, ArriveEffect
  <2>2. gauge' = IF Counted(q) THEN gauge + 1 ELSE gauge
    BY <1>5 DEF Arrive
  <2>3. CASE Counted(q)
    <3>1. Inside2 = Inside \cup {c} /\ c \notin Inside
      BY <2>1, <2>3
    <3> HIDE DEF Inside, Inside2
    <3> QED BY <1>1, <2>2, <2>3, <3>1, FS_AddElement
  <2>4. CASE ~Counted(q)
    <3>1. Inside2 = Inside
      BY <2>1, <2>4
    <3> QED BY <1>1, <2>2, <2>4, <3>1
  <2> QED BY <2>3, <2>4
<1>6. ASSUME NEW c \in Conns, Leave(c) PROVE gauge' = Cardinality(Inside2)
  <2>1. Busy' = Busy \ {c} /\ c \in Busy /\ \A d \in Busy' : conn'[d] = conn[d]
    BY <1>6, LeaveBusy
  <2>2. gauge' = IF Counted(conn[c].rq) THEN gauge - 1 ELSE gauge
    BY <1>6 DEF Leave
  <2>3. CASE Counted(conn[c].rq)
    <3>1. Inside2 = Inside \ {c} /\ c \in Inside
      BY <2>1, <2>3
    <3> HIDE DEF Inside, Inside2
    <3> QED BY <1>1, <2>2, <2>3, <3>1, FS_RemoveElement
  <2>4. CASE ~Counted(conn[c].rq)
    <3>1. Inside2 = Inside
      BY <2>1, <2>4
    <3> QED BY <1>1, <2>2, <2>4, <3>1
  <2> QED BY <2>3, <2>4
<1>7. ASSUME NEW c \in Conns, Passes(c) PROVE gauge' = Cardinality(Inside2)
  <2>1. Busy' = Busy /\ \A d \in Busy : conn'[d].rq = conn[d].rq
    BY <1>7, PassingBusy DEF Busy
  <2>2. Inside2 = Inside /\ gauge' = gauge
    BY <1>7, <2>1 DEF Passes
  <2> QED BY <1>1, <2>2
<1> QED BY <1>3, <1>4, <1>5, <1>6, <1>7, EveryPass

-----------------------------------------------------------------------------
(*                     The invariant and the theorems                      *)

\* A server that has not loaded its configuration satisfies IInv.
LEMMA InitInv == Init => IInv
<1> SUFFICES ASSUME Init PROVE IInv
  OBVIOUS
<1>1. /\ Busy = {} /\ Present = {} /\ \A c \in Conns : conn[c] = Idle
      /\ queue = {} /\ acked = Nothing /\ raced = {} /\ gauge = 0
  BY DEF Init, Busy, Present, Idle
<1>2. DataTyped
  <2>1. Idle \in Locals /\ Nothing \in [created : SUBSET IDs, cancelled : SUBSET IDs]
    BY IdleInOrder DEF Nothing
  <2>2. NoRecord \in [ptr : Statuses \cup {"none"}, len : Statuses \cup {"none"},
                      ttl : Int, slo : Int]
    BY DEF NoRecord
  <2> QED BY <2>1, <2>2 DEF Init, DataTyped
<1>3. ProcTyped
  BY DEF Init, ProcTyped
<1>4. LocalsKnown
  BY <1>1, IdleInOrder DEF LocalsKnown
<1>5. Found /\ Creators /\ Overlap /\ Torn /\ OneTold /\ RecordKept /\ CancelKept /\ ReadsKnow
      /\ Lists /\ ErrorNeedsRace
  BY <1>1 DEF Found, Creators, Overlap, Torn, OneTold, RecordKept, CancelKept, ReadsKnow, Lists,
              ErrorNeedsRace, Nothing
<1>6. Wanted
  BY <1>1 DEF Wanted, Awaited
<1>7. MetricsAreExact
  <2>1. {c \in Busy : Counted(conn[c].rq)} = {}
    BY <1>1
  <2> QED BY <1>1, <2>1, FS_EmptySet DEF MetricsAreExact
<1> QED BY <1>2, <1>3, <1>4, <1>5, <1>6, <1>7 DEF IInv

\* Every step preserves IInv: one lemma for each of its parts.
LEMMA StepInv == IInv /\ [Next]_vars => IInv'
<1> SUFFICES ASSUME IInv, [Next]_vars PROVE IInv'
  OBVIOUS
<1>1. /\ DataTyped /\ ProcTyped /\ LocalsKnown /\ Found /\ Creators /\ Overlap /\ Torn
      /\ Wanted /\ OneTold /\ RecordKept /\ CancelKept /\ ReadsKnow /\ Lists
      /\ MetricsAreExact /\ ErrorNeedsRace
  BY DEF IInv
<1>2. DataTyped' /\ ProcTyped' /\ LocalsKnown' /\ Found' /\ Creators' /\ Overlap' /\ Torn'
  BY <1>1, DataStep, ProcStep, LocalsStep, FoundStep, CreatorsStep, OverlapStep, TornStep
<1>3. Wanted' /\ OneTold' /\ RecordKept' /\ CancelKept' /\ ReadsKnow' /\ Lists'
  BY <1>1, WantedStep, OneToldStep, RecordKeptStep, CancelKeptStep, ReadsKnowStep, ListsStep
<1>4. MetricsAreExact' /\ ErrorNeedsRace'
  BY <1>1, MetricsStep, ErrorStep
<1> QED BY <1>2, <1>3, <1>4 DEF IInv

\* IInv holds as long as the API server runs; the theorems follow from it.
LEMMA Invariance == Spec => []IInv
BY InitInv, StepInv, PTL DEF Spec

(* Every variable keeps its type, and a goroutine has a request exactly    *)
(* while it is not idle, for any number of connections.                    *)
THEOREM ServerTypeCorrect == Spec => []TypeOK
<1>1. IInv => TypeOK
  <2> SUFFICES ASSUME IInv PROVE TypeOK
    OBVIOUS
  <2>1. DataTyped /\ ProcTyped /\ LocalsKnown /\ MetricsAreExact
    BY DEF IInv
  <2>2. ASSUME NEW c \in Conns PROVE conn[c].pc = "idle" <=> conn[c].rq = NoReq
    <3>1. Idle.rq = NoReq
      BY DEF Idle
    <3>2. /\ conn[c].pc = "idle" => conn[c] = Idle
          /\ conn[c].pc # "idle" => conn[c].rq \in Requests
      BY <2>1 DEF LocalsKnown, Local
    <3> QED BY <3>1, <3>2, ServingAssumption
  <2>3. gauge \in 0..Cardinality(Conns)
    <3>1. PICK S \in SUBSET Conns : gauge = Cardinality(S)
      BY <2>1 DEF MetricsAreExact, Busy
    <3>2. /\ Cardinality(S) \in Nat /\ Cardinality(Conns) \in Nat
          /\ Cardinality(S) <= Cardinality(Conns)
      BY FS_Subset, FS_CardinalityType, ServingAssumption
    <3> QED BY <3>1, <3>2
  <2> QED BY <2>1, <2>2, <2>3 DEF TypeOK, DataTyped, ProcTyped
<1> QED BY <1>1, Invariance, PTL

(* The in-flight gauge is the number of requests inside the request        *)
(* middleware, and the status it records is the one that was sent          *)
(* (request_middleware.go:72-76), for any number of requests and whatever  *)
(* panics.                                                                 *)
THEOREM MetricsTellTheTruth == Spec => []MetricsAreExact
<1>1. IInv => MetricsAreExact
  BY DEF IInv
<1> QED BY <1>1, Invariance, PTL

(* Only a null body, or a cancel of the same batch at the same time, makes *)
(* the server answer 500 (batch_handler.go:412 against 49).                *)
THEOREM ErrorsHaveACause == Spec => []ErrorNeedsRace
<1>1. IInv => ErrorNeedsRace
  BY DEF IInv
<1> QED BY <1>1, Invariance, PTL

(* A retrieve or a list shows what the server had acknowledged before it   *)
(* came in (batch_handler.go:308, 245-254).                                *)
THEOREM AcknowledgedIsVisible == Spec => []ReadsSeeAcked
<1>1. IInv => ReadsSeeAcked
  <2> SUFFICES ASSUME IInv PROVE ReadsSeeAcked
    OBVIOUS
  <2>1. ReadsKnow
    BY DEF IInv
  <2> QED BY <2>1 DEF ReadsKnow, ReadsSeeAcked
<1> QED BY <1>1, Invariance, PTL

(* has_more (batch_handler.go:256) is honest, for any number of batches    *)
(* and any page size.                                                      *)
THEOREM HasMoreIsHonest == Spec => []ListIsComplete
<1>1. IInv => ListIsComplete
  <2> SUFFICES ASSUME IInv PROVE ListIsComplete
    OBVIOUS
  <2>1. Lists /\ LocalsKnown
    BY DEF IInv
  <2>2. ASSUME NEW c \in Busy, At(c, "list", "leave"), conn[c].sent = 200
        PROVE  IF conn[c].more
                 THEN Cardinality({b[1] : b \in conn[c].got} \cup raced) >= conn[c].rq.page.limit
                 ELSE conn[c].known.created \subseteq {b[1] : b \in conn[c].got} \cup raced
    <3>1. conn[c].todo = {} /\ conn[c].rq.op = "list"
      BY <2>1, <2>2 DEF At, LocalsKnown, Paged, Busy
    <3>2. Covered(c) = {b[1] : b \in conn[c].got} \cup raced
      BY <3>1 DEF Covered
    <3>3. IF conn[c].more THEN Cardinality(Covered(c)) >= conn[c].rq.page.limit
                          ELSE conn[c].known.created \subseteq Covered(c)
      BY <2>1, <2>2, <3>1 DEF Lists
    <3> QED BY <3>2, <3>3, Zenon
  <2> QED BY <2>2 DEF ListIsComplete
<1> QED BY <1>1, Invariance, PTL

(* Whoever takes an entry from the queue finds its record, and the record  *)
(* does not say cancelled (batch_handler.go:175-187, 379-383).             *)
THEOREM QueueEntriesAreLive == Spec => []QueuedIsLive
<1>1. IInv => QueuedIsLive
  <2> SUFFICES ASSUME IInv, NEW i \in queue PROVE i \in Present /\ Read(i) # "cancelled"
    BY DEF QueuedIsLive
  <2>1. i \in Present /\ i \in IDs /\ Awaited(i) /\ Wanted
    BY DEF IInv, Found, DataTyped, Awaited
  <2>2. rec[i].ptr # "cancelled"
    BY <2>1 DEF Wanted
  <2> QED BY <2>1, <2>2 DEF Read, Unreadable
<1> QED BY <1>1, Invariance, PTL

(* Of any number of cancels of a batch at most one is told that it is      *)
(* cancelled, and the batch is out of the queue for good                   *)
(* (batch_handler.go:372-383).                                             *)
THEOREM OneCancelWithdraws == Spec => []OneWithdraws
<1>1. IInv => OneWithdraws
  <2> SUFFICES ASSUME IInv PROVE OneWithdraws
    OBVIOUS
  <2>1. DataTyped /\ Wanted /\ OneTold /\ LocalsKnown /\ Found
    BY DEF IInv
  <2> DEFINE told(e) == {b \in conn[e].got : conn[e].rq.op = "cancel" /\ b[2] = "cancelled"}
  <2>2. ASSUME NEW e \in Busy, NEW b \in told(e)
        PROVE  /\ b[1] \in IDs /\ b = <<b[1], "cancelled">>
               /\ <<b[1], "cancelled">> \in conn[e].got /\ conn[e].rq.op = "cancel"
    <3>1. conn[e].got \subseteq IDs \X Statuses
      BY <2>1 DEF DataTyped, Locals, Busy
    <3>2. PICK i \in IDs, s \in Statuses : b = <<i, s>>
      BY <2>2, <3>1
    <3>3. b \in conn[e].got /\ conn[e].rq.op = "cancel" /\ b[2] = "cancelled"
      BY <2>2
    <3> QED BY <3>2, <3>3
  <2>3. ASSUME NEW c \in Busy, NEW d \in Busy, c # d PROVE told(c) \cap told(d) = {}
    <3>1. SUFFICES ASSUME NEW b \in told(c), b \in told(d) PROVE FALSE
      OBVIOUS
    <3>2. PICK i \in IDs : i = b[1]
      BY <2>2, <3>1
    <3>3. /\ <<i, "cancelled">> \in conn[c].got /\ conn[c].rq.op = "cancel"
          /\ <<i, "cancelled">> \in conn[d].got /\ conn[d].rq.op = "cancel"
      <4> HIDE DEF told
      <4> QED BY <2>2, <3>1, <3>2
    <3> QED BY <2>1, <2>3, <3>3 DEF OneTold
  <2>4. ASSUME NEW c \in Busy, NEW b \in told(c) PROVE b[1] \notin queue
    <3>1. PICK i \in IDs : i = b[1]
      BY <2>2, <2>4
    <3>2. <<i, "cancelled">> \in conn[c].got /\ conn[c].rq.op = "cancel"
      BY <2>2, <2>4, <3>1
    <3> QED BY <2>1, <3>1, <3>2 DEF Wanted, Awaited
  <2> QED BY <2>3, <2>4 DEF OneWithdraws
<1> QED BY <1>1, Invariance, PTL

(* The record that Store wrote for a batch whose expiry is honoured        *)
(* reaches past its SLO by the shortest expiry (batch_handler.go:158-173), *)
(* for every window that Validate accepts.  A batch without an expiry gets *)
(* the configured TTL, which may end before its SLO.                       *)
THEOREM RecordsOutliveBatches == Spec => []RecordOutlivesBatch
<1>1. IInv => RecordOutlivesBatch
  <2> SUFFICES ASSUME IInv, NEW c \in Busy, At(c, "create", "enqueue")
               PROVE  LET b == conn[c].rq.body
                          r == rec[conn[c].rq.id]
                      IN Anchored(b)
                           => r.ttl * 1000 >= r.slo + (MinExpiry - 1) * 1000
    BY DEF RecordOutlivesBatch
  <2>1. DataTyped /\ LocalsKnown /\ RecordKept /\ c \in Conns
    BY DEF IInv, Busy
  <2>2. PICK b \in CreateBodies : b = conn[c].rq.body /\ Validate(b)
    <3>1. conn[c].pc # "idle" /\ Local(conn[c])
      BY <2>1 DEF LocalsKnown, At
    <3>2. conn[c].rq.body \in CreateBodies
      BY <2>1, <3>1, BusyRequest DEF At
    <3>3. Validate(conn[c].rq.body)
      BY <3>1 DEF Local, At
    <3> QED BY <3>2, <3>3
  <2>3. PICK default \in Int : default = cfg.batchTTLSeconds
    BY <2>1, ServingAssumption DEF DataTyped, ServerConfigs
  <2>4. PICK r : r = rec[conn[c].rq.id] /\ r.ttl = TTL(b, default) /\ r.slo = SLO(b)
    BY <2>1, <2>2, <2>3 DEF RecordKept
  <2>5. ASSUME Anchored(b)
        PROVE  TTL(b, default) * 1000 >= SLO(b) + (MinExpiry - 1) * 1000
    <3>1. CoversWindow(b, default)
      BY ExpiryCoversWindow
    <3> QED BY <2>2, <2>5, <3>1, Zenon DEF CoversWindow
  <2> QED BY <2>2, <2>4, <2>5
<1> QED BY <1>1, Invariance, PTL

=============================================================================
