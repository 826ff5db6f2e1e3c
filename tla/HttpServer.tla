----------------------------- MODULE HttpServer -----------------------------
(***************************************************************************)
(* The API server process: main (cmd/apiserver/main.go), Server.Start and  *)
(* the signals (interrupt.go), around the serving of requests.  A process  *)
(* that has ended stays ended; its memory, and with it the stores, is gone.*)
(***************************************************************************)
EXTENDS RequestServing

serveVars == <<conn, gauge, dataVars, histVars>>

\* How a process ends.
Ended == {"loadFailed", "startFailed", "serveFailed", "killed", "returned"}

Alive == phase \notin Ended

\* The end: every goroutine goes, wherever it is, and the memory with it.
End(how) ==
  /\ phase' = how
  /\ cut' = Busy
  /\ conn' = [c \in Conns |-> Idle]
  /\ gauge' = 0
  /\ rec' = [i \in IDs |-> NoRecord]
  /\ queue' = {}
  /\ acked' = Nothing
  /\ raced' = {}
  /\ UNCHANGED <<cfg, signals, shut>>

-----------------------------------------------------------------------------
\* main: load the configuration, or klog.Fatalf.
Load ==
  /\ phase = "load"
  /\ IF LoadSucceeds(cfg)
       THEN phase' = "start" /\ UNCHANGED <<cfg, signals, shut, cut, serveVars>>
       ELSE End("loadFailed")

(* Start: listen, which may fail, and set TLS up; then the goroutine that  *)
(* waits for the context, and Serve.                                       *)
Start ==
  /\ phase = "start"
  /\ \/ End("startFailed")
     \/ /\ TLSMode(cfg) # "error"
        /\ phase' = "serve"
        /\ shut' = "waiting"
        /\ UNCHANGED <<cfg, signals, cut, serveVars>>

\* Accept fails for good: Serve and Start return the error.
ServeFails == phase = "serve" /\ shut = "waiting" /\ End("serveFailed")

-----------------------------------------------------------------------------
\* Signals and shutdown

(* Before ContextWithSignal a signal ends the process; then the first one  *)
(* cancels the context and the second one exits.                           *)
Signal ==
  /\ Alive
  /\ IF phase = "load" \/ signals = 1
       THEN End("killed")
       ELSE signals' = 1 /\ UNCHANGED <<phase, cfg, shut, cut, serveVars>>

\* Mutant of Shutdown: the requests in flight first, then the listener.
Shutdown_whenIdle ==
  /\ phase = "serve" /\ shut = "waiting" /\ signals > 0
  /\ Busy = {}
  /\ shut' = "draining"
  /\ UNCHANGED <<phase, cfg, signals, cut, serveVars>>

(* The goroutine sees the context and calls Shutdown, which closes the     *)
(* listener and the idle connections before it waits.                      *)
Shutdown ==
  /\ phase = "serve" /\ shut = "waiting" /\ signals > 0
  /\ shut' = "draining"
  /\ UNCHANGED <<phase, cfg, signals, cut, serveVars>>

\* It waits until no connection is busy, or for 60 seconds.
ShutdownReturns ==
  /\ phase = "serve" /\ shut = "draining"
  /\ shut' \in IF Busy = {} THEN {"done"} ELSE {"timeout"}
  /\ UNCHANGED <<phase, cfg, signals, cut, serveVars>>

\* Serve returns ErrServerClosed once Shutdown has begun; Start and main too.
MainReturns ==
  /\ phase = "serve" /\ shut \in {"draining", "done", "timeout"}
  /\ End("returned")

-----------------------------------------------------------------------------

Serving(c) == Alive /\ Step(c)

Next ==
  \/ Load \/ Start \/ ServeFails
  \/ Signal \/ Shutdown \/ ShutdownReturns \/ MainReturns
  \/ \E c \in Conns : \/ \E q \in Asks[c] : Arrive(c, q)
                      \/ Serving(c)

Spec == Init /\ [][Next]_vars

(* Fairness: main, the goroutine of the shutdown and those of the requests *)
(* go on when they can.  Nothing is assumed of clients and signals, nor of *)
(* the 60 seconds.                                                         *)
Fairness ==
  /\ WF_vars(Load \/ Start \/ MainReturns)
  /\ WF_vars(Shutdown)
  /\ \A c \in Conns : WF_vars(Serving(c))

FairSpec == Spec /\ Fairness

-----------------------------------------------------------------------------
(*                              Safety                                     *)

Locals ==
  [rq : Requests \cup {NoReq},
   pc : {"idle", "panic", "leave", "store", "enqueue", "get", "convert",
         "remove", "mark", "ptr", "len"},
   sent : {0, 200, 204, 400, 404, 500, 501},
   seen : {0, 200, 204, 400, 404, 500, 501},
   got : SUBSET (IDs \X Statuses),
   todo : SUBSET IDs,
   more : BOOLEAN,
   known : [created : SUBSET IDs, cancelled : SUBSET IDs]]

\* Every variable keeps its type; no goroutine is left without a request.
TypeOK ==
  /\ phase \in Ended \cup {"load", "start", "serve"}
  /\ cfg \in Configs
  /\ signals \in 0..1
  /\ shut \in {"none", "waiting", "draining", "done", "timeout"}
  /\ conn \in [Conns -> Locals]
  /\ \A c \in Conns : conn[c].pc = "idle" <=> conn[c].rq = NoReq
  /\ gauge \in 0..Cardinality(Conns)
  /\ rec \in [IDs -> [ptr : Statuses \cup {"none"}, len : Statuses \cup {"none"},
                      ttl : Int, slo : Int]]
  /\ queue \subseteq IDs
  /\ acked \in [created : SUBSET IDs, cancelled : SUBSET IDs]
  /\ raced \subseteq IDs
  /\ cut \subseteq Conns

(* The metrics tell the truth: the gauge is the number of requests inside  *)
(* the request middleware, also after panics and preflights, and the       *)
(* status that RecordRequestFinish is about to count                       *)
(* (request_middleware.go:72-76) is the one the client gets.  Both depend  *)
(* on the order of the layers (server.go:146-154).                         *)
MetricsAreExact ==
  /\ gauge = Cardinality({c \in Busy : Counted(conn[c].rq)})
  /\ \A c \in Busy :
       conn[c].pc = "leave" /\ Counted(conn[c].rq) => conn[c].seen = conn[c].sent

(* An internal error has a cause: the panic on a null body, or a cancel    *)
(* that ran at the same time on the same batch and left the two words of   *)
(* its status apart (batch_handler.go:412 against 49).  Requests that do   *)
(* not overlap never meet one.                                             *)
ErrorNeedsRace ==
  \A c \in Busy :
    conn[c].sent = 500 =>
      LET q == conn[c].rq IN
      \/ q.op = "create" /\ q.body.json = "null"
      \/ q.op \in {"retrieve", "cancel"} /\ q.id \in raced

(* A read shows what the server has acknowledged before the read began: a  *)
(* created batch is found (batch_handler.go:308), and a cancelled one is   *)
(* never shown as validating.                                              *)
ReadsSeeAcked ==
  \A c \in Busy :
    LET l == conn[c] IN
    l.pc = "leave" =>
      /\ l.rq.op = "retrieve" /\ l.rq.id \in l.known.created => l.sent # 404
      /\ l.rq.op \in {"retrieve", "list"}
           => \A b \in l.got : b[1] \in l.known.cancelled => b[2] # "validating"

(* has_more (batch_handler.go:256) is honest: a list that says there is no *)
(* more has every batch acknowledged before it began, and one that says    *)
(* there is more is a full page; only batches with a cancel under way may  *)
(* be missing.                                                             *)
ListIsComplete ==
  \A c \in Busy :
    LET l == conn[c]
        listed == {b[1] : b \in l.got}
    IN At(c, "list", "leave") /\ l.sent = 200 =>
         IF l.more THEN Cardinality(listed \cup raced) >= l.rq.page.limit
                   ELSE l.known.created \subseteq listed \cup raced

(* A queue entry always has its record, and the record does not say        *)
(* cancelled: whoever takes the entry finds the batch, and the batch is    *)
(* still wanted (batch_handler.go:175-187, 379-383).  It may say           *)
(* cancelling, when a cancel came between Store and Enqueue.               *)
QueuedIsLive ==
  \A i \in queue : i \in Present /\ Read(i) # "cancelled"

(* Of two cancels at most one is told "cancelled", and only about a batch  *)
(* that will not be processed: the entry is gone for good                  *)
(* (batch_handler.go:372-383).                                             *)
OneWithdraws ==
  \A c, d \in Busy :
    LET told(e) == {b \in conn[e].got : conn[e].rq.op = "cancel" /\ b[2] = "cancelled"}
    IN /\ c # d => told(c) \cap told(d) = {}
       /\ \A b \in told(c) : b[1] \notin queue

(* The record of a batch whose expiry is honoured outlives its window:     *)
(* what Store has written for the request (batch_handler.go:158-173) is    *)
(* kept past the SLO by the shortest expiry, however the fraction of a     *)
(* second, of a negative window too, is cut off.  It says nothing of a     *)
(* batch without such an expiry: the configured TTL may end before its SLO.*)
RecordOutlivesBatch ==
  \A c \in Busy :
    At(c, "create", "enqueue") =>
      LET b == conn[c].rq.body
          r == rec[conn[c].rq.id]
      IN Anchored(b) => r.ttl * 1000 >= r.slo + (MinExpiry - 1) * 1000

(* The "graceful termination" of server.go:91: after one signal, and       *)
(* unless the 60 seconds are over, no request in flight is cut off.        *)
ShutdownWaits == phase = "returned" /\ shut # "timeout" => cut = {}

-----------------------------------------------------------------------------
(*                              Liveness                                   *)

(* Every request is answered, whatever the others do to the records it     *)
(* reads, unless the process ends.                                         *)
RequestEnds ==
  \A c \in Conns : conn[c].pc # "idle" ~> conn[c].pc = "idle"

(* A signal ends the process (interrupt.go:25-32, server.go:92-118), with  *)
(* requests still coming in until Shutdown begins.                         *)
SignalEnds == signals > 0 ~> ~Alive
=============================================================================
