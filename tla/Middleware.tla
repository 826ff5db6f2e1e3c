----------------------------- MODULE Middleware -----------------------------
(***************************************************************************)
(* Routing and the middleware around every handler of the API server       *)
(* (server.go:121-157 and internal/apiserver/middleware).  The layers call *)
(* one another in the order of Chain, outermost first, and unwind in the   *)
(* other order; which answers the metrics see depends on that order.       *)
(*                                                                         *)
(* A request is a record whose op says what it asks for; see HttpServer    *)
(* for the fields of the batch operations.                                 *)
(***************************************************************************)
EXTENDS Naturals, Sequences

\* Mutant of Chain: the recovery wraps the request middleware.
Chain_recoveryOutside == <<"security", "recovery", "request">>

\* buildHandler: security headers, request (ID, log, metrics), recovery.
Chain == <<"security", "request", "recovery">>

\* How deep a layer is; the handlers are inside all of them.
Depth(layer) ==
  IF layer = "handler" THEN Len(Chain) + 1
  ELSE CHOOSE i \in DOMAIN Chain : Chain[i] = layer

\* A layer writes through the request middleware's responseWriter.
ThroughWriter(layer) == Depth("request") < Depth(layer)

\* RequestMiddleware passes /health and /metrics on, uncounted.
Skipped(q) == q.op \in {"health", "metrics"}

(* Does RecordRequestStart count the request?  A CORS preflight is         *)
(* answered by the security layer, which calls no further one.             *)
Counted(q) ==
  /\ ~Skipped(q)
  /\ q.op = "options" => Depth("request") < Depth("security")

(* The status the responseWriter has when a layer answers with code: what  *)
(* it was given, or its initial 200 when the answer went past it.          *)
StatusSeen(layer, code) == IF ThroughWriter(layer) THEN code ELSE 200

-----------------------------------------------------------------------------
\* The requests that need no store, and their answers.

\* OPTIONS, on any path: the security layer answers a CORS preflight.
Preflight == 204

\* GET and HEAD of /health.
Health == 200

\* GET of /metrics: whatever promhttp has collected.
MetricsPage == 200

\* The five operations of the files API.
NotImplemented == 501

\* No registered route has the path.
NoRoute == 404

\* What the mux has for them.
FixedAnswer ==
  [options |-> Preflight, health |-> Health, metrics |-> MetricsPage,
   file |-> NotImplemented, unrouted |-> NoRoute]

\* The layer that writes a fixed answer.
AnsweredBy(q) == IF q.op = "options" THEN "security" ELSE "handler"
=============================================================================
