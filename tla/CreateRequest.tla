--------------------------- MODULE CreateRequest ---------------------------
(***************************************************************************)
(* The body of a create request: its decoding and validation               *)
(* (openai/batch.go, CreateBatchRequest.Validate), and the SLO and the TTL *)
(* that CreateBatch computes from it (batch_handler.go:149-173).  Pure     *)
(* operators; HttpServer uses them.                                        *)
(*                                                                         *)
(* A duration is its number of milliseconds, which may be negative: the    *)
(* window is whatever time.ParseDuration accepts ("-2h", "1.5s").  Names   *)
(* of files and endpoints are abstract; Metadata is not looked at.         *)
(***************************************************************************)
EXTENDS Integers

\* The endpoints Validate accepts, and the bounds on output_expires_after.
ValidEndpoints == {"/v1/responses", "/v1/chat/completions", "/v1/embeddings",
                   "/v1/completions", "/v1/moderations"}
MinExpiry == 3600
MaxExpiry == 2592000

(* What json.Decode makes of a body: an error ("malformed"), a nil request *)
(* for the JSON text null, or the fields, where an absent one is "".       *)
Windows == [text : {"", "unparsable", "duration"}, ms : Int]
Expiries == [given : BOOLEAN, anchor : {"", "created_at", "other"}, seconds : Int]
CreateBodies ==
  [json : {"malformed", "null", "object"}, window : Windows,
   endpoint : ValidEndpoints \cup {"", "other"}, inputFile : BOOLEAN,
   expiry : Expiries]

WindowValid(w) == w.text = "duration"

EndpointValid(e) == e \in ValidEndpoints

\* Any anchor but the empty one passes; only "created_at" has an effect.
ExpiryValid(x) ==
  x.given => x.anchor # "" /\ x.seconds >= MinExpiry /\ x.seconds <= MaxExpiry

\* CreateBatchRequest.Validate on a request that is not nil.
Validate(b) ==
  /\ WindowValid(b.window)
  /\ EndpointValid(b.endpoint)
  /\ b.inputFile
  /\ ExpiryValid(b.expiry)

-----------------------------------------------------------------------------
\* int(d.Seconds()): towards zero.
WholeSeconds(ms) == IF ms >= 0 THEN ms \div 1000 ELSE -((-ms) \div 1000)

(* The expiry counts from the end of the window, the latest time at which  *)
(* the output can come into being.                                         *)
Anchored(b) == b.expiry.given /\ b.expiry.anchor \in {"", "created_at"}

\* Mutant of TTL: the expiry counts from the creation of the batch.
TTL_fromCreation(b, default) ==
  IF Anchored(b) THEN b.expiry.seconds ELSE default

\* The TTL of the record, in seconds.
TTL(b, default) ==
  IF Anchored(b) THEN WholeSeconds(b.window.ms) + b.expiry.seconds ELSE default

\* The SLO, in milliseconds after the creation.
SLO(b) == b.window.ms

(* BatchJob.IsValid on what CreateBatch stores: the ID is never empty and  *)
(* the SLO never the zero time.  No code calls it.                         *)
IsValid(job) == job.ttl > 0

(* A record outlives its batch when CreateBatch honours the expiry the     *)
(* client asked for: the TTL (batch_handler.go:162) reaches past the SLO   *)
(* by at least the shortest expiry, less the second that its whole seconds *)
(* leave out.  Without an expiry, or with another anchor, the TTL is the   *)
(* configured one, which may end before the SLO.                           *)
CoversWindow(b, default) ==
  Validate(b) /\ Anchored(b)
    => TTL(b, default) * 1000 >= SLO(b) + (MinExpiry - 1) * 1000
=============================================================================
