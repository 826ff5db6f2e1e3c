---------------------------- MODULE MCHttpServer ----------------------------
(***************************************************************************)
(* Small instances of HttpServer.                                          *)
(***************************************************************************)
EXTENDS HttpServer

Duration(ms) == [text |-> "duration", ms |-> ms]
NoExpiry == [given |-> FALSE, anchor |-> "", seconds |-> 0]
ExpiresAfter(seconds) ==
  [given |-> TRUE, anchor |-> "created_at", seconds |-> seconds]

Body(window, expiry) ==
  [json |-> "object", window |-> window, endpoint |-> "/v1/completions",
   inputFile |-> TRUE, expiry |-> expiry]

\* Two that pass: a fraction of a second with the shortest expiry, and a day
\* with none.  Neighbours that do not, and the one that makes Validate panic.
ShortBody == Body(Duration(1500), ExpiresAfter(3600))
DayBody == Body(Duration(86400000), NoExpiry)

MCBodies ==
  {ShortBody, DayBody,
   [ShortBody EXCEPT !.json = "null"],
   [ShortBody EXCEPT !.json = "malformed"],
   [ShortBody EXCEPT !.endpoint = "other"],
   [ShortBody EXCEPT !.expiry = ExpiresAfter(3599)]}

\* What int(d.Seconds()) promises, for durations of either sign: the whole
\* seconds are within a second of the duration and never further from zero.
ASSUME WholeSecondsTruncates ==
  \A ms \in -2001..2001 :
    LET s == WholeSeconds(ms)
    IN /\ (s - 1) * 1000 < ms /\ ms < (s + 1) * 1000
       /\ s > 0 => s * 1000 <= ms
       /\ s < 0 => ms <= s * 1000

Config == [file |-> "ok", port |-> TRUE, cert |-> "unset", key |-> "unset",
           pair |-> FALSE, batchTTLSeconds |-> 2592000]

\* One that serves, and others that fail in Load or in Start.
MCConfigs ==
  {Config,
   [Config EXCEPT !.file = "malformed"],
   [Config EXCEPT !.cert = "there"],
   [Config EXCEPT !.cert = "there", !.key = "missing"],
   [Config EXCEPT !.cert = "there", !.key = "there"]}

MCPages == {[limit |-> 1, after |-> 0], [limit |-> 20, after |-> 0],
            [limit |-> 0, after |-> 0], [limit |-> 20, after |-> NotInt]}

CONSTANTS i1, c1

(* Every operation comes in on c1; on the others only what changes a       *)
(* record that c1 may look at.  Reads of two connections have nothing to   *)
(* do with one another, and the IDs are interchangeable.                   *)
MCAsks ==
  [c \in Conns |->
     IF c = c1 THEN {q \in Requests : q.op = "create" => q.body # DayBody}
     ELSE {q \in Requests : \/ q.op = "cancel" /\ q.id = i1
                            \/ q.op = "create" /\ q.body = DayBody}]
=============================================================================
