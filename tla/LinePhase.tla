----------------------------- MODULE LinePhase -----------------------------
(***************************************************************************)
(* What the line phase of a job promises to the rest of processJob: it     *)
(* finishes with every line counted once, succeeded or failed.  Only a     *)
(* shutdown lets it finish with fewer lines counted, or not finish at all. *)
(* Nothing is counted after the final status has been decided.             *)
(***************************************************************************)
EXTENDS Naturals

CONSTANT Total            \* the lines of the job

VARIABLES phase,          \* "working", "finished" or "aborted"
          counted,        \* lines in metadata.Succeeded or metadata.Failed
          interrupted     \* has the context been cancelled?

vars == <<phase, counted, interrupted>>

Init == phase = "working" /\ counted = 0 /\ interrupted = FALSE

\* Goroutines left behind by an abort may still count their lines.
Count ==
  /\ phase # "finished"
  /\ counted < Total
  /\ counted' = counted + 1
  /\ UNCHANGED <<phase, interrupted>>

Finish ==
  /\ phase = "working"
  /\ counted = Total \/ interrupted
  /\ phase' = "finished"
  /\ UNCHANGED <<counted, interrupted>>

Abort ==
  /\ phase = "working"
  /\ interrupted
  /\ phase' = "aborted"
  /\ UNCHANGED <<counted, interrupted>>

Interrupt == interrupted' = TRUE /\ UNCHANGED <<phase, counted>>

Next == Count \/ Finish \/ Abort \/ Interrupt

Spec == Init /\ [][Next]_vars
=============================================================================
