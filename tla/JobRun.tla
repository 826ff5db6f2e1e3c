------------------------------ MODULE JobRun -------------------------------
(***************************************************************************)
(* The line phase of processJob (internal/processor/worker/worker.go:      *)
(* 263-349): a producer goroutine feeds the lines through an unbuffered    *)
(* channel, the job's goroutine starts one goroutine per line within the   *)
(* bound of a semaphore channel, the line goroutines send inference        *)
(* requests and count the results under a mutex, and the job's goroutine   *)
(* waits for them before it decides the final status.                      *)
(***************************************************************************)
EXTENDS Integers, FiniteSets

CONSTANTS Total,              \* lines of the input file (3 in the code)
          MaxJobConcurrency   \* capacity of the semaphore

ASSUME JobRunAssumption ==
  /\ Total \in Nat
  /\ MaxJobConcurrency \in Nat \ {0}

VARIABLES
  next,        \* the line the producer sends next; Total + 1: none is left
  closed,      \* has the producer closed the channel?
  mpc,         \* where the job's goroutine is
  line,        \* the line it has received
  sem,         \* tokens in the semaphore channel
  wg,          \* the counter of the WaitGroup
  mu,          \* the line whose goroutine holds the mutex; 0: nobody
  gpc,         \* gpc[l]: where the goroutine of line l is
  gres,        \* gres[l]: the result of its request, if it has one
  gread,       \* gread[l]: the counter value it has read
  succeeded, failed,   \* metadata
  ctxDone      \* has the processor been signalled?

producerVars == <<next, closed>>
mainVars == <<mpc, line>>
metadata == <<succeeded, failed>>
lineVars == <<gpc, gres, gread>>
vars == <<producerVars, mainVars, sem, wg, mu, lineVars, metadata, ctxDone>>

Lines == 1..Total

MainPC == {"receive", "select", "wait", "decided", "returned"}

\* "none": not started; "gone": its defers have run.
LinePC == {"none", "check", "generate", "lock", "read", "write",
           "unlock", "semrelease", "wgdone", "gone"}

\* Between the acquired token and the return of the token.
Active == {l \in Lines : gpc[l] \notin {"none", "wgdone", "gone"}}

\* Lines whose result is in metadata.
Counted == {l \in Lines : gpc[l] \in {"unlock", "semrelease", "wgdone", "gone"}
                          /\ gres[l] # "none"}

TypeOK ==
  /\ next \in 1..(Total + 1)
  /\ closed \in BOOLEAN
  /\ mpc \in MainPC
  /\ line \in 0..Total
  /\ sem \in 0..MaxJobConcurrency
  /\ wg \in Nat
  /\ mu \in 0..Total
  /\ gpc \in [Lines -> LinePC]
  /\ gres \in [Lines -> {"none", "ok", "error"}]
  /\ gread \in [Lines -> Nat]
  /\ succeeded \in Nat
  /\ failed \in Nat
  /\ ctxDone \in BOOLEAN

Init ==
  /\ next = 1
  /\ closed = FALSE
  /\ mpc = "receive"
  /\ line = 0
  /\ sem = 0
  /\ wg = 0
  /\ mu = 0
  /\ gpc = [l \in Lines |-> "none"]
  /\ gres = [l \in Lines |-> "none"]
  /\ gread = [l \in Lines |-> 0]
  /\ succeeded = 0
  /\ failed = 0
  /\ ctxDone = FALSE

\* JobResultMetadata.Validate
Validate == succeeded + failed = Total

-----------------------------------------------------------------------------
\* The producer and the job's goroutine.

\* The channel is unbuffered: sending and receiving a line is one step.
Receive ==
  /\ mpc = "receive"
  /\ next <= Total
  /\ line' = next
  /\ next' = next + 1
  /\ mpc' = "select"
  /\ UNCHANGED <<closed, sem, wg, mu, lineVars, metadata, ctxDone>>

CloseChan ==
  /\ next = Total + 1
  /\ ~closed
  /\ closed' = TRUE
  /\ UNCHANGED <<next, mainVars, sem, wg, mu, lineVars, metadata, ctxDone>>

RangeEnds ==
  /\ mpc = "receive"
  /\ closed
  /\ mpc' = "wait"
  /\ UNCHANGED <<producerVars, line, sem, wg, mu, lineVars, metadata, ctxDone>>

\* The select: return at once when the context is done ...
ReturnEarly ==
  /\ mpc = "select"
  /\ ctxDone
  /\ mpc' = "returned"
  /\ UNCHANGED <<producerVars, line, sem, wg, mu, lineVars, metadata, ctxDone>>

\* Mutants of StartLine: without the semaphore; without wg.Add(1).
StartLine_unbounded ==
  /\ mpc = "select"
  /\ wg' = wg + 1
  /\ gpc' = [gpc EXCEPT ![line] = "check"]
  /\ mpc' = "receive"
  /\ UNCHANGED <<producerVars, line, sem, mu, gres, gread, metadata, ctxDone>>

StartLine_noAdd ==
  /\ mpc = "select"
  /\ sem < MaxJobConcurrency
  /\ sem' = sem + 1
  /\ gpc' = [gpc EXCEPT ![line] = "check"]
  /\ mpc' = "receive"
  /\ UNCHANGED <<producerVars, line, wg, mu, gres, gread, metadata, ctxDone>>

\* ... or take a token, wg.Add(1), and start the line's goroutine.
StartLine ==
  /\ mpc = "select"
  /\ sem < MaxJobConcurrency
  /\ sem' = sem + 1
  /\ wg' = wg + 1
  /\ gpc' = [gpc EXCEPT ![line] = "check"]
  /\ mpc' = "receive"
  /\ UNCHANGED <<producerVars, line, mu, gres, gread, metadata, ctxDone>>

\* Mutant of Decide: wg.Wait() is missing.
Decide_early ==
  /\ mpc = "wait"
  /\ mpc' = "decided"
  /\ UNCHANGED <<producerVars, line, sem, wg, mu, lineVars, metadata, ctxDone>>

\* wg.Wait() returns; the final status is decided.
Decide ==
  /\ mpc = "wait"
  /\ wg = 0
  /\ mpc' = "decided"
  /\ UNCHANGED <<producerVars, line, sem, wg, mu, lineVars, metadata, ctxDone>>

-----------------------------------------------------------------------------
\* The goroutine of line l.

\* A line that finds the context done goes straight to its defers.
Check(l) ==
  /\ gpc[l] = "check"
  /\ gpc' = [gpc EXCEPT ![l] = IF ctxDone THEN "semrelease" ELSE "generate"]
  /\ UNCHANGED <<producerVars, mainVars, sem, wg, mu, gres, gread, metadata, ctxDone>>

\* Generate returns with a response or an error (module InferenceClient).
Generate(l) ==
  /\ gpc[l] = "generate"
  /\ \E r \in {"ok", "error"} : gres' = [gres EXCEPT ![l] = r]
  /\ gpc' = [gpc EXCEPT ![l] = "lock"]
  /\ UNCHANGED <<producerVars, mainVars, sem, wg, mu, gread, metadata, ctxDone>>

\* Mutant of Lock: the counters are not protected.
Lock_none(l) ==
  /\ gpc[l] = "lock"
  /\ gpc' = [gpc EXCEPT ![l] = "read"]
  /\ UNCHANGED <<producerVars, mainVars, sem, wg, mu, gres, gread, metadata, ctxDone>>

\* mu.Lock()
Lock(l) ==
  /\ gpc[l] = "lock"
  /\ mu = 0
  /\ mu' = l
  /\ gpc' = [gpc EXCEPT ![l] = "read"]
  /\ UNCHANGED <<producerVars, mainVars, sem, wg, gres, gread, metadata, ctxDone>>

\* The counter the result goes to.
Counter(l) == IF gres[l] = "error" THEN failed ELSE succeeded

\* metadata.Failed++ or metadata.Succeeded++: a read, then a write.
Read(l) ==
  /\ gpc[l] = "read"
  /\ gread' = [gread EXCEPT ![l] = Counter(l)]
  /\ gpc' = [gpc EXCEPT ![l] = "write"]
  /\ UNCHANGED <<producerVars, mainVars, sem, wg, mu, gres, metadata, ctxDone>>

Write(l) ==
  /\ gpc[l] = "write"
  /\ IF gres[l] = "error"
       THEN failed' = gread[l] + 1 /\ UNCHANGED succeeded
       ELSE succeeded' = gread[l] + 1 /\ UNCHANGED failed
  /\ gpc' = [gpc EXCEPT ![l] = "unlock"]
  /\ UNCHANGED <<producerVars, mainVars, sem, wg, mu, gres, gread, ctxDone>>

\* Mutants: Unlock and SemRelease give nothing back.
Unlock_never(l) ==
  /\ gpc[l] = "unlock"
  /\ gpc' = [gpc EXCEPT ![l] = "semrelease"]
  /\ UNCHANGED <<producerVars, mainVars, sem, wg, mu, gres, gread, metadata, ctxDone>>

SemRelease_never(l) ==
  /\ gpc[l] = "semrelease"
  /\ gpc' = [gpc EXCEPT ![l] = "wgdone"]
  /\ UNCHANGED <<producerVars, mainVars, sem, wg, mu, gres, gread, metadata, ctxDone>>

\* The deferred calls, last in first out: mu.Unlock(), <-sem, wg.Done().
Unlock(l) ==
  /\ gpc[l] = "unlock"
  /\ mu' = 0
  /\ gpc' = [gpc EXCEPT ![l] = "semrelease"]
  /\ UNCHANGED <<producerVars, mainVars, sem, wg, gres, gread, metadata, ctxDone>>

SemRelease(l) ==
  /\ gpc[l] = "semrelease"
  /\ sem > 0
  /\ sem' = sem - 1
  /\ gpc' = [gpc EXCEPT ![l] = "wgdone"]
  /\ UNCHANGED <<producerVars, mainVars, wg, mu, gres, gread, metadata, ctxDone>>

WgDone(l) ==
  /\ gpc[l] = "wgdone"
  /\ wg' = wg - 1
  /\ gpc' = [gpc EXCEPT ![l] = "gone"]
  /\ UNCHANGED <<producerVars, mainVars, sem, mu, gres, gread, metadata, ctxDone>>

\* The process receives its shutdown signal.
Shutdown ==
  /\ ~ctxDone
  /\ ctxDone' = TRUE
  /\ UNCHANGED <<producerVars, mainVars, sem, wg, mu, lineVars, metadata>>

LineNext(l) ==
  \/ Check(l) \/ Generate(l) \/ Lock(l) \/ Read(l) \/ Write(l)
  \/ Unlock(l) \/ SemRelease(l) \/ WgDone(l)

MainNext == Receive \/ RangeEnds \/ ReturnEarly \/ StartLine \/ Decide

Next == MainNext \/ CloseChan \/ Shutdown \/ \E l \in Lines : LineNext(l)

Spec == Init /\ [][Next]_vars

(* Goroutines that can go on do.  Generate returns: every attempt has a    *)
(* timeout and the retries are bounded.  Nothing is assumed of Shutdown.   *)
FairSpec ==
  /\ Spec
  /\ WF_vars(MainNext) /\ WF_vars(CloseChan)
  /\ \A l \in Lines : WF_vars(LineNext(l))

-----------------------------------------------------------------------------

(* The semaphore bounds what a job has in flight: at most                  *)
(* MaxJobConcurrency line goroutines hold a request or its result          *)
(* (config.go:36 "how many lines within a single job are processed         *)
(* concurrently"), also while the defers give tokens back (worker.go:303). *)
ConcurrencyBound == Cardinality(Active) <= MaxJobConcurrency

(* No update of metadata is lost or doubled: the counters are at all times *)
(* the numbers of counted results of each kind, also while a goroutine is  *)
(* between its read and its write (worker.go:322-335).                     *)
CountsExact ==
  /\ succeeded = Cardinality({l \in Counted : gres[l] = "ok"})
  /\ failed = Cardinality({l \in Counted : gres[l] = "error"})

(* The line phase keeps its promise to processJob: it decides the final    *)
(* status only when every line is counted or the context is done, and      *)
(* nothing changes metadata after the decision (worker.go:339-349).        *)
Phase == INSTANCE LinePhase WITH
  phase <- CASE mpc = "decided"  -> "finished"
             [] mpc = "returned" -> "aborted"
             [] OTHER            -> "working",
  counted <- succeeded + failed,
  interrupted <- ctxDone

PhaseSpec == Phase!Spec

(* The job's goroutine comes to its end (worker.go:292-339): no line, no   *)
(* token and no lock is waited for forever, with or without a shutdown.    *)
JobEnds == <>(mpc \in {"decided", "returned"})

(* The line goroutines end and give everything back, also the ones that an *)
(* early return (worker.go:296) leaves behind.                             *)
LinesEnd == <>[](Active = {} /\ sem = 0 /\ mu = 0 /\ wg = 0)
=============================================================================
