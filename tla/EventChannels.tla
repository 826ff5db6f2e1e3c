--------------------------- MODULE EventChannels ---------------------------
(***************************************************************************)
(* The event channels of jobs: BatchEventChannelClient of                  *)
(* internal/database/api/database.go, by the one implementation the        *)
(* repository has (internal/database/mock/mock_event_client.go).           *)
(*                                                                         *)
(* A consumer opens a buffered channel for a job and closes it when it is  *)
(* done; producers send events to all channels of a job.  Everything that  *)
(* changes the map of channels holds the write lock, so it is one step.  A *)
(* producer holds the read lock: other producers and the consumers'        *)
(* receives interleave with it, the writers do not.                        *)
(***************************************************************************)
EXTENDS Integers, Sequences, SequencesExt

CONSTANTS Jobs,
          Consumers,   \* the channels that may be opened, one per consumer
          Producers,   \* calls of ProducerSendEvents
          Calls,       \* the event lists a call may have: sequences of jobs
          Capacity     \* of a channel's buffer (100 in the code)

ASSUME EventAssumption ==
  /\ Calls \subseteq Seq(Jobs)
  /\ Capacity \in Nat \ {0}

VARIABLES
  channels,   \* channels[j]: the registered channels of job j, in order
  chan,       \* chan[c]: "none", "open", or "closed"
  about,      \* about[c]: the job c was opened for
  buf,        \* buf[c]: the events in c's buffer
  got,        \* got[c]: the events the consumer has received
  closeFn,    \* closeFn[c]: may the consumer still call CloseFn?
  ppc,        \* ppc[s]: "ready", "sending" with the read lock, or "returned"
  list,       \* list[s]: the jobs of the call's events
  at,         \* at[s]: <<index of the event, index of the channel>>
  sent,       \* sent[s]: the indices of the events in sentIDs
  shut,       \* has the client been closed?
  panicked,   \* has a channel been closed twice?
  dropped     \* history: <<c, event>>: skipped, the buffer was full

mapVars == <<channels, chan, about, closeFn, shut, panicked>>
callVars == <<ppc, list, at, sent>>
vars == <<mapVars, buf, got, callVars, dropped>>

NoJob == "none"

\* An event is named by its call and its place in the call's list.
Events == Producers \X Nat

TypeOK ==
  /\ channels \in [Jobs -> Seq(Consumers)]
  /\ chan \in [Consumers -> {"none", "open", "closed"}]
  /\ about \in [Consumers -> Jobs \cup {NoJob}]
  /\ buf \in [Consumers -> Seq(Events)]
  /\ \A c \in Consumers : Len(buf[c]) <= Capacity
  /\ got \in [Consumers -> Seq(Events)]
  /\ closeFn \in [Consumers -> BOOLEAN]
  /\ ppc \in [Producers -> {"ready", "sending", "returned"}]
  /\ list \in [Producers -> Calls \cup {<<>>}]
  /\ at \in [Producers -> Nat \X Nat]
  /\ sent \in [Producers -> SUBSET Nat]
  /\ shut \in BOOLEAN /\ panicked \in BOOLEAN
  /\ dropped \subseteq Consumers \X Events

Init ==
  /\ channels = [j \in Jobs |-> <<>>]
  /\ chan = [c \in Consumers |-> "none"]
  /\ about = [c \in Consumers |-> NoJob]
  /\ buf = [c \in Consumers |-> <<>>]
  /\ got = [c \in Consumers |-> <<>>]
  /\ closeFn = [c \in Consumers |-> FALSE]
  /\ ppc = [s \in Producers |-> "ready"]
  /\ list = [s \in Producers |-> <<>>]
  /\ at = [s \in Producers |-> <<1, 1>>]
  /\ sent = [s \in Producers |-> {}]
  /\ shut = FALSE
  /\ panicked = FALSE
  /\ dropped = {}

-----------------------------------------------------------------------------
\* The consumer's side.

\* The write lock is free: no producer is sending.
Lock == \A s \in Producers : ppc[s] # "sending"

ConsumerGetChannel(c, j) ==
  /\ Lock
  /\ chan[c] = "none"
  /\ chan' = [chan EXCEPT ![c] = "open"]
  /\ about' = [about EXCEPT ![c] = j]
  /\ closeFn' = [closeFn EXCEPT ![c] = TRUE]
  /\ channels' = [channels EXCEPT ![j] = Append(@, c)]
  /\ UNCHANGED <<shut, panicked, buf, got, callVars, dropped>>

\* A closed channel still hands out what its buffer holds.
Receive(c) ==
  /\ buf[c] # <<>>
  /\ got' = [got EXCEPT ![c] = Append(@, Head(buf[c]))]
  /\ buf' = [buf EXCEPT ![c] = Tail(@)]
  /\ UNCHANGED <<mapVars, callVars, dropped>>

\* Mutant of CloseFn: the closed channel stays in the map.
CloseFn_keep(c) ==
  /\ Lock
  /\ closeFn[c]
  /\ closeFn' = [closeFn EXCEPT ![c] = FALSE]
  /\ chan' = [chan EXCEPT ![c] = "closed"]
  /\ panicked' = (panicked \/ chan[c] = "closed")
  /\ UNCHANGED <<channels, about, shut, buf, got, callVars, dropped>>

(* CloseFn, which the consumer calls once: the channel leaves the map, if  *)
(* it is there, and is closed; closing it a second time panics.            *)
CloseFn(c) ==
  /\ Lock
  /\ closeFn[c]
  /\ closeFn' = [closeFn EXCEPT ![c] = FALSE]
  /\ channels' = [channels EXCEPT ![about[c]] = RemoveFirst(@, c)]
  /\ chan' = [chan EXCEPT ![c] = "closed"]
  /\ panicked' = (panicked \/ chan[c] = "closed")
  /\ UNCHANGED <<about, shut, buf, got, callVars, dropped>>

\* Close of the client: every channel in the map is closed, the map emptied.
Close ==
  /\ Lock
  /\ shut' = TRUE
  /\ chan' = [c \in Consumers |->
                IF \E j \in Jobs : c \in ToSet(channels[j]) THEN "closed" ELSE chan[c]]
  /\ channels' = [j \in Jobs |-> <<>>]
  /\ UNCHANGED <<about, closeFn, panicked, buf, got, callVars, dropped>>

-----------------------------------------------------------------------------
\* ProducerSendEvents.

SendBegin(s, jobs) ==
  /\ ppc[s] = "ready"
  /\ ppc' = [ppc EXCEPT ![s] = "sending"]
  /\ list' = [list EXCEPT ![s] = jobs]
  /\ UNCHANGED <<at, sent, mapVars, buf, got, dropped>>

\* The event the call is at, and the channels of its job.
Current(s) == at[s][1]
Targets(s) == channels[list[s][Current(s)]]

\* Is the call at a channel?
AtChannel(s) ==
  ppc[s] = "sending" /\ Current(s) <= Len(list[s]) /\ at[s][2] <= Len(Targets(s))

Target(s) == Targets(s)[at[s][2]]

\* Mutants of SendTo: a buffer without a bound; a send that blocks; a channel
\* that is served again; a slow consumer's channel that is closed.
SendTo_unbounded(s) ==
  /\ AtChannel(s)
  /\ buf' = [buf EXCEPT ![Target(s)] = Append(@, <<s, Current(s)>>)]
  /\ at' = [at EXCEPT ![s][2] = @ + 1]
  /\ UNCHANGED <<ppc, list, sent, mapVars, got, dropped>>

SendTo_blocking(s) ==
  AtChannel(s) /\ Len(buf[Target(s)]) < Capacity /\ SendTo_unbounded(s)

SendTo_again(s) ==
  /\ AtChannel(s) /\ Len(buf[Target(s)]) < Capacity
  /\ buf' = [buf EXCEPT ![Target(s)] = Append(@, <<s, Current(s)>>)]
  /\ UNCHANGED <<callVars, mapVars, got, dropped>>

SendTo_closeSlow(s) ==
  \/ SendTo_blocking(s)
  \/ /\ AtChannel(s) /\ Len(buf[Target(s)]) = Capacity
     /\ chan' = [chan EXCEPT ![Target(s)] = "closed"]
     /\ at' = [at EXCEPT ![s][2] = @ + 1]
     /\ UNCHANGED <<ppc, list, sent, channels, about, closeFn, shut, panicked,
                    buf, got, dropped>>

\* The next channel of the event: into the buffer, or past a full one.
SendTo(s) ==
  /\ AtChannel(s)
  /\ LET c == Target(s)
         event == <<s, Current(s)>> IN
     IF Len(buf[c]) < Capacity
       THEN buf' = [buf EXCEPT ![c] = Append(@, event)] /\ dropped' = dropped
       ELSE dropped' = dropped \cup {<<c, event>>} /\ buf' = buf
  /\ at' = [at EXCEPT ![s][2] = @ + 1]
  /\ UNCHANGED <<ppc, list, sent, mapVars, got>>

\* Mutant of SendNext: the channels after the first are left out.
SendNext_first(s) ==
  /\ ppc[s] = "sending" /\ Current(s) <= Len(list[s])
  /\ Targets(s) = <<>> \/ at[s][2] > 1
  /\ sent' = [sent EXCEPT ![s] = IF Targets(s) = <<>> THEN @ ELSE @ \cup {Current(s)}]
  /\ at' = [at EXCEPT ![s] = <<Current(s) + 1, 1>>]
  /\ UNCHANGED <<ppc, list, mapVars, buf, got, dropped>>

\* All channels are served: the event counts as sent, if it had any.
SendNext(s) ==
  /\ ppc[s] = "sending" /\ Current(s) <= Len(list[s])
  /\ at[s][2] > Len(Targets(s))
  /\ sent' = [sent EXCEPT ![s] = IF Targets(s) = <<>> THEN @ ELSE @ \cup {Current(s)}]
  /\ at' = [at EXCEPT ![s] = <<Current(s) + 1, 1>>]
  /\ UNCHANGED <<ppc, list, mapVars, buf, got, dropped>>

\* The list is done.
SendReturn(s) ==
  /\ ppc[s] = "sending" /\ Current(s) > Len(list[s])
  /\ ppc' = [ppc EXCEPT ![s] = "returned"]
  /\ UNCHANGED <<list, at, sent, mapVars, buf, got, dropped>>

\* The select at a channel finds the caller's context done.
SendAbort(s) ==
  /\ AtChannel(s)
  /\ ppc' = [ppc EXCEPT ![s] = "returned"]
  /\ UNCHANGED <<list, at, sent, mapVars, buf, got, dropped>>

SendStep(s) == SendTo(s) \/ SendNext(s) \/ SendReturn(s)

Next ==
  \/ \E c \in Consumers, j \in Jobs : ConsumerGetChannel(c, j)
  \/ \E c \in Consumers : Receive(c) \/ CloseFn(c)
  \/ Close
  \/ \E s \in Producers, jobs \in Calls : SendBegin(s, jobs)
  \/ \E s \in Producers : SendStep(s) \/ SendAbort(s)

(* A call that has begun goes on.  Nothing is assumed of the consumers and *)
(* of the contexts.                                                        *)
Spec == Init /\ [][Next]_vars /\ \A s \in Producers : WF_vars(SendStep(s))

-----------------------------------------------------------------------------

\* What has reached a consumer's channel, in order.
Reached(c) == got[c] \o buf[c]

(* A producer meets only open channels (mock_event_client.go:103-108): the *)
(* map holds no closed one, whoever closed it and when, so no send panics. *)
RegisteredAreOpen ==
  \A j \in Jobs : \A c \in ToSet(channels[j]) : chan[c] = "open" /\ about[c] = j

(* "The events are sent and consumed in FIFO order" (database.go:174): a   *)
(* consumer gets the events of one call in the order of the call, each     *)
(* once, whatever other calls put between them.                            *)
FifoPerCall ==
  \A c \in Consumers :
    LET r == Reached(c) IN
    \A i, k \in 1..Len(r) : i < k /\ r[i][1] = r[k][1] => r[i][2] < r[k][2]

(* An event that is reported as sent has been offered to every channel     *)
(* that its job has at that moment: no channel is opened behind the loop   *)
(* or missed by it, only one with a full buffer is passed over             *)
(* (mock_event_client.go:103-116).                                         *)
SentReachesAll ==
  [][\A s \in Producers : \A n \in sent'[s] \ sent[s] :
       \A c \in ToSet(channels[list[s][n]]) :
         <<s, n>> \in ToSet(Reached(c)) \/ <<c, <<s, n>>>> \in dropped]_vars

(* A call returns even when no consumer ever reads (the default of         *)
(* mock_event_client.go:109): CancelBatch is not held up by a processor    *)
(* that is busy.                                                           *)
SendReturns == \A s \in Producers : ppc[s] = "sending" ~> ppc[s] = "returned"

(* CloseFn "must be called by the consumer when the job's processing is    *)
(* finished" (database.go:161), also after the client was closed, and then *)
(* closes the channel a second time: nothing but that panics.              *)
PanicOnlyAfterClose == panicked => shut
=============================================================================
