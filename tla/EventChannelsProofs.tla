------------------------ MODULE EventChannelsProofs ------------------------
(***************************************************************************)
(* The event channels, proved for any number of jobs, consumers and calls  *)
(* and any capacity.  The map of channels is frozen while a producer holds *)
(* the read lock; the invariants below say what a call has done so far in  *)
(* terms of that frozen map.                                               *)
(***************************************************************************)
EXTENDS EventChannels, SequenceTheorems, WellFoundedInduction, TLAPS

\* No channel is registered twice.
NoDup(q) == \A i, k \in 1..Len(q) : q[i] = q[k] => i = k

\* The map of channels: CloseFn finds its channel at most once, and finds it
\* open as long as the client is not closed.
MapKnown ==
  /\ \A j \in Jobs : NoDup(channels[j])
  /\ \A c \in Consumers : closeFn[c] => /\ about[c] \in Jobs
                                        /\ chan[c] # "none"
                                        /\ ~shut => chan[c] = "open"

\* The places of the calls.
CallsKnown ==
  \A s \in Producers : /\ at[s][1] >= 1 /\ at[s][2] >= 1
                       /\ ppc[s] = "ready" => at[s] = <<1, 1>>

\* The call has offered the event it is at to c.
Served(s, c) ==
  /\ ppc[s] = "sending" /\ Current(s) <= Len(list[s])
  /\ \E k \in 1..Len(Targets(s)) : k < at[s][2] /\ Targets(s)[k] = c

\* The event e in c's channel comes from a call that has begun and is not
\* ahead of it.
NotAhead(c, e) ==
  /\ ppc[e[1]] # "ready"
  /\ ppc[e[1]] = "sending" =>
       \/ e[2] < Current(e[1])
       \/ e[2] = Current(e[1]) /\ Served(e[1], c)

Behind == \A c \in Consumers : \A i \in 1..Len(Reached(c)) : NotAhead(c, Reached(c)[i])

\* What is offered arrives or is passed over.
Offered ==
  \A s \in Producers, c \in Consumers :
    Served(s, c) => \/ <<s, Current(s)>> \in ToSet(Reached(c))
                    \/ <<c, <<s, Current(s)>>>> \in dropped

\* The inductive invariant of the channels.
IInv ==
  /\ TypeOK /\ RegisteredAreOpen /\ MapKnown /\ PanicOnlyAfterClose
  /\ CallsKnown /\ Behind /\ FifoPerCall /\ Offered

-----------------------------------------------------------------------------
\* Sequences.

\* The least of a set of naturals is one of them.
LEMMA LeastIsMember ==
  ASSUME NEW I \in SUBSET Nat, I # {}
  PROVE  Min(I) \in I
<1>1. PICK x \in I : \A y \in I : <<y, x>> \notin OpToRel(<, Nat)
  BY NatLessThanWellFounded, WFMin
<1>2. \A y \in I : ~(y < x)
  BY <1>1 DEF OpToRel
<1>3. \A y \in I : x <= y
  BY <1>2
<1> QED BY <1>3 DEF Min

\* RemoveFirst takes all of c out of a sequence that holds it at most once.
LEMMA RemoveFirstEntries ==
  ASSUME NEW S, NEW q \in Seq(S), NEW c, NoDup(q)
  PROVE  /\ RemoveFirst(q, c) \in Seq(S)
         /\ NoDup(RemoveFirst(q, c))
         /\ ToSet(RemoveFirst(q, c)) = ToSet(q) \ {c}
<1>0. Len(q) \in Nat /\ DOMAIN q = 1..Len(q)
  OBVIOUS
<1>1. CASE \A i \in 1..Len(q) : q[i] # c
  <2>1. RemoveFirst(q, c) = q
    BY <1>1 DEF RemoveFirst
  <2>2. c \notin ToSet(q)
    BY <1>0, <1>1 DEF ToSet
  <2> QED BY <2>1, <2>2
<1>2. CASE \E i \in 1..Len(q) : q[i] = c
  <2> DEFINE I == {i \in 1..Len(q) : q[i] = c}
  <2>1. PICK k \in 1..Len(q) : k = Min(I) /\ q[k] = c
    <3>1. I \in SUBSET Nat /\ I # {}
      BY <1>2
    <3>2. Min(I) \in I
      BY <3>1, LeastIsMember
    <3> QED BY <3>2
  <2> DEFINE a == SubSeq(q, 1, k - 1)
             b == SubSeq(q, k + 1, Len(q))
             r == a \o b
  <2>2. RemoveFirst(q, c) = r
    <3>1. RemoveFirst(q, c) = RemoveAt(q, SelectInSeq(q, LAMBDA v : v = c))
      BY <1>2 DEF RemoveFirst
    <3>2. SelectInSeq(q, LAMBDA v : v = c) = k
      BY <1>2, <2>1 DEF SelectInSeq
    <3> QED BY <3>1, <3>2 DEF RemoveAt
  <2>0. q[k] = c
    BY <2>1
  <2> HIDE DEF I
  <2>3. /\ a \in Seq(S) /\ Len(a) = k - 1
        /\ \A i \in 1..(k - 1) : a[i] = q[i]
    OBVIOUS
  <2>4. /\ b \in Seq(S) /\ Len(b) = Len(q) - k
        /\ \A i \in 1..(Len(q) - k) : b[i] = q[k + i]
    OBVIOUS
  <2> HIDE DEF a, b
  <2>5. /\ r \in Seq(S) /\ Len(r) = Len(a) + Len(b)
        /\ \A i \in 1..(Len(a) + Len(b)) :
             r[i] = IF i <= Len(a) THEN a[i] ELSE b[i - Len(a)]
    BY <2>3, <2>4, ConcatProperties, Zenon
  <2> HIDE DEF r
  <2>6. Len(r) = Len(q) - 1 /\ DOMAIN r = 1..(Len(q) - 1)
    BY <1>0, <2>0, <2>3, <2>4, <2>5
  <2>7. ASSUME NEW i \in 1..(Len(q) - 1)
        PROVE  r[i] = IF i < k THEN q[i] ELSE q[i + 1]
    <3>1. r[i] = IF i <= Len(a) THEN a[i] ELSE b[i - Len(a)]
      BY <1>0, <2>0, <2>3, <2>4, <2>5
    <3>2. CASE i < k
      BY <1>0, <2>0, <2>3, <3>1, <3>2
    <3>3. CASE ~(i < k)
      <4>1. i - Len(a) \in 1..(Len(q) - k) /\ k + (i - Len(a)) = i + 1 /\ ~(i <= Len(a))
        BY <1>0, <2>0, <2>3, <3>3
      <4> QED BY <2>4, <3>1, <3>3, <4>1
    <3> QED BY <3>2, <3>3
  <2>8. NoDup(r)
    <3> SUFFICES ASSUME NEW i \in 1..(Len(q) - 1), NEW m \in 1..(Len(q) - 1), r[i] = r[m]
                 PROVE  i = m
      BY <2>6 DEF NoDup
    <3>1. PICK x \in 1..Len(q) : x = (IF i < k THEN i ELSE i + 1) /\ r[i] = q[x]
      BY <1>0, <2>0, <2>7
    <3>2. PICK y \in 1..Len(q) : y = (IF m < k THEN m ELSE m + 1) /\ r[m] = q[y]
      BY <1>0, <2>0, <2>7
    <3>3. x = y
      BY <3>1, <3>2 DEF NoDup
    <3> QED BY <1>0, <2>0, <3>1, <3>2, <3>3
  <2>9. ASSUME NEW x \in ToSet(r) PROVE x \in ToSet(q) /\ x # c
    <3>1. PICK i \in 1..(Len(q) - 1) : x = r[i]
      BY <2>6 DEF ToSet
    <3>2. PICK y \in 1..Len(q) : y # k /\ x = q[y]
      <4>1. CASE i < k
        BY <1>0, <2>0, <2>7, <3>1, <4>1
      <4>2. CASE ~(i < k)
        <5>1. i + 1 \in 1..Len(q) /\ i + 1 # k /\ x = q[i + 1]
          BY <1>0, <2>0, <2>7, <3>1, <4>2
        <5> QED BY <5>1
      <4> QED BY <4>1, <4>2
    <3> QED BY <1>0, <2>0, <3>2 DEF NoDup, ToSet
  <2>10. ASSUME NEW x \in ToSet(q), x # c PROVE x \in ToSet(r)
    <3>1. PICK y \in 1..Len(q) : x = q[y]
      BY <1>0 DEF ToSet
    <3>2. y # k
      BY <2>0, <2>10, <3>1
    <3>3. PICK i \in 1..(Len(q) - 1) : x = r[i]
      <4>1. CASE y < k
        BY <1>0, <2>0, <2>7, <3>1, <4>1
      <4>2. CASE y > k
        <5>1. y - 1 \in 1..(Len(q) - 1) /\ ~(y - 1 < k) /\ (y - 1) + 1 = y
          BY <1>0, <2>0, <4>2
        <5>2. r[y - 1] = q[(y - 1) + 1]
          BY <2>7, <5>1
        <5> QED BY <3>1, <5>1, <5>2
      <4> QED BY <1>0, <2>0, <3>2, <4>1, <4>2
    <3> QED BY <2>6, <3>3 DEF ToSet
  <2> QED BY <2>2, <2>5, <2>8, <2>9, <2>10
<1> QED BY <1>1, <1>2

\* Append adds one entry.
LEMMA AppendEntries ==
  ASSUME NEW S, NEW q \in Seq(S), NEW e \in S
  PROVE  /\ Append(q, e) \in Seq(S)
         /\ ToSet(Append(q, e)) = ToSet(q) \cup {e}
         /\ NoDup(q) /\ e \notin ToSet(q) => NoDup(Append(q, e))
<1> DEFINE r == Append(q, e)
<1>1. Len(q) \in Nat /\ DOMAIN q = 1..Len(q)
  OBVIOUS
<1>2. /\ r \in Seq(S) /\ Len(r) = Len(q) + 1 /\ DOMAIN r = 1..(Len(q) + 1)
      /\ \A i \in 1..Len(q) : r[i] = q[i]
      /\ r[Len(q) + 1] = e
  OBVIOUS
<1> HIDE DEF r
<1>3. ASSUME NEW x \in ToSet(r) PROVE x \in ToSet(q) \cup {e}
  <2>1. PICK i \in 1..(Len(q) + 1) : x = r[i]
    BY <1>2 DEF ToSet
  <2>2. CASE i \in 1..Len(q)
    BY <1>1, <1>2, <2>1, <2>2 DEF ToSet
  <2>3. CASE i = Len(q) + 1
    BY <1>2, <2>1, <2>3
  <2> QED BY <1>1, <2>2, <2>3
<1>4. ASSUME NEW x \in ToSet(q) \cup {e} PROVE x \in ToSet(r)
  <2>1. CASE x \in ToSet(q)
    <3>1. PICK i \in 1..Len(q) : x = q[i]
      BY <1>1, <2>1 DEF ToSet
    <3>2. i \in 1..(Len(q) + 1) /\ r[i] = x
      BY <1>1, <1>2, <3>1
    <3> QED BY <1>2, <3>2 DEF ToSet
  <2>2. CASE x = e
    <3>1. Len(q) + 1 \in 1..(Len(q) + 1)
      BY <1>1
    <3> QED BY <1>2, <2>2, <3>1 DEF ToSet
  <2> QED BY <2>1, <2>2
<1>5. ASSUME NoDup(q), e \notin ToSet(q) PROVE NoDup(r)
  <2>1. \A i \in 1..Len(q) : q[i] # e
    BY <1>1, <1>5 DEF ToSet
  <2>2. \A i, k \in 1..Len(q) : q[i] = q[k] => i = k
    BY <1>5 DEF NoDup
  <2> QED BY <1>1, <1>2, <2>1, <2>2 DEF NoDup
<1> QED BY <1>2, <1>3, <1>4, <1>5 DEF r

\* A receive moves the head of the buffer behind what was received before,
\* and leaves the whole as it is.
LEMMA ReceiveMoves ==
  ASSUME NEW S, NEW g \in Seq(S), NEW b \in Seq(S), b # <<>>
  PROVE  /\ Append(g, Head(b)) \in Seq(S) /\ Tail(b) \in Seq(S)
         /\ Len(Tail(b)) = Len(b) - 1
         /\ Append(g, Head(b)) \o Tail(b) = g \o b
<1>1. /\ Head(b) \in S /\ Tail(b) \in Seq(S) /\ Len(Tail(b)) = Len(b) - 1
      /\ b = <<Head(b)>> \o Tail(b)
  OBVIOUS
<1>2. Append(g, Head(b)) = g \o <<Head(b)>> /\ <<Head(b)>> \in Seq(S)
  BY <1>1, AppendIsConcat
<1>3. (g \o <<Head(b)>>) \o Tail(b) = g \o (<<Head(b)>> \o Tail(b))
  BY <1>1, <1>2, ConcatAssociative
<1> QED BY <1>1, <1>2, <1>3, AppendProperties

\* A send puts its event behind everything that has reached the channel.
LEMMA SendAppends ==
  ASSUME NEW S, NEW g \in Seq(S), NEW b \in Seq(S), NEW e \in S
  PROVE  g \o Append(b, e) = Append(g \o b, e)
<1>1. Append(b, e) = b \o <<e>> /\ <<e>> \in Seq(S)
  BY AppendIsConcat
<1>2. g \o b \in Seq(S)
  BY ConcatProperties
<1>3. Append(g \o b, e) = (g \o b) \o <<e>>
  BY <1>2, AppendIsConcat
<1>4. (g \o b) \o <<e>> = g \o (b \o <<e>>)
  BY <1>1, ConcatAssociative
<1> QED BY <1>1, <1>3, <1>4
-----------------------------------------------------------------------------
\* The steps.

\* Without channels and calls the invariant holds.
LEMMA ChannelsInit == Init => IInv
<1> SUFFICES ASSUME Init PROVE IInv
  OBVIOUS
<1>1. TypeOK
  <2>1. <<>> \in Seq(Consumers) /\ <<>> \in Seq(Events) /\ Len(<<>>) = 0
    BY EmptySeq
  <2>2. /\ channels \in [Jobs -> Seq(Consumers)]
        /\ buf \in [Consumers -> Seq(Events)] /\ got \in [Consumers -> Seq(Events)]
    BY <2>1 DEF Init
  <2>3. \A c \in Consumers : Len(buf[c]) <= Capacity
    BY <2>1, EventAssumption DEF Init
  <2>4. at \in [Producers -> Nat \X Nat]
    BY DEF Init
  <2> QED BY <2>2, <2>3, <2>4 DEF Init, TypeOK
<1>2. \A j \in Jobs : channels[j] = <<>> /\ ToSet(channels[j]) = {} /\ Len(channels[j]) = 0
  BY DEF Init, ToSet
<1>3. RegisteredAreOpen /\ MapKnown /\ PanicOnlyAfterClose
  BY <1>2 DEF Init, RegisteredAreOpen, MapKnown, NoDup, PanicOnlyAfterClose
<1>4. CallsKnown
  BY DEF Init, CallsKnown
<1>5. \A c \in Consumers : Reached(c) = <<>>
  BY DEF Init, Reached
<1>6. \A c \in Consumers : Len(Reached(c)) = 0
  BY <1>5
<1>7. Behind /\ FifoPerCall
  BY <1>6 DEF Behind, FifoPerCall
<1>8. Offered
  BY DEF Init, Offered, Served
<1> QED BY <1>1, <1>3, <1>4, <1>7, <1>8 DEF IInv

\* Where a send leaves the call.
LEMMA SendMoves ==
  ASSUME TypeOK, NEW s \in Producers, SendTo(s)
  PROVE  /\ at' \in [Producers -> Nat \X Nat]
         /\ at'[s][1] = at[s][1] /\ at'[s][2] = at[s][2] + 1
         /\ \A p \in Producers : p # s => at'[p] = at[p]
<1>0. at[s] \in Nat \X Nat /\ at \in [Producers -> Nat \X Nat]
  BY DEF TypeOK
<1>1. PICK a \in Nat, b \in Nat : at[s] = <<a, b>>
  BY <1>0
<1>2. [<<a, b>> EXCEPT ![2] = b + 1] = <<a, b + 1>>
  OBVIOUS
<1>3. at' = [at EXCEPT ![s] = <<a, b + 1>>]
  <2>1. at' = [at EXCEPT ![s] = [at[s] EXCEPT ![2] = at[s][2] + 1]]
    BY DEF SendTo
  <2>2. at[s][2] = b
    BY <1>1
  <2> QED BY <1>1, <1>2, <2>1, <2>2
<1> QED BY <1>0, <1>1, <1>3

\* The channel a call is at.
LEMMA TargetKnown ==
  ASSUME TypeOK, CallsKnown, NEW s \in Producers, AtChannel(s)
  PROVE  /\ Current(s) \in 1..Len(list[s]) /\ list[s] \in Seq(Jobs)
         /\ list[s][Current(s)] \in Jobs /\ Targets(s) \in Seq(Consumers)
         /\ at[s][2] \in 1..Len(Targets(s)) /\ Target(s) \in Consumers
<1>1. list[s] \in Seq(Jobs)
  <2>1. <<>> \in Seq(Jobs)
    BY EmptySeq
  <2>2. list[s] \in Calls \cup {<<>>}
    BY DEF TypeOK
  <2> QED BY <2>1, <2>2, EventAssumption
<1>2. at[s][1] \in Nat /\ at[s][2] \in Nat
  BY DEF TypeOK
<1>3. Current(s) \in 1..Len(list[s])
  BY <1>1, <1>2 DEF AtChannel, Current, CallsKnown
<1>4. list[s][Current(s)] \in Jobs
  BY <1>1, <1>3
<1>5. Targets(s) \in Seq(Consumers)
  BY <1>4 DEF Targets, TypeOK
<1>6. at[s][2] \in 1..Len(Targets(s))
  BY <1>2, <1>5 DEF AtChannel, CallsKnown
<1>7. Target(s) \in Consumers
  BY <1>5, <1>6 DEF Target
<1> QED BY <1>1, <1>3, <1>4, <1>5, <1>6, <1>7

\* Every step keeps the types.
LEMMA TypesStep ==
  ASSUME TypeOK, MapKnown, CallsKnown, [Next]_vars
  PROVE  TypeOK'
<1>1. ASSUME NEW c \in Consumers, NEW j \in Jobs, ConsumerGetChannel(c, j) PROVE TypeOK'
  <2>1. Append(channels[j], c) \in Seq(Consumers)
    BY DEF TypeOK
  <2> QED BY <1>1, <2>1 DEF ConsumerGetChannel, TypeOK, callVars
<1>2. ASSUME NEW c \in Consumers, Receive(c) PROVE TypeOK'
  <2>1. got[c] \in Seq(Events) /\ buf[c] \in Seq(Events) /\ buf[c] # <<>>
    BY <1>2 DEF Receive, TypeOK
  <2>2. /\ Append(got[c], Head(buf[c])) \in Seq(Events) /\ Tail(buf[c]) \in Seq(Events)
        /\ Len(Tail(buf[c])) = Len(buf[c]) - 1
    BY <2>1, ReceiveMoves
  <2>3. got' \in [Consumers -> Seq(Events)] /\ buf' \in [Consumers -> Seq(Events)]
    BY <1>2, <2>2 DEF Receive, TypeOK
  <2>4. \A d \in Consumers : Len(buf'[d]) <= Capacity
    BY <1>2, <2>1, <2>2, EventAssumption DEF Receive, TypeOK
  <2> QED BY <1>2, <2>3, <2>4 DEF Receive, TypeOK, mapVars, callVars
<1>3. ASSUME NEW c \in Consumers, CloseFn(c) PROVE TypeOK'
  <2>1. about[c] \in Jobs /\ NoDup(channels[about[c]])
    BY <1>3 DEF CloseFn, MapKnown
  <2>2. RemoveFirst(channels[about[c]], c) \in Seq(Consumers)
    BY <2>1, RemoveFirstEntries DEF TypeOK
  <2>3. channels' \in [Jobs -> Seq(Consumers)]
    BY <1>3, <2>2 DEF CloseFn, TypeOK
  <2>4. panicked' \in BOOLEAN
    BY <1>3 DEF CloseFn, TypeOK
  <2> QED BY <1>3, <2>3, <2>4 DEF CloseFn, TypeOK, callVars
<1>4. CASE Close
  BY <1>4 DEF Close, TypeOK, callVars
<1>5. ASSUME NEW s \in Producers, NEW jobs \in Calls, SendBegin(s, jobs) PROVE TypeOK'
  BY <1>5 DEF SendBegin, TypeOK, mapVars
<1>6. ASSUME NEW s \in Producers, SendTo(s) PROVE TypeOK'
  <2>1. at' \in [Producers -> Nat \X Nat]
    BY <1>6, SendMoves
  <2>2. PICK c \in Consumers : c = Target(s)
    BY <1>6, TargetKnown DEF SendTo
  <2>3. PICK e \in Events : e = <<s, Current(s)>>
    BY DEF TypeOK, Events, Current
  <2>4. /\ buf' \in [Consumers -> Seq(Events)]
        /\ \A d \in Consumers : Len(buf'[d]) <= Capacity
    <3>1. CASE Len(buf[c]) < Capacity
      <4>1. buf' = [buf EXCEPT ![c] = Append(buf[c], e)]
        BY <1>6, <2>2, <2>3, <3>1 DEF SendTo
      <4>2. Append(buf[c], e) \in Seq(Events) /\ Len(Append(buf[c], e)) = Len(buf[c]) + 1
        BY DEF TypeOK
      <4>3. Len(buf[c]) \in Nat
        BY DEF TypeOK
      <4> QED BY <3>1, <4>1, <4>2, <4>3, EventAssumption DEF TypeOK
    <3>2. CASE ~(Len(buf[c]) < Capacity)
      BY <1>6, <2>2, <3>2 DEF SendTo, TypeOK
    <3> QED BY <3>1, <3>2
  <2>5. dropped' \subseteq Consumers \X Events
    <3>1. dropped' = dropped \/ dropped' = dropped \cup {<<c, e>>}
      BY <1>6, <2>2, <2>3 DEF SendTo
    <3>2. <<c, e>> \in Consumers \X Events
      OBVIOUS
    <3> QED BY <3>1, <3>2 DEF TypeOK
  <2> QED BY <1>6, <2>1, <2>4, <2>5 DEF SendTo, TypeOK, mapVars
<1>7. ASSUME NEW s \in Producers, SendNext(s) PROVE TypeOK'
  <2>1. Current(s) \in Nat
    BY DEF Current, TypeOK
  <2>2. at' \in [Producers -> Nat \X Nat]
    BY <1>7, <2>1 DEF SendNext, TypeOK
  <2>3. sent' \in [Producers -> SUBSET Nat]
    BY <1>7, <2>1 DEF SendNext, TypeOK
  <2> QED BY <1>7, <2>2, <2>3 DEF SendNext, TypeOK, mapVars
<1>8. ASSUME NEW s \in Producers, SendReturn(s) \/ SendAbort(s) PROVE TypeOK'
  BY <1>8 DEF SendReturn, SendAbort, TypeOK, mapVars
<1>9. CASE UNCHANGED vars
  BY <1>9 DEF vars, mapVars, callVars, TypeOK
<1> QED BY <1>1, <1>2, <1>3, <1>4, <1>5, <1>6, <1>7, <1>8, <1>9 DEF Next, SendStep

\* The map of channels: only GetChannel, CloseFn and Close change it.
LEMMA MapStep ==
  ASSUME TypeOK, RegisteredAreOpen, MapKnown, PanicOnlyAfterClose, [Next]_vars
  PROVE  (RegisteredAreOpen /\ MapKnown /\ PanicOnlyAfterClose)'
<1> DEFINE Goal == (RegisteredAreOpen /\ MapKnown /\ PanicOnlyAfterClose)'
<1>1. ASSUME NEW c \in Consumers, NEW j \in Jobs, ConsumerGetChannel(c, j) PROVE Goal
  <2>1. c \notin ToSet(channels[j]) /\ \A i \in Jobs : c \notin ToSet(channels[i])
    BY <1>1 DEF ConsumerGetChannel, RegisteredAreOpen
  <2>2. channels[j] \in Seq(Consumers) /\ NoDup(channels[j])
    BY DEF TypeOK, MapKnown
  <2>3. /\ ToSet(Append(channels[j], c)) = ToSet(channels[j]) \cup {c}
        /\ NoDup(Append(channels[j], c))
    BY <2>1, <2>2, AppendEntries
  <2>4. \A i \in Jobs : channels'[i] = IF i = j THEN Append(channels[j], c) ELSE channels[i]
    BY <1>1 DEF ConsumerGetChannel, TypeOK
  <2>5. RegisteredAreOpen'
    BY <1>1, <2>1, <2>3, <2>4 DEF ConsumerGetChannel, RegisteredAreOpen, TypeOK
  <2>6. MapKnown'
    BY <1>1, <2>3, <2>4 DEF ConsumerGetChannel, MapKnown, TypeOK
  <2> QED BY <1>1, <2>5, <2>6 DEF ConsumerGetChannel, PanicOnlyAfterClose
<1>2. ASSUME NEW c \in Consumers, CloseFn(c) PROVE Goal
  <2>1. about[c] \in Jobs /\ NoDup(channels[about[c]])
    BY <1>2 DEF CloseFn, MapKnown
  <2>2. PICK j \in Jobs : j = about[c]
    BY <2>1
  <2>3. /\ ToSet(RemoveFirst(channels[j], c)) = ToSet(channels[j]) \ {c}
        /\ NoDup(RemoveFirst(channels[j], c))
    BY <2>1, <2>2, RemoveFirstEntries DEF TypeOK
  <2>4. \A i \in Jobs : channels'[i] = IF i = j THEN RemoveFirst(channels[j], c) ELSE channels[i]
    BY <1>2, <2>2 DEF CloseFn, TypeOK
  <2>5. RegisteredAreOpen'
    BY <1>2, <2>2, <2>3, <2>4 DEF CloseFn, RegisteredAreOpen, TypeOK
  <2>6. MapKnown'
    BY <1>2, <2>3, <2>4 DEF CloseFn, MapKnown, TypeOK
  <2>7. PanicOnlyAfterClose'
    BY <1>2 DEF CloseFn, PanicOnlyAfterClose, MapKnown
  <2> QED BY <2>5, <2>6, <2>7
<1>3. CASE Close
  <2>1. \A j \in Jobs : channels'[j] = <<>> /\ ToSet(channels'[j]) = {} /\ NoDup(channels'[j])
    BY <1>3 DEF Close, ToSet, NoDup
  <2>2. \A c \in Consumers : chan'[c] = "none" => chan[c] = "none"
    BY <1>3 DEF Close
  <2> QED BY <1>3, <2>1, <2>2 DEF Close, RegisteredAreOpen, MapKnown, PanicOnlyAfterClose
<1>4. CASE UNCHANGED mapVars
  BY <1>4 DEF mapVars, RegisteredAreOpen, MapKnown, PanicOnlyAfterClose
<1> HIDE DEF Goal
<1> QED BY <1>1, <1>2, <1>3, <1>4 DEF Goal, Next, Receive, SendBegin, SendStep, SendTo,
                                   SendNext, SendReturn, SendAbort, vars

\* Every step keeps what is known of the calls in progress.
LEMMA CallsStep ==
  ASSUME TypeOK, CallsKnown, [Next]_vars
  PROVE  CallsKnown'
<1>1. ASSUME NEW s \in Producers, NEW jobs \in Calls, SendBegin(s, jobs) PROVE CallsKnown'
  BY <1>1 DEF SendBegin, CallsKnown, TypeOK
<1>2. ASSUME NEW s \in Producers, SendTo(s) PROVE CallsKnown'
  <2>1. ppc' = ppc /\ ppc[s] = "sending" /\ at[s][1] \in Nat /\ at[s][2] \in Nat
    BY <1>2 DEF SendTo, AtChannel, TypeOK
  <2>2. /\ at'[s][1] = at[s][1] /\ at'[s][2] = at[s][2] + 1
        /\ \A p \in Producers : p # s => at'[p] = at[p]
    BY <1>2, SendMoves
  <2> QED BY <2>1, <2>2 DEF CallsKnown
<1>3. ASSUME NEW s \in Producers, SendNext(s) PROVE CallsKnown'
  BY <1>3 DEF SendNext, CallsKnown, TypeOK, Current
<1>4. ASSUME NEW s \in Producers, SendReturn(s) \/ SendAbort(s) PROVE CallsKnown'
  BY <1>4 DEF SendReturn, SendAbort, CallsKnown, TypeOK
<1>5. CASE UNCHANGED callVars
  BY <1>5 DEF callVars, CallsKnown
<1> QED BY <1>1, <1>2, <1>3, <1>4, <1>5 DEF Next, ConsumerGetChannel, Receive, CloseFn,
                                          Close, SendStep, vars
-----------------------------------------------------------------------------
\* What reaches a channel.

\* What reaches a channel are events.
LEMMA ReachedTyped ==
  ASSUME TypeOK, NEW c \in Consumers
  PROVE  /\ Reached(c) \in Seq(Events)
         /\ \A i \in 1..Len(Reached(c)) :
              Reached(c)[i][1] \in Producers /\ Reached(c)[i][2] \in Nat
<1>1. got[c] \in Seq(Events) /\ buf[c] \in Seq(Events)
  BY DEF TypeOK
<1>2. Reached(c) \in Seq(Events)
  BY <1>1, ConcatProperties DEF Reached
<1>3. ASSUME NEW i \in 1..Len(Reached(c))
      PROVE  Reached(c)[i][1] \in Producers /\ Reached(c)[i][2] \in Nat
  <2>1. Reached(c)[i] \in Producers \X Nat
    BY <1>2, ElementOfSeq DEF Events
  <2> QED BY <2>1
<1> QED BY <1>2, <1>3

\* Only a send changes what has reached the channels.
LEMMA ReachedKept ==
  ASSUME TypeOK, [Next]_vars, NEW c \in Consumers
  PROVE  Reached(c)' = Reached(c) \/ \E s \in Producers : SendTo(s)
<1>1. ASSUME NEW d \in Consumers, Receive(d) PROVE Reached(c)' = Reached(c)
  <2>1. got[d] \in Seq(Events) /\ buf[d] \in Seq(Events) /\ buf[d] # <<>>
    BY <1>1 DEF Receive, TypeOK
  <2>2. Append(got[d], Head(buf[d])) \o Tail(buf[d]) = got[d] \o buf[d]
    BY <2>1, ReceiveMoves
  <2>3. CASE c = d
    BY <1>1, <2>2, <2>3 DEF Receive, Reached, TypeOK
  <2>4. CASE c # d
    BY <1>1, <2>4 DEF Receive, Reached, TypeOK
  <2> QED BY <2>3, <2>4
<1>2. CASE UNCHANGED <<buf, got>>
  BY <1>2 DEF Reached
<1> QED BY <1>1, <1>2 DEF Next, ConsumerGetChannel, CloseFn, Close, SendBegin, SendStep,
                         SendNext, SendReturn, SendAbort, vars

\* A send puts the event of the call at the end of its target, or drops it.
LEMMA SendReaches ==
  ASSUME TypeOK, NEW s \in Producers, SendTo(s),
         NEW t \in Consumers, t = Target(s), NEW n \in Nat, n = Current(s)
  PROVE  /\ \A c \in Consumers : c # t => Reached(c)' = Reached(c)
         /\ \/ Reached(t)' = Append(Reached(t), <<s, n>>)
            \/ Reached(t)' = Reached(t) /\ <<t, <<s, n>>>> \in dropped'
         /\ <<s, n>> \in Events /\ dropped \subseteq dropped'
<1>1. PICK e \in Events : e = <<s, n>>
  BY DEF Events
<1>2. CASE Len(buf[t]) < Capacity
  <2>1. buf' = [buf EXCEPT ![t] = Append(buf[t], e)] /\ got' = got /\ dropped' = dropped
    BY <1>1, <1>2 DEF SendTo
  <2>2. got[t] \o Append(buf[t], e) = Append(got[t] \o buf[t], e)
    BY SendAppends DEF TypeOK
  <2>3. \A d \in Consumers : d # t => Reached(d)' = Reached(d)
    BY <2>1 DEF Reached, TypeOK
  <2>4. got'[t] \o buf'[t] = Append(got[t] \o buf[t], e)
    BY <2>1, <2>2 DEF TypeOK
  <2> QED BY <1>1, <2>1, <2>3, <2>4 DEF Reached
<1>3. CASE ~(Len(buf[t]) < Capacity)
  <2>1. UNCHANGED <<buf, got>> /\ dropped' = dropped \cup {<<t, e>>}
    BY <1>1, <1>3 DEF SendTo
  <2> QED BY <1>1, <2>1 DEF Reached
<1> QED BY <1>2, <1>3

\* What a call has offered depends on nothing but its place and the map.
LEMMA ServedKept ==
  ASSUME NEW s \in Producers, NEW c \in Consumers, channels' = channels,
         ppc'[s] = ppc[s], at'[s] = at[s], list'[s] = list[s]
  PROVE  (Served(s, c)' <=> Served(s, c)) /\ Current(s)' = Current(s)
BY DEF Served, Current, Targets

\* The events of a call stay behind it when others move, and when it moves
\* on without sending.
LEMMA NotAheadKept ==
  ASSUME TypeOK, CallsKnown, [Next]_vars, ~(\E s \in Producers : SendTo(s)),
         NEW c \in Consumers, NEW e, e[1] \in Producers, e[2] \in Nat, NotAhead(c, e)
  PROVE  NotAhead(c, e)'
<1> DEFINE p == e[1]
<1> p \in Producers /\ at[p][1] \in Nat
  BY DEF TypeOK
<1>1. CASE Lock /\ ppc' = ppc
  BY <1>1 DEF Lock, NotAhead
<1>2. CASE /\ channels' = channels
           /\ ppc'[p] = ppc[p] /\ at'[p] = at[p] /\ list'[p] = list[p]
  BY <1>2, ServedKept DEF NotAhead
<1>3. ASSUME NEW s \in Producers, NEW jobs \in Calls, SendBegin(s, jobs)
      PROVE  NotAhead(c, e)'
  <2>1. s # p
    BY <1>3 DEF SendBegin, NotAhead
  <2> QED BY <1>2, <1>3, <2>1 DEF SendBegin, mapVars, TypeOK
<1>4. ASSUME NEW s \in Producers, SendNext(s) PROVE NotAhead(c, e)'
  <2>1. CASE s = p
    <3>1. ppc' = ppc /\ ppc[p] = "sending" /\ at'[p][1] = Current(p) + 1
      BY <1>4, <2>1 DEF SendNext, TypeOK
    <3>2. e[2] <= Current(p)
      BY <3>1 DEF NotAhead, Current
    <3>3. e[2] < Current(p)' /\ ppc'[p] # "ready"
      BY <3>1, <3>2 DEF Current
    <3> QED BY <3>3 DEF NotAhead
  <2>2. CASE s # p
    BY <1>2, <1>4, <2>2 DEF SendNext, mapVars, TypeOK
  <2> QED BY <2>1, <2>2
<1>5. ASSUME NEW s \in Producers, SendReturn(s) \/ SendAbort(s) PROVE NotAhead(c, e)'
  <2>1. CASE s = p
    <3>1. ppc'[p] = "returned"
      BY <1>5, <2>1 DEF SendReturn, SendAbort, TypeOK
    <3> QED BY <3>1 DEF NotAhead
  <2>2. CASE s # p
    BY <1>2, <1>5, <2>2 DEF SendReturn, SendAbort, mapVars, TypeOK
  <2> QED BY <2>1, <2>2
<1>6. CASE UNCHANGED <<mapVars, callVars>>
  BY <1>2, <1>6 DEF mapVars, callVars
<1> QED BY <1>1, <1>3, <1>4, <1>5, <1>6
        DEF Next, ConsumerGetChannel, Receive, CloseFn, Close, SendStep, callVars, vars

\* The order of the events of a call in a channel.
LEMMA OrderStep ==
  ASSUME TypeOK, MapKnown, CallsKnown, Behind, FifoPerCall, [Next]_vars
  PROVE  Behind' /\ FifoPerCall'
<1>1. CASE ~(\E s \in Producers : SendTo(s))
  <2>1. \A c \in Consumers : Reached(c)' = Reached(c)
    BY <1>1, ReachedKept
  <2>2. ASSUME NEW c \in Consumers, NEW i \in 1..Len(Reached(c))
        PROVE  NotAhead(c, Reached(c)[i])'
    <3>1. PICK e : e = Reached(c)[i] /\ e[1] \in Producers /\ e[2] \in Nat /\ NotAhead(c, e)
      BY ReachedTyped DEF Behind
    <3>2. NotAhead(c, e)'
      BY <1>1, <3>1, NotAheadKept
    <3>3. e = Reached(c)'[i]
      BY <2>1, <3>1
    <3> QED BY <2>1, <3>1, <3>2, <3>3 DEF NotAhead
  <2> QED BY <2>1, <2>2 DEF Behind, FifoPerCall
<1>2. ASSUME NEW s \in Producers, SendTo(s) PROVE Behind' /\ FifoPerCall'
  <2>0. AtChannel(s)
    BY <1>2 DEF SendTo
  <2>a. PICK n \in Nat : n = Current(s)
    BY <2>0, TargetKnown
  <2>b. PICK t \in Consumers : t = Target(s)
    BY <2>0, TargetKnown
  <2>1. /\ ppc[s] = "sending" /\ n <= Len(list[s])
        /\ ppc' = ppc /\ list' = list /\ channels' = channels
    BY <1>2, <2>a DEF SendTo, AtChannel, mapVars
  <2>2. /\ at[s][2] \in 1..Len(Targets(s)) /\ Len(Targets(s)) \in Nat
        /\ t = Targets(s)[at[s][2]] /\ NoDup(Targets(s))
    BY <2>0, <2>b, TargetKnown DEF Target, Targets, MapKnown
  <2>3. /\ Current(s) = n /\ Current(s)' = n /\ at'[s][2] = at[s][2] + 1
        /\ \A p \in Producers : p # s => at'[p] = at[p]
    BY <1>2, <2>a, SendMoves DEF Current
  <2>4. Targets(s)' = Targets(s)
    BY <2>1, <2>3 DEF Targets
  <2>5. ~Served(s, t)
    BY <2>2 DEF Served, NoDup
  <2>6. Served(s, t)'
    BY <2>1, <2>2, <2>3, <2>4 DEF Served
  <2>7. ASSUME NEW c \in Consumers, Served(s, c) PROVE Served(s, c)'
    BY <2>1, <2>2, <2>3, <2>4, <2>7 DEF Served
  <2>8. ASSUME NEW c \in Consumers, NEW e, e[1] \in Producers, NotAhead(c, e)
        PROVE  NotAhead(c, e)'
    <3>1. CASE e[1] = s
      BY <2>1, <2>3, <2>7, <2>8, <3>1 DEF NotAhead
    <3>2. CASE e[1] # s
      <4>1. /\ ppc'[e[1]] = ppc[e[1]] /\ at'[e[1]] = at[e[1]] /\ list'[e[1]] = list[e[1]]
        BY <2>1, <2>3, <2>8, <3>2
      <4> QED BY <2>1, <2>8, <4>1, ServedKept DEF NotAhead
    <3> QED BY <3>1, <3>2
  <2>9. ASSUME NEW c \in Consumers, Reached(c)' = Reached(c)
        PROVE  /\ \A i \in 1..Len(Reached(c)') : NotAhead(c, Reached(c)[i])'
               /\ LET r == Reached(c)' IN
                  \A i, k \in 1..Len(r) : i < k /\ r[i][1] = r[k][1] => r[i][2] < r[k][2]
    <3>1. ASSUME NEW i \in 1..Len(Reached(c)) PROVE NotAhead(c, Reached(c)[i])'
      <4>1. PICK e : e = Reached(c)[i] /\ e[1] \in Producers /\ NotAhead(c, e)
        BY ReachedTyped DEF Behind
      <4>2. NotAhead(c, e)'
        BY <2>8, <4>1
      <4>3. e = Reached(c)'[i]
        BY <2>9, <4>1
      <4> QED BY <4>2, <4>3 DEF NotAhead
    <3> QED BY <2>9, <3>1 DEF FifoPerCall
  <2>10. CASE Reached(t)' = Reached(t)
    BY <1>2, <2>3, <2>b, <2>9, <2>10, SendReaches DEF Behind, FifoPerCall
  <2>11. CASE Reached(t)' = Append(Reached(t), <<s, n>>)
    <3>1. PICK r \in Seq(Events) : r = Reached(t)
      BY <2>2, ReachedTyped
    <3>2. PICK e \in Events : e = <<s, n>> /\ e[1] = s /\ e[2] = n
      BY <1>2, <2>3, <2>b, SendReaches
    <3> DEFINE q == Append(r, e)
    <3>3. /\ Len(r) \in Nat /\ Len(q) = Len(r) + 1 /\ q[Len(r) + 1] = e
          /\ \A i \in 1..Len(r) : q[i] = r[i]
      OBVIOUS
    <3>4. Reached(t)' = q
      BY <2>11, <3>1, <3>2
    <3> HIDE DEF q
    <3>5. \A i \in 1..Len(r) : r[i][1] \in Producers /\ r[i][2] \in Nat /\ NotAhead(t, r[i])
      BY <2>2, <3>1, ReachedTyped DEF Behind
    <3>6. ASSUME NEW i \in 1..Len(r), r[i][1] = s PROVE r[i][2] < n
      BY <2>1, <2>3, <2>5, <3>5, <3>6 DEF NotAhead
    <3>7. ASSUME NEW i \in 1..Len(q), NEW k \in 1..Len(q), i < k, q[i][1] = q[k][1]
          PROVE  q[i][2] < q[k][2]
      <4>1. i \in 1..Len(r)
        BY <3>3, <3>7
      <4>2. CASE k \in 1..Len(r)
        BY <2>2, <3>1, <3>3, <3>7, <4>1, <4>2 DEF FifoPerCall
      <4>3. CASE k = Len(r) + 1
        BY <3>2, <3>3, <3>6, <3>7, <4>1, <4>3
      <4> QED BY <3>3, <4>2, <4>3
    <3>8. ASSUME NEW i \in 1..Len(q) PROVE NotAhead(t, q[i])'
      <4>1. CASE i \in 1..Len(r)
        <5>1. PICK d : d = r[i] /\ d[1] \in Producers /\ NotAhead(t, d)
          BY <3>5, <4>1
        <5>2. NotAhead(t, d)'
          BY <2>2, <2>8, <5>1
        <5>3. d = Reached(t)'[i] /\ d = q[i]
          BY <3>3, <3>4, <4>1, <5>1
        <5> QED BY <3>4, <5>2, <5>3 DEF NotAhead
      <4>2. CASE i = Len(r) + 1
        <5>1. q[i][1] = s /\ q[i][2] = n
          BY <3>2, <3>3, <4>2
        <5>2. q = Reached(t)'
          BY <3>4
        <5> QED BY <2>1, <2>3, <2>6, <5>1, <5>2 DEF NotAhead
      <4> QED BY <3>3, <4>1, <4>2
    <3> QED BY <1>2, <2>3, <2>b, <2>9, <3>4, <3>7, <3>8, SendReaches DEF Behind, FifoPerCall
  <2> QED BY <1>2, <2>3, <2>b, <2>10, <2>11, SendReaches
<1> QED BY <1>1, <1>2

\* Offered events arrive or are dropped.
LEMMA OfferedStep ==
  ASSUME TypeOK, CallsKnown, Offered, [Next]_vars
  PROVE  Offered'
<1> SUFFICES ASSUME NEW p \in Producers, NEW c \in Consumers, Served(p, c)'
             PROVE  \/ <<p, Current(p)>>' \in ToSet(Reached(c))'
                    \/ <<c, <<p, Current(p)>>>>' \in dropped'
  BY DEF Offered
<1> DEFINE Goal == \/ <<p, Current(p)>>' \in ToSet(Reached(c))'
                   \/ <<c, <<p, Current(p)>>>>' \in dropped'
<1>0. /\ ppc'[p] = "sending" /\ Current(p)' <= Len(list'[p])
      /\ \E k \in 1..Len(Targets(p)') : k < at'[p][2] /\ Targets(p)'[k] = c
  BY DEF Served
<1>1. ASSUME Served(p, c), Current(p)' = Current(p), Reached(c)' = Reached(c),
             dropped \subseteq dropped'
      PROVE  Goal
  BY <1>1 DEF Offered
<1>2. ASSUME channels' = channels, ppc'[p] = ppc[p], at'[p] = at[p], list'[p] = list[p],
             Reached(c)' = Reached(c), dropped' = dropped
      PROVE  Goal
  BY <1>1, <1>2, ServedKept
<1>3. ASSUME NEW s \in Producers, SendTo(s) PROVE Goal
  <2>0. AtChannel(s)
    BY <1>3 DEF SendTo
  <2>1. PICK n \in Nat : n = Current(s)
    BY <2>0, TargetKnown
  <2>2. PICK t \in Consumers : t = Target(s)
    BY <2>0, TargetKnown
  <2>3. /\ \A d \in Consumers : d # t => Reached(d)' = Reached(d)
        /\ \/ Reached(t)' = Append(Reached(t), <<s, n>>)
           \/ Reached(t)' = Reached(t) /\ <<t, <<s, n>>>> \in dropped'
        /\ <<s, n>> \in Events /\ dropped \subseteq dropped'
    BY <1>3, <2>1, <2>2, SendReaches
  <2>4. ASSUME NEW e \in ToSet(Reached(c)) PROVE e \in ToSet(Reached(c))'
    <3>1. CASE Reached(c)' = Reached(c)
      BY <2>4, <3>1
    <3>2. CASE Reached(c)' = Append(Reached(c), <<s, n>>)
      <4>1. PICK r \in Seq(Events) : r = Reached(c)
        BY ReachedTyped
      <4>2. PICK d \in Events : d = <<s, n>>
        BY <2>3
      <4>3. ToSet(Append(r, d)) = ToSet(r) \cup {d}
        BY AppendEntries
      <4>4. Reached(c)' = Append(r, d)
        BY <3>2, <4>1, <4>2
      <4> QED BY <2>4, <4>1, <4>3, <4>4
    <3> QED BY <2>3, <3>1, <3>2
  <2>5. /\ ppc' = ppc /\ list' = list /\ channels' = channels
    BY <1>3 DEF SendTo, mapVars
  <2>6. /\ Current(s)' = n /\ at'[s][2] = at[s][2] + 1
        /\ \A q \in Producers : q # s => at'[q] = at[q]
    BY <1>3, <2>1, SendMoves DEF Current
  <2>7. CASE p # s
    <3>1. Served(p, c) /\ Current(p)' = Current(p)
      BY <2>5, <2>6, <2>7, ServedKept
    <3> QED BY <2>3, <2>4, <3>1 DEF Offered
  <2>8. CASE p = s /\ c = t
    <3>1. CASE Reached(t)' = Append(Reached(t), <<s, n>>)
      <4>1. ToSet(Append(Reached(t), <<s, n>>)) = ToSet(Reached(t)) \cup {<<s, n>>}
        BY <2>3, ReachedTyped, AppendEntries
      <4>2. <<s, n>> \in ToSet(Reached(t))'
        BY <3>1, <4>1
      <4> QED BY <2>6, <2>8, <4>2
    <3>2. CASE <<t, <<s, n>>>> \in dropped'
      BY <2>6, <2>8, <3>2
    <3> QED BY <2>3, <3>1, <3>2
  <2>9. CASE p = s /\ c # t
    <3>1. Targets(s)' = Targets(s)
      BY <2>1, <2>5, <2>6 DEF Targets
    <3>2. PICK k \in 1..Len(Targets(s)) : k < at[s][2] + 1 /\ Targets(s)[k] = c
      BY <1>0, <2>6, <2>9, <3>1
    <3>3. k # at[s][2]
      BY <2>2, <2>9, <3>2 DEF Target
    <3>4. at[s][2] \in Nat
      BY DEF TypeOK
    <3>5. k < at[s][2]
      BY <3>2, <3>3, <3>4
    <3>6. Served(s, c)
      BY <2>0, <3>2, <3>5 DEF Served, AtChannel
    <3> QED BY <2>1, <2>3, <2>4, <2>6, <2>9, <3>6 DEF Offered
  <2> QED BY <2>7, <2>8, <2>9
<1>4. CASE ~(\E s \in Producers : SendTo(s))
  <2>1. Reached(c)' = Reached(c)
    BY <1>4, ReachedKept
  <2>2. ASSUME NEW s \in Producers, NEW jobs \in Calls, SendBegin(s, jobs) PROVE Goal
    <3>1. CASE s = p
      <4>1. at'[p] = <<1, 1>>
        BY <2>2, <3>1 DEF SendBegin, CallsKnown
      <4> QED BY <1>0, <4>1
    <3>2. CASE s # p
      BY <1>2, <2>1, <2>2, <3>2 DEF SendBegin, mapVars, TypeOK
    <3> QED BY <3>1, <3>2
  <2>3. ASSUME NEW s \in Producers, SendNext(s) PROVE Goal
    <3>1. CASE s = p
      <4>1. at'[p][2] = 1
        BY <2>3, <3>1 DEF SendNext, TypeOK
      <4> QED BY <1>0, <4>1
    <3>2. CASE s # p
      BY <1>2, <2>1, <2>3, <3>2 DEF SendNext, mapVars, TypeOK
    <3> QED BY <3>1, <3>2
  <2>4. ASSUME NEW s \in Producers, SendReturn(s) \/ SendAbort(s) PROVE Goal
    <3>1. CASE s = p
      BY <1>0, <2>4, <3>1 DEF SendReturn, SendAbort, TypeOK
    <3>2. CASE s # p
      BY <1>2, <2>1, <2>4, <3>2 DEF SendReturn, SendAbort, mapVars, TypeOK
    <3> QED BY <3>1, <3>2
  <2>5. CASE Lock /\ ppc' = ppc
    BY <1>0, <2>5 DEF Lock
  <2>6. CASE UNCHANGED <<mapVars, callVars, dropped>>
    BY <1>2, <2>1, <2>6 DEF mapVars, callVars
  <2> HIDE DEF Goal
  <2> QED BY <1>4, <2>2, <2>3, <2>4, <2>5, <2>6
          DEF Goal, Next, ConsumerGetChannel, Receive, CloseFn, Close, SendStep, callVars, vars
<1> QED BY <1>3, <1>4

\* Every step preserves the inductive invariant.
LEMMA ChannelsStep == IInv /\ [Next]_vars => IInv'
BY TypesStep, MapStep, CallsStep, OrderStep, OfferedStep DEF IInv

\* The inductive invariant holds in every reachable state.
LEMMA ChannelsInvariant == Spec => []IInv
BY ChannelsInit, ChannelsStep, PTL DEF Spec

-----------------------------------------------------------------------------

(* Every variable keeps its type; in particular no buffer ever holds more  *)
(* than its capacity (mock_event_client.go:49, 105-113).                   *)
THEOREM ChannelsTypeCorrect == Spec => []TypeOK
BY ChannelsInvariant, PTL DEF IInv

(* ProducerSendEvents never sends on a closed channel                      *)
(* (mock_event_client.go:104-106): whoever closes a channel, CloseFn or    *)
(* Close, takes it out of the map under the same lock.                     *)
THEOREM SendsMeetOpenChannels == Spec => []RegisteredAreOpen
BY ChannelsInvariant, PTL DEF IInv

(* The events of one call reach a consumer in the call's order and at most *)
(* once each (database.go:174), however calls, receives, opening and       *)
(* closing interleave.                                                     *)
THEOREM EventsInOrder == Spec => []FifoPerCall
BY ChannelsInvariant, PTL DEF IInv

(* A channel is closed twice only if the client was closed before CloseFn  *)
(* was called (mock_event_client.go:57-76, 126-137).                       *)
THEOREM DoubleCloseNeedsClose == Spec => []PanicOnlyAfterClose
BY ChannelsInvariant, PTL DEF IInv

(* An event counts as sent (mock_event_client.go:104-116) only after it    *)
(* was put into, or dropped at, every channel its job has.                 *)
THEOREM SentIsOffered == Spec => SentReachesAll
<1> DEFINE Step == \A s \in Producers : \A n \in sent'[s] \ sent[s] :
                     \A c \in ToSet(channels[list[s][n]]) :
                       <<s, n>> \in ToSet(Reached(c)) \/ <<c, <<s, n>>>> \in dropped
<1>1. ASSUME IInv, [Next]_vars PROVE Step
  <2> SUFFICES ASSUME NEW s \in Producers, NEW n \in sent'[s] \ sent[s],
                      NEW c \in ToSet(channels[list[s][n]])
               PROVE  <<s, n>> \in ToSet(Reached(c)) \/ <<c, <<s, n>>>> \in dropped
    OBVIOUS
  <2>0. TypeOK /\ CallsKnown /\ Offered
    BY <1>1 DEF IInv
  <2>1. PICK p \in Producers : SendNext(p)
    BY <1>1 DEF Next, ConsumerGetChannel, Receive, CloseFn, Close, SendBegin, SendStep,
                SendTo, SendReturn, SendAbort, callVars, vars
  <2>2. p = s
    BY <2>0, <2>1 DEF SendNext, TypeOK
  <2>3. n = Current(s)
    BY <2>0, <2>1, <2>2 DEF SendNext, TypeOK
  <2>4. /\ ppc[s] = "sending" /\ Current(s) <= Len(list[s]) /\ at[s][2] > Len(Targets(s))
        /\ list[s] \in Seq(Jobs) /\ Current(s) \in 1..Len(list[s])
    <3>1. <<>> \in Seq(Jobs)
      BY EmptySeq
    <3>2. list[s] \in Calls \cup {<<>>} /\ at[s][1] \in Nat
      BY <2>0 DEF TypeOK
    <3>3. list[s] \in Seq(Jobs)
      BY <3>1, <3>2, EventAssumption
    <3>4. ppc[s] = "sending" /\ Current(s) <= Len(list[s]) /\ at[s][2] > Len(Targets(s))
      BY <2>1, <2>2 DEF SendNext
    <3> QED BY <2>0, <3>2, <3>3, <3>4 DEF CallsKnown, Current
  <2>5. list[s][Current(s)] \in Jobs
    BY <2>4
  <2>6. Targets(s) \in Seq(Consumers) /\ at[s][2] \in Nat
    BY <2>0, <2>5 DEF Targets, TypeOK
  <2>7. c \in ToSet(Targets(s))
    BY <2>3 DEF Targets
  <2>8. PICK k \in 1..Len(Targets(s)) : c = Targets(s)[k]
    BY <2>6, <2>7 DEF ToSet
  <2>9. c \in Consumers /\ k < at[s][2]
    BY <2>4, <2>6, <2>8
  <2>10. Served(s, c)
    BY <2>4, <2>8, <2>9 DEF Served
  <2> QED BY <2>0, <2>3, <2>9, <2>10 DEF Offered
<1>2. IInv /\ [Next]_vars => [Step]_vars
  BY <1>1
<1> QED BY <1>2, ChannelsInvariant, PTL DEF Spec, SentReachesAll
=============================================================================
