--------------------------- MODULE JobRunProofs ----------------------------
(***************************************************************************)
(* The line phase of a job, for any number of lines and any capacity of    *)
(* the semaphore: the semaphore, the WaitGroup and the mutex do what the   *)
(* line goroutines rely on, the counters are exact, and the whole phase    *)
(* implements LinePhase.                                                   *)
(***************************************************************************)
EXTENDS JobRun, FiniteSetTheorems, TLAPS

\* Goroutines that wg.Add(1) has announced and wg.Done() has not.
Announced == {l \in Lines : gpc[l] \notin {"none", "gone"}}

\* Lines whose result r is in metadata.
CountedAs(r) == {l \in Counted : gres[l] = r}

\* The producer and the job's goroutine: which lines have been started.
LinesInOrder ==
  /\ closed => next = Total + 1
  /\ mpc \in {"wait", "decided"} => next = Total + 1
  /\ mpc = "select" => next = line + 1 /\ line \in Lines /\ gpc[line] = "none"
  /\ \A l \in Lines : next <= l => gpc[l] = "none"
  /\ \A l \in Lines : l < next /\ gpc[l] = "none"
       => (mpc = "select" /\ l = line) \/ mpc = "returned"

\* A goroutine has a result once Generate is over; none only after a signal.
ResultsKnown ==
  \A l \in Lines :
    /\ gpc[l] \in {"none", "check", "generate"} => gres[l] = "none"
    /\ gpc[l] \in {"lock", "read", "write", "unlock"} => gres[l] # "none"
    /\ gres[l] = "none" =>
         gpc[l] \in {"none", "check", "generate"} \/ ctxDone

\* The mutex is held between Lock and Unlock, and what was read under it is
\* still what the counter holds.
MutexHeld ==
  \A l \in Lines :
    /\ gpc[l] \in {"read", "write", "unlock"} => mu = l
    /\ gpc[l] = "write" => gread[l] = Counter(l)

\* The semaphore and the WaitGroup count goroutines.
TokensCounted ==
  /\ sem = Cardinality(Active)
  /\ wg = Cardinality(Announced)
  /\ mpc = "decided" => wg = 0

IInv ==
  TypeOK /\ LinesInOrder /\ ResultsKnown /\ MutexHeld /\ TokensCounted /\ CountsExact

-----------------------------------------------------------------------------
\* Counting goroutines.

(* Sets of lines are finite, and adding or removing one line counts one.   *)
LEMMA CountLines ==
  ASSUME NEW S \in SUBSET Lines, NEW l \in Lines
  PROVE  /\ Cardinality(S) \in 0..Total
         /\ Cardinality(S \cup {l}) = IF l \in S THEN Cardinality(S) ELSE Cardinality(S) + 1
         /\ Cardinality(S \ {l}) = IF l \in S THEN Cardinality(S) - 1 ELSE Cardinality(S)
         /\ Cardinality(S) = 0 <=> S = {}
<1>1. IsFiniteSet(Lines) /\ Cardinality(Lines) = Total
  BY JobRunAssumption, FS_Interval DEF Lines
<1>2. IsFiniteSet(S) /\ Cardinality(S) <= Total
  BY <1>1, FS_Subset
<1>3. Cardinality(S) \in Nat
  BY <1>2, FS_CardinalityType
<1>4. Cardinality(S \cup {l}) = IF l \in S THEN Cardinality(S) ELSE Cardinality(S) + 1
  BY <1>2, FS_AddElement
<1>5. Cardinality(S \ {l}) = IF l \in S THEN Cardinality(S) - 1 ELSE Cardinality(S)
  BY <1>2, FS_RemoveElement
<1>6. Cardinality(S) = 0 <=> S = {}
  BY <1>2, FS_EmptySet
<1>7. Cardinality(S) \in 0..Total
  BY <1>2, <1>3, JobRunAssumption
<1> QED  BY <1>4, <1>5, <1>6, <1>7

(* A goroutine that moves to x changes Active and Announced by itself.     *)
LEMMA Moves ==
  ASSUME TypeOK, NEW l \in Lines, NEW x \in LinePC, gpc' = [gpc EXCEPT ![l] = x]
  PROVE  /\ Active' = IF x \in {"none", "wgdone", "gone"} THEN Active \ {l} ELSE Active \cup {l}
         /\ Announced' = IF x \in {"none", "gone"} THEN Announced \ {l} ELSE Announced \cup {l}
<1>1. \A k \in Lines : gpc'[k] = IF k = l THEN x ELSE gpc[k]
  BY DEF TypeOK
<1>2. ASSUME x \in {"none", "wgdone", "gone"}  PROVE Active' = Active \ {l}
  BY <1>1, <1>2 DEF Active
<1>3. ASSUME x \notin {"none", "wgdone", "gone"}  PROVE Active' = Active \cup {l}
  BY <1>1, <1>3 DEF Active
<1>4. ASSUME x \in {"none", "gone"}  PROVE Announced' = Announced \ {l}
  BY <1>1, <1>4 DEF Announced
<1>5. ASSUME x \notin {"none", "gone"}  PROVE Announced' = Announced \cup {l}
  BY <1>1, <1>5 DEF Announced
<1> QED  BY <1>2, <1>3, <1>4, <1>5

(* The same for the counted lines, when no result changes.                 *)
LEMMA CountedMoves ==
  ASSUME TypeOK, NEW l \in Lines, NEW x \in LinePC, NEW r \in {"ok", "error"},
         gpc' = [gpc EXCEPT ![l] = x], gres' = gres
  PROVE  CountedAs(r)' =
           IF x \in {"unlock", "semrelease", "wgdone", "gone"} /\ gres[l] = r
             THEN CountedAs(r) \cup {l} ELSE CountedAs(r) \ {l}
<1>1. \A k \in Lines : gpc'[k] = IF k = l THEN x ELSE gpc[k]
  BY DEF TypeOK
<1>2. CASE x \in {"unlock", "semrelease", "wgdone", "gone"} /\ gres[l] = r
  BY <1>1, <1>2 DEF CountedAs, Counted
<1>3. CASE ~(x \in {"unlock", "semrelease", "wgdone", "gone"} /\ gres[l] = r)
  BY <1>1, <1>3 DEF CountedAs, Counted
<1> QED  BY <1>2, <1>3

-----------------------------------------------------------------------------
\* The invariant is inductive.

(* No line is started in the initial states.                               *)
LEMMA InitIInv == Init => IInv
<1> SUFFICES ASSUME Init  PROVE IInv  OBVIOUS
<1>1. TypeOK
  <2>1. next \in 1..(Total + 1) /\ line \in 0..Total /\ sem \in 0..MaxJobConcurrency
        /\ wg \in Nat /\ mu \in 0..Total /\ succeeded \in Nat /\ failed \in Nat
    BY JobRunAssumption DEF Init
  <2>2. gpc \in [Lines -> LinePC] /\ gres \in [Lines -> {"none", "ok", "error"}]
        /\ gread \in [Lines -> Nat]
    BY DEF Init, LinePC
  <2>3. closed \in BOOLEAN /\ mpc \in MainPC /\ ctxDone \in BOOLEAN
    BY DEF Init, MainPC
  <2> QED  BY <2>1, <2>2, <2>3 DEF TypeOK
<1>2. LinesInOrder
  BY JobRunAssumption DEF Init, LinesInOrder, Lines
<1>5. \A l \in Lines : gpc[l] = "none" /\ gres[l] = "none"
  BY DEF Init
<1>6. ResultsKnown /\ MutexHeld
  BY <1>5 DEF ResultsKnown, MutexHeld
<1>3. Active = {} /\ Announced = {} /\ CountedAs("ok") = {} /\ CountedAs("error") = {}
  BY DEF Init, Active, Announced, CountedAs, Counted
<1>4. TokensCounted /\ CountsExact
  BY <1>3, FS_EmptySet DEF Init, TokensCounted, CountsExact, CountedAs
<1> QED  BY <1>1, <1>2, <1>4, <1>6 DEF IInv

(* The lines are started in the order the producer sends them.             *)
LEMMA StepInOrder == IInv /\ [Next]_vars => LinesInOrder'
<1> SUFFICES ASSUME IInv, [Next]_vars  PROVE LinesInOrder'  OBVIOUS
<1> USE JobRunAssumption DEF IInv, LinesInOrder, TypeOK, Lines,
        producerVars, mainVars, metadata, lineVars
<1>1. ASSUME Receive  PROVE LinesInOrder'  BY <1>1 DEF Receive
<1>2. ASSUME RangeEnds  PROVE LinesInOrder'  BY <1>2 DEF RangeEnds
<1>3. ASSUME ReturnEarly  PROVE LinesInOrder'  BY <1>3 DEF ReturnEarly
<1>4. ASSUME StartLine  PROVE LinesInOrder'  BY <1>4 DEF StartLine
<1>5. ASSUME Decide  PROVE LinesInOrder'  BY <1>5 DEF Decide
<1>6. ASSUME CloseChan  PROVE LinesInOrder'  BY <1>6 DEF CloseChan
<1>7. ASSUME Shutdown  PROVE LinesInOrder'  BY <1>7 DEF Shutdown
<1>8. ASSUME NEW l \in Lines, LineNext(l)  PROVE LinesInOrder'
  <2>1. /\ gpc[l] # "none" /\ \E x \in LinePC \ {"none"} : gpc' = [gpc EXCEPT ![l] = x]
        /\ UNCHANGED <<producerVars, mainVars>>
    BY <1>8 DEF LineNext, Check, Generate, Lock, Read, Write, Unlock,
                SemRelease, WgDone, LinePC
  <2> QED  BY <2>1
<1>9. ASSUME UNCHANGED vars  PROVE LinesInOrder'  BY <1>9 DEF vars
<1> QED
  BY <1>1, <1>2, <1>3, <1>4, <1>5, <1>6, <1>7, <1>8, <1>9 DEF Next, MainNext

(* Results appear in Generate only, and the context stays done.            *)
LEMMA StepResults == IInv /\ [Next]_vars => ResultsKnown'
<1> SUFFICES ASSUME IInv, [Next]_vars  PROVE ResultsKnown'  OBVIOUS
<1> USE DEF IInv, ResultsKnown, TypeOK, producerVars, mainVars, metadata, lineVars
<1>1. CASE UNCHANGED <<lineVars, ctxDone>>
  BY <1>1
<1>2. ASSUME StartLine  PROVE ResultsKnown'
  BY <1>2 DEF StartLine, LinesInOrder
<1>3. ASSUME Shutdown  PROVE ResultsKnown'  BY <1>3 DEF Shutdown
<1>4. ASSUME NEW l \in Lines, LineNext(l)  PROVE ResultsKnown'
  <2>1. CASE Check(l)  BY <2>1 DEF Check
  <2>2. CASE Generate(l)  BY <2>2 DEF Generate
  <2>3. CASE Lock(l)  BY <2>3 DEF Lock
  <2>4. CASE Read(l)  BY <2>4 DEF Read
  <2>5. CASE Write(l)  BY <2>5 DEF Write
  <2>6. CASE Unlock(l)  BY <2>6 DEF Unlock
  <2>7. CASE SemRelease(l)  BY <2>7 DEF SemRelease
  <2>8. CASE WgDone(l)  BY <2>8 DEF WgDone
  <2> QED  BY <1>4, <2>1, <2>2, <2>3, <2>4, <2>5, <2>6, <2>7, <2>8 DEF LineNext
<1> QED
  BY <1>1, <1>2, <1>3, <1>4 DEF Next, MainNext, Receive, RangeEnds, ReturnEarly,
     Decide, CloseChan, vars

(* At most one goroutine is between Lock and Unlock, so no other one       *)
(* changes the counter that it has read.                                   *)
LEMMA StepMutex == IInv /\ [Next]_vars => MutexHeld'
<1> SUFFICES ASSUME IInv, [Next]_vars  PROVE MutexHeld'  OBVIOUS
<1> USE DEF IInv, MutexHeld, Counter, TypeOK, producerVars, mainVars, metadata, lineVars
<1>1. CASE UNCHANGED <<lineVars, mu, metadata>>
  BY <1>1
<1>2. ASSUME StartLine  PROVE MutexHeld'
  BY <1>2 DEF StartLine, LinesInOrder
<1>3. ASSUME NEW l \in Lines, LineNext(l)  PROVE MutexHeld'
  <2>1. CASE Check(l)  BY <2>1 DEF Check
  <2>2. CASE Generate(l)  BY <2>2 DEF Generate
  <2>3. CASE Lock(l)
    <3>1. l # 0  BY JobRunAssumption DEF Lines
    <3> QED  BY <2>3, <3>1, JobRunAssumption DEF Lock, Lines
  <2>4. CASE Read(l)  BY <2>4 DEF Read
  <2>5. CASE Write(l)  BY <2>5 DEF Write
  <2>6. CASE Unlock(l)  BY <2>6 DEF Unlock
  <2>7. CASE SemRelease(l)  BY <2>7 DEF SemRelease
  <2>8. CASE WgDone(l)  BY <2>8 DEF WgDone
  <2> QED  BY <1>3, <2>1, <2>2, <2>3, <2>4, <2>5, <2>6, <2>7, <2>8 DEF LineNext
<1> QED
  BY <1>1, <1>2, <1>3 DEF Next, MainNext, Receive, RangeEnds, ReturnEarly,
     Decide, CloseChan, Shutdown, vars

(* Every token is returned once, wg.Done() is called once per wg.Add(1),   *)
(* and the final status is decided when all goroutines are gone.           *)
LEMMA StepTokens == IInv /\ [Next]_vars =>
                      TokensCounted' /\ sem' \in 0..MaxJobConcurrency /\ wg' \in Nat
<1> DEFINE Goal == TokensCounted' /\ sem' \in 0..MaxJobConcurrency /\ wg' \in Nat
<1> SUFFICES ASSUME IInv, [Next]_vars  PROVE Goal  OBVIOUS
<1>0. /\ TypeOK /\ LinesInOrder
      /\ sem = Cardinality(Active) /\ wg = Cardinality(Announced)
      /\ sem \in 0..MaxJobConcurrency /\ wg \in Nat
      /\ (mpc = "decided" => wg = 0)
  BY DEF IInv, TypeOK, TokensCounted
<1>a. Active \subseteq Lines /\ Announced \subseteq Lines
  BY DEF Active, Announced
<1>1. CASE UNCHANGED <<gpc, sem, wg>> /\ (mpc' = "decided" => wg = 0)
  <2>1. Active' = Active /\ Announced' = Announced
    BY <1>1 DEF Active, Announced
  <2> QED  BY <1>0, <1>1, <2>1 DEF TokensCounted
<1>2. ASSUME StartLine  PROVE Goal
  <2>1. line \in Lines /\ gpc[line] = "none" /\ gpc' = [gpc EXCEPT ![line] = "check"]
    BY <1>0, <1>2 DEF StartLine, LinesInOrder
  <2>2. Active' = Active \cup {line} /\ Announced' = Announced \cup {line}
    BY <1>0, <2>1, Moves DEF LinePC
  <2>3. line \notin Active /\ line \notin Announced
    BY <2>1 DEF Active, Announced
  <2>4. Cardinality(Active') = sem + 1 /\ Cardinality(Announced') = wg + 1
    BY <1>0, <1>a, <2>1, <2>2, <2>3, CountLines
  <2> QED  BY <1>0, <1>2, <2>4, JobRunAssumption DEF StartLine, TokensCounted
<1>3. ASSUME NEW l \in Lines, LineNext(l)  PROVE Goal
  <2>1. l \in Announced /\ wg # 0 /\ mpc' # "decided"
    <3>1. l \in Announced
      BY <1>3 DEF LineNext, Check, Generate, Lock, Read, Write, Unlock,
                  SemRelease, WgDone, Announced
    <3>2. wg # 0  BY <1>0, <1>a, <3>1, CountLines
    <3>3. mpc' = mpc
      BY <1>3 DEF LineNext, Check, Generate, Lock, Read, Write, Unlock,
                  SemRelease, WgDone, mainVars
    <3> QED  BY <1>0, <3>1, <3>2, <3>3
  <2>2. ASSUME NEW x \in LinePC \ {"none", "wgdone", "gone"},
               gpc' = [gpc EXCEPT ![l] = x], l \in Active, UNCHANGED <<sem, wg>>
        PROVE  Goal
    <3>1. Active' = Active \cup {l} /\ Announced' = Announced \cup {l}
      BY <1>0, <2>2, Moves
    <3>2. Active' = Active /\ Announced' = Announced
      BY <2>1, <2>2, <3>1
    <3> QED  BY <1>0, <2>1, <2>2, <3>2 DEF TokensCounted
  <2>3. CASE Check(l)
    BY <2>2, <2>3 DEF Check, Active, LinePC
  <2>4. CASE Generate(l)
    BY <2>2, <2>4 DEF Generate, Active, LinePC
  <2>5. CASE Lock(l)
    BY <2>2, <2>5 DEF Lock, Active, LinePC
  <2>6. CASE Read(l)
    BY <2>2, <2>6 DEF Read, Active, LinePC
  <2>7. CASE Write(l)
    BY <2>2, <2>7 DEF Write, Active, LinePC
  <2>8. CASE Unlock(l)
    BY <2>2, <2>8 DEF Unlock, Active, LinePC
  <2>9. CASE SemRelease(l)
    <3>1. Active' = Active \ {l} /\ Announced' = Announced \cup {l}
      BY <1>0, <2>9, Moves DEF SemRelease, LinePC
    <3>2. Announced' = Announced  BY <2>1, <3>1
    <3>3. l \in Active  BY <2>9 DEF SemRelease, Active
    <3>4. Cardinality(Active') = sem - 1  BY <1>0, <1>a, <3>1, <3>3, CountLines
    <3> QED  BY <1>0, <2>1, <2>9, <3>2, <3>4, JobRunAssumption DEF SemRelease, TokensCounted
  <2>10. CASE WgDone(l)
    <3>1. Active' = Active \ {l} /\ Announced' = Announced \ {l}
      BY <1>0, <2>10, Moves DEF WgDone, LinePC
    <3>2. Active' = Active  BY <2>10, <3>1 DEF WgDone, Active
    <3>3. Cardinality(Announced') = wg - 1  BY <1>0, <1>a, <2>1, <3>1, CountLines
    <3> QED  BY <1>0, <2>1, <2>10, <3>2, <3>3 DEF WgDone, TokensCounted
  <2> QED
    BY <1>3, <2>3, <2>4, <2>5, <2>6, <2>7, <2>8, <2>9, <2>10 DEF LineNext
<1>4. ASSUME Decide  PROVE UNCHANGED <<gpc, sem, wg>> /\ (mpc' = "decided" => wg = 0)
  BY <1>4 DEF Decide, lineVars
<1>5. ASSUME Receive \/ RangeEnds \/ ReturnEarly \/ CloseChan \/ Shutdown \/ UNCHANGED vars
      PROVE  UNCHANGED <<gpc, sem, wg>> /\ (mpc' = "decided" => wg = 0)
  BY <1>0, <1>5 DEF Receive, RangeEnds, ReturnEarly, CloseChan, Shutdown, vars,
     lineVars, mainVars
<1> HIDE DEF Goal
<1> QED  BY <1>1, <1>2, <1>3, <1>4, <1>5 DEF Next, MainNext

(* Every counted result has been counted exactly once: a goroutine at its  *)
(* write adds one to what the counter holds.                               *)
LEMMA StepCounts == IInv /\ [Next]_vars =>
                      CountsExact' /\ succeeded' \in Nat /\ failed' \in Nat
<1> DEFINE Goal == CountsExact' /\ succeeded' \in Nat /\ failed' \in Nat
<1> SUFFICES ASSUME IInv, [Next]_vars  PROVE Goal  OBVIOUS
<1>0. /\ TypeOK /\ LinesInOrder /\ ResultsKnown /\ MutexHeld
      /\ succeeded = Cardinality(CountedAs("ok")) /\ failed = Cardinality(CountedAs("error"))
      /\ succeeded \in Nat /\ failed \in Nat
  BY DEF IInv, TypeOK, CountsExact, CountedAs
<1>a. CountedAs("ok") \subseteq Lines /\ CountedAs("error") \subseteq Lines
  BY DEF CountedAs, Counted
<1>b. ASSUME CountedAs("ok")' = CountedAs("ok"), CountedAs("error")' = CountedAs("error"),
             UNCHANGED metadata
      PROVE  Goal
  BY <1>0, <1>b DEF CountsExact, CountedAs, metadata
<1>c. CountsExact' <=> /\ succeeded' = Cardinality(CountedAs("ok")')
                       /\ failed' = Cardinality(CountedAs("error")')
  BY DEF CountsExact, CountedAs
<1>1. CASE UNCHANGED <<gpc, gres, metadata>>
  BY <1>b, <1>1 DEF CountedAs, Counted
<1>2. ASSUME NEW l \in Lines, NEW x \in LinePC, gpc' = [gpc EXCEPT ![l] = x],
             gres' = gres, UNCHANGED metadata,
             gres[l] # "none" => (l \in Counted <=>
               x \in {"unlock", "semrelease", "wgdone", "gone"})
      PROVE  Goal
  <2>1. ASSUME NEW r \in {"ok", "error"}  PROVE CountedAs(r)' = CountedAs(r)
    <3>1. CountedAs(r)' = IF x \in {"unlock", "semrelease", "wgdone", "gone"} /\ gres[l] = r
                            THEN CountedAs(r) \cup {l} ELSE CountedAs(r) \ {l}
      BY <1>0, <1>2, CountedMoves
    <3>2. l \in CountedAs(r) <=>
            (x \in {"unlock", "semrelease", "wgdone", "gone"} /\ gres[l] = r)
      BY <1>2 DEF CountedAs, Counted
    <3> QED  BY <3>1, <3>2
  <2> QED  BY <1>2, <1>b, <2>1
<1>3. ASSUME StartLine  PROVE Goal
  <2>1. line \in Lines /\ gres[line] = "none"
    BY <1>0, <1>3 DEF StartLine, LinesInOrder, ResultsKnown
  <2> QED  BY <1>2, <1>3, <2>1 DEF StartLine, LinePC
<1>4. ASSUME NEW l \in Lines, LineNext(l)  PROVE Goal
  <2>1. CASE Check(l)
    BY <1>0, <1>2, <2>1 DEF Check, ResultsKnown, LinePC
  <2>2. CASE Generate(l)
    <3>1. \A k \in Lines : k # l => gpc'[k] = gpc[k] /\ gres'[k] = gres[k]
      BY <1>0, <2>2 DEF Generate, TypeOK
    <3>2. gpc[l] = "generate" /\ gpc'[l] = "lock" /\ UNCHANGED metadata
      BY <1>0, <2>2 DEF Generate, TypeOK
    <3>3. ASSUME NEW r \in {"ok", "error"}  PROVE CountedAs(r)' = CountedAs(r)
      BY <3>1, <3>2 DEF CountedAs, Counted
    <3> QED  BY <1>b, <3>2, <3>3
  <2>3. CASE Lock(l)
    BY <1>2, <2>3 DEF Lock, Counted, LinePC
  <2>4. CASE Read(l)
    BY <1>2, <2>4 DEF Read, Counted, LinePC
  <2>5. CASE Write(l)
    <3>1. gpc[l] = "write" /\ gpc' = [gpc EXCEPT ![l] = "unlock"] /\ gres' = gres
      BY <2>5 DEF Write
    <3>2. l \notin CountedAs("ok") /\ l \notin CountedAs("error")
      BY <3>1 DEF CountedAs, Counted
    <3>3. gres[l] \in {"ok", "error"} /\ gread[l] = Counter(l)
      BY <1>0, <3>1 DEF ResultsKnown, MutexHeld, TypeOK
    <3>4. CASE gres[l] = "ok"
      <4>1. CountedAs("ok")' = CountedAs("ok") \cup {l}
        BY <1>0, <3>1, <3>4, CountedMoves DEF LinePC
      <4>2. CountedAs("error")' = CountedAs("error")
        <5>1. CountedAs("error")' = CountedAs("error") \ {l}
          BY <1>0, <3>1, <3>4, CountedMoves DEF LinePC
        <5> QED  BY <3>2, <5>1
      <4>3. Cardinality(CountedAs("ok")') = succeeded + 1
        BY <1>0, <1>a, <3>2, <4>1, CountLines
      <4>4. succeeded' = succeeded + 1 /\ failed' = failed
        BY <2>5, <3>3, <3>4 DEF Write, Counter
      <4> QED  BY <1>0, <1>c, <4>2, <4>3, <4>4
    <3>5. CASE gres[l] = "error"
      <4>1. CountedAs("error")' = CountedAs("error") \cup {l}
        BY <1>0, <3>1, <3>5, CountedMoves DEF LinePC
      <4>2. CountedAs("ok")' = CountedAs("ok")
        <5>1. CountedAs("ok")' = CountedAs("ok") \ {l}
          BY <1>0, <3>1, <3>5, CountedMoves DEF LinePC
        <5> QED  BY <3>2, <5>1
      <4>3. Cardinality(CountedAs("error")') = failed + 1
        BY <1>0, <1>a, <3>2, <4>1, CountLines
      <4>4. failed' = failed + 1 /\ succeeded' = succeeded
        BY <2>5, <3>3, <3>5 DEF Write, Counter
      <4> QED  BY <1>0, <1>c, <4>2, <4>3, <4>4
    <3> QED  BY <3>3, <3>4, <3>5
  <2>6. CASE Unlock(l)
    BY <1>2, <2>6 DEF Unlock, Counted, LinePC
  <2>7. CASE SemRelease(l)
    BY <1>2, <2>7 DEF SemRelease, Counted, LinePC
  <2>8. CASE WgDone(l)
    BY <1>2, <2>8 DEF WgDone, Counted, LinePC
  <2> HIDE DEF Goal
  <2> QED  BY <1>4, <2>1, <2>2, <2>3, <2>4, <2>5, <2>6, <2>7, <2>8 DEF LineNext
<1> HIDE DEF Goal
<1> QED
  BY <1>1, <1>3, <1>4 DEF Next, MainNext, Receive, RangeEnds, ReturnEarly, Decide,
     CloseChan, Shutdown, vars, lineVars

(* The remaining variables keep their types.                               *)
LEMMA StepType == IInv /\ [Next]_vars => TypeOK'
<1> SUFFICES ASSUME IInv, [Next]_vars  PROVE TypeOK'  OBVIOUS
<1>0. sem' \in 0..MaxJobConcurrency /\ wg' \in Nat /\ succeeded' \in Nat /\ failed' \in Nat
  BY StepTokens, StepCounts
<1>1. next' \in 1..(Total + 1) /\ line' \in 0..Total
  <2>1. next \in 1..(Total + 1) /\ line \in 0..Total  BY DEF IInv, TypeOK
  <2>2. \/ UNCHANGED <<next, line>>
        \/ next <= Total /\ line' = next /\ next' = next + 1
    BY DEF Next, MainNext, Receive, RangeEnds,
     ReturnEarly, StartLine, Decide, CloseChan, Shutdown, LineNext, Check, Generate, Lock,
     Read, Write, Unlock, SemRelease, WgDone, vars, producerVars, mainVars
  <2> QED  BY <2>1, <2>2, JobRunAssumption
<1>5. mpc' \in MainPC
  BY DEF IInv, TypeOK, MainPC, Next, MainNext, Receive, RangeEnds,
     ReturnEarly, StartLine, Decide, CloseChan, Shutdown, LineNext, Check, Generate, Lock,
     Read, Write, Unlock, SemRelease, WgDone, vars, producerVars, mainVars
<1>6. mu' \in 0..Total
  <2>1. mu \in 0..Total /\ Lines \subseteq 0..Total /\ 0 \in 0..Total
    BY JobRunAssumption DEF IInv, TypeOK, Lines
  <2> QED
    BY <2>1 DEF Next, MainNext, Receive, RangeEnds,
     ReturnEarly, StartLine, Decide, CloseChan, Shutdown, LineNext, Check, Generate, Lock,
     Read, Write, Unlock, SemRelease, WgDone, vars
<1>2. closed' \in BOOLEAN /\ ctxDone' \in BOOLEAN
  BY DEF IInv, TypeOK, Next, MainNext, Receive, RangeEnds,
     ReturnEarly, StartLine, Decide, CloseChan, Shutdown, LineNext, Check, Generate, Lock,
     Read, Write, Unlock, SemRelease, WgDone, vars, producerVars
<1>3. gpc' \in [Lines -> LinePC] /\ gres' \in [Lines -> {"none", "ok", "error"}]
  BY DEF IInv, TypeOK, LinePC, Next, MainNext, Receive, RangeEnds,
     ReturnEarly, StartLine, Decide, CloseChan, Shutdown, LineNext, Check, Generate, Lock,
     Read, Write, Unlock, SemRelease, WgDone, vars, lineVars
<1>4. gread' \in [Lines -> Nat]
  BY DEF IInv, TypeOK, Counter, Next, MainNext, Receive, RangeEnds,
     ReturnEarly, StartLine, Decide, CloseChan, Shutdown, LineNext, Check, Generate, Lock,
     Read, Write, Unlock, SemRelease, WgDone, vars, lineVars
<1> QED  BY <1>0, <1>1, <1>2, <1>3, <1>4, <1>5, <1>6 DEF TypeOK

(* The inductive invariant of the line phase.                              *)
LEMMA JobRunInvariant == Spec => []IInv
<1>1. IInv /\ [Next]_vars => IInv'
  BY StepType, StepInOrder, StepResults, StepMutex, StepTokens, StepCounts DEF IInv
<1> QED  BY <1>1, InitIInv, PTL DEF Spec

-----------------------------------------------------------------------------

(* The variables of the line phase keep their types: the WaitGroup never   *)
(* goes below zero (a panic in Go) and the semaphore never holds more      *)
(* tokens than its capacity.                                               *)
THEOREM JobRunTypeCorrect == Spec => []TypeOK
<1>1. IInv => TypeOK  BY DEF IInv
<1> QED  BY <1>1, JobRunInvariant, PTL

(* At most MaxJobConcurrency lines of a job are in flight, for any number  *)
(* of lines and any capacity (worker.go:292-306).                          *)
THEOREM InFlightBounded == Spec => []ConcurrencyBound
<1>1. IInv => ConcurrencyBound
  BY JobRunAssumption DEF IInv, TypeOK, TokensCounted, ConcurrencyBound
<1> QED  BY <1>1, JobRunInvariant, PTL

(* Succeeded and Failed are exactly the numbers of counted results         *)
(* (worker.go:322-335).                                                    *)
THEOREM CountersAreExact == Spec => []CountsExact
<1>1. IInv => CountsExact  BY DEF IInv
<1> QED  BY <1>1, JobRunInvariant, PTL

-----------------------------------------------------------------------------
\* The line phase implements LinePhase.

(* The counted lines are lines, each counted as ok or as error.            *)
LEMMA CountedLines ==
  ASSUME IInv
  PROVE  /\ succeeded + failed = Cardinality(Counted)
         /\ succeeded \in Nat /\ failed \in Nat /\ Counted \subseteq Lines
<1>1. Counted = CountedAs("ok") \cup CountedAs("error")
  BY DEF IInv, TypeOK, CountedAs, Counted
<1>2. CountedAs("ok") \cap CountedAs("error") = {}
  BY DEF CountedAs
<1>3. IsFiniteSet(Lines)
  BY JobRunAssumption, FS_Interval DEF Lines
<1>4. Counted \subseteq Lines
  BY DEF Counted
<1>5. IsFiniteSet(CountedAs("ok")) /\ IsFiniteSet(CountedAs("error"))
  BY <1>3, <1>4, FS_Subset DEF CountedAs
<1>6. Cardinality(Counted) = Cardinality(CountedAs("ok")) + Cardinality(CountedAs("error"))
                             - Cardinality({})
  BY <1>1, <1>2, <1>5, FS_Union
<1>7. /\ succeeded = Cardinality(CountedAs("ok")) /\ failed = Cardinality(CountedAs("error"))
      /\ succeeded \in Nat /\ failed \in Nat
  BY DEF IInv, CountsExact, CountedAs, TypeOK
<1> QED  BY <1>4, <1>6, <1>7, FS_EmptySet

(* wg.Wait() returns when every line has been counted, or the context is   *)
(* done.                                                                   *)
LEMMA DecideIsFinish == ASSUME IInv, Decide  PROVE Phase!Finish
<1>1. Announced = {}
  <2>1. Cardinality(Announced) = 0 /\ Announced \subseteq Lines
    BY DEF IInv, TokensCounted, Decide, Announced
  <2>2. Lines = {} \/ \E l \in Lines : TRUE  OBVIOUS
  <2> QED  BY <2>1, <2>2, CountLines DEF Announced
<1>2. \A l \in Lines : gpc[l] = "gone"
  BY <1>1, JobRunAssumption DEF Announced, IInv, LinesInOrder, TypeOK, Decide, Lines
<1>3. ASSUME ~ctxDone  PROVE succeeded + failed = Total
  <2>1. Counted = Lines
    BY <1>2, <1>3 DEF IInv, ResultsKnown, Counted
  <2>2. Cardinality(Lines) = Total
    BY JobRunAssumption, FS_Interval DEF Lines
  <2> QED  BY <2>1, <2>2, CountedLines
<1> QED
  BY <1>3 DEF Decide, Phase!Finish, metadata

(* A write counts one more line, never after the decision.                 *)
LEMMA WriteIsCount == ASSUME IInv, NEW l \in Lines, Write(l)  PROVE Phase!Count
<1>1. mpc # "decided"
  <2>1. l \in Announced /\ Announced \subseteq Lines
    BY DEF Write, Announced
  <2> QED  BY <2>1, CountLines DEF IInv, TokensCounted
<1>2. succeeded + failed < Total
  <2>1. l \notin Counted  BY DEF Write, Counted
  <2>2. IsFiniteSet(Lines) /\ Cardinality(Lines) = Total
    BY JobRunAssumption, FS_Interval DEF Lines
  <2>3. Counted \subseteq Lines /\ Counted # Lines
    BY <2>1 DEF Counted
  <2>4. Cardinality(Counted) <= Total /\ Cardinality(Counted) # Total
    BY <2>2, <2>3, FS_Subset
  <2>5. Cardinality(Counted) \in 0..Total
    BY <2>3, CountLines
  <2> QED  BY <2>4, <2>5, CountedLines, JobRunAssumption
<1>3. succeeded' + failed' = succeeded + failed + 1
  <2>1. gread[l] = Counter(l)  BY DEF Write, IInv, MutexHeld
  <2> QED  BY <2>1, CountedLines DEF Write, Counter
<1> QED
  BY <1>1, <1>2, <1>3 DEF Write, Phase!Count, mainVars

(* The line phase of processJob implements LinePhase for any number of     *)
(* lines: it finishes with every line counted once unless a shutdown has   *)
(* interrupted it, and nothing is counted after the final status has been  *)
(* decided (worker.go:281-349).                                            *)
THEOREM LinePhaseRefined == Spec => PhaseSpec
<1>1. Init => Phase!Init
  BY DEF Init, Phase!Init
<1>2. IInv /\ [Next]_vars => [Phase!Next]_Phase!vars
  <2> SUFFICES ASSUME IInv, [Next]_vars  PROVE [Phase!Next]_Phase!vars  OBVIOUS
  <2>1. CASE UNCHANGED <<succeeded, failed, ctxDone>> /\
             (mpc' = mpc \/ (mpc \notin {"decided", "returned"} /\ mpc' \notin {"decided", "returned"}))
    BY <2>1 DEF Phase!vars
  <2>2. ASSUME Receive \/ RangeEnds \/ StartLine \/ CloseChan \/ UNCHANGED vars
        PROVE  [Phase!Next]_Phase!vars
    BY <2>1, <2>2 DEF Receive, RangeEnds, StartLine, CloseChan, vars, mainVars, metadata
  <2>3. ASSUME Decide  PROVE [Phase!Next]_Phase!vars
    BY <2>3, DecideIsFinish DEF Phase!Next
  <2>4. ASSUME ReturnEarly  PROVE [Phase!Next]_Phase!vars
    <3>1. Phase!Abort  BY <2>4 DEF ReturnEarly, Phase!Abort, metadata
    <3> QED  BY <3>1 DEF Phase!Next
  <2>5. ASSUME Shutdown  PROVE [Phase!Next]_Phase!vars
    <3>1. Phase!Interrupt  BY <2>5 DEF Shutdown, Phase!Interrupt, metadata, mainVars
    <3> QED  BY <3>1 DEF Phase!Next
  <2>6. ASSUME NEW l \in Lines, LineNext(l)  PROVE [Phase!Next]_Phase!vars
    <3>1. CASE Write(l)  BY <3>1, WriteIsCount DEF Phase!Next
    <3>2. CASE ~Write(l)
      BY <2>1, <2>6, <3>2 DEF LineNext, Check, Generate, Lock, Read, Unlock, SemRelease,
         WgDone, mainVars, metadata
    <3> QED  BY <3>1, <3>2
  <2> QED  BY <2>2, <2>3, <2>4, <2>5, <2>6 DEF Next, MainNext
<1> QED  BY <1>1, <1>2, JobRunInvariant, PTL DEF Spec, PhaseSpec, Phase!Spec
=============================================================================
