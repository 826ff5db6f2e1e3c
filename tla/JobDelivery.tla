---------------------------- MODULE JobDelivery ----------------------------
(***************************************************************************)
(* What the queue, the handlers and the polling loops promise together     *)
(* about one job, whatever fails: it is queued at most once, handed to one *)
(* polling loop at a time, and started at most once.  A loop that cannot   *)
(* start a job may put it back.  Nothing brings a job back that is over:   *)
(* withdrawn by a cancel, finished, or lost.                               *)
(***************************************************************************)
CONSTANT Jobs

VARIABLE stage     \* stage[j]: where job j is in its life

Stages == {"new", "queued", "held", "running", "over"}

Init == stage = [j \in Jobs |-> "new"]

Move(j, from, to) ==
  /\ stage[j] = from
  /\ stage' = [stage EXCEPT ![j] = to]

Submit(j)   == Move(j, "new", "queued")
Take(j)     == Move(j, "queued", "held")
PutBack(j)  == Move(j, "held", "queued")
Start(j)    == Move(j, "held", "running")
Withdraw(j) == Move(j, "queued", "over")    \* cancelled, or the reply lost

\* The jobs in S end together: one job finishes, or a process dies.
End(S) ==
  /\ \A j \in S : stage[j] \in {"held", "running"}
  /\ stage' = [j \in Jobs |-> IF j \in S THEN "over" ELSE stage[j]]

Next ==
  \/ \E j \in Jobs : Submit(j) \/ Take(j) \/ PutBack(j) \/ Start(j) \/ Withdraw(j)
  \/ \E S \in SUBSET Jobs : End(S)

Spec == Init /\ [][Next]_stage
=============================================================================
