----------------------------- MODULE MCGateway -----------------------------
(* Small instances of the gateway for TLC. *)
EXTENDS Gateway

CONSTANTS j1, j2, w1, w2, p1, p2, h1, h2

\* j1 is the more urgent of two jobs.
MCSLO == [j \in Jobs |-> IF j = j1 THEN 1 ELSE 2]

\* Two workers of one process; one worker in each of two processes.
OnePool == [w \in Workers |-> p1]
TwoPools == [w \in Workers |-> IF w = w1 THEN p1 ELSE p2]

\* Handlers are alike.
HandlerSymmetry == Permutations(Handlers)
=============================================================================
