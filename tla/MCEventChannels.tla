-------------------------- MODULE MCEventChannels --------------------------
(* A small instance of the event channels for TLC. *)
EXTENDS EventChannels

CONSTANTS j1, j2

\* CancelBatch sends one event; the interface takes any number.
MCCalls == {<<j1>>, <<j1, j1>>, <<j2, j1>>}
=============================================================================
