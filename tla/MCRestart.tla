----------------------------- MODULE MCRestart -----------------------------
(***************************************************************************)
(* Restart for TLC, with the values that MCQueue gives to the constants of *)
(* Queue.                                                                  *)
(***************************************************************************)
EXTENDS Restart, MCQueue
=============================================================================
