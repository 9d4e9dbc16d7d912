----------------------------- MODULE MCNodeTimers -----------------------------
(* A small instance of NodeTimers for TLC.                                   *)
EXTENDS NodeTimers
=============================================================================
