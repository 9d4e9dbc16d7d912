---------------------------- MODULE MCReplication ----------------------------
(* Instances of Replication for TLC.                                       *)
EXTENDS Replication

(* Tasks without dependencies.                                             *)
Independent(i) == i

(* Every second task depends on the one before the last.                   *)
Alternating(i) == i % 2

(* At most one call fails or one restart happens.                          *)
OneFault == failures + restarts <= 1
==============================================================================
