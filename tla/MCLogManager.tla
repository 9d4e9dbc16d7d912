----------------------------- MODULE MCLogManager -----------------------------
(* Instances of LogManager for TLC.                                        *)
EXTENDS LogManager

(* A bound on the closures that the disk thread has not carried out.       *)
CONSTANT MaxQueue
QueueBound == Len(batch) + Len(queue) <= MaxQueue
===============================================================================
