----------------------------- MODULE MCBallotBox -----------------------------
(* Small instances of BallotBox for TLC.                                    *)
EXTENDS BallotBox, TLC

CONSTANTS
  MaxTasks        \* bound on the length of the FSMCaller's queue

QueueBound == Len(tasks) <= MaxTasks

(* For larger instances: followers other than this node are interchangeable *)
(* while the configuration is stable, and a node that commits as a leader   *)
(* only.                                                                    *)
Symmetry == Permutations(Conf \ {Self})
OnlyLeaderCommits == \A t \in Thread : pub[t].at # "call"
=============================================================================
