------------------------------- MODULE Ballot -------------------------------
(***************************************************************************)
(* The vote counter of cpp/ballot.{h,cc}.  A Ballot is created for a       *)
(* configuration, and for the old configuration too while the two are      *)
(* joint.  It counts down, per configuration, from a majority to zero; a   *)
(* peer is counted at most once because it is flagged `found'.             *)
(*                                                                         *)
(* NodeImpl keeps one Ballot per election round (_prevote_ctx, _vote_ctx)  *)
(* and BallotBox one per pending log entry.                                *)
(*                                                                         *)
(* The vector of UnfoundPeerId is a pair of sets: the peers and the found  *)
(* ones.  PosHint only tells find_peer where to look first, so it does not *)
(* appear.  old = {} stands for a NULL old_conf: its callers pass NULL     *)
(* exactly when the old configuration is empty.                            *)
(***************************************************************************)
EXTENDS Integers, FiniteSets

MajorityOf(conf) == Cardinality(conf) \div 2 + 1

(* The ballots that a configuration may give rise to.                      *)
BallotOf(conf, old) ==
  [peers : {conf}, found : SUBSET conf, quorum : Int,
   old_peers : {old}, old_found : SUBSET old, old_quorum : Int]

(* Faulty variant of BallotInit: the old configuration is forgotten.       *)
BallotInitNoOld(conf, old) ==
  [peers     |-> conf, found     |-> {}, quorum     |-> MajorityOf(conf),
   old_peers |-> old,  old_found |-> {}, old_quorum |-> 0]

BallotInit(conf, old) ==
  [peers     |-> conf, found     |-> {}, quorum     |-> MajorityOf(conf),
   old_peers |-> old,  old_found |-> {},
   old_quorum |-> IF old = {} THEN 0 ELSE MajorityOf(old)]

BallotGrant(b, peer) ==
  LET counts    == peer \in b.peers \ b.found
      oldCounts == peer \in b.old_peers \ b.old_found
  IN [b EXCEPT !.found      = IF counts THEN @ \cup {peer} ELSE @,
               !.quorum     = IF counts THEN @ - 1 ELSE @,
               !.old_found  = IF oldCounts THEN @ \cup {peer} ELSE @,
               !.old_quorum = IF oldCounts THEN @ - 1 ELSE @]

BallotGranted(b) == b.quorum <= 0 /\ b.old_quorum <= 0

-----------------------------------------------------------------------------
(* What the counters are meant to decide, stated without counters.         *)

IsMajority(S, conf) == 2 * Cardinality(S \cap conf) > Cardinality(conf)

JointMajority(S, conf, old) ==
  IsMajority(S, conf) /\ (old # {} => IsMajority(S, old))

(* A ballot whose counters agree with its found flags.                     *)
WellCounted(b) ==
  /\ b.found \subseteq b.peers
  /\ b.old_found \subseteq b.old_peers
  /\ b.quorum = MajorityOf(b.peers) - Cardinality(b.found)
  /\ b.old_quorum = IF b.old_peers = {} THEN 0
                    ELSE MajorityOf(b.old_peers) - Cardinality(b.old_found)
=============================================================================
