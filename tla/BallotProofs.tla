----------------------------- MODULE BallotProofs -----------------------------
(***************************************************************************)
(* What the counters of a Ballot decide, for configurations of any size.   *)
(***************************************************************************)
EXTENDS Ballot, FiniteSetTheorems, TLAPS

(* A fresh ballot (Ballot::init) is well counted: nobody is found yet and  *)
(* a majority is missing.                                                  *)
LEMMA BallotInitCounted ==
  ASSUME NEW conf, NEW old, IsFiniteSet(conf), IsFiniteSet(old)
  PROVE  /\ BallotInit(conf, old) \in BallotOf(conf, old)
         /\ WellCounted(BallotInit(conf, old))
<1>1. Cardinality(conf) \in Nat /\ Cardinality(old) \in Nat
  BY FS_CardinalityType
<1>2. MajorityOf(conf) \in Int /\ MajorityOf(old) \in Int
  BY <1>1 DEF MajorityOf
<1>3. Cardinality({}) = 0
  BY FS_EmptySet
<1> QED
  BY <1>2, <1>3 DEF BallotInit, BallotOf, WellCounted

(* Ballot::grant returns a ballot of the same configuration.               *)
LEMMA BallotGrantType ==
  ASSUME NEW conf, NEW old, NEW b \in BallotOf(conf, old), NEW peer
  PROVE  BallotGrant(b, peer) \in BallotOf(conf, old)
<1> DEFINE g == BallotGrant(b, peer)
           f  == IF peer \in conf \ b.found THEN b.found \cup {peer} ELSE b.found
           q  == IF peer \in conf \ b.found THEN b.quorum - 1 ELSE b.quorum
           of == IF peer \in old \ b.old_found
                 THEN b.old_found \cup {peer} ELSE b.old_found
           oq == IF peer \in old \ b.old_found
                 THEN b.old_quorum - 1 ELSE b.old_quorum
<1>1. /\ b.peers = conf /\ b.found \in SUBSET conf /\ b.quorum \in Int
      /\ b.old_peers = old /\ b.old_found \in SUBSET old /\ b.old_quorum \in Int
  BY DEF BallotOf
<1>2. f \in SUBSET conf /\ q \in Int /\ of \in SUBSET old /\ oq \in Int
  BY <1>1
<1>3. g = [b EXCEPT !.found = f, !.quorum = q, !.old_found = of, !.old_quorum = oq]
  BY <1>1 DEF BallotGrant
<1> HIDE DEF f, q, of, oq, g
<1>4. g \in BallotOf(conf, old)
  BY Zenon, <1>2, <1>3 DEF BallotOf
<1> QED
  BY <1>4 DEF g

(* Ballot::grant finds a peer of the configuration and keeps the counters  *)
(* in step with the found flags, also when the peer was found before.      *)
LEMMA BallotGrantCounted ==
  ASSUME NEW conf, NEW old, IsFiniteSet(conf), IsFiniteSet(old),
         NEW b \in BallotOf(conf, old), WellCounted(b), NEW peer
  PROVE  /\ BallotGrant(b, peer) \in BallotOf(conf, old)
         /\ WellCounted(BallotGrant(b, peer))
         /\ BallotGrant(b, peer).found = b.found \cup ({peer} \cap conf)
         /\ BallotGrant(b, peer).old_found = b.old_found \cup ({peer} \cap old)
<1> DEFINE g == BallotGrant(b, peer)
<1>1. /\ b.peers = conf /\ b.found \in SUBSET conf /\ b.quorum \in Int
      /\ b.old_peers = old /\ b.old_found \in SUBSET old /\ b.old_quorum \in Int
  BY DEF BallotOf
<1>2. /\ IsFiniteSet(b.found) /\ Cardinality(b.found) \in Nat
      /\ IsFiniteSet(b.old_found) /\ Cardinality(b.old_found) \in Nat
      /\ Cardinality(conf) \in Nat /\ Cardinality(old) \in Nat
  BY <1>1, FS_Subset, FS_CardinalityType
<1>3. MajorityOf(conf) \in Int /\ MajorityOf(old) \in Int
  BY <1>2 DEF MajorityOf
<1>4. /\ peer \notin b.found =>
           Cardinality(b.found \cup {peer}) = Cardinality(b.found) + 1
      /\ peer \notin b.old_found =>
           Cardinality(b.old_found \cup {peer}) = Cardinality(b.old_found) + 1
  BY Zenon, <1>2, FS_AddElement
<1>5. /\ g.peers = conf /\ g.old_peers = old
      /\ g.found = IF peer \in conf \ b.found THEN b.found \cup {peer} ELSE b.found
      /\ g.quorum = IF peer \in conf \ b.found THEN b.quorum - 1 ELSE b.quorum
      /\ g.old_found = IF peer \in old \ b.old_found
                       THEN b.old_found \cup {peer} ELSE b.old_found
      /\ g.old_quorum = IF peer \in old \ b.old_found
                        THEN b.old_quorum - 1 ELSE b.old_quorum
  BY <1>1 DEF BallotGrant, BallotOf
<1>6. g \in BallotOf(conf, old)
  BY BallotGrantType
<1>7. g.quorum = MajorityOf(conf) - Cardinality(g.found)
  <2>1. b.quorum = MajorityOf(conf) - Cardinality(b.found)
    BY <1>1 DEF WellCounted
  <2> QED
    BY <2>1, <1>2, <1>3, <1>4, <1>5
<1>8. g.old_quorum = IF old = {} THEN 0
                     ELSE MajorityOf(old) - Cardinality(g.old_found)
  <2>1. b.old_quorum = IF old = {} THEN 0
                       ELSE MajorityOf(old) - Cardinality(b.old_found)
    BY <1>1 DEF WellCounted
  <2> QED
    BY <2>1, <1>2, <1>3, <1>4, <1>5
<1>9. WellCounted(g)
  BY <1>1, <1>5, <1>7, <1>8 DEF WellCounted
<1> QED
  BY <1>1, <1>5, <1>6, <1>9

(* Counting down from n / 2 + 1 reaches zero with more than half of n.     *)
LEMMA CountdownReachesZero ==
  \A n, f \in Nat : n \div 2 + 1 - f <= 0 <=> 2 * f > n
OBVIOUS

(* Ballot::granted answers yes exactly when the found peers are a majority *)
(* of the configuration and, while there is one, of the old configuration. *)
THEOREM GrantedIffMajority ==
  ASSUME NEW conf, NEW old, IsFiniteSet(conf), IsFiniteSet(old),
         NEW b \in BallotOf(conf, old), WellCounted(b)
  PROVE  BallotGranted(b) <=> /\ IsMajority(b.found, conf)
                              /\ old # {} => IsMajority(b.old_found, old)
<1>1. /\ b.peers = conf /\ b.found \in SUBSET conf /\ b.quorum \in Int
      /\ b.old_peers = old /\ b.old_found \in SUBSET old /\ b.old_quorum \in Int
  BY DEF BallotOf
<1>2. b.found \cap conf = b.found /\ b.old_found \cap old = b.old_found
  BY <1>1
<1>3. /\ Cardinality(b.found) \in Nat /\ Cardinality(b.old_found) \in Nat
      /\ Cardinality(conf) \in Nat /\ Cardinality(old) \in Nat
  BY <1>1, FS_Subset, FS_CardinalityType
<1>4. b.quorum <= 0 <=> IsMajority(b.found, conf)
  <2>1. b.quorum = MajorityOf(conf) - Cardinality(b.found)
    BY <1>1 DEF WellCounted
  <2>2. MajorityOf(conf) - Cardinality(b.found) <= 0
        <=> 2 * Cardinality(b.found) > Cardinality(conf)
    BY <1>3, CountdownReachesZero DEF MajorityOf
  <2>3. IsMajority(b.found, conf) <=> 2 * Cardinality(b.found) > Cardinality(conf)
    BY <1>2 DEF IsMajority
  <2> QED
    BY <2>1, <2>2, <2>3
<1>5. b.old_quorum <= 0 <=> (old # {} => IsMajority(b.old_found, old))
  <2>1. b.old_quorum = IF old = {} THEN 0
                       ELSE MajorityOf(old) - Cardinality(b.old_found)
    BY <1>1 DEF WellCounted
  <2>2. MajorityOf(old) - Cardinality(b.old_found) <= 0
        <=> 2 * Cardinality(b.old_found) > Cardinality(old)
    BY <1>3, CountdownReachesZero DEF MajorityOf
  <2>3. IsMajority(b.old_found, old) <=> 2 * Cardinality(b.old_found) > Cardinality(old)
    BY <1>2 DEF IsMajority
  <2> QED
    BY <2>1, <2>2, <2>3
<1> QED
  BY <1>4, <1>5 DEF BallotGranted

(* Two majorities of one configuration have a peer in common: the reason   *)
(* why neither two leaders nor two entries can both be granted.            *)
THEOREM MajoritiesMeet ==
  ASSUME NEW conf, IsFiniteSet(conf), NEW S, NEW T,
         IsMajority(S, conf), IsMajority(T, conf)
  PROVE  \E p \in conf : p \in S /\ p \in T
<1>1. /\ Cardinality(S \cap conf) \in Nat /\ Cardinality(T \cap conf) \in Nat
      /\ Cardinality(conf) \in Nat
  BY Zenon, FS_Intersection, FS_CardinalityType
<1>2. Cardinality(S \cap conf) + Cardinality(T \cap conf) > Cardinality(conf)
  BY <1>1 DEF IsMajority
<1>3. (S \cap conf) \cap (T \cap conf) # {}
  BY <1>2, FS_MajoritiesIntersect
<1> QED
  BY <1>3

(* Whatever contains a majority is a majority.                             *)
LEMMA LargerMajority ==
  ASSUME NEW conf, IsFiniteSet(conf), NEW S, NEW T,
         S \cap conf \subseteq T, IsMajority(S, conf)
  PROVE  IsMajority(T, conf)
<1>1. S \cap conf \in SUBSET (T \cap conf) /\ IsFiniteSet(T \cap conf)
  BY Zenon, FS_Intersection
<1>2. /\ Cardinality(S \cap conf) <= Cardinality(T \cap conf)
      /\ Cardinality(S \cap conf) \in Nat /\ Cardinality(T \cap conf) \in Nat
      /\ Cardinality(conf) \in Nat
  BY <1>1, FS_Subset, FS_CardinalityType
<1> QED
  BY <1>2 DEF IsMajority
=============================================================================
