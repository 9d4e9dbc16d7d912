--------------------------- MODULE BallotBoxProofs ---------------------------
(***************************************************************************)
(* The in-order BallotBox is correct for every configuration, joint or     *)
(* not, every log length and any number of elections: InOrderInv is        *)
(* inductive, and the properties of BallotBox follow from it.  The first   *)
(* part says what each operation does to the two deques and that all of    *)
(* them but commit_at and the publications keep InOrderInv.                *)
(***************************************************************************)
EXTENDS BallotBox, BallotProofs

(* A function on 1 .. n is a sequence of length n.                         *)
LEMMA FunctionIsSeq ==
  ASSUME NEW T, NEW n \in Nat, NEW f \in [1 .. n -> T]
  PROVE  f \in Seq(T) /\ Len(f) = n
<1>1. f \in Seq(T)
  OBVIOUS
<1> QED
  BY <1>1

(* What pop_front, n times, leaves of a deque.                             *)
LEMMA DropFrontProperties ==
  ASSUME NEW T, NEW q \in Seq(T), NEW n \in 0 .. Len(q)
  PROVE  /\ DropFront(q, n) \in Seq(T)
         /\ Len(DropFront(q, n)) = Len(q) - n
         /\ DOMAIN DropFront(q, n) = 1 .. Len(q) - n
         /\ \A k \in 1 .. Len(q) - n : DropFront(q, n)[k] = q[n + k]
         /\ n = 0 => DropFront(q, n) = q
<1>1. Len(q) \in Nat /\ \A k \in 1 .. Len(q) : q[k] \in T
  OBVIOUS
<1>2. n \in Nat /\ n + 1 \in Int /\ Len(q) \in Int
  BY <1>1
<1>3. \A k \in n + 1 .. Len(q) : q[k] \in T
  BY <1>1, <1>2
<1>4. /\ SubSeq(q, n + 1, Len(q)) \in Seq(T)
      /\ Len(SubSeq(q, n + 1, Len(q))) = IF n + 1 <= Len(q)
                                         THEN Len(q) - (n + 1) + 1 ELSE 0
      /\ \A k \in 1 .. Len(q) - (n + 1) + 1 :
           SubSeq(q, n + 1, Len(q))[k] = q[n + 1 + k - 1]
  BY <1>2, <1>3
<1>5. n = 0 => SubSeq(q, n + 1, Len(q)) = q
  OBVIOUS
<1>6. Len(DropFront(q, n)) = Len(q) - n
  BY <1>1, <1>2, <1>4 DEF DropFront
<1>7. DOMAIN DropFront(q, n) = 1 .. Len(q) - n
  BY <1>4, <1>6 DEF DropFront
<1>8. \A k \in 1 .. Len(q) - n : DropFront(q, n)[k] = q[n + k]
  <2> TAKE k \in 1 .. Len(q) - n
  <2>1. k \in 1 .. Len(q) - (n + 1) + 1 /\ n + 1 + k - 1 = n + k
    BY <1>1, <1>2
  <2> QED
    BY Zenon, <1>4, <2>1 DEF DropFront
<1> QED
  BY Zenon, <1>4, <1>5, <1>6, <1>7, <1>8 DEF DropFront

-----------------------------------------------------------------------------
(* TypeOK in the form that the steps use.                                  *)
BoxTypes ==
  /\ pending \in Nat /\ lastLog \in Nat /\ lastCommitted \in Nat
  /\ reignStart \in Nat /\ reign \in Nat
  /\ MaxIndex \in Nat /\ MaxReign \in Nat
  /\ Len(meta) \in Nat /\ DOMAIN meta = 1 .. Len(meta)
  /\ \A k \in 1 .. Len(meta) : meta[k] \in BallotOf(Conf, OldConf)
  /\ Len(flags) \in Nat /\ DOMAIN flags = 1 .. Len(flags)
  /\ \A k \in 1 .. Len(flags) : flags[k] \in BOOLEAN
  /\ Len(tasks) \in Nat /\ DOMAIN tasks = 1 .. Len(tasks)
  /\ \A k \in 1 .. Len(tasks) : tasks[k] \in Task

(* The variables' types, with the lengths and the elements of the deques.  *)
LEMMA TypeFacts ==
  ASSUME TypeOK PROVE BoxTypes
<1>1. /\ meta \in Seq(BallotOf(Conf, OldConf)) /\ flags \in Seq(BOOLEAN)
      /\ tasks \in Seq(Task)
  BY Zenon DEF TypeOK
<1>2. /\ Len(meta) \in Nat /\ DOMAIN meta = 1 .. Len(meta)
      /\ Len(flags) \in Nat /\ DOMAIN flags = 1 .. Len(flags)
      /\ Len(tasks) \in Nat /\ DOMAIN tasks = 1 .. Len(tasks)
  BY <1>1
<1>3. \A k \in 1 .. Len(meta) : meta[k] \in BallotOf(Conf, OldConf)
  BY <1>1
<1>4. \A k \in 1 .. Len(flags) : flags[k] \in BOOLEAN
  BY <1>1
<1>5. \A k \in 1 .. Len(tasks) : tasks[k] \in Task
  BY <1>1
<1>6. MaxIndex \in Nat /\ MaxReign \in Nat
  BY Zenon, BoundAssumption
<1>7. /\ pending \in Nat /\ lastLog \in Nat /\ lastCommitted \in Nat
      /\ reignStart \in Nat /\ reign \in Nat
  BY <1>6 DEF TypeOK
<1> QED
  BY Zenon, <1>2, <1>3, <1>4, <1>5, <1>6, <1>7 DEF BoxTypes

(* A node that has just started satisfies the invariant.                   *)
LEMMA InitInv == Init => InOrderInv
<1> SUFFICES ASSUME Init PROVE InOrderInv
  BY Zenon
<1> USE DEF Init
<1>1. Len(<<>>) = 0 /\ DOMAIN <<>> = {}
  OBVIOUS
<1>2. TypeOK
  BY BoundAssumption DEF TypeOK, Idle, Index, Task
<1>3. BoxShape
  BY <1>1 DEF BoxShape
<1>4. CountsMatch /\ GrantsNested /\ ReignCommitted
  BY Zenon, <1>1 DEF CountsMatch, GrantsNested, ReignCommitted
<1>5. CallsNameOldEntries /\ PublishedIsCommitted
  BY <1>1 DEF CallsNameOldEntries, PublishedIsCommitted, Idle
<1> QED
  BY Zenon, <1>2, <1>3, <1>4, <1>5 DEF InOrderInv

-----------------------------------------------------------------------------
(* become_leader keeps the invariant: the pending queue is empty and every *)
(* call still on its way names an entry this node already has.             *)
LEMMA BecomeLeaderInv ==
  ASSUME InOrderInv, BecomeLeader PROVE InOrderInv'
<1> USE DEF InOrderInv, BecomeLeader, BoxTypes
<1>1. BoxTypes
  BY Zenon, TypeFacts
<1>2. pending = 0 /\ meta = <<>> /\ Len(meta) = 0 /\ DOMAIN meta = {}
  BY DEF BoxShape
<1>3. TypeOK'
  BY <1>1 DEF TypeOK, outVars
<1>4. BoxShape'
  BY <1>1, <1>2 DEF BoxShape, outVars
<1>5. CountsMatch' /\ GrantsNested' /\ ReignCommitted'
  BY <1>1, <1>2 DEF CountsMatch, GrantsNested, ReignCommitted, outVars, Index
<1>6. CallsNameOldEntries' /\ PublishedIsCommitted'
  BY <1>1, <1>2 DEF CallsNameOldEntries, PublishedIsCommitted, outVars, TypeOK
<1> QED
  BY Zenon, <1>3, <1>4, <1>5, <1>6

(* append_pending_task keeps the invariant: the new ballot is empty, nobody*)
(* has acknowledged the new entry, and the flag at its place is FALSE.     *)
LEMMA AppendInv ==
  ASSUME InOrderInv, AppendPendingTask PROVE InOrderInv'
<1> USE DEF InOrderInv, AppendPendingTask, BoxTypes
<1> DEFINE b == BallotInit(Conf, OldConf)
           L == Len(meta)
<1>1. BoxTypes
  BY Zenon, TypeFacts
<1>2. b \in BallotOf(Conf, OldConf) /\ WellCounted(b)
  BY Zenon, ConfAssumption, BallotInitCounted
<1>3. b.found = {} /\ b.old_found = {}
  BY Zenon DEF BallotInit
<1>4. ~BallotGranted(b)
  <2>1. 0 < MajorityOf(Conf)
    BY ConfAssumption, FS_CardinalityType DEF MajorityOf
  <2> QED
    BY <2>1, ConfAssumption, FS_CardinalityType
    DEF BallotGranted, BallotInit, MajorityOf
<1> HIDE DEF b
<1>5. /\ meta' = Append(meta, b) /\ meta' \in Seq(BallotOf(Conf, OldConf))
      /\ Len(meta') = L + 1 /\ DOMAIN meta' = 1 .. L + 1
      /\ \A k \in 1 .. L : meta'[k] = meta[k]
      /\ meta'[L + 1] = b
  BY <1>1, <1>2 DEF b, TypeOK
<1>6. /\ flags' \in Seq(BOOLEAN) /\ Len(flags') = Len(flags) + 1
      /\ DOMAIN flags' = 1 .. Len(flags) + 1
      /\ \A k \in 1 .. Len(flags) + 1 : ~flags'[k]
  <2>1. flags \in Seq(BOOLEAN) /\ flags' = Append(flags, FALSE)
    BY Zenon DEF TypeOK
  <2>2. /\ flags' \in Seq(BOOLEAN) /\ Len(flags') = Len(flags) + 1
        /\ \A k \in 1 .. Len(flags) : flags'[k] = flags[k]
        /\ flags'[Len(flags) + 1] = FALSE
    BY <2>1
  <2>3. DOMAIN flags' = 1 .. Len(flags) + 1
    BY <2>2
  <2>4. \A k \in 1 .. Len(flags) : ~flags[k]
    BY Zenon, <1>1 DEF BoxShape
  <2>5. \A k \in 1 .. Len(flags) + 1 : k \in 1 .. Len(flags) \/ k = Len(flags) + 1
    BY <1>1
  <2> QED
    BY Zenon, <2>2, <2>3, <2>4, <2>5
<1>7. TypeOK'
  BY <1>1, <1>5, <1>6 DEF TypeOK, outVars, ghostVars
<1>8. BoxShape'
  <2>1. \A k \in DOMAIN flags' : ~flags'[k]
    BY Zenon, <1>6
  <2>2. /\ L <= Len(flags) /\ pending # 0 /\ pending + L = lastLog + 1
        /\ reignStart <= pending /\ lastCommitted < pending
        /\ lastCommitted <= lastLog
    BY Zenon DEF BoxShape
  <2>3. /\ pending' = pending /\ state' = "leader" /\ reignStart' = reignStart
        /\ lastCommitted' = lastCommitted /\ lastLog' = lastLog + 1
    BY Zenon DEF ghostVars
  <2>4. /\ Len(meta') = L + 1 /\ Len(flags') = Len(flags) + 1
        /\ L \in Nat /\ Len(flags) \in Nat /\ lastLog \in Nat
        /\ lastCommitted \in Nat /\ pending \in Nat
    BY Zenon, <1>1, <1>5, <1>6
  <2> HIDE DEF AppendPendingTask, InOrderInv, BoxTypes, L
  <2>5. /\ Len(meta') <= Len(flags') /\ pending' + Len(meta') = lastLog' + 1
        /\ lastCommitted' <= lastLog'
    BY <2>2, <2>3, <2>4
  <2> QED
    BY Zenon, <2>1, <2>2, <2>3, <2>5 DEF BoxShape
<1>9. pending # 0 /\ pending + L = lastLog + 1 /\ lastLog + 1 \in Index
  BY <1>1 DEF BoxShape, Index
<1>10. grants[lastLog + 1] = {}
  <2>1. \A i \in Index : i > lastLog => grants[i] = {}
    BY Zenon, <1>9 DEF GrantsNested
  <2>2. lastLog + 1 > lastLog
    BY <1>1
  <2> QED
    BY Zenon, <1>9, <2>1, <2>2
<1>11. CountsMatch'
  <2> SUFFICES ASSUME NEW k \in 1 .. L + 1
               PROVE  /\ WellCounted(meta'[k])
                      /\ meta'[k].found = grants[pending + k - 1] \cap Conf
                      /\ meta'[k].old_found = grants[pending + k - 1] \cap OldConf
                      /\ ~BallotGranted(meta'[k])
    BY Zenon, <1>5 DEF CountsMatch, ghostVars, outVars
  <2>1. CASE k \in 1 .. L
    BY Zenon, <2>1, <1>1, <1>5 DEF CountsMatch
  <2>2. CASE k = L + 1
    BY <2>2, <1>1, <1>2, <1>3, <1>4, <1>5, <1>9, <1>10
  <2> QED
    BY <2>1, <2>2, <1>1
<1>12. GrantsNested' /\ ReignCommitted'
  <2>1. /\ grants' = grants /\ pending' = pending /\ reignStart' = reignStart
        /\ lastLog' = lastLog + 1 /\ lastLog \in Nat
    BY Zenon, <1>1 DEF ghostVars
  <2>2. ReignCommitted'
    BY Zenon, <2>1 DEF ReignCommitted
  <2>3. GrantsNested'
    <3>1. \A i \in Index : i > lastLog + 1 => i > lastLog
      BY <2>1 DEF Index
    <3> HIDE DEF AppendPendingTask, InOrderInv, BoxTypes
    <3>2. GrantsNested
      BY Zenon DEF InOrderInv
    <3> QED
      BY Zenon, <2>1, <3>1, <3>2 DEF GrantsNested
  <2> QED
    BY Zenon, <2>2, <2>3
<1>13. CallsNameOldEntries' /\ PublishedIsCommitted'
  BY <1>1 DEF CallsNameOldEntries, PublishedIsCommitted, ghostVars, outVars, TypeOK
<1> QED
  BY Zenon, <1>7, <1>8, <1>11, <1>12, <1>13

(* clear_pending_tasks keeps the invariant: the flags it leaves behind are *)
(* all FALSE.                                                              *)
LEMMA ClearInv ==
  ASSUME InOrderInv, ClearPendingTasks PROVE InOrderInv'
<1> USE DEF InOrderInv, ClearPendingTasks, BoxTypes
<1>1. BoxTypes
  BY Zenon, TypeFacts
<1>2. Len(meta') = 0 /\ DOMAIN meta' = {}
  OBVIOUS
<1>3. TypeOK'
  BY <1>1 DEF TypeOK, outVars, ghostVars
<1>4. BoxShape'
  BY <1>1, <1>2 DEF BoxShape, outVars, ghostVars
<1>5. CountsMatch' /\ GrantsNested' /\ ReignCommitted'
  BY Zenon, <1>2 DEF CountsMatch, GrantsNested, ReignCommitted
<1>6. CallsNameOldEntries' /\ PublishedIsCommitted'
  BY Zenon DEF CallsNameOldEntries, PublishedIsCommitted, outVars
<1> QED
  BY Zenon, <1>3, <1>4, <1>5, <1>6

(* A new end of a follower's log keeps the invariant: it is not below any  *)
(* committed entry or any entry a call on its way names.                   *)
LEMMA ReplaceLogInv ==
  ASSUME InOrderInv, NEW n \in 0 .. MaxIndex, ReplaceLog(n) PROVE InOrderInv'
<1> USE DEF InOrderInv, ReplaceLog, BoxTypes
<1>1. BoxTypes
  BY Zenon, TypeFacts
<1>2. pending = 0 /\ meta = <<>> /\ Len(meta) = 0 /\ DOMAIN meta = {}
  BY DEF BoxShape
<1>3. TypeOK'
  BY Zenon, <1>1 DEF TypeOK, boxVars, outVars, ghostVars
<1>4. BoxShape'
  BY <1>1, <1>2 DEF BoxShape, boxVars, outVars, ghostVars
<1>5. CountsMatch' /\ GrantsNested' /\ ReignCommitted'
  BY Zenon, <1>2 DEF CountsMatch, GrantsNested, ReignCommitted, boxVars, ghostVars
<1>6. CallsNameOldEntries' /\ PublishedIsCommitted'
  BY <1>1, <1>2 DEF CallsNameOldEntries, PublishedIsCommitted, boxVars, outVars,
                    TypeOK
<1> QED
  BY Zenon, <1>3, <1>4, <1>5, <1>6

-----------------------------------------------------------------------------
(* The acknowledgements after commit_at(S, peer) are nested again: peer    *)
(* acknowledges, with each entry, all the pending ones before it.          *)
LEMMA AcknowledgedNested ==
  ASSUME InOrderInv, NEW peer \in Peer, NEW S \in SUBSET Index,
         Accepts(S), ContinuesPrefix(S, peer)
  PROVE  /\ Acknowledged(S, peer) \in [Index -> SUBSET Peer]
         /\ \A i, j \in Index : (pending <= i /\ i <= j) =>
              Acknowledged(S, peer)[j] \subseteq Acknowledged(S, peer)[i]
         /\ \A i \in Index : i > lastLog => Acknowledged(S, peer)[i] = {}
         /\ \A i \in Index : i < pending => Acknowledged(S, peer)[i] = grants[i]
<1> DEFINE G == Acknowledged(S, peer)
<1>1. /\ pending \in Nat /\ lastLog \in Nat /\ Len(meta) \in Nat /\ MaxIndex \in Nat
  BY Zenon, TypeFacts DEF BoxTypes, InOrderInv
<1>2. grants \in [Index -> SUBSET Peer]
  BY Zenon DEF InOrderInv, TypeOK
<1>3. pending # 0 /\ pending + Len(meta) = lastLog + 1
  BY Zenon DEF Accepts, InOrderInv, BoxShape
<1>4. /\ \A i, j \in Index : (pending <= i /\ i <= j) => grants[j] \subseteq grants[i]
      /\ \A i \in Index : i > lastLog => grants[i] = {}
  BY Zenon, <1>3 DEF InOrderInv, GrantsNested
<1>5. \A i \in Index : G[i] = IF i \in S /\ i >= pending
                              THEN grants[i] \cup {peer} ELSE grants[i]
  BY Zenon DEF Acknowledged
<1>6. G \in [Index -> SUBSET Peer]
  BY Zenon, <1>2 DEF Acknowledged
<1>7. \A i \in Index : i > lastLog => i \notin S
  BY <1>1, <1>3 DEF Accepts, Index
<1> HIDE DEF G
<1>8. ASSUME NEW i \in Index, NEW j \in Index, pending <= i, i <= j
      PROVE  G[j] \subseteq G[i]
  <2>1. grants[j] \subseteq grants[i] /\ grants[i] \subseteq G[i]
    BY Zenon, <1>4, <1>5, <1>8
  <2>2. CASE j \in S
    <3>1. i \in S \/ peer \in grants[i]
      BY <1>1, <1>8, <2>2 DEF ContinuesPrefix, Index
    <3>2. i >= pending
      BY Zenon, <1>1, <1>8 DEF Index
    <3> QED
      BY Zenon, <1>5, <2>1, <3>1, <3>2
  <2>3. CASE j \notin S
    BY Zenon, <1>5, <2>1, <2>3
  <2> QED
    BY Zenon, <2>2, <2>3
<1>9. \A i \in Index : i > lastLog => G[i] = {}
  BY Zenon, <1>4, <1>5, <1>7
<1>10. \A i \in Index : i < pending => G[i] = grants[i]
  <2>1. \A i \in Index : i < pending => ~(i >= pending)
    BY <1>1 DEF Index
  <2> QED
    BY Zenon, <1>5, <2>1
<1> QED
  BY Zenon, <1>6, <1>8, <1>9, <1>10 DEF G

(* After the loop of commit_at every ballot has again counted exactly the  *)
(* peers that acknowledged its entry.                                      *)
LEMMA CountedMatches ==
  ASSUME InOrderInv, NEW peer \in Peer, NEW S \in SUBSET Index, Accepts(S)
  PROVE  /\ Granted(S, peer) \in Seq(BallotOf(Conf, OldConf))
         /\ Len(Granted(S, peer)) = Len(meta)
         /\ DOMAIN Granted(S, peer) = 1 .. Len(meta)
         /\ \A k \in 1 .. Len(meta) :
              LET b == Granted(S, peer)[k]
                  A == Acknowledged(S, peer)[pending + k - 1]
              IN /\ pending + k - 1 \in Index
                 /\ b \in BallotOf(Conf, OldConf)
                 /\ WellCounted(b)
                 /\ b.found = A \cap Conf
                 /\ b.old_found = A \cap OldConf
                 /\ BallotGranted(b) => pending + k - 1 \in S
<1> DEFINE counted == Granted(S, peer)
           G == Acknowledged(S, peer)
           L == Len(meta)
<1>1. /\ pending \in Nat /\ lastLog \in Nat /\ L \in Nat /\ MaxIndex \in Nat
      /\ DOMAIN meta = 1 .. L
      /\ \A k \in 1 .. L : meta[k] \in BallotOf(Conf, OldConf)
  BY Zenon, TypeFacts DEF BoxTypes, InOrderInv
<1>2. pending # 0 /\ pending + L = lastLog + 1 /\ lastLog <= MaxIndex
  BY <1>1 DEF Accepts, InOrderInv, BoxShape, TypeOK
<1>3. \A k \in 1 .. L :
        counted[k] = IF pending + k - 1 \in S THEN BallotGrant(meta[k], peer)
                     ELSE meta[k]
  BY Zenon, <1>1 DEF Granted
<1>4. \A k \in 1 .. L : pending + k - 1 \in Index /\ pending + k - 1 >= pending
  BY <1>1, <1>2 DEF Index
<1>5. \A i \in Index : G[i] = IF i \in S /\ i >= pending
                              THEN grants[i] \cup {peer} ELSE grants[i]
  BY Zenon DEF Acknowledged
<1>6. \A k \in 1 .. L : /\ WellCounted(meta[k])
                        /\ meta[k].found = grants[pending + k - 1] \cap Conf
                        /\ meta[k].old_found = grants[pending + k - 1] \cap OldConf
                        /\ ~BallotGranted(meta[k])
  BY Zenon, <1>1 DEF InOrderInv, CountsMatch
<1>7. IsFiniteSet(Conf) /\ IsFiniteSet(OldConf)
  BY Zenon, ConfAssumption
<1>8. DOMAIN counted = 1 .. L
  BY Zenon, <1>1 DEF Granted
<1>9. counted = [k \in 1 .. L |-> counted[k]]
  BY Zenon, <1>1 DEF Granted
<1> HIDE DEF counted, G, L
<1>10. ASSUME NEW k \in 1 .. L
       PROVE  /\ counted[k] \in BallotOf(Conf, OldConf)
              /\ WellCounted(counted[k])
              /\ counted[k].found = G[pending + k - 1] \cap Conf
              /\ counted[k].old_found = G[pending + k - 1] \cap OldConf
              /\ BallotGranted(counted[k]) => pending + k - 1 \in S
  <2> DEFINE i == pending + k - 1
  <2>1. i \in Index /\ i >= pending
    BY Zenon, <1>4
  <2>2. meta[k] \in BallotOf(Conf, OldConf) /\ WellCounted(meta[k])
    BY Zenon, <1>1, <1>6 DEF L
  <2>3. /\ meta[k].found = grants[i] \cap Conf
        /\ meta[k].old_found = grants[i] \cap OldConf
        /\ ~BallotGranted(meta[k])
    BY Zenon, <1>6
  <2>4. counted[k] = IF i \in S THEN BallotGrant(meta[k], peer) ELSE meta[k]
    BY Zenon, <1>3
  <2>5. G[i] = IF i \in S THEN grants[i] \cup {peer} ELSE grants[i]
    BY Zenon, <1>5, <2>1
  <2> HIDE DEF i
  <2>6. CASE i \in S
    <3>1. /\ BallotGrant(meta[k], peer) \in BallotOf(Conf, OldConf)
          /\ WellCounted(BallotGrant(meta[k], peer))
          /\ BallotGrant(meta[k], peer).found = meta[k].found \cup ({peer} \cap Conf)
          /\ BallotGrant(meta[k], peer).old_found
               = meta[k].old_found \cup ({peer} \cap OldConf)
      BY <1>7, <2>2, BallotGrantCounted
    <3>2. counted[k] = BallotGrant(meta[k], peer) /\ G[i] = grants[i] \cup {peer}
      BY Zenon, <2>4, <2>5, <2>6
    <3> QED
      BY SMTT(30), <2>3, <2>6, <3>1, <3>2 DEF i
  <2>7. CASE i \notin S
    BY Zenon, <2>2, <2>3, <2>4, <2>5, <2>7 DEF i
  <2> QED
    BY Zenon, <2>6, <2>7
<1>11. counted \in [1 .. L -> BallotOf(Conf, OldConf)]
  BY Zenon, <1>9, <1>10
<1>12. counted \in Seq(BallotOf(Conf, OldConf)) /\ Len(counted) = L
  BY Zenon, <1>1, <1>11, FunctionIsSeq
<1> QED
  BY Zenon, <1>4, <1>8, <1>10, <1>12 DEF counted, G, L

(* In order, commit_at finds granted exactly a prefix of the pending       *)
(* entries, all of them newly, and each is stored by a majority.           *)
LEMMA GrantedPrefix ==
  ASSUME InOrderInv, NEW peer \in Peer, NEW S \in SUBSET Index,
         Accepts(S), ContinuesPrefix(S, peer)
  PROVE  LET counted == Granted(S, peer)
             newly   == NewlyCommitted(S, counted)
         IN /\ \A k \in 1 .. Len(meta) :
                 /\ BallotGranted(counted[k]) =>
                      JointMajority(Acknowledged(S, peer)[pending + k - 1],
                                    Conf, OldConf)
                 /\ pending + k - 1 \in newly <=> BallotGranted(counted[k])
            /\ \A k, m \in 1 .. Len(meta) :
                 k <= m /\ BallotGranted(counted[m]) => BallotGranted(counted[k])
            /\ \A i \in newly : \E k \in 1 .. Len(meta) : i = pending + k - 1
            /\ newly \subseteq Index
<1> DEFINE counted == Granted(S, peer)
           newly == NewlyCommitted(S, counted)
           G == Acknowledged(S, peer)
           L == Len(meta)
<1>1. /\ pending \in Nat /\ lastLog \in Nat /\ L \in Nat /\ MaxIndex \in Nat
      /\ DOMAIN flags = 1 .. Len(flags) /\ Len(flags) \in Nat
  BY Zenon, TypeFacts DEF BoxTypes, InOrderInv
<1>2. IsFiniteSet(Conf) /\ IsFiniteSet(OldConf)
  BY Zenon, ConfAssumption
<1>3. \A k \in 1 .. L : /\ pending + k - 1 \in Index
                        /\ counted[k] \in BallotOf(Conf, OldConf)
                        /\ WellCounted(counted[k])
                        /\ counted[k].found = G[pending + k - 1] \cap Conf
                        /\ counted[k].old_found = G[pending + k - 1] \cap OldConf
                        /\ BallotGranted(counted[k]) => pending + k - 1 \in S
  BY Zenon, CountedMatches
<1>4. \A i, j \in Index : (pending <= i /\ i <= j) => G[j] \subseteq G[i]
  BY Zenon, AcknowledgedNested
<1>5. \A k \in DOMAIN flags : ~flags[k]
  BY Zenon DEF InOrderInv, BoxShape
<1>6. L <= Len(flags)
  BY Zenon DEF InOrderInv, BoxShape
<1>7. \A i : i \in newly <=> /\ i \in S /\ i >= pending
                             /\ BallotGranted(counted[i - pending + 1])
                             /\ ~flags[i - pending + 1]
  BY Zenon DEF NewlyCommitted
<1>8. \A i \in S : i \in Int /\ i < pending + L
  <2>1. \A i \in S : i < pending + L
    BY Zenon DEF Accepts
  <2> QED
    BY <2>1 DEF Index
<1>9. newly \subseteq Index
  BY Zenon DEF NewlyCommitted
<1> HIDE DEF counted, newly, G, L
<1>10. ASSUME NEW k \in 1 .. L
       PROVE  BallotGranted(counted[k]) <=>
                /\ IsMajority(counted[k].found, Conf)
                /\ OldConf # {} => IsMajority(counted[k].old_found, OldConf)
  <2>1. counted[k] \in BallotOf(Conf, OldConf) /\ WellCounted(counted[k])
    BY Zenon, <1>3
  <2> QED
    BY Zenon, <1>2, <2>1, GrantedIffMajority
<1>11. ASSUME NEW k \in 1 .. L, BallotGranted(counted[k])
       PROVE  JointMajority(G[pending + k - 1], Conf, OldConf)
  <2> DEFINE A == G[pending + k - 1]
  <2>1. counted[k].found = A \cap Conf /\ counted[k].old_found = A \cap OldConf
    BY Zenon, <1>3
  <2> HIDE DEF A
  <2>2. (A \cap Conf) \cap Conf \subseteq A /\ (A \cap OldConf) \cap OldConf \subseteq A
    BY Zenon
  <2>3. IsMajority(A \cap Conf, Conf)
        /\ (OldConf # {} => IsMajority(A \cap OldConf, OldConf))
    BY Zenon, <1>10, <1>11, <2>1
  <2>4. IsMajority(A, Conf)
    BY Zenon, <1>2, <2>2, <2>3, LargerMajority
  <2>5. OldConf # {} => IsMajority(A, OldConf)
    BY Zenon, <1>2, <2>2, <2>3, LargerMajority
  <2> QED
    BY Zenon, <2>4, <2>5 DEF JointMajority, A
<1>12. ASSUME NEW k \in 1 .. L, NEW m \in 1 .. L, k <= m, BallotGranted(counted[m])
       PROVE  BallotGranted(counted[k])
  <2>1. pending <= pending + k - 1 /\ pending + k - 1 <= pending + m - 1
    BY <1>1, <1>12
  <2>2. G[pending + m - 1] \subseteq G[pending + k - 1]
    BY Zenon, <1>3, <1>4, <2>1
  <2>3. /\ counted[m].found \cap Conf \subseteq counted[k].found
        /\ counted[m].old_found \cap OldConf \subseteq counted[k].old_found
    BY Zenon, <1>3, <2>2
  <2>4. /\ IsMajority(counted[m].found, Conf)
        /\ OldConf # {} => IsMajority(counted[m].old_found, OldConf)
    BY Zenon, <1>10, <1>12
  <2>5. IsMajority(counted[k].found, Conf)
    BY Zenon, <1>2, <2>3, <2>4, LargerMajority
  <2>6. OldConf # {} => IsMajority(counted[k].old_found, OldConf)
    BY Zenon, <1>2, <2>3, <2>4, LargerMajority
  <2> QED
    BY Zenon, <1>10, <2>5, <2>6
<1>13. ASSUME NEW k \in 1 .. L
       PROVE  pending + k - 1 \in newly <=> BallotGranted(counted[k])
  <2>1. /\ (pending + k - 1) - pending + 1 = k /\ pending + k - 1 >= pending
        /\ k \in DOMAIN flags
    BY <1>1, <1>6
  <2>2. ~flags[k]
    BY Zenon, <1>5, <2>1
  <2>3. BallotGranted(counted[k]) => pending + k - 1 \in S
    BY Zenon, <1>3
  <2> QED
    BY Zenon, <1>7, <2>1, <2>2, <2>3
<1>14. ASSUME NEW i \in newly
       PROVE  \E k \in 1 .. L : i = pending + k - 1
  <2>1. i \in S /\ i >= pending
    BY Zenon, <1>7
  <2>2. i - pending + 1 \in 1 .. L /\ i = pending + (i - pending + 1) - 1
    BY <1>1, <1>8, <2>1
  <2> QED
    BY Zenon, <2>2
<1> QED
  BY Zenon, <1>9, <1>11, <1>12, <1>13, <1>14 DEF counted, newly, G, L

(* What commit_at leaves: the granted entries are popped from both deques, *)
(* no flag stays TRUE, and the commit index is the last popped entry.      *)
LEMMA CommitEffect ==
  ASSUME InOrder, InOrderInv, NEW peer \in Peer, NEW S \in SUBSET Index,
         CommitAt(peer, S)
  PROVE  \E n \in 0 .. Len(meta) :
           /\ \A k \in 1 .. n : BallotGranted(Granted(S, peer)[k])
           /\ \A k \in n + 1 .. Len(meta) : ~BallotGranted(Granted(S, peer)[k])
           /\ meta' = DropFront(Granted(S, peer), n)
           /\ flags' \in Seq(BOOLEAN)
           /\ Len(flags') = Len(flags) - n
           /\ \A k \in DOMAIN flags' : ~flags'[k]
           /\ pending' = pending + n
           /\ lastCommitted' = IF n = 0 THEN lastCommitted ELSE pending + n - 1
<1> DEFINE counted == Granted(S, peer)
           newly == NewlyCommitted(S, counted)
           raised == Flagged(newly)
           L == Len(meta)
           F == Len(flags)
<1>1. /\ pending \in Nat /\ L \in Nat /\ F \in Nat /\ L <= F
      /\ DOMAIN flags = 1 .. F /\ lastCommitted \in Nat
  BY Zenon, TypeFacts DEF BoxTypes, InOrderInv, BoxShape
<1>2. Accepts(S) /\ ContinuesPrefix(S, peer)
  BY Zenon DEF CommitAt
<1>3. /\ \A k \in 1 .. L : pending + k - 1 \in newly <=> BallotGranted(counted[k])
      /\ \A k, m \in 1 .. L :
           k <= m /\ BallotGranted(counted[m]) => BallotGranted(counted[k])
      /\ \A i \in newly : \E k \in 1 .. L : i = pending + k - 1
  BY Zenon, <1>2, GrantedPrefix
<1>4. \A i \in newly : i \in S
  BY Zenon DEF NewlyCommitted
<1>5. counted \in Seq(BallotOf(Conf, OldConf)) /\ Len(counted) = L
  BY Zenon, <1>2, CountedMatches
<1>6. \A k \in 1 .. F : ~flags[k]
  BY Zenon, <1>1 DEF InOrderInv, BoxShape
<1>7. raised = [k \in 1 .. F |-> flags[k] \/ pending + k - 1 \in newly]
  BY Zenon, <1>1 DEF Flagged
<1>8. IF newly # {} /\ pending \in S
      THEN \E n \in 0 .. F :
             /\ LeadingTrue(raised, n)
             /\ meta' = DropFront(counted, n)
             /\ flags' = DropFront(raised, n)
             /\ pending' = pending + n
             /\ lastCommitted' = pending + n - 1
      ELSE /\ meta' = counted /\ flags' = raised
           /\ UNCHANGED <<pending, lastCommitted>>
  BY Zenon DEF CommitAt
<1> HIDE DEF counted, newly, raised, L, F
<1>9. \A k \in 1 .. F : raised[k] <=> pending + k - 1 \in newly
  BY Zenon, <1>6, <1>7
<1>10. raised \in [1 .. F -> BOOLEAN]
  BY Zenon, <1>7
<1>11. raised \in Seq(BOOLEAN) /\ Len(raised) = F
  BY Zenon, <1>1, <1>10, FunctionIsSeq
<1>12. \A k \in 1 .. F : k \in 1 .. L \/ pending + k - 1 \notin newly
  BY <1>1, <1>3
<1>13. ASSUME NEW n \in 0 .. L,
              \A k \in 1 .. n : BallotGranted(counted[k]),
              \A k \in n + 1 .. L : ~BallotGranted(counted[k]),
              meta' = DropFront(counted, n), flags' = DropFront(raised, n),
              pending' = pending + n,
              lastCommitted' = IF n = 0 THEN lastCommitted ELSE pending + n - 1
       PROVE  /\ flags' \in Seq(BOOLEAN) /\ Len(flags') = F - n
              /\ \A k \in DOMAIN flags' : ~flags'[k]
  <2>1. n \in 0 .. Len(raised)
    BY <1>1, <1>11
  <2>2. /\ flags' \in Seq(BOOLEAN) /\ Len(flags') = F - n
        /\ DOMAIN flags' = 1 .. F - n
        /\ \A k \in 1 .. F - n : flags'[k] = raised[n + k]
    <3>1. /\ DropFront(raised, n) \in Seq(BOOLEAN)
          /\ Len(DropFront(raised, n)) = Len(raised) - n
          /\ DOMAIN DropFront(raised, n) = 1 .. Len(raised) - n
          /\ \A k \in 1 .. Len(raised) - n : DropFront(raised, n)[k] = raised[n + k]
      BY <1>11, <2>1, DropFrontProperties, Zenon
    <3> QED
      BY <1>11, <1>13, <3>1, Zenon
  <2>3. ASSUME NEW k \in 1 .. F - n
        PROVE  ~flags'[k]
    <3>1. n + k \in 1 .. F /\ (n + k \in 1 .. L => n + k \in n + 1 .. L)
      BY <1>1
    <3>2. pending + (n + k) - 1 \notin newly
      BY SMTT(30), <1>3, <1>12, <1>13, <3>1
    <3> QED
      BY Zenon, <1>9, <2>2, <3>1, <3>2
  <2> QED
    BY Zenon, <2>2, <2>3
<1>14. CASE newly = {}
  <2>1. meta' = counted /\ flags' = raised /\ pending' = pending
        /\ lastCommitted' = lastCommitted
    BY Zenon, <1>8, <1>14
  <2>2. 0 \in 0 .. L /\ 0 \in 0 .. Len(counted) /\ 0 \in 0 .. Len(raised)
    BY <1>1, <1>5, <1>11
  <2>3. DropFront(counted, 0) = counted /\ DropFront(raised, 0) = raised
    BY Zenon, <1>5, <1>11, <2>2, DropFrontProperties
  <2>4. /\ \A k \in 1 .. 0 : BallotGranted(counted[k])
        /\ \A k \in 0 + 1 .. L : ~BallotGranted(counted[k])
    BY <1>1, <1>3, <1>14
  <2>5. pending' = pending + 0
    BY <1>1, <2>1
  <2>6. /\ flags' \in Seq(BOOLEAN) /\ Len(flags') = F - 0
        /\ \A k \in DOMAIN flags' : ~flags'[k]
    BY SMTT(30), <1>13, <2>1, <2>2, <2>3, <2>4, <2>5
  <2> QED
    BY SMTT(30), <2>1, <2>2, <2>3, <2>4, <2>5, <2>6 DEF counted, L, F
<1>15. CASE newly # {}
  <2>1. PICK i \in newly : TRUE
    BY Zenon, <1>15
  <2>2. PICK m \in 1 .. L : i = pending + m - 1
    BY Zenon, <1>3
  <2>3. BallotGranted(counted[m])
    BY Zenon, <1>3, <2>2
  <2>4. 1 \in 1 .. L /\ 1 <= m /\ pending + 1 - 1 = pending
    BY <1>1
  <2>5. BallotGranted(counted[1])
    BY Zenon, <1>3, <2>3, <2>4
  <2>6. pending \in newly
    BY Zenon, <1>3, <2>4, <2>5
  <2>7. PICK n \in 0 .. F :
          /\ LeadingTrue(raised, n)
          /\ meta' = DropFront(counted, n)
          /\ flags' = DropFront(raised, n)
          /\ pending' = pending + n
          /\ lastCommitted' = pending + n - 1
    BY Zenon, <1>4, <1>8, <1>15, <2>6
  <2>8. /\ \A k \in 1 .. n : raised[k]
        /\ n < F => ~raised[n + 1]
    BY Zenon, <1>11, <2>7 DEF LeadingTrue
  <2>9. ASSUME NEW k \in 1 .. n
        PROVE  k \in 1 .. L /\ BallotGranted(counted[k])
    <3>1. k \in 1 .. F
      BY <1>1
    <3>2. pending + k - 1 \in newly
      BY Zenon, <1>9, <2>8, <3>1
    <3> QED
      BY Zenon, <1>3, <1>12, <3>1, <3>2
  <2>10. n \in 0 .. L
    <3>1. n = 0 \/ n \in 1 .. n
      BY <1>1
    <3> QED
      BY <1>1, <2>9, <3>1
  <2>11. ASSUME NEW k \in n + 1 .. L
         PROVE  ~BallotGranted(counted[k])
    <3>1. n < F /\ n + 1 \in 1 .. F /\ n + 1 \in 1 .. L /\ n + 1 <= k /\ k \in 1 .. L
      BY <1>1
    <3>2. ~BallotGranted(counted[n + 1])
      BY Zenon, <1>3, <1>9, <2>8, <3>1
    <3> QED
      BY Zenon, <1>3, <3>1, <3>2
  <2>12. n # 0
    BY <1>9, <1>1, <2>4, <2>6, <2>8
  <2>13. lastCommitted' = IF n = 0 THEN lastCommitted ELSE pending + n - 1
    BY Zenon, <2>7, <2>12
  <2>14. /\ flags' \in Seq(BOOLEAN) /\ Len(flags') = F - n
         /\ \A k \in DOMAIN flags' : ~flags'[k]
    BY <1>13, <2>7, <2>9, <2>10, <2>11, <2>13
  <2> QED
    BY Zenon, <2>7, <2>9, <2>10, <2>11, <2>13, <2>14 DEF counted, L, F
<1> QED
  BY Zenon, <1>14, <1>15

-----------------------------------------------------------------------------
(* commit_at keeps the invariant.                                          *)
LEMMA CommitAtInv ==
  ASSUME InOrder, InOrderInv, NEW peer \in Peer, NEW S \in SUBSET Index,
         CommitAt(peer, S)
  PROVE  InOrderInv' /\ lastCommitted' >= lastCommitted
<1> DEFINE counted == Granted(S, peer)
           newly == NewlyCommitted(S, counted)
           G == Acknowledged(S, peer)
           L == Len(meta)
           F == Len(flags)
<1>1. /\ pending \in Nat /\ lastLog \in Nat /\ lastCommitted \in Nat
      /\ reignStart \in Nat /\ MaxIndex \in Nat /\ L \in Nat /\ F \in Nat
      /\ DOMAIN tasks = 1 .. Len(tasks)
      /\ \A k \in 1 .. Len(tasks) : tasks[k] \in Task
  BY Zenon, TypeFacts DEF BoxTypes, InOrderInv
<1>2. Accepts(S) /\ ContinuesPrefix(S, peer) /\ pending # 0
  BY Zenon DEF CommitAt, Accepts
<1>3. /\ grants' = G /\ reignStart' = reignStart /\ tasks' = tasks
      /\ state' = state /\ reign' = reign /\ lastLog' = lastLog
      /\ pub' = IF newly = {} THEN pub
                ELSE [pub EXCEPT ![peer] = [at |-> "load", index |-> 0, oo |-> newly]]
  BY Zenon DEF CommitAt, nodeVars
<1>4. /\ L <= F /\ state = "leader" /\ pending + L = lastLog + 1
      /\ reignStart <= pending /\ lastCommitted < pending /\ lastCommitted <= lastLog
      /\ lastLog <= MaxIndex
  BY <1>1, <1>2 DEF InOrderInv, BoxShape, TypeOK
<1>5. /\ counted \in Seq(BallotOf(Conf, OldConf)) /\ Len(counted) = L
      /\ \A k \in 1 .. L : /\ WellCounted(counted[k])
                           /\ counted[k].found = G[pending + k - 1] \cap Conf
                           /\ counted[k].old_found = G[pending + k - 1] \cap OldConf
  BY <1>2, CountedMatches
<1>6. /\ G \in [Index -> SUBSET Peer]
      /\ \A i, j \in Index : (pending <= i /\ i <= j) => G[j] \subseteq G[i]
      /\ \A i \in Index : i > lastLog => G[i] = {}
      /\ \A i \in Index : i < pending => G[i] = grants[i]
  BY <1>2, AcknowledgedNested
<1>7. /\ newly \in SUBSET Index
      /\ \A k \in 1 .. L : BallotGranted(counted[k]) =>
                             JointMajority(G[pending + k - 1], Conf, OldConf)
  BY Zenon, <1>2, GrantedPrefix
<1>8. PICK n \in 0 .. L :
        /\ \A k \in 1 .. n : BallotGranted(counted[k])
        /\ \A k \in n + 1 .. L : ~BallotGranted(counted[k])
        /\ meta' = DropFront(counted, n)
        /\ flags' \in Seq(BOOLEAN)
        /\ Len(flags') = F - n
        /\ \A k \in DOMAIN flags' : ~flags'[k]
        /\ pending' = pending + n
        /\ lastCommitted' = IF n = 0 THEN lastCommitted ELSE pending + n - 1
  BY Zenon, CommitEffect
<1>9. /\ \A i \in Index : (reignStart <= i /\ i < pending)
                            => JointMajority(grants[i], Conf, OldConf)
      /\ \A t \in Thread : pub[t].at = "call" =>
           pub[t].index <= lastLog /\ pub[t].index < reignStart
      /\ \A t \in Thread : pub[t].at # "call" => pub[t].index <= lastCommitted
      /\ \A k \in DOMAIN tasks : tasks[k].index <= lastCommitted
  BY Zenon, <1>2 DEF InOrderInv, ReignCommitted, CallsNameOldEntries, PublishedIsCommitted
<1>10. TypeOK
  BY Zenon DEF InOrderInv
<1> HIDE DEF counted, newly, G, L, F
<1>11. /\ meta' \in Seq(BallotOf(Conf, OldConf)) /\ Len(meta') = L - n
       /\ DOMAIN meta' = 1 .. L - n
       /\ \A k \in 1 .. L - n : meta'[k] = counted[n + k]
  <2>1. counted \in Seq(BallotOf(Conf, OldConf)) /\ n \in 0 .. Len(counted)
    BY Zenon, <1>5
  <2>2. /\ DropFront(counted, n) \in Seq(BallotOf(Conf, OldConf))
        /\ Len(DropFront(counted, n)) = Len(counted) - n
        /\ DOMAIN DropFront(counted, n) = 1 .. Len(counted) - n
        /\ \A k \in 1 .. Len(counted) - n : DropFront(counted, n)[k] = counted[n + k]
    BY <2>1, DropFrontProperties
  <2>3. meta' = DropFront(counted, n) /\ Len(counted) = L
    BY Zenon, <1>5, <1>8
  <2> QED
    BY <2>2, <2>3, Zenon
<1>12. pending' = pending + n /\ pending' # 0 /\ pending' \in 0 .. MaxIndex + 1
  BY <1>1, <1>2, <1>4, <1>8
<1>13. /\ lastCommitted' \in 0 .. MaxIndex /\ lastCommitted <= lastCommitted'
       /\ lastCommitted' < pending' /\ lastCommitted' <= lastLog
  BY <1>1, <1>2, <1>4, <1>8
<1>14. pub' \in [Thread -> [at : {"idle", "load", "call", "enqueue"},
                            index : 0 .. MaxIndex, oo : SUBSET Index]]
  <2> DEFINE Pub == [at : {"idle", "load", "call", "enqueue"},
                     index : 0 .. MaxIndex, oo : SUBSET Index]
  <2>1. pub \in [Thread -> Pub]
    BY Zenon, <1>10 DEF TypeOK
  <2>2. [at |-> "load", index |-> 0, oo |-> newly] \in Pub
    BY <1>1, <1>7
  <2> HIDE DEF Pub
  <2>3. pub' \in [Thread -> Pub]
    BY ZenonT(60), <1>3, <2>1, <2>2
  <2> QED
    BY Zenon, <2>3 DEF Pub
<1>15. TypeOK'
  BY SMTT(30), <1>3, <1>6, <1>8, <1>10, <1>11, <1>12, <1>13, <1>14 DEF TypeOK
<1>16. BoxShape'
  <2>1. \A k \in DOMAIN flags' : ~flags'[k]
    BY Zenon, <1>8
  <2>2. Len(meta') <= Len(flags') /\ pending' + Len(meta') = lastLog' + 1
    <3>1. Len(flags') = F - n
      BY Zenon, <1>8
    <3>2. Len(meta') = L - n /\ pending' = pending + n /\ lastLog' = lastLog
      BY Zenon, <1>3, <1>11, <1>12
    <3>3. L \in Nat /\ F \in Nat /\ n \in Nat /\ pending \in Nat /\ lastLog \in Nat
      BY <1>1
    <3> QED
      BY <1>4, <3>1, <3>2, <3>3
  <2>3. reignStart' <= pending'
    BY <1>1, <1>3, <1>4, <1>12
  <2> QED
    BY SMTT(30), <1>3, <1>4, <1>12, <1>13, <2>1, <2>2, <2>3 DEF BoxShape
<1>17. CountsMatch'
  <2> SUFFICES ASSUME NEW k \in 1 .. L - n
               PROVE  /\ WellCounted(meta'[k])
                      /\ meta'[k].found = grants'[pending' + k - 1] \cap Conf
                      /\ meta'[k].old_found = grants'[pending' + k - 1] \cap OldConf
                      /\ ~BallotGranted(meta'[k])
    BY Zenon, <1>11 DEF CountsMatch
  <2>1. /\ n + k \in 1 .. L /\ n + k \in n + 1 .. L
        /\ pending' + k - 1 = pending + (n + k) - 1
    BY <1>1, <1>12
  <2>2. meta'[k] = counted[n + k]
    BY Zenon, <1>11
  <2> QED
    BY <1>3, <1>5, <1>8, <2>1, <2>2
<1>18. GrantsNested'
  <2>1. \A i \in Index : pending' <= i => pending <= i
    BY <1>1, <1>12 DEF Index
  <2> QED
    BY Zenon, <1>3, <1>6, <2>1 DEF GrantsNested
<1>19. ReignCommitted'
  <2> SUFFICES ASSUME NEW i \in Index, reignStart <= i, i < pending'
               PROVE  JointMajority(G[i], Conf, OldConf)
    BY Zenon, <1>3 DEF ReignCommitted
  <2>1. CASE i < pending
    BY Zenon, <1>6, <1>9, <2>1
  <2>2. CASE ~(i < pending)
    <3>1. i - pending + 1 \in 1 .. n /\ i - pending + 1 \in 1 .. L
          /\ pending + (i - pending + 1) - 1 = i
      BY <1>1, <1>12, <2>2 DEF Index
    <3> QED
      BY Zenon, <1>7, <1>8, <3>1
  <2> QED
    BY Zenon, <2>1, <2>2
<1>20. \A t \in Thread : \/ pub'[t] = pub[t]
                         \/ pub'[t].at = "load" /\ pub'[t].index = 0
  BY Zenon, <1>3, <1>10 DEF TypeOK
<1>21. CallsNameOldEntries'
  BY Zenon, <1>3, <1>9, <1>20 DEF CallsNameOldEntries
<1>22. PublishedIsCommitted'
  <2>1. ASSUME NEW t \in Thread, pub'[t].at # "call"
        PROVE  pub'[t].index <= lastCommitted'
    <3>1. pub[t].index \in Nat
      BY <1>1, <1>10 DEF TypeOK
    <3>2. CASE pub'[t] = pub[t]
      <4>1. pub[t].index <= lastCommitted
        BY Zenon, <1>9, <2>1, <3>2
      <4> QED
        BY SMTT(30), <1>1, <1>13, <3>1, <3>2, <4>1
    <3>3. CASE pub'[t].at = "load" /\ pub'[t].index = 0
      BY <1>1, <1>13, <3>3
    <3> QED
      BY Zenon, <1>20, <3>2, <3>3
  <2>2. ASSUME NEW k \in DOMAIN tasks
        PROVE  tasks[k].index <= lastCommitted'
    <3>1. tasks[k].index \in Nat /\ tasks[k].index <= lastCommitted
      BY <1>1, <1>9 DEF Task
    <3> QED
      BY <1>1, <1>13, <3>1
  <2> QED
    BY Zenon, <1>3, <2>1, <2>2 DEF PublishedIsCommitted
<1> QED
  BY SMTT(30), <1>1, <1>13, <1>15, <1>16, <1>17, <1>18, <1>19, <1>21, <1>22 DEF InOrderInv

-----------------------------------------------------------------------------
(* A step that leaves the log, the deques and the reign alone, and changes *)
(* the publications, the tasks and the commit index consistently, keeps    *)
(* the invariant.                                                          *)
LEMMA PublicationInv ==
  ASSUME InOrderInv, UNCHANGED <<nodeVars, pending, meta, flags, ghostVars>>,
         TypeOK', lastCommitted' >= lastCommitted, lastCommitted' <= lastLog,
         pending # 0 => lastCommitted' = lastCommitted,
         CallsNameOldEntries', PublishedIsCommitted'
  PROVE  InOrderInv'
<1>1. /\ state' = state /\ lastLog' = lastLog /\ pending' = pending
      /\ meta' = meta /\ flags' = flags /\ reignStart' = reignStart
      /\ grants' = grants
  BY Zenon DEF nodeVars, ghostVars
<1>2. BoxShape'
  BY Zenon, <1>1 DEF InOrderInv, BoxShape
<1>3. CountsMatch' /\ GrantsNested' /\ ReignCommitted'
  BY <1>1 DEF InOrderInv, CountsMatch, GrantsNested, ReignCommitted
<1> QED
  BY Zenon, <1>2, <1>3 DEF InOrderInv

(* Reading _last_committed_index after the unlock keeps the invariant: the *)
(* value read is committed, whoever moved it meanwhile.                    *)
LEMMA LoadCommittedInv ==
  ASSUME InOrderInv, NEW t \in Thread, LoadCommitted(t)
  PROVE  InOrderInv' /\ lastCommitted' = lastCommitted
<1> DEFINE Pub == [at : {"idle", "load", "call", "enqueue"},
                   index : 0 .. MaxIndex, oo : SUBSET Index]
           r == [pub[t] EXCEPT !.at = "enqueue", !.index = lastCommitted]
<1>1. /\ pub \in [Thread -> Pub] /\ lastCommitted \in 0 .. MaxIndex /\ TypeOK
      /\ lastCommitted \in Nat
  BY Zenon, TypeFacts DEF InOrderInv, TypeOK, BoxTypes
<1>2. r \in Pub /\ r.at = "enqueue" /\ r.index = lastCommitted
  BY Zenon, <1>1
<1>3. pub' = [pub EXCEPT ![t] = r]
  BY Zenon, <1>1 DEF LoadCommitted
<1>4. UNCHANGED <<nodeVars, boxVars, tasks, ghostVars>> /\ lastCommitted' = lastCommitted
  BY Zenon DEF LoadCommitted, boxVars
<1> HIDE DEF r
<1>5. pub' \in [Thread -> Pub]
  BY Zenon, <1>1, <1>2, <1>3
<1>6. TypeOK'
  BY Zenon, <1>1, <1>4, <1>5 DEF TypeOK, nodeVars, boxVars, ghostVars
<1>7. \A u \in Thread : pub'[u] = IF u = t THEN r ELSE pub[u]
  BY Zenon, <1>1, <1>3
<1>8. CallsNameOldEntries'
  BY SMTT(30), <1>2, <1>4, <1>7 DEF InOrderInv, CallsNameOldEntries, nodeVars, boxVars, ghostVars
<1>9. PublishedIsCommitted'
  BY <1>1, <1>2, <1>4, <1>7 DEF InOrderInv, PublishedIsCommitted, boxVars
<1>10. lastCommitted <= lastLog
  BY Zenon DEF InOrderInv, BoxShape
<1> QED
  BY SMTT(30), <1>1, <1>4, <1>6, <1>8, <1>9, <1>10, PublicationInv DEF boxVars

(* on_committed keeps the invariant: what it queues is what was read.      *)
LEMMA OnCommittedInv ==
  ASSUME InOrderInv, NEW t \in Thread, OnCommitted(t)
  PROVE  InOrderInv' /\ lastCommitted' = lastCommitted
<1> DEFINE Pub == [at : {"idle", "load", "call", "enqueue"},
                   index : 0 .. MaxIndex, oo : SUBSET Index]
           w == [index |-> pub[t].index, oo |-> {i \in pub[t].oo : i > pub[t].index}]
<1>1. /\ pub \in [Thread -> Pub] /\ TypeOK /\ tasks \in Seq(Task)
      /\ lastCommitted \in Nat /\ MaxIndex \in Nat
      /\ DOMAIN tasks = 1 .. Len(tasks) /\ Len(tasks) \in Nat
  BY Zenon, TypeFacts DEF InOrderInv, TypeOK, BoxTypes
<1>2. w \in Task /\ w.index = pub[t].index
  BY Zenon, <1>1 DEF Task
<1>3. /\ pub' = [pub EXCEPT ![t] = Idle] /\ tasks' = Append(tasks, w)
      /\ pub[t].at = "enqueue"
  BY Zenon DEF OnCommitted
<1>4. UNCHANGED <<nodeVars, boxVars, ghostVars>> /\ lastCommitted' = lastCommitted
  BY Zenon DEF OnCommitted, boxVars
<1>5. Idle \in Pub /\ Idle.at = "idle" /\ Idle.index = 0
  BY <1>1 DEF Idle
<1> HIDE DEF w
<1>6. pub' \in [Thread -> Pub]
  BY Zenon, <1>1, <1>3, <1>5
<1>7. /\ tasks' \in Seq(Task) /\ Len(tasks') = Len(tasks) + 1
      /\ \A k \in 1 .. Len(tasks) : tasks'[k] = tasks[k]
      /\ tasks'[Len(tasks) + 1] = w
  BY <1>1, <1>2, <1>3
<1>8. TypeOK'
  BY Zenon, <1>1, <1>4, <1>6, <1>7 DEF TypeOK, nodeVars, boxVars, ghostVars
<1>9. \A u \in Thread : pub'[u] = IF u = t THEN Idle ELSE pub[u]
  BY Zenon, <1>1, <1>3
<1>10. CallsNameOldEntries'
  BY Zenon, <1>4, <1>5, <1>9 DEF InOrderInv, CallsNameOldEntries, nodeVars, boxVars, ghostVars
<1>11. PublishedIsCommitted'
  <2>1. \A k \in DOMAIN tasks' : k \in DOMAIN tasks \/ k = Len(tasks) + 1
    BY <1>1, <1>7
  <2>2. \A k \in DOMAIN tasks' : tasks'[k].index <= lastCommitted
    BY SMTT(30), <1>1, <1>2, <1>3, <1>7, <2>1 DEF InOrderInv, PublishedIsCommitted
  <2> QED
    BY SMTT(30), <1>1, <1>4, <1>5, <1>9, <2>2 DEF InOrderInv, PublishedIsCommitted
<1>12. lastCommitted <= lastLog
  BY Zenon DEF InOrderInv, BoxShape
<1> QED
  BY SMTT(30), <1>1, <1>4, <1>8, <1>10, <1>11, <1>12, PublicationInv DEF boxVars

(* A follower that takes over the leader's commit index keeps the          *)
(* invariant: the entry it names is in its log.                            *)
LEMMA LearnCommittedInv ==
  ASSUME InOrderInv, NEW t \in Thread, NEW c \in Index, NEW oo \in SUBSET Index,
         LearnCommitted(t, c, oo)
  PROVE  InOrderInv' /\ lastCommitted' = lastCommitted
<1> DEFINE Pub == [at : {"idle", "load", "call", "enqueue"},
                   index : 0 .. MaxIndex, oo : SUBSET Index]
           r == [at |-> "call", index |-> c, oo |-> oo]
<1>1. pub \in [Thread -> Pub] /\ TypeOK /\ lastCommitted \in Nat /\ MaxIndex \in Nat
  BY SMTT(30), TypeFacts DEF InOrderInv, TypeOK, BoxTypes
<1>2. r \in Pub /\ r.at = "call" /\ r.index = c
  BY <1>1 DEF Index
<1>3. pub' = [pub EXCEPT ![t] = r] /\ c <= lastLog /\ pending = 0
  BY Zenon DEF LearnCommitted, InOrderInv, BoxShape
<1>4. UNCHANGED <<nodeVars, boxVars, tasks, ghostVars>> /\ lastCommitted' = lastCommitted
  BY Zenon DEF LearnCommitted, boxVars
<1> HIDE DEF r
<1>5. pub' \in [Thread -> Pub]
  BY Zenon, <1>1, <1>2, <1>3
<1>6. TypeOK'
  BY Zenon, <1>1, <1>4, <1>5 DEF TypeOK, nodeVars, boxVars, ghostVars
<1>7. \A u \in Thread : pub'[u] = IF u = t THEN r ELSE pub[u]
  BY Zenon, <1>1, <1>3
<1>8. CallsNameOldEntries'
  BY SMTT(30), <1>2, <1>3, <1>4, <1>7 DEF InOrderInv, CallsNameOldEntries, nodeVars, boxVars
<1>9. PublishedIsCommitted'
  BY Zenon, <1>2, <1>4, <1>7 DEF InOrderInv, PublishedIsCommitted, boxVars
<1>10. lastCommitted <= lastLog
  BY Zenon DEF InOrderInv, BoxShape
<1> QED
  BY SMTT(30), <1>1, <1>4, <1>6, <1>8, <1>9, <1>10, PublicationInv DEF boxVars

(* set_last_committed_index keeps the invariant, whether it lands on a     *)
(* follower or, late, on a node that leads by now.                         *)
LEMMA SetLastCommittedIndexInv ==
  ASSUME InOrderInv, NEW t \in Thread, SetLastCommittedIndex(t)
  PROVE  InOrderInv' /\ lastCommitted' >= lastCommitted
<1> DEFINE Pub == [at : {"idle", "load", "call", "enqueue"},
                   index : 0 .. MaxIndex, oo : SUBSET Index]
           moves == pending = 0 /\ meta = <<>> /\ pub[t].index > lastCommitted
           r == IF moves THEN [pub[t] EXCEPT !.at = "enqueue"] ELSE Idle
<1>1. /\ pub \in [Thread -> Pub] /\ TypeOK /\ MaxIndex \in Nat
      /\ lastCommitted \in Nat /\ lastCommitted \in 0 .. MaxIndex
      /\ DOMAIN tasks = 1 .. Len(tasks)
      /\ \A k \in 1 .. Len(tasks) : tasks[k] \in Task
  BY SMTT(30), TypeFacts DEF InOrderInv, TypeOK, BoxTypes
<1>2. pub[t] \in Pub /\ pub[t].index \in 0 .. MaxIndex /\ pub[t].index \in Nat
  BY <1>1
<1>3. /\ r \in Pub /\ r.at # "call"
      /\ moves => r.index = pub[t].index
      /\ ~moves => r.index = 0
  BY <1>1, <1>2 DEF Idle
<1>4. /\ pub' = [pub EXCEPT ![t] = r] /\ pub[t].at = "call"
      /\ lastCommitted' = IF moves THEN pub[t].index ELSE lastCommitted
  BY Zenon, <1>1 DEF SetLastCommittedIndex
<1>5. UNCHANGED <<nodeVars, pending, meta, flags, tasks, ghostVars>>
  BY Zenon DEF SetLastCommittedIndex
<1>6. pub[t].index <= lastLog /\ lastCommitted <= lastLog
  BY Zenon, <1>4 DEF InOrderInv, CallsNameOldEntries, BoxShape
<1>7. pending # 0 => ~moves
  BY Zenon
<1>8. moves => pub[t].index > lastCommitted
  BY Zenon
<1> HIDE DEF r, moves
<1>9. /\ lastCommitted' \in 0 .. MaxIndex /\ lastCommitted' >= lastCommitted
      /\ lastCommitted' <= lastLog
  BY <1>1, <1>2, <1>4, <1>6, <1>8
<1>10. pub' \in [Thread -> Pub]
  BY Zenon, <1>1, <1>3, <1>4
<1>11. TypeOK'
  BY Zenon, <1>1, <1>5, <1>9, <1>10 DEF TypeOK, nodeVars, ghostVars
<1>12. \A u \in Thread : pub'[u] = IF u = t THEN r ELSE pub[u]
  BY Zenon, <1>1, <1>4
<1>13. CallsNameOldEntries'
  BY Zenon, <1>3, <1>5, <1>12 DEF InOrderInv, CallsNameOldEntries, nodeVars, ghostVars
<1>14. PublishedIsCommitted'
  <2>1. ASSUME NEW u \in Thread, pub'[u].at # "call"
        PROVE  pub'[u].index <= lastCommitted'
    <3>1. CASE u = t
      BY SMTT(30), <1>1, <1>2, <1>3, <1>4, <1>12, <3>1
    <3>2. CASE u # t
      <4>1. pub'[u] = pub[u] /\ pub[u].index \in Nat /\ pub[u].index <= lastCommitted
        BY SMTT(30), <1>1, <1>12, <2>1, <3>2 DEF InOrderInv, PublishedIsCommitted
      <4> QED
        BY <1>1, <1>9, <4>1
    <3> QED
      BY Zenon, <3>1, <3>2
  <2>2. ASSUME NEW k \in DOMAIN tasks
        PROVE  tasks[k].index <= lastCommitted'
    <3>1. tasks[k].index \in Nat /\ tasks[k].index <= lastCommitted
      BY <1>1 DEF Task, InOrderInv, PublishedIsCommitted
    <3> QED
      BY SMTT(30), <1>1, <1>9, <3>1
  <2> QED
    BY Zenon, <1>5, <2>1, <2>2 DEF PublishedIsCommitted
<1>15. pending # 0 => lastCommitted' = lastCommitted
  BY Zenon, <1>4, <1>7
<1> QED
  BY SMTT(30), <1>5, <1>9, <1>11, <1>13, <1>14, <1>15, PublicationInv

(* The FSMCaller taking a task keeps the invariant.                        *)
LEMMA TakeTaskInv ==
  ASSUME InOrderInv, TakeTask PROVE InOrderInv' /\ lastCommitted' = lastCommitted
<1>1. /\ TypeOK /\ tasks \in Seq(Task) /\ tasks # <<>> /\ Len(tasks) \in Nat
      /\ DOMAIN tasks = 1 .. Len(tasks) /\ lastCommitted \in Nat
  BY Zenon, TypeFacts DEF InOrderInv, TypeOK, BoxTypes, TakeTask
<1>2. /\ tasks' \in Seq(Task) /\ Len(tasks') = Len(tasks) - 1
      /\ \A k \in 1 .. Len(tasks') : tasks'[k] = tasks[k + 1]
  BY <1>1 DEF TakeTask
<1>3. UNCHANGED <<nodeVars, boxVars, pub, ghostVars>> /\ lastCommitted' = lastCommitted
  BY Zenon DEF TakeTask, boxVars
<1>4. TypeOK'
  BY Zenon, <1>1, <1>2, <1>3 DEF TypeOK, nodeVars, boxVars, ghostVars
<1>5. CallsNameOldEntries'
  BY Zenon, <1>3 DEF InOrderInv, CallsNameOldEntries, nodeVars, boxVars, ghostVars
<1>6. PublishedIsCommitted'
  <2>1. \A k \in DOMAIN tasks' : k + 1 \in DOMAIN tasks /\ tasks'[k] = tasks[k + 1]
    BY <1>1, <1>2
  <2> QED
    BY Zenon, <1>3, <2>1 DEF InOrderInv, PublishedIsCommitted, boxVars
<1>7. lastCommitted <= lastLog
  BY Zenon DEF InOrderInv, BoxShape
<1> QED
  BY SMTT(30), <1>1, <1>3, <1>4, <1>5, <1>6, <1>7, PublicationInv DEF boxVars

(* Every step of the in-order box keeps the invariant and never moves the  *)
(* commit index backwards.                                                 *)
LEMMA NextInv ==
  ASSUME InOrder, InOrderInv, Next
  PROVE  InOrderInv' /\ lastCommitted' >= lastCommitted
<1>1. lastCommitted \in Nat
  BY Zenon, TypeFacts DEF InOrderInv, BoxTypes
<1>2. ASSUME NEW x, x = lastCommitted PROVE x >= lastCommitted
  BY <1>1, <1>2
<1>3. CASE NodeStep
  <2>1. CASE BecomeLeader
    BY Zenon, <1>2, <2>1, BecomeLeaderInv DEF BecomeLeader
  <2>2. CASE AppendPendingTask
    BY Zenon, <1>2, <2>2, AppendInv DEF AppendPendingTask
  <2>3. CASE ClearPendingTasks
    BY Zenon, <1>2, <2>3, ClearInv DEF ClearPendingTasks
  <2>4. CASE \E n \in 0 .. MaxIndex : ReplaceLog(n)
    BY Zenon, <1>2, <2>4, ReplaceLogInv DEF ReplaceLog, boxVars
  <2>5. CASE \E t \in {Self, RpcThread}, c \in Index, oo \in SUBSET Index :
               LearnCommitted(t, c, oo)
    <3>1. {Self, RpcThread} \subseteq Thread
      BY Zenon, ConfAssumption DEF Thread, Peer
    <3> QED
      BY Zenon, <1>2, <2>5, <3>1, LearnCommittedInv
  <2> QED
    BY SMTT(30), <1>3, <2>1, <2>2, <2>3, <2>4, <2>5 DEF NodeStep
<1>4. CASE BoxStep
  <2>1. CASE \E peer \in Peer, S \in SUBSET Index : CommitAt(peer, S)
    BY Zenon, <2>1, CommitAtInv
  <2>2. CASE \E t \in Thread : LoadCommitted(t)
    BY Zenon, <1>2, <2>2, LoadCommittedInv
  <2>3. CASE \E t \in Thread : OnCommitted(t)
    BY Zenon, <1>2, <2>3, OnCommittedInv
  <2>4. CASE \E t \in Thread : SetLastCommittedIndex(t)
    BY Zenon, <2>4, SetLastCommittedIndexInv
  <2> QED
    BY SMTT(30), <1>4, <2>1, <2>2, <2>3, <2>4 DEF BoxStep
<1>5. CASE TakeTask
  BY SMTT(30), <1>2, <1>5, TakeTaskInv
<1> QED
  BY Zenon, <1>3, <1>4, <1>5 DEF Next

(* A step that changes nothing keeps the invariant.                        *)
LEMMA StutterInv ==
  ASSUME InOrderInv, UNCHANGED vars PROVE InOrderInv'
BY SMTT(30) DEF InOrderInv, TypeOK, BoxShape, CountsMatch, GrantsNested, ReignCommitted,
       CallsNameOldEntries, PublishedIsCommitted, vars, nodeVars, boxVars, outVars,
       ghostVars

-----------------------------------------------------------------------------
(* While oo_enabled is false, InOrderInv holds in every reachable state.   *)
THEOREM BoxInvariant ==
  ASSUME InOrder PROVE Spec => []InOrderInv
<1>1. InOrderInv /\ [Next]_vars => InOrderInv'
  BY Zenon, NextInv, StutterInv
<1> QED
  BY InitInv, <1>1, PTL DEF Spec

(* BallotBox's variables keep their types.                                 *)
THEOREM BoxTypeCorrect ==
  ASSUME InOrder PROVE Spec => []TypeOK
<1>1. InOrderInv => TypeOK
  BY Zenon DEF InOrderInv
<1> QED
  BY BoxInvariant, <1>1, PTL

(* Whatever a leader commits in its reign is stored by a majority of the   *)
(* configuration and of the old one: commit_at never counts a peer twice   *)
(* or credits an acknowledgement to another entry's ballot.                *)
THEOREM CommitsNeedQuorum ==
  ASSUME InOrder PROVE Spec => []CommittedByQuorum
<1>1. InOrderInv => CommittedByQuorum
  <2> SUFFICES ASSUME InOrderInv, pending # 0,
                      NEW i \in Index, i \in reignStart .. lastCommitted
               PROVE  JointMajority(grants[i], Conf, OldConf)
    BY Zenon DEF CommittedByQuorum
  <2>1. /\ pending \in Nat /\ lastCommitted \in Nat /\ reignStart \in Nat
        /\ lastCommitted < pending
    BY Zenon, TypeFacts DEF BoxTypes, InOrderInv, BoxShape
  <2>2. reignStart <= i /\ i < pending
    BY SMTT(30), <2>1
  <2> QED
    BY Zenon, <2>2 DEF InOrderInv, ReignCommitted
<1> QED
  BY BoxInvariant, <1>1, PTL

(* commit_at never leaves a granted entry at the front of the queue.       *)
THEOREM NothingGrantedWaits ==
  ASSUME InOrder PROVE Spec => []NoGrantedFront
<1>1. InOrderInv => NoGrantedFront
  <2> SUFFICES ASSUME InOrderInv, meta # <<>> PROVE ~BallotGranted(meta[1])
    BY Zenon DEF NoGrantedFront
  <2>1. meta \in Seq(BallotOf(Conf, OldConf))
    BY Zenon DEF InOrderInv, TypeOK
  <2>2. 1 \in DOMAIN meta
    BY SMTT(30), <2>1
  <2> QED
    BY Zenon, <2>2 DEF InOrderInv, CountsMatch
<1> QED
  BY BoxInvariant, <1>1, PTL

(* No pending entry inherits a committed flag from an earlier reign.       *)
THEOREM FlagsAreFresh ==
  ASSUME InOrder PROVE Spec => []FlaggedOnlyIfGranted
<1>1. InOrderInv => FlaggedOnlyIfGranted
  <2> SUFFICES ASSUME InOrderInv, NEW k \in DOMAIN meta PROVE ~flags[k]
    BY Zenon DEF FlaggedOnlyIfGranted
  <2>1. k \in DOMAIN flags
    BY SMTT(30), TypeFacts DEF BoxTypes, InOrderInv, BoxShape
  <2> QED
    BY SMTT(30), <2>1 DEF InOrderInv, BoxShape
<1> QED
  BY BoxInvariant, <1>1, PTL

(* No index reaches the FSMCaller, or is on its way to it, before it is    *)
(* committed.                                                              *)
THEOREM NothingPublishedEarly ==
  ASSUME InOrder PROVE Spec => []PublishedIsCommitted
<1>1. InOrderInv => PublishedIsCommitted
  BY SMTT(30) DEF InOrderInv
<1> QED
  BY BoxInvariant, <1>1, PTL

(* The CHECK of set_last_committed_index holds.                            *)
THEOREM LateCallsAreOld ==
  ASSUME InOrder PROVE Spec => []LateCallPrecedesReign
<1>1. InOrderInv => LateCallPrecedesReign
  <2> SUFFICES ASSUME InOrderInv, pending # 0, NEW t \in Thread, pub[t].at = "call"
               PROVE  pub[t].index < pending
    BY Zenon DEF LateCallPrecedesReign
  <2>1. pub[t].index < reignStart /\ reignStart <= pending
    BY Zenon DEF InOrderInv, CallsNameOldEntries, BoxShape
  <2>2. pending \in Nat /\ reignStart \in Nat /\ MaxIndex \in Nat
    BY Zenon, TypeFacts DEF BoxTypes, InOrderInv
  <2>3. pub[t].index \in Nat
    BY <2>2 DEF InOrderInv, TypeOK
  <2> QED
    BY <2>1, <2>2, <2>3
<1> QED
  BY BoxInvariant, <1>1, PTL

(* _last_committed_index never moves backwards.                            *)
THEOREM CommitIndexMonotone ==
  ASSUME InOrder PROVE Spec => CommittedNeverRetreats
<1>1. InOrderInv /\ [Next]_vars => [lastCommitted' >= lastCommitted]_vars
  BY Zenon, NextInv
<1> QED
  BY BoxInvariant, <1>1, PTL DEF Spec, CommittedNeverRetreats
=============================================================================
