--------------------------- MODULE ElectionProofs ----------------------------
(***************************************************************************)
(* Election safety for any number of servers, terms and restarts:          *)
(* ElectionInv is inductive and implies that a term has one leader.  From  *)
(* it follow that only elected servers are followed and replicate, so that *)
(* no follower meets two leaders in a term, and that the meta on disk only *)
(* moves forward.                                                          *)
(***************************************************************************)
EXTENDS ElectionLemmas

-----------------------------------------------------------------------------
(* Freshly started servers satisfy the invariant.                          *)
LEMMA ElectionInitInv == ElectionInit => ElectionInv
<1> SUFFICES ASSUME ElectionInit PROVE ElectionInv
  BY Zenon
<1> USE DEF ElectionInit
<1>1. Conf \in BallotOf(Server, {}) /\ WellCounted(Conf) /\ Conf.found = {}
  <2>1. IsFiniteSet(Server) /\ IsFiniteSet({})
    BY Zenon, ServerAssumption, FS_EmptySet
  <2> QED
    BY Zenon, <2>1, BallotInitCounted DEF Conf, BallotInit
<1>2. replicators \in [Server -> [Server -> [term : Nat, alive : BOOLEAN]]]
  BY Zenon DEF NoReplicator
<1>3. NodeTypes
  BY <1>1, <1>2 DEF NodeTypes, LogId
<1>4. RpcInv
  BY Zenon DEF RpcInv, VoteCalls, GrantedIsSaved
<1>5. VoteInv
  BY Zenon, <1>1 DEF VoteInv, SavedOrOwn, CastOnce, ElectionsVoteForSelf, CountedIsCast,
              LeadersElected
<1> QED
  BY Zenon, <1>3, <1>4, <1>5, InvParts

(* Every step keeps the invariant.                                         *)
LEMMA ElectionNextInv ==
  ASSUME ElectionInv, ElectionNext PROVE ElectionInv'
<1>1. VoteInv /\ RpcInv /\ NodeTypes
  BY Zenon, InvParts
<1>2. VoteInv' /\ RpcInv' /\ NodeTypes'
  <2>1. CASE \E s \in Server : HandleElectionTimeout(s) \/ HandleVoteTimeout(s)
    BY Zenon, <1>1, <2>1, TimeoutKeeps
  <2>2. CASE \E s \in Server :
               ClientAppend(s) \/ \E p \in Server : SendAppendEntries(s, p)
    BY Zenon, <1>1, <2>2, LeaderStepKeeps
  <2>3. CASE \E s \in Server : Restart(s)
    BY Zenon, <1>1, <2>3, RestartKeeps
  <2>4. CASE \E m \in rpcs :
               HandlePreVote(m) \/ ReadLastLogId(m) \/ FinishPreVote(m) \/ FailCall(m)
    BY Zenon, <1>1, <2>4, CallStepKeeps
  <2>5. CASE \E m \in rpcs : HandlePreVoteResponse(m)
    BY Zenon, <1>1, <2>5, HandlePreVoteResponseKeeps
  <2>6. CASE \E m \in rpcs : HandleRequestVote(m)
    BY SMTT(30), <1>1, <2>6, HandleRequestVoteKeeps
  <2>7. CASE \E m \in rpcs : FinishRequestVote(m)
    BY Zenon, <1>1, <2>7, FinishRequestVoteKeeps
  <2>8. CASE \E m \in rpcs : HandleRequestVoteResponse(m)
    BY Zenon, <1>1, <2>8, HandleRequestVoteResponseKeeps
  <2>9. CASE \E m \in rpcs : HandleAppendEntries(m)
    BY Zenon, <1>1, <2>9, HandleAppendEntriesKeeps
  <2>10. CASE \E m \in rpcs : HandleAppendEntriesResponse(m)
    BY Zenon, <1>1, <2>10, HandleAppendEntriesResponseKeeps
  <2>11. CASE \E e \in elections :
                ReadOwnLastLogId(e) \/ SendRequestVotes(e) \/ SaveOwnVote(e)
    BY Zenon, <1>1, <2>11, ElectionStepKeeps
  <2> QED
    BY Zenon, <2>1, <2>2, <2>3, <2>4, <2>5, <2>6, <2>7, <2>8, <2>9, <2>10, <2>11
    DEF ElectionNext
<1> QED
  BY Zenon, <1>2, InvPartsPrime

(* ElectionInv holds in every reachable state.                             *)
THEOREM ElectionInvariant == ElectionSpec => []ElectionInv
<1>1. ElectionInv /\ [ElectionNext]_electionVars => ElectionInv'
  <2> SUFFICES ASSUME ElectionInv, [ElectionNext]_electionVars PROVE ElectionInv'
    BY Zenon
  <2>1. CASE ElectionNext
    BY Zenon, <2>1, ElectionNextInv
  <2>2. CASE UNCHANGED electionVars
    <3>1. UNCHANGED <<nodeVars, countVars, metaVars, lastId, elections, leaderVars,
                      rpcs, incarnation, cast>>
      BY Zenon, <2>2 DEF electionVars
    <3>2. VoteInv /\ RpcInv /\ NodeTypes
      BY Zenon, InvParts
    <3>3. VoteInv'
      BY Zenon, <3>1, <3>2, ElectionsKept DEF nodeVars, countVars, metaVars, leaderVars
    <3>4. RpcInv'
      BY Zenon, <3>1, <3>2, FewerCalls
    <3>5. NodeTypes'
      BY Zenon, <3>1, <3>2 DEF NodeTypes, nodeVars, countVars, metaVars, leaderVars
    <3> QED
      BY Zenon, <3>3, <3>4, <3>5, InvPartsPrime
  <2> QED
    BY Zenon, <2>1, <2>2
<1> QED
  BY ElectionInitInv, <1>1, PTL DEF ElectionSpec

(* The variables of the election keep their types.                         *)
THEOREM ElectionTypeCorrect == ElectionSpec => []ElectionTypeOK
<1>1. ElectionInv => ElectionTypeOK
  BY Zenon DEF ElectionInv
<1> QED
  BY ElectionInvariant, <1>1, PTL

(* A granted RequestVote is on the voter's disk.                           *)
THEOREM GrantsAreSaved == ElectionSpec => []GrantedIsSaved
<1>1. ElectionInv => GrantedIsSaved
  BY Zenon DEF ElectionInv
<1> QED
  BY ElectionInvariant, <1>1, PTL

(* Two leaders of one term share a voter, and that voter voted once.       *)
LEMMA OneLeaderPerTerm == ElectionInv => ElectionSafety
<1> SUFFICES ASSUME ElectionInv, NEW a \in leaders, NEW b \in leaders, a[1] = b[1]
             PROVE  a[2] = b[2]
  BY Zenon DEF ElectionSafety
<1>1. /\ IsMajority(VotersOf(a[1], a[2]), Server)
      /\ IsMajority(VotersOf(b[1], b[2]), Server)
  BY Zenon DEF ElectionInv, LeadersElected
<1>2. IsFiniteSet(Server)
  BY Zenon, ServerAssumption
<1>3. PICK p \in Server : p \in VotersOf(a[1], a[2]) /\ p \in VotersOf(b[1], b[2])
  BY Zenon, <1>1, <1>2, MajoritiesMeet
<1>4. <<p, a[1], a[2]>> \in cast /\ <<p, b[1], b[2]>> \in cast
  BY Zenon, <1>3 DEF VotersOf
<1> QED
  BY Zenon, <1>4 DEF ElectionInv, CastOnce

(* At most one server ever becomes leader of a term.                       *)
THEOREM ElectionIsSafe == ElectionSpec => []ElectionSafety
BY ElectionInvariant, OneLeaderPerTerm, PTL

-----------------------------------------------------------------------------
(* Who is followed, and who sends AppendEntries, was elected.              *)

KnownIds ==
  \A s \in Server : leaderId[s] # Nil => <<term[s], leaderId[s]>> \in leaders

KnownGroups ==
  /\ \A s \in Server : groupTerm[s] # 0 => <<groupTerm[s], s>> \in leaders
  /\ \A s, p \in Server : replicators[s][p].alive
                            => <<replicators[s][p].term, s>> \in leaders

KnownCalls == \A m \in rpcs : m.kind = "append" => <<m.term, m.from>> \in leaders

(* Every AppendEntries call after a step is one of before it.              *)
CallsStay ==
  \A n \in rpcs' : n.kind = "append" =>
    \E m \in rpcs : m.kind = "append" /\ m.term = n.term /\ m.from = n.from

(* One server forgets its leader or learns of one that was elected.        *)
LEMMA IdChanged ==
  ASSUME KnownIds, NodeTypes, NEW s \in Server, NEW l,
         leaderId' = [leaderId EXCEPT ![s] = l],
         \A q \in Server \ {s} : term'[q] = term[q],
         leaders \subseteq leaders',
         l # Nil => <<term'[s], l>> \in leaders'
  PROVE  KnownIds'
BY Zenon DEF KnownIds, NodeTypes

(* step_down changes the term of one server.                               *)
LEMMA StepDownIds ==
  ASSUME KnownIds, NodeTypes, NEW s \in Server, NEW t \in Nat, NEW l,
         StepDown(s, t, l), leaders' = leaders,
         l # Nil => ~(t < term[s]) /\ <<t, l>> \in leaders
  PROVE  KnownIds'
<1>1. /\ leaderId' = [leaderId EXCEPT ![s] = l]
      /\ term' = [term EXCEPT ![s] = IF t > term[s] THEN t ELSE term[s]]
  BY Zenon DEF StepDown
<1>2. term[s] \in Nat /\ term \in [Server -> Nat \ {0}]
  BY Zenon DEF NodeTypes
<1>3. l # Nil => term'[s] = t
  BY <1>1, <1>2
<1>4. \A q \in Server \ {s} : term'[q] = term[q]
  BY Zenon, <1>1, <1>2
<1>5. l # Nil => <<term'[s], l>> \in leaders'
  BY Zenon, <1>3
<1> QED
  BY Zenon, <1>1, <1>4, <1>5, IdChanged

(* elect_self and the grant of a vote forget the leader.                   *)
LEMMA ElectSelfIds ==
  ASSUME KnownIds, NodeTypes, NEW s \in Server, ElectSelf(s), leaders' = leaders
  PROVE  KnownIds'
<1>1. /\ leaderId' = [leaderId EXCEPT ![s] = Nil]
      /\ term' = [term EXCEPT ![s] = @ + 1]
  BY Zenon DEF ElectSelf
<1>2. \A q \in Server \ {s} : term'[q] = term[q]
  BY Zenon, <1>1 DEF NodeTypes
<1> QED
  BY Zenon, <1>1, <1>2, IdChanged

(* become_leader: the group and its new replicators are of a term that the *)
(* server leads.                                                           *)
LEMMA BecomeLeaderKnown ==
  ASSUME KnownIds, KnownGroups, NodeTypes, NEW s \in Server, BecomeLeader(s),
         term' = term
  PROVE  KnownIds' /\ KnownGroups' /\ leaders \subseteq leaders'
<1>1. leaders' = leaders \cup {<<term[s], s>>} /\ leaderId' = [leaderId EXCEPT ![s] = s]
  BY Zenon DEF BecomeLeader
<1>2. KnownIds'
  BY Zenon, <1>1, IdChanged
<1>3. groupTerm \in [Server -> Nat] /\ term[s] \in Nat \ {0}
  BY Zenon DEF NodeTypes
<1>4. groupTerm' = [groupTerm EXCEPT ![s] = IF term[s] > @ THEN term[s] ELSE @]
  BY Zenon DEF BecomeLeader
<1>5. \A q \in Server : groupTerm'[q] # 0 => <<groupTerm'[q], q>> \in leaders'
  BY Zenon, <1>1, <1>3, <1>4 DEF KnownGroups
<1>6. groupTerm'[s] # 0
  BY <1>3, <1>4
<1> DEFINE new == [term |-> groupTerm'[s], alive |-> TRUE]
           row == [p \in Server |->
                     IF p = s \/ replicators[s][p] # NoReplicator THEN replicators[s][p]
                     ELSE new]
<1>7. replicators' = [replicators EXCEPT ![s] = row]
  BY Zenon DEF BecomeLeader
<1>8. new.term = groupTerm'[s]
  BY Zenon
<1> HIDE DEF new
<1>9. \A p \in Server : row[p] = replicators[s][p] \/ row[p] = new
  BY Zenon
<1> HIDE DEF row
<1>10. ASSUME NEW q \in Server, NEW p \in Server, replicators'[q][p].alive
       PROVE  <<replicators'[q][p].term, q>> \in leaders'
  <2>1. CASE replicators'[q][p] = replicators[q][p]
    BY Zenon, <1>1, <1>10, <2>1 DEF KnownGroups
  <2>2. CASE q = s /\ replicators'[q][p] = new
    BY Zenon, <1>5, <1>6, <1>8, <2>2
  <2>3. q = s => replicators'[q] = row
    BY Zenon, <1>7 DEF NodeTypes
  <2>4. q # s => replicators'[q] = replicators[q]
    BY Zenon, <1>7 DEF NodeTypes
  <2> QED
    BY <1>9, <2>1, <2>2, <2>3, <2>4
<1> QED
  BY Zenon, <1>1, <1>2, <1>5, <1>10 DEF KnownGroups

(* A step whose calls, but for those of another kind, are those of before. *)
LEMMA CallsKnown ==
  ASSUME KnownCalls, leaders \subseteq leaders',
         CallsStay
  PROVE  KnownCalls'
BY Zenon DEF KnownCalls, CallsStay

(* Calls that end are no new calls.                                        *)
LEMMA FewerStay == ASSUME rpcs' \subseteq rpcs PROVE CallsStay
BY Zenon DEF CallsStay

(* A call moves on: it stays a call of its caller and its term.            *)
LEMMA CallMoves ==
  ASSUME RpcInv, NEW m \in rpcs, NEW a, rpcs' = (rpcs \ {m}) \cup {a},
         a.kind = m.kind, a.term = m.term, a.from = m.from
  PROVE  CallsStay
BY Zenon DEF CallsStay

(* The three ways in which a handler moves a call on.                      *)
LEMMA MovesAreMoves ==
  ASSUME RpcInv, NEW m \in rpcs,
         \/ \E t, ok : Answer(m, t, ok)
         \/ \E stage : MoveTo(m, stage)
         \/ rpcs' = (rpcs \ {m}) \cup {[m EXCEPT !.stage = "read", !.seen = lastId[m.to]]}
  PROVE  CallsStay
<1>1. m \in RpcType
  BY Zenon DEF RpcInv
<1>2. CASE \E t, ok : Answer(m, t, ok)
  <2>1. PICK t, ok : Answer(m, t, ok)
    BY Zenon, <1>2
  <2> DEFINE a == [m EXCEPT !.stage = "response", !.reply = t, !.ok = ok]
  <2>2. a.kind = m.kind /\ a.term = m.term /\ a.from = m.from
    BY ZenonT(60), <1>1 DEF RpcType
  <2>3. rpcs' = (rpcs \ {m}) \cup {a}
    BY Zenon, <2>1 DEF Answer
  <2> HIDE DEF a
  <2> QED
    BY Zenon, <2>2, <2>3, CallMoves
<1>3. CASE \E stage : MoveTo(m, stage)
  <2>1. PICK stage : MoveTo(m, stage)
    BY Zenon, <1>3
  <2> DEFINE a == [m EXCEPT !.stage = stage]
  <2>2. a.kind = m.kind /\ a.term = m.term /\ a.from = m.from
    BY Zenon, <1>1 DEF RpcType
  <2>3. rpcs' = (rpcs \ {m}) \cup {a}
    BY Zenon, <2>1 DEF MoveTo
  <2> HIDE DEF a
  <2> QED
    BY Zenon, <2>2, <2>3, CallMoves
<1>4. CASE rpcs' = (rpcs \ {m}) \cup {[m EXCEPT !.stage = "read", !.seen = lastId[m.to]]}
  <2> DEFINE a == [m EXCEPT !.stage = "read", !.seen = lastId[m.to]]
  <2>1. a.kind = m.kind /\ a.term = m.term /\ a.from = m.from
    BY Zenon, <1>1 DEF RpcType
  <2>2. rpcs' = (rpcs \ {m}) \cup {a}
    BY Zenon, <1>4
  <2> HIDE DEF a
  <2> QED
    BY Zenon, <2>1, <2>2, CallMoves
<1> QED
  BY Zenon, <1>2, <1>3, <1>4

Known == KnownIds /\ KnownGroups /\ KnownCalls

(* What most handlers leave to be shown: the groups stay, and the calls    *)
(* and the leader ids are those of before or of an elected leader.         *)
LEMMA KnownKept ==
  ASSUME Known, KnownIds', UNCHANGED leaderVars,
         CallsStay
  PROVE  Known'
<1>1. KnownGroups'
  BY Zenon DEF Known, KnownGroups, leaderVars
<1>2. KnownCalls'
  BY Zenon, CallsKnown DEF Known, leaderVars
<1> QED
  BY Zenon, <1>1, <1>2 DEF Known

(* The same when the leader ids stay too.                                  *)
LEMMA KnownSame ==
  ASSUME Known, UNCHANGED <<term, leaderId>>, UNCHANGED leaderVars,
         CallsStay
  PROVE  Known'
<1>1. KnownIds'
  BY Zenon DEF Known, KnownIds, leaderVars
<1> QED
  BY Zenon, <1>1, KnownKept

(* prevote sends calls of another kind.                                    *)
LEMMA PreVoteCalls ==
  ASSUME NodeTypes, NEW s \in Server, PreVote(s, rpcs)
  PROVE  CallsStay
<1> DEFINE new == CallsToOthers("prevote", s, term[s] + 1, lastId[s])
<1>1. \A m \in new : m.kind = "prevote"
  <2>1. term[s] + 1 \in Nat /\ lastId[s] \in LogId
    BY DEF NodeTypes
  <2> QED
    BY <2>1, CallsToOthersType
<1>2. rpcs' = rpcs \cup new \/ rpcs' = rpcs
  BY Zenon DEF PreVote
<1> HIDE DEF new
<1> QED
  BY Zenon, <1>1, <1>2 DEF CallsStay

(* The timers.                                                             *)
LEMMA TimeoutKnown ==
  ASSUME Known, NodeTypes, NEW s \in Server,
         HandleElectionTimeout(s) \/ HandleVoteTimeout(s)
  PROVE  Known'
<1>1. UNCHANGED leaderVars /\ leaders' = leaders /\ KnownIds
  BY Zenon DEF HandleElectionTimeout, HandleVoteTimeout, leaderVars, Known
<1>2. CASE HandleElectionTimeout(s)
  <2>1. KnownIds'
    BY Zenon, <1>1, <1>2, IdChanged DEF HandleElectionTimeout
  <2> QED
    BY Zenon, <1>1, <1>2, <2>1, PreVoteCalls, KnownKept DEF HandleElectionTimeout
<1>3. CASE StepDown(s, term[s], Nil) /\ PreVote(s, rpcs)
  <2>1. KnownIds'
    BY Zenon, <1>1, <1>3, StepDownIds DEF NodeTypes
  <2> QED
    BY Zenon, <1>1, <1>3, <2>1, PreVoteCalls, KnownKept
<1>4. CASE ElectSelf(s) /\ UNCHANGED rpcs
  <2>1. KnownIds'
    BY Zenon, <1>1, <1>4, ElectSelfIds
  <2> QED
    BY Zenon, <1>1, <1>4, <2>1, FewerStay, KnownKept
<1> QED
  BY Zenon, <1>2, <1>3, <1>4 DEF HandleVoteTimeout

(* A replicator sends with the term it was started with.                   *)
LEMMA SendKnown ==
  ASSUME Known, NodeTypes, NEW s \in Server,
         ClientAppend(s) \/ \E p \in Server : SendAppendEntries(s, p)
  PROVE  Known'
<1>1. CASE ClientAppend(s)
  BY Zenon, <1>1, FewerStay, KnownSame DEF ClientAppend, nodeVars
<1>2. ASSUME NEW p \in Server, SendAppendEntries(s, p) PROVE Known'
  <2>1. replicators[s][p].term \in Nat /\ lastId[s] \in LogId
    BY DEF NodeTypes
  <2>2. AppendCall(s, p).term = replicators[s][p].term /\ AppendCall(s, p).from = s
    BY <2>1, CallType DEF AppendCall
  <2>3. replicators[s][p].alive /\ rpcs' = rpcs \cup {AppendCall(s, p)} /\ leaders' = leaders
    BY Zenon, <1>2 DEF SendAppendEntries, leaderVars
  <2>4. <<replicators[s][p].term, s>> \in leaders
    BY Zenon, <2>3 DEF Known, KnownGroups
  <2>5. KnownCalls'
    BY Zenon, <2>2, <2>3, <2>4 DEF Known, KnownCalls
  <2> QED
    BY Zenon, <1>2, <2>5 DEF SendAppendEntries, Known, KnownIds, KnownGroups, nodeVars, leaderVars
<1> QED
  BY Zenon, <1>1, <1>2

(* A restarted server follows nobody and has no replicators.               *)
LEMMA RestartKnown ==
  ASSUME Known, NodeTypes, NEW s \in Server, Restart(s) PROVE Known'
<1>1. /\ leaderId' = [leaderId EXCEPT ![s] = Nil] /\ leaders' = leaders
      /\ \A q \in Server \ {s} : term'[q] = term[q]
  BY Zenon DEF Restart, InitMetaStorage, NodeTypes
<1>2. KnownIds'
  BY Zenon, <1>1, IdChanged DEF Known
<1>3. groupTerm' = [groupTerm EXCEPT ![s] = 0]
  BY Zenon DEF Restart
<1>4. replicators' = [replicators EXCEPT ![s] = [p \in Server |-> NoReplicator]]
  BY Zenon DEF Restart
<1>5. ASSUME NEW q \in Server, NEW p \in Server, replicators'[q][p].alive
      PROVE  replicators'[q][p] = replicators[q][p]
  <2>1. q = s => replicators'[q][p] = NoReplicator
    BY Zenon, <1>4 DEF NodeTypes
  <2>2. ~NoReplicator.alive
    BY Zenon DEF NoReplicator
  <2> QED
    BY Zenon, <1>4, <1>5, <2>1, <2>2 DEF NodeTypes
<1>6. KnownGroups'
  BY <1>1, <1>3, <1>5 DEF Known, KnownGroups, NodeTypes
<1>7. rpcs' \subseteq rpcs
  BY Zenon DEF Restart
<1>8. KnownCalls'
  BY SMTT(30), <1>1, <1>7 DEF Known, KnownCalls
<1> QED
  BY Zenon, <1>2, <1>6, <1>8 DEF Known

(* The steps of a call's handler before its answer, and its loss.          *)
LEMMA CallStepKnown ==
  ASSUME Known, RpcInv, NEW m \in rpcs,
         HandlePreVote(m) \/ ReadLastLogId(m) \/ FinishPreVote(m) \/ FailCall(m)
  PROVE  Known'
<1>1. UNCHANGED <<term, leaderId>> /\ UNCHANGED leaderVars
  BY Zenon DEF HandlePreVote, ReadLastLogId, FinishPreVote, FailCall, nodeVars
<1>2. \/ \E t, ok : Answer(m, t, ok)
      \/ \E stage : MoveTo(m, stage)
      \/ rpcs' = (rpcs \ {m}) \cup {[m EXCEPT !.stage = "read", !.seen = lastId[m.to]]}
      \/ rpcs' \subseteq rpcs
  BY Zenon DEF HandlePreVote, ReadLastLogId, FinishPreVote, FailCall
<1>3. CASE rpcs' \subseteq rpcs
  BY Zenon, <1>1, <1>3, FewerStay, KnownSame
<1> QED
  BY Zenon, <1>1, <1>2, <1>3, MovesAreMoves, KnownSame

(* The answers to PreVote and to RequestVote.                              *)
LEMMA VoteResponseKnown ==
  ASSUME Known, RpcInv, NodeTypes, NEW m \in rpcs,
         HandlePreVoteResponse(m) \/ HandleRequestVoteResponse(m)
  PROVE  Known'
<1> DEFINE s == m.from
<1>1. s \in Server /\ m.reply \in Nat /\ KnownIds /\ KnownGroups
  BY Zenon DEF RpcInv, RpcType, Known
<1>2. rpcs' = rpcs \ {m}
  BY Zenon DEF HandlePreVoteResponse, HandleRequestVoteResponse
<1>3. \/ UNCHANGED <<term, leaderId>> /\ UNCHANGED leaderVars
      \/ StepDown(s, m.reply, Nil) /\ UNCHANGED leaderVars
      \/ ElectSelf(s) /\ UNCHANGED leaderVars
      \/ BecomeLeader(s) /\ term' = term
  BY Zenon DEF HandlePreVoteResponse, HandleRequestVoteResponse, nodeVars
<1> HIDE DEF s
<1>4. CASE UNCHANGED <<term, leaderId>> /\ UNCHANGED leaderVars
  BY Zenon, <1>2, <1>4, FewerStay, KnownSame
<1>5. CASE StepDown(s, m.reply, Nil) /\ UNCHANGED leaderVars
  <2>1. KnownIds'
    BY Zenon, <1>1, <1>5, StepDownIds DEF leaderVars
  <2> QED
    BY Zenon, <1>2, <1>5, <2>1, FewerStay, KnownKept
<1>6. CASE ElectSelf(s) /\ UNCHANGED leaderVars
  <2>1. KnownIds'
    BY Zenon, <1>1, <1>6, ElectSelfIds DEF leaderVars
  <2> QED
    BY Zenon, <1>2, <1>6, <2>1, FewerStay, KnownKept
<1>7. CASE BecomeLeader(s) /\ term' = term
  <2>1. KnownIds' /\ KnownGroups' /\ leaders \subseteq leaders'
    BY Zenon, <1>1, <1>7, BecomeLeaderKnown
  <2>2. KnownCalls'
    BY SMTT(30), <1>2, <2>1, FewerStay, CallsKnown DEF Known
  <2> QED
    BY Zenon, <2>1, <2>2 DEF Known
<1> QED
  BY Zenon, <1>3, <1>4, <1>5, <1>6, <1>7

(* RequestVote: the handler follows nobody.                                *)
LEMMA RequestVoteKnown ==
  ASSUME Known, RpcInv, NodeTypes, NEW m \in rpcs,
         HandleRequestVote(m) \/ FinishRequestVote(m)
  PROVE  Known'
<1>1. m.to \in Server /\ m.term \in Nat /\ KnownIds
  BY Zenon DEF RpcInv, RpcType, Known
<1>2. UNCHANGED leaderVars /\ leaders' = leaders
  BY Zenon DEF HandleRequestVote, FinishRequestVote, leaderVars
<1>3. \/ \E t, ok : Answer(m, t, ok)
      \/ \E stage : MoveTo(m, stage)
  BY Zenon DEF HandleRequestVote, FinishRequestVote
<1>4. \/ UNCHANGED <<term, leaderId>>
      \/ StepDown(m.to, m.term, Nil)
      \/ leaderId' = [leaderId EXCEPT ![m.to] = Nil] /\ term' = term
  BY Zenon DEF HandleRequestVote, FinishRequestVote, nodeVars
<1>5. KnownIds'
  <2>1. CASE UNCHANGED <<term, leaderId>>
    BY Zenon, <1>1, <1>2, <2>1 DEF KnownIds
  <2>2. CASE StepDown(m.to, m.term, Nil)
    BY Zenon, <1>1, <1>2, <2>2, StepDownIds
  <2>3. CASE leaderId' = [leaderId EXCEPT ![m.to] = Nil] /\ term' = term
    BY Zenon, <1>1, <1>2, <2>3, IdChanged
  <2> QED
    BY Zenon, <1>4, <2>1, <2>2, <2>3
<1> QED
  BY Zenon, <1>2, <1>3, <1>5, MovesAreMoves, KnownKept

(* AppendEntries: the handler follows a sender that was elected.           *)
LEMMA AppendEntriesKnown ==
  ASSUME Known, RpcInv, NodeTypes, NEW m \in rpcs, HandleAppendEntries(m)
  PROVE  Known'
<1>1. /\ m.to \in Server /\ m.from \in Server /\ m.term \in Nat /\ m.term + 1 \in Nat
      /\ term[m.to] \in Nat /\ KnownIds
  BY DEF RpcInv, RpcType, NodeTypes, Known
<1>2. UNCHANGED leaderVars /\ leaders' = leaders /\ m.kind = "append"
  BY Zenon DEF HandleAppendEntries, leaderVars, Waiting
<1>3. \E t, ok : Answer(m, t, ok)
  BY Zenon DEF HandleAppendEntries
<1>4. \/ UNCHANGED <<term, leaderId>>
      \/ StepDown(m.to, m.term + 1, Nil)
      \/ StepDown(m.to, m.term, m.from) /\ ~(m.term < term[m.to])
  BY Zenon DEF HandleAppendEntries, nodeVars
<1>5. <<m.term, m.from>> \in leaders
  BY Zenon, <1>2 DEF Known, KnownCalls
<1>6. KnownIds'
  <2>1. CASE UNCHANGED <<term, leaderId>>
    BY Zenon, <1>1, <1>2, <2>1 DEF KnownIds
  <2>2. CASE StepDown(m.to, m.term + 1, Nil)
    BY Zenon, <1>1, <1>2, <2>2, StepDownIds
  <2>3. CASE StepDown(m.to, m.term, m.from) /\ ~(m.term < term[m.to])
    BY Zenon, <1>1, <1>2, <1>5, <2>3, StepDownIds
  <2> QED
    BY Zenon, <1>4, <2>1, <2>2, <2>3
<1> QED
  BY Zenon, <1>2, <1>3, <1>6, MovesAreMoves, KnownKept

(* The answer to AppendEntries may end a replicator, not start one.        *)
LEMMA AppendResponseKnown ==
  ASSUME Known, RpcInv, NodeTypes, NEW m \in rpcs, HandleAppendEntriesResponse(m)
  PROVE  Known'
<1> DEFINE s == m.from
<1>1. s \in Server /\ m.to \in Server /\ m.reply \in Nat /\ KnownIds
  BY Zenon DEF RpcInv, RpcType, Known
<1>2. rpcs' = rpcs \ {m} /\ groupTerm' = groupTerm /\ leaders' = leaders
  BY Zenon DEF HandleAppendEntriesResponse
<1>3. UNCHANGED <<term, leaderId>> \/ StepDown(s, m.reply, Nil)
  BY Zenon DEF HandleAppendEntriesResponse, nodeVars
<1>4. \/ UNCHANGED replicators
      \/ replicators' = [replicators EXCEPT ![s][m.to].alive = FALSE]
  BY Zenon DEF HandleAppendEntriesResponse
<1> HIDE DEF s
<1>5. KnownIds'
  <2>1. CASE UNCHANGED <<term, leaderId>>
    BY Zenon, <1>1, <1>2, <2>1 DEF KnownIds
  <2>2. CASE StepDown(s, m.reply, Nil)
    BY Zenon, <1>1, <1>2, <2>2, StepDownIds
  <2> QED
    BY Zenon, <1>3, <2>1, <2>2
<1>6. ASSUME NEW q \in Server, NEW p \in Server, replicators'[q][p].alive
      PROVE  replicators'[q][p] = replicators[q][p]
  <2>1. CASE UNCHANGED replicators
    BY Zenon, <2>1
  <2>2. CASE replicators' = [replicators EXCEPT ![s][m.to].alive = FALSE]
    <3>1. q = s /\ p = m.to => ~replicators'[q][p].alive
      <4> DEFINE dead == [replicators[s][m.to] EXCEPT !.alive = FALSE]
      <4>1. replicators[s][m.to] \in [term : Nat, alive : BOOLEAN]
        BY <1>1 DEF NodeTypes
      <4>2. ~dead.alive
        BY Zenon, <4>1
      <4>3. replicators'[s][m.to] = dead
        BY Zenon, <1>1, <2>2 DEF NodeTypes
      <4> HIDE DEF dead
      <4> QED
        BY Zenon, <4>2, <4>3
    <3>2. ~(q = s /\ p = m.to) => replicators'[q][p] = replicators[q][p]
      BY Zenon, <1>1, <2>2 DEF NodeTypes
    <3> QED
      BY Zenon, <1>6, <3>1, <3>2
  <2> QED
    BY Zenon, <1>4, <2>1, <2>2
<1>7. KnownGroups'
  BY Zenon, <1>2, <1>6 DEF Known, KnownGroups
<1>8. KnownCalls'
  BY Zenon, <1>2 DEF Known, KnownCalls
<1> QED
  BY Zenon, <1>5, <1>7, <1>8 DEF Known

(* elect_self after the unlock: its calls are of another kind, and its own *)
(* vote may make a leader.                                                 *)
LEMMA ElectionStepKnown ==
  ASSUME Known, NodeTypes, NEW e \in elections,
         ReadOwnLastLogId(e) \/ SendRequestVotes(e) \/ SaveOwnVote(e)
  PROVE  Known'
<1>1. e.node \in Server /\ e.term \in Nat /\ e.id \in LogId
  BY Zenon DEF NodeTypes
<1>2. CASE ReadOwnLastLogId(e)
  BY Zenon, <1>2, FewerStay, KnownSame DEF ReadOwnLastLogId, nodeVars
<1>3. CASE SendRequestVotes(e)
  <2> DEFINE new == CallsToOthers("vote", e.node, e.term, e.id)
  <2>1. \A m \in new : m.kind = "vote"
    BY <1>1, CallsToOthersType
  <2>2. /\ rpcs' = rpcs \cup new \/ rpcs' = rpcs
        /\ UNCHANGED <<term, leaderId>> /\ UNCHANGED leaderVars
    BY Zenon, <1>3 DEF SendRequestVotes, nodeVars
  <2> HIDE DEF new
  <2> QED
    BY Zenon, <2>1, <2>2, KnownSame DEF CallsStay
<1>4. CASE SaveOwnVote(e)
  <2>1. /\ rpcs' = rpcs /\ term' = term
        /\ BecomeLeader(e.node) \/ (UNCHANGED leaderId /\ UNCHANGED leaderVars)
    BY Zenon, <1>4 DEF SaveOwnVote
  <2>2. CASE BecomeLeader(e.node)
    <3>1. KnownIds' /\ KnownGroups' /\ leaders \subseteq leaders'
      BY Zenon, <1>1, <2>1, <2>2, BecomeLeaderKnown DEF Known
    <3>2. KnownCalls'
      BY Zenon, <2>1, <3>1, FewerStay, CallsKnown DEF Known
    <3> QED
      BY Zenon, <3>1, <3>2 DEF Known
  <2>3. CASE UNCHANGED leaderId /\ UNCHANGED leaderVars
    BY Zenon, <2>1, <2>3, FewerStay, KnownSame
  <2> QED
    BY Zenon, <2>1, <2>2, <2>3
<1> QED
  BY Zenon, <1>2, <1>3, <1>4

(* Every step keeps LeaderKnown.                                           *)
LEMMA KnownNext ==
  ASSUME LeaderKnown, ElectionInv, [ElectionNext]_electionVars PROVE LeaderKnown'
<1>1. RpcInv /\ NodeTypes /\ Known
  BY Zenon, InvParts DEF LeaderKnown, Known, KnownIds, KnownGroups, KnownCalls
<1>2. Known'
  <2>1. CASE \E s \in Server : HandleElectionTimeout(s) \/ HandleVoteTimeout(s)
    BY Zenon, <1>1, <2>1, TimeoutKnown
  <2>2. CASE \E s \in Server :
               ClientAppend(s) \/ \E p \in Server : SendAppendEntries(s, p)
    BY Zenon, <1>1, <2>2, SendKnown
  <2>3. CASE \E s \in Server : Restart(s)
    BY Zenon, <1>1, <2>3, RestartKnown
  <2>4. CASE \E m \in rpcs :
               HandlePreVote(m) \/ ReadLastLogId(m) \/ FinishPreVote(m) \/ FailCall(m)
    BY Zenon, <1>1, <2>4, CallStepKnown
  <2>5. CASE \E m \in rpcs : HandlePreVoteResponse(m) \/ HandleRequestVoteResponse(m)
    BY Zenon, <1>1, <2>5, VoteResponseKnown
  <2>6. CASE \E m \in rpcs : HandleRequestVote(m) \/ FinishRequestVote(m)
    BY Zenon, <1>1, <2>6, RequestVoteKnown
  <2>7. CASE \E m \in rpcs : HandleAppendEntries(m)
    BY Zenon, <1>1, <2>7, AppendEntriesKnown
  <2>8. CASE \E m \in rpcs : HandleAppendEntriesResponse(m)
    BY Zenon, <1>1, <2>8, AppendResponseKnown
  <2>9. CASE \E e \in elections :
               ReadOwnLastLogId(e) \/ SendRequestVotes(e) \/ SaveOwnVote(e)
    BY Zenon, <1>1, <2>9, ElectionStepKnown
  <2>10. CASE UNCHANGED electionVars
    BY Zenon, <1>1, <2>10, FewerStay, KnownSame DEF electionVars, nodeVars
  <2> QED
    BY SMTT(30), <2>1, <2>2, <2>3, <2>4, <2>5, <2>6, <2>7, <2>8, <2>9, <2>10 DEF ElectionNext
<1> QED
  BY Zenon, <1>2 DEF LeaderKnown, Known, KnownIds, KnownGroups, KnownCalls

(* Whoever is followed, or replicates, was elected in that term.           *)
THEOREM LeadersAreKnown == ElectionSpec => []LeaderKnown
<1>1. ElectionInit => LeaderKnown
  <2> SUFFICES ASSUME ElectionInit PROVE LeaderKnown
    BY Zenon
  <2>1. \A s, p \in Server : replicators[s][p] = NoReplicator
    BY Zenon DEF ElectionInit
  <2>2. ~NoReplicator.alive
    BY Zenon DEF NoReplicator
  <2> QED
    BY Zenon, <2>1, <2>2 DEF ElectionInit, LeaderKnown
<1>2. LeaderKnown /\ ElectionInv /\ [ElectionNext]_electionVars => LeaderKnown'
  BY Zenon, KnownNext
<1> QED
  BY <1>1, <1>2, ElectionInvariant, PTL DEF ElectionSpec

(* handle_append_entries_request never meets a second leader of its term.  *)
THEOREM NoSecondLeader == ElectionSpec => []NoLeaderConflict
<1>1. LeaderKnown /\ ElectionSafety /\ ElectionInv => NoLeaderConflict
  <2> SUFFICES ASSUME LeaderKnown, ElectionSafety, ElectionInv, NEW m \in rpcs,
                      m.kind = "append", m.term = term[m.to], Conflict(m)
               PROVE  FALSE
    BY Zenon DEF NoLeaderConflict, Waiting
  <2>1. m.to \in Server
    BY Zenon DEF ElectionInv, ElectionTypeOK, RpcType
  <2>2. leaderId[m.to] # Nil /\ leaderId[m.to] # m.from
    BY Zenon DEF Conflict, NewLeader
  <2>3. <<m.term, m.from>> \in leaders /\ <<m.term, leaderId[m.to]>> \in leaders
    BY Zenon, <2>1, <2>2 DEF LeaderKnown
  <2> QED
    BY Zenon, <2>2, <2>3 DEF ElectionSafety
<1> QED
  BY <1>1, LeadersAreKnown, ElectionIsSafe, ElectionInvariant, PTL

-----------------------------------------------------------------------------
(* What one step may do to a server's meta.                                *)
MetaKept(s) ==
  /\ metaTerm'[s] >= metaTerm[s]
  /\ (metaTerm'[s] = metaTerm[s] /\ metaVote[s] # Nil) => metaVote'[s] = metaVote[s]

(* step_down saves a higher term or nothing.                               *)
LEMMA StepDownMeta ==
  ASSUME SavedOrOwn, NodeTypes, NEW s \in Server, NEW t \in Nat, NEW l,
         StepDown(s, t, l)
  PROVE  \A q \in Server : MetaKept(q)
<1>1. /\ metaTerm' = [metaTerm EXCEPT ![s] = IF t > term[s] THEN t ELSE metaTerm[s]]
      /\ metaVote' = [metaVote EXCEPT ![s] = IF t > term[s] THEN Nil ELSE metaVote[s]]
  BY Zenon DEF StepDown, VoteAfter
<1>2. /\ metaTerm \in [Server -> Nat \ {0}] /\ term[s] \in Nat
      /\ metaVote \in [Server -> Server \cup {Nil}]
  BY Zenon DEF NodeTypes
<1>3. metaTerm[s] = term[s] \/ metaTerm[s] < term[s]
  BY Zenon DEF SavedOrOwn
<1> QED
  BY <1>1, <1>2, <1>3 DEF MetaKept

(* elect_self saves its vote in a new term, or again.                      *)
LEMMA OwnVoteMeta ==
  ASSUME SavedOrOwn, ElectionsVoteForSelf, NodeTypes, NEW e \in elections, SaveOwnVote(e)
  PROVE  \A q \in Server : MetaKept(q)
<1> DEFINE s == e.node
<1>1. s \in Server /\ votedFor[s] = s
  BY Zenon DEF SaveOwnVote, ElectionsVoteForSelf, NodeTypes
<1>2. /\ metaTerm' = [metaTerm EXCEPT ![s] = term[s]]
      /\ metaVote' = [metaVote EXCEPT ![s] = s]
  BY Zenon DEF SaveOwnVote
<1>3. /\ metaTerm \in [Server -> Nat \ {0}] /\ term[s] \in Nat
      /\ metaVote \in [Server -> Server \cup {Nil}]
  BY Zenon, <1>1 DEF NodeTypes
<1>4. \/ metaTerm[s] = term[s] /\ metaVote[s] = s
      \/ metaTerm[s] < term[s]
  BY Zenon, <1>1 DEF SavedOrOwn
<1> HIDE DEF s
<1> QED
  BY <1>1, <1>2, <1>3, <1>4 DEF MetaKept

(* A vote is granted by a server that has not voted in the term.           *)
LEMMA GrantMeta ==
  ASSUME SavedOrOwn, RpcInv, NodeTypes, NEW m \in rpcs, FinishRequestVote(m)
  PROVE  \A q \in Server : MetaKept(q)
<1>1. m.to \in Server /\ Nil \notin Server
  BY Zenon, ServerAssumption DEF RpcInv, RpcType
<1>2. CASE GrantsVote(m)
  <2>1. votedFor[m.to] = Nil
    BY Zenon, <1>2 DEF GrantsVote
  <2>2. metaVote[m.to] = Nil
    BY Zenon, <1>1, <2>1 DEF SavedOrOwn
  <2>3. metaVote' = [metaVote EXCEPT ![m.to] = m.from] /\ metaTerm' = metaTerm
    BY Zenon, <1>2 DEF FinishRequestVote, SetVotedFor
  <2> QED
    BY SMTT(30), <2>2, <2>3 DEF MetaKept, NodeTypes
<1>3. CASE ~GrantsVote(m)
  <2>1. metaVote' = metaVote /\ metaTerm' = metaTerm
    BY Zenon, <1>3 DEF FinishRequestVote
  <2> QED
    BY <2>1 DEF MetaKept, NodeTypes
<1> QED
  BY Zenon, <1>2, <1>3

(* Every step keeps what is saved, or replaces it by something newer.      *)
LEMMA MetaNext ==
  ASSUME ElectionInv, [ElectionNext]_electionVars
  PROVE  \A q \in Server : MetaKept(q)
<1>1. RpcInv /\ NodeTypes /\ SavedOrOwn /\ ElectionsVoteForSelf
  BY Zenon, InvParts DEF ElectionInv
<1>2. CASE UNCHANGED metaVars
  BY <1>1, <1>2 DEF MetaKept, NodeTypes, metaVars
<1>3. CASE \E s \in Server, t \in Nat, l \in Server \cup {Nil} : StepDown(s, t, l)
  BY Zenon, <1>1, <1>3, StepDownMeta
<1>4. CASE \E s \in Server : HandleElectionTimeout(s) \/ HandleVoteTimeout(s)
  <2>1. PICK s \in Server : HandleElectionTimeout(s) \/ HandleVoteTimeout(s)
    BY Zenon, <1>4
  <2>2. UNCHANGED metaVars \/ StepDown(s, term[s], Nil)
    BY Zenon, <2>1 DEF HandleElectionTimeout, HandleVoteTimeout
  <2>3. term[s] \in Nat
    BY Zenon, <1>1 DEF NodeTypes
  <2> QED
    BY Zenon, <1>2, <1>3, <2>2, <2>3
<1>5. CASE \E m \in rpcs : \/ HandlePreVoteResponse(m) \/ HandleRequestVoteResponse(m)
                           \/ HandleRequestVote(m) \/ HandleAppendEntries(m)
                           \/ HandleAppendEntriesResponse(m)
  <2>1. PICK m \in rpcs : \/ HandlePreVoteResponse(m) \/ HandleRequestVoteResponse(m)
                          \/ HandleRequestVote(m) \/ HandleAppendEntries(m)
                          \/ HandleAppendEntriesResponse(m)
    BY Zenon, <1>5
  <2>2. \/ UNCHANGED metaVars
        \/ StepDown(m.from, m.reply, Nil)
        \/ StepDown(m.to, m.term, Nil)
        \/ StepDown(m.to, m.term + 1, Nil)
        \/ StepDown(m.to, m.term, m.from)
    BY Zenon, <2>1 DEF HandlePreVoteResponse, HandleRequestVoteResponse,
                       HandleRequestVote, HandleAppendEntries, HandleAppendEntriesResponse
  <2>3. /\ m.from \in Server /\ m.to \in Server /\ m.reply \in Nat
        /\ m.term \in Nat /\ m.term + 1 \in Nat
    BY <1>1 DEF RpcInv, RpcType
  <2> QED
    BY Zenon, <1>2, <1>3, <2>2, <2>3
<1>6. CASE \E m \in rpcs : FinishRequestVote(m)
  BY Zenon, <1>1, <1>6, GrantMeta
<1>7. CASE \E e \in elections : SaveOwnVote(e)
  BY Zenon, <1>1, <1>7, OwnVoteMeta
<1>8. CASE \/ \E s \in Server : \/ ClientAppend(s) \/ Restart(s)
                                \/ \E p \in Server : SendAppendEntries(s, p)
           \/ \E m \in rpcs : \/ HandlePreVote(m) \/ ReadLastLogId(m)
                              \/ FinishPreVote(m) \/ FailCall(m)
           \/ \E e \in elections : ReadOwnLastLogId(e) \/ SendRequestVotes(e)
           \/ UNCHANGED electionVars
  <2>1. UNCHANGED metaVars
    BY Zenon, <1>8 DEF ClientAppend, Restart, SendAppendEntries, HandlePreVote,
                       ReadLastLogId, FinishPreVote, FailCall, ReadOwnLastLogId,
                       SendRequestVotes, electionVars
  <2> QED
    BY Zenon, <1>2, <2>1
<1> QED
  BY Zenon, <1>4, <1>5, <1>6, <1>7, <1>8 DEF ElectionNext

(* The meta on disk never goes back, and a saved vote is not replaced      *)
(* within its term.                                                        *)
THEOREM SavedMetaAdvances == ElectionSpec => MetaAdvances
<1>1. ElectionInv /\ [ElectionNext]_electionVars
        => [\A s \in Server :
              /\ metaTerm'[s] >= metaTerm[s]
              /\ (metaTerm'[s] = metaTerm[s] /\ metaVote[s] # Nil)
                   => metaVote'[s] = metaVote[s]]_electionVars
  BY Zenon, MetaNext DEF MetaKept
<1> QED
  BY <1>1, ElectionInvariant, PTL DEF ElectionSpec, MetaAdvances
=============================================================================
