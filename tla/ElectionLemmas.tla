--------------------------- MODULE ElectionLemmas ----------------------------
(***************************************************************************)
(* The building blocks of the proof of election safety. The invariant has  *)
(* a part about votes, a part about calls and the types; each handler      *)
(* changes the three in one of a few ways (a call is answered, a server    *)
(* steps down, starts an election, saves a vote, leads), and each lemma of *)
(* the first half is about one of these ways. The second half puts them    *)
(* together: a lemma for each handler, or group of alike handlers.         *)
(***************************************************************************)
EXTENDS Election, BallotProofs

VoteInv ==
  SavedOrOwn /\ CastOnce /\ ElectionsVoteForSelf /\ CountedIsCast /\ LeadersElected

RpcInv == rpcs \subseteq RpcType /\ VoteCalls /\ GrantedIsSaved

NodeTypes ==
  /\ state \in [Server -> {"follower", "candidate", "leader"}]
  /\ term \in [Server -> Nat \ {0}] /\ metaTerm \in [Server -> Nat \ {0}]
  /\ votedFor \in [Server -> Server \cup {Nil}]
  /\ metaVote \in [Server -> Server \cup {Nil}]
  /\ leaderId \in [Server -> Server \cup {Nil}]
  /\ prevotes \in [Server -> BallotOf(Server, {})]
  /\ votes \in [Server -> BallotOf(Server, {})]
  /\ lastId \in [Server -> LogId]
  /\ elections \subseteq [node : Server, term : Nat \ {0}, id : LogId,
                          stage : {"window", "read", "sent"}]
  /\ groupTerm \in [Server -> Nat]
  /\ replicators \in [Server -> [Server -> [term : Nat, alive : BOOLEAN]]]
  /\ incarnation \in [Server -> Nat]
  /\ cast \subseteq Server \X Nat \X Server
  /\ leaders \subseteq Nat \X Server

(* ElectionInv is the three parts.                                         *)
LEMMA InvParts ==
  ElectionInv <=> VoteInv /\ RpcInv /\ NodeTypes
BY Zenon DEF ElectionInv, VoteInv, RpcInv, NodeTypes, ElectionTypeOK

(* The same for the next state.                                            *)
LEMMA InvPartsPrime ==
  ElectionInv' <=> VoteInv' /\ RpcInv' /\ NodeTypes'
BY Zenon DEF ElectionInv, VoteInv, RpcInv, NodeTypes, ElectionTypeOK

-----------------------------------------------------------------------------
(* A new call is well formed.                                              *)
LEMMA CallType ==
  ASSUME NodeTypes, NEW kind \in {"prevote", "vote", "append"}, NEW s \in Server,
         NEW p \in Server, NEW t \in Nat, NEW id \in LogId
  PROVE  /\ Call(kind, s, p, t, id) \in RpcType
         /\ Call(kind, s, p, t, id).kind = kind
         /\ Call(kind, s, p, t, id).from = s /\ Call(kind, s, p, t, id).to = p
         /\ Call(kind, s, p, t, id).term = t
         /\ Call(kind, s, p, t, id).stage = "request"
<1>1. incarnation[s] \in Nat /\ <<0, 0>> \in LogId
  BY Zenon DEF NodeTypes, LogId
<1> QED
  BY Zenon, <1>1 DEF Call, RpcType

(* Dropping calls, of a caller or of a handler, leaves the others alone.   *)
LEMMA FewerCalls ==
  ASSUME RpcInv, rpcs' \subseteq rpcs, cast \subseteq cast' PROVE RpcInv'
BY Zenon DEF RpcInv, VoteCalls, GrantedIsSaved, Waiting

(* Starting calls: the new ones are requests, and a vote is not asked of   *)
(* oneself.                                                                *)
LEMMA MoreCalls ==
  ASSUME RpcInv, NEW new, rpcs' = rpcs \cup new, cast' = cast,
         \A m \in new : /\ m \in RpcType /\ m.stage = "request"
                        /\ m.kind = "vote" => m.from # m.to
  PROVE  RpcInv'
BY Zenon DEF RpcInv, VoteCalls, GrantedIsSaved, Waiting

(* The calls to all the others are well formed.                            *)
LEMMA CallsToOthersType ==
  ASSUME NodeTypes, NEW kind \in {"prevote", "vote", "append"}, NEW s \in Server,
         NEW t \in Nat, NEW id \in LogId
  PROVE  \A m \in CallsToOthers(kind, s, t, id) :
           /\ m \in RpcType /\ m.stage = "request"
           /\ m.kind = kind /\ m.term = t /\ m.from = s /\ m.from # m.to
<1> SUFFICES ASSUME NEW p \in Server \ {s}
             PROVE  LET m == Call(kind, s, p, t, id)
                    IN /\ m \in RpcType /\ m.stage = "request"
                       /\ m.kind = kind /\ m.term = t /\ m.from = s /\ m.from # m.to
  BY Zenon DEF CallsToOthers
<1> QED
  BY CallType

(* A handler answers: a granted vote must have been cast.                  *)
LEMMA AnsweredCall ==
  ASSUME RpcInv, NEW m \in rpcs, NEW t \in Nat, NEW ok \in BOOLEAN,
         Answer(m, t, ok), cast \subseteq cast',
         m.kind = "vote" /\ ok => <<m.to, m.term, m.from>> \in cast'
  PROVE  RpcInv'
<1> DEFINE a == [m EXCEPT !.stage = "response", !.reply = t, !.ok = ok]
<1>1. m \in RpcType
  BY Zenon DEF RpcInv
<1>2. /\ a \in RpcType /\ a.kind = m.kind /\ a.from = m.from /\ a.to = m.to
      /\ a.term = m.term /\ a.ok = ok
  BY Zenon, <1>1 DEF RpcType
<1>3. rpcs' = (rpcs \ {m}) \cup {a}
  BY Zenon DEF Answer
<1> HIDE DEF a
<1>4. rpcs' \subseteq RpcType
  BY Zenon, <1>2, <1>3 DEF RpcInv
<1>5. VoteCalls'
  BY Zenon, <1>2, <1>3 DEF RpcInv, VoteCalls
<1>6. GrantedIsSaved'
  <2> SUFFICES ASSUME NEW n \in rpcs', n.kind = "vote", n.stage = "response", n.ok
               PROVE  <<n.to, n.term, n.from>> \in cast'
    BY Zenon DEF GrantedIsSaved, Waiting
  <2>1. CASE n = a
    BY Zenon, <1>2, <2>1
  <2>2. CASE n \in rpcs
    BY Zenon, <2>2 DEF RpcInv, GrantedIsSaved, Waiting
  <2> QED
    BY Zenon, <1>3, <2>1, <2>2
<1> QED
  BY Zenon, <1>4, <1>5, <1>6 DEF RpcInv

(* A handler goes on to another stage before it answers.                   *)
LEMMA MovedCall ==
  ASSUME RpcInv, NEW m \in rpcs, NEW a, rpcs' = (rpcs \ {m}) \cup {a},
         a \in RpcType, a.kind = m.kind, a.from = m.from, a.to = m.to,
         a.stage # "response", cast' = cast
  PROVE  RpcInv'
BY Zenon DEF RpcInv, VoteCalls, GrantedIsSaved, Waiting

-----------------------------------------------------------------------------
(* A step that leaves votes, terms and counts alone; an elect_self call    *)
(* may move on or end.                                                     *)
LEMMA VotesKept ==
  ASSUME VoteInv,
         UNCHANGED <<state, term, votedFor, votes, metaTerm, metaVote, leaders, cast>>,
         \A f \in elections' :
           /\ \E e \in elections : e.node = f.node /\ e.term = f.term
           /\ f.stage = "sent" => f.term = term[f.node]
  PROVE  VoteInv'
<1>1. SavedOrOwn' /\ CastOnce'
  BY Zenon DEF VoteInv, SavedOrOwn, CastOnce
<1>2. ElectionsVoteForSelf'
  BY Zenon DEF VoteInv, ElectionsVoteForSelf
<1>3. CountedIsCast'
  BY DEF VoteInv, CountedIsCast, Counts
<1>4. LeadersElected'
  BY Zenon DEF VoteInv, LeadersElected, VotersOf
<1> QED
  BY Zenon, <1>1, <1>2, <1>3, <1>4 DEF VoteInv

(* step_down: to a higher term it forgets the vote, in memory and on disk; *)
(* in the same term it keeps it.                                           *)
LEMMA StepDownKeeps ==
  ASSUME VoteInv, NodeTypes, NEW s \in Server, NEW t \in Nat \ {0},
         NEW l \in Server \cup {Nil}, StepDown(s, t, l), Unlocked(s),
         UNCHANGED <<votes, elections, leaders, cast>>
  PROVE  /\ VoteInv'
         /\ state' \in [Server -> {"follower", "candidate", "leader"}]
         /\ term' \in [Server -> Nat \ {0}] /\ metaTerm' \in [Server -> Nat \ {0}]
         /\ votedFor' \in [Server -> Server \cup {Nil}]
         /\ metaVote' \in [Server -> Server \cup {Nil}]
         /\ leaderId' \in [Server -> Server \cup {Nil}]
<1> USE DEF StepDown, VoteAfter
<1>1. /\ state' \in [Server -> {"follower", "candidate", "leader"}]
      /\ term' \in [Server -> Nat \ {0}] /\ metaTerm' \in [Server -> Nat \ {0}]
      /\ votedFor' \in [Server -> Server \cup {Nil}]
      /\ metaVote' \in [Server -> Server \cup {Nil}]
      /\ leaderId' \in [Server -> Server \cup {Nil}]
  BY Zenon DEF NodeTypes
<1>2. /\ \A u \in Server : term[u] \in Nat /\ metaTerm[u] \in Nat
      /\ \A e \in elections : e.node \in Server /\ e.term \in Nat
      /\ \A c \in cast : c[1] \in Server /\ c[2] \in Nat /\ c[3] \in Server
  BY Zenon DEF NodeTypes
<1>3. \A u \in Server :
        /\ state'[u] = IF u = s THEN "follower" ELSE state[u]
        /\ term'[u] = IF u = s /\ t > term[s] THEN t ELSE term[u]
        /\ votedFor'[u] = IF u = s /\ t > term[s] THEN Nil ELSE votedFor[u]
        /\ metaTerm'[u] = IF u = s /\ t > term[s] THEN t ELSE metaTerm[u]
        /\ metaVote'[u] = IF u = s /\ t > term[s] THEN Nil ELSE metaVote[u]
  BY Zenon DEF NodeTypes
<1> HIDE DEF StepDown, VoteAfter
<1>4. metaTerm[s] <= term[s]
  BY <1>2 DEF VoteInv, SavedOrOwn
<1>5. SavedOrOwn'
  BY <1>3 DEF VoteInv, SavedOrOwn
<1>6. CastOnce'
  <2>1. \A c \in cast : /\ c[2] <= metaTerm'[c[1]]
                        /\ c[2] = metaTerm'[c[1]] => c[3] = metaVote'[c[1]]
    BY <1>2, <1>3, <1>4 DEF VoteInv, CastOnce
  <2>2. \A u \in Server : metaVote'[u] # Nil => <<u, metaTerm'[u], metaVote'[u]>> \in cast
    BY <1>3 DEF VoteInv, CastOnce
  <2> QED
    BY Zenon, <2>1, <2>2 DEF VoteInv, CastOnce
<1>7. ElectionsVoteForSelf'
  BY <1>2, <1>3 DEF VoteInv, ElectionsVoteForSelf, Unlocked
<1>8. CountedIsCast'
  <2> SUFFICES ASSUME NEW u \in Server, Counts(u)'
               PROVE  Counts(u) /\ term'[u] = term[u]
    BY Zenon DEF VoteInv, CountedIsCast
  <2>1. CASE state'[u] = "candidate"
    BY Zenon, <1>3, <2>1 DEF Counts
  <2>2. CASE \E e \in elections : e.node = u /\ e.term = term'[u]
    BY <1>2, <1>3, <2>2 DEF VoteInv, ElectionsVoteForSelf, Counts
  <2> QED
    BY Zenon, <2>1, <2>2 DEF Counts
<1>9. LeadersElected'
  BY Zenon DEF VoteInv, LeadersElected, VotersOf
<1> QED
  BY Zenon, <1>1, <1>5, <1>6, <1>7, <1>8, <1>9 DEF VoteInv

(* elect_self up to the unlock: a new term, a vote for oneself that is not *)
(* on disk yet, and an empty count.                                        *)
LEMMA ElectSelfKeeps ==
  ASSUME VoteInv, NodeTypes, NEW s \in Server, ElectSelf(s), Unlocked(s),
         UNCHANGED <<metaTerm, metaVote, leaders, cast>>
  PROVE  /\ VoteInv'
         /\ state' \in [Server -> {"follower", "candidate", "leader"}]
         /\ term' \in [Server -> Nat \ {0}]
         /\ votedFor' \in [Server -> Server \cup {Nil}]
         /\ leaderId' \in [Server -> Server \cup {Nil}]
         /\ votes' \in [Server -> BallotOf(Server, {})]
         /\ elections' \subseteq [node : Server, term : Nat \ {0}, id : LogId,
                                  stage : {"window", "read", "sent"}]
<1> DEFINE new == [node |-> s, term |-> term[s] + 1, stage |-> "window", id |-> <<0, 0>>]
<1> USE DEF ElectSelf
<1>1. /\ \A u \in Server : term[u] \in Nat \ {0} /\ metaTerm[u] \in Nat
      /\ \A e \in elections : e.node \in Server /\ e.term \in Nat
  BY Zenon DEF NodeTypes
<1>2. Conf \in BallotOf(Server, {}) /\ WellCounted(Conf) /\ Conf.found = {}
  <2>1. IsFiniteSet(Server) /\ IsFiniteSet({})
    BY Zenon, ServerAssumption, FS_EmptySet
  <2> QED
    BY SMTT(30), <2>1, BallotInitCounted DEF Conf, BallotInit
<1>3. /\ state' \in [Server -> {"follower", "candidate", "leader"}]
      /\ term' \in [Server -> Nat \ {0}]
      /\ votedFor' \in [Server -> Server \cup {Nil}]
      /\ leaderId' \in [Server -> Server \cup {Nil}]
      /\ votes' \in [Server -> BallotOf(Server, {})]
  BY <1>1, <1>2 DEF NodeTypes
<1>4. /\ new \in [node : Server, term : Nat \ {0}, id : LogId,
                  stage : {"window", "read", "sent"}]
      /\ new.node = s /\ new.term = term[s] + 1 /\ new.stage = "window"
  BY <1>1 DEF LogId
<1>5. elections' = elections \cup {new}
  BY Zenon
<1>6. \A u \in Server :
        /\ state'[u] = IF u = s THEN "candidate" ELSE state[u]
        /\ term'[u] = IF u = s THEN term[s] + 1 ELSE term[u]
        /\ votedFor'[u] = IF u = s THEN s ELSE votedFor[u]
        /\ votes'[u] = IF u = s THEN Conf ELSE votes[u]
  BY Zenon DEF NodeTypes
<1> HIDE DEF ElectSelf, new
<1>7. elections' \subseteq [node : Server, term : Nat \ {0}, id : LogId,
                            stage : {"window", "read", "sent"}]
  BY Zenon, <1>4, <1>5 DEF NodeTypes
<1>8. SavedOrOwn'
  <2> SUFFICES ASSUME NEW u \in Server
               PROVE  \/ metaTerm[u] = term'[u] /\ metaVote[u] = votedFor'[u]
                      \/ metaTerm[u] < term'[u] /\ votedFor'[u] = u
    BY Zenon DEF SavedOrOwn
  <2> QED
    BY <1>1, <1>6 DEF VoteInv, SavedOrOwn
<1>9. CastOnce'
  BY Zenon DEF VoteInv, CastOnce
<1>10. ElectionsVoteForSelf'
  <2> SUFFICES ASSUME NEW e \in elections'
               PROVE  /\ e.term <= term'[e.node]
                      /\ e.term = term'[e.node] => votedFor'[e.node] = e.node
                      /\ e.stage = "sent" => e.term = term'[e.node]
    BY Zenon DEF ElectionsVoteForSelf
  <2>1. CASE e = new
    BY <1>1, <1>4, <1>6, <2>1
  <2>2. CASE e \in elections
    BY <1>1, <1>6, <2>2 DEF VoteInv, ElectionsVoteForSelf, Unlocked
  <2> QED
    BY Zenon, <1>5, <2>1, <2>2
<1>11. CountedIsCast'
  <2> SUFFICES ASSUME NEW u \in Server
               PROVE  /\ WellCounted(votes'[u])
                      /\ Counts(u)' => \A p \in votes'[u].found : <<p, term'[u], u>> \in cast
    BY Zenon DEF CountedIsCast
  <2>1. CASE u = s
    BY Zenon, <1>2, <1>6, <2>1
  <2>2. CASE u # s
    BY <1>4, <1>5, <1>6, <2>2 DEF VoteInv, CountedIsCast, Counts
  <2> QED
    BY Zenon, <2>1, <2>2
<1>12. LeadersElected'
  BY Zenon DEF VoteInv, LeadersElected, VotersOf
<1> QED
  BY Zenon, <1>3, <1>7, <1>8, <1>9, <1>10, <1>11, <1>12 DEF VoteInv

-----------------------------------------------------------------------------
(* A majority stays one while votes are added.                             *)
LEMMA MajorityKept ==
  ASSUME LeadersElected, cast \subseteq cast'
  PROVE  \A l \in leaders :
           IsMajority({p \in Server : <<p, l[1], l[2]>> \in cast'}, Server)
<1> SUFFICES ASSUME NEW l \in leaders
             PROVE  IsMajority({p \in Server : <<p, l[1], l[2]>> \in cast'}, Server)
  BY Zenon
<1>1. IsMajority(VotersOf(l[1], l[2]), Server)
  BY Zenon DEF LeadersElected
<1>2. VotersOf(l[1], l[2]) \cap Server
        \subseteq {p \in Server : <<p, l[1], l[2]>> \in cast'}
  BY Zenon DEF VotersOf
<1> QED
  BY Zenon, <1>1, <1>2, ServerAssumption, LargerMajority

(* A granted count of votes that were cast is a majority of voters.        *)
LEMMA GrantedElects ==
  ASSUME NEW s \in Server, NEW t, NEW C, NEW b \in BallotOf(Server, {}),
         WellCounted(b), BallotGranted(b), \A p \in b.found : <<p, t, s>> \in C
  PROVE  IsMajority({p \in Server : <<p, t, s>> \in C}, Server)
<1>1. IsFiniteSet(Server) /\ IsFiniteSet({})
  BY Zenon, ServerAssumption, FS_EmptySet
<1>2. IsMajority(b.found, Server)
  BY Zenon, <1>1, GrantedIffMajority
<1>3. b.found \cap Server \subseteq {p \in Server : <<p, t, s>> \in C}
  BY Zenon
<1> QED
  BY Zenon, <1>1, <1>2, <1>3, LargerMajority

(* A server with a majority of voters joins the leaders.                   *)
LEMMA LeaderAdded ==
  ASSUME LeadersElected, cast \subseteq cast', NEW s \in Server, NEW t,
         leaders' = leaders \cup {<<t, s>>},
         IsMajority({p \in Server : <<p, t, s>> \in cast'}, Server)
  PROVE  LeadersElected'
<1>1. ASSUME NEW l \in leaders'
      PROVE  IsMajority({p \in Server : <<p, l[1], l[2]>> \in cast'}, Server)
  <2>1. CASE l \in leaders
    BY Zenon, <2>1, MajorityKept
  <2>2. CASE l = <<t, s>>
    <3>1. l[1] = t /\ l[2] = s
      BY Zenon, <2>2
    <3> QED
      BY Zenon, <3>1
  <2> QED
    BY Zenon, <2>1, <2>2
<1> QED
  BY Zenon, <1>1 DEF LeadersElected, VotersOf

(* Saving a vote: it belongs to the saved term, and no other was saved     *)
(* there before.                                                           *)
LEMMA CastOnceKept ==
  ASSUME CastOnce, NodeTypes, NEW p \in Server, NEW t \in Nat, NEW a \in Server,
         metaTerm' = [metaTerm EXCEPT ![p] = t],
         metaVote' = [metaVote EXCEPT ![p] = a],
         cast' = cast \cup {<<p, t, a>>},
         metaTerm[p] <= t, metaTerm[p] = t => metaVote[p] \in {Nil, a}
  PROVE  CastOnce'
<1>1. /\ \A u \in Server : metaTerm[u] \in Nat
      /\ \A c \in cast : /\ c[1] \in Server /\ c[2] \in Nat /\ c[3] \in Server
                         /\ c = <<c[1], c[2], c[3]>>
  BY DEF NodeTypes
<1>2. \A u \in Server : /\ metaTerm'[u] = IF u = p THEN t ELSE metaTerm[u]
                        /\ metaVote'[u] = IF u = p THEN a ELSE metaVote[u]
  BY Zenon DEF NodeTypes
<1>3. ASSUME NEW c \in cast, c[1] = p, c[2] >= t
      PROVE  c = <<p, t, a>>
  <2>1. c[2] = t /\ metaTerm[p] = t
    BY <1>1, <1>3 DEF CastOnce
  <2>2. c[3] = metaVote[p]
    BY Zenon, <1>3, <2>1 DEF CastOnce
  <2>3. c[3] = a
    BY <1>1, <2>1, <2>2, ServerAssumption
  <2> QED
    BY Zenon, <1>1, <1>3, <2>1, <2>3
<1>4. \A c \in cast : c[1] = p /\ c[2] = t => c[3] = a
  BY <1>1, <1>3
<1>5. \A c, d \in cast' : c[1] = d[1] /\ c[2] = d[2] => c[3] = d[3]
  BY <1>4 DEF CastOnce
<1>6. ASSUME NEW c \in cast'
      PROVE  /\ c[2] <= metaTerm'[c[1]]
             /\ c[2] = metaTerm'[c[1]] => c[3] = metaVote'[c[1]]
  <2>1. CASE c = <<p, t, a>>
    BY <1>2, <2>1
  <2>2. CASE c \in cast /\ c[1] # p
    BY <1>1, <1>2, <2>2 DEF CastOnce
  <2>3. CASE c \in cast /\ c[1] = p
    <3>1. c[2] <= t
      BY <1>1, <2>3 DEF CastOnce
    <3> QED
      BY <1>2, <1>4, <2>3, <3>1
  <2> QED
    BY Zenon, <2>1, <2>2, <2>3
<1>7. ASSUME NEW u \in Server, metaVote'[u] # Nil
      PROVE  <<u, metaTerm'[u], metaVote'[u]>> \in cast'
  BY <1>2, <1>7 DEF CastOnce
<1> QED
  BY Zenon, <1>5, <1>6, <1>7 DEF CastOnce

(* The end of elect_self: the own vote goes to disk and is counted, and if *)
(* it is enough the server leads.                                          *)
LEMMA SaveOwnVoteKeeps ==
  ASSUME VoteInv, NodeTypes, NEW e \in elections, SaveOwnVote(e)
  PROVE  VoteInv' /\ votes' \in [Server -> BallotOf(Server, {})]
<1> DEFINE s == e.node
           b == BallotGrant(votes[s], s)
<1>1. /\ s \in Server /\ e.term \in Nat
      /\ \A u \in Server : term[u] \in Nat /\ metaTerm[u] \in Nat
      /\ votes \in [Server -> BallotOf(Server, {})]
  BY Zenon DEF NodeTypes
<1>2. /\ e.stage = "sent" /\ elections' = elections \ {e}
      /\ metaTerm' = [metaTerm EXCEPT ![s] = term[s]]
      /\ metaVote' = [metaVote EXCEPT ![s] = s]
      /\ cast' = cast \cup {<<s, term[s], s>>}
      /\ votes' = [votes EXCEPT ![s] = b]
      /\ term' = term /\ votedFor' = votedFor
      /\ IF BallotGranted(b) THEN BecomeLeader(s)
         ELSE UNCHANGED <<state, leaderId, leaderVars>>
  BY Zenon DEF SaveOwnVote
<1>3. e.term = term[s] /\ votedFor[s] = s /\ Counts(s)
  BY Zenon, <1>2 DEF VoteInv, ElectionsVoteForSelf, Counts
<1>4. IsFiniteSet(Server) /\ IsFiniteSet({})
  BY Zenon, ServerAssumption, FS_EmptySet
<1>5. /\ b \in BallotOf(Server, {}) /\ WellCounted(b)
      /\ b.found = votes[s].found \cup ({s} \cap Server)
  BY SMTT(30), <1>1, <1>4, BallotGrantCounted DEF VoteInv, CountedIsCast
<1>6. \A p \in b.found : <<p, term[s], s>> \in cast'
  BY Zenon, <1>1, <1>2, <1>3, <1>5 DEF VoteInv, CountedIsCast
<1> HIDE DEF b
<1>7. votes' \in [Server -> BallotOf(Server, {})]
  BY Zenon, <1>1, <1>2, <1>5
<1>8. \A u \in Server : /\ votes'[u] = IF u = s THEN b ELSE votes[u]
                        /\ metaTerm'[u] = IF u = s THEN term[s] ELSE metaTerm[u]
                        /\ metaVote'[u] = IF u = s THEN s ELSE metaVote[u]
  BY Zenon, <1>1, <1>2 DEF NodeTypes
<1>9. \A u \in Server \ {s} : state'[u] = state[u]
  BY <1>2 DEF BecomeLeader, NodeTypes
<1>10. SavedOrOwn'
  BY <1>2, <1>3, <1>8 DEF VoteInv, SavedOrOwn
<1>11. CastOnce'
  <2>1. metaTerm[s] <= term[s] /\ (metaTerm[s] = term[s] => metaVote[s] \in {Nil, s})
    BY <1>1, <1>3 DEF VoteInv, SavedOrOwn
  <2> QED
    BY Zenon, <1>1, <1>2, <2>1, CastOnceKept DEF VoteInv
<1>12. ElectionsVoteForSelf'
  BY Zenon, <1>2 DEF VoteInv, ElectionsVoteForSelf
<1>13. CountedIsCast'
  <2> SUFFICES ASSUME NEW u \in Server
               PROVE  /\ WellCounted(votes'[u])
                      /\ Counts(u)' => \A p \in votes'[u].found : <<p, term'[u], u>> \in cast'
    BY Zenon DEF CountedIsCast
  <2>1. CASE u = s
    BY SMTT(30), <1>2, <1>5, <1>6, <1>8, <2>1
  <2>2. CASE u # s
    BY <1>2, <1>8, <1>9, <2>2 DEF VoteInv, CountedIsCast, Counts
  <2> QED
    BY Zenon, <2>1, <2>2
<1>14. LeadersElected'
  <2>1. \A l \in leaders :
          IsMajority({p \in Server : <<p, l[1], l[2]>> \in cast'}, Server)
    BY Zenon, <1>2, MajorityKept DEF VoteInv
  <2>2. CASE BallotGranted(b)
    <3>1. leaders' = leaders \cup {<<term[s], s>>}
      BY Zenon, <1>2, <2>2 DEF BecomeLeader
    <3>2. IsMajority({p \in Server : <<p, term[s], s>> \in cast'}, Server)
      <4>1. b \in BallotOf(Server, {}) /\ WellCounted(b) /\ BallotGranted(b)
        BY Zenon, <1>5, <2>2
      <4> QED
        BY ZenonT(60), <1>1, <1>6, <4>1, GrantedElects
    <3> QED
      BY Zenon, <1>1, <1>2, <3>1, <3>2, LeaderAdded DEF VoteInv
  <2>3. CASE ~BallotGranted(b)
    BY Zenon, <1>2, <2>1, <2>3 DEF LeadersElected, leaderVars, VotersOf
  <2> QED
    BY Zenon, <2>2, <2>3
<1> QED
  BY Zenon, <1>7, <1>10, <1>11, <1>12, <1>13, <1>14 DEF VoteInv

(* handle_request_vote after the window: a vote is given at most once per  *)
(* term, and it is on disk before the answer says so.                      *)
LEMMA FinishRequestVoteKeeps ==
  ASSUME VoteInv, RpcInv, NodeTypes, NEW m \in rpcs, FinishRequestVote(m)
  PROVE  VoteInv' /\ RpcInv' /\ NodeTypes'
<1> DEFINE p == m.to
           a == m.from
           grants == m.term = term[p] /\ NotOlder(m.id, m.seen) /\ votedFor[p] = Nil
           ok == m.term = term[p] /\ votedFor'[p] = a
<1>1. /\ m \in RpcType /\ p \in Server /\ a \in Server /\ m.kind = "vote" /\ a # p
  BY Zenon DEF RpcInv, VoteCalls, RpcType, FinishRequestVote, GrantsVote, SetVotedFor, Waiting
<1>2. /\ IF grants
         THEN /\ state' = [state EXCEPT ![p] = "follower"]
              /\ leaderId' = [leaderId EXCEPT ![p] = Nil]
              /\ votedFor' = [votedFor EXCEPT ![p] = a]
              /\ metaVote' = [metaVote EXCEPT ![p] = a]
              /\ cast' = cast \cup {<<p, metaTerm[p], a>>}
         ELSE UNCHANGED <<state, leaderId, votedFor, metaVote, cast>>
      /\ Answer(m, term[p], ok)
      /\ Unlocked(p)
      /\ UNCHANGED <<term, countVars, metaTerm, lastId, elections, leaderVars,
                     incarnation>>
  BY SMTT(30) DEF FinishRequestVote, GrantsVote, SetVotedFor
<1>3. /\ term' = term /\ metaTerm' = metaTerm /\ votes' = votes
      /\ prevotes' = prevotes /\ lastId' = lastId /\ elections' = elections
      /\ groupTerm' = groupTerm /\ replicators' = replicators /\ leaders' = leaders
      /\ incarnation' = incarnation
  BY Zenon, <1>2 DEF countVars, leaderVars
<1>4. ok \in BOOLEAN
  BY Zenon
<1>5. /\ \A u \in Server : term[u] \in Nat /\ metaTerm[u] \in Nat /\ metaTerm[u] \in Nat \ {0}
      /\ Nil \notin Server
  BY Zenon, ServerAssumption DEF NodeTypes
<1>6. grants => m.term = term[p] /\ votedFor[p] = Nil
  BY Zenon
<1>7. ok => m.term = term[p] /\ votedFor'[p] = a
  BY Zenon
<1> HIDE DEF grants, ok
<1>8. NodeTypes'
  <2>1. CASE grants
    <3>1. /\ state' \in [Server -> {"follower", "candidate", "leader"}]
          /\ leaderId' \in [Server -> Server \cup {Nil}]
          /\ votedFor' \in [Server -> Server \cup {Nil}]
          /\ metaVote' \in [Server -> Server \cup {Nil}]
      <4>1. /\ state \in [Server -> {"follower", "candidate", "leader"}]
            /\ leaderId \in [Server -> Server \cup {Nil}]
            /\ votedFor \in [Server -> Server \cup {Nil}]
            /\ metaVote \in [Server -> Server \cup {Nil}]
        BY Zenon DEF NodeTypes
      <4>2. /\ state' = [state EXCEPT ![p] = "follower"]
            /\ leaderId' = [leaderId EXCEPT ![p] = Nil]
            /\ votedFor' = [votedFor EXCEPT ![p] = a]
            /\ metaVote' = [metaVote EXCEPT ![p] = a]
        BY Zenon, <1>2, <2>1
      <4> QED
        BY Zenon, <1>1, <4>1, <4>2
    <3>2. <<p, metaTerm[p], a>> \in Server \X Nat \X Server
      BY <1>1, <1>5
    <3>3. cast' \subseteq Server \X Nat \X Server
      BY SMTT(30), <1>2, <2>1, <3>2 DEF NodeTypes
    <3> QED
      BY Zenon, <1>3, <3>1, <3>3 DEF NodeTypes
  <2>2. CASE ~grants
    BY Zenon, <1>2, <1>3, <2>2 DEF NodeTypes
  <2> QED
    BY Zenon, <2>1, <2>2
<1>9. VoteInv'
  <2>1. CASE grants
    <3>1. votedFor[p] = Nil /\ metaTerm[p] = term[p] /\ metaVote[p] = Nil
      BY Zenon, <1>1, <1>5, <1>6, <2>1 DEF VoteInv, SavedOrOwn
    <3>2. cast \subseteq cast'
      BY SMTT(30), <1>2, <2>1
    <3>3. \A u \in Server : /\ state'[u] = IF u = p THEN "follower" ELSE state[u]
                            /\ votedFor'[u] = IF u = p THEN a ELSE votedFor[u]
                            /\ metaVote'[u] = IF u = p THEN a ELSE metaVote[u]
      BY <1>1, <1>2, <2>1 DEF NodeTypes
    <3>4. SavedOrOwn'
      BY <1>3, <3>1, <3>3 DEF VoteInv, SavedOrOwn
    <3>5. CastOnce'
      <4>1. metaTerm' = [metaTerm EXCEPT ![p] = metaTerm[p]]
        BY Zenon, <1>1, <1>3 DEF NodeTypes
      <4>2. /\ metaVote' = [metaVote EXCEPT ![p] = a]
            /\ cast' = cast \cup {<<p, metaTerm[p], a>>}
        BY Zenon, <1>2, <2>1
      <4>3. /\ metaTerm[p] \in Nat /\ metaTerm[p] <= metaTerm[p]
            /\ metaVote[p] \in {Nil, a} /\ CastOnce
        BY <1>1, <1>5, <3>1 DEF VoteInv
      <4> HIDE DEF p, a
      <4> QED
        BY ZenonT(60), <1>1, <4>1, <4>2, <4>3, CastOnceKept
    <3>6. ElectionsVoteForSelf'
      BY <1>1, <1>3, <1>5, <3>1, <3>3 DEF VoteInv, ElectionsVoteForSelf, NodeTypes
    <3>7. CountedIsCast'
      BY <1>3, <3>2, <3>3 DEF VoteInv, CountedIsCast, Counts
    <3>8. LeadersElected'
      <4>1. \A l \in leaders :
              IsMajority({q \in Server : <<q, l[1], l[2]>> \in cast'}, Server)
        BY Zenon, <3>2, MajorityKept DEF VoteInv
      <4> QED
        BY Zenon, <1>3, <4>1 DEF LeadersElected, VotersOf
    <3> QED
      BY Zenon, <3>4, <3>5, <3>6, <3>7, <3>8 DEF VoteInv
  <2>2. CASE ~grants
    <3>1. UNCHANGED <<state, term, votedFor, votes, metaTerm, metaVote, leaders, cast>>
      BY Zenon, <1>2, <1>3, <2>2
    <3>2. \A f \in elections' :
            /\ \E e \in elections : e.node = f.node /\ e.term = f.term
            /\ f.stage = "sent" => f.term = term[f.node]
      BY Zenon, <1>3 DEF VoteInv, ElectionsVoteForSelf
    <3> QED
      BY Zenon, <3>1, <3>2, VotesKept
  <2> QED
    BY Zenon, <2>1, <2>2
<1>10. cast \subseteq cast'
  BY Zenon, <1>2
<1>11. ok => <<p, m.term, a>> \in cast'
  <2> SUFFICES ASSUME ok PROVE <<p, term[p], a>> \in cast'
    BY Zenon, <1>7
  <2>1. votedFor'[p] = a /\ term'[p] = term[p]
    BY SMTT(30), <1>3, <1>7
  <2>2. metaTerm'[p] = term'[p] /\ metaVote'[p] = a
    BY Zenon, <1>1, <1>9, <2>1 DEF VoteInv, SavedOrOwn
  <2> QED
    BY <1>1, <1>5, <1>9, <2>1, <2>2 DEF VoteInv, CastOnce
<1>12. RpcInv'
  BY Zenon, <1>1, <1>2, <1>4, <1>5, <1>10, <1>11, AnsweredCall
<1> QED
  BY SMTT(30), <1>8, <1>9, <1>12

(* become_leader keeps the types.                                          *)
LEMMA BecomeLeaderTypes ==
  ASSUME NodeTypes, NEW s \in Server, BecomeLeader(s)
  PROVE  /\ state' \in [Server -> {"follower", "candidate", "leader"}]
         /\ leaderId' \in [Server -> Server \cup {Nil}]
         /\ groupTerm' \in [Server -> Nat]
         /\ replicators' \in [Server -> [Server -> [term : Nat, alive : BOOLEAN]]]
         /\ leaders' \subseteq Nat \X Server
<1> DEFINE R == [term : Nat, alive : BOOLEAN]
           new == [p \in Server |->
                     IF p = s \/ replicators[s][p] # NoReplicator THEN replicators[s][p]
                     ELSE [term |-> groupTerm'[s], alive |-> TRUE]]
<1>1. /\ state' \in [Server -> {"follower", "candidate", "leader"}]
      /\ leaderId' \in [Server -> Server \cup {Nil}]
      /\ groupTerm' \in [Server -> Nat]
      /\ leaders' \subseteq Nat \X Server
  BY DEF BecomeLeader, NodeTypes
<1>2. replicators \in [Server -> [Server -> R]]
  BY Zenon DEF NodeTypes
<1>3. [term |-> groupTerm'[s], alive |-> TRUE] \in R
  BY Zenon, <1>1
<1>4. replicators' = [replicators EXCEPT ![s] = new]
  BY Zenon DEF BecomeLeader
<1> HIDE DEF R
<1>5. new \in [Server -> R]
  BY Zenon, <1>2, <1>3
<1> HIDE DEF new
<1>6. replicators' \in [Server -> [Server -> R]]
  BY Zenon, <1>2, <1>4, <1>5
<1> QED
  BY Zenon, <1>1, <1>6 DEF R

(* A step in which the elections, the votes, the calls and the leaders     *)
(* stay as they are.                                                       *)
LEMMA ElectionsKept ==
  ASSUME VoteInv, elections' = elections,
         UNCHANGED <<state, term, votedFor, votes, metaTerm, metaVote, leaders, cast>>
  PROVE  VoteInv'
<1>1. \A f \in elections' :
        /\ \E e \in elections : e.node = f.node /\ e.term = f.term
        /\ f.stage = "sent" => f.term = term[f.node]
  BY Zenon DEF VoteInv, ElectionsVoteForSelf
<1> QED
  BY Zenon, <1>1, VotesKept

-----------------------------------------------------------------------------

(* handle_request_vote_response: a granted vote of this term is counted    *)
(* for the peer that cast it.                                              *)
LEMMA HandleRequestVoteResponseKeeps ==
  ASSUME VoteInv, RpcInv, NodeTypes, NEW m \in rpcs, HandleRequestVoteResponse(m)
  PROVE  VoteInv' /\ RpcInv' /\ NodeTypes'
<1> DEFINE s == m.from
           b == BallotGrant(votes[s], m.to)
           stale == state[s] # "candidate" \/ m.term # term[s]
<1>1. /\ m.to \in Server /\ s \in Server /\ m.reply \in Nat /\ m.kind = "vote"
      /\ m.stage = "response" /\ Unlocked(s) /\ rpcs' = rpcs \ {m}
  BY Zenon DEF RpcInv, RpcType, HandleRequestVoteResponse, Replied, Waiting
<1>2. /\ prevotes' = prevotes /\ lastId' = lastId /\ elections' = elections
      /\ incarnation' = incarnation /\ cast' = cast
  BY Zenon DEF HandleRequestVoteResponse
<1>3. RpcInv'
  BY Zenon, <1>1, <1>2, FewerCalls
<1>4. term[s] \in Nat \ {0} /\ votes \in [Server -> BallotOf(Server, {})]
  BY Zenon, <1>1 DEF NodeTypes
<1>5. \/ UNCHANGED <<nodeVars, votes, metaVars, leaderVars>>
      \/ /\ m.reply > term[s] /\ StepDown(s, m.reply, Nil)
         /\ UNCHANGED <<votes, leaderVars>>
      \/ /\ state[s] = "candidate" /\ m.term = term[s] /\ m.ok
         /\ votes' = [votes EXCEPT ![s] = b]
         /\ UNCHANGED <<term, votedFor, metaVars>>
         /\ IF BallotGranted(b) THEN BecomeLeader(s)
            ELSE UNCHANGED <<state, leaderId, leaderVars>>
  BY Zenon DEF HandleRequestVoteResponse
<1>6. CASE UNCHANGED <<nodeVars, votes, metaVars, leaderVars>>
  <2>1. VoteInv'
    BY Zenon, <1>2, <1>6, ElectionsKept DEF nodeVars, metaVars, leaderVars
  <2>2. NodeTypes'
    BY Zenon, <1>2, <1>6 DEF NodeTypes, nodeVars, metaVars, leaderVars
  <2> QED
    BY Zenon, <1>3, <2>1, <2>2
<1>7. CASE m.reply > term[s] /\ StepDown(s, m.reply, Nil) /\ UNCHANGED <<votes, leaderVars>>
  <2>1. m.reply \in Nat \ {0} /\ Nil \in Server \cup {Nil}
    BY <1>1, <1>4, <1>7
  <2>2. /\ VoteInv'
        /\ state' \in [Server -> {"follower", "candidate", "leader"}]
        /\ term' \in [Server -> Nat \ {0}] /\ metaTerm' \in [Server -> Nat \ {0}]
        /\ votedFor' \in [Server -> Server \cup {Nil}]
        /\ metaVote' \in [Server -> Server \cup {Nil}]
        /\ leaderId' \in [Server -> Server \cup {Nil}]
    BY Zenon, <1>1, <1>2, <1>7, <2>1, StepDownKeeps DEF leaderVars
  <2>3. NodeTypes'
    BY Zenon, <1>2, <1>7, <2>2 DEF NodeTypes, leaderVars
  <2> QED
    BY Zenon, <1>3, <2>2, <2>3
<1>8. CASE /\ state[s] = "candidate" /\ m.term = term[s] /\ m.ok
           /\ votes' = [votes EXCEPT ![s] = b]
           /\ UNCHANGED <<term, votedFor, metaVars>>
           /\ IF BallotGranted(b) THEN BecomeLeader(s)
              ELSE UNCHANGED <<state, leaderId, leaderVars>>
  <2>1. <<m.to, term[s], s>> \in cast
    BY Zenon, <1>1, <1>8 DEF RpcInv, GrantedIsSaved, Waiting
  <2>2. IsFiniteSet(Server) /\ IsFiniteSet({})
    BY Zenon, ServerAssumption, FS_EmptySet
  <2>3. /\ b \in BallotOf(Server, {}) /\ WellCounted(b)
        /\ b.found = votes[s].found \cup ({m.to} \cap Server)
    BY <1>1, <1>4, <2>2, BallotGrantCounted DEF VoteInv, CountedIsCast
  <2>4. \A p \in b.found : <<p, term[s], s>> \in cast
    BY Zenon, <1>1, <1>8, <2>1, <2>3 DEF VoteInv, CountedIsCast, Counts
  <2> HIDE DEF b
  <2>5. votes' \in [Server -> BallotOf(Server, {})]
    BY Zenon, <1>4, <1>8, <2>3
  <2>6. \A u \in Server : votes'[u] = IF u = s THEN b ELSE votes[u]
    BY Zenon, <1>1, <1>4, <1>8
  <2>7. /\ term' = term /\ votedFor' = votedFor /\ metaTerm' = metaTerm
        /\ metaVote' = metaVote
    BY Zenon, <1>8 DEF metaVars
  <2>8. \A u \in Server \ {s} : state'[u] = state[u]
    BY <1>8 DEF BecomeLeader, NodeTypes
  <2>9. NodeTypes'
    <3>1. CASE BallotGranted(b)
      BY SMTT(30), <1>1, <1>2, <1>8, <2>5, <2>7, <3>1, BecomeLeaderTypes DEF NodeTypes
    <3>2. CASE ~BallotGranted(b)
      BY <1>2, <1>8, <2>5, <2>7, <3>2 DEF NodeTypes, leaderVars
    <3> QED
      BY Zenon, <3>1, <3>2
  <2>10. SavedOrOwn' /\ CastOnce' /\ ElectionsVoteForSelf'
    BY Zenon, <1>2, <2>7 DEF VoteInv, SavedOrOwn, CastOnce, ElectionsVoteForSelf
  <2>11. CountedIsCast'
    <3> SUFFICES ASSUME NEW u \in Server
                 PROVE  /\ WellCounted(votes'[u])
                        /\ Counts(u)' => \A p \in votes'[u].found : <<p, term[u], u>> \in cast
      BY Zenon, <1>2, <2>7 DEF CountedIsCast
    <3>1. CASE u = s
      BY Zenon, <2>3, <2>4, <2>6, <3>1
    <3>2. CASE u # s
      BY Zenon, <1>2, <2>6, <2>7, <2>8, <3>2 DEF VoteInv, CountedIsCast, Counts
    <3> QED
      BY Zenon, <3>1, <3>2
  <2>12. LeadersElected'
    <3>1. CASE BallotGranted(b)
      <4>1. leaders' = leaders \cup {<<term[s], s>>}
        BY Zenon, <1>8, <3>1 DEF BecomeLeader
      <4>2. IsMajority({p \in Server : <<p, term[s], s>> \in cast'}, Server)
        <5>1. \A p \in b.found : <<p, term[s], s>> \in cast'
          BY Zenon, <1>2, <2>4
        <5>2. b \in BallotOf(Server, {}) /\ WellCounted(b) /\ BallotGranted(b)
          BY Zenon, <2>3, <3>1
        <5> QED
          BY ZenonT(60), <1>1, <5>1, <5>2, GrantedElects
      <4> QED
        BY Zenon, <1>1, <1>2, <4>1, <4>2, LeaderAdded DEF VoteInv
    <3>2. CASE ~BallotGranted(b)
      BY Zenon, <1>2, <1>8, <3>2 DEF VoteInv, LeadersElected, VotersOf, leaderVars
    <3> QED
      BY Zenon, <3>1, <3>2
  <2> QED
    BY Zenon, <1>3, <2>9, <2>10, <2>11, <2>12 DEF VoteInv
<1> QED
  BY Zenon, <1>5, <1>6, <1>7, <1>8

(* A restart: what init_meta_storage reads back is consistent with every   *)
(* vote the server has ever given away.                                    *)
LEMMA RestartKeeps ==
  ASSUME VoteInv, RpcInv, NodeTypes, NEW s \in Server, Restart(s)
  PROVE  VoteInv' /\ RpcInv' /\ NodeTypes'
<1>1. Conf \in BallotOf(Server, {}) /\ WellCounted(Conf) /\ Conf.found = {}
  <2>1. IsFiniteSet(Server) /\ IsFiniteSet({})
    BY Zenon, ServerAssumption, FS_EmptySet
  <2> QED
    BY Zenon, <2>1, BallotInitCounted DEF Conf, BallotInit
<1>2. /\ metaTerm' = metaTerm /\ metaVote' = metaVote /\ lastId' = lastId
      /\ leaders' = leaders /\ cast' = cast
      /\ elections' = {e \in elections : e.node # s} /\ rpcs' \subseteq rpcs
  BY Zenon DEF Restart, InitMetaStorage, metaVars
<1>3. \A u \in Server : /\ state'[u] = IF u = s THEN "follower" ELSE state[u]
                        /\ term'[u] = IF u = s THEN metaTerm[s] ELSE term[u]
                        /\ votedFor'[u] = IF u = s THEN metaVote[s] ELSE votedFor[u]
                        /\ votes'[u] = IF u = s THEN Conf ELSE votes[u]
  BY Zenon DEF Restart, InitMetaStorage, NodeTypes
<1>4. RpcInv'
  BY Zenon, <1>2, FewerCalls
<1>5. NodeTypes'
  <2>1. /\ state' \in [Server -> {"follower", "candidate", "leader"}]
        /\ term' \in [Server -> Nat \ {0}]
        /\ votedFor' \in [Server -> Server \cup {Nil}]
        /\ leaderId' \in [Server -> Server \cup {Nil}]
        /\ groupTerm' \in [Server -> Nat] /\ incarnation' \in [Server -> Nat]
    BY DEF Restart, InitMetaStorage, NodeTypes
  <2>2. /\ prevotes' \in [Server -> BallotOf(Server, {})]
        /\ votes' \in [Server -> BallotOf(Server, {})]
    BY Zenon, <1>1 DEF Restart, InitMetaStorage, NodeTypes
  <2>3. replicators' \in [Server -> [Server -> [term : Nat, alive : BOOLEAN]]]
    <3> DEFINE R == [term : Nat, alive : BOOLEAN]
    <3>1. NoReplicator \in R
      BY Zenon DEF NoReplicator
    <3>2. /\ replicators \in [Server -> [Server -> R]]
          /\ replicators' = [replicators EXCEPT ![s] = [p \in Server |-> NoReplicator]]
      BY Zenon DEF NodeTypes, Restart, InitMetaStorage
    <3> HIDE DEF R
    <3>3. replicators' \in [Server -> [Server -> R]]
      BY Zenon, <3>1, <3>2
    <3> QED
      BY Zenon, <3>3 DEF R
  <2> QED
    BY Zenon, <1>2, <2>1, <2>2, <2>3 DEF NodeTypes
<1>6. SavedOrOwn' /\ CastOnce'
  BY <1>2, <1>3 DEF VoteInv, SavedOrOwn, CastOnce
<1>7. ElectionsVoteForSelf'
  BY <1>2, <1>3 DEF VoteInv, ElectionsVoteForSelf, NodeTypes
<1>8. CountedIsCast'
  <2> SUFFICES ASSUME NEW u \in Server
               PROVE  /\ WellCounted(votes'[u])
                      /\ Counts(u)' => \A p \in votes'[u].found : <<p, term'[u], u>> \in cast
    BY Zenon, <1>2 DEF CountedIsCast
  <2>1. CASE u = s
    BY Zenon, <1>1, <1>3, <2>1
  <2>2. CASE u # s
    BY <1>2, <1>3, <2>2 DEF VoteInv, CountedIsCast, Counts
  <2> QED
    BY Zenon, <2>1, <2>2
<1>9. LeadersElected'
  BY Zenon, <1>2 DEF VoteInv, LeadersElected, VotersOf
<1> QED
  BY Zenon, <1>4, <1>5, <1>6, <1>7, <1>8, <1>9 DEF VoteInv

-----------------------------------------------------------------------------
(* prevote asks the others, if this server is one that asks.               *)
LEMMA PreVoteKeeps ==
  ASSUME RpcInv, NodeTypes, NEW s \in Server, PreVote(s, rpcs), cast' = cast
  PROVE  RpcInv' /\ prevotes' \in [Server -> BallotOf(Server, {})]
<1>1. CASE s \in Electable
  <2>1. /\ prevotes' = [prevotes EXCEPT ![s] = BallotGrant(Conf, s)]
        /\ rpcs' = rpcs \cup CallsToOthers("prevote", s, term[s] + 1, lastId[s])
    BY Zenon, <1>1 DEF PreVote
  <2>2. IsFiniteSet(Server) /\ IsFiniteSet({})
    BY Zenon, ServerAssumption, FS_EmptySet
  <2>3. BallotGrant(Conf, s) \in BallotOf(Server, {})
    BY Zenon, <2>2, BallotInitCounted, BallotGrantCounted DEF Conf
  <2>4. prevotes' \in [Server -> BallotOf(Server, {})]
    BY Zenon, <2>1, <2>3 DEF NodeTypes
  <2>5. term[s] + 1 \in Nat /\ lastId[s] \in LogId
    BY DEF NodeTypes
  <2>6. \A m \in CallsToOthers("prevote", s, term[s] + 1, lastId[s]) :
          m \in RpcType /\ m.stage = "request" /\ m.from # m.to
    BY <2>5, CallsToOthersType
  <2> QED
    BY Zenon, <2>1, <2>4, <2>6, MoreCalls
<1>2. CASE s \notin Electable
  BY Zenon, <1>2, FewerCalls DEF PreVote, NodeTypes
<1> QED
  BY Zenon, <1>1, <1>2

(* The timers keep the invariant.                                          *)
LEMMA TimeoutKeeps ==
  ASSUME VoteInv, RpcInv, NodeTypes, NEW s \in Server,
         HandleElectionTimeout(s) \/ HandleVoteTimeout(s)
  PROVE  VoteInv' /\ RpcInv' /\ NodeTypes'
<1>1. CASE HandleElectionTimeout(s)
  <2>1. /\ UNCHANGED <<state, term, votedFor, votes, metaVars, lastId, elections,
                       leaderVars, incarnation, cast>>
        /\ PreVote(s, rpcs) /\ leaderId' = [leaderId EXCEPT ![s] = Nil]
    BY Zenon, <1>1 DEF HandleElectionTimeout
  <2>2. RpcInv' /\ prevotes' \in [Server -> BallotOf(Server, {})]
    BY Zenon, <2>1, PreVoteKeeps
  <2>3. VoteInv'
    BY Zenon, <2>1, ElectionsKept DEF metaVars, leaderVars
  <2>4. NodeTypes'
    BY Zenon, <2>1, <2>2 DEF NodeTypes, metaVars, leaderVars
  <2> QED
    BY Zenon, <2>2, <2>3, <2>4
<1>2. CASE /\ HandleVoteTimeout(s) /\ StepDown(s, term[s], Nil)
           /\ PreVote(s, rpcs) /\ UNCHANGED <<votes, elections>>
  <2>1. /\ StepDown(s, term[s], Nil) /\ PreVote(s, rpcs) /\ Unlocked(s)
        /\ UNCHANGED <<votes, elections, lastId, leaderVars, incarnation, cast>>
    BY Zenon, <1>2 DEF HandleVoteTimeout
  <2>2. RpcInv' /\ prevotes' \in [Server -> BallotOf(Server, {})]
    BY Zenon, <2>1, PreVoteKeeps
  <2>3. term[s] \in Nat \ {0} /\ Nil \in Server \cup {Nil}
    BY Zenon DEF NodeTypes
  <2>4. /\ VoteInv'
        /\ state' \in [Server -> {"follower", "candidate", "leader"}]
        /\ term' \in [Server -> Nat \ {0}] /\ metaTerm' \in [Server -> Nat \ {0}]
        /\ votedFor' \in [Server -> Server \cup {Nil}]
        /\ metaVote' \in [Server -> Server \cup {Nil}]
        /\ leaderId' \in [Server -> Server \cup {Nil}]
    BY SMTT(30), <2>1, <2>3, StepDownKeeps DEF leaderVars
  <2>5. NodeTypes'
    BY Zenon, <2>1, <2>2, <2>4 DEF NodeTypes, leaderVars
  <2> QED
    BY Zenon, <2>2, <2>4, <2>5
<1>3. CASE /\ HandleVoteTimeout(s) /\ ElectSelf(s)
           /\ UNCHANGED <<prevotes, metaVars, rpcs>>
  <2>1. /\ ElectSelf(s) /\ Unlocked(s)
        /\ UNCHANGED <<prevotes, metaVars, rpcs, lastId, leaderVars, incarnation, cast>>
    BY Zenon, <1>3 DEF HandleVoteTimeout
  <2>2. /\ VoteInv'
        /\ state' \in [Server -> {"follower", "candidate", "leader"}]
        /\ term' \in [Server -> Nat \ {0}]
        /\ votedFor' \in [Server -> Server \cup {Nil}]
        /\ leaderId' \in [Server -> Server \cup {Nil}]
        /\ votes' \in [Server -> BallotOf(Server, {})]
        /\ elections' \subseteq [node : Server, term : Nat \ {0}, id : LogId,
                                 stage : {"window", "read", "sent"}]
    BY Zenon, <2>1, ElectSelfKeeps DEF metaVars, leaderVars
  <2>3. RpcInv'
    BY Zenon, <2>1, FewerCalls
  <2>4. NodeTypes'
    BY Zenon, <2>1, <2>2 DEF NodeTypes, metaVars, leaderVars
  <2> QED
    BY SMTT(30), <2>2, <2>3, <2>4
<1> QED
  BY Zenon, <1>1, <1>2, <1>3 DEF HandleVoteTimeout

(* The handlers that only answer a call or move it on keep the invariant,  *)
(* as does the loss of a call.                                             *)
LEMMA CallStepKeeps ==
  ASSUME VoteInv, RpcInv, NodeTypes, NEW m \in rpcs,
         HandlePreVote(m) \/ ReadLastLogId(m) \/ FinishPreVote(m) \/ FailCall(m)
  PROVE  VoteInv' /\ RpcInv' /\ NodeTypes'
<1>1. UNCHANGED <<nodeVars, countVars, metaVars, lastId, elections, leaderVars,
                  incarnation, cast>>
  BY Zenon DEF HandlePreVote, ReadLastLogId, FinishPreVote, FailCall
<1>2. VoteInv' /\ NodeTypes'
  <2>1. VoteInv'
    BY Zenon, <1>1, ElectionsKept DEF nodeVars, countVars, metaVars, leaderVars
  <2>2. NodeTypes'
    BY Zenon, <1>1 DEF NodeTypes, nodeVars, countVars, metaVars, leaderVars
  <2> QED
    BY Zenon, <2>1, <2>2
<1>3. m \in RpcType /\ m.to \in Server
  BY Zenon DEF RpcInv, RpcType
<1>4. term[m.to] \in Nat /\ lastId[m.to] \in LogId
  BY Zenon, <1>3 DEF NodeTypes
<1>5. CASE HandlePreVote(m)
  <2>1. CASE Answer(m, term[m.to], FALSE)
    BY Zenon, <1>1, <1>2, <1>4, <2>1, AnsweredCall
  <2>2. CASE MoveTo(m, "window")
    <3> DEFINE a == [m EXCEPT !.stage = "window"]
    <3>1. /\ a \in RpcType /\ a.kind = m.kind /\ a.from = m.from /\ a.to = m.to
          /\ a.stage # "response"
      BY Zenon, <1>3 DEF RpcType
    <3>2. rpcs' = (rpcs \ {m}) \cup {a}
      BY Zenon, <2>2 DEF MoveTo
    <3> QED
      BY Zenon, <1>1, <1>2, <3>1, <3>2, MovedCall
  <2> QED
    BY Zenon, <1>2, <1>5, <2>1, <2>2 DEF HandlePreVote
<1>6. CASE ReadLastLogId(m)
  <2> DEFINE a == [m EXCEPT !.stage = "read", !.seen = lastId[m.to]]
  <2>1. /\ a \in RpcType /\ a.kind = m.kind /\ a.from = m.from /\ a.to = m.to
        /\ a.stage # "response"
    BY Zenon, <1>3, <1>4 DEF RpcType
  <2>2. rpcs' = (rpcs \ {m}) \cup {a}
    BY Zenon, <1>6 DEF ReadLastLogId
  <2> HIDE DEF a
  <2> QED
    BY Zenon, <1>1, <1>2, <2>1, <2>2, MovedCall
<1>7. CASE FinishPreVote(m)
  <2> DEFINE ok == NotOlder(m.id, m.seen)
  <2>1. Answer(m, term[m.to], ok) /\ m.kind = "prevote"
    BY Zenon, <1>7 DEF FinishPreVote, Waiting
  <2>2. ok \in BOOLEAN
    BY Zenon DEF NotOlder
  <2> HIDE DEF ok
  <2> QED
    <3>1. m.kind = "vote" /\ ok => <<m.to, m.term, m.from>> \in cast'
      BY Zenon, <2>1
    <3>2. cast \subseteq cast'
      BY Zenon, <1>1
    <3>3. RpcInv'
      BY Zenon, <1>4, <2>1, <2>2, <3>1, <3>2, AnsweredCall
    <3> QED
      BY Zenon, <1>2, <3>3
<1>8. CASE FailCall(m)
  BY Zenon, <1>1, <1>2, <1>8, FewerCalls DEF FailCall
<1> QED
  BY Zenon, <1>5, <1>6, <1>7, <1>8

(* A step in which server s steps down to t and the rest of the state, but *)
(* for the calls, the log and the replicators, stays as it is.             *)
LEMMA SteppedDown ==
  ASSUME VoteInv, NodeTypes, NEW s \in Server, NEW t \in Nat \ {0},
         NEW l \in Server \cup {Nil}, StepDown(s, t, l), Unlocked(s),
         UNCHANGED <<countVars, elections, groupTerm, leaders, incarnation, cast>>,
         lastId' \in [Server -> LogId],
         replicators' \in [Server -> [Server -> [term : Nat, alive : BOOLEAN]]]
  PROVE  VoteInv' /\ NodeTypes'
<1>1. prevotes' = prevotes /\ votes' = votes
  BY Zenon DEF countVars
<1>2. /\ VoteInv'
      /\ state' \in [Server -> {"follower", "candidate", "leader"}]
      /\ term' \in [Server -> Nat \ {0}] /\ metaTerm' \in [Server -> Nat \ {0}]
      /\ votedFor' \in [Server -> Server \cup {Nil}]
      /\ metaVote' \in [Server -> Server \cup {Nil}]
      /\ leaderId' \in [Server -> Server \cup {Nil}]
  BY Zenon, <1>1, StepDownKeeps
<1>3. NodeTypes'
  BY Zenon, <1>1, <1>2 DEF NodeTypes
<1> QED
  BY Zenon, <1>2, <1>3

(* handle_pre_vote_response keeps the invariant.                           *)
LEMMA HandlePreVoteResponseKeeps ==
  ASSUME VoteInv, RpcInv, NodeTypes, NEW m \in rpcs, HandlePreVoteResponse(m)
  PROVE  VoteInv' /\ RpcInv' /\ NodeTypes'
<1> DEFINE s == m.from
           b == BallotGrant(prevotes[s], m.to)
<1>1. /\ m.to \in Server /\ s \in Server /\ m.reply \in Nat
      /\ Unlocked(s) /\ rpcs' = rpcs \ {m}
  BY Zenon DEF RpcInv, RpcType, HandlePreVoteResponse, Replied, Waiting
<1>2. UNCHANGED <<lastId, leaderVars, incarnation, cast>>
  BY Zenon DEF HandlePreVoteResponse
<1>3. RpcInv'
  BY Zenon, <1>1, <1>2, FewerCalls
<1>4. /\ term[s] \in Nat \ {0} /\ prevotes \in [Server -> BallotOf(Server, {})]
      /\ lastId \in [Server -> LogId]
      /\ replicators \in [Server -> [Server -> [term : Nat, alive : BOOLEAN]]]
  BY SMTT(30), <1>1 DEF NodeTypes
<1>5. \/ UNCHANGED <<nodeVars, countVars, metaVars, elections>>
      \/ /\ m.reply > term[s] /\ StepDown(s, m.reply, Nil)
         /\ UNCHANGED <<countVars, elections>>
      \/ /\ prevotes' = [prevotes EXCEPT ![s] = b]
         /\ UNCHANGED metaVars
         /\ ElectSelf(s) \/ UNCHANGED <<nodeVars, votes, elections>>
  BY Zenon DEF HandlePreVoteResponse
<1>6. CASE UNCHANGED <<nodeVars, countVars, metaVars, elections>>
  <2>1. VoteInv'
    BY Zenon, <1>2, <1>6, ElectionsKept DEF nodeVars, countVars, metaVars, leaderVars
  <2>2. NodeTypes'
    BY Zenon, <1>2, <1>6 DEF NodeTypes, nodeVars, countVars, metaVars, leaderVars
  <2> QED
    BY Zenon, <1>3, <2>1, <2>2
<1>7. CASE m.reply > term[s] /\ StepDown(s, m.reply, Nil) /\ UNCHANGED <<countVars, elections>>
  <2>1. m.reply \in Nat \ {0} /\ Nil \in Server \cup {Nil}
    BY <1>1, <1>4, <1>7
  <2> QED
    BY Zenon, <1>1, <1>2, <1>3, <1>4, <1>7, <2>1, SteppedDown DEF leaderVars
<1>8. CASE /\ prevotes' = [prevotes EXCEPT ![s] = b] /\ UNCHANGED metaVars
           /\ ElectSelf(s) \/ UNCHANGED <<nodeVars, votes, elections>>
  <2>1. b \in BallotOf(Server, {})
    BY Zenon, <1>1, <1>4, BallotGrantType
  <2> HIDE DEF b
  <2>2. prevotes' \in [Server -> BallotOf(Server, {})]
    BY Zenon, <1>4, <1>8, <2>1
  <2>3. CASE ElectSelf(s)
    <3>1. /\ VoteInv'
          /\ state' \in [Server -> {"follower", "candidate", "leader"}]
          /\ term' \in [Server -> Nat \ {0}]
          /\ votedFor' \in [Server -> Server \cup {Nil}]
          /\ leaderId' \in [Server -> Server \cup {Nil}]
          /\ votes' \in [Server -> BallotOf(Server, {})]
          /\ elections' \subseteq [node : Server, term : Nat \ {0}, id : LogId,
                                   stage : {"window", "read", "sent"}]
      BY SMTT(30), <1>1, <1>2, <1>8, <2>3, ElectSelfKeeps DEF metaVars, leaderVars
    <3>2. NodeTypes'
      BY SMTT(30), <1>2, <1>8, <2>2, <3>1 DEF NodeTypes, metaVars, leaderVars
    <3> QED
      BY SMTT(30), <1>3, <3>1, <3>2
  <2>4. CASE UNCHANGED <<nodeVars, votes, elections>>
    <3>1. VoteInv'
      BY SMTT(30), <1>2, <1>8, <2>4, ElectionsKept DEF nodeVars, metaVars, leaderVars
    <3>2. NodeTypes'
      BY Zenon, <1>2, <1>8, <2>2, <2>4 DEF NodeTypes, nodeVars, metaVars, leaderVars
    <3> QED
      BY Zenon, <1>3, <3>1, <3>2
  <2> QED
    BY Zenon, <1>8, <2>3, <2>4
<1> QED
  BY Zenon, <1>5, <1>6, <1>7, <1>8

(* elect_self after the unlock keeps the invariant.                        *)
LEMMA ElectionStepKeeps ==
  ASSUME VoteInv, RpcInv, NodeTypes, NEW e \in elections,
         ReadOwnLastLogId(e) \/ SendRequestVotes(e) \/ SaveOwnVote(e)
  PROVE  VoteInv' /\ RpcInv' /\ NodeTypes'
<1> DEFINE E == [node : Server, term : Nat \ {0}, id : LogId,
                 stage : {"window", "read", "sent"}]
<1>1. /\ e \in E /\ e.node \in Server /\ elections \subseteq E /\ e.id \in LogId
      /\ lastId[e.node] \in LogId /\ e.term \in Nat
  BY Zenon DEF NodeTypes
<1>2. CASE ReadOwnLastLogId(e)
  <2> DEFINE a == [e EXCEPT !.stage = "read", !.id = lastId[e.node]]
  <2>1. a \in E /\ a.node = e.node /\ a.term = e.term /\ a.stage = "read"
    BY Zenon, <1>1
  <2>2. /\ elections' = (elections \ {e}) \cup {a}
        /\ UNCHANGED <<nodeVars, countVars, metaVars, lastId, leaderVars, rpcs,
                       incarnation, cast>>
    BY Zenon, <1>2 DEF ReadOwnLastLogId
  <2> HIDE DEF a
  <2>3. VoteInv'
    <3>1. \A f \in elections' :
            /\ \E d \in elections : d.node = f.node /\ d.term = f.term
            /\ f.stage = "sent" => f.term = term[f.node]
      BY Zenon, <2>1, <2>2 DEF VoteInv, ElectionsVoteForSelf
    <3> QED
      BY Zenon, <2>2, <3>1, VotesKept DEF nodeVars, countVars, metaVars, leaderVars
  <2>4. RpcInv'
    BY Zenon, <2>2, FewerCalls
  <2>5. elections' \subseteq E
    BY Zenon, <1>1, <2>1, <2>2
  <2>6. NodeTypes'
    BY Zenon, <2>2, <2>5 DEF NodeTypes, nodeVars, countVars, metaVars, leaderVars
  <2> QED
    BY Zenon, <2>3, <2>4, <2>6
<1>3. CASE SendRequestVotes(e)
  <2> DEFINE a == [e EXCEPT !.stage = "sent"]
             new == CallsToOthers("vote", e.node, e.term, e.id)
  <2>1. a \in E /\ a.node = e.node /\ a.term = e.term
    BY Zenon, <1>1
  <2>2. /\ \/ /\ e.term = term[e.node] /\ elections' = (elections \ {e}) \cup {a}
              /\ rpcs' = rpcs \cup new
           \/ elections' = elections \ {e} /\ rpcs' = rpcs
        /\ UNCHANGED <<nodeVars, countVars, metaVars, lastId, leaderVars,
                       incarnation, cast>>
    BY Zenon, <1>3 DEF SendRequestVotes
  <2>3. \A m \in new : m \in RpcType /\ m.stage = "request" /\ m.from # m.to
    BY <1>1, CallsToOthersType
  <2> HIDE DEF a, new
  <2>4. VoteInv'
    <3>1. \A f \in elections' :
            /\ \E d \in elections : d.node = f.node /\ d.term = f.term
            /\ f.stage = "sent" => f.term = term[f.node]
      BY <2>1, <2>2 DEF VoteInv, ElectionsVoteForSelf
    <3> QED
      BY Zenon, <2>2, <3>1, VotesKept DEF nodeVars, countVars, metaVars, leaderVars
  <2>5. RpcInv'
    BY SMTT(30), <2>2, <2>3, FewerCalls, MoreCalls
  <2>6. elections' \subseteq E
    BY SMTT(30), <1>1, <2>1, <2>2
  <2>7. NodeTypes'
    BY Zenon, <2>2, <2>6 DEF NodeTypes, nodeVars, countVars, metaVars, leaderVars
  <2> QED
    BY Zenon, <2>4, <2>5, <2>7
<1>4. CASE SaveOwnVote(e)
  <2>1. /\ elections' = elections \ {e}
        /\ metaTerm' = [metaTerm EXCEPT ![e.node] = term[e.node]]
        /\ metaVote' = [metaVote EXCEPT ![e.node] = e.node]
        /\ cast' = cast \cup {<<e.node, term[e.node], e.node>>}
        /\ BecomeLeader(e.node) \/ UNCHANGED <<state, leaderId, leaderVars>>
        /\ UNCHANGED <<term, votedFor, prevotes, lastId, rpcs, incarnation>>
    BY Zenon, <1>4 DEF SaveOwnVote
  <2>2. VoteInv' /\ votes' \in [Server -> BallotOf(Server, {})]
    BY SMTT(30), <1>4, SaveOwnVoteKeeps
  <2>3. RpcInv'
    BY SMTT(30), <2>1, FewerCalls
  <2>4. /\ state' \in [Server -> {"follower", "candidate", "leader"}]
        /\ leaderId' \in [Server -> Server \cup {Nil}]
        /\ groupTerm' \in [Server -> Nat]
        /\ replicators' \in [Server -> [Server -> [term : Nat, alive : BOOLEAN]]]
        /\ leaders' \subseteq Nat \X Server
    <3>1. CASE BecomeLeader(e.node)
      BY Zenon, <1>1, <3>1, BecomeLeaderTypes
    <3>2. CASE UNCHANGED <<state, leaderId, leaderVars>>
      BY Zenon, <3>2 DEF NodeTypes, leaderVars
    <3> QED
      BY Zenon, <2>1, <3>1, <3>2
  <2>5. /\ metaTerm' \in [Server -> Nat \ {0}] /\ metaVote' \in [Server -> Server \cup {Nil}]
        /\ elections' \subseteq E
    BY Zenon, <1>1, <2>1 DEF NodeTypes
  <2>6. cast' \subseteq Server \X Nat \X Server
    <3>1. <<e.node, term[e.node], e.node>> \in Server \X Nat \X Server
      BY <1>1 DEF NodeTypes
    <3> QED
      BY Zenon, <2>1, <3>1 DEF NodeTypes
  <2>7. NodeTypes'
    BY SMTT(30), <2>1, <2>2, <2>4, <2>5, <2>6 DEF NodeTypes
  <2> QED
    BY SMTT(30), <2>2, <2>3, <2>7
<1> QED
  BY Zenon, <1>2, <1>3, <1>4

(* handle_request_vote up to the unlock keeps the invariant.               *)
LEMMA HandleRequestVoteKeeps ==
  ASSUME VoteInv, RpcInv, NodeTypes, NEW m \in rpcs, HandleRequestVote(m)
  PROVE  VoteInv' /\ RpcInv' /\ NodeTypes'
<1>1. /\ m \in RpcType /\ m.to \in Server /\ m.term \in Nat /\ Unlocked(m.to)
  BY Zenon DEF RpcInv, RpcType, HandleRequestVote
<1>2. UNCHANGED <<countVars, lastId, elections, leaderVars, incarnation, cast>>
  BY Zenon DEF HandleRequestVote
<1>3. /\ term[m.to] \in Nat \ {0} /\ lastId \in [Server -> LogId]
      /\ replicators \in [Server -> [Server -> [term : Nat, alive : BOOLEAN]]]
  BY Zenon, <1>1 DEF NodeTypes
<1>4. RpcInv'
  <2> DEFINE a == [m EXCEPT !.stage = "window"]
  <2>1. CASE Answer(m, term[m.to], FALSE)
    BY Zenon, <1>2, <1>3, <2>1, AnsweredCall
  <2>2. CASE MoveTo(m, "window")
    <3>1. /\ a \in RpcType /\ a.kind = m.kind /\ a.from = m.from /\ a.to = m.to
          /\ a.stage # "response"
      BY Zenon, <1>1 DEF RpcType
    <3>2. rpcs' = (rpcs \ {m}) \cup {a}
      BY Zenon, <2>2 DEF MoveTo
    <3> QED
      BY Zenon, <1>2, <3>1, <3>2, MovedCall
  <2> QED
    BY Zenon, <2>1, <2>2 DEF HandleRequestVote
<1>5. \/ UNCHANGED <<nodeVars, metaVars>>
      \/ m.term > term[m.to] /\ StepDown(m.to, m.term, Nil)
  BY Zenon DEF HandleRequestVote
<1>6. CASE UNCHANGED <<nodeVars, metaVars>>
  <2>1. VoteInv'
    BY Zenon, <1>2, <1>6, ElectionsKept DEF nodeVars, countVars, metaVars, leaderVars
  <2>2. NodeTypes'
    BY Zenon, <1>2, <1>6 DEF NodeTypes, nodeVars, countVars, metaVars, leaderVars
  <2> QED
    BY Zenon, <1>4, <2>1, <2>2
<1>7. CASE m.term > term[m.to] /\ StepDown(m.to, m.term, Nil)
  <2>1. m.term \in Nat \ {0} /\ Nil \in Server \cup {Nil}
    BY <1>1, <1>3, <1>7
  <2> QED
    BY Zenon, <1>1, <1>2, <1>3, <1>4, <1>7, <2>1, SteppedDown DEF leaderVars
<1> QED
  BY Zenon, <1>5, <1>6, <1>7

(* A leader's appends and the calls of its replicators keep the invariant. *)
LEMMA LeaderStepKeeps ==
  ASSUME VoteInv, RpcInv, NodeTypes, NEW s \in Server,
         ClientAppend(s) \/ \E p \in Server : SendAppendEntries(s, p)
  PROVE  VoteInv' /\ RpcInv' /\ NodeTypes'
<1>1. UNCHANGED <<nodeVars, countVars, metaVars, elections, leaderVars,
                  incarnation, cast>>
  BY Zenon DEF ClientAppend, SendAppendEntries, AppendCall
<1>2. VoteInv'
  BY Zenon, <1>1, ElectionsKept DEF nodeVars, countVars, metaVars, leaderVars
<1>3. CASE ClientAppend(s)
  <2>1. term[s] \in Nat /\ lastId[s] \in LogId /\ lastId[s][2] \in Nat
    BY Zenon DEF NodeTypes, LogId
  <2>2. <<term[s], lastId[s][2] + 1>> \in LogId
    BY <2>1 DEF LogId
  <2>3. lastId' \in [Server -> LogId] /\ rpcs' = rpcs
    BY SMTT(30), <1>3, <2>2 DEF ClientAppend, NodeTypes
  <2>4. NodeTypes'
    BY Zenon, <1>1, <2>3 DEF NodeTypes, nodeVars, countVars, metaVars, leaderVars
  <2> QED
    BY Zenon, <1>1, <1>2, <2>3, <2>4, FewerCalls
<1>4. CASE \E p \in Server : SendAppendEntries(s, p)
  <2>1. PICK p \in Server : SendAppendEntries(s, p)
    BY SMTT(30), <1>4
  <2> DEFINE a == Call("append", s, p, replicators[s][p].term, lastId[s])
  <2>2. rpcs' = rpcs \cup {a} /\ lastId' = lastId
    BY Zenon, <2>1 DEF SendAppendEntries, AppendCall
  <2>3. replicators[s][p].term \in Nat /\ lastId[s] \in LogId
    BY SMTT(30) DEF NodeTypes
  <2>4. a \in RpcType /\ a.kind = "append" /\ a.stage = "request"
    BY <2>3, CallType
  <2> HIDE DEF a
  <2>5. RpcInv'
    <3> DEFINE new == {a}
    <3>1. \A x \in new : /\ x \in RpcType /\ x.stage = "request"
                         /\ x.kind = "vote" => x.from # x.to
      BY Zenon, <2>4
    <3>2. rpcs' = rpcs \cup new /\ cast' = cast
      BY SMTT(30), <1>1, <2>2
    <3> HIDE DEF new
    <3> QED
      BY Zenon, <3>1, <3>2, MoreCalls
  <2>6. NodeTypes'
    BY Zenon, <1>1, <2>2 DEF NodeTypes, nodeVars, countVars, metaVars, leaderVars
  <2> QED
    BY Zenon, <1>2, <2>5, <2>6
<1> QED
  BY Zenon, <1>3, <1>4

(* handle_append_entries_request keeps the invariant.                      *)
LEMMA HandleAppendEntriesKeeps ==
  ASSUME VoteInv, RpcInv, NodeTypes, NEW m \in rpcs, HandleAppendEntries(m)
  PROVE  VoteInv' /\ RpcInv' /\ NodeTypes'
<1>1. /\ m \in RpcType /\ m.to \in Server /\ m.from \in Server /\ m.term \in Nat
      /\ m.id \in LogId /\ m.kind = "append" /\ Unlocked(m.to)
  BY Zenon DEF RpcInv, RpcType, HandleAppendEntries, Waiting
<1>2. UNCHANGED <<countVars, elections, leaderVars, incarnation, cast>>
  BY Zenon DEF HandleAppendEntries
<1>3. /\ term[m.to] \in Nat \ {0} /\ lastId \in [Server -> LogId]
      /\ replicators \in [Server -> [Server -> [term : Nat, alive : BOOLEAN]]]
  BY Zenon, <1>1 DEF NodeTypes
<1>4. lastId' \in [Server -> LogId]
  BY Zenon, <1>1, <1>3 DEF HandleAppendEntries
<1>5. \/ Answer(m, term[m.to], FALSE) \/ Answer(m, m.term + 1, FALSE)
      \/ Answer(m, m.term, TRUE)
  BY Zenon DEF HandleAppendEntries
<1>6. RpcInv'
  <2>1. \A t \in Nat, ok \in BOOLEAN : Answer(m, t, ok) => RpcInv'
    BY Zenon, <1>1, <1>2, AnsweredCall
  <2>2. term[m.to] \in Nat /\ m.term + 1 \in Nat /\ m.term \in Nat
    BY <1>1, <1>3
  <2> QED
    BY Zenon, <1>5, <2>1, <2>2
<1>7. \/ UNCHANGED <<nodeVars, metaVars>>
      \/ \E t \in {m.term, m.term + 1}, l \in {m.from, Nil} :
           ~(m.term < term[m.to]) /\ StepDown(m.to, t, l)
  BY ZenonT(60) DEF HandleAppendEntries
<1>8. CASE UNCHANGED <<nodeVars, metaVars>>
  <2>1. VoteInv'
    BY SMTT(30), <1>2, <1>8, ElectionsKept DEF nodeVars, countVars, metaVars, leaderVars
  <2>2. NodeTypes'
    BY SMTT(30), <1>2, <1>4, <1>8 DEF NodeTypes, nodeVars, countVars, metaVars, leaderVars
  <2> QED
    BY Zenon, <1>6, <2>1, <2>2
<1>9. CASE \E t \in {m.term, m.term + 1}, l \in {m.from, Nil} :
             ~(m.term < term[m.to]) /\ StepDown(m.to, t, l)
  <2>1. PICK t \in {m.term, m.term + 1}, l \in {m.from, Nil} :
          ~(m.term < term[m.to]) /\ StepDown(m.to, t, l)
    BY Zenon, <1>9
  <2>2. t \in Nat \ {0} /\ l \in Server \cup {Nil}
    BY <1>1, <1>3, <2>1
  <2> QED
    BY SMTT(30), <1>1, <1>2, <1>3, <1>4, <1>6, <2>1, <2>2, SteppedDown DEF leaderVars
<1> QED
  BY Zenon, <1>7, <1>8, <1>9

(* The end of a replicator's call keeps the invariant.                     *)
LEMMA HandleAppendEntriesResponseKeeps ==
  ASSUME VoteInv, RpcInv, NodeTypes, NEW m \in rpcs, HandleAppendEntriesResponse(m)
  PROVE  VoteInv' /\ RpcInv' /\ NodeTypes'
<1> DEFINE s == m.from
           R == [term : Nat, alive : BOOLEAN]
<1>1. /\ m.to \in Server /\ s \in Server /\ m.reply \in Nat
      /\ Unlocked(s) /\ rpcs' = rpcs \ {m}
  BY Zenon DEF RpcInv, RpcType, HandleAppendEntriesResponse
<1>2. UNCHANGED <<countVars, lastId, elections, groupTerm, leaders, incarnation, cast>>
  BY Zenon DEF HandleAppendEntriesResponse
<1>3. /\ term[s] \in Nat \ {0} /\ lastId \in [Server -> LogId]
      /\ replicators \in [Server -> [Server -> R]]
  BY Zenon, <1>1 DEF NodeTypes
<1>4. RpcInv'
  BY ZenonT(60), <1>1, <1>2, FewerCalls
<1>5. replicators' \in [Server -> [Server -> R]]
  <2>1. CASE replicators' = [replicators EXCEPT ![s][m.to].alive = FALSE]
    <3> DEFINE r == [replicators[s][m.to] EXCEPT !.alive = FALSE]
               f == [replicators[s] EXCEPT ![m.to] = r]
    <3>1. r \in R
      <4>1. replicators[s][m.to] \in R
        BY <1>1, <1>3
      <4> QED
        BY Zenon, <4>1
    <3>2. replicators' = [replicators EXCEPT ![s] = f]
      BY Zenon, <2>1
    <3> HIDE DEF r, R
    <3>3. f \in [Server -> R]
      BY Zenon, <1>1, <1>3, <3>1
    <3> HIDE DEF f
    <3> QED
      BY Zenon, <1>3, <3>2, <3>3
  <2>2. CASE replicators' = replicators
    BY Zenon, <1>3, <2>2
  <2> QED
    BY Zenon, <2>1, <2>2 DEF HandleAppendEntriesResponse
<1>6. \/ UNCHANGED <<nodeVars, metaVars>>
      \/ m.reply > term[s] /\ StepDown(s, m.reply, Nil)
  BY Zenon DEF HandleAppendEntriesResponse
<1>7. CASE UNCHANGED <<nodeVars, metaVars>>
  <2>1. VoteInv'
    BY Zenon, <1>2, <1>7, ElectionsKept DEF nodeVars, countVars, metaVars
  <2>2. NodeTypes'
    BY Zenon, <1>2, <1>5, <1>7 DEF NodeTypes, nodeVars, countVars, metaVars
  <2> QED
    BY Zenon, <1>4, <2>1, <2>2
<1>8. CASE m.reply > term[s] /\ StepDown(s, m.reply, Nil)
  <2>1. m.reply \in Nat \ {0} /\ Nil \in Server \cup {Nil}
    BY <1>1, <1>3, <1>8
  <2> QED
    BY Zenon, <1>1, <1>2, <1>3, <1>4, <1>5, <1>8, <2>1, SteppedDown
<1> QED
  BY Zenon, <1>6, <1>7, <1>8

=============================================================================
