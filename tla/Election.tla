------------------------------- MODULE Election -------------------------------
(***************************************************************************)
(* Leader election: the handlers of cpp/node.cc that change a node's term, *)
(* vote, state or leader, the raft meta they persist (cpp/raft_meta.cc)    *)
(* and the replicators a leader starts (cpp/replicator.cc).                *)
(*                                                                         *)
(* Every handler runs under the node's mutex, but three of them release it *)
(* while LogManager::last_log_id(true) waits for the disk: handle_prevote, *)
(* handle_request_vote and elect_self.  Each is split into the part before *)
(* the window, the reading of the log id, and the part after it.           *)
(* elect_self moreover sends its RequestVote calls before it saves its own *)
(* vote, and the process may die in between.                               *)
(*                                                                         *)
(* A call is a record in rpcs that moves from "request" over the stages of *)
(* its handler to "response" and is consumed by its caller.  Calls are not *)
(* retried (max_retry = 0), and one that is lost or times out is dropped   *)
(* by its caller.  The log is reduced to the id of its last entry.         *)
(***************************************************************************)
EXTENDS Ballot

CONSTANTS
  Server,                   \* the peers of the configuration
  Nil,                      \* an empty PeerId
  Electable,                \* the servers that listen on port 8000
  MaxTerm,                  \* bound on terms
  MaxIndex,                 \* bound on log indexes
  MaxRestart                \* bound on the restarts of one server

ASSUME ServerAssumption ==
  IsFiniteSet(Server) /\ Nil \notin Server /\ Electable \subseteq Server
ASSUME ElectionBounds ==
  MaxTerm \in Nat \ {0} /\ MaxIndex \in Nat /\ MaxRestart \in Nat

VARIABLES
  state, term, votedFor, leaderId,  \* _state, _current_term, _voted_id, _leader_id
  prevotes, votes,                  \* _prevote_ctx and _vote_ctx
  metaTerm, metaVote,               \* what LocalRaftMetaStorage has on disk
  lastId,                           \* LogManager::last_log_id(true)
  elections,                        \* the running elect_self calls
  groupTerm,                        \* ReplicatorGroup::_common_options.term
  replicators,                      \* ReplicatorGroup::_rmap
  rpcs,                             \* the calls in progress
  incarnation,                      \* how often the process was restarted
  cast,                             \* history: the votes ever saved
  leaders                           \* history: who became leader, in which term

nodeVars    == <<state, term, votedFor, leaderId>>
countVars   == <<prevotes, votes>>
metaVars    == <<metaTerm, metaVote>>
leaderVars  == <<groupTerm, replicators, leaders>>
electionVars == <<nodeVars, countVars, metaVars, lastId, elections, leaderVars,
                  rpcs, incarnation, cast>>

Term  == 1 .. MaxTerm
LogId == Nat \X Nat
Conf  == BallotInit(Server, {})

(* operator>= of LogId: by term, then by index.                            *)
NotOlder(a, b) == a[1] > b[1] \/ (a[1] = b[1] /\ a[2] >= b[2])

(* A replicator in _rmap: the term it was started with and whether its     *)
(* bthread id is still valid.  NoReplicator: the peer is not in the map.   *)
NoReplicator == [term |-> 0, alive |-> FALSE]

ElectionInit ==
  /\ state = [s \in Server |-> "follower"]
  /\ term = [s \in Server |-> 1] /\ votedFor = [s \in Server |-> Nil]
  /\ leaderId = [s \in Server |-> Nil]
  /\ prevotes = [s \in Server |-> Conf] /\ votes = [s \in Server |-> Conf]
  /\ metaTerm = [s \in Server |-> 1] /\ metaVote = [s \in Server |-> Nil]
  /\ lastId = [s \in Server |-> <<0, 0>>]
  /\ elections = {}
  /\ groupTerm = [s \in Server |-> 0]
  /\ replicators = [s \in Server |-> [p \in Server |-> NoReplicator]]
  /\ rpcs = {}
  /\ incarnation = [s \in Server |-> 0]
  /\ cast = {} /\ leaders = {}

-----------------------------------------------------------------------------
(* Calls.                                                                  *)

Call(kind, s, p, t, id) ==
  [kind |-> kind, from |-> s, to |-> p, inc |-> incarnation[s], term |-> t,
   id |-> id, stage |-> "request", seen |-> <<0, 0>>, reply |-> 0, ok |-> FALSE]

CallsToOthers(kind, s, t, id) ==
  {Call(kind, s, p, t, id) : p \in Server \ {s}}

Waiting(m, kind, stage) == m \in rpcs /\ m.kind = kind /\ m.stage = stage

(* The caller of m still runs and its reply is there.                      *)
Replied(m, kind) ==
  Waiting(m, kind, "response") /\ m.inc = incarnation[m.from]

Answer(m, t, ok) ==
  rpcs' = (rpcs \ {m}) \cup
          {[m EXCEPT !.stage = "response", !.reply = t, !.ok = ok]}

MoveTo(m, stage) == rpcs' = (rpcs \ {m}) \cup {[m EXCEPT !.stage = stage]}

(* elect_self holds the mutex from its second lock to its end.             *)
Unlocked(s) == \A e \in elections : e.node = s => e.stage # "sent"

-----------------------------------------------------------------------------
(* step_down: a vote ends with its term.  Faulty variant: with any step.   *)
VoteAfterAny(s, t, v) == Nil

VoteAfter(s, t, v) == IF t > term[s] THEN Nil ELSE v

(* step_down(t): afterwards s follows l, which check_step_down sets.  The  *)
(* replicators of a leader are not stopped.                                *)
StepDown(s, t, l) ==
  LET higher == t > term[s]
  IN /\ state' = [state EXCEPT ![s] = "follower"]
     /\ leaderId' = [leaderId EXCEPT ![s] = l]
     /\ term' = [term EXCEPT ![s] = IF higher THEN t ELSE @]
     /\ votedFor' = [votedFor EXCEPT ![s] = VoteAfter(s, t, @)]
     /\ metaTerm' = [metaTerm EXCEPT ![s] = IF higher THEN t ELSE @]
     /\ metaVote' = [metaVote EXCEPT ![s] = VoteAfter(s, t, @)]

(* prevote: only a server on port 8000 asks; `calls' are the calls that    *)
(* stay in progress.                                                       *)
PreVote(s, calls) ==
  IF s \in Electable
  THEN /\ prevotes' = [prevotes EXCEPT ![s] = BallotGrant(Conf, s)]
       /\ rpcs' = calls \cup CallsToOthers("prevote", s, term[s] + 1, lastId[s])
  ELSE /\ rpcs' = calls
       /\ UNCHANGED prevotes

(* The first half of elect_self, up to the unlock.                         *)
ElectSelf(s) ==
  /\ state' = [state EXCEPT ![s] = "candidate"]
  /\ term' = [term EXCEPT ![s] = @ + 1]
  /\ votedFor' = [votedFor EXCEPT ![s] = s]
  /\ leaderId' = [leaderId EXCEPT ![s] = Nil]
  /\ votes' = [votes EXCEPT ![s] = Conf]
  /\ elections' = elections \cup
       {[node |-> s, term |-> term[s] + 1, stage |-> "window", id |-> <<0, 0>>]}

(* become_leader: add_replicator leaves alone the peers already in _rmap.  *)
BecomeLeader(s) ==
  /\ state' = [state EXCEPT ![s] = "leader"]
  /\ leaderId' = [leaderId EXCEPT ![s] = s]
  /\ groupTerm' = [groupTerm EXCEPT ![s] = IF term[s] > @ THEN term[s] ELSE @]
  /\ replicators' = [replicators EXCEPT ![s] =
       [p \in Server |-> IF p = s \/ @[p] # NoReplicator THEN @[p]
                         ELSE [term |-> groupTerm'[s], alive |-> TRUE]]]
  /\ leaders' = leaders \cup {<<term[s], s>>}

-----------------------------------------------------------------------------
(* Timers.  The election timer runs on a follower, the vote timer on a     *)
(* candidate; how long they wait is not modelled.                          *)

HandleElectionTimeout(s) ==
  /\ Unlocked(s)
  /\ state[s] = "follower" /\ term[s] < MaxTerm
  /\ leaderId' = [leaderId EXCEPT ![s] = Nil]
  /\ PreVote(s, rpcs)
  /\ UNCHANGED <<state, term, votedFor, votes, metaVars, lastId, elections,
                 leaderVars, incarnation, cast>>

(* raft_step_down_when_vote_timedout can be changed while a server runs.   *)
HandleVoteTimeout(s) ==
  /\ Unlocked(s)
  /\ state[s] = "candidate" /\ term[s] < MaxTerm
  /\ \/ /\ StepDown(s, term[s], Nil)
        /\ PreVote(s, rpcs)
        /\ UNCHANGED <<votes, elections>>
     \/ /\ ElectSelf(s)
        /\ UNCHANGED <<prevotes, metaVars, rpcs>>
  /\ UNCHANGED <<lastId, leaderVars, incarnation, cast>>

-----------------------------------------------------------------------------
(* PreVote.                                                                *)

(* handle_prevote up to the unlock.                                        *)
HandlePreVote(m) ==
  /\ Waiting(m, "prevote", "request") /\ Unlocked(m.to)
  /\ IF m.term < term[m.to] THEN Answer(m, term[m.to], FALSE)
                            ELSE MoveTo(m, "window")
  /\ UNCHANGED <<nodeVars, countVars, metaVars, lastId, elections, leaderVars,
                 incarnation, cast>>

(* last_log_id(true), outside the mutex, for either kind of vote.          *)
ReadLastLogId(m) ==
  /\ m \in rpcs /\ m.stage = "window"
  /\ rpcs' = (rpcs \ {m}) \cup
             {[m EXCEPT !.stage = "read", !.seen = lastId[m.to]]}
  /\ UNCHANGED <<nodeVars, countVars, metaVars, lastId, elections, leaderVars,
                 incarnation, cast>>

FinishPreVote(m) ==
  /\ Waiting(m, "prevote", "read") /\ Unlocked(m.to)
  /\ Answer(m, term[m.to], NotOlder(m.id, m.seen))
  /\ UNCHANGED <<nodeVars, countVars, metaVars, lastId, elections, leaderVars,
                 incarnation, cast>>

(* handle_pre_vote_response: the request asked for the term after the one  *)
(* it was sent in.                                                         *)
HandlePreVoteResponse(m) ==
  LET s == m.from
      counted == BallotGrant(prevotes[s], m.to)
  IN /\ Replied(m, "prevote") /\ Unlocked(s)
     /\ rpcs' = rpcs \ {m}
     /\ IF state[s] # "follower" \/ m.term # term[s] + 1
        THEN UNCHANGED <<nodeVars, countVars, metaVars, elections>>
        ELSE IF m.reply > term[s]
        THEN /\ StepDown(s, m.reply, Nil)
             /\ UNCHANGED <<countVars, elections>>
        ELSE IF ~m.ok
        THEN UNCHANGED <<nodeVars, countVars, metaVars, elections>>
        ELSE /\ prevotes' = [prevotes EXCEPT ![s] = counted]
             /\ UNCHANGED metaVars
             /\ IF BallotGranted(counted)
                THEN ElectSelf(s)
                ELSE UNCHANGED <<nodeVars, votes, elections>>
     /\ UNCHANGED <<lastId, leaderVars, incarnation, cast>>

-----------------------------------------------------------------------------
(* elect_self after the unlock.                                            *)

ReadOwnLastLogId(e) ==
  /\ e \in elections /\ e.stage = "window"
  /\ elections' = (elections \ {e}) \cup
                  {[e EXCEPT !.stage = "read", !.id = lastId[e.node]]}
  /\ UNCHANGED <<nodeVars, countVars, metaVars, lastId, leaderVars, rpcs,
                 incarnation, cast>>

(* The check against ABA looks at the term only.                           *)
SendRequestVotes(e) ==
  /\ e \in elections /\ e.stage = "read" /\ Unlocked(e.node)
  /\ IF e.term = term[e.node]
     THEN /\ elections' = (elections \ {e}) \cup {[e EXCEPT !.stage = "sent"]}
          /\ rpcs' = rpcs \cup CallsToOthers("vote", e.node, e.term, e.id)
     ELSE /\ elections' = elections \ {e}
          /\ UNCHANGED rpcs
  /\ UNCHANGED <<nodeVars, countVars, metaVars, lastId, leaderVars,
                 incarnation, cast>>

(* set_term_and_votedfor, the own vote, and for a single server leadership.*)
SaveOwnVote(e) ==
  LET s == e.node
      counted == BallotGrant(votes[s], s)
  IN /\ e \in elections /\ e.stage = "sent"
     /\ elections' = elections \ {e}
     /\ metaTerm' = [metaTerm EXCEPT ![s] = term[s]]
     /\ metaVote' = [metaVote EXCEPT ![s] = s]
     /\ cast' = cast \cup {<<s, term[s], s>>}
     /\ votes' = [votes EXCEPT ![s] = counted]
     /\ IF BallotGranted(counted)
        THEN BecomeLeader(s)
        ELSE UNCHANGED <<state, leaderId, leaderVars>>
     /\ UNCHANGED <<term, votedFor, prevotes, lastId, rpcs, incarnation>>

-----------------------------------------------------------------------------
(* RequestVote.                                                            *)

(* handle_request_vote up to the unlock.                                   *)
HandleRequestVote(m) ==
  LET p == m.to
  IN /\ Waiting(m, "vote", "request") /\ Unlocked(p)
     /\ IF m.term < term[p]
        THEN /\ Answer(m, term[p], FALSE)
             /\ UNCHANGED <<nodeVars, metaVars>>
        ELSE /\ MoveTo(m, "window")
             /\ IF m.term > term[p] THEN StepDown(p, m.term, Nil)
                                    ELSE UNCHANGED <<nodeVars, metaVars>>
     /\ UNCHANGED <<countVars, lastId, elections, leaderVars, incarnation, cast>>

(* The conditions of a grant.  Faulty variant: _voted_id is not looked at. *)
GrantsVoteAgain(m) == m.term = term[m.to] /\ NotOlder(m.id, m.seen)

GrantsVote(m) ==
  m.term = term[m.to] /\ NotOlder(m.id, m.seen) /\ votedFor[m.to] = Nil

(* set_votedfor.                                                           *)
SetVotedFor(p, v) ==
  /\ metaVote' = [metaVote EXCEPT ![p] = v]
  /\ cast' = cast \cup {<<p, metaTerm[p], v>>}

(* After the window: the term is checked again, the vote is saved, and the *)
(* answer tells whom this server has voted for.                            *)
FinishRequestVote(m) ==
  LET p == m.to
  IN /\ Waiting(m, "vote", "read") /\ Unlocked(p)
     /\ IF GrantsVote(m)
        THEN /\ state' = [state EXCEPT ![p] = "follower"]
             /\ leaderId' = [leaderId EXCEPT ![p] = Nil]
             /\ votedFor' = [votedFor EXCEPT ![p] = m.from]
             /\ SetVotedFor(p, m.from)
        ELSE UNCHANGED <<state, leaderId, votedFor, metaVote, cast>>
     /\ Answer(m, term[p], m.term = term[p] /\ votedFor'[p] = m.from)
     /\ UNCHANGED <<term, countVars, metaTerm, lastId, elections, leaderVars,
                    incarnation>>

HandleRequestVoteResponse(m) ==
  LET s == m.from
      counted == BallotGrant(votes[s], m.to)
  IN /\ Replied(m, "vote") /\ Unlocked(s)
     /\ rpcs' = rpcs \ {m}
     /\ IF state[s] # "candidate" \/ m.term # term[s]
        THEN UNCHANGED <<nodeVars, votes, metaVars, leaderVars>>
        ELSE IF m.reply > term[s]
        THEN /\ StepDown(s, m.reply, Nil)
             /\ UNCHANGED <<votes, leaderVars>>
        ELSE IF ~m.ok
        THEN UNCHANGED <<nodeVars, votes, metaVars, leaderVars>>
        ELSE /\ votes' = [votes EXCEPT ![s] = counted]
             /\ UNCHANGED <<term, votedFor, metaVars>>
             /\ IF BallotGranted(counted)
                THEN BecomeLeader(s)
                ELSE UNCHANGED <<state, leaderId, leaderVars>>
     /\ UNCHANGED <<prevotes, lastId, elections, incarnation, cast>>

-----------------------------------------------------------------------------
(* A leader and its replicators, as far as elections depend on them.       *)

(* apply: the leader's log grows.                                          *)
ClientAppend(s) ==
  /\ Unlocked(s)
  /\ state[s] = "leader" /\ lastId[s][2] < MaxIndex
  /\ lastId' = [lastId EXCEPT ![s] = <<term[s], @[2] + 1>>]
  /\ UNCHANGED <<nodeVars, countVars, metaVars, elections, leaderVars, rpcs,
                 incarnation, cast>>

(* A live replicator sends with the term it was started with, whatever the *)
(* node has become since.  Faulty variant: with the node's own term.       *)
AppendCallAnew(s, p) == Call("append", s, p, term[s], lastId[s])

AppendCall(s, p) == Call("append", s, p, replicators[s][p].term, lastId[s])

SendAppendEntries(s, p) ==
  /\ replicators[s][p].alive
  /\ rpcs' = rpcs \cup {AppendCall(s, p)}
  /\ UNCHANGED <<nodeVars, countVars, metaVars, lastId, elections, leaderVars,
                 incarnation, cast>>

(* handle_append_entries_request as far as the leader check; what it does  *)
(* to the log is to leave it alone or to end where the leader's log ends.  *)
NewLeader(m) ==
  \/ m.term > term[m.to]
  \/ state[m.to] # "follower"
  \/ leaderId[m.to] = Nil

Conflict(m) == ~NewLeader(m) /\ leaderId[m.to] # m.from

HandleAppendEntries(m) ==
  LET p == m.to
  IN /\ Waiting(m, "append", "request") /\ Unlocked(p)
     /\ IF m.term < term[p]
        THEN /\ Answer(m, term[p], FALSE)
             /\ UNCHANGED <<nodeVars, metaVars, lastId>>
        ELSE IF Conflict(m)
        THEN /\ StepDown(p, m.term + 1, Nil)
             /\ Answer(m, m.term + 1, FALSE)
             /\ UNCHANGED lastId
        ELSE /\ IF NewLeader(m) THEN StepDown(p, m.term, m.from)
                                ELSE UNCHANGED <<nodeVars, metaVars>>
             /\ \/ UNCHANGED lastId
                \/ lastId' = [lastId EXCEPT ![p] = m.id]
             /\ Answer(m, m.term, TRUE)
     /\ UNCHANGED <<countVars, elections, leaderVars, incarnation, cast>>

(* _on_rpc_returned and _on_heartbeat_returned with a higher term: the     *)
(* replicator is destroyed, and increase_term_to ignores a term that the   *)
(* node has reached already.                                               *)
HandleAppendEntriesResponse(m) ==
  LET s == m.from
      r == replicators[s][m.to]
  IN /\ Replied(m, "append") /\ Unlocked(s)
     /\ rpcs' = rpcs \ {m}
     /\ IF r.alive /\ m.reply > r.term
        THEN /\ replicators' = [replicators EXCEPT ![s][m.to].alive = FALSE]
             /\ IF m.reply > term[s] THEN StepDown(s, m.reply, Nil)
                                     ELSE UNCHANGED <<nodeVars, metaVars>>
        ELSE UNCHANGED <<nodeVars, metaVars, replicators>>
     /\ UNCHANGED <<countVars, lastId, elections, groupTerm, leaders,
                    incarnation, cast>>

-----------------------------------------------------------------------------
(* A call fails: its request or its reply is lost, or comes too late.      *)
FailCall(m) ==
  /\ m \in rpcs /\ m.stage \in {"request", "response"}
  /\ rpcs' = rpcs \ {m}
  /\ UNCHANGED <<nodeVars, countVars, metaVars, lastId, elections, leaderVars,
                 incarnation, cast>>

(* init_meta_storage.  Faulty variant: the meta is not loaded.             *)
InitMetaStorageUnloaded(s) ==
  /\ term' = [term EXCEPT ![s] = 0]
  /\ votedFor' = [votedFor EXCEPT ![s] = Nil]

InitMetaStorage(s) ==
  /\ term' = [term EXCEPT ![s] = metaTerm[s]]
  /\ votedFor' = [votedFor EXCEPT ![s] = metaVote[s]]

(* The process dies, with whatever its threads were doing, and init_meta_  *)
(* storage reads back what was saved.                                      *)
Restart(s) ==
  /\ incarnation[s] < MaxRestart
  /\ incarnation' = [incarnation EXCEPT ![s] = @ + 1]
  /\ state' = [state EXCEPT ![s] = "follower"]
  /\ InitMetaStorage(s)
  /\ leaderId' = [leaderId EXCEPT ![s] = Nil]
  /\ prevotes' = [prevotes EXCEPT ![s] = Conf]
  /\ votes' = [votes EXCEPT ![s] = Conf]
  /\ groupTerm' = [groupTerm EXCEPT ![s] = 0]
  /\ replicators' = [replicators EXCEPT ![s] = [p \in Server |-> NoReplicator]]
  /\ elections' = {e \in elections : e.node # s}
  /\ rpcs' = {m \in rpcs : /\ m.to = s => m.stage \in {"request", "response"}
                           /\ m.from = s => m.stage # "response"}
  /\ UNCHANGED <<metaVars, lastId, leaders, cast>>

ElectionNext ==
  \/ \E s \in Server :
       HandleElectionTimeout(s) \/ HandleVoteTimeout(s) \/ ClientAppend(s)
       \/ Restart(s) \/ \E p \in Server : SendAppendEntries(s, p)
  \/ \E m \in rpcs : HandlePreVote(m)
  \/ \E m \in rpcs : ReadLastLogId(m)
  \/ \E m \in rpcs : FinishPreVote(m)
  \/ \E m \in rpcs : HandlePreVoteResponse(m)
  \/ \E m \in rpcs : HandleRequestVote(m)
  \/ \E m \in rpcs : FinishRequestVote(m)
  \/ \E m \in rpcs : HandleRequestVoteResponse(m)
  \/ \E m \in rpcs : HandleAppendEntries(m)
  \/ \E m \in rpcs : HandleAppendEntriesResponse(m)
  \/ \E m \in rpcs : FailCall(m)
  \/ \E e \in elections : ReadOwnLastLogId(e)
  \/ \E e \in elections : SendRequestVotes(e)
  \/ \E e \in elections : SaveOwnVote(e)

ElectionSpec == ElectionInit /\ [][ElectionNext]_electionVars

-----------------------------------------------------------------------------
RpcType ==
  [kind : {"prevote", "vote", "append"}, from : Server, to : Server, inc : Nat,
   term : Nat, id : LogId, stage : {"request", "window", "read", "response"},
   seen : LogId, reply : Nat, ok : BOOLEAN]

(* The types of a node's members, its meta and the calls in progress.      *)
ElectionTypeOK ==
  /\ state \in [Server -> {"follower", "candidate", "leader"}]
  /\ term \in [Server -> Nat \ {0}] /\ metaTerm \in [Server -> Nat \ {0}]
  /\ votedFor \in [Server -> Server \cup {Nil}]
  /\ metaVote \in [Server -> Server \cup {Nil}]
  /\ leaderId \in [Server -> Server \cup {Nil}]
  /\ prevotes \in [Server -> BallotOf(Server, {})]
  /\ votes \in [Server -> BallotOf(Server, {})]
  /\ lastId \in [Server -> LogId]
  /\ elections \subseteq [node : Server, term : Nat \ {0}, id : LogId,
                          stage : {"window", "read", "sent"}]
  /\ groupTerm \in [Server -> Nat]
  /\ replicators \in [Server -> [Server -> [term : Nat, alive : BOOLEAN]]]
  /\ rpcs \subseteq RpcType
  /\ incarnation \in [Server -> Nat]
  /\ cast \subseteq Server \X Nat \X Server
  /\ leaders \subseteq Nat \X Server

(* At most one server ever becomes leader of a term, although votes are    *)
(* counted while the log id is read outside the mutex, RequestVote leaves  *)
(* before the own vote is saved, and processes restart from their meta.    *)
ElectionSafety ==
  \A a, b \in leaders : a[1] = b[1] => a[2] = b[2]

(* The branch "More than one leader in the same term" of                   *)
(* handle_append_entries_request is never taken.                           *)
NoLeaderConflict ==
  \A m \in rpcs :
    (Waiting(m, "append", "request") /\ m.term = term[m.to]) => ~Conflict(m)

(* A granted RequestVote is a vote that survives a restart of the voter.   *)
GrantedIsSaved ==
  \A m \in rpcs : (Waiting(m, "vote", "response") /\ m.ok)
    => <<m.to, m.term, m.from>> \in cast

(* What is on disk is never older than what was there before, and a saved  *)
(* vote is not replaced within its term.                                   *)
MetaAdvances ==
  [][\A s \in Server :
       /\ metaTerm'[s] >= metaTerm[s]
       /\ (metaTerm'[s] = metaTerm[s] /\ metaVote[s] # Nil)
            => metaVote'[s] = metaVote[s]]_electionVars

(* An expectation that the code does not meet; no run checks it:           *)
(* "we suppose that there are no running replicators" when reset_term is   *)
(* called (replicator.h): the replicators of a leader are of its own term. *)
ReplicatorsOfThisTerm ==
  \A s \in Server : state[s] = "leader" =>
    \A p \in Server \ {s} :
      replicators[s][p].alive => replicators[s][p].term = term[s]

-----------------------------------------------------------------------------
(* Why these hold.  A vote in memory is the one on disk, except that       *)
(* elect_self counts on its own vote before it saves it; a server's votes  *)
(* in one term agree; and whoever leads was given those of a majority.     *)

SavedOrOwn ==
  \A s \in Server :
    \/ metaTerm[s] = term[s] /\ metaVote[s] = votedFor[s]
    \/ metaTerm[s] < term[s] /\ votedFor[s] = s

CastOnce ==
  /\ \A c, d \in cast : c[1] = d[1] /\ c[2] = d[2] => c[3] = d[3]
  /\ \A c \in cast : /\ c[2] <= metaTerm[c[1]]
                     /\ c[2] = metaTerm[c[1]] => c[3] = metaVote[c[1]]
  /\ \A s \in Server :
       metaVote[s] # Nil => <<s, metaTerm[s], metaVote[s]>> \in cast

ElectionsVoteForSelf ==
  \A e \in elections :
    /\ e.term <= term[e.node]
    /\ e.term = term[e.node] => votedFor[e.node] = e.node
    /\ e.stage = "sent" => e.term = term[e.node]

Counts(s) ==
  state[s] = "candidate" \/ \E e \in elections : e.node = s /\ e.term = term[s]

CountedIsCast ==
  \A s \in Server :
    /\ WellCounted(votes[s])
    /\ Counts(s) => \A p \in votes[s].found : <<p, term[s], s>> \in cast

VotersOf(t, s) == {p \in Server : <<p, t, s>> \in cast}

LeadersElected == \A l \in leaders : IsMajority(VotersOf(l[1], l[2]), Server)

VoteCalls == \A m \in rpcs : m.kind = "vote" => m.from # m.to

(* The inductive invariant of elections.                                   *)
ElectionInv ==
  /\ ElectionTypeOK /\ SavedOrOwn /\ CastOnce /\ ElectionsVoteForSelf
  /\ CountedIsCast /\ LeadersElected /\ VoteCalls /\ GrantedIsSaved

(* Whoever a server follows, whoever has a replicator or sends an          *)
(* AppendEntries, was elected in that term.                                *)
LeaderKnown ==
  /\ \A s \in Server : leaderId[s] # Nil => <<term[s], leaderId[s]>> \in leaders
  /\ \A s \in Server : groupTerm[s] # 0 => <<groupTerm[s], s>> \in leaders
  /\ \A s, p \in Server : replicators[s][p].alive
                            => <<replicators[s][p].term, s>> \in leaders
  /\ \A m \in rpcs : m.kind = "append" => <<m.term, m.from>> \in leaders
=============================================================================
