------------------------------ MODULE BallotBox ------------------------------
(***************************************************************************)
(* cpp/ballot_box.{h,cc}: how one node decides which log entries are       *)
(* committed and tells its FSMCaller.                                      *)
(*                                                                         *)
(* A leader keeps one Ballot per pending entry (_pending_meta_queue, whose *)
(* front is the entry _pending_index) and one flag per entry               *)
(* (_committed_index_queue) telling whether the entry is already committed *)
(* out of order.  The threads that call commit_at are the replicators (one *)
(* per follower) and the disk thread of the leader; each holds the mutex   *)
(* only for the counting, and publishes the result afterwards in two steps *)
(* of its own: it reads _last_committed_index and then queues a COMMITTED  *)
(* task.  A follower moves _last_committed_index itself, from its disk     *)
(* thread or from the thread of an empty AppendEntries, which decide on    *)
(* the index under the node's mutex and call the box without it.           *)
(***************************************************************************)
EXTENDS Ballot, Sequences

CONSTANTS
  Conf, OldConf,  \* the peers; OldConf = {} when the configuration is stable
  Self,           \* this node, a peer of Conf: its disk thread calls commit_at
  RpcThread,      \* the thread that handles empty AppendEntries requests
  InOrder,        \* TRUE: flag oo_enabled is false, peers acknowledge prefixes
  MaxIndex,       \* bound on log indexes
  MaxReign        \* bound on how often this node becomes leader

ASSUME ConfAssumption ==
  /\ IsFiniteSet(Conf) /\ IsFiniteSet(OldConf)
  /\ Self \in Conf
  /\ RpcThread \notin Conf \cup OldConf
ASSUME BoundAssumption ==
  InOrder \in BOOLEAN /\ MaxIndex \in Nat /\ MaxReign \in Nat

VARIABLES
  state,          \* NodeImpl::_state, "leader" or "follower"
  reign,          \* how often this node has become leader
  lastLog,        \* LogManager::last_log_index()
  pending,        \* _pending_index, 0 unless leader
  meta,           \* _pending_meta_queue
  flags,          \* _committed_index_queue
  lastCommitted,  \* _last_committed_index
  pub,            \* per thread: the publication it still has to make
  tasks,          \* COMMITTED tasks queued at the FSMCaller
  reignStart,     \* history: argument of the latest reset_pending_index
  grants          \* history: index -> peers that acknowledged it to this reign

nodeVars  == <<state, reign, lastLog>>
boxVars   == <<pending, meta, flags, lastCommitted>>
outVars   == <<pub, tasks>>
ghostVars == <<reignStart, grants>>
vars      == <<nodeVars, boxVars, outVars, ghostVars>>

Index  == 1 .. MaxIndex
Peer   == Conf \cup OldConf
Thread == Peer \cup {RpcThread}
Idle   == [at |-> "idle", index |-> 0, oo |-> {}]

Task == [index : 0 .. MaxIndex, oo : SUBSET Index]

Init ==
  /\ state = "follower" /\ reign = 0 /\ lastLog = 0
  /\ pending = 0 /\ meta = <<>> /\ flags = <<>> /\ lastCommitted = 0
  /\ pub = [t \in Thread |-> Idle]
  /\ tasks = <<>>
  /\ reignStart = 1
  /\ grants = [i \in Index |-> {}]

-----------------------------------------------------------------------------
(* What NodeImpl does to the box, under the node's mutex.                  *)

(* Faulty variant of BecomeLeader: the reign starts at the last entry that *)
(* is there, not behind it.                                                *)
BecomeLeaderEarly ==
  /\ state = "follower" /\ reign < MaxReign
  /\ state' = "leader" /\ reign' = reign + 1
  /\ pending' = lastLog
  /\ reignStart' = lastLog + 1
  /\ grants' = [i \in Index |-> {}]
  /\ UNCHANGED <<lastLog, meta, flags, lastCommitted, outVars>>

(* become_leader: reset_pending_index(last_log_index + 1).                 *)
BecomeLeader ==
  /\ state = "follower" /\ reign < MaxReign
  /\ state' = "leader" /\ reign' = reign + 1
  /\ pending' = lastLog + 1
  /\ reignStart' = lastLog + 1
  /\ grants' = [i \in Index |-> {}]
  /\ UNCHANGED <<lastLog, meta, flags, lastCommitted, outVars>>

(* apply: append_pending_task for one entry, which then joins the log.     *)
AppendPendingTask ==
  /\ state = "leader" /\ lastLog < MaxIndex
  /\ lastLog' = lastLog + 1
  /\ meta' = Append(meta, BallotInit(Conf, OldConf))
  /\ flags' = Append(flags, FALSE)
  /\ UNCHANGED <<state, reign, pending, lastCommitted, outVars, ghostVars>>

(* Faulty variant of ClearPendingTasks: the ballots are kept, and serve    *)
(* for the first entries of the next reign.                                *)
ClearPendingTasksKeepsBallots ==
  /\ state = "leader"
  /\ state' = "follower"
  /\ pending' = 0
  /\ UNCHANGED <<reign, lastLog, meta, flags, lastCommitted, outVars, ghostVars>>

(* step_down of a leader: clear_pending_tasks, which leaves flags behind.  *)
ClearPendingTasks ==
  /\ state = "leader"
  /\ state' = "follower"
  /\ meta' = <<>> /\ pending' = 0
  /\ UNCHANGED <<reign, lastLog, flags, lastCommitted, outVars, ghostVars>>

(* A leader elsewhere extends this follower's log, or truncates it, never  *)
(* below an index that it has been told is committed in order.             *)
ReplaceLog(n) ==
  /\ state = "follower"
  /\ \/ n > lastLog
     \/ /\ InOrder /\ n < lastLog
        /\ n >= lastCommitted /\ \A t \in Thread : n >= pub[t].index
  /\ lastLog' = n
  /\ UNCHANGED <<state, reign, boxVars, outVars, ghostVars>>

-----------------------------------------------------------------------------
(* commit_at(S, peer): the part under the mutex.  S is an ascending deque, *)
(* so its back is its maximum; the early returns (no reign, nothing at or  *)
(* above _pending_index, an index beyond the queue) change nothing.        *)

Accepts(S) ==
  /\ pending # 0
  /\ \E i \in S : i >= pending
  /\ \A i \in S : i < pending + Len(meta)

Granted(S, peer) ==
  [k \in DOMAIN meta |->
     IF pending + k - 1 \in S THEN BallotGrant(meta[k], peer) ELSE meta[k]]

NewlyCommitted(S, counted) ==
  {i \in S : /\ i >= pending
             /\ BallotGranted(counted[i - pending + 1])
             /\ ~flags[i - pending + 1]}

Flagged(newly) == [k \in DOMAIN flags |-> flags[k] \/ pending + k - 1 \in newly]

(* n is the number of TRUE flags at the front of q.                        *)
LeadingTrue(q, n) ==
  /\ n \in 0 .. Len(q)
  /\ \A k \in 1 .. n : q[k]
  /\ n < Len(q) => ~q[n + 1]

DropFront(q, n) == SubSeq(q, n + 1, Len(q))

(* In order, whoever acknowledges i has acknowledged what precedes it:     *)
(* Replicator::_on_rpc_returned and LeaderStableClosure pass intervals     *)
(* that continue the ones they passed before.                              *)
ContinuesPrefix(S, peer) ==
  \A i \in S : \A j \in pending .. i : j \in S \/ peer \in grants[j]

Acknowledged(S, peer) ==
  [i \in Index |-> IF i \in S /\ i >= pending THEN grants[i] \cup {peer}
                  ELSE grants[i]]

CommitAt(peer, S) ==
  LET counted == Granted(S, peer)
      newly   == NewlyCommitted(S, counted)
      raised  == Flagged(newly)
  IN /\ pub[peer] = Idle
     /\ Accepts(S)
     /\ InOrder => ContinuesPrefix(S, peer)
     /\ grants' = Acknowledged(S, peer)
     /\ IF newly # {} /\ pending \in S
        THEN \E n \in 0 .. Len(flags) :
               /\ LeadingTrue(raised, n)
               /\ meta' = DropFront(counted, n)
               /\ flags' = DropFront(raised, n)
               /\ pending' = pending + n
               /\ lastCommitted' = pending + n - 1
        ELSE /\ meta' = counted /\ flags' = raised
             /\ UNCHANGED <<pending, lastCommitted>>
     /\ pub' = IF newly = {} THEN pub
               ELSE [pub EXCEPT ![peer] =
                       [at |-> "load", index |-> 0, oo |-> newly]]
     /\ UNCHANGED <<nodeVars, tasks, reignStart>>

(* commit_at after the unlock: the argument of on_committed is read now.   *)
LoadCommitted(t) ==
  /\ pub[t].at = "load"
  /\ pub' = [pub EXCEPT ![t].at = "enqueue", ![t].index = lastCommitted]
  /\ UNCHANGED <<nodeVars, boxVars, tasks, ghostVars>>

(* FSMCaller::on_committed: the out-of-order indexes up to the sequential  *)
(* one are dropped and the task is queued.                                 *)
OnCommitted(t) ==
  /\ pub[t].at = "enqueue"
  /\ tasks' = Append(tasks, [index |-> pub[t].index,
                             oo |-> {i \in pub[t].oo : i > pub[t].index}])
  /\ pub' = [pub EXCEPT ![t] = Idle]
  /\ UNCHANGED <<nodeVars, boxVars, ghostVars>>

(* A follower takes the leader's commit index from a request, under the    *)
(* node's mutex, and releases it before it calls set_last_committed_index. *)
(* The index is one this node has: that the leader never sends more is the *)
(* assumption of this module on the rest of the cluster.                   *)
LearnCommitted(t, c, oo) ==
  /\ state = "follower" /\ pub[t] = Idle
  /\ c <= lastLog
  /\ InOrder => oo = {}
  /\ pub' = [pub EXCEPT ![t] = [at |-> "call", index |-> c, oo |-> oo]]
  /\ UNCHANGED <<nodeVars, boxVars, tasks, ghostVars>>

(* Faulty variant of SetLastCommittedIndex: an older index is not refused. *)
SetLastCommittedIndexAny(t) ==
  /\ pub[t].at = "call"
  /\ IF pending = 0 /\ meta = <<>>
     THEN /\ lastCommitted' = pub[t].index
          /\ pub' = [pub EXCEPT ![t].at = "enqueue"]
     ELSE /\ pub' = [pub EXCEPT ![t] = Idle]
          /\ UNCHANGED lastCommitted
  /\ UNCHANGED <<nodeVars, pending, meta, flags, tasks, ghostVars>>

(* set_last_committed_index: on a node that leads by now, and with an      *)
(* index that is not larger, it drops the call and its oo indexes.         *)
SetLastCommittedIndex(t) ==
  /\ pub[t].at = "call"
  /\ IF pending = 0 /\ meta = <<>> /\ pub[t].index > lastCommitted
     THEN /\ lastCommitted' = pub[t].index
          /\ pub' = [pub EXCEPT ![t].at = "enqueue"]
     ELSE /\ pub' = [pub EXCEPT ![t] = Idle]
          /\ UNCHANGED lastCommitted
  /\ UNCHANGED <<nodeVars, pending, meta, flags, tasks, ghostVars>>

(* FSMCaller::run takes a task; what it does with it is not modelled here. *)
TakeTask ==
  /\ tasks # <<>>
  /\ tasks' = Tail(tasks)
  /\ UNCHANGED <<nodeVars, boxVars, pub, ghostVars>>

NodeStep ==
  BecomeLeader \/ AppendPendingTask \/ ClearPendingTasks
  \/ \E n \in 0 .. MaxIndex : ReplaceLog(n)
  \/ \E t \in {Self, RpcThread}, c \in Index, oo \in SUBSET Index :
       LearnCommitted(t, c, oo)

BoxStep ==
  \/ \E peer \in Peer, S \in SUBSET Index : CommitAt(peer, S)
  \/ \E t \in Thread :
       LoadCommitted(t) \/ OnCommitted(t) \/ SetLastCommittedIndex(t)

Next == NodeStep \/ BoxStep \/ TakeTask

Spec == Init /\ [][Next]_vars

-----------------------------------------------------------------------------
(* The types of BallotBox's members and of the publications under way.     *)
TypeOK ==
  /\ state \in {"leader", "follower"}
  /\ reign \in 0 .. MaxReign
  /\ lastLog \in 0 .. MaxIndex
  /\ pending \in 0 .. MaxIndex + 1
  /\ meta \in Seq(BallotOf(Conf, OldConf))
  /\ flags \in Seq(BOOLEAN)
  /\ lastCommitted \in 0 .. MaxIndex
  /\ pub \in [Thread -> [at : {"idle", "load", "call", "enqueue"},
                         index : 0 .. MaxIndex, oo : SUBSET Index]]
  /\ tasks \in Seq(Task)
  /\ reignStart \in 1 .. MaxIndex + 1
  /\ grants \in [Index -> SUBSET Peer]

(* What a leader commits in its reign is stored by a majority of every     *)
(* current configuration (raft.h, on_apply: "quorum of the group peers     *)
(* have received those tasks and stored them").                            *)
CommittedByQuorum ==
  pending # 0 =>
    \A i \in Index : i \in reignStart .. lastCommitted =>
      JointMajority(grants[i], Conf, OldConf)

(* A pending entry is flagged committed only if its own ballot is granted, *)
(* however often the node steps down and is elected again                  *)
(* (append_pending_task: "Initialize the uncommittd information").         *)
FlaggedOnlyIfGranted ==
  \A k \in DOMAIN meta : flags[k] => BallotGranted(meta[k])

(* commit_at never leaves a granted entry at the front of the queue: the   *)
(* commit index is as large as the acknowledgements allow.                 *)
NoGrantedFront == meta # <<>> => ~BallotGranted(meta[1])

(* The publications are late but never ahead: no thread holds, and no task *)
(* carries, an index that is not committed.                                *)
PublishedIsCommitted ==
  /\ \A t \in Thread : pub[t].at # "call" => pub[t].index <= lastCommitted
  /\ \A k \in DOMAIN tasks : tasks[k].index <= lastCommitted

(* A call of a follower that lands after the node was elected names an     *)
(* entry that precedes the reign (the CHECK of set_last_committed_index).  *)
LateCallPrecedesReign ==
  pending # 0 =>
    \A t \in Thread : pub[t].at = "call" => pub[t].index < pending

(* _last_committed_index never moves backwards, through elections,         *)
(* step-downs and the calls of a follower's two threads.                   *)
CommittedNeverRetreats == [][lastCommitted' >= lastCommitted]_vars

-----------------------------------------------------------------------------
(* Why the properties hold while oo_enabled is false: the flags left over  *)
(* from earlier reigns are all FALSE, each ballot has counted exactly the  *)
(* acknowledgements of its entry, and an entry has been acknowledged by    *)
(* everyone who acknowledged a later one, so that a granted ballot is at   *)
(* the front and commit_at pops it at once.                                *)

BoxShape ==
  /\ \A k \in DOMAIN flags : ~flags[k]
  /\ Len(meta) <= Len(flags)
  /\ state = "leader" <=> pending # 0
  /\ pending = 0 => meta = <<>>
  /\ pending # 0 => /\ pending + Len(meta) = lastLog + 1
                    /\ reignStart <= pending
                    /\ lastCommitted < pending
  /\ lastCommitted <= lastLog

CountsMatch ==
  \A k \in DOMAIN meta :
    /\ WellCounted(meta[k])
    /\ meta[k].found = grants[pending + k - 1] \cap Conf
    /\ meta[k].old_found = grants[pending + k - 1] \cap OldConf
    /\ ~BallotGranted(meta[k])

GrantsNested ==
  pending # 0 =>
    /\ \A i, j \in Index : (pending <= i /\ i <= j) => grants[j] \subseteq grants[i]
    /\ \A i \in Index : i > lastLog => grants[i] = {}

ReignCommitted ==
  pending # 0 =>
    \A i \in Index : (reignStart <= i /\ i < pending)
                        => JointMajority(grants[i], Conf, OldConf)

CallsNameOldEntries ==
  \A t \in Thread : pub[t].at = "call" =>
    /\ pub[t].index <= lastLog
    /\ pending # 0 => pub[t].index < reignStart

(* The inductive invariant of the in-order box: the five facts above, and  *)
(* that no publication is ahead of the commit index.                       *)
InOrderInv ==
  /\ TypeOK /\ BoxShape /\ CountsMatch /\ GrantsNested /\ ReignCommitted
  /\ CallsNameOldEntries /\ PublishedIsCommitted
=============================================================================
