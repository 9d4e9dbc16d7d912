----------------------------- MODULE Replication -----------------------------
(***************************************************************************)
(* One Replicator of a leader (cpp/replicator.cc) and the follower it      *)
(* sends to (handle_append_entries_request, AppendEntriesCache and         *)
(* FollowerStableClosure of cpp/node.cc), during one reign.                *)
(*                                                                         *)
(* Requests are pipelined: they arrive in any order, may fail, and carry   *)
(* one entry, or none when the replicator looks for the follower's last    *)
(* index.  A request that the leader has cancelled or forgotten may still  *)
(* reach the follower, but its answer is ignored.  bthread_id_lock makes   *)
(* every step of the replicator atomic.                                    *)
(*                                                                         *)
(* The follower's log is what LogManager promises: entries are present at  *)
(* once, and stored when the disk thread has come to them.  The follower's *)
(* dependency bitmap is the set of the indexes whose bit is set.           *)
(***************************************************************************)
EXTENDS SequencesExt, FiniteSets, Integers

CONSTANTS
  MaxIndex,     \* bound on the leader's log
  MaxOld,       \* bound on the logs that the reign starts with
  MaxFly,       \* flags raft_max_entries_size, raft_max_parallel_append_entries_rpc_num
  OO,           \* flag oo_enabled
  LookBack,     \* flag dependency_look_back
  Depends(_),   \* the dependency id of the task at an index
  CacheSize,    \* flag raft_max_append_entries_cache_size
  MaxRpc,       \* bound on the calls that have not ended
  MaxFail,      \* bound on failing calls
  MaxRestart    \* bound on restarts of the follower

ASSUME ReplicationAssumption ==
  /\ MaxIndex \in Nat /\ MaxOld \in 0 .. MaxIndex /\ MaxFly \in Nat \ {0}
  /\ OO \in BOOLEAN /\ LookBack \in Nat /\ CacheSize \in Nat
  /\ MaxRpc \in Nat /\ MaxFail \in Nat /\ MaxRestart \in Nat

VARIABLES
  ldrLog,      \* the terms of the leader's entries
  pend,        \* _pending_index of the leader's ballot box
  rep,         \* the Replicator
  counted,     \* history: the indexes given to commit_at
  net,         \* requests under way
  answers,     \* answers under way
  folLog,      \* terms of the follower's entries, 0 for none
  stored,      \* indexes on the follower's disk
  bits,        \* _dependency_bitmap of the follower
  stable,      \* the FollowerStableClosures that wait for the disk, in order
  cached,      \* the requests in _rpc_map
  released,    \* the requests that the cache has given back to the node
  folCommit,   \* _last_committed_index of the follower
  folApplied,  \* _applied_id of the follower's LogManager
  failures, restarts

leaderVars   == <<ldrLog, pend, rep, counted>>
cacheVars    == <<cached, released>>
followerVars == <<folLog, stored, bits, stable, cacheVars, folCommit, folApplied>>
repVars      == <<leaderVars, net, answers, followerVars, failures, restarts>>

Index   == 1 .. MaxIndex
OldTerm == 1 .. 2
Term    == 3

TermAt(l, i) == IF i \in DOMAIN l THEN l[i] ELSE 0

(* Two logs that the earlier terms may have left behind.                   *)
OldLogs == {l \in BoundedSeq(OldTerm, MaxOld) : \A i \in 2 .. Len(l) : l[i - 1] <= l[i]}
Matching(l, f) ==
  \A i \in DOMAIN l \cap DOMAIN f :
     l[i] = f[i] => \A j \in 1 .. i : l[j] = f[j]

(* check_dependency of the leader: the earlier tasks of its reign with the *)
(* same id, in the window it looks back at.                                *)
Dependency(i) ==
  {j \in Max({1, i - LookBack}) .. i - 1 :
     TermAt(ldrLog, j) = Term /\ Depends(j) = Depends(i)}

(* last_log_index of the follower.                                         *)
FolLast == Max({0} \cup {i \in Index : \A j \in 1 .. i : folLog[j] # 0})

-----------------------------------------------------------------------------
(* The Replicator, as a record r:                                          *)
(*   next      _next_index                                                 *)
(*   fly       _append_entries_in_fly: first index, entries, call id       *)
(*   flySize   _flying_append_entries_size                                 *)
(*   st        _st.st                                                      *)
(*   waitId    _wait_id: "none", "waiting" or, once woken, "woken"         *)
(*   canceled  _is_waiter_canceled                                         *)
(*   waiters   its waiters in the LogManager                               *)
(*   callbacks the calls of _continue_sending under way                    *)
(*   acks      _oo_committed_entries, from ooStart = _oo_start_index on    *)
(*   out       what the current step sends                                 *)

(* The calls that have not ended, and the next call id.                    *)
Calls == {m.id : m \in net \cup answers \cup cached \cup released}
           \cup {stable[k].id : k \in DOMAIN stable}
FreeIds(r) == (1 .. MaxRpc) \ (Calls \cup {r.fly[k].id : k \in DOMAIN r.fly})
CallId(r)  == Min(FreeIds(r))

(* _fill_common_fields.                                                    *)
CommittedFor(r) == IF r.ooStart < pend THEN r.ooStart - 1 ELSE pend

Request(r, n) ==
  [id |-> CallId(r), idx |-> r.next, size |-> n,
   prevTerm |-> TermAt(ldrLog, r.next - 1), term |-> n * TermAt(ldrLog, r.next),
   committed |-> CommittedFor(r)]

Flying(r, n) == Append(r.fly, [idx |-> r.next, size |-> n, id |-> CallId(r)])

(* _wait_more_entries: LogManager::wait calls back at once when there are  *)
(* more entries.                                                           *)
WaitMore(r) ==
  LET more == Len(ldrLog) # r.next - 1
      w == IF r.waitId # "none" \/ Len(r.fly) >= MaxFly THEN r
           ELSE [r EXCEPT !.waitId = IF more THEN "woken" ELSE "waiting",
                          !.canceled = FALSE,
                          !.callbacks = @ + (IF more THEN 1 ELSE 0),
                          !.waiters = @ + (IF more THEN 0 ELSE 1)]
  IN IF r.flySize = 0 THEN [w EXCEPT !.st = "idle"] ELSE w

(* Faulty variant of Padded: one entry short.                              *)
PaddedShort(q, n) == q \o [k \in 1 .. n - Len(q) - 1 |-> FALSE]

Padded(q, n) == q \o [k \in 1 .. n - Len(q) |-> FALSE]

WindowFull(r) == r.st = "blocking" \/ r.flySize >= MaxFly \/ Len(r.fly) >= MaxFly

SendEntries(r) ==
  IF WindowFull(r) THEN r
  ELSE IF r.next > Len(ldrLog) THEN WaitMore(r)
  ELSE WaitMore([r EXCEPT !.fly = Flying(r, 1), !.flySize = @ + 1,
                          !.next = @ + 1, !.st = "appending",
                          !.acks = Padded(@, r.next + 1 - r.ooStart),
                          !.out = {Request(r, 1)}])

(* _send_empty_entries(false).                                             *)
SendEmptyEntries(r) ==
  [r EXCEPT !.fly = Flying(r, 0), !.st = "appending", !.out = {Request(r, 0)}]

(* remove_waiter.  Faulty variant: the waiter stays.                       *)
WaiterKept(r) == [r EXCEPT !.canceled = TRUE]

WaiterRemoved(r) ==
  [r EXCEPT !.canceled = TRUE, !.waitId = "none",
            !.waiters = IF r.waitId = "waiting" THEN @ - 1 ELSE @]

(* _reset_next_index, after the answer to call id: its request is taken    *)
(* out if it is the first one.                                             *)
ResetNextIndex(r, id) ==
  LET left == IF r.fly # <<>> /\ Head(r.fly).id = id THEN Tail(r.fly) ELSE r.fly
  IN [WaiterRemoved(r) EXCEPT !.next = IF left = <<>> THEN @ ELSE Head(left).idx,
                              !.fly = <<>>, !.flySize = 0]

(* The part of _on_rpc_returned that counts: the entries before the        *)
(* follower's last one, and the one that was sent.                         *)
NotYet(r, S) == {i \in S : i - r.ooStart + 1 \in DOMAIN r.acks => ~r.acks[i - r.ooStart + 1]}

(* Faulty variant of CommitIndexes: as if entries were answered in order.  *)
CommitIndexesInOrder(r, m) == NotYet(r, r.ooStart .. m.idx)

CommitIndexes(r, m) ==
  NotYet(r, (r.ooStart .. m.last - 1) \cup {i \in {m.idx} : i >= r.ooStart})

(* _oo_committed_entries and _oo_start_index after that.                   *)
DropLeading(r) ==
  LET n == Max({k \in 0 .. Len(r.acks) : \A j \in 1 .. k : r.acks[j]})
  IN [r EXCEPT !.acks = SubSeq(@, n + 1, Len(@)), !.ooStart = @ + n]

Counted(r, m) ==
  LET skip == Max({0, m.last - r.ooStart})
      s == [r EXCEPT !.acks = SubSeq(@, skip + 1, Len(@)), !.ooStart = @ + skip]
      k == m.idx - s.ooStart + 1
  IN IF m.size = 0 THEN r
     ELSE DropLeading([s EXCEPT !.acks = [j \in DOMAIN @ |-> @[j] \/ j = k]])

(* The requests that need no answer any more leave _append_entries_in_fly. *)
Sizes(q) == FoldLeft(LAMBDA acc, f : acc + f.size, 0, q)

(* Faulty variant of Landed: the size of the other requests that leave     *)
(* stays.                                                                  *)
LandedKeepsSize(r, m) ==
  LET rest == SelectSeq(r.fly, LAMBDA f : f.id # m.id /\ f.idx + f.size > r.ooStart)
  IN [r EXCEPT !.fly = rest, !.flySize = @ - m.size]

Landed(r, m) ==
  LET rest == SelectSeq(r.fly, LAMBDA f : f.id # m.id)
      n == Max({k \in 0 .. Len(rest) :
                  \A j \in 1 .. k : rest[j].idx + rest[j].size <= r.ooStart})
  IN [r EXCEPT !.fly = SubSeq(rest, n + 1, Len(rest)),
               !.flySize = @ - m.size - Sizes(SubSeq(rest, 1, n))]

-----------------------------------------------------------------------------
(* The steps of the leader.                                                *)

Done(r, requests) ==
  \E s \in {r} : rep' = [s EXCEPT !.out = {}] /\ net' = requests \cup s.out

IsLive(m) == \E k \in DOMAIN rep.fly : rep.fly[k].id = m.id

(* Faulty variant of Backed: stays where the follower refused.             *)
BackedNever(r, last) == [r EXCEPT !.next = IF last + 1 < @ THEN last + 1 ELSE @]

(* Where to go on after the follower refused: at its end, or one back.     *)
Backed(r, last) ==
  [r EXCEPT !.next = IF last + 1 < @ THEN last + 1 ELSE Max({1, @ - 1})]

OnRpcReturned(m) ==
  /\ answers' = answers \ {m}
  /\ IsLive(m) => FreeIds(rep) # {}
  /\ \/ ~IsLive(m) /\ UNCHANGED <<rep, net, counted>>
     \/ /\ IsLive(m) /\ m.kind = "failed"
        /\ Done([ResetNextIndex(rep, m.id) EXCEPT !.st = "blocking"], net)
        /\ UNCHANGED counted
     \/ /\ IsLive(m) /\ m.kind = "refused"
        /\ Done(SendEmptyEntries(Backed(ResetNextIndex(rep, m.id), m.last)), net)
        /\ UNCHANGED counted
     \/ /\ IsLive(m) /\ m.kind = "ok"
        /\ counted' = counted \cup (IF m.size = 0 THEN {} ELSE CommitIndexes(rep, m))
        /\ \E r \in {Landed(Counted(rep, m), m)} : Done(SendEntries(r), net)
  /\ UNCHANGED <<ldrLog, pend, followerVars, failures, restarts>>

(* _continue_sending, from the LogManager.                                 *)
ContinueSending ==
  /\ rep.callbacks > 0 /\ FreeIds(rep) # {}
  /\ \E r \in {[rep EXCEPT !.callbacks = @ - 1, !.waitId = IF rep.canceled THEN @ ELSE "none"]} :
       Done(IF r.canceled THEN r ELSE SendEntries(r), net)
  /\ UNCHANGED <<ldrLog, pend, counted, answers, followerVars, failures, restarts>>

(* _continue_sending, from the timer that _block started.                  *)
BlockTimedout ==
  /\ rep.st = "blocking" /\ FreeIds(rep) # {}
  /\ rep.waitId = "none"
  /\ Done(SendEmptyEntries(rep), net)
  /\ UNCHANGED <<ldrLog, pend, counted, answers, followerVars, failures, restarts>>

(* append_entries of the leader's LogManager wakes the waiters.            *)
ClientAppend ==
  /\ Len(ldrLog) < MaxIndex
  /\ ldrLog' = Append(ldrLog, Term)
  /\ rep' = [rep EXCEPT !.callbacks = @ + rep.waiters, !.waiters = 0,
                        !.waitId = IF @ = "waiting" THEN "woken" ELSE @]
  /\ UNCHANGED <<pend, counted, net, answers, followerVars, failures, restarts>>

(* The leader's ballot box commits, by whatever quorum.                    *)
LeaderCommits ==
  /\ pend <= Len(ldrLog)
  /\ pend' = pend + 1
  /\ UNCHANGED <<ldrLog, rep, counted, net, answers, followerVars, failures, restarts>>

-----------------------------------------------------------------------------
(* The follower.                                                           *)

Answer(m, kind) ==
  IF IsLive(m)
  THEN {[id |-> m.id, idx |-> m.idx, size |-> m.size, kind |-> kind, last |-> FolLast]}
  ELSE {}

(* Faulty variant of CheckDependency: not checked.                         *)
CheckDependencyNot(m) == TRUE

(* Its entry follows what the follower has, and so do its dependencies.    *)
PrevFits(m) == OO \/ m.idx = 1 \/ TermAt(folLog, m.idx - 1) = m.prevTerm
CheckDependency(m) == m.size = 1 => Dependency(m.idx) \subseteq bits

Fits(m) == PrevFits(m) /\ CheckDependency(m)

(* handle_out_of_order_append_entries and AppendEntriesCache::store.  A    *)
(* second request for the same index is not entered in _rpc_map: nothing   *)
(* ever takes it out of _rpc_queue, and it is not answered.                *)
Cacheable(m) == m.size = 1 /\ FolLast < m.idx - 1

Cache(m, back) ==
  LET all == IF \E c \in cached : c.idx = m.idx THEN cached ELSE cached \cup {m}
      out == {c \in all : Cardinality({d \in all : d.idx <= c.idx}) > CacheSize}
  IN /\ cached' = all \ out
     /\ released' = back \cup out
     /\ UNCHANGED <<answers, folLog, stored, bits, stable, folCommit, folApplied>>

(* process_runable_rpcs.                                                   *)
Runnable(b) == {c \in cached : Dependency(c.idx) \subseteq b}

Refuse(m, back) ==
  /\ answers' = answers \cup Answer(m, "refused")
  /\ released' = back
  /\ UNCHANGED <<folLog, stored, bits, stable, cached, folCommit, folApplied>>

AcceptEmpty(m, back) ==
  /\ answers' = answers \cup Answer(m, "ok")
  /\ folCommit' = Max({folCommit, Min({m.committed, m.idx - 1})})
  /\ released' = back
  /\ UNCHANGED <<folLog, stored, bits, stable, cached, folApplied>>

(* append_entries of the follower's LogManager.                            *)
Overwrites(m) == folLog[m.idx] \notin {0, m.term} /\ m.idx <= FolLast

(* Faulty variant of NewBits: the bit is never set.                        *)
NewBitsNone(m) == bits

NewBits(m) == IF ~OO /\ folLog[m.idx] = m.term THEN bits ELSE bits \cup {m.idx}

AcceptEntry(m, back) ==
  LET cut == IF Overwrites(m) THEN m.idx .. MaxIndex ELSE {}
  IN /\ folLog' = [i \in Index |-> IF i = m.idx THEN m.term
                                   ELSE IF i \in cut THEN 0 ELSE folLog[i]]
     /\ stored' = stored \ cut
     /\ bits' = NewBits(m)
     /\ stable' = Append(stable, m)
     /\ cached' = cached \ Runnable(bits')
     /\ released' = back \cup Runnable(bits')
     /\ UNCHANGED <<answers, folCommit, folApplied>>

(* An entry that the follower has applied is acknowledged as it is.        *)
Applied(m) == m.idx <= folApplied

AcceptApplied(m, back) ==
  /\ answers' = answers \cup Answer(m, "ok")
  /\ folCommit' = Max({folCommit, m.committed})
  /\ cached' = cached \ Runnable(bits)
  /\ released' = back \cup Runnable(bits)
  /\ UNCHANGED <<folLog, stored, bits, stable, folApplied>>

Handle(m, fromCache, back) ==
  \/ ~Fits(m) /\ ~fromCache /\ Cacheable(m) /\ Cache(m, back)
  \/ ~Fits(m) /\ (fromCache \/ ~Cacheable(m)) /\ Refuse(m, back)
  \/ Fits(m) /\ m.size = 0 /\ AcceptEmpty(m, back)
  \/ Fits(m) /\ m.size = 1 /\ Applied(m) /\ AcceptApplied(m, back)
  \/ Fits(m) /\ m.size = 1 /\ ~Applied(m) /\ AcceptEntry(m, back)

Receive(m) ==
  /\ net' = net \ {m}
  /\ Handle(m, FALSE, released)
  /\ UNCHANGED <<leaderVars, failures, restarts>>

(* handle_append_entries_from_cache.                                       *)
HandleFromCache(m) ==
  /\ Handle(m, TRUE, released \ {m})
  /\ UNCHANGED <<leaderVars, net, failures, restarts>>

(* FollowerStableClosure::run, after the disk thread has written.          *)
FollowerStable ==
  LET m == Head(stable)
  IN /\ stable # <<>>
     /\ stored' = stored \cup {m.idx}
     /\ stable' = Tail(stable)
     /\ answers' = answers \cup Answer(m, "ok")
     /\ folCommit' = Max({folCommit, m.committed})
     /\ cached' = cached \ Runnable(bits)
     /\ released' = released \cup Runnable(bits)
     /\ UNCHANGED <<leaderVars, net, folLog, bits, folApplied, failures, restarts>>

(* A heartbeat, delivered at once: only the follower's commit index moves. *)
Heartbeat ==
  LET n == rep.next - 1
  IN /\ OO \/ n = 0 \/ TermAt(folLog, n) = TermAt(ldrLog, n)
     /\ folCommit' = Max({folCommit, Min({CommittedFor(rep), n})})
     /\ UNCHANGED <<leaderVars, net, answers, folLog, stored, bits, stable,
                    cacheVars, folApplied, failures, restarts>>

(* The state machine applies what is committed, and tells the LogManager.  *)
FollowerApplies ==
  LET n == Min({folCommit, FolLast})
  IN /\ folApplied < n
     /\ folApplied' = n
     /\ UNCHANGED <<leaderVars, net, answers, folLog, stored, bits, stable, cacheVars,
                    folCommit, failures, restarts>>

-----------------------------------------------------------------------------
(* What may go wrong.                                                      *)

(* A call fails; its request may or may not reach the follower.            *)
FailCall(m) ==
  /\ failures < MaxFail /\ failures' = failures + 1
  /\ answers' = answers \cup Answer(m, "failed")
  /\ net' \in {net, net \ {m}}
  /\ UNCHANGED <<leaderVars, followerVars, restarts>>

(* The follower restarts with what is on its disk; every call fails.       *)
Restart ==
  /\ restarts < MaxRestart /\ restarts' = restarts + 1
  /\ answers' = answers \cup
       UNION {Answer(m, "failed") : m \in net \cup cached \cup released \cup ToSet(stable)}
  /\ net' = {} /\ stable' = <<>> /\ cached' = {} /\ released' = {}
  /\ folLog' = [i \in Index |-> IF i \in stored THEN folLog[i] ELSE 0]
  /\ bits' = {} /\ folCommit' = 0 /\ folApplied' = 0
  /\ UNCHANGED <<leaderVars, stored, failures>>

(* Replicator::start.  The follower has run since it had its first entry,  *)
(* or has restarted since and forgotten the dependency bits.               *)
RepInit ==
  /\ ldrLog \in OldLogs
  /\ \E f \in OldLogs :
       /\ Matching(ldrLog, f)
       /\ folLog = [i \in Index |-> TermAt(f, i)]
       /\ stored = DOMAIN f
       /\ bits \in {{}, DOMAIN f}
  /\ pend = Len(ldrLog) + 1
  /\ rep = [next |-> pend, fly |-> <<[idx |-> pend, size |-> 0, id |-> 1]>>,
            flySize |-> 0, st |-> "appending", waitId |-> "none", canceled |-> FALSE,
            waiters |-> 0, callbacks |-> 0, acks |-> <<>>, ooStart |-> 1, out |-> {}]
  /\ net = {[id |-> 1, idx |-> pend, size |-> 0, prevTerm |-> TermAt(ldrLog, pend - 1),
             term |-> 0, committed |-> IF 1 < pend THEN 0 ELSE pend]}
  /\ answers = {} /\ counted = {}
  /\ stable = <<>> /\ cached = {} /\ released = {} /\ folCommit = 0 /\ folApplied = 0
  /\ failures = 0 /\ restarts = 0

RepNext ==
  \/ \E m \in answers : OnRpcReturned(m)
  \/ ContinueSending \/ BlockTimedout \/ ClientAppend \/ LeaderCommits
  \/ \E m \in net : Receive(m)
  \/ \E m \in released : HandleFromCache(m)
  \/ FollowerStable \/ Heartbeat \/ FollowerApplies
  \/ \E m \in net : FailCall(m)
  \/ Restart

RepSpec == RepInit /\ [][RepNext]_repVars

(* Calls end, threads run and timers fire.                                 *)
FairRepSpec ==
  /\ RepSpec
  /\ WF_repVars(ContinueSending) /\ WF_repVars(BlockTimedout) /\ WF_repVars(FollowerStable)
  /\ WF_repVars(\E m \in net : Receive(m))
  /\ WF_repVars(\E m \in released : HandleFromCache(m))
  /\ WF_repVars(\E m \in answers : OnRpcReturned(m))

-----------------------------------------------------------------------------
(* _on_rpc_returned counts an entry for this follower only if the follower *)
(* has that very entry: not a missing one, nor one of an earlier leader    *)
(* that the follower's last_log_index happens to cover.  (Once the follower *)
(* restarts this is lost: it answers for entries it has only in memory.)   *)
CountedIsPresent ==
  restarts = 0 => \A i \in counted : i <= Len(ldrLog) /\ folLog[i] = ldrLog[i]

(* An expectation that the code does not meet; no run checks it:           *)
(* _on_rpc_returned counts only what the follower has on disk.             *)
CountedIsStored == counted \subseteq stored

(* _oo_committed_entries reaches as far as any answer that can still be    *)
(* counted: front() and pop_front() never meet an empty deque.             *)
AnswerWithinSent ==
  \A m \in answers : IsLive(m) /\ m.kind = "ok" /\ m.size = 1 =>
     /\ m.last <= rep.ooStart + Len(rep.acks)
     /\ m.idx < rep.ooStart + Len(rep.acks)

(* _flying_append_entries_size, which bounds the pipeline, is the number   *)
(* of entries in _append_entries_in_fly, and a probe flies alone, as       *)
(* _send_empty_entries checks.                                             *)
FlyingSizeIsSum ==
  /\ rep.flySize = Sizes(rep.fly)
  /\ \A k \in DOMAIN rep.fly : rep.fly[k].size = 0 => Len(rep.fly) = 1

(* A blocked replicator has no waiter and no call in flight, so that       *)
(* _continue_sending never returns from the block timer with the id still  *)
(* locked ("Replication is in progress when block timedout").              *)
BlockedIsQuiet ==
  rep.st = "blocking" => rep.waitId = "none" /\ rep.fly = <<>>

(* The follower refuses an entry only when it lacks one before it, or has  *)
(* another one in its place; it does not refuse what it could append.      *)
(* (Until it restarts: LogManager::init does not rebuild the bitmap.)      *)
RefusedLacks ==
  [][restarts = 0 => \A m \in answers' \ answers : m.kind = "refused" /\ m.size = 1 =>
       \/ FolLast < m.idx - 1
       \/ folLog[m.idx - 1] # ldrLog[m.idx - 1]]_repVars

(* An expectation that the code does not meet; no run checks it: a         *)
(* follower commits only what the leader has committed.                    *)
FollowerCommitsLate == folCommit < pend

(* An entry is appended by the follower only after every earlier entry it  *)
(* depends on.  (A restart may lose the earlier one and keep the later.)   *)
DependenciesFirst ==
  restarts = 0 => \A i \in Index : folLog[i] = Term =>
     \A j \in 1 .. i - 1 : Depends(j) = Depends(i) => folLog[j] # 0

(* Every entry that the leader appends in its term is eventually counted   *)
(* for this follower by _on_rpc_returned.                                  *)
Replicated == \A i \in Index : TermAt(ldrLog, i) = Term ~> i \in counted
=============================================================================
