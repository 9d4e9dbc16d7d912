# CP-Raft in TLA+

A verification project for the C++ sources of this repository (`src/cpp`): CP-Raft,
a Raft derived from braft whose followers cache append-entries requests that arrive
early and, when the flag `oo_enabled` is set, store, acknowledge and commit log
entries out of order as long as their dependencies allow it.

The modules model the code, not the protocol on paper. Where code and comment
disagree, the module follows the code, and the disagreement is listed under
[Expectations the code does not meet](#6-expectations-the-code-does-not-meet).

## 1. The system

### Parts and state

| part | source | state |
|---|---|---|
| `Ballot` | `ballot.{h,cc}` | peers not yet found, two countdowns (new and old configuration) |
| `BallotBox` | `ballot_box.{h,cc}` | `_pending_index`, a queue of ballots, a queue of "committed out of order" flags, `_last_committed_index` |
| `ClosureQueue` | `closure_queue.{h,cc}` | `_first_index`, the clients' closures, flags of closures already taken |
| `FSMCaller` | `fsm_caller.{h,cc}` | an execution queue of tasks, `_last_applied_index`, `_oo_apply_queue` |
| `NodeImpl` | `node.{h,cc}` | term, vote, state, leader, vote counters, timers, the `AppendEntriesCache` |
| `LocalRaftMetaStorage` | `raft_meta.{h,cc}` | term and vote on disk |
| `Replicator`, `ReplicatorGroup` | `replicator.{h,cc}` | next index, calls in flight, acknowledgement flags, the wait id, the group's term |
| `LogManager` | `log_manager.{h,cc}` | the log in memory, last and maximal index, disk queue, batches, waiters, dependency bitmap |
| `SegmentLogStorage`, `Segment` | `log.{h,cc}` | segment files, `log_meta`, the arrays that index them |
| `RepeatedTimerTask` | `repeated_timer_task.{h,cc}` | running, stopped, destroyed, the library's timer |
| `ConfigurationManager`, `RaftService`, file and sync helpers, metrics, examples | the rest | see section 7 |

### How they interact

A client's task waits in the apply queue until `NodeImpl::apply` takes it, together
with others, and appends it to the `BallotBox`, the `ClosureQueue` and the `LogManager`. The disk thread of the `LogManager` writes it to
the `SegmentLogStorage` and counts the leader's own vote; one `Replicator` per
follower sends it and counts the follower's. `BallotBox::commit_at` moves the commit
index under its mutex and publishes it to the `FSMCaller` after the unlock. On a
follower, `handle_append_entries_request` checks term, previous entry and dependencies,
parks what is early in the `AppendEntriesCache`, and appends the rest; a
`FollowerStableClosure` answers once the disk thread has reached it and moves the
follower's commit index. `elect_self`, the vote handlers and `step_down` change term
and vote, persist them, and start or clear everything above. Two `RepeatedTimerTask`s,
the election timer and the vote timer, make a node ask for votes; the handlers start
and stop them under the node's mutex, and their callbacks take it.

### What is hard about it

- Locks are released in the middle: three election handlers drop the node's mutex
  while the disk answers for the last log id; `commit_at` publishes after its unlock;
  memory is cleared with bounds computed in an earlier critical section.
- Answers, requests and COMMITTED tasks are reordered, calls fail, and late answers
  reach a node that has changed its role.
- `elect_self` sends its requests before its own vote is on disk.
- Timers expire while a handler stops them; their callbacks run on threads of their
  own, which may outlive a `stop`, a new `start`, and the `destroy` of a shutdown.
- Errors overtake the tasks that wait for the `FSMCaller`.
- Files are changed by several system calls, any of which may be the last.
- Out-of-order entries make "the last index" three numbers (contiguous, largest,
  written last), which much of the inherited code takes for one.

`PROJECT.json` lists each of these hazards with its line and the properties that cover it.

### What correctness means here

One leader per term; what a leader commits is stored by a majority of each
configuration; the commit and applied indexes never retreat, and only committed
entries are applied, in order; a closure is run exactly once and reports success only
for what is applied; a stable closure reports only what is on disk; what is read back
is what was written; a follower is counted only for entries it has, and takes an
entry only after those it depends on; after an error nothing is applied any more;
without one what is committed is eventually applied, and what is appended is eventually
replicated; a server that may be elected keeps asking for votes until it leads, and a
node that is shut down gets back what its timers hold.

## 2. Plan

| step | modules | status |
|---|---|---|
| 1 | `Ballot`, `BallotBox`, their proofs | done |
| 2 | `CommitPipeline`: the box composed with `ClosureQueue` and `FSMCaller` | done |
| 3 | `Election` and its proofs | done |
| 4 | `LogManager` and its proofs | done |
| 5 | `Replication`: replicator, follower intake, cache, dependencies | done |
| 6 | `SegmentLog` | done |
| 7 | `RepeatedTimerTask` and `NodeTimers`, which implements it twice; their proofs | done |
| 8 | the apply queue and errors of the state machine in `CommitPipeline` | done |
| 9 | abstract specifications (a commit index with a quorum behind it; a log with a durable prefix), and `BallotBox`, `LogManager` shown to implement them; so far what they would say is stated, and proved, as invariants | open |
| 10 | `Replication` over several reigns of one leader (the dependency id queue); a raft meta storage that fails | open |
| 11 | proofs of what `Replication` and `SegmentLog` promise | open |

## 3. Modules

Every module names the source lines of each definition in `PROJECT.json` ("map").
A definition called "faulty variant" in a comment is not used by any specification; it
is the code with one mistake put in, and shows that a property would notice it.

**`Ballot`** (`ballot.cc`). `BallotInit`, `BallotGrant`, `BallotGranted` on a record
with the peers found and the two countdowns. `JointMajority` and `WellCounted` say what
the countdown is meant to compute.

**`BallotBox`** (`ballot_box.cc`). The variables are the members of the class; `pub`
holds, per thread, what the thread still has to do after it left the mutex. `CommitAt`
is the locked part of `commit_at`; `LoadCommitted` and `OnCommitted` are the two
unlocked steps behind it. `BecomeLeader`, `AppendPendingTask`, `ClearPendingTasks`,
`LearnCommitted` and `SetLastCommittedIndex` are what the node calls. `grants` and `reignStart` are history.
With `InOrder = TRUE` (`oo_enabled` off, the default) peers acknowledge prefixes.

**`CommitPipeline`** extends `BallotBox` with the apply queue, `ClosureQueue` and
`FSMCaller`. `ApplyTask` puts a task with an expected term, or with none, into the queue;
`PipeAppend` is `apply` taking one of them, and `PipeReject` is `apply` refusing it
because the node no longer leads or the term is another. A step-down clears the box
(`PipeClearBox`) and then the closures (`ClearClosures`), two critical sections between
which other threads run. `FSMRun(n)` takes n COMMITTED tasks as one batch, as the execution queue does, pops closures and runs the iterator, which
succeeds (`Succeeds`) or gives up at some entry and takes up to `MaxTail` entries back
(`Fails`). An error of the log reaches the caller through `DoOnError`, an urgent task. The
writes and reads just past the ends of its deques are modelled by what the build does
with that memory.

**`Election`** (`node.cc`, `raft_meta.cc`, the start of replicators). Calls are records
that move through the stages of their handler. The handlers that unlock in the middle
are split there: `HandleRequestVote`, `ReadLastLogId`, `FinishRequestVote`, and the same
for pre-vote and `elect_self`; `SendRequestVotes` and `SaveOwnVote` are separate because
the process may die between them. A server restarts from `metaTerm` and `metaVote`.
The log is the id of its last entry.

**`LogManager`** (`log_manager.cc`). Memory, disk queue, `AppendBatcher`, `_disk_id`,
`_applied_id` and the two-step clearing of memory; conflicts and truncation; waiters;
failing writes; restart. `batch` and `toAppend` are the closures and the entries the
`AppendBatcher` holds: `DiskTake` collects, `DiskFlush(n)` writes the first n entries and
runs the closures, and a truncation or a question for the last id (`DiskOther`) is
carried out only when the batch is flushed. `_last_log_index` advances over the slots of
memory as the code reads them back. The storage is a function from indexes to terms. The cluster
is reduced to the logs of past leaders, so that a new leader's log is one that
elections allow.

**`Replication`** (`replicator.cc`, `handle_append_entries_request`,
`AppendEntriesCache`, `FollowerStableClosure` in `node.cc`). One replicator and its
follower during one reign, over a network that reorders. `rep` is the `Replicator`;
`fly` is `_append_entries_in_fly`, `acks` is `_oo_committed_entries`. The follower's
`LogManager` is replaced by what it promises: entries are present at once and stored
later, in order.

**`SegmentLog`** (`log.cc`). The directory is a function from file names to records,
together with `log_meta`. Every operation is a fold over system calls that collects the
directories it passes through; the process returns from it or dies at any of them.
`Verdict` and `Load` are `init`: the first reason to fail, or what it loads.

**`RepeatedTimerTask`** (`repeated_timer_task.cc`). A task is a record: the flags
`stopped`, `running` and `destroyed`, and counts of what is outside the mutex: timers the
library holds, threads before and inside `run()`, `on_destroy` calls to come and made.
Each operation is a function on that record; where `bthread_timer_add` may fail it
returns the set of outcomes. `TimerSpec` is a task whose owner calls anything at any
time: the abstract specification of an owner.

**`NodeTimers`** (`node.cc`). The election timer and the vote timer of a node, each an
instance of `RepeatedTimerTask`, and every handler that touches them: `StepDown`,
`ElectSelf`, becoming leader, the two callbacks, `Shutdown`. A step calls at most one
operation of each timer, because the timers' own mutexes are taken one after the other.
Of elections it keeps the state, whether calls are out, and whether a leader was heard.

The proofs are in `BallotProofs`; `BallotBoxProofs`; `ElectionLemmas` (operators and
handlers) and `ElectionProofs` (theorems); `LogManagerLemmas` (types, sequences, storing
and flushing, chains of closures), `LogManagerProofs` (what holds with conflicts too) and
`LogPrefixProofs` (what holds without); `NodeTimersProofs`, for `RepeatedTimerTask` as well.
`MC*` hold the bounds of the TLC instances.

## 4. Runs

State counts are distinct states; times are for two workers.

| run | module, cfg | shows | states |
|---|---|---|---|
| `ballot_box` | MCBallotBox | With two joint configurations ({p1,p2,p3} and {p1,p2}), three entries and two reigns: the inductive invariant; with it that no flag outlives its ballot and nothing is published early; commits need both majorities; a late call names an old entry; the commit index never retreats | 681,268 (1:42) |
| `commit_pipeline` | MCCommitPipeline | Applied entries are committed and ascend; each closure of each task runs once, whether the task is appended, refused, applied, taken back or cleared; success means applied and stored by a quorum; after an error nothing is applied; without one whatever is committed is eventually applied | 273,650 (1:22) |
| `election` | MCElection | Three servers, one of them never a candidate, three terms, lost calls, and in the first two terms a restart and a log that grows: one leader per term, no two leaders meet, what is on disk only advances, whoever is followed was elected, and the inductive invariant | 288,864 (1:10) |
| `log_manager` | MCLogManager | In order, three entries, two terms: reads find every accepted entry while memory is cleared by two threads; `last_log_id` answers right; duplicates are stable | 688,096 (0:45) |
| `log_manager_fail` | MCLogFail | Conflicts, failing writes, a restart: what was reported stable is on disk, and the disk queue carries exactly what is missing | 725,168 (0:41) |
| `log_manager_oo` | MCLogOO | Entries out of order, a waiting replicator: memory is indexed right, `_last_log_index` is contiguous, no wakeup is lost | 299,718 (0:32) |
| `replication` | MCReplication | In order, from any two logs of at most one old entry: every entry is eventually replicated and counted | 10,307 (0:38) |
| `replication_oo` | MCReplOO | Out of order with dependencies, one failing call or one restart: dependencies first, only present entries are counted, the window's accounting is right, refusals are justified, a blocked replicator is quiet | 714,533 (0:49) |
| `replication_conflict` | MCReplConflict | Violated: with two old entries a follower's own old entry is committed and counted | stops at the violation |
| `segment_log` | MCSegmentLog | Out-of-order batches of two over four indexes, two terms, truncation at both ends, reset, a crash at any system call and a restart: what is read is what was written | 1,377,244 (1:44) |
| `segment_log_restart` | MCSegmentRestart | Violated: after two restarts `init` fails | stops at the violation |
| `node_timers` | MCNodeTimers | A node with two timers, three messages of others and two shutdowns: each timer sees only calls a task allows (refinement) and keeps the order a task promises; the timer that the state needs runs; a server that does not lead keeps asking for votes; shutdown releases both timers | 4,433 (0:07) |

Each property of a run is broken by a faulty variant of some definition, which
`PROJECT.json` lists ("mutants").

### Bounds

- Indexes: three let an entry be behind, at and ahead of the commit index, and let a
  gap form in the middle. `CommitPipeline` has two: an old entry and one of the reign.
  `SegmentLog` has four: two segments of two entries.
- Terms and reigns: two, so that something is left over from an earlier one;
  `election` has three, of which the first has no leader. Two calls at a time let the
  candidates of a term compete for the third server's vote, because calls may be lost;
  the third term, with nothing restarted, no log grown and only its RequestVotes
  overlapping (`PlainBound`), lets an old leader's replicators live beside a new leader.
- `MaxTask` bounds the tasks waiting in the apply queue. `MaxTail = 1`: the state machine
  takes back one entry when it gives up; see section 6 for two.
- `MaxMessages`, `MaxShutdown`: three messages let a node follow, be made to step down
  and be undone after a shutdown; two shutdowns meet each other.
- Queues: `MaxTasks`, `MaxQueue`, `MaxRpc`, `MaxCalls` bound what is under way at the
  same time and not how often it happens. Two of a kind are enough to overtake.
- `raft_max_append_entries_cache_size`, `raft_max_segment_size` and
  `raft_max_segment_index_size` are set so low that the limits are met.
- `MaxRecords` cuts behaviours off once a file has more than two records. Two records
  make a segment with a gap, a full one and a truncated one.
- Bounds on terms, indexes and restarts stand in the guards; the others are state
  constraints. `OneFault` has a run look at a failing call or a restart, not both.

Symmetry is used for `election` only, which checks no liveness. Deadlock is not
checked: under these bounds every system comes to an end when its inputs are used up.

### Fairness

`FairPipeSpec`: a thread that left the mutex of `commit_at` publishes, since nothing
blocks it; the execution queue runs while it holds tasks, as bthread's execution queues
do; a step-down that cleared the box clears the closures, the next statement. Nothing
is assumed of clients, peers or elections.

`FairTimersSpec`: a timer that is set expires, a thread that was started runs and its
handler returns, a call that is out fails in the end if it is not answered (it has a
timeout), the time since the leader was last heard passes, and the statements of `start`
and `shutdown` follow each other. Nothing is assumed of the other servers, of who wins
an election, or of anybody calling `shutdown`.

`FairRepSpec`: requests under way arrive and answers return, with no call failing
(`MaxFail = 0`); the disk thread and the cache's released requests go on; the waiter's
callback and the block timer run. Delivery is an assumption on the network; the rest is
scheduling. `Replicated` does not survive a failing call, see below.

## 5. Proofs

TLAPS checks these for every value of the constants: any finite configurations or set
of servers, any log length, any number of terms, reigns and restarts. (The bounds occur
in the guards; nothing in a proof depends on how large they are.)

**`BallotProofs`.** `GrantedIffMajority`: the countdown of `Ballot` reaches zero exactly
when the peers found are a majority of each configuration. `MajoritiesMeet`: two
majorities of a finite set have a member in common. They rest on the cardinality
theorems of the library.

**`BallotBoxProofs`.** Assumption: `InOrder`, the default setting; and that
configurations are finite (`ConfAssumption`). `CommittedByQuorum` is not inductive: an
arbitrary state in which some later ballot is granted, or some flag is left over, lets
`commit_at` commit an entry nobody acknowledged. `InOrderInv` adds what excludes this:

- `BoxShape`: all flags are FALSE, the queues fit the indexes, nothing pending is committed;
- `CountsMatch`: each ballot has counted exactly the acknowledgements of its entry, and
  none in the queue is granted;
- `GrantsNested`: whoever acknowledged an entry acknowledged all earlier pending ones;
- `ReignCommitted`: what the reign has passed has a quorum;
- `CallsNameOldEntries`: a follower's late call names an entry before the reign.

One lemma per action shows that it is preserved. The long one, `CommitAtInv`, shows that
the granted ballots are a prefix of the queue (`GrantedPrefix`, by nesting) and that the
loop of `commit_at` pops exactly that prefix (`CommitEffect`). From `BoxInvariant` follow
`BoxTypeCorrect`, `CommitsNeedQuorum`, `NothingGrantedWaits`, `FlagsAreFresh`,
`NothingPublishedEarly`, `LateCallsAreOld` and the action property `CommitIndexMonotone`.

**`ElectionProofs`** (on `ElectionLemmas`). Assumption: the set of
servers is finite. `ElectionSafety` is not inductive, since it says nothing of votes.
`ElectionInv` adds that a vote in memory is the one on disk, or the own vote of an
`elect_self` that has not saved it yet (`SavedOrOwn`); that the votes ever saved by a
server in a term agree and are reflected by its disk (`CastOnce`); that running elections
vote for their own node (`ElectionsVoteForSelf`); that what a candidate counts was cast
for it (`CountedIsCast`); and that each leader was given the votes of a majority
(`LeadersElected`). The window in which the own vote is counted but not saved is closed
by `SaveOwnVote`: no response is handled before it, because it runs in the same critical
section as the sending. Theorems: `ElectionInvariant`, `ElectionTypeCorrect`,
`GrantsAreSaved`, and `ElectionIsSafe`, which uses `MajoritiesMeet`.

`LeadersAreKnown` needs three facts together, about whom servers follow, the terms of
replicator groups, and AppendEntries calls under way (`KnownIds`, `KnownGroups`,
`KnownCalls`): each names a server elected in that term, and each feeds the next.
`NoSecondLeader` follows from it and `ElectionSafety`: the branch of
`handle_append_entries_request` that raises the term against a second leader is dead
code. `SavedMetaAdvances` is the action property `MetaAdvances`, from `ElectionInv`.

**`LogManagerProofs`.** For every number of entries, terms, failures and restarts, with
conflicts and truncations.

- `DiskReachesLogAlways`, out of order too: if the pending closures all run, the storage
  is the log the node accepted. `DiskReachesLog` speaks of the batch as closures, while
  `DiskFlush` writes `toAppend`, a list of its own. The strengthening says that no closure
  has two entries of an index and that it reports its own entries or a duplicate
  (`PendingWellFormed`), and that the last entry of an index in `toAppend` is that of the
  last closure that writes it (`BatchComplete`).
- `AckedStaysStored`, for `~OORep`: what was reported stable is on disk until it is cut
  off. `AckInv` adds `InOrder`: between two writes of an index, and between the report of
  an entry and the next write of its index, a truncation is queued. Without `~OORep` it
  is false (section 6).
- `NoWakeupLost`: whoever changes `_last_log_index` takes every waiter out.

**`LogPrefixProofs`.** Assumptions: `~OORep` and `~Conflicts` (no new leader lacks entries
of this node). With conflicts TLC refutes each of the five properties; out of order it
refutes three, and of the other two, `MemoryIndexed` holds on the instance of
`log_manager_oo` while `DuplicateIsStored` is open (section 6).
They are not inductive one by one: whether memory may be cleared up to
an id depends on what is on disk, which depends on what the disk thread took from the
queue. `PrefixInv` describes all of it by one number d, how far the disk has got:

- `LogIsPrefix`: the log has entries exactly up to `last`, of ascending terms, and a
  leader elsewhere has them as well. Ascending terms make the order of ids, which
  `_disk_id` and `_applied_id` are compared by (`MinId`), the order of indexes (`OlderIs`);
- `OnDisk(d)`: the storage holds the first d entries; memory holds the end of the log and
  begins at d + 1 or before; no id that memory is cleared up to is beyond d;
- `ComesNext(d)`, unless writing failed: `toAppend` continues d, and the closures of the
  queue continue each other from there to `last` (`Chain`).

One lemma per action gives the new d: `LeaderKeeps` and `FollowerKeeps` put a link to the
chain, `TakeKeeps` moves one from the queue to the batch, `WritingFlushKeeps` advances d,
`ClearKeeps` uses that a dropped entry is at d or before, `RestartKeeps` begins anew with
d = `last`. From `PrefixInv` follow `ReadsFindTheLog`, `MemoryIsIndexed`, `LastHasNoGap`,
`LastIdIsRight`, and `DuplicatesAreStored`, the last for `~CanFail`.

**`NodeTimersProofs`.** `TimerInvariant`: whatever the owner of a task calls, in any
order, its timers and threads make at most one chain, and `on_destroy` comes at most once
and after everything else. The invariant `TaskOK` is inductive as it stands; one lemma
per operation, each a case split on the flags.

`NodeImplementsTasks`: `NodeTimersSpec` implements `TimerSpec` for
either timer, under the mapping that takes the timer's record for the task and
`phase # "new"` for `inited`. `TasksInOrder` carries `TimerInvariant` over.
`NeededTimerRuns` is `TimersFollowState`; its strengthening `TimersUsable` adds the phases
of `start` and that no timer is destroyed before a shutdown, without which a `start`
has no effect. All are for any number of messages and shutdowns, with or without
failing timers.

**Only model-checked.**

- Liveness under fairness, which is out of the prover's reach, as ENABLED is:
  `CommittedIsApplied`, `Replicated`, `KeepsTrying`, `TimersReleased`.
- `CommitPipeline`: popping closures and running the iterator are folds over the tasks
  and closures of a batch, and so are the system calls of `SegmentLog` and the sum in
  `Replication`'s `FlyingSizeIsSum`. What a fold computes for inputs of any length takes
  induction over data, for which the installed provers have no rule.
- The other properties of `Replication` (`DependenciesFirst`, `CountedIsPresent` and those
  about the replicator's window). They are within reach; no inductive invariant has been
  worked out for the requests under way, the cache and the window together.
- The out-of-order mode, except `DiskReachesLog` and `WaitersAreCurrent`.

No module uses RECURSIVE operators.

## 6. Expectations the code does not meet

Two are runs with a finding each in `PROJECT.json`:

- `replication_conflict`: `FollowerStableClosure::run` takes the leader's commit index as
  it is, although its comment says why it must not: a follower commits and applies
  an entry of an earlier term, and later acknowledges the leader's entry at that index
  as already applied.
- `segment_log_restart`: `Segment::load` does not count the valid entries, so that a
  segment that was open at a restart is never closed; the next restart finds two open
  segments and `init` fails.

Others are not runs of their own. Each can be reproduced by changing the constants of an
existing configuration as given:

| expectation | module | where TLC refutes it |
|---|---|---|
| `AppliedWithoutGaps`: what `_last_applied_index` has passed was applied | CommitPipeline | commit_pipeline as it is; a batch with a closure skips entries without one |
| `AppliedOnce` | CommitPipeline | commit_pipeline with `InOrder = FALSE` |
| `FlaggedOnlyIfGranted` | BallotBox | ballot_box with `InOrder = FALSE`, `OldConf = {}`, `MaxIndex = 4`, `MaxTasks = 0`, `SYMMETRY Symmetry` and `CONSTRAINT OnlyLeaderCommits`; flags outlive a step-down |
| `ClosureRunOnce` | CommitPipeline | commit_pipeline with `MaxTail = 2`; `set_error_and_rollback` ignores how many tasks are taken back, and a closure is never run |
| `NodeStopsOnError`: after an error "no further changes on the StateMachine as well as the Node would be allowed" (`raft.h`) | CommitPipeline | commit_pipeline; `NodeImpl::on_error` is empty |
| `ShutdownOnce`: shutdown is idempotent | NodeTimers | node_timers; a message makes the node step down, which undoes `STATE_SHUTTING` |
| `ReplicatorsOfThisTerm` | Election | election with `Server = {s1, s2}`, `MaxTerm = 4`, `PlainTerm = 5`, `MaxIndex = 0`, `MaxRestart = 0`, `MaxCalls = 1`; `step_down` does not stop replicators |
| `MemoryIndexed`, `ReadsAgree`, `LastIsContiguous`, `LastIdAnswered`, `DuplicateIsStored` | LogManager | log_manager with `Conflicts = TRUE`, `MaxQueue = 4`; truncation leaves `_max_log_index`, by which the slots of memory are computed (the last one takes 14 million states) |
| `DuplicateIsStored` | LogManager | log_manager with `CanFail = TRUE` |
| `ReadsAgree`, `LastIdAnswered` | LogManager | log_manager_oo with `MaxQueue = 3` |
| `LastIsContiguous` | LogManager | log_manager_oo with `MaxRestart = 1` |
| `AckedIsStored` | LogManager | log_manager_oo with `MaxTerm = 2`; entries beyond `_last_log_index` are written over without a truncation |
| `CountedIsStored` | Replication | replication with `MaxIndex = 3`, `MaxFly = 3` |
| `FollowerCommitsLate` | Replication | replication; `_pending_index` is sent as the commit index |
| `Replicated` | Replication | replication with `MaxFail = 1`, `MaxIndex = 1` |
| `InitSucceeds` | SegmentLog | segment_log_restart with `Truncates = TRUE`, `MaxBytes = 1`, `MaxRestart = 1`; a truncated segment is loaded without end |

`CountedIsPresent`, `RefusedLacks` and `DependenciesFirst` are stated for a follower that
has not restarted, and `OrderlyLoads` for directories without the two shapes above,
because they do not hold otherwise.

## 7. Not modelled

- Configuration changes: no code path appends a configuration entry. `BallotBox` and its
  proofs cover joint configurations anyway.
- The step-down timer: `NodeImpl::start` never calls its `init`, and each operation of a
  task that was not initialised returns at once; `handle_stepdown_timeout` is dead code.
- Code without a caller: `vote`, leadership transfer (`transfer_leadership_to`,
  `stop_transfer_leadership`, `send_timeout_now_and_stop`,
  `stop_all_and_find_the_next_candidate`), `wait_caughtup`, `change_readonly_config`,
  `stop_replicator`; `stop_all` outside the destructor; the leader and following
  callbacks of `FSMCaller`.
- A heartbeat's own timer and answer: `Election` has heartbeats as AppendEntries calls
  that may be sent whenever a replicator lives.
- `truncate_prefix` and `reset` of `LogManager`: no caller. `SegmentLog` has both.
- Failing system calls and lost page caches in `SegmentLog`; failing saves of raft meta.
- Data races on `AppendEntriesCache` (walked after the unlock): each walk is atomic here.
- Shutdown of the parts other than the timers: `NodeImpl::shutdown` tears down the log
  manager and the caller, and is called by `examples/raft_server.cc` only.
- Expiry times: a timer that is set may expire at any moment.
- Metrics, checksums, serialisation, closures' plumbing, `examples/`.
