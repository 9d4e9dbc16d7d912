---------------------------- MODULE CommitPipeline ----------------------------
(***************************************************************************)
(* From a client's task to the user's state machine: the apply queue of    *)
(* NodeImpl (cpp/node.cc) and BallotBox, composed with                     *)
(* cpp/closure_queue.{h,cc} and cpp/fsm_caller.{h,cc}.                     *)
(*                                                                         *)
(* Tasks wait in an execution queue until the node, if it leads, appends   *)
(* their entries and pairs them with the closures of the tasks.  The       *)
(* FSMCaller's execution queue, one thread, takes COMMITTED tasks in       *)
(* batches, pops the closures of the committed entries and hands both to   *)
(* StateMachine::on_apply, until an error is reported to it.  The threads  *)
(* that interleave are the clients, the two execution queues, those of     *)
(* BallotBox, and the node stepping down, which clears the box and the     *)
(* closures in two separately locked halves.                               *)
(*                                                                         *)
(* A closure is named by its task, a task by the order of submission.      *)
(***************************************************************************)
EXTENDS BallotBox, SequencesExt

CONSTANTS
  MaxTask,   \* bound on the tasks of the clients
  MaxTail    \* bound on the tasks that one set_error_and_rollback takes back

VARIABLES
  applyQueue,   \* NodeImpl::_apply_queue
  clearing,     \* the node is between the two halves of clear_pending_tasks
  cFirst,       \* ClosureQueue::_first_index
  cQueue,       \* ClosureQueue::_queue
  cFlags,       \* ClosureQueue::_has_committed_queue
  lastApplied,  \* FSMCaller::_last_applied_index
  ooApply,      \* FSMCaller::_oo_apply_queue
  fsmError,     \* FSMCaller::_error is set
  applied,      \* history: the indexes that on_apply has applied, in order
  submitted,    \* history: how many tasks were submitted
  place,        \* history: task -> reign and index it was appended at
  ran           \* history: task -> how its closure was run

closureVars == <<cFirst, cQueue, cFlags>>
fsmVars     == <<lastApplied, ooApply, fsmError, applied>>
taskVars    == <<applyQueue, submitted, place>>
pipeVars    == <<vars, clearing, closureVars, fsmVars, taskVars, ran>>

TaskId  == 1 .. MaxTask
AnyTerm == 0   \* expected_term = -1

PipeInit ==
  /\ Init
  /\ clearing = FALSE
  /\ cFirst = 0 /\ cQueue = <<>> /\ cFlags = <<>>
  /\ lastApplied = 0 /\ ooApply = <<>> /\ fsmError = FALSE /\ applied = <<>>
  /\ applyQueue = <<>> /\ submitted = 0
  /\ place = [c \in TaskId |-> <<0, 0>>]
  /\ ran = [c \in TaskId |-> "no"]

(* Running a closure that has run before is what must never happen.        *)
RunAll(done, status) ==
  [c \in TaskId |->
     IF c \notin done THEN ran[c]
     ELSE IF ran[c] = "no" THEN status ELSE "twice"]

-----------------------------------------------------------------------------
(* The node's steps with their effect on the closure queue.                *)

(* reset_pending_index also calls ClosureQueue::reset_first_index.         *)
PipeBecomeLeader ==
  /\ ~clearing
  /\ BecomeLeader
  /\ cFirst' = lastLog + 1
  /\ UNCHANGED <<clearing, cQueue, cFlags, fsmVars, taskVars, ran>>

(* apply_task: a task may ask for the term it was made for.                *)
ApplyTask ==
  /\ submitted < MaxTask
  /\ submitted' = submitted + 1
  /\ \E term \in {AnyTerm, reign} :
       applyQueue' = Append(applyQueue, [id |-> submitted + 1, expected |-> term])
  /\ UNCHANGED <<vars, clearing, closureVars, fsmVars, place, ran>>

(* apply, on the first task of the queue: whether the node takes it.       *)
Acceptable(t) == state = "leader" /\ t.expected \in {AnyTerm, reign}

(* append_pending_task also calls append_pending_closure.                  *)
PipeAppend ==
  /\ ~clearing /\ applyQueue # <<>> /\ Acceptable(Head(applyQueue))
  /\ AppendPendingTask
  /\ cQueue' = Append(cQueue, Head(applyQueue).id)
  /\ cFlags' = Append(cFlags, FALSE)
  /\ place' = [place EXCEPT ![Head(applyQueue).id] = <<reign, lastLog + 1>>]
  /\ applyQueue' = Tail(applyQueue)
  /\ UNCHANGED <<clearing, cFirst, fsmVars, submitted, ran>>

PipeReject ==
  /\ ~clearing /\ applyQueue # <<>> /\ ~Acceptable(Head(applyQueue))
  /\ ran' = RunAll({Head(applyQueue).id}, "eperm")
  /\ applyQueue' = Tail(applyQueue)
  /\ UNCHANGED <<vars, clearing, closureVars, fsmVars, submitted, place>>

(* The first half of clear_pending_tasks: the box, under its mutex.        *)
PipeClearBox ==
  /\ ~clearing
  /\ ClearPendingTasks
  /\ clearing' = TRUE
  /\ UNCHANGED <<closureVars, fsmVars, taskVars, ran>>

(* Faulty variant of ClearClosures: the closures are dropped, not run.     *)
ClearClosuresSilently ==
  /\ clearing
  /\ clearing' = FALSE
  /\ cQueue' = <<>> /\ cFirst' = 0
  /\ UNCHANGED <<vars, cFlags, fsmVars, taskVars, ran>>

(* The second half, ClosureQueue::clear: every closure fails with EPERM    *)
(* and _has_committed_queue stays as it is.                                *)
ClearClosures ==
  /\ clearing
  /\ clearing' = FALSE
  /\ cQueue' = <<>> /\ cFirst' = 0
  /\ ran' = RunAll(ToSet(cQueue), "eperm")
  /\ UNCHANGED <<vars, cFlags, fsmVars, taskVars>>

PipeReplaceLog ==
  /\ ~clearing
  /\ \E n \in 0 .. MaxIndex : ReplaceLog(n)
  /\ UNCHANGED <<clearing, closureVars, fsmVars, taskVars, ran>>

(* The box is called without the node's mutex, except that a follower      *)
(* learns a commit index under it.                                         *)
PipeLearn ==
  /\ ~clearing
  /\ \E t \in {Self, RpcThread}, c \in Index, oo \in SUBSET Index :
       LearnCommitted(t, c, oo)
  /\ UNCHANGED <<clearing, closureVars, fsmVars, taskVars, ran>>

PipeCommitAt ==
  /\ \E peer \in Peer, S \in SUBSET Index : CommitAt(peer, S)
  /\ UNCHANGED <<clearing, closureVars, fsmVars, taskVars, ran>>

PipePublish(t) ==
  /\ LoadCommitted(t) \/ OnCommitted(t) \/ SetLastCommittedIndex(t)
  /\ UNCHANGED <<clearing, closureVars, fsmVars, taskVars, ran>>

-----------------------------------------------------------------------------
(* FSMCaller::run on a batch of COMMITTED tasks.                           *)

Interval(a, b) == [k \in 1 .. (IF b < a THEN 0 ELSE b - a + 1) |-> a + k - 1]

(* Faulty variants of BatchIndex: the index of the last task of the batch, *)
(* and the index behind the largest one.                                   *)
BatchIndexLast(batch) == Last(batch).index
BatchIndexBehind(batch) == 1 + Max({batch[k].index : k \in DOMAIN batch})

(* The tasks are merged: the largest index and all out-of-order indexes.   *)
BatchIndex(batch) == Max({batch[k].index : k \in DOMAIN batch})
BatchOO(batch) ==
  FoldLeft(LAMBDA acc, t : acc \o SetToSortSeq(t.oo, <), <<>>, batch)

(* pop_closure_until: the indexes up to `to' and then the out-of-order     *)
(* ones, each unless its flag says that it was given out before.  The      *)
(* flags of indexes below cFirst were TRUE when they were popped.          *)
NotGivenOut(i) == i - cFirst + 1 \in DOMAIN cQueue /\ ~cFlags[i - cFirst + 1]

Emitted(to, oo) ==
  FoldLeft(LAMBDA acc, i : IF NotGivenOut(i) /\ ~Contains(acc, i)
                           THEN Append(acc, i) ELSE acc,
           <<>>, Interval(cFirst, to) \o oo)

OnlyEchoes(oo) == cQueue = <<>> \/ (oo # <<>> /\ Last(oo) < cFirst)

BeyondQueue(oo) == oo # <<>> /\ Last(oo) > cFirst + Len(cQueue) - 1

PopClosureUntil(to, oo) ==
  IF OnlyEchoes(oo)
  THEN [closures |-> <<>>, indexes |-> oo, n |-> 0, flags |-> cFlags]
  ELSE IF BeyondQueue(oo)
  THEN [closures |-> <<>>, indexes |-> <<>>, n |-> 0, flags |-> cFlags]
  ELSE LET out == Emitted(to, oo)
           up  == [k \in DOMAIN cFlags |->
                     cFlags[k] \/ Contains(out, cFirst + k - 1)]
       IN [closures |-> [k \in DOMAIN out |-> cQueue[out[k] - cFirst + 1]],
           indexes  |-> out,
           n        |-> CHOOSE n \in 0 .. Len(up) : LeadingTrue(up, n),
           flags    |-> up]

(* Faulty variant of Visited: the iterator starts at _last_applied_index.  *)
VisitedFromLast(popped, to) ==
  IF popped.closures = <<>>
  THEN popped.indexes \o Interval(Max({lastApplied, 1}), to)
  ELSE popped.indexes

(* IteratorImpl::next: without closures the sequential indexes follow the  *)
(* given ones, with closures only the given indexes are visited.           *)
Visited(popped, to) ==
  IF popped.closures = <<>>
  THEN popped.indexes \o Interval(lastApplied + 1, to)
  ELSE popped.indexes

(* The bookkeeping of _oo_apply_queue.  An index at distance Len(q) is     *)
(* written just past the end of the deque and lost at the next push_back;  *)
(* front() of the empty deque, whose slot is fresh memory, reads as FALSE. *)
OOApplied(visited) ==
  FoldLeft(LAMBDA q, i :
             LET d == i - lastApplied
             IN IF d > Len(q) \/ d < 0 THEN Append(q, FALSE)
                ELSE IF d < Len(q) THEN [q EXCEPT ![d + 1] = TRUE] ELSE q,
           ooApply, visited)

(* on_apply applies what it is given and runs the closures.                *)
Succeeds(popped, visited) ==
  /\ applied' = applied \o visited
  /\ ran' = RunAll(ToSet(popped.closures), "ok")
  /\ UNCHANGED fsmError

(* on_apply gives up: set_error_and_rollback(ntail) takes back the entries *)
(* from position k on, and run_the_rest_closure_with_error starts where    *)
(* the iterator stands, ntail - 1 positions later.  (It goes on one place  *)
(* past the end, where it finds a null pointer or the process ends.  On a  *)
(* follower, which has no closures, the process always ends, so that here  *)
(* only a leader's on_apply gives up.)                                     *)
Fails(popped, visited, k, ntail) ==
  LET done == SubSeq(popped.closures, 1, k - 1)
      rest == DropFront(popped.closures, k + ntail - 2)
  IN /\ popped.closures # <<>> /\ k + ntail - 1 <= Len(visited)
     /\ applied' = applied \o SubSeq(visited, 1, k - 1)
     /\ ran' = [c \in TaskId |-> IF Contains(done, c) THEN RunAll({c}, "ok")[c]
                                 ELSE RunAll(ToSet(rest), "error")[c]]
     /\ fsmError' = TRUE

(* What do_committed does with a batch that brings something new.          *)
ApplyCommitted(to, oo) ==
  LET popped  == PopClosureUntil(to, oo)
      visited == Visited(popped, to)
      marks   == OOApplied(visited)
  IN /\ cFirst' = cFirst + popped.n
     /\ cQueue' = DropFront(cQueue, popped.n)
     /\ cFlags' = DropFront(popped.flags, popped.n)
     /\ \/ Succeeds(popped, visited)
        \/ \E k \in DOMAIN visited, ntail \in 1 .. MaxTail :
             Fails(popped, visited, k, ntail)
     /\ \E m \in 0 .. Len(marks) :
          /\ LeadingTrue(marks, m)
          /\ ooApply' = DropFront(marks, m)
          /\ lastApplied' = to + m

(* Faulty variant of DoCommitted: _error is not looked at.                 *)
DoCommittedAnyway(to, oo) ==
  IF lastApplied >= to /\ oo = <<>>
  THEN UNCHANGED <<closureVars, fsmVars, ran>>
  ELSE ApplyCommitted(to, oo)

DoCommitted(to, oo) ==
  IF fsmError \/ (lastApplied >= to /\ oo = <<>>)
  THEN UNCHANGED <<closureVars, fsmVars, ran>>
  ELSE ApplyCommitted(to, oo)

FSMRun(n) ==
  LET batch == SubSeq(tasks, 1, n)
  IN /\ n \in 1 .. Len(tasks)
     /\ tasks' = DropFront(tasks, n)
     /\ DoCommitted(BatchIndex(batch), BatchOO(batch))
     /\ UNCHANGED <<nodeVars, boxVars, pub, ghostVars, clearing, taskVars>>

(* An error that LogManager::report_error queues overtakes the COMMITTED   *)
(* tasks; set_error keeps the first one, and NodeImpl::on_error is empty.  *)
DoOnError ==
  /\ ~fsmError /\ fsmError' = TRUE
  /\ UNCHANGED <<vars, clearing, closureVars, lastApplied, ooApply, applied,
                 taskVars, ran>>

PipeNext ==
  \/ ApplyTask \/ PipeAppend \/ PipeReject
  \/ PipeBecomeLeader \/ PipeClearBox \/ ClearClosures
  \/ PipeReplaceLog \/ PipeLearn \/ PipeCommitAt
  \/ \E t \in Thread : PipePublish(t)
  \/ \E n \in 1 .. Len(tasks) : FSMRun(n)
  \/ DoOnError

PipeSpec == PipeInit /\ [][PipeNext]_pipeVars

(* A thread that has left the mutex of commit_at goes on to publish, the   *)
(* execution queue runs while it holds tasks, and a step-down finishes.    *)
(* Only FSMRun shortens tasks, and it can whenever there is one.           *)
PipeFairness ==
  /\ \A t \in Thread : WF_pipeVars(PipePublish(t))
  /\ WF_tasks(\E n \in 1 .. Len(tasks) : tasks' = DropFront(tasks, n))
  /\ WF_pipeVars(ClearClosures)

FairPipeSpec == PipeSpec /\ PipeFairness

-----------------------------------------------------------------------------
(* "for any index pair i, j (i < j), task at index |i| must be applied     *)
(* before task at index |j|" (raft.h, Iterator::index): the indexes given  *)
(* to on_apply ascend, so none is applied twice, over all reigns.          *)
AppliedAscends ==
  \A j, k \in DOMAIN applied : j < k => applied[j] < applied[k]

(* Only committed entries reach the state machine.                         *)
AppliedIsCommitted == \A k \in DOMAIN applied : applied[k] <= lastCommitted

(* Every closure given to apply_task waits in one of the two queues or has *)
(* been run, and it is run once: with success or an error by the FSMCaller,*)
(* with EPERM by apply or by a step-down.                                  *)
ClosureRunOnce ==
  \A c \in TaskId :
    /\ ran[c] # "twice"
    /\ c <= submitted <=>
         \/ ran[c] # "no" \/ Contains(cQueue, c)
         \/ \E k \in DOMAIN applyQueue : applyQueue[k].id = c

(* A client is told "success" only for an entry that the state machine has *)
(* applied and, during the reign that accepted it, a quorum has stored.    *)
SuccessMeansDurable ==
  \A c \in TaskId : ran[c] = "ok" =>
    /\ Contains(applied, place[c][2])
    /\ place[c][1] = reign => JointMajority(grants[place[c][2]], Conf, OldConf)

(* "after this point, no any further modification is allowed to applied to *)
(* this node" (raft.h, on_error): whatever was committed or queued before, *)
(* after an error nothing is applied and no client is told of a success,   *)
(* and whoever was told of the error has not had their task applied.       *)
ErrorStopsApplying ==
  /\ [][fsmError => /\ applied' = applied
                    /\ \A c \in TaskId : ran'[c] = "ok" => ran[c] = "ok"]_pipeVars
  /\ [](\A c \in TaskId : ran[c] = "error" => ~Contains(applied, place[c][2]))

(* Whatever is committed is eventually applied or overtaken, no matter how *)
(* the publications interleave, unless an error stops the FSMCaller.       *)
CommittedIsApplied ==
  \A i \in Index : (lastCommitted >= i) ~> (lastApplied >= i \/ fsmError)

-----------------------------------------------------------------------------
(* Expectations that the code does not meet; no run checks them.           *)

(* "a unique and monotonically increasing identifier of the current task"  *)
(* (raft.h, Iterator::index): no index is given to on_apply twice.         *)
AppliedOnce ==
  \A j, k \in DOMAIN applied : j # k => applied[j] # applied[k]

(* "last_applied_index is sequential applied idx" (do_committed): every    *)
(* index up to it has been given to the state machine.                     *)
AppliedWithoutGaps == \A i \in 1 .. lastApplied : Contains(applied, i)

(* "no further changes on the StateMachine as well as the Node would be    *)
(* allowed" (raft.h, set_error_and_rollback): NodeImpl::on_error does      *)
(* nothing, so that a leader goes on appending entries, whose closures     *)
(* wait until it steps down.                                               *)
NodeStopsOnError ==
  [][fsmError => \A c \in TaskId : place'[c] = place[c]]_pipeVars
=============================================================================
