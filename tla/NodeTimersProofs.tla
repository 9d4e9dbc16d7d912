---------------------------- MODULE NodeTimersProofs ----------------------------
(* Proofs about RepeatedTimerTask and NodeTimers: whatever its owner calls,  *)
(* and however the calls race its timer, a task has one chain of timers and  *)
(* threads; the node uses each of its timers as a task may be used; and the  *)
(* timer that the node's state needs is never stopped.  E and V are the same *)
(* task of two variables: what is proved of one call of E holds of any task. *)
EXTENDS NodeTimers, TLAPS

(* What is left to say of a task that has its type and one chain.            *)
TaskRest(t) ==
  /\ t.lost = 0
  /\ ~t.stopped => t.running /\ ~t.destroyed
  /\ t.stopped => t.armed = 0
  /\ t.due <= 1 /\ t.gone <= 1 /\ (t.due = 0 \/ t.gone = 0)
  /\ (t.due # 0 \/ t.gone # 0) => t.destroyed /\ ~t.running

(* Four counters that sum up to zero or one.                                 *)
LEMMA SumOfFour ==
  ASSUME NEW a \in Nat, NEW b \in Nat, NEW c \in Nat, NEW d \in Nat
  PROVE  /\ a + b + c + d = 0 => a = 0 /\ b = 0 /\ c = 0 /\ d = 0
         /\ a + b + c + d = 1 => /\ a # 0 => a = 1 /\ b = 0 /\ c = 0 /\ d = 0
                                 /\ c # 0 => c = 1 /\ b = 0 /\ a = 0 /\ d = 0
                                 /\ d # 0 => d = 1 /\ b = 0 /\ a = 0 /\ c = 0
  OBVIOUS

(* The members of a task that are counted.                                   *)
LEMMA Counted ==
  ASSUME NEW t \in E!Task
  PROVE  /\ t.armed \in Nat /\ t.lost \in Nat /\ t.begun \in Nat
         /\ t.invoked \in Nat /\ t.due \in Nat /\ t.gone \in Nat
         /\ t.running \in BOOLEAN
  BY Zenon DEF E!Task

(* A task without a chain has no timer and no thread.                        *)
LEMMA ChainZero ==
  ASSUME NEW t \in E!Task, E!Chain(t) = 0
  PROVE  t.armed = 0 /\ t.lost = 0 /\ t.begun = 0 /\ t.invoked = 0
<1> DEFINE a == t.armed
           b == t.lost
           c == t.begun
           d == t.invoked
<1>1. a + b + c + d = 0
  BY Zenon DEF E!Chain
<1>2. a \in Nat /\ b \in Nat /\ c \in Nat /\ d \in Nat
  BY Zenon, Counted
<1>3. a = 0 /\ b = 0 /\ c = 0 /\ d = 0
  <2> HIDE DEF a, b, c, d
  <2> QED
    BY <1>1, <1>2, SumOfFour
<1> QED
  BY Zenon, <1>3

(* A chain of one timer or one thread is at one place.                       *)
LEMMA ChainOne ==
  ASSUME NEW t, E!TaskOK(t)
  PROVE  /\ t.armed # 0 => /\ t.armed = 1 /\ t.running
                           /\ t.lost = 0 /\ t.begun = 0 /\ t.invoked = 0
         /\ t.begun # 0 => /\ t.begun = 1 /\ t.running
                           /\ t.lost = 0 /\ t.armed = 0 /\ t.invoked = 0
         /\ t.invoked # 0 => /\ t.invoked = 1 /\ t.running
                             /\ t.lost = 0 /\ t.armed = 0 /\ t.begun = 0
<1>1. t \in E!Task /\ t.armed + t.lost + t.begun + t.invoked = E!B2N(t.running)
  BY Zenon DEF E!TaskOK, E!Chain
<1>2. CASE t.running
  <2>1. t.armed + t.lost + t.begun + t.invoked = 1
    BY Zenon, <1>1, <1>2 DEF E!B2N
  <2> QED
    BY <1>1, <1>2, <2>1, Counted, SumOfFour
<1>3. CASE ~t.running
  <2>1. t.armed + t.lost + t.begun + t.invoked = 0
    BY Zenon, <1>1, <1>3 DEF E!B2N
  <2> QED
    BY Zenon, <1>1, <2>1, ChainZero DEF E!Chain
<1> QED
  BY Zenon, <1>2, <1>3

(* The parts of TaskOK.                                                      *)
LEMMA TaskParts ==
  ASSUME NEW t
  PROVE  E!TaskOK(t) <=> t \in E!Task /\ E!Chain(t) = E!B2N(t.running) /\ TaskRest(t)
  BY Zenon DEF E!TaskOK, TaskRest

(* A task as its constructor and as init leave it is in order.               *)
LEMMA NewTaskOK ==
  E!TaskOK(E!NewTask) /\ E!TaskOK(E!InitTask(E!NewTask))
<1>1. E!NewTask \in E!Task /\ E!InitTask(E!NewTask) \in E!Task
  BY Zenon DEF E!NewTask, E!InitTask, E!Task
<1>2. /\ E!Chain(E!NewTask) = E!B2N(E!NewTask.running)
      /\ E!Chain(E!InitTask(E!NewTask)) = E!B2N(E!InitTask(E!NewTask).running)
  BY DEF E!NewTask, E!InitTask, E!Chain, E!B2N
<1>3. TaskRest(E!NewTask) /\ TaskRest(E!InitTask(E!NewTask))
  BY DEF E!NewTask, E!InitTask, TaskRest
<1> QED
  BY Zenon, <1>1, <1>2, <1>3, TaskParts

(* schedule gives a running task that has no chain its chain.                *)
LEMMA ScheduleOK ==
  ASSUME NEW t \in E!Task, NEW u \in E!Schedule(t), t.running, ~t.stopped, ~t.destroyed,
         E!Chain(t) = 0, t.due = 0, t.gone = 0
  PROVE  E!TaskOK(u)
<1>1. t.armed = 0 /\ t.lost = 0 /\ t.begun = 0 /\ t.invoked = 0
  BY Zenon, ChainZero
<1>2. CASE u = E!TimerAdded(t)
  <2>0. t.lost + t.armed \in Nat
    BY <1>1
  <2>1. u \in E!Task
    BY Zenon, <1>1, <1>2, <2>0 DEF E!TimerAdded, E!Task
  <2>2. E!Chain(u) = E!B2N(u.running)
    BY <1>1, <1>2 DEF E!TimerAdded, E!Task, E!Chain, E!B2N
  <2>3. TaskRest(u)
    BY <1>1, <1>2 DEF E!TimerAdded, E!Task, TaskRest
  <2> QED
    BY Zenon, <2>1, <2>2, <2>3, TaskParts
<1>3. CASE u = [t EXCEPT !.begun = t.begun + 1]
  <2>1. u \in E!Task
    BY <1>1, <1>3 DEF E!Task
  <2>2. E!Chain(u) = E!B2N(u.running)
    BY <1>1, <1>3 DEF E!Task, E!Chain, E!B2N
  <2>3. TaskRest(u)
    BY <1>1, <1>3 DEF E!Task, TaskRest
  <2> QED
    BY Zenon, <2>1, <2>2, <2>3, TaskParts
<1> QED
  BY Zenon, <1>2, <1>3 DEF E!Schedule

(* start keeps a task in order.                                              *)
LEMMA StartOK ==
  ASSUME NEW t, E!TaskOK(t), NEW u \in E!Start(t)
  PROVE  E!TaskOK(u)
<1>1. t \in E!Task /\ E!Chain(t) = E!B2N(t.running) /\ TaskRest(t)
  BY Zenon, TaskParts
<1>2. CASE t.destroyed \/ ~t.stopped
  BY Zenon, <1>2 DEF E!Start
<1>3. CASE ~t.destroyed /\ t.stopped /\ t.running
  <2> DEFINE v == [t EXCEPT !.stopped = FALSE]
  <2>1. u = v
    BY Zenon, <1>3 DEF E!Start
  <2>2. v \in E!Task
    BY Zenon, <1>1 DEF E!Task
  <2>3. E!Chain(v) = E!B2N(v.running)
    BY Zenon, <1>1 DEF E!Task, E!Chain, E!B2N
  <2>4. TaskRest(v)
    BY Zenon, <1>1, <1>3 DEF E!Task, TaskRest
  <2> QED
    BY Zenon, <2>1, <2>2, <2>3, <2>4, TaskParts
<1>4. CASE ~t.destroyed /\ t.stopped /\ ~t.running
  <2> DEFINE v == [t EXCEPT !.stopped = FALSE, !.running = TRUE]
  <2>1. u \in E!Schedule(v)
    BY Zenon, <1>4 DEF E!Start
  <2>2. v \in E!Task /\ v.running /\ ~v.stopped /\ ~v.destroyed
    BY Zenon, <1>1, <1>4 DEF E!Task
  <2>3. E!Chain(v) = 0
    BY Zenon, <1>1, <1>4 DEF E!Task, E!Chain, E!B2N
  <2>4. v.due = 0 /\ v.gone = 0
    BY Zenon, <1>1, <1>4, Counted DEF E!Task, TaskRest, E!Chain, E!B2N
  <2> QED
    BY Zenon, <2>1, <2>2, <2>3, <2>4, ScheduleOK
<1> QED
  BY Zenon, <1>2, <1>3, <1>4

(* stop keeps a task in order.                                               *)
LEMMA StopOK ==
  ASSUME NEW t, E!TaskOK(t)
  PROVE  E!TaskOK(E!Stop(t))
<1>1. t \in E!Task /\ E!Chain(t) = E!B2N(t.running) /\ TaskRest(t)
  BY Zenon, TaskParts
<1>2. CASE t.stopped
  BY Zenon, <1>2 DEF E!Stop
<1>3. CASE ~t.stopped /\ t.armed = 1
  <2> DEFINE v == [t EXCEPT !.stopped = TRUE, !.armed = 0, !.running = FALSE]
  <2>1. E!Stop(t) = v
    BY Zenon, <1>3 DEF E!Stop
  <2>2. v \in E!Task
    BY Zenon, <1>1 DEF E!Task
  <2>3. E!Chain(v) = E!B2N(v.running)
    BY <1>1, <1>3, ChainOne DEF E!Task, E!Chain, E!B2N
  <2>4. TaskRest(v)
    BY Zenon, <1>1, <1>3 DEF E!Task, TaskRest
  <2> QED
    BY Zenon, <2>1, <2>2, <2>3, <2>4, TaskParts
<1>4. CASE ~t.stopped /\ t.armed # 1
  <2> DEFINE v == [t EXCEPT !.stopped = TRUE, !.armed = 0, !.running = t.running]
  <2>1. t.armed = 0
    BY Zenon, <1>4, ChainOne
  <2>2. E!Stop(t) = v
    BY Zenon, <1>4 DEF E!Stop
  <2>3. v \in E!Task
    BY Zenon, <1>1 DEF E!Task
  <2>4. E!Chain(v) = E!B2N(v.running)
    BY Zenon, <1>1, <2>1 DEF E!Task, E!Chain, E!B2N
  <2>5. TaskRest(v)
    BY Zenon, <1>1, <1>4 DEF E!Task, TaskRest
  <2> QED
    BY Zenon, <2>2, <2>3, <2>4, <2>5, TaskParts
<1> QED
  BY Zenon, <1>2, <1>3, <1>4

(* A thread takes over from the timer: run_once_now and an expiring timer.   *)
LEMMA TakeOverOK ==
  ASSUME NEW t, E!TaskOK(t), t.armed = 1
  PROVE  E!TaskOK([t EXCEPT !.armed = 0, !.begun = t.begun + 1])
<1> DEFINE v == [t EXCEPT !.armed = 0, !.begun = t.begun + 1]
<1>1. t \in E!Task /\ E!Chain(t) = E!B2N(t.running) /\ TaskRest(t)
  BY Zenon, TaskParts
<1>0. t.begun + 1 \in Nat
  BY <1>1 DEF E!Task
<1>2. v \in E!Task
  BY Zenon, <1>0, <1>1 DEF E!Task
<1>3. E!Chain(v) = E!B2N(v.running)
  BY <1>1, ChainOne DEF E!Task, E!Chain, E!B2N
<1>4. TaskRest(v)
  BY Zenon, <1>1 DEF E!Task, TaskRest
<1> QED
  BY Zenon, <1>2, <1>3, <1>4, TaskParts

(* run_once_now and an expiring timer keep a task in order.                  *)
LEMMA FireOK ==
  ASSUME NEW t, E!TaskOK(t)
  PROVE  E!TaskOK(E!RunOnceNow(t)) /\ \A u \in E!Fire(t) : E!TaskOK(u)
<1>1. E!TaskOK(E!RunOnceNow(t))
  BY Zenon, TakeOverOK DEF E!RunOnceNow
<1>2. t.lost = 0
  BY Zenon DEF E!TaskOK
<1>3. ASSUME NEW u \in E!Fire(t)
      PROVE  E!TaskOK(u)
  <2>1. t.armed = 1 /\ u = [t EXCEPT !.armed = 0, !.begun = t.begun + 1]
    BY <1>2, <1>3 DEF E!Fire
  <2> QED
    BY Zenon, <2>1, TakeOverOK
<1> QED
  BY Zenon, <1>1, <1>3

(* reset keeps a task in order.                                              *)
LEMMA ResetOK ==
  ASSUME NEW t, E!TaskOK(t), NEW u \in E!Reset(t)
  PROVE  E!TaskOK(u)
<1>1. t \in E!Task /\ E!Chain(t) = E!B2N(t.running) /\ TaskRest(t)
  BY Zenon, TaskParts
<1>2. CASE t.stopped \/ t.armed = 0
  BY Zenon, <1>2 DEF E!Reset
<1>3. CASE ~t.stopped /\ t.armed # 0
  <2> DEFINE v == [t EXCEPT !.armed = 0]
  <2>1. u \in E!Schedule(v)
    BY Zenon, <1>3 DEF E!Reset
  <2>2. v \in E!Task /\ v.running /\ ~v.stopped /\ ~v.destroyed
    BY Zenon, <1>1, <1>3 DEF E!Task, TaskRest
  <2>3. E!Chain(v) = 0
    BY <1>1, <1>3, ChainOne DEF E!Task, E!Chain
  <2>4. v.due = 0 /\ v.gone = 0
    BY Zenon, <1>1, <1>3 DEF E!Task, TaskRest
  <2> QED
    BY Zenon, <2>1, <2>2, <2>3, <2>4, ScheduleOK
<1> QED
  BY Zenon, <1>2, <1>3

(* destroy keeps a task in order.                                            *)
LEMMA DestroyOK ==
  ASSUME NEW t, E!TaskOK(t)
  PROVE  E!TaskOK(E!Destroy(t))
<1>1. t \in E!Task /\ E!Chain(t) = E!B2N(t.running) /\ TaskRest(t)
  BY Zenon, TaskParts
<1>2. CASE t.destroyed
  BY Zenon, <1>2 DEF E!Destroy
<1>3. CASE ~t.destroyed /\ ~t.running
  <2> DEFINE v == [t EXCEPT !.destroyed = TRUE, !.due = t.due + 1]
  <2>1. E!Destroy(t) = v
    BY Zenon, <1>3 DEF E!Destroy
  <2>2. t.due = 0 /\ t.gone = 0 /\ t.stopped
    BY Zenon, <1>1, <1>3 DEF E!Task, TaskRest
  <2>0. t.due + 1 \in Nat
    BY <1>1 DEF E!Task
  <2>3. v \in E!Task
    BY Zenon, <1>1, <2>0 DEF E!Task
  <2>4. E!Chain(v) = E!B2N(v.running)
    BY Zenon, <1>1 DEF E!Task, E!Chain, E!B2N
  <2>5. TaskRest(v)
    BY <1>1, <1>3, <2>2 DEF E!Task, TaskRest
  <2> QED
    BY Zenon, <2>1, <2>3, <2>4, <2>5, TaskParts
<1>4. CASE ~t.destroyed /\ t.running /\ t.stopped
  <2> DEFINE v == [t EXCEPT !.destroyed = TRUE]
  <2>1. E!Destroy(t) = v
    BY Zenon, <1>4 DEF E!Destroy
  <2>2. v \in E!Task
    BY Zenon, <1>1 DEF E!Task
  <2>3. E!Chain(v) = E!B2N(v.running)
    BY Zenon, <1>1 DEF E!Task, E!Chain, E!B2N
  <2>4. TaskRest(v)
    BY Zenon, <1>1, <1>4 DEF E!Task, TaskRest
  <2> QED
    BY Zenon, <2>1, <2>2, <2>3, <2>4, TaskParts
<1>5. CASE ~t.destroyed /\ t.running /\ ~t.stopped /\ t.armed = 1
  <2> DEFINE v == [t EXCEPT !.destroyed = TRUE, !.stopped = TRUE, !.armed = 0,
                            !.running = FALSE, !.due = t.due + 1]
  <2>1. E!Destroy(t) = v
    BY Zenon, <1>5 DEF E!Destroy
  <2>2. t.due = 0 /\ t.gone = 0
    BY Zenon, <1>1, <1>5 DEF E!Task, TaskRest
  <2>0. t.due + 1 \in Nat
    BY <1>1 DEF E!Task
  <2>3. v \in E!Task
    BY Zenon, <1>1, <2>0 DEF E!Task
  <2>4. E!Chain(v) = E!B2N(v.running)
    BY <1>1, <1>5, ChainOne DEF E!Task, E!Chain, E!B2N
  <2>5. TaskRest(v)
    BY <1>1, <1>5, <2>2 DEF E!Task, TaskRest
  <2> QED
    BY Zenon, <2>1, <2>3, <2>4, <2>5, TaskParts
<1>6. CASE ~t.destroyed /\ t.running /\ ~t.stopped /\ t.armed # 1
  <2> DEFINE v == [t EXCEPT !.destroyed = TRUE, !.stopped = TRUE]
  <2>1. t.armed = 0
    BY Zenon, <1>6, ChainOne
  <2>2. E!Destroy(t) = v
    BY Zenon, <1>6 DEF E!Destroy
  <2>3. v \in E!Task
    BY Zenon, <1>1 DEF E!Task
  <2>4. E!Chain(v) = E!B2N(v.running)
    BY Zenon, <1>1 DEF E!Task, E!Chain, E!B2N
  <2>5. TaskRest(v)
    BY Zenon, <1>1, <1>6, <2>1 DEF E!Task, TaskRest
  <2> QED
    BY Zenon, <2>2, <2>3, <2>4, <2>5, TaskParts
<1> QED
  BY Zenon, <1>1, <1>2, <1>3, <1>4, <1>5, <1>6

(* A thread that calls run() keeps a task in order.                          *)
LEMMA InvokeOK ==
  ASSUME NEW t, E!TaskOK(t), t.begun > 0
  PROVE  E!TaskOK(E!Invoke(t))
<1> DEFINE v == [t EXCEPT !.begun = 0, !.invoked = 1]
<1>1. t \in E!Task /\ E!Chain(t) = E!B2N(t.running) /\ TaskRest(t)
  BY Zenon, TaskParts
<1>2. t.begun = 1 /\ t.invoked = 0 /\ t.armed = 0 /\ t.lost = 0 /\ t.running
  BY ChainOne
<1>3. E!Invoke(t) = v
  BY <1>2 DEF E!Invoke
<1>4. v \in E!Task
  BY Zenon, <1>1 DEF E!Task
<1>5. E!Chain(v) = E!B2N(v.running)
  BY <1>1, <1>2 DEF E!Task, E!Chain, E!B2N
<1>6. TaskRest(v)
  BY Zenon, <1>1 DEF E!Task, TaskRest
<1> QED
  BY Zenon, <1>3, <1>4, <1>5, <1>6, TaskParts

(* on_destroy keeps a task in order.                                         *)
LEMMA OnDestroyOK ==
  ASSUME NEW t, E!TaskOK(t), t.due > 0
  PROVE  E!TaskOK(E!OnDestroy(t))
<1> DEFINE v == [t EXCEPT !.due = 0, !.gone = 1]
<1>1. t \in E!Task /\ E!Chain(t) = E!B2N(t.running) /\ TaskRest(t)
  BY Zenon, TaskParts
<1>2. t.due = 1 /\ t.gone = 0 /\ t.destroyed /\ ~t.running
  BY <1>1 DEF E!Task, TaskRest
<1>3. E!OnDestroy(t) = v
  BY <1>2 DEF E!OnDestroy
<1>4. v \in E!Task
  BY Zenon, <1>1 DEF E!Task
<1>5. E!Chain(v) = E!B2N(v.running)
  BY Zenon, <1>1 DEF E!Task, E!Chain, E!B2N
<1>6. TaskRest(v)
  BY Zenon, <1>1, <1>2 DEF E!Task, TaskRest
<1> QED
  BY Zenon, <1>3, <1>4, <1>5, <1>6, TaskParts

(* The return of run() keeps a task in order.                                *)
LEMMA ReturnOK ==
  ASSUME NEW t, E!TaskOK(t), t.invoked > 0, NEW u \in E!Return(t)
  PROVE  E!TaskOK(u)
<1> DEFINE v == [t EXCEPT !.invoked = 0]
<1>1. t \in E!Task /\ E!Chain(t) = E!B2N(t.running) /\ TaskRest(t)
  BY Zenon, TaskParts
<1>2. /\ t.invoked = 1 /\ t.begun = 0 /\ t.armed = 0 /\ t.lost = 0
      /\ t.running /\ t.due = 0 /\ t.gone = 0
  BY <1>1, ChainOne DEF E!Task, TaskRest
<1>3. v = [t EXCEPT !.invoked = t.invoked - 1]
  BY <1>2
<1>4. v \in E!Task
  BY Zenon, <1>1 DEF E!Task
<1>5. CASE ~t.stopped
  <2>1. u \in E!Schedule(v)
    BY Zenon, <1>3, <1>5 DEF E!Return
  <2>2. v.running /\ ~v.stopped /\ ~v.destroyed /\ v.due = 0 /\ v.gone = 0
    BY Zenon, <1>1, <1>2, <1>5 DEF E!Task, TaskRest
  <2>3. E!Chain(v) = 0
    BY <1>1, <1>2 DEF E!Task, E!Chain
  <2> QED
    BY Zenon, <1>4, <2>1, <2>2, <2>3, ScheduleOK
<1>6. CASE t.stopped
  <2> DEFINE n == IF t.destroyed THEN 1 ELSE 0
             w == [t EXCEPT !.invoked = 0, !.running = FALSE, !.due = n]
  <2>1. u = w
    <3> DEFINE b == [t EXCEPT !.invoked = t.invoked - 1]
    <3>0. u = [b EXCEPT !.running = FALSE,
                        !.due = IF t.destroyed THEN b.due + 1 ELSE b.due]
      BY Zenon, <1>6 DEF E!Return
    <3>1. u = [v EXCEPT !.running = FALSE,
                        !.due = IF t.destroyed THEN v.due + 1 ELSE v.due]
      <4>1. v = b
        BY Zenon, <1>3
      <4> HIDE DEF v, b
      <4> QED
        BY Zenon, <3>0, <4>1
    <3>2. v.due = 0
      BY Zenon, <1>1, <1>2 DEF E!Task
    <3>3. u = [v EXCEPT !.running = FALSE, !.due = n]
      <4>1. n = IF t.destroyed THEN v.due + 1 ELSE v.due
        BY <3>2
      <4> HIDE DEF v, n
      <4> QED
        BY Zenon, <3>1, <4>1
    <3> QED
      BY Zenon, <1>1, <3>3 DEF E!Task
  <2>2. w \in E!Task
    BY Zenon, <1>1 DEF E!Task
  <2>3. E!Chain(w) = E!B2N(w.running)
    BY <1>1, <1>2 DEF E!Task, E!Chain, E!B2N
  <2>4. TaskRest(w)
    BY <1>1, <1>2, <1>6 DEF E!Task, TaskRest
  <2> QED
    BY Zenon, <2>1, <2>2, <2>3, <2>4, TaskParts
<1> QED
  BY Zenon, <1>1, <1>5, <1>6 DEF E!Task

-----------------------------------------------------------------------------
(* One step of a task and of the node's phase, "new" until init is called.   *)
TaskStep(t, p, u, q) ==
  \/ p = "new" /\ u = E!InitTask(t) /\ q # "new"
  \/ /\ q = "new" <=> p = "new"
     /\ \/ u \in E!Start(t) \/ u = E!Stop(t) \/ u \in E!Reset(t)
        \/ u = E!RunOnceNow(t) \/ u = E!Destroy(t) \/ u \in E!Fire(t)
        \/ t.begun > 0 /\ u = E!Invoke(t)
        \/ t.invoked > 0 /\ u \in E!Return(t)
        \/ t.due > 0 /\ u = E!OnDestroy(t)
        \/ u = t

(* Every step keeps a task in order.                                         *)
LEMMA TaskStepOK ==
  ASSUME NEW t, NEW p, NEW u, NEW q, E!TaskOK(t), p = "new" => t = E!NewTask,
         TaskStep(t, p, u, q)
  PROVE  E!TaskOK(u) /\ (q = "new" => u = E!NewTask)
<1>1. CASE p = "new" /\ u = E!InitTask(t) /\ q # "new"
  BY Zenon, <1>1, NewTaskOK
<1>2. CASE q = "new" <=> p = "new"
  <2>1. p = "new" => u = E!NewTask
    BY <1>2 DEF TaskStep, E!NewTask, E!Start, E!Stop, E!Reset, E!RunOnceNow,
       E!Destroy, E!Fire
  <2>2. CASE u \in E!Start(t)
    BY Zenon, <1>2, <2>1, <2>2, StartOK
  <2>3. CASE u = E!Stop(t)
    BY Zenon, <1>2, <2>1, <2>3, StopOK
  <2>4. CASE u \in E!Reset(t)
    BY Zenon, <1>2, <2>1, <2>4, ResetOK
  <2>5. CASE u = E!RunOnceNow(t) \/ u \in E!Fire(t)
    BY Zenon, <1>2, <2>1, <2>5, FireOK
  <2>6. CASE u = E!Destroy(t)
    BY Zenon, <1>2, <2>1, <2>6, DestroyOK
  <2>7. CASE t.begun > 0 /\ u = E!Invoke(t)
    BY Zenon, <1>2, <2>1, <2>7, InvokeOK
  <2>8. CASE t.invoked > 0 /\ u \in E!Return(t)
    BY Zenon, <1>2, <2>1, <2>8, ReturnOK
  <2>9. CASE t.due > 0 /\ u = E!OnDestroy(t)
    BY Zenon, <1>2, <2>1, <2>9, OnDestroyOK
  <2>10. CASE u = t
    BY Zenon, <1>2, <2>1, <2>10
  <2> QED
    BY Zenon, <1>1, <1>2, <2>2, <2>3, <2>4, <2>5, <2>6, <2>7, <2>8, <2>9, <2>10 DEF TaskStep
<1> QED
  BY Zenon, <1>1, <1>2 DEF TaskStep

(* Whatever the owner of a task calls, and however that races the timer, a   *)
(* running task has exactly one timer or one thread, so that run() is never  *)
(* entered twice at a time, and on_destroy() comes once and last.            *)
THEOREM TimerInvariant == E!TimerSpec => []E!TimerInv
<1>1. E!TimerInit => E!TimerInv
  BY Zenon, NewTaskOK DEF E!TimerInit, E!TimerInv
<1>2. [E!TimerNext]_E!timerVars
        => TaskStep(election, phase, election', phase')
  BY Zenon DEF E!TimerNext, E!timerVars, TaskStep, E!CallInit, E!CallStart, E!CallStop,
     E!CallReset, E!CallRunOnceNow, E!CallDestroy, E!TimerFires, E!EnterRun,
     E!LeaveRun, E!RunOnDestroy
<1>3. E!TimerInv /\ [E!TimerNext]_E!timerVars => E!TimerInv'
  <2> SUFFICES ASSUME E!TimerInv, [E!TimerNext]_E!timerVars
               PROVE  E!TaskOK(election') /\ (phase' = "new" => election' = E!NewTask)
    BY Zenon DEF E!TimerInv
  <2>1. E!TaskOK(election) /\ (phase = "new" => election = E!NewTask)
    BY Zenon DEF E!TimerInv
  <2>2. TaskStep(election, phase, election', phase')
    BY Zenon, <1>2
  <2> QED
    BY <2>1, <2>2, TaskStepOK
<1> QED
  BY <1>1, <1>3, PTL DEF E!TimerSpec

(* The vote timer is a task like the election timer.                         *)
LEMMA SameTask ==
  /\ V!NewTask = E!NewTask
  /\ \A t : V!TaskOK(t) <=> E!TaskOK(t)
  /\ [V!TimerNext]_V!timerVars => TaskStep(vote, phase, vote', phase')
<1>1. V!NewTask = E!NewTask
  BY Zenon DEF V!NewTask, E!NewTask
<1>2. \A t : V!TaskOK(t) <=> E!TaskOK(t)
  BY Zenon DEF V!TaskOK, E!TaskOK, V!Task, E!Task, V!Chain, E!Chain, V!B2N, E!B2N
<1>3. [V!TimerNext]_V!timerVars => TaskStep(vote, phase, vote', phase')
  BY Zenon DEF V!TimerNext, V!timerVars, TaskStep, V!CallInit, V!CallStart, V!CallStop,
     V!CallReset, V!CallRunOnceNow, V!CallDestroy, V!TimerFires, V!EnterRun,
     V!LeaveRun, V!RunOnDestroy, V!Start, E!Start, V!Stop, E!Stop, V!Reset, E!Reset,
     V!RunOnceNow, E!RunOnceNow, V!Destroy, E!Destroy, V!Fire, E!Fire, V!Invoke,
     E!Invoke, V!Return, E!Return, V!OnDestroy, E!OnDestroy, V!Schedule, E!Schedule,
     V!TimerAdded, E!TimerAdded, V!InitTask, E!InitTask
<1> QED
  BY Zenon, <1>1, <1>2, <1>3

(* The same invariant of the vote timer.                                     *)
LEMMA VoteTimerInvariant == V!TimerSpec => []V!TimerInv
<1>1. V!TimerInit => V!TimerInv
  BY Zenon, NewTaskOK, SameTask DEF V!TimerInit, V!TimerInv
<1>2. V!TimerInv /\ [V!TimerNext]_V!timerVars => V!TimerInv'
  <2> SUFFICES ASSUME V!TimerInv, [V!TimerNext]_V!timerVars
               PROVE  V!TaskOK(vote') /\ (phase' = "new" => vote' = V!NewTask)
    BY Zenon DEF V!TimerInv
  <2>1. E!TaskOK(vote) /\ (phase = "new" => vote = E!NewTask)
    BY Zenon, SameTask DEF V!TimerInv
  <2>2. TaskStep(vote, phase, vote', phase')
    BY Zenon, SameTask
  <2>3. E!TaskOK(vote') /\ (phase' = "new" => vote' = E!NewTask)
    BY <2>1, <2>2, TaskStepOK
  <2> QED
    BY Zenon, <2>3, SameTask
<1> QED
  BY <1>1, <1>2, PTL DEF V!TimerSpec

-----------------------------------------------------------------------------
(* Every step of the node is a step of the election timer, or none.          *)
LEMMA ElectionTimerStep ==
  [NodeTimersNext]_timerVars => [E!TimerNext]_E!timerVars
<1> SUFFICES ASSUME [NodeTimersNext]_timerVars
             PROVE  E!TimerNext \/ UNCHANGED <<election, phase # "new">>
  BY Zenon DEF E!timerVars
<1> USE DEF nodeVars, E!TimerNext
<1>1. CASE InitTimers
  BY Zenon, <1>1 DEF InitTimers, E!CallInit
<1>2. CASE StartElectionTimer
  BY Zenon, <1>2 DEF StartElectionTimer, E!CallStart
<1>3. ASSUME StepDown, UNCHANGED phase
      PROVE  E!TimerNext \/ UNCHANGED <<election, phase # "new">>
  BY Zenon, <1>3 DEF StepDown, E!CallStart, E!CallStop
<1>4. ASSUME ElectSelf, UNCHANGED phase
      PROVE  E!TimerNext \/ UNCHANGED <<election, phase # "new">>
  BY Zenon, <1>4 DEF ElectSelf, E!CallStart, E!CallStop
<1>5. CASE HandleElectionTimeout \/ LeaderHeard \/ CallsFail \/ LeaderForgotten
  BY Zenon, <1>5 DEF HandleElectionTimeout, LeaderHeard, CallsFail, LeaderForgotten
<1>6. CASE HandleVoteTimeout
  BY Zenon, <1>3, <1>4, <1>6 DEF HandleVoteTimeout
<1>7. CASE RunElection \/ RunVote
  BY Zenon, <1>7 DEF RunElection, RunVote
<1>8. CASE ElectionTimerFires \/ VoteTimerFires
  BY Zenon, <1>8 DEF ElectionTimerFires, VoteTimerFires
<1>9. CASE TimerDestroyed
  BY Zenon, <1>9 DEF TimerDestroyed
<1>10. CASE \E higher, fromLeader \in BOOLEAN : MessageStepsDown(higher, fromLeader)
  BY Zenon, <1>3, <1>10 DEF MessageStepsDown
<1>11. CASE HandlePreVoteResponse
  BY Zenon, <1>4, <1>11 DEF HandlePreVoteResponse
<1>12. CASE HandleRequestVoteResponse
  BY Zenon, <1>12 DEF HandleRequestVoteResponse, E!CallStop
<1>13. CASE Shutdown
  BY Zenon, <1>3, <1>13 DEF Shutdown
<1>14. CASE DestroyTimers
  BY Zenon, <1>14 DEF DestroyTimers, E!CallDestroy
<1>15. CASE UNCHANGED timerVars
  BY Zenon, <1>15 DEF timerVars
<1> QED
  BY Zenon, <1>1, <1>2, <1>5, <1>6, <1>7, <1>8, <1>9, <1>10, <1>11, <1>12, <1>13, <1>14,
     <1>15 DEF NodeTimersNext

(* Every step of the node is a step of the vote timer, or none.              *)
LEMMA VoteTimerStep ==
  [NodeTimersNext]_timerVars => [V!TimerNext]_V!timerVars
<1> SUFFICES ASSUME [NodeTimersNext]_timerVars
             PROVE  V!TimerNext \/ UNCHANGED <<vote, phase # "new">>
  BY Zenon DEF V!timerVars
<1> USE DEF nodeVars, V!TimerNext
<1>1. CASE InitTimers
  BY Zenon, <1>1 DEF InitTimers, V!CallInit
<1>2. CASE StartElectionTimer
  BY Zenon, <1>2 DEF StartElectionTimer, V!CallStart
<1>3. ASSUME StepDown, UNCHANGED phase
      PROVE  V!TimerNext \/ UNCHANGED <<vote, phase # "new">>
  BY Zenon, <1>3 DEF StepDown, V!CallStart, V!CallStop
<1>4. ASSUME ElectSelf, UNCHANGED phase
      PROVE  V!TimerNext \/ UNCHANGED <<vote, phase # "new">>
  BY Zenon, <1>4 DEF ElectSelf, V!CallStart, V!CallStop
<1>5. CASE HandleElectionTimeout \/ LeaderHeard \/ CallsFail \/ LeaderForgotten
  BY Zenon, <1>5 DEF HandleElectionTimeout, LeaderHeard, CallsFail, LeaderForgotten
<1>6. CASE HandleVoteTimeout
  BY Zenon, <1>3, <1>4, <1>6 DEF HandleVoteTimeout
<1>7. CASE RunElection \/ RunVote
  BY Zenon, <1>7 DEF RunElection, RunVote
<1>8. CASE ElectionTimerFires \/ VoteTimerFires
  BY Zenon, <1>8 DEF ElectionTimerFires, VoteTimerFires
<1>9. CASE TimerDestroyed
  BY Zenon, <1>9 DEF TimerDestroyed
<1>10. CASE \E higher, fromLeader \in BOOLEAN : MessageStepsDown(higher, fromLeader)
  BY Zenon, <1>3, <1>10 DEF MessageStepsDown
<1>11. CASE HandlePreVoteResponse
  BY Zenon, <1>4, <1>11 DEF HandlePreVoteResponse
<1>12. CASE HandleRequestVoteResponse
  BY Zenon, <1>12 DEF HandleRequestVoteResponse, V!CallStop
<1>13. CASE Shutdown
  BY Zenon, <1>3, <1>13 DEF Shutdown
<1>14. CASE DestroyTimers
  BY Zenon, <1>14 DEF DestroyTimers, V!CallDestroy
<1>15. CASE UNCHANGED timerVars
  BY Zenon, <1>15 DEF timerVars
<1> QED
  BY Zenon, <1>1, <1>2, <1>5, <1>6, <1>7, <1>8, <1>9, <1>10, <1>11, <1>12, <1>13, <1>14,
     <1>15 DEF NodeTimersNext

(* The node uses its election timer and its vote timer as a task may be used. *)
THEOREM NodeImplementsTasks == NodeTimersSpec => TimersAreTasks
<1>1. NodeTimersInit => E!TimerInit /\ V!TimerInit
  BY Zenon DEF NodeTimersInit, E!TimerInit, V!TimerInit
<1> QED
  BY <1>1, ElectionTimerStep, VoteTimerStep, PTL
  DEF NodeTimersSpec, TimersAreTasks, E!TimerSpec, V!TimerSpec

(* Both timers are in order at all times: neither callback ever runs twice   *)
(* at a time, and a timer gives its reference to the node back once, when    *)
(* nothing can touch the timer any more.                                     *)
THEOREM TasksInOrder == NodeTimersSpec => []TimersInOrder
<1> QED
  BY TimerInvariant, VoteTimerInvariant, NodeImplementsTasks, PTL
  DEF TimersInOrder, TimersAreTasks

-----------------------------------------------------------------------------
(* What the operations of the timer E do to its flags.                      *)
LEMMA FlagsE ==
  ASSUME NEW t \in E!Task
  PROVE  /\ \A u \in E!Start(t) : /\ u.destroyed <=> t.destroyed
                                  /\ ~t.destroyed => ~u.stopped
         /\ E!Stop(t).stopped /\ (E!Stop(t).destroyed <=> t.destroyed)
         /\ \A u \in E!Fire(t) \cup E!Return(t) \cup {E!Invoke(t), E!OnDestroy(t)} :
              (u.destroyed <=> t.destroyed) /\ (u.stopped <=> t.stopped)
<1>1. ASSUME NEW v \in E!Task, NEW u \in E!Schedule(v)
      PROVE  (u.destroyed <=> v.destroyed) /\ (u.stopped <=> v.stopped)
  BY Zenon DEF E!Task, E!Schedule, E!TimerAdded
<1>2. ASSUME NEW u \in E!Start(t)
      PROVE  (u.destroyed <=> t.destroyed) /\ (~t.destroyed => ~u.stopped)
  <2> DEFINE v == [t EXCEPT !.stopped = FALSE, !.running = TRUE]
  <2>1. v \in E!Task /\ ~v.stopped /\ (v.destroyed <=> t.destroyed)
    BY Zenon DEF E!Task
  <2>2. \/ u = t /\ (t.destroyed \/ ~t.stopped)
        \/ u = [t EXCEPT !.stopped = FALSE]
        \/ u \in E!Schedule(v)
    BY Zenon DEF E!Start
  <2>3. CASE u = [t EXCEPT !.stopped = FALSE]
    BY Zenon, <2>3 DEF E!Task
  <2> QED
    BY Zenon, <1>1, <2>1, <2>2, <2>3
<1>3. E!Stop(t).stopped /\ (E!Stop(t).destroyed <=> t.destroyed)
  BY Zenon DEF E!Stop, E!Task
<1>4. ASSUME NEW u \in E!Fire(t)
      PROVE  (u.destroyed <=> t.destroyed) /\ (u.stopped <=> t.stopped)
  BY Zenon DEF E!Fire, E!Task
<1>5. ASSUME NEW u \in E!Return(t)
      PROVE  (u.destroyed <=> t.destroyed) /\ (u.stopped <=> t.stopped)
  BY Zenon DEF E!Return, E!Schedule, E!TimerAdded, E!Task
<1>6. ASSUME NEW u \in {E!Invoke(t), E!OnDestroy(t)}
      PROVE  (u.destroyed <=> t.destroyed) /\ (u.stopped <=> t.stopped)
  BY Zenon DEF E!Invoke, E!OnDestroy, E!Task
<1> QED
  BY Zenon, <1>2, <1>3, <1>4, <1>5, <1>6

(* What the operations of the timer V do to its flags.                      *)
LEMMA FlagsV ==
  ASSUME NEW t \in V!Task
  PROVE  /\ \A u \in V!Start(t) : /\ u.destroyed <=> t.destroyed
                                  /\ ~t.destroyed => ~u.stopped
         /\ V!Stop(t).stopped /\ (V!Stop(t).destroyed <=> t.destroyed)
         /\ \A u \in V!Fire(t) \cup V!Return(t) \cup {V!Invoke(t), V!OnDestroy(t)} :
              (u.destroyed <=> t.destroyed) /\ (u.stopped <=> t.stopped)
<1>1. ASSUME NEW v \in V!Task, NEW u \in V!Schedule(v)
      PROVE  (u.destroyed <=> v.destroyed) /\ (u.stopped <=> v.stopped)
  BY Zenon DEF V!Task, V!Schedule, V!TimerAdded
<1>2. ASSUME NEW u \in V!Start(t)
      PROVE  (u.destroyed <=> t.destroyed) /\ (~t.destroyed => ~u.stopped)
  <2> DEFINE v == [t EXCEPT !.stopped = FALSE, !.running = TRUE]
  <2>1. v \in V!Task /\ ~v.stopped /\ (v.destroyed <=> t.destroyed)
    BY Zenon DEF V!Task
  <2>2. \/ u = t /\ (t.destroyed \/ ~t.stopped)
        \/ u = [t EXCEPT !.stopped = FALSE]
        \/ u \in V!Schedule(v)
    BY Zenon DEF V!Start
  <2>3. CASE u = [t EXCEPT !.stopped = FALSE]
    BY Zenon, <2>3 DEF V!Task
  <2> QED
    BY Zenon, <1>1, <2>1, <2>2, <2>3
<1>3. V!Stop(t).stopped /\ (V!Stop(t).destroyed <=> t.destroyed)
  BY Zenon DEF V!Stop, V!Task
<1>4. ASSUME NEW u \in V!Fire(t)
      PROVE  (u.destroyed <=> t.destroyed) /\ (u.stopped <=> t.stopped)
  BY Zenon DEF V!Fire, V!Task
<1>5. ASSUME NEW u \in V!Return(t)
      PROVE  (u.destroyed <=> t.destroyed) /\ (u.stopped <=> t.stopped)
  BY Zenon DEF V!Return, V!Schedule, V!TimerAdded, V!Task
<1>6. ASSUME NEW u \in {V!Invoke(t), V!OnDestroy(t)}
      PROVE  (u.destroyed <=> t.destroyed) /\ (u.stopped <=> t.stopped)
  BY Zenon DEF V!Invoke, V!OnDestroy, V!Task
<1> QED
  BY Zenon, <1>2, <1>3, <1>4, <1>5, <1>6

(* Until a shutdown every step keeps the timers usable and the one that the  *)
(* node's state needs from being stopped.                                    *)
LEMMA TimersUsableStep ==
  ASSUME E!TimerInv, V!TimerInv, TimersUsable, [NodeTimersNext]_timerVars
  PROVE  TimersUsable'
<1>1. election \in E!Task /\ vote \in V!Task
  BY Zenon DEF E!TimerInv, E!TaskOK, V!TimerInv, V!TaskOK
<1>2. phase = "new" => election = E!NewTask /\ vote = V!NewTask
  BY Zenon DEF E!TimerInv, V!TimerInv
<1>3. CASE InitTimers
  <2>1. ~E!InitTask(E!NewTask).destroyed
    BY Zenon DEF E!InitTask, E!NewTask
  <2>2. ~V!InitTask(V!NewTask).destroyed /\ V!InitTask(V!NewTask).stopped
    BY Zenon DEF V!InitTask, V!NewTask
  <2> QED
    BY Zenon, <1>2, <1>3, <2>1, <2>2 DEF InitTimers, TimersUsable, nodeVars
<1>4. CASE StartElectionTimer
  BY Zenon, <1>1, <1>4, FlagsE DEF StartElectionTimer, TimersUsable, nodeVars
<1>5. ASSUME StepDown, UNCHANGED <<phase, shutdowns>>, phase # "new"
      PROVE  TimersUsable'
  BY Zenon, <1>1, <1>5, FlagsE, FlagsV DEF StepDown, TimersUsable
<1>6. ASSUME ElectSelf, UNCHANGED <<phase, shutdowns>>, phase # "new"
      PROVE  TimersUsable'
  BY Zenon, <1>1, <1>6, FlagsE, FlagsV DEF ElectSelf, TimersUsable
<1>7. CASE HandleElectionTimeout \/ LeaderHeard \/ CallsFail \/ LeaderForgotten
  BY <1>7 DEF HandleElectionTimeout, LeaderHeard, CallsFail, LeaderForgotten,
     TimersUsable
<1>8. CASE HandleVoteTimeout
  <2>1. CASE state = "candidate"
    BY Zenon, <1>5, <1>6, <1>8, <2>1 DEF HandleVoteTimeout, Unlocked
  <2>2. CASE state # "candidate"
    BY Zenon, <1>8, <2>2 DEF HandleVoteTimeout, TimersUsable
  <2> QED
    BY Zenon, <2>1, <2>2
<1>9. CASE RunElection
  BY Zenon, <1>1, <1>9, FlagsE DEF RunElection, E!EnterRun, E!LeaveRun, TimersUsable, nodeVars
<1>10. CASE RunVote
  BY Zenon, <1>1, <1>10, FlagsV DEF RunVote, V!EnterRun, V!LeaveRun, TimersUsable, nodeVars
<1>11. CASE ElectionTimerFires
  BY Zenon, <1>1, <1>11, FlagsE DEF ElectionTimerFires, E!TimerFires, TimersUsable, nodeVars
<1>12. CASE VoteTimerFires
  BY Zenon, <1>1, <1>12, FlagsV DEF VoteTimerFires, V!TimerFires, TimersUsable, nodeVars
<1>13. CASE TimerDestroyed
  BY Zenon, <1>1, <1>13, FlagsE, FlagsV DEF TimerDestroyed, E!RunOnDestroy, V!RunOnDestroy,
     TimersUsable, nodeVars
<1>14. CASE \E higher, fromLeader \in BOOLEAN : MessageStepsDown(higher, fromLeader)
  BY Zenon, <1>5, <1>14 DEF MessageStepsDown, Unlocked
<1>15. CASE HandlePreVoteResponse
  BY Zenon, <1>6, <1>15 DEF HandlePreVoteResponse, Unlocked
<1>16. CASE HandleRequestVoteResponse
  BY Zenon, <1>1, <1>16, FlagsV DEF HandleRequestVoteResponse, Unlocked, TimersUsable
<1>17. CASE Shutdown
  BY Zenon, <1>5, <1>17 DEF Shutdown
<1>18. CASE DestroyTimers
  BY <1>18 DEF DestroyTimers, TimersUsable
<1>19. CASE UNCHANGED timerVars
  BY Zenon, <1>19 DEF timerVars, nodeVars, TimersUsable
<1> QED
  BY Zenon, <1>3, <1>4, <1>7, <1>8, <1>9, <1>10, <1>11, <1>12, <1>13, <1>14, <1>15, <1>16,
     <1>17, <1>18, <1>19 DEF NodeTimersNext

(* Until it is shut down, a node's election timer runs while it follows and  *)
(* may stand for election, and its vote timer while it is a candidate and at *)
(* no other time.                                                            *)
THEOREM NeededTimerRuns == NodeTimersSpec => []TimersFollowState
<1>1. NodeTimersInit => TimersUsable
  BY DEF NodeTimersInit, TimersUsable
<1>2. TimersUsable => TimersFollowState
  BY Zenon DEF TimersUsable, TimersFollowState
<1> QED
  BY <1>1, <1>2, TasksInOrder, TimersUsableStep, PTL DEF NodeTimersSpec, TimersInOrder
=============================================================================
