--------------------------- MODULE RepeatedTimerTask ---------------------------
(***************************************************************************)
(* RepeatedTimerTask (cpp/repeated_timer_task.cc): a callback that runs    *)
(* again and again until it is stopped.                                    *)
(*                                                                         *)
(* Every operation is one critical section of the task's mutex.  What runs *)
(* outside it are the timer of the bthread library, the thread that a      *)
(* timer starts, run() in that thread, and on_destroy().  Threads are      *)
(* anonymous: the record of a task counts how many are where.              *)
(*                                                                         *)
(* The operations are functions of the record, so that a module with       *)
(* several timers can use them; TimerSpec is a single task whose owner     *)
(* calls them in any order.                                                *)
(***************************************************************************)
EXTENDS Naturals

CONSTANT
  TimerAddFails   \* bthread_timer_add may fail, as it does while the
                  \* process exits

(* stopped, running, destroyed: the members of those names; _invoking is   *)
(* left out, which only describe() reads.                                  *)
(* armed: 1 if the library still holds the timer that _timer names, or 0.  *)
(* lost: timers that it holds and that _timer no longer names.             *)
(* begun: threads before on_timedout(); invoked: threads inside run().     *)
(* due, gone: on_destroy() calls about to be made, and made.               *)
Task ==
  [stopped : BOOLEAN, running : BOOLEAN, destroyed : BOOLEAN,
   armed : Nat, lost : Nat, begun : Nat, invoked : Nat, due : Nat, gone : Nat]

(* The constructor: a task counts as destroyed until init is called.       *)
NewTask ==
  [stopped |-> TRUE, running |-> FALSE, destroyed |-> TRUE,
   armed |-> 0, lost |-> 0, begun |-> 0, invoked |-> 0, due |-> 0, gone |-> 0]

InitTask(t) ==
  [t EXCEPT !.destroyed = FALSE, !.stopped = TRUE, !.running = FALSE]

-----------------------------------------------------------------------------
(* bthread_timer_add: _timer names the new timer.                          *)
TimerAdded(t) ==
  [t EXCEPT !.armed = 1, !.lost = @ + t.armed]

(* schedule: when no timer can be added, on_timedout starts a thread at    *)
(* once.                                                                   *)
Schedule(t) ==
  {TimerAdded(t)} \cup
  (IF TimerAddFails THEN {[t EXCEPT !.begun = @ + 1]} ELSE {})

(* start.  Faulty variant: it does not look for a callback in progress.    *)
StartAlways(t) ==
  IF t.destroyed \/ ~t.stopped THEN {t}
  ELSE Schedule([t EXCEPT !.stopped = FALSE, !.running = TRUE])

Start(t) ==
  IF t.destroyed \/ ~t.stopped THEN {t}
  ELSE IF t.running THEN {[t EXCEPT !.stopped = FALSE]}
  ELSE Schedule([t EXCEPT !.stopped = FALSE, !.running = TRUE])

(* stop: bthread_timer_del tells whether the timer was still held.         *)
Stop(t) ==
  IF t.stopped THEN t
  ELSE [t EXCEPT !.stopped = TRUE, !.armed = 0,
                 !.running = IF t.armed = 1 THEN FALSE ELSE @]

(* reset, with or without a new timeout.                                   *)
Reset(t) ==
  IF t.stopped \/ t.armed = 0 THEN {t} ELSE Schedule([t EXCEPT !.armed = 0])

RunOnceNow(t) ==
  IF t.armed = 1 THEN [t EXCEPT !.armed = 0, !.begun = @ + 1] ELSE t

Destroy(t) ==
  IF t.destroyed THEN t
  ELSE IF ~t.running THEN [t EXCEPT !.destroyed = TRUE, !.due = @ + 1]
  ELSE IF t.stopped THEN [t EXCEPT !.destroyed = TRUE]
  ELSE IF t.armed = 1
  THEN [t EXCEPT !.destroyed = TRUE, !.stopped = TRUE, !.armed = 0,
                 !.running = FALSE, !.due = @ + 1]
  ELSE [t EXCEPT !.destroyed = TRUE, !.stopped = TRUE]

-----------------------------------------------------------------------------
(* A timer expires: on_timedout(void* ) starts a thread.                   *)
Fire(t) ==
  (IF t.armed = 1 THEN {[t EXCEPT !.armed = 0, !.begun = @ + 1]} ELSE {}) \cup
  (IF t.lost > 0 THEN {[t EXCEPT !.lost = @ - 1, !.begun = @ + 1]} ELSE {})

(* on_timedout() up to run().                                              *)
Invoke(t) == [t EXCEPT !.begun = @ - 1, !.invoked = @ + 1]

(* on_timedout() after run().  Faulty variants: it does not schedule the   *)
(* task again; it forgets that the task was destroyed meanwhile.           *)
ReturnOnce(t) ==
  {[t EXCEPT !.invoked = @ - 1, !.running = FALSE,
             !.due = IF t.stopped /\ t.destroyed THEN @ + 1 ELSE @]}

ReturnUndestroyed(t) ==
  LET back == [t EXCEPT !.invoked = @ - 1]
  IN IF t.stopped THEN {[back EXCEPT !.running = FALSE]} ELSE Schedule(back)

Return(t) ==
  LET back == [t EXCEPT !.invoked = @ - 1]
  IN IF ~t.stopped THEN Schedule(back)
     ELSE {[back EXCEPT !.running = FALSE,
                        !.due = IF t.destroyed THEN @ + 1 ELSE @]}

OnDestroy(t) == [t EXCEPT !.due = @ - 1, !.gone = @ + 1]

-----------------------------------------------------------------------------
VARIABLES
  task,      \* the task
  inited     \* whether init was called

timerVars == <<task, inited>>

TimerInit == task = NewTask /\ inited = FALSE

(* init is called once, and destroy only afterwards has an effect.         *)
CallInit == ~inited /\ task' = InitTask(task) /\ inited' = TRUE

CallStart == task' \in Start(task) /\ UNCHANGED inited
CallStop == task' = Stop(task) /\ UNCHANGED inited
CallReset == task' \in Reset(task) /\ UNCHANGED inited
CallRunOnceNow == task' = RunOnceNow(task) /\ UNCHANGED inited
CallDestroy == task' = Destroy(task) /\ UNCHANGED inited

TimerFires == task' \in Fire(task) /\ UNCHANGED inited
EnterRun == task.begun > 0 /\ task' = Invoke(task) /\ UNCHANGED inited
LeaveRun == task.invoked > 0 /\ task' \in Return(task) /\ UNCHANGED inited
RunOnDestroy == task.due > 0 /\ task' = OnDestroy(task) /\ UNCHANGED inited

TimerNext ==
  \/ CallInit \/ CallStart \/ CallStop \/ CallReset \/ CallRunOnceNow \/ CallDestroy
  \/ TimerFires \/ EnterRun \/ LeaveRun \/ RunOnDestroy

TimerSpec == TimerInit /\ [][TimerNext]_timerVars

-----------------------------------------------------------------------------
B2N(b) == IF b THEN 1 ELSE 0

(* The chain of a task: its timers and the threads they started, up to the *)
(* end of run().                                                           *)
Chain(t) == t.armed + t.lost + t.begun + t.invoked

(* A task that runs has exactly one timer or one thread, and one that does *)
(* not has none: run() is never entered twice at the same time, however    *)
(* stop, start and reset race the expiring timer.  on_destroy(), after     *)
(* which the owner may be gone, is called at most once, only after         *)
(* destroy(), and when no timer and no thread can touch the task any more. *)
(* This includes the CHECKs of the code on _running and _stopped.          *)
TaskOK(t) ==
  /\ t \in Task
  /\ Chain(t) = B2N(t.running)
  /\ t.lost = 0
  /\ ~t.stopped => t.running /\ ~t.destroyed
  /\ t.stopped => t.armed = 0
  /\ t.due <= 1 /\ t.gone <= 1 /\ (t.due = 0 \/ t.gone = 0)
  /\ (t.due # 0 \/ t.gone # 0) => t.destroyed /\ ~t.running

TimerInv == TaskOK(task) /\ (~inited => task = NewTask)
=============================================================================
