------------------------------ MODULE NodeTimers ------------------------------
(***************************************************************************)
(* A node and its timers: who starts and stops the election timer and the  *)
(* vote timer of NodeImpl (cpp/node.cc), what their callbacks do, and what *)
(* shutdown leaves behind.                                                 *)
(*                                                                         *)
(* The node has a mutex and each timer has one of its own, taken inside    *)
(* it, so that a timer may expire in the middle of a handler.  Each step   *)
(* therefore calls at most one operation of each timer.  Of the election   *)
(* only what the timers depend on is kept: the state, whether the calls of *)
(* a pre-vote or a vote are out, and whether the leader was heard of       *)
(* within the election timeout.  The step-down timer is left out: nothing  *)
(* calls its init, and until then each of its operations returns at once.  *)
(***************************************************************************)
EXTENDS Naturals

CONSTANTS
  Electable,      \* whether this server listens on port 8000
  TimerAddFails,  \* whether bthread_timer_add may fail
  MaxMessages,    \* bound on the messages of other servers
  MaxShutdown     \* bound on the calls of shutdown

VARIABLES
  phase,          \* start(): "new", "inited" or "up"
  state,          \* _state
  calls,          \* which calls are out: "none", "prevote" or "vote"
  heard,          \* _last_leader_timestamp is recent
  election, vote, \* _election_timer and _vote_timer
  handled,        \* the timers whose run() has called its handler
  closing,        \* shutdown holds the mutex
  shutdowns,      \* history: how often shutdown tore the node down
  messages        \* history: how many messages were handled

nodeVars == <<state, calls, heard>>
timerVars == <<phase, nodeVars, election, vote, handled, closing, shutdowns, messages>>

E == INSTANCE RepeatedTimerTask WITH task <- election, inited <- phase # "new"
V == INSTANCE RepeatedTimerTask WITH task <- vote, inited <- phase # "new"

NodeTimersInit ==
  /\ phase = "new" /\ state = "follower" /\ calls = "none" /\ heard = FALSE
  /\ election = E!NewTask /\ vote = V!NewTask
  /\ handled = {} /\ closing = FALSE /\ shutdowns = 0 /\ messages = 0

(* The node's mutex can be taken.                                          *)
Unlocked == phase # "new" /\ ~closing

-----------------------------------------------------------------------------
(* start: initialises the timers; only on port 8000 it starts one.  Faulty *)
(* variant: it forgets the vote timer, as it does the step-down timer.     *)
InitTimersForgetsVote ==
  /\ phase = "new" /\ phase' = "inited"
  /\ election' = E!InitTask(election)
  /\ UNCHANGED <<nodeVars, vote, handled, closing, shutdowns, messages>>

InitTimers ==
  /\ phase = "new" /\ phase' = "inited"
  /\ election' = E!InitTask(election) /\ vote' = V!InitTask(vote)
  /\ UNCHANGED <<nodeVars, handled, closing, shutdowns, messages>>

StartElectionTimer ==
  /\ phase = "inited" /\ phase' = "up"
  /\ election' \in IF Electable THEN E!Start(election) ELSE {election}
  /\ UNCHANGED <<nodeVars, vote, handled, closing, shutdowns, messages>>

-----------------------------------------------------------------------------
(* step_down.  Faulty variant: it leaves the election timer alone.         *)
StepDownUntimed ==
  /\ state' = "follower"
  /\ vote' = IF state = "candidate" THEN V!Stop(vote) ELSE vote
  /\ UNCHANGED election

StepDown ==
  /\ state' = "follower"
  /\ vote' = IF state = "candidate" THEN V!Stop(vote) ELSE vote
  /\ election' \in E!Start(election)

(* prevote: only a server on port 8000 asks.                               *)
PreVote == calls' = IF Electable THEN "prevote" ELSE calls

(* elect_self, up to the unlock; what follows leaves the timers alone.     *)
ElectSelf ==
  /\ state' = "candidate" /\ calls' = "vote"
  /\ election' = IF state = "follower" THEN E!Stop(election) ELSE election
  /\ vote' \in V!Start(vote)

-----------------------------------------------------------------------------
(* The callbacks.                                                          *)

HandleElectionTimeout ==
  /\ election.invoked > 0 /\ "election" \notin handled /\ Unlocked
  /\ handled' = handled \cup {"election"}
  /\ IF state = "follower" /\ ~heard THEN PreVote ELSE UNCHANGED calls
  /\ UNCHANGED <<phase, state, heard, election, vote, closing, shutdowns, messages>>

(* raft_step_down_when_vote_timedout can be changed while the node runs.   *)
HandleVoteTimeout ==
  /\ vote.invoked > 0 /\ "vote" \notin handled /\ Unlocked
  /\ handled' = handled \cup {"vote"}
  /\ IF state = "candidate"
     THEN \/ StepDown /\ PreVote
          \/ ElectSelf
     ELSE UNCHANGED <<state, calls, election, vote>>
  /\ UNCHANGED <<phase, heard, closing, shutdowns, messages>>

(* run() is called, and returns when its handler has.                      *)
RunElection ==
  /\ UNCHANGED <<phase, nodeVars, vote, closing, shutdowns, messages>>
  /\ \/ E!EnterRun /\ UNCHANGED handled
     \/ /\ "election" \in handled /\ handled' = handled \ {"election"}
        /\ E!LeaveRun

RunVote ==
  /\ UNCHANGED <<phase, nodeVars, election, closing, shutdowns, messages>>
  /\ \/ V!EnterRun /\ UNCHANGED handled
     \/ "vote" \in handled /\ handled' = handled \ {"vote"} /\ V!LeaveRun

(* A timer expires.                                                        *)
ElectionTimerFires ==
  /\ UNCHANGED <<phase, nodeVars, vote, handled, closing, shutdowns, messages>>
  /\ E!TimerFires

VoteTimerFires ==
  /\ UNCHANGED <<phase, nodeVars, election, handled, closing, shutdowns, messages>>
  /\ V!TimerFires

(* on_destroy gives back the timer's reference to the node.                *)
TimerDestroyed ==
  /\ UNCHANGED <<phase, nodeVars, handled, closing, shutdowns, messages>>
  /\ \/ E!RunOnDestroy /\ UNCHANGED vote
     \/ V!RunOnDestroy /\ UNCHANGED election

-----------------------------------------------------------------------------
(* The other servers.                                                      *)

(* A request or a response makes the node step down: one of a higher term, *)
(* or of the same term when the node is no leader.  No state keeps it from *)
(* doing so, not even that of a node that was shut down.                   *)
MessageStepsDown(higher, fromLeader) ==
  /\ Unlocked /\ messages < MaxMessages
  /\ higher \/ state # "leader"
  /\ StepDown
  /\ calls' = IF higher THEN "none" ELSE calls
  /\ heard' = (heard \/ fromLeader)
  /\ messages' = messages + 1
  /\ UNCHANGED <<phase, handled, closing, shutdowns>>

(* AppendEntries of the leader the node follows.                           *)
LeaderHeard ==
  /\ Unlocked /\ messages < MaxMessages /\ state = "follower"
  /\ heard' = TRUE /\ messages' = messages + 1
  /\ UNCHANGED <<phase, state, calls, election, vote, handled, closing, shutdowns>>

(* handle_pre_vote_response with the last grant that is needed.            *)
HandlePreVoteResponse ==
  /\ Unlocked /\ calls = "prevote" /\ state = "follower"
  /\ ElectSelf
  /\ UNCHANGED <<phase, heard, handled, closing, shutdowns, messages>>

(* handle_request_vote_response with the last grant, and become_leader.    *)
HandleRequestVoteResponse ==
  /\ Unlocked /\ calls = "vote" /\ state = "candidate"
  /\ state' = "leader" /\ calls' = "none"
  /\ vote' = V!Stop(vote)
  /\ UNCHANGED <<phase, heard, election, handled, closing, shutdowns, messages>>

(* Calls time out or are refused, and the leader's last message ages.      *)
CallsFail ==
  /\ calls # "none" /\ calls' = "none"
  /\ UNCHANGED <<phase, state, heard, election, vote, handled, closing, shutdowns,
                 messages>>

LeaderForgotten ==
  /\ heard /\ heard' = FALSE
  /\ UNCHANGED <<phase, state, calls, election, vote, handled, closing, shutdowns,
                 messages>>

-----------------------------------------------------------------------------
(* shutdown: step_down, and under the same lock the end of the timers.     *)
Shutdown ==
  /\ phase = "up" /\ ~closing
  /\ state # "shutting" /\ shutdowns < MaxShutdown
  /\ StepDown
  /\ closing' = TRUE
  /\ UNCHANGED <<phase, calls, heard, handled, shutdowns, messages>>

DestroyTimers ==
  /\ closing /\ closing' = FALSE
  /\ state' = "shutting" /\ shutdowns' = shutdowns + 1
  /\ election' = E!Destroy(election) /\ vote' = V!Destroy(vote)
  /\ UNCHANGED <<phase, calls, heard, handled, messages>>

NodeTimersNext ==
  \/ InitTimers \/ StartElectionTimer
  \/ HandleElectionTimeout \/ HandleVoteTimeout
  \/ RunElection \/ RunVote \/ ElectionTimerFires \/ VoteTimerFires
  \/ TimerDestroyed
  \/ \E higher, fromLeader \in BOOLEAN : MessageStepsDown(higher, fromLeader)
  \/ LeaderHeard \/ HandlePreVoteResponse \/ HandleRequestVoteResponse
  \/ CallsFail \/ LeaderForgotten
  \/ Shutdown \/ DestroyTimers

NodeTimersSpec == NodeTimersInit /\ [][NodeTimersNext]_timerVars

(* Timers expire, threads get on, and time passes; nothing is assumed of   *)
(* the other servers or of who shuts the node down.                        *)
FairTimersSpec ==
  /\ NodeTimersSpec
  /\ WF_timerVars(InitTimers) /\ WF_timerVars(StartElectionTimer)
  /\ WF_timerVars(HandleElectionTimeout) /\ WF_timerVars(HandleVoteTimeout)
  /\ WF_timerVars(RunElection) /\ WF_timerVars(RunVote)
  /\ WF_timerVars(ElectionTimerFires) /\ WF_timerVars(VoteTimerFires)
  /\ WF_timerVars(TimerDestroyed)
  /\ WF_timerVars(CallsFail) /\ WF_timerVars(LeaderForgotten)
  /\ WF_timerVars(DestroyTimers)

-----------------------------------------------------------------------------
(* The node implements the owner of a task twice: each of its timers sees  *)
(* calls that a task may see, so that what is proved of a task holds of    *)
(* both.                                                                   *)
TimersAreTasks == E!TimerSpec /\ V!TimerSpec

(* Neither callback runs twice at the same time, although handlers stop    *)
(* and start the timers while they expire, and on_destroy, which gives the *)
(* reference to the node back, is called once and when nothing can touch   *)
(* the timer any more.                                                     *)
TimersInOrder == E!TimerInv /\ V!TimerInv

(* The timer that the node's state needs is never stopped: the election    *)
(* timer of a follower that may stand for election, the vote timer of a    *)
(* candidate and of nobody else.  (The election timer may outlive its need *)
(* when start() starts it after a handler has made the node a candidate.)  *)
TimersFollowState ==
  (phase = "up" /\ ~closing /\ shutdowns = 0) =>
    /\ vote.stopped <=> state # "candidate"
    /\ state = "follower" /\ Electable => ~election.stopped

(* Why: until a shutdown the timers are not destroyed, so that start and   *)
(* stop have their effect.                                                 *)
TimersUsable ==
  /\ phase \in {"new", "inited", "up"} /\ shutdowns \in Nat
  /\ phase = "new" => state = "follower" /\ ~closing
  /\ (phase # "new" /\ shutdowns = 0) =>
       /\ ~election.destroyed /\ ~vote.destroyed
       /\ vote.stopped <=> state # "candidate"
       /\ (phase = "up" /\ state = "follower" /\ Electable) => ~election.stopped

(* A server on port 8000 that does not lead keeps asking for votes: calls  *)
(* are out again and again until it leads or is shut down, whatever other  *)
(* servers make it do and however its timers race with the handlers.       *)
KeepsTrying ==
  Electable =>
     []<>(calls # "none" \/ state = "leader" \/ heard \/ shutdowns > 0)

(* After shutdown both timers give back their reference to the node, even  *)
(* when a callback is in progress.                                         *)
TimersReleased == (shutdowns > 0) ~> (election.gone = 1 /\ vote.gone = 1)

(* An expectation that the code does not meet; no run checks it:           *)
(* "shutdown is probably invoked more than once, make sure this method is  *)
(* idempotent" (shutdown): a message handled in between undoes its state.  *)
ShutdownOnce == shutdowns <= 1
=============================================================================
