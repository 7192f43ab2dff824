---------------------------- MODULE VoteTimeouts ----------------------------
(***************************************************************************)
(* The timeout protocol of PowerSessionManager: a vote that is active has  *)
(* a timeout event in the work queue that deactivates it.  voteSet changes *)
(* the vote under mSessionTaskMapMutex and schedules the event only after  *)
(* it released the mutex, and only when shouldScheduleTimeout says that    *)
(* the event already queued comes too late; handleEvent, on the worker's   *)
(* thread, deactivates the vote or queues itself again.                    *)
(*                                                                         *)
(* This module says nothing about threads, uclamp or the GPU: it is the    *)
(* specification PowerSession is shown to implement.  The work queue is a  *)
(* bag of events, delivered exactly once and not before their deadline;    *)
(* module BackgroundWorker shows when the queue keeps that promise.        *)
(***************************************************************************)
EXTENDS Votes

Queue == INSTANCE BagsExt   \* the work queue is a bag of events

CONSTANTS Sessions,   \* session ids
          Callers     \* the binder thread and the channel group threads

VARIABLES now,      \* steady_clock
          live,     \* the sessions with an entry in mSessionTaskMap
          votes,    \* votes[s][v]
          events,   \* bag of queued EventSessionTimeout with their deadlines
          caller,   \* what each caller is doing
          handler   \* what the worker's thread is doing

vtVars == <<now, live, votes, events, caller, handler>>

Event == [sid : Sessions, vid : VoteIds, deadline : Nat]

IdleCaller == [pc |-> "idle"]
BusyCaller == [pc : {"vote", "schedule"}, sid : Sessions, vid : VoteIds,
               val : Nat, start : Nat, dur : Nat]
IdleHandler == [pc |-> "idle"]
BusyHandler == [pc : {"timeout"}, ev : Event, tNow : Nat]

VTInit ==
    /\ now = 0
    /\ live = {}
    /\ votes = [s \in Sessions |-> NoVotes]
    /\ events = <<>>
    /\ caller = [c \in Callers |-> IdleCaller]
    /\ handler = IdleHandler

VTTick == now' = now + 1 /\ UNCHANGED <<live, votes, events, caller, handler>>

\* addPowerSession: a session starts with one inactive vote.
VTAdd(s) ==
    /\ s \notin live
    /\ live' = live \cup {s}
    /\ \E dur \in Durations :
          votes' = [votes EXCEPT ![s] =
                      [NoVotes EXCEPT !["CPU_VOTE_DEFAULT"] = NewVote(FALSE, now, dur, 0)]]
    /\ UNCHANGED <<now, events, caller, handler>>

VTRemove(s) ==
    /\ s \in live
    /\ live' = live \ {s}
    /\ votes' = [votes EXCEPT ![s] = NoVotes]
    /\ UNCHANGED <<now, events, caller, handler>>

VTDisableBoosts(s) ==
    /\ s \in live
    /\ votes' = [votes EXCEPT ![s] = WithoutBoosts(@)]
    /\ UNCHANGED <<now, live, events, caller, handler>>

VTUpdateTarget(s) ==
    /\ s \in live
    /\ \E dur \in Durations :
          votes' = [votes EXCEPT ![s]["CPU_VOTE_DEFAULT"] = updateDuration(@, dur)]
    /\ UNCHANGED <<now, live, events, caller, handler>>

\* voteSet is called with the current time; mPowerHintSessionLock keeps other
\* callers off the session.
VTCall(c, s) ==
    /\ caller[c].pc = "idle"
    /\ \A d \in Callers : caller[d].pc = "idle" \/ caller[d].sid # s
    /\ \E v \in VoteIds, val \in Levels, dur \in Durations :
          caller' = [caller EXCEPT ![c] =
                       [pc |-> "vote", sid |-> s, vid |-> v, val |-> val,
                        start |-> now, dur |-> dur]]
    /\ UNCHANGED <<now, live, votes, events, handler>>

\* The locked part of voteSet.
VTVote(c) ==
    /\ caller[c].pc = "vote"
    /\ LET k == caller[c]
           vote == votes[k.sid][k.vid]
       IN  IF k.sid \notin live
           THEN /\ caller' = [caller EXCEPT ![c] = IdleCaller]
                /\ UNCHANGED votes
           ELSE /\ votes' = [votes EXCEPT ![k.sid][k.vid] =
                               NewVote(TRUE, k.start, k.dur, k.val)]
                /\ caller' = [caller EXCEPT ![c] =
                                IF shouldScheduleTimeout(vote, k.start + k.dur)
                                THEN [k EXCEPT !.pc = "schedule"]
                                ELSE IdleCaller]
    /\ UNCHANGED <<now, live, events, handler>>

\* The rest of voteSet, after the mutex is released.
VTSchedule(c) ==
    /\ caller[c].pc = "schedule"
    /\ LET k == caller[c]
       IN  events' = Queue!BagAdd(events, [sid |-> k.sid, vid |-> k.vid,
                                     deadline |-> k.start + k.dur])
    /\ caller' = [caller EXCEPT ![c] = IdleCaller]
    /\ UNCHANGED <<now, live, votes, handler>>

\* The worker takes a due event and handleEvent reads the clock.
VTTake ==
    /\ handler.pc = "idle"
    /\ \E e \in DOMAIN events :
          /\ e.deadline <= now
          /\ events' = Queue!BagRemove(events, e)
          /\ handler' = [pc |-> "timeout", ev |-> e, tNow |-> now]
    /\ UNCHANGED <<now, live, votes, caller>>

\* The locked part of handleEvent.
VTTimeout ==
    /\ handler.pc = "timeout"
    /\ LET e == handler.ev
           vote == votes[e.sid][e.vid]
       IN  \/ /\ e.sid \in live /\ vote.active /\ voteTimeout(vote) <= handler.tNow
              /\ votes' = [votes EXCEPT ![e.sid][e.vid] = setUseVote(@, FALSE)]
              /\ UNCHANGED events
           \/ /\ e.sid \in live /\ vote.active /\ handler.tNow < voteTimeout(vote)
              /\ events' = Queue!BagAdd(events, [e EXCEPT !.deadline = voteTimeout(vote)])
              /\ UNCHANGED votes
           \/ /\ e.sid \notin live \/ ~vote.active
              /\ UNCHANGED <<votes, events>>
    /\ handler' = IdleHandler
    /\ UNCHANGED <<now, live, caller>>

VTNext ==
    \/ VTTick \/ VTTake \/ VTTimeout
    \/ \E s \in Sessions : \/ VTAdd(s) \/ VTRemove(s)
                           \/ VTDisableBoosts(s) \/ VTUpdateTarget(s)
                           \/ \E c \in Callers : VTCall(c, s)
    \/ \E c \in Callers : VTVote(c) \/ VTSchedule(c)

VTSpec == VTInit /\ [][VTNext]_vtVars

-----------------------------------------------------------------------------

VTTypeOK ==
    /\ now \in Nat
    /\ live \subseteq Sessions
    /\ votes \in [Sessions -> [VoteIds -> VoteRange]]
    /\ DOMAIN events \subseteq Event
    /\ caller \in [Callers -> {IdleCaller} \cup BusyCaller]
    /\ handler \in {IdleHandler} \cup BusyHandler

\* Some event for vote v of session s is on its way with a deadline in limits:
\* queued, in the hands of the worker, or about to be queued.
EventComes(s, v, limits) ==
    \/ \E e \in DOMAIN events : e.sid = s /\ e.vid = v /\ e.deadline \in limits
    \/ handler.pc = "timeout" /\ handler.ev.sid = s /\ handler.ev.vid = v
    \/ \E c \in Callers : /\ caller[c].pc = "schedule"
                          /\ caller[c].sid = s /\ caller[c].vid = v
                          /\ caller[c].start + caller[c].dur \in limits

\* No boost is forgotten: every active vote of a session has a timeout event
\* on its way, whatever was voted, disabled or re-timed in between and although
\* voteSet queues the event only after it has released the mutex.
ActiveVoteHasEvent ==
    \A s \in live, v \in VoteIds : votes[s][v].active => EventComes(s, v, Nat)

\* No boost outlives its duration in the queue: the event of an active vote is
\* queued for the vote's timeout at the latest.  CPU_VOTE_DEFAULT is excepted,
\* updateTargetWorkDuration shortens it without queueing an earlier event.
BoostEventInTime ==
    \A s \in live, v \in VoteIds \ {"CPU_VOTE_DEFAULT"} :
        votes[s][v].active => EventComes(s, v, 0 .. voteTimeout(votes[s][v]))

=============================================================================
