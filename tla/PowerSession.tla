---------------------------- MODULE PowerSession ----------------------------
(***************************************************************************)
(* Hint sessions (PowerHintSession.cpp) and the manager that aggregates    *)
(* their votes (PowerSessionManager.cpp).  Three kinds of threads call the *)
(* manager: the binder thread, the channel group threads, and the worker's *)
(* thread "adpf_handler0" that runs handleEvent.  A call on a session      *)
(* holds mPowerHintSessionLock to its end, but takes and releases          *)
(* mSessionTaskMapMutex several times: it is modelled as the list of the   *)
(* steps still to be taken, one step per locked section or unlocked        *)
(* effect, and every other thread may run between two of them.             *)
(*                                                                         *)
(* steady_clock::now() is read before the mutex is taken (action Stamp),   *)
(* so a section may run with a time that lies before another thread's      *)
(* section that ran earlier.                                               *)
(***************************************************************************)
EXTENDS Integers, SessionTaskMap, Votes, Sequences

Queue == INSTANCE BagsExt   \* the work queue is a bag of events

CONSTANTS Binder,              \* the binder thread
          Channels,            \* channel group threads
          Handler,             \* the worker's thread
          Targets,             \* target durations a client may set
          Hints,               \* the SessionHints clients send
          StaleTimeFactor,     \* mStaleTimeFactor
          ReportingRateLimit,  \* mReportingRateLimitNs
          MaxCalls,            \* bound on the number of calls
          MaxTime,             \* bound on time
          CallHorizon,         \* no call starts after this time
          MaxStalls            \* bound on the clock ticks that pass during calls

\* Durations holds the durations a session computes from its target.
ASSUME PowerSessionAssumption ==
    /\ IsFiniteSet(Sessions) /\ "none" \notin Sessions
    /\ Binder \notin Channels /\ Handler \notin Channels \cup {Binder}
    /\ Targets \subseteq Durations
    /\ \A d \in Targets : {d * 2, d * StaleTimeFactor, (d * StaleTimeFactor) \div 2,
                          Max({d * StaleTimeFactor, ReportingRateLimit * 2})} \subseteq Durations
    /\ Hints \subseteq {"CPU_LOAD_UP", "CPU_LOAD_DOWN", "CPU_LOAD_RESET", "CPU_LOAD_RESUME",
                        "GPU_LOAD_UP"}
    /\ {StaleTimeFactor, ReportingRateLimit, MaxCalls, MaxTime,
        CallHorizon, MaxStalls} \subseteq Nat

VARIABLES now,          \* steady_clock
          state,        \* state[s]: "new", "open" or "closed" (mSessionClosed)
          isActiveDesc, \* mDescriptor->is_active
          threadIds,    \* mDescriptor->thread_ids
          targetNs,     \* mDescriptor->targetNs
          isActive,     \* SessionValueEntry::isActive
          votes,        \* SessionValueEntry::votes
          events,       \* bag of the queued timeout events
          act,          \* what each thread is doing
          alive,        \* the threads of clients that exist
          uclamp,       \* the uclamp.min set for each thread in the kernel
          qos,          \* the threads with the SCHED_QOS_SENSITIVE profile
          gpuCapacity,  \* what set_gpu_capacity wrote last
          taBoostOff,   \* the ADPF_DISABLE_TA_BOOST hint is on
          calls,        \* calls made so far, bounded by MaxCalls
          stalls        \* ticks during calls so far, bounded by MaxStalls

descVars == <<state, isActiveDesc, threadIds, targetNs>>
sveVars == <<isActive, votes>>
bounds == <<calls, stalls>>
kernelVars == <<uclamp, qos, gpuCapacity, taBoostOff>>
vars == <<mapVars, descVars, sveVars, kernelVars, now, events, act, alive, bounds>>

Callers == Channels \cup {Binder}
Threads == Callers \cup {Handler}
None == "none"      \* no session
NoStamp == -1       \* the clock has not been read

Idle == [sid |-> None, todo |-> <<>>, stamp |-> NoStamp, seen |-> FALSE]
Busy(a) == act[a].todo # <<>>
Next1(a) == Head(act[a].todo)            \* the step thread a takes next
At(a, op) == Busy(a) /\ Next1(a).op = op

\* act[a] after its step: the steps more are inserted before the rest.
Step(a, more) ==
    LET todo == more \o Tail(act[a].todo)
    IN  IF todo = <<>> THEN Idle ELSE [act[a] EXCEPT !.todo = todo, !.stamp = NoStamp]
Done(a) == act' = [act EXCEPT ![a] = Step(a, <<>>)]
Continue(a, more) == act' = [act EXCEPT ![a] = Step(a, more)]

Init ==
    /\ MapInit
    /\ now = 0
    /\ state = [s \in Sessions |-> "new"]
    /\ isActiveDesc = [s \in Sessions |-> TRUE]
    /\ threadIds = [s \in Sessions |-> NoTasks]
    /\ targetNs = [s \in Sessions |-> 0]
    /\ isActive = [s \in Sessions |-> FALSE]
    /\ votes = [s \in Sessions |-> NoVotes]
    /\ events = <<>>
    /\ act = [a \in Threads |-> Idle]
    /\ alive = Tids
    /\ uclamp = [t \in Tids |-> 0]
    /\ qos = {}
    /\ gpuCapacity = 0
    /\ taBoostOff = FALSE
    /\ calls = 0 /\ stalls = 0

-----------------------------------------------------------------------------
(* The step lists of the manager's methods.                                *)

\* applyCpuAndGpuVotes and updateUniversalBoostMode
Refresh == <<[op |-> "apply"], [op |-> "ubRead"], [op |-> "ubDo"]>>

forceSessionActive(flag) == <<[op |-> "force", flag |-> flag]>>

\* Mutant: the old threads leave the map while the session still boosts them.
setThreadsFromPowerSession_NoReset(taskIds) ==
    <<[op |-> "replace", tids |-> taskIds]>> \o forceSessionActive(TRUE)

setThreadsFromPowerSession(taskIds) ==
    forceSessionActive(FALSE) \o <<[op |-> "replace", tids |-> taskIds]>>
                              \o forceSessionActive(TRUE)

removePowerSession == forceSessionActive(FALSE) \o <<[op |-> "remove"]>>

voteSet(v, val, dur) == <<[op |-> "vote", vid |-> v, val |-> val, dur |-> dur]>>

\* updatePidControlVariable with the value the controller chose
updatePidControlVariable(s, val) ==
    voteSet("CPU_VOTE_DEFAULT", val,
            Max({targetNs[s] * StaleTimeFactor, ReportingRateLimit * 2}))

-----------------------------------------------------------------------------
(* The calls on a session.  mPowerHintSessionLock admits one at a time.    *)

Unlocked(s) == \A c \in Callers : act[c].sid # s

Call(c, s, todo) ==
    /\ ~Busy(c) /\ Unlocked(s)
    /\ calls < MaxCalls /\ now <= CallHorizon
    /\ calls' = calls + 1
    /\ act' = [act EXCEPT ![c] = [sid |-> s, todo |-> todo, stamp |-> NoStamp, seen |-> FALSE]]
    /\ UNCHANGED <<mapVars, sveVars, kernelVars, now, events, alive, stalls>>

\* A list of existing threads without repetitions, at least one.
ThreadList == {[t \in Tids |-> IF t \in T THEN 1 ELSE 0] : T \in SUBSET alive \ {{}}}

createHintSession(s) ==
    /\ state[s] = "new"
    /\ \E taskIds \in ThreadList, target \in Targets, min \in Levels :
          /\ state' = [state EXCEPT ![s] = "open"]
          /\ threadIds' = [threadIds EXCEPT ![s] = taskIds]
          /\ targetNs' = [targetNs EXCEPT ![s] = target]
          /\ Call(Binder, s,
                  <<[op |-> "add"]>> \o setThreadsFromPowerSession(taskIds)
                  \o voteSet("CPU_LOAD_RESET", min, (target * StaleTimeFactor) \div 2)
                  \o voteSet("CPU_VOTE_DEFAULT", min, target))
    /\ UNCHANGED isActiveDesc

pause(s) ==
    /\ state[s] = "open" /\ isActiveDesc[s]
    /\ isActiveDesc' = [isActiveDesc EXCEPT ![s] = FALSE]
    /\ Call(Binder, s, setThreadsFromPowerSession(NoTasks)
                       \o <<[op |-> "setActive", flag |-> FALSE]>>)
    /\ UNCHANGED <<state, threadIds, targetNs>>

resume(s) ==
    /\ state[s] = "open" /\ ~isActiveDesc[s]
    /\ isActiveDesc' = [isActiveDesc EXCEPT ![s] = TRUE]
    /\ Call(Binder, s, setThreadsFromPowerSession(threadIds[s])
                       \o <<[op |-> "setActive", flag |-> TRUE]>>)
    /\ UNCHANGED <<state, threadIds, targetNs>>

\* From the binder, or from the destructor when a channel group thread drops
\* the last reference.
close(c, s) ==
    /\ state[s] = "open"
    /\ state' = [state EXCEPT ![s] = "closed"]
    /\ isActiveDesc' = [isActiveDesc EXCEPT ![s] = FALSE]
    /\ Call(c, s, removePowerSession)
    /\ UNCHANGED <<threadIds, targetNs>>

setThreads(s) ==
    /\ state[s] = "open"
    /\ \E taskIds \in ThreadList, min \in Levels :
          /\ threadIds' = [threadIds EXCEPT ![s] = taskIds]
          /\ Call(Binder, s, setThreadsFromPowerSession(taskIds)
                             \o updatePidControlVariable(s, min))
    /\ UNCHANGED <<state, isActiveDesc, targetNs>>

updateTargetWorkDuration(c, s) ==
    /\ state[s] = "open"
    /\ \E target \in Targets \ {0} :
          /\ targetNs' = [targetNs EXCEPT ![s] = target]
          /\ Call(c, s, <<[op |-> "target", dur |-> target]>>)
    /\ UNCHANGED <<state, isActiveDesc, threadIds>>

\* firstFrame stands for isTimeout(), gpu for the conditions under which the
\* report ends in a GPU vote.
reportActualWorkDuration(c, s) ==
    /\ state[s] = "open" /\ targetNs[s] # 0 /\ isActiveDesc[s]
    /\ \E firstFrame, gpu \in BOOLEAN, min, capacity \in Levels :
          Call(c, s, (IF firstFrame THEN Tail(Refresh) ELSE <<>>)
                     \o <<[op |-> "disableBoosts"]>>
                     \o updatePidControlVariable(s, min)
                     \o (IF gpu THEN voteSet("GPU_CAPACITY", capacity,
                                             targetNs[s] * StaleTimeFactor)
                         ELSE <<>>))
    /\ UNCHANGED descVars

\* The votes of each hint; the other hints only reach the hint manager.
HintSteps(s, hint, min) ==
    CASE hint = "CPU_LOAD_UP"     -> updatePidControlVariable(s, min)
                                     \o voteSet("CPU_LOAD_UP", min, targetNs[s] * 2)
      [] hint = "CPU_LOAD_DOWN"   -> updatePidControlVariable(s, min)
      [] hint = "CPU_LOAD_RESET"  -> voteSet("CPU_LOAD_RESET", min,
                                             (targetNs[s] * StaleTimeFactor) \div 2)
      [] hint = "CPU_LOAD_RESUME" -> voteSet("CPU_LOAD_RESUME", min,
                                             (targetNs[s] * StaleTimeFactor) \div 2)
      [] hint = "GPU_LOAD_UP"     -> voteSet("GPU_LOAD_UP", min, targetNs[s])

sendHint(c, s) ==
    /\ state[s] = "open" /\ targetNs[s] # 0
    /\ \E hint \in Hints, min \in Levels : Call(c, s, HintSteps(s, hint, min))
    /\ UNCHANGED descVars

-----------------------------------------------------------------------------
(* The steps.  s is the session of the thread that takes the step.         *)

\* The clock is read for the section that comes next.
Stamp(a) ==
    /\ At(a, "apply") \/ At(a, "vote")
    /\ act[a].stamp = NoStamp
    /\ act' = [act EXCEPT ![a].stamp = now]
    /\ UNCHANGED <<mapVars, descVars, sveVars, kernelVars, now, events, alive, bounds>>

Stamped(a, op) == At(a, op) /\ act[a].stamp # NoStamp

AddSession(a) ==
    /\ At(a, "add")
    /\ LET s == act[a].sid
       IN  /\ add(s, NoTasks)
           /\ isActive' = [isActive EXCEPT ![s] = TRUE]
           /\ votes' = [votes EXCEPT ![s] =
                          [NoVotes EXCEPT !["CPU_VOTE_DEFAULT"] =
                             NewVote(FALSE, now, targetNs[s], 0)]]
    /\ Done(a)
    /\ UNCHANGED <<descVars, kernelVars, now, events, alive, bounds>>

\* Mutant: the session is switched but its votes are not applied anew.
ForceActive_NoApply(a) ==
    /\ At(a, "force")
    /\ isActive' = [isActive EXCEPT ![act[a].sid] = Next1(a).flag]
    /\ Done(a)
    /\ UNCHANGED <<mapVars, descVars, votes, kernelVars, now, events, alive, bounds>>

\* The locked part of forceSessionActive; without the session it returns.
ForceActive(a) ==
    /\ At(a, "force")
    /\ LET s == act[a].sid
       IN  IF s \in mSessions
           THEN /\ isActive' = [isActive EXCEPT ![s] = Next1(a).flag]
                /\ Continue(a, Refresh)
           ELSE Done(a) /\ UNCHANGED isActive
    /\ UNCHANGED <<mapVars, descVars, votes, kernelVars, now, events, alive, bounds>>

\* The locked parts of the manager's pause and resume.
SetActive(a) ==
    /\ At(a, "setActive")
    /\ LET s == act[a].sid
       IN  IF s \in mSessions /\ isActive[s] # Next1(a).flag
           THEN /\ isActive' = [isActive EXCEPT ![s] = Next1(a).flag]
                /\ Continue(a, Refresh)
           ELSE Done(a) /\ UNCHANGED isActive
    /\ UNCHANGED <<mapVars, descVars, votes, kernelVars, now, events, alive, bounds>>

ReplaceThreads(a) ==
    /\ At(a, "replace")
    /\ LET s == act[a].sid
       IN  /\ replace(s, Next1(a).tids)
           /\ Continue(a, <<[op |-> "setProfile", tids |-> addedThreads(Next1(a).tids)],
                            [op |-> "clearProfile", tids |-> removedThreads(s)]>>)
    /\ UNCHANGED <<descVars, sveVars, kernelVars, now, events, alive, bounds>>

\* removePowerSession empties the list of threads and removes the session
\* under one lock; unregisterSession is the closed state.
RemoveSession(a) ==
    /\ At(a, "remove")
    /\ LET s == act[a].sid
       IN  /\ remove(s)
           /\ isActive' = [isActive EXCEPT ![s] = FALSE]
           /\ votes' = [votes EXCEPT ![s] = NoVotes]
           /\ Continue(a, <<[op |-> "clearProfile", tids |-> removedThreads(s)]>>)
    /\ UNCHANGED <<descVars, kernelVars, now, events, alive, bounds>>

\* SetTaskProfiles for the added threads, and for the removed ones, outside
\* the lock.
SetTaskProfiles(a) ==
    /\ \/ At(a, "setProfile") /\ qos' = qos \cup (Next1(a).tids \cap alive)
       \/ At(a, "clearProfile") /\ qos' = qos \ Next1(a).tids
    /\ Done(a)
    /\ UNCHANGED <<mapVars, descVars, sveVars, uclamp, gpuCapacity, taBoostOff,
                   now, events, alive, bounds>>

-----------------------------------------------------------------------------

\* getTaskVoteRange: the highest uclamp.min any active session of t votes for.
getTaskVoteRange(sv, t, time) ==
    Max({0} \cup {getUclampMin(sv[s], time) :
                    s \in {x \in Sessions : mTasks[t][x] > 0 /\ isActive[x]}})

\* applyUclampLocked sets the range of every thread of s, and forgets the
\* threads that sched_setattr reports as dead.
applyUclampLocked(s, sv, time) ==
    LET linked == {t \in Tids : linkedTasks[s][t] > 0}
    IN  /\ uclamp' = [t \in Tids |-> IF t \in linked \cap alive
                                     THEN getTaskVoteRange(sv, t, time) ELSE uclamp[t]]
        /\ IF linked \subseteq alive THEN UNCHANGED mapVars
                                     ELSE dropDeadThreads(s, linked \ alive)

\* getSessionsGpuCapacity: the votes of sessions that are not active count too.
applyGpuVotesLocked(sv, time) ==
    gpuCapacity' = Max({0} \cup {getGpuCapacityRequest(sv[s], time) : s \in mSessions})

applyCpuAndGpuVotes(a) ==
    /\ Stamped(a, "apply")
    /\ LET s == act[a].sid
       IN  IF s \in mSessions
           THEN /\ applyUclampLocked(s, votes, act[a].stamp)
                /\ applyGpuVotesLocked(votes, act[a].stamp)
           ELSE UNCHANGED <<mapVars, uclamp, gpuCapacity>>
    /\ Done(a)
    /\ UNCHANGED <<descVars, sveVars, qos, taBoostOff, now, events, alive, bounds>>

\* isAnyAppSessionActive; every session is one of an app.
AnySessionActive ==
    \E s \in mSessions : isActive[s] /\ ~allTimedOut(votes[s], now)

UniversalBoostRead(a) ==
    /\ At(a, "ubRead")
    /\ act' = [act EXCEPT ![a] = [Step(a, <<>>) EXCEPT !.seen = AnySessionActive]]
    /\ UNCHANGED <<mapVars, descVars, sveVars, kernelVars, now, events, alive, bounds>>

UniversalBoostDo(a) ==
    /\ At(a, "ubDo")
    /\ taBoostOff' = act[a].seen
    /\ Done(a)
    /\ UNCHANGED <<mapVars, descVars, sveVars, uclamp, qos, gpuCapacity,
                   now, events, alive, bounds>>

\* The locked part of voteSet, for CPU and for GPU votes.
VoteSet(a) ==
    /\ Stamped(a, "vote")
    /\ LET s == act[a].sid
           k == Next1(a)
           start == act[a].stamp
           sv == [votes EXCEPT ![s][k.vid] = NewVote(TRUE, start, k.dur, k.val)]
       IN  IF s \notin mSessions
           THEN Done(a) /\ UNCHANGED <<mapVars, votes, uclamp, gpuCapacity>>
           ELSE /\ votes' = sv
                /\ IF k.vid \in CpuVoteIds
                   THEN applyUclampLocked(s, sv, start) /\ UNCHANGED gpuCapacity
                   ELSE applyGpuVotesLocked(sv, start) /\ UNCHANGED <<mapVars, uclamp>>
                /\ IF shouldScheduleTimeout(votes[s][k.vid], start + k.dur)
                   THEN act' = [act EXCEPT ![a].todo =
                                  <<[k EXCEPT !.op = "schedule"]>> \o Tail(@)]
                   ELSE Done(a)
    /\ UNCHANGED <<descVars, isActive, qos, taBoostOff, now, events, alive, bounds>>

\* The rest of voteSet: the timeout is queued after the mutex is released.
ScheduleTimeout(a) ==
    /\ At(a, "schedule")
    /\ events' = Queue!BagAdd(events, [sid |-> act[a].sid, vid |-> Next1(a).vid,
                                 deadline |-> act[a].stamp + Next1(a).dur])
    /\ Done(a)
    /\ UNCHANGED <<mapVars, descVars, sveVars, kernelVars, now, alive, bounds>>

disableBoosts(a) ==
    /\ At(a, "disableBoosts")
    /\ votes' = [votes EXCEPT ![act[a].sid] = WithoutBoosts(@)]
    /\ Done(a)
    /\ UNCHANGED <<mapVars, descVars, isActive, kernelVars, now, events, alive, bounds>>

\* PowerSessionManager::updateTargetWorkDuration: nothing is applied anew.
UpdateVoteDuration(a) ==
    /\ At(a, "target")
    /\ votes' = [votes EXCEPT ![act[a].sid]["CPU_VOTE_DEFAULT"] =
                   updateDuration(@, Next1(a).dur)]
    /\ Done(a)
    /\ UNCHANGED <<mapVars, descVars, isActive, kernelVars, now, events, alive, bounds>>

-----------------------------------------------------------------------------
(* The worker's thread.                                                    *)

\* The queue hands over the event with the earliest deadline once it is due;
\* handleEvent reads the clock first.
TakeEvent ==
    /\ ~Busy(Handler)
    /\ \E e \in DOMAIN events :
          /\ e.deadline <= now
          /\ \A f \in DOMAIN events : e.deadline <= f.deadline
          /\ events' = Queue!BagRemove(events, e)
          /\ act' = [act EXCEPT ![Handler] =
                       [sid |-> e.sid, stamp |-> now, seen |-> FALSE,
                        todo |-> <<[op |-> "timeout", vid |-> e.vid, deadline |-> e.deadline]>>]]
    /\ UNCHANGED <<mapVars, descVars, sveVars, kernelVars, now, alive, bounds>>

\* Mutant: the vote is deactivated but its uclamp is not recomputed.
HandleEvent_NoRecalc ==
    /\ At(Handler, "timeout")
    /\ LET s == act[Handler].sid
           v == Next1(Handler).vid
       IN  /\ votes' = [votes EXCEPT ![s][v] =
                           setUseVote(@, @.active /\ act[Handler].stamp < voteTimeout(@))]
           /\ events' = IF votes'[s][v].active
                        THEN Queue!BagAdd(events, [sid |-> s, vid |-> v,
                                             deadline |-> voteTimeout(votes[s][v])])
                        ELSE events
    /\ Done(Handler)
    /\ UNCHANGED <<mapVars, descVars, isActive, kernelVars, now, alive, bounds>>

\* Mutant: an event that comes early is dropped instead of queued again.
HandleEvent_NoRequeue ==
    /\ At(Handler, "timeout")
    /\ LET s == act[Handler].sid
           v == Next1(Handler).vid
       IN  IF votes[s][v].active /\ voteTimeout(votes[s][v]) <= act[Handler].stamp
           THEN /\ votes' = [votes EXCEPT ![s][v] = setUseVote(@, FALSE)]
                /\ act' = [act EXCEPT ![Handler].todo = Refresh]
           ELSE Done(Handler) /\ UNCHANGED votes
    /\ UNCHANGED <<mapVars, descVars, isActive, events, kernelVars, now, alive, bounds>>

\* The locked part of handleEvent: deactivate the vote and recompute with the
\* time read before the lock, or queue the event again, or nothing.
HandleEvent ==
    /\ At(Handler, "timeout")
    /\ LET s == act[Handler].sid
           v == Next1(Handler).vid
           vote == votes[s][v]
           tNow == act[Handler].stamp
       IN  \/ /\ s \in mSessions /\ vote.active /\ voteTimeout(vote) <= tNow
              /\ votes' = [votes EXCEPT ![s][v] = setUseVote(@, FALSE)]
              /\ act' = [act EXCEPT ![Handler].todo = Refresh]
              /\ UNCHANGED events
           \/ /\ s \in mSessions /\ vote.active /\ tNow < voteTimeout(vote)
              /\ events' = Queue!BagAdd(events, [sid |-> s, vid |-> v,
                                           deadline |-> voteTimeout(vote)])
              /\ Done(Handler)
              /\ UNCHANGED votes
           \/ /\ s \notin mSessions \/ ~vote.active
              /\ Done(Handler)
              /\ UNCHANGED <<votes, events>>
    /\ UNCHANGED <<mapVars, descVars, isActive, kernelVars, now, alive, bounds>>

-----------------------------------------------------------------------------
(* The environment.                                                        *)

ThreadDies(t) ==
    /\ t \in alive
    /\ alive' = alive \ {t}
    /\ qos' = qos \ {t}
    /\ UNCHANGED <<mapVars, descVars, sveVars, uclamp, gpuCapacity, taBoostOff,
                   now, events, act, bounds>>

Tick ==
    /\ now < MaxTime
    /\ now' = now + 1
    /\ \/ (\A c \in Callers : ~Busy(c)) /\ UNCHANGED stalls
       \/ (\E c \in Callers : Busy(c)) /\ stalls < MaxStalls /\ stalls' = stalls + 1
    /\ UNCHANGED <<mapVars, descVars, sveVars, kernelVars, events, act, alive, calls>>

ClientCall ==
    \E s \in Sessions :
        \/ createHintSession(s) \/ pause(s) \/ resume(s) \/ setThreads(s)
        \/ \E c \in Callers : \/ close(c, s) \/ updateTargetWorkDuration(c, s)
                              \/ reportActualWorkDuration(c, s) \/ sendHint(c, s)

ThreadStep(a) ==
    \/ Stamp(a) \/ AddSession(a) \/ ForceActive(a) \/ SetActive(a) \/ ReplaceThreads(a)
    \/ RemoveSession(a) \/ SetTaskProfiles(a) \/ applyCpuAndGpuVotes(a)
    \/ UniversalBoostRead(a) \/ UniversalBoostDo(a) \/ VoteSet(a) \/ ScheduleTimeout(a)
    \/ disableBoosts(a) \/ UpdateVoteDuration(a)

HandlerStep == TakeEvent \/ HandleEvent \/ ThreadStep(Handler)

Next ==
    \/ ClientCall
    \/ \E c \in Callers : ThreadStep(c)
    \/ HandlerStep
    \/ \E t \in Tids : ThreadDies(t)
    \/ Tick

Spec == Init /\ [][Next]_vars

\* Every thread that has a step to take takes it, the worker takes due events
\* and time passes; clients need not call.
FairSpec ==
    /\ Spec
    /\ \A c \in Callers : WF_vars(ThreadStep(c))
    /\ WF_vars(HandlerStep)
    /\ WF_vars(Tick)

-----------------------------------------------------------------------------
(* Properties.                                                             *)

\* The steps a call or an event is made of.
Steps ==
    [op : {"add", "remove", "apply", "ubRead", "ubDo", "disableBoosts"}]
    \cup [op : {"force", "setActive"}, flag : BOOLEAN]
    \cup [op : {"replace"}, tids : TaskBag]
    \cup [op : {"setProfile", "clearProfile"}, tids : SUBSET Tids]
    \cup [op : {"vote", "schedule"}, vid : VoteIds, val : Levels, dur : Durations]
    \cup [op : {"target"}, dur : Durations]
    \cup [op : {"timeout"}, vid : VoteIds, deadline : Nat]

Activity == [sid : Sessions \cup {None}, todo : Seq(Steps), stamp : Nat \cup {NoStamp},
             seen : BOOLEAN]

TypeOK ==
    /\ MapTypeOK
    /\ now \in 0 .. MaxTime /\ calls \in 0 .. MaxCalls /\ stalls \in 0 .. MaxStalls
    /\ state \in [Sessions -> {"new", "open", "closed"}]
    /\ isActiveDesc \in [Sessions -> BOOLEAN] /\ isActive \in [Sessions -> BOOLEAN]
    /\ threadIds \in [Sessions -> TaskBag] /\ targetNs \in [Sessions -> Targets \cup {0}]
    /\ votes \in [Sessions -> [VoteIds -> VoteRange]]
    /\ DOMAIN events \subseteq [sid : Sessions, vid : VoteIds, deadline : Nat]
    /\ act \in [Threads -> Activity]
    /\ alive \subseteq Tids /\ qos \subseteq Tids
    /\ uclamp \in [Tids -> Levels \cup {0}] /\ gpuCapacity \in Nat
    /\ taBoostOff \in BOOLEAN

CallerView(c) ==
    IF Stamped(c, "vote") \/ At(c, "schedule")
    THEN [pc |-> Next1(c).op, sid |-> act[c].sid, vid |-> Next1(c).vid,
          val |-> Next1(c).val, start |-> act[c].stamp, dur |-> Next1(c).dur]
    ELSE [pc |-> "idle"]

HandlerView ==
    IF At(Handler, "timeout")
    THEN [pc |-> "timeout", tNow |-> act[Handler].stamp,
          ev |-> [sid |-> act[Handler].sid, vid |-> Next1(Handler).vid,
                  deadline |-> Next1(Handler).deadline]]
    ELSE [pc |-> "idle"]

VT == INSTANCE VoteTimeouts WITH live <- mSessions,
                                 caller <- [c \in Callers |-> CallerView(c)],
                                 handler <- HandlerView

\* Every call on a session, cut at the manager's mutex and interleaved with the
\* worker, goes through the timeout protocol of VoteTimeouts and nothing else
\* changes votes or events.
ImplementsVoteTimeouts == VT!VTSpec

\* VoteTimeouts' invariants at this level: no boost without a timeout event on
\* its way, and the event of a boost comes by the end of the boost.
ActiveVoteHasEvent == VT!ActiveVoteHasEvent
BoostEventInTime == VT!BoostEventInTime

\* Some thread will still clear the profile of t.
ProfileClearPending(t) ==
    \E a \in Threads : \E i \in DOMAIN act[a].todo :
        act[a].todo[i].op = "clearProfile" /\ t \in act[a].todo[i].tids

\* setThreads, pause and close leave nothing behind on a thread that no session
\* contains any more: its uclamp is back to the default the moment it leaves the
\* map, whichever sessions shared it, and its profile is cleared or will be.
ThreadsReleased ==
    \A t \in alive \ taskKeys :
        /\ uclamp[t] = 0
        /\ t \in qos => ProfileClearPending(t)

\* The highest uclamp.min the active votes on t can account for at any time.
Justified(t) ==
    Max({0} \cup {votes[p[1]][p[2]].val :
                    p \in {q \in mSessions \X CpuVoteIds :
                             /\ mTasks[t][q[1]] > 0 /\ isActive[q[1]]
                             /\ votes[q[1]][q[2]].active}})

\* The uclamp of a thread exceeds its active votes only while a call or an event
\* is still at work on a session that contains the thread: no path that ends or
\* takes away a vote is over before the votes were applied anew.
NoStuckBoost ==
    \A t \in alive :
        uclamp[t] > Justified(t) =>
            \E a \in Threads : Busy(a) /\ linkedTasks[act[a].sid][t] > 0

\* When clients stop calling, every boost ends.
BoostsEnd == <>[](\A t \in alive : uclamp[t] = 0)

=============================================================================
