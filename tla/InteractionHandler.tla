------------------------- MODULE InteractionHandler -------------------------
(***************************************************************************)
(* The INTERACTION boost (InteractionHandler.cpp, called from Power.cpp).  *)
(* Acquire switches the hint on; the thread "DispIdle" waits until the     *)
(* display is idle or the requested time has passed and switches it off.   *)
(* A request that arrives while the thread waits aborts the wait through   *)
(* an eventfd, so that the thread starts over with the new duration.       *)
(*                                                                         *)
(* Time is kept as ages and remaining times that Tick moves on, so no      *)
(* bound on it is needed: an age stops being told apart once it exceeds    *)
(* every duration.  The calls of Power come from its one binder thread.    *)
(***************************************************************************)
EXTENDS Integers

CONSTANTS Durations,         \* the int32_t durations passed to setBoost
          Wrap,              \* 2^32: the width of the unsigned comparison
          kWaitMs, kMinDurationMs, kMaxDurationMs, kDurationOffsetMs,
          kDisplayIdleSupport

ASSUME InteractionAssumption ==
    /\ Durations \subseteq Int /\ Durations # {}
    /\ kDurationOffsetMs \in Nat /\ kWaitMs \in Nat \ {0}
    /\ kMinDurationMs \in Nat \ {0} /\ kMaxDurationMs \in Nat
    /\ kMinDurationMs <= kMaxDurationMs
    /\ Wrap \in Nat /\ kMaxDurationMs < Wrap
    /\ kDisplayIdleSupport \in BOOLEAN

VARIABLES mState, mDurationMs,
          age,           \* time since mLastTimespec
          mEventFd,      \* the eventfd's counter: aborts not yet consumed
          thread,        \* where the thread DispIdle is
          timeout_ms,    \* the argument the thread passed to WaitForIdle
          timer,         \* the remaining time of the thread's poll
          caller,        \* where the owner of the handler is
          mSustainedPerfModeOn,
          hint,          \* how much longer the INTERACTION hint is on, or Forever
          owed,          \* how much longer the requests ask for the hint
          late           \* the last request came when the thread was about to end the hint

threadVars == <<thread, timeout_ms, timer>>
requestVars == <<mDurationMs, age, owed, late>>
vars == <<mState, requestVars, mEventFd, threadVars, caller, mSustainedPerfModeOn, hint>>

Forever == kMaxDurationMs + 1
OldAge == kMaxDurationMs + 1    \* ages from here on are not told apart

Init ==
    /\ mState = "UNINITIALIZED" /\ mDurationMs = 0 /\ age = OldAge
    /\ mEventFd = 0
    /\ thread = "none" /\ timeout_ms = 0 /\ timer = 0
    /\ caller = "constructing"
    /\ mSustainedPerfModeOn \in BOOLEAN    \* from vendor.powerhal.state
    /\ hint = 0
    /\ owed = 0 /\ late = FALSE

HintOn == hint > 0

MaxOf(a, b) == IF a >= b THEN a ELSE b

-----------------------------------------------------------------------------
(* The owner: Power's constructor, binder calls and destructor             *)

InitHandler ==
    /\ caller = "constructing"
    /\ caller' = "ready"
    /\ \/ mState' = "IDLE" /\ thread' = "top"
       \/ UNCHANGED <<mState, thread>>     \* no idle node, or no eventfd
    /\ UNCHANGED <<requestVars, mEventFd, timeout_ms, timer, mSustainedPerfModeOn, hint>>

\* Mutant: the upper limit is not applied.
finalDuration_NoMax(duration) ==
    MaxOf(kMinDurationMs, (duration + kDurationOffsetMs) % Wrap)

\* int inputDuration is compared with a uint32_t, hence as unsigned.
finalDuration(duration) ==
    LET inputDuration == (duration + kDurationOffsetMs) % Wrap
    IN  IF inputDuration > kMaxDurationMs THEN kMaxDurationMs
        ELSE IF inputDuration > kMinDurationMs THEN inputDuration
        ELSE kMinDurationMs

\* Mutant: the time the previous request has been running is forgotten.
covered_NoElapsed(final) == mState # "IDLE" /\ final <= mDurationMs

\* The previous request lasts at least as long as this one.
covered(final) ==
    /\ mState # "IDLE"
    /\ final <= mDurationMs
    /\ age <= mDurationMs - final

\* notify_one and notify_all: the only thread that waits on mCond is DispIdle.
notify == thread' = IF thread = "asleep" THEN "top" ELSE thread

\* Without the handler the hint is requested with a duration of its own.
AcquireDirectly(final) ==
    /\ hint' = MaxOf(hint, final)
    /\ owed' = MaxOf(owed, final)
    /\ UNCHANGED <<mState, mDurationMs, age, late, mEventFd, threadVars, caller, mSustainedPerfModeOn>>

AcquireCovered(final) ==
    /\ covered(final)
    /\ owed' = MaxOf(owed, final)
    /\ late' = (late \/ (thread = "cut" /\ mState = "WAITING"))
    /\ UNCHANGED <<mState, mDurationMs, age, mEventFd, threadVars, caller, mSustainedPerfModeOn, hint>>

\* Mutant: the thread is not notified.
AcquireNew_NoNotify(final) ==
    /\ ~covered(final)
    /\ age' = 0 /\ mDurationMs' = final
    /\ mEventFd' = IF mState = "WAITING" THEN mEventFd + 1 ELSE mEventFd
    /\ hint' = IF mState = "IDLE" THEN Forever ELSE hint
    /\ mState' = "INTERACTION"
    /\ owed' = (IF mState = "IDLE" THEN final ELSE MaxOf(owed, final)) /\ late' = FALSE
    /\ UNCHANGED <<threadVars, caller, mSustainedPerfModeOn>>

AcquireNew(final) ==
    /\ ~covered(final)
    /\ age' = 0 /\ mDurationMs' = final
    /\ mEventFd' = IF mState = "WAITING" THEN mEventFd + 1 ELSE mEventFd
    /\ hint' = IF mState = "IDLE" THEN Forever ELSE hint
    /\ mState' = "INTERACTION"
    /\ notify
    /\ owed' = (IF mState = "IDLE" THEN final ELSE MaxOf(owed, final)) /\ late' = FALSE
    /\ UNCHANGED <<timeout_ms, timer, caller, mSustainedPerfModeOn>>

Acquire(duration) ==
    LET final == finalDuration(duration)
    IN  IF ~kDisplayIdleSupport \/ mState = "UNINITIALIZED"
        THEN AcquireDirectly(final)
        ELSE AcquireCovered(final) \/ AcquireNew(final)

setBoost(duration) ==
    /\ caller = "ready" /\ ~mSustainedPerfModeOn
    /\ Acquire(duration)

\* setMode(SUSTAINED_PERFORMANCE, enabled) sets the flag whatever enabled is.
setSustained ==
    /\ caller = "ready"
    /\ mSustainedPerfModeOn' = TRUE
    /\ UNCHANGED <<mState, requestVars, mEventFd, threadVars, caller, hint>>

\* Exit, from the destructor: under the lock, after it, and the join.
Exit ==
    /\ caller = "ready"
    /\ IF mState = "UNINITIALIZED"
       THEN caller' = "gone" /\ UNCHANGED <<mState, mEventFd>>
       ELSE caller' = "exiting" /\ mState' = "UNINITIALIZED" /\ mEventFd' = mEventFd + 1
    /\ UNCHANGED <<requestVars, threadVars, mSustainedPerfModeOn, hint>>

\* Mutant: the sleeping thread is not told to look at mState again.
ExitNotify_None ==
    /\ caller = "exiting" /\ caller' = "joining"
    /\ UNCHANGED <<mState, requestVars, mEventFd, threadVars, mSustainedPerfModeOn, hint>>

ExitNotify ==
    /\ caller = "exiting" /\ caller' = "joining"
    /\ notify
    /\ UNCHANGED <<mState, requestVars, mEventFd, timeout_ms, timer, mSustainedPerfModeOn, hint>>

ExitJoin ==
    /\ caller = "joining" /\ thread = "done"
    /\ caller' = "gone"
    /\ UNCHANGED <<mState, requestVars, mEventFd, threadVars, mSustainedPerfModeOn, hint>>

-----------------------------------------------------------------------------
(* The thread DispIdle                                                     *)

\* The top of Routine's loop, with the predicate of mCond.wait.
Routine ==
    /\ thread = "top"
    /\ \/ mState = "IDLE" /\ thread' = "asleep" /\ UNCHANGED mState
       \/ mState = "UNINITIALIZED" /\ thread' = "done" /\ UNCHANGED mState
       \/ mState \in {"INTERACTION", "WAITING"} /\ thread' = "unlocked" /\ mState' = "WAITING"
    /\ UNCHANGED <<requestVars, mEventFd, timeout_ms, timer, caller, mSustainedPerfModeOn, hint>>

\* The call of WaitForIdle reads mDurationMs without the lock.
CallWaitForIdle ==
    /\ thread = "unlocked"
    /\ thread' = "poll_abort"
    /\ timeout_ms' = mDurationMs /\ timer' = kWaitMs
    /\ UNCHANGED <<mState, requestVars, mEventFd, caller, mSustainedPerfModeOn, hint>>

PollAborted ==
    /\ thread \in {"poll_abort", "poll_idle"} /\ mEventFd > 0
    /\ thread' = "release"
    /\ UNCHANGED <<mState, requestVars, mEventFd, timeout_ms, timer, caller, mSustainedPerfModeOn, hint>>

PollTimedOut ==
    /\ thread \in {"poll_abort", "poll_idle"} /\ mEventFd = 0 /\ timer = 0
    /\ thread' = IF thread = "poll_abort" THEN "read_idle" ELSE "release"
    /\ UNCHANGED <<mState, requestVars, mEventFd, timeout_ms, timer, caller, mSustainedPerfModeOn, hint>>

\* The display is not idle: wait until it is.
ReadBusy ==
    /\ thread = "read_idle"
    /\ thread' = "poll_idle" /\ timer' = timeout_ms
    /\ UNCHANGED <<mState, requestVars, mEventFd, timeout_ms, caller, mSustainedPerfModeOn, hint>>

\* The display is idle, or poll or pread fails: the requests are cut short.
WaitCut ==
    /\ thread \in {"poll_abort", "read_idle", "poll_idle"}
    /\ thread' = "cut"
    /\ owed' = IF mState = "WAITING" THEN 0 ELSE owed
    /\ UNCHANGED <<mState, mDurationMs, age, late, mEventFd, timeout_ms, timer, caller, mSustainedPerfModeOn, hint>>

\* Mutant: the hint is released although a request restarted the wait.
Release_Always ==
    /\ thread \in {"release", "cut"} /\ thread' = "top"
    /\ hint' = 0 /\ mEventFd' = 0
    /\ mState' = IF mState = "WAITING" THEN "IDLE" ELSE mState
    /\ UNCHANGED <<requestVars, timeout_ms, timer, caller, mSustainedPerfModeOn>>

\* Mutant: the pending abort is left in the eventfd.
Release_NoDrain ==
    /\ thread \in {"release", "cut"} /\ thread' = "top"
    /\ IF mState = "WAITING" THEN hint' = 0 /\ mState' = "IDLE"
       ELSE UNCHANGED <<hint, mState>>
    /\ UNCHANGED <<requestVars, mEventFd, timeout_ms, timer, caller, mSustainedPerfModeOn>>

Release ==
    /\ thread \in {"release", "cut"} /\ thread' = "top"
    /\ IF mState = "WAITING"
       THEN hint' = 0 /\ mState' = "IDLE" /\ UNCHANGED mEventFd
       ELSE mEventFd' = 0 /\ UNCHANGED <<hint, mState>>
    /\ UNCHANGED <<requestVars, timeout_ms, timer, caller, mSustainedPerfModeOn>>

-----------------------------------------------------------------------------

LessOne(t) == IF t = 0 THEN 0 ELSE t - 1

Tick ==
    /\ age' = IF age = OldAge THEN OldAge ELSE age + 1
    /\ timer' = LessOne(timer)
    /\ hint' = IF hint = Forever THEN Forever ELSE LessOne(hint)
    /\ owed' = LessOne(owed)
    /\ UNCHANGED <<mState, mDurationMs, late, mEventFd, thread, timeout_ms, caller, mSustainedPerfModeOn>>

Next ==
    \/ InitHandler
    \/ \E d \in Durations : setBoost(d)
    \/ setSustained
    \/ Exit \/ ExitNotify \/ ExitJoin
    \/ Routine \/ CallWaitForIdle \/ PollAborted \/ PollTimedOut
    \/ ReadBusy \/ WaitCut \/ Release
    \/ Tick

Spec == Init /\ [][Next]_vars

\* Time passes, the thread is scheduled, and a destructor runs to its end.
FairSpec ==
    /\ Spec
    /\ WF_vars(Tick)
    /\ WF_vars(Routine \/ CallWaitForIdle \/ PollAborted \/ PollTimedOut \/ ReadBusy \/ Release)
    /\ WF_vars(ExitNotify \/ ExitJoin)

-----------------------------------------------------------------------------

\* The handler's state is well formed; every duration the thread waits for is
\* between the configured minimum and maximum, whatever was asked for.
TypeOK ==
    /\ mState \in {"UNINITIALIZED", "IDLE", "INTERACTION", "WAITING"}
    /\ mDurationMs \in {0} \cup kMinDurationMs .. kMaxDurationMs
    /\ age \in 0 .. OldAge
    /\ mEventFd \in 0 .. 2
    /\ thread \in {"none", "top", "asleep", "unlocked", "poll_abort", "read_idle",
                   "poll_idle", "release", "cut", "done"}
    /\ timeout_ms \in {0} \cup kMinDurationMs .. kMaxDurationMs
    /\ timer \in 0 .. MaxOf(kWaitMs, kMaxDurationMs)
    /\ caller \in {"constructing", "ready", "exiting", "joining", "gone"}
    /\ mSustainedPerfModeOn \in BOOLEAN
    /\ hint \in 0 .. Forever
    /\ owed \in 0 .. kMaxDurationMs
    /\ late \in BOOLEAN

\* While the handler runs, the hint is on exactly in the states INTERACTION
\* and WAITING: no interleaving of Acquire and Release ends it twice, leaves
\* it on with nobody to end it, or ends it under a request.
HintMatchesState ==
    (kDisplayIdleSupport /\ thread # "none" /\ caller = "ready") =>
        IF mState = "IDLE" THEN hint = 0 ELSE hint = Forever

\* An abort in the eventfd is always meant for the wait the thread is in: it
\* never survives into a wait that starts later and would end that one at once.
NoStaleAbort ==
    mEventFd > 0 => /\ mState # "WAITING"
                    /\ thread \in {"unlocked", "poll_abort", "read_idle", "poll_idle", "release", "cut"}
                           \/ mState = "UNINITIALIZED"

\* The hint stays on for as long as any request asked, the ones Acquire
\* ignored as covered included, unless the wait was cut short by an idle
\* display; a request that Acquire ignored after that cut is late.
RequestHonoured == owed > 0 => HintOn \/ late

Requesting == \E d \in Durations : setBoost(d)

\* Once requests stop coming the hint is released for good: the thread never
\* sleeps through a request and always comes back from its wait.  (Exit alone
\* ends the thread without releasing the hint.)
HintReleased ==
    []<><<Requesting>>_vars \/ <>[]~HintOn \/ <>(caller = "exiting")

\* The destructor's join returns: Exit gets the thread out of any wait.
ExitReturns == (caller = "exiting") ~> (caller = "gone")

=============================================================================
