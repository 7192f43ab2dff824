# Verification of the markw device tree

TLA+ models, TLC runs and TLAPS proofs for the Android device tree of the Xiaomi
markw (`android_device_xiaomi_markw-4.9`). Most of that repository is configuration or
code received from Qualcomm; its own core is the power HAL under
`src/power-libperfmgr/aidl`, with the thermal HAL (`src/thermal`) and the lights HAL
(`src/light`) beside it. These are modelled, and of Qualcomm's code the part with the
hardest control flow: the state machine of the camera HAL (`src/camera/QCamera2/HAL`).
Paths below are relative to the power HAL's directory unless they start with `src/`.

## The system

### Parts, state and operations

| Part | State | Operations |
| --- | --- | --- |
| `PowerHintSession` | descriptor (active, target, thread ids), closed flag | `pause` `resume` `close` `setThreads` `updateTargetWorkDuration` `reportActualWorkDuration` `sendHint` `setMode` |
| `PowerSessionManager` | session/task map, GPU node, top-app boost hint | add and remove sessions, replace threads, `voteSet`, `disableBoosts`, `handleEvent`, apply uclamp and GPU capacity |
| `SessionTaskMap` | sessions with their tasks, tasks with their sessions | `add` `remove` `replace` `removeDeadTaskSessionMap` |
| `UClampVoter` (`Votes`) | per session a set of timed votes | add, activate, prolong, aggregate |
| `BackgroundWorker` | packages by id, queue of (deadline, id), pool of threads | `schedule`, `loop`, `process`, destructor |
| `ChannelManager` | which client process has which slot of which group | get or create, close |
| `ChannelGroup` | up to 16 channels, event flag, one thread | create, remove, the thread's loop, destructor |
| `InteractionHandler` | four-valued state, duration, eventfd, thread `DispIdle` | `Acquire`, `Release`, `Init`, `Exit` |
| `Power` | sustained-performance flag | `setMode`, `setBoost`, session and channel entry points |
| `SessionRecords` | sliding window of frame records, queue of maxima, interval sum | add, reset, queries |
| Thermal HAL | sensors with value and severity, trip and hysteresis in sysfs, list of callbacks | netlink trip, sample and create events; temperature reads; register, unregister |
| Lights HAL | last state of three lights, blink setting, the LED | `setLightState`, the blink thread, destructor |
| Camera state machine | one of eight states, two queues, result list, channels, pending captures | some 25 calls, three backend events, live snapshot thread, destructor |

Outside these the repository's own code is thin fingerprint and infrared HALs, a
boot-time init extension, shims, an FM radio and some settings apps. `src/qcom-caf`,
the rest of `src/camera/QCamera2` and `src/gps` are vendored.

### How the parts interact

Binder calls arrive on one thread (`service.cpp:48`). A client may instead write
messages into a shared-memory channel; the thread of the channel's group reads them and
calls the same session methods. A session method holds `mPowerHintSessionLock` from
beginning to end and calls the manager, which takes `mSessionTaskMapMutex` for parts of
its work. A vote that needs a timeout is put into the deadline queue; the thread
`adpf_handler0` runs `handleEvent` for it. The lock order is
`mPowerHintSessionLock`, `mSessionTaskMapMutex`, the worker's mutex, the pool's mutex.
Interaction boosts go from `Power::setBoost` to `InteractionHandler`, whose thread
`DispIdle` ends them.

In the thermal HAL two netlink threads and the binder threads take `sens_cb_mutex`, and
inside it, to notify, `thermal_callback_mutex_`. In the lights HAL a binder thread and
the blink thread share `mMutex`, but the blink thread writes the LED without it. In the
camera HAL a caller puts a command into the queue of the state machine and waits for its
result in a list shared by all callers; backend threads put events into a second queue
that is looked at when the first is empty, and the callback thread waits for the event
it queued.

The powerhint configuration shipped in `src/configs/powerhint.json` has no ADPF profile
and no GPU node, so on this device hint sessions are refused until a profile is added;
interaction boosts, modes and channels are live. The models describe the code as
written, with sessions enabled.

### What is hard

Votes are changed under a mutex and their timeouts queued after it is released; times
are read before the mutex is taken; thread lists change while other sessions and the
worker apply votes to the same threads, and threads die at any moment; the worker's ids
are read outside their lock; group threads wait on bits that clients set at any time and
are joined by destructors; the interaction thread's wait is aborted, times out and is
released concurrently with new requests. Callbacks are erased from the list that is
being notified, and severities are estimated by three threads; the blink thread writes a
colour it copied before; camera events are overtaken by calls, operations fail half way,
and answers are deferred to events that may arrive in another state. None of the
repository's code has tests for these. `PROJECT.json` lists them as hazards, each at its line.

## Modules

| Module | Models | Correspondence |
| --- | --- | --- |
| `SessionTaskMap` | `SessionTaskMap.cpp` | one action per operation; both vectors as bags, since order never matters and a client may repeat a thread id |
| `Votes` | `UClampVoter.cpp` | operators on a record per vote |
| `VoteTimeouts` | abstract: the timeout protocol | what `voteSet`, `disableBoosts`, `updateTargetWorkDuration` and `handleEvent` do to votes and events |
| `PowerSession` | `PowerHintSession.cpp`, `PowerSessionManager.cpp` | a call is a list of steps, one per section under `mSessionTaskMapMutex` or unlocked effect; every thread may run between two steps |
| `MCPowerSession` | | symmetry of sessions for TLC |
| `BackgroundWorker` | `BackgroundWorker.{h,cpp}` | `schedule` in three steps: store under the worker's mutex, read the counter, push under the pool's mutex; the pool thread waits, is notified, times out, pops and processes |
| `ChannelDirectory` | abstract: a directory | a client has at most one channel and no two clients share one |
| `ChannelManager` | `ChannelManager.cpp` and the counts of `ChannelGroup.cpp` | one action per branch of `getOrCreateChannel`, one for `closeChannel` |
| `ChannelGroup` | `ChannelGroup.cpp` | clients, the binder thread and the group's thread |
| `InteractionHandler` | `InteractionHandler.cpp`, `Power::setBoost` | owner thread and `DispIdle`; time as ages and remaining times |
| `MCInteractionHandler` | | a negative duration, which a configuration file cannot write |
| `SessionRecords` | `SessionRecords.cpp` | one action per reported frame, one for the reset; `window` is the reference the incremental figures are compared with |
| `ThermalHal` | `thermal.cpp`, `thermalUtilsNetlink.cpp`, `thermalCommon.cpp` | one action per critical section, per sensor read and per callback notified |
| `MCThermalHal` | | a hot and a cold sensor of this device's table, scaled |
| `Lights` | `Lights.cpp` and the LED devices | `setLightState` up to its unlock, one action per channel file written by either thread |
| `MCLights` | | the light states clients set |
| `QCameraStateMachine` | `QCameraStateMachine.cpp` and the operations of `QCamera2HWI.cpp` it calls | one operator per state handler; an operation that can fail is the set of its outcomes |
| `QCamera2HWI` | the callers, the backend, the live snapshot thread and the post-processor's `stopCapture` | composes the state machine with everything that feeds its queues |
| `MCQCamera2HWI` | | one caller and its calls |
| `*Proofs` | | theorems about the module they are named after; `PowerSessionProofs` also about `SessionTaskMap` |
| `PowerHalProofs` | | theorems about `InteractionHandler` and about `SessionRecords` |
| `LightsThermalProofs` | | theorems about `Lights` and about `ThermalHal` |

`PowerSession` extends `SessionTaskMap` and `Votes` and instantiates `VoteTimeouts`;
`ChannelManager` instantiates `ChannelDirectory`; `QCamera2HWI` extends
`QCameraStateMachine`. A proof module about two components extends both, so `Lights` and
`SessionRecords` have names of their own for what the others call `Init`, `Next`, `Spec`
and `TypeOK` (`LightsInit`, `RecordsInit` and so on).

What the models leave out: the PID arithmetic that chooses a uclamp value (any level may
be chosen), jank and heuristic boosts, uclamp.max and the power-efficiency mode, process
tags, descriptors of shared memory, tracing and logging. libfmq (queues and event flag)
and the hint manager are external and modelled by how they are used. In the records the
frame buckets of the metrics are left out; in the thermal HAL cooling devices,
thresholds handed to clients and the variant without netlink (`thermalUtils.cpp`,
`thermalMonitor.cpp`, which `Android.bp` builds only without
`ENABLE_THERMAL_NETLINK`), as well as sysfs writes that fail; in the lights HAL the
backlight, one write per call. In the camera HAL message masks, dual cameras, advanced
capture (HDR, bracketing), preview without display (which the handlers treat like a
preview whose window is set), pictures the backend itself asks for and the parameters
other than ZSL, the recording hint and "needs a restart" are left out. So is TNR, whose
channel `startRecording` starts after the video channel and whose error may hide, or
stand for, that of the video channel. The channel variable `ch` is about the preview,
ZSL and video channels; a CAPTURE channel that the error paths of `takePicture` leave
allocated (`QCamera2HWI.cpp:4716`, `4726`) is not in it.

Three modelling choices of the camera: the frames a capture still owes are not counted,
so `AllPictures` may report the end of any running capture at any time and `stopCapture`
may send its command again; a woken caller may take its result as late as it likes; and
both live snapshot operations may fail to start their thread (`live = "failed"` when it
was the one that should end a capture). All add behaviours. A flash estimation ends with
metadata, so it is under way (`prep`) only while a stream runs.

## Runs

| Run | Question | Result |
| --- | --- | --- |
| `session_life` | one session, all calls, stalls between locked sections: does every active vote have an event in time, is every step one of `VoteTimeouts`, do boosts end? | holds |
| `session_share` | two sessions sharing a thread, two calling threads, dying threads: map consistent, threads released, no stuck boost? | holds |
| `channels` | four clients over groups of two slots: do the fatal checks stay quiet, is the manager a directory? | holds |
| `worker` | two scheduling threads: has every package whose call did not overlap one entry, is it delivered and not early, and does shutdown end? | holds |
| `worker_ids` | two calls that overlap: are ids unique? | violated |
| `channel_group` | two slots, two clients, a client with a broken queue: no lost wake-up, order kept, all read, destructor returns? | holds |
| `channel_loss` | is every message read handed to its session? | violated |
| `interaction` | requests of several lengths against `DispIdle`: state and hint agree, no stale abort, requests honoured, hint released, destructor returns? | holds |
| `records` | frames, game mode and resets over a ring of four: is every figure what a walk over the window computes? | holds |
| `thermal` | two sensors, two callbacks, netlink and binder threads, late discovery: do callbacks know the severity, do trips fit it, no flapping, do threads leave the locks? | holds |
| `lights` | three lights against debounce and blink thread: does the LED show the composite, is a lasting blink seen, does the destructor return? | holds |
| `camera` | all calls, failing operations, stale events, commands nobody waits for: do streams and state agree, does every caller get its own answer, is no thread left waiting? | holds |

Bounds. Sessions: three calls, all of them started at time 0 (`CallHorizon`), then time
runs to `MaxTime`, beyond every deadline, so each boost's end is in the run;
`MaxStalls` lets the clock tick once in the middle of a call, which is what makes a
stamp stale. Two sessions and one thread are the smallest instance with a shared thread,
two calling threads the smallest with concurrent calls. Channels: two slots per group
and four clients make groups fill, empty, vanish and have their ids used again. Worker:
three packages with equal, earlier and later deadlines and two callers, so that two
calls overlap before, during and after a third that does not. Group: three messages, so a
batch of two and a message after it exist. Interaction: no bound on time or calls;
minimum 1, maximum 4, offset 1 and durations -3, 0, 1, 2 reach every branch of the
clamping, including the wrap of a negative duration. Records: a ring of four is longer
than the three frames of the interval sum and wraps; three durations give equal,
shorter and longer frames, intervals 0 and 2 a reordered report and a jitter, and one
reset at any point (values add up, so a second one shows nothing new). Thermal: the
temperatures lie at, between and beyond the thresholds minus hysteresis of both
sensors; two callbacks are enough for one to be erased in front of another; one binder
thread, since `sens_cb_mutex` is held from the beginning of a read to its end. Lights:
two of the LED's three channels, so a colour is written in two steps; a dark, a static
and two blinking states for three lights. Camera: one caller, as the camera service
serialises its calls (two callers have 16 million states before the calls are all in);
it never sets the recording hint itself; at most one command or result nobody waits for
(`MaxUnread`) and one event of a switched-off longshot (`MaxEvents`) are outstanding.
The number of calls is not bounded.

Deadlock checking is off where a run ends because its bounds are used up or because
shutdown is the end of the behaviour.

### Fairness

`FairSpec` of each module (`LightsFairSpec` in `Lights`) assumes weak fairness of the
steps of threads that are ready to run, which the kernel's scheduler provides, and of
the clock. Clients owe nothing: they may stop calling at any point. In `ChannelGroup` a
client that has written a message is assumed to set its bit. In `InteractionHandler` the
display need not ever become idle; only timeouts and aborts are guaranteed. In
`ThermalHal` a thread inside the locks goes on; the oneway notification it sends returns
at once. In `Lights` the sleeps of the blink thread end and the file writes of a call
complete. `QCamera2HWI` and `SessionRecords` state no fairness: their properties are
invariants, and "a caller waits in vain" is the state in which nothing that could answer
is left.

### Findings

1. `worker_ids`: `schedule` passes the counter to the pool after releasing the lock, so
   two scheduling threads may queue one id twice and never the other. The history
   variable `overlapped` collects the packages of such calls, and the run `worker` shows
   that the damage stays with them. `VoteTimeouts` assumes a queue that delivers every
   event once, so its results hold as long as no two calls of `schedule` overlap.
2. `channel_loss`: after a batch of work durations both loops advance the index and the
   next message is dropped.

### Also seen

Seen while modelling and not stated as a property of a run, or only as the exception
the property names.

* Sessions. `removePowerSession` (`PowerSessionManager.cpp:137`, "we also need to undo
  the effects the session has on currently enabled votes") applies the votes with the
  session inactive, but the GPU sum does not look at `isActive` and nothing writes the
  node after the session left the map. `setThreads` on a paused session makes it active
  again. `updateUniversalBoostMode` decides under the mutex and acts after it; two
  threads may act in the opposite order until the next call.
* Interaction. A request that arrives after `DispIdle` saw an idle display and before it
  releases the hint is ignored as covered (`InteractionHandler.cpp:176`);
  `RequestHonoured` names it `late`. `setMode(SUSTAINED_PERFORMANCE, false)` sets the
  flag that suppresses boosts. `Exit` during an interaction leaves the hint on.
* Channels. The blocklist (`ChannelGroup.cpp:121`) is a function-local static, shared
  without a lock by the threads of all groups.
* Records. `resetRecords` keeps the interval sum, its count and the jitters: the jitters
  of before the reset are counted for ever (`carried`), and after a reset in game mode
  the frame rate is wrong until game mode ends (`clean`). `getLatestFPS` "will only
  return valid value when the computeFPSJitters is enabled" (`SessionRecords.h:57`);
  `PowerHintSession.cpp:425` asks it of any SurfaceFlinger session, and outside game
  mode the divisor is 0. The comment at `SessionRecords.cpp:81` speaks of the average,
  the code of 1.4 times the average.
* Thermal. The hysteresis is 5000 divided by `mulFactor`: 5 V for the battery voltage
  and 5000 points for the state of charge, so those severities, once entered, are never
  left. A trip event before the first sample notifies the severity of the value 0. At
  start the trip is armed for the severity of a copy while the record says NONE, so a
  sensor that was hot at start and cooled down unread is not armed for its first
  threshold (`ArmedForStatus` speaks of sensors that have changed). `is_sensor_init` is
  set before the map is filled, and `find` on the map is not locked. The retry loop
  `while (ct++ && ...)` in `thermalConfig.cpp` never retries. A file that cannot be
  opened yields a positive errno, taken for a length, and the old value.
* Lights. The last of several updates within 50 ms is never applied. A blink write under
  way overwrites a static colour or darkness, and nothing corrects it; the channels of
  the two writers mix (`overrun`).
* Worker. Of two calls of `schedule` that overlap one package may never be delivered;
  the other has two entries and is delivered with the first, which may be early.
* Camera, commands nobody answers: `RELEASE_RECORDING_FRAME` in the states without
  recording and preview pictures, `REG_FACE_IMAGE` in `PREPARE_SNAPSHOT`; the caller
  waits for ever. A retro picture waits for ever when the `SNAPSHOT_DONE` of the
  previous capture, overtaken by its commands, ends it. A flash estimate asked for in
  `PREVIEWING` without streams (after a failed restart) waits for ever: the metadata that
  reports it needs a stream, and `PREPARE_SNAPSHOT` refuses everything meanwhile.
* Camera, results nobody takes: the `CANCEL_PICTURE` of the live snapshot thread, the
  post-processor's `STOP_CAPTURE_CHANNEL` (one for every ordinary picture without ZSL)
  and the end of a retro picture stay in the result list, which grows with every picture;
  a later `cancel_picture` takes the first kind for its own.
* Camera, live snapshot: when the thread that should stop it cannot be started
  (`QCamera2HWI.cpp:5607`), the picture state is left and the capture runs on until its
  channels are deleted; the thread uses channels that `STOP_PREVIEW` deletes.
* Camera, states without their streams: a `preStartRecording` whose preview fails leaves
  the recording hint set, so the next call records without a preview, although the
  header says "recording (preview running)"; a failed `preparePreview` in
  `SET_PARAMS_RESTART` or a longshot restart keeps `PREVIEWING`.
* Camera, others: a `SNAPSHOT_DONE` queued behind `EXIT` is never answered; a
  switched ZSL mode during `PIC_TAKING` leaves the capture running; `LONGSHOT_OFF`
  without longshot leaves a picture state with its capture running.

## Proofs

TLAPS proves the following for all values of the constants, from the `ASSUME`s of the
modules: constants are numbers in the obvious ranges, the "none" values are not members
of the sets they extend. Beyond that `PowerSession` assumes finitely many sessions (a
map in memory) and that `Durations` contains the durations a session computes from its
targets; `ThermalHal` assumes that a hot sensor throttles before it shuts down
(`HotOrdered`, true of every table in `thermalConfig.cpp`); `SessionRecords` assumes a
ring of at least three records, as the interval sum looks back three frames. Every
safety invariant, action property and refinement that a passing run checks is also
proved. An inductive invariant is stated before the proofs it serves; the proof has a
lemma per action or group of actions.

### Sessions (`PowerSessionProofs`, `VoteTimeoutsProofs`)

* `MapStaysConsistent`, for the map on its own: the two directions agree, occurrence by
  occurrence, and a task has an entry exactly when a session contains it. With the type
  this is inductive. `SessionsConsistent` says the same of the map inside
  `PowerSession`, where calls are cut at the mutex and threads die in between.
* `SessionTypeCorrect`, `ThreadsAreReleased`, `NoBoostStuck`. A call is a list of steps
  still to take, so the invariant `PSInv` is about these lists, and each part is there
  because the next one fails without it:
  `Locks`, a caller has steps exactly while it holds `mPowerHintSessionLock` of a
  session, and no two hold the same;
  `Lists`, the order the code gives the steps of a call: a session is switched off and
  that is applied before its threads change, `disableBoosts` is followed by a vote that
  applies, a timeout is scheduled first thing after its vote;
  `Membership`, which sessions have entries, given the calls under way (the constructor
  has still to add its session, `close` has still to remove it);
  `Inactive`, a session whose threads change next is off, so leaving threads take no
  vote with them;
  `Refreshed`, the heart: a thread whose uclamp is above what its sessions justify
  belongs to a session on which some call or event is about to apply anew, and that
  session's threads do not change before it does. Votes expire with the clock, change in
  one locked section and are applied in a later one, so a uclamp may be unjustified at
  any time; what must not happen is that nobody is left to correct it;
  `Profiles`, a task profile on a thread outside the map is about to be cleared.
* `SessionsImplementTimeouts`: every step of `PowerSession` is a step of `VoteTimeouts`
  under the mapping of `ImplementsVoteTimeouts`, or leaves it alone. The mapping reads
  from a caller's list the vote it is about to make or to schedule; `PSInv` is what
  makes that unambiguous.
* `VTTypeCorrect`, `EveryActiveVoteHasEvent`, `EveryBoostEventInTime` for the protocol.
  The invariant also covers the calls that have changed the vote and not yet queued the
  event, and events in the hands of the worker: without these an active vote may well
  have no event in the queue. A vote is covered by an event for its own timeout or an
  earlier one; an earlier one queues itself again.
* `EveryBoostHasEvent` and `EveryBoostEnds` are the last two for `PowerSession`. They
  are not proved again: `VoteTimeoutsProofs` is instantiated with the refinement
  mapping, and its theorems follow from `SessionsImplementTimeouts`.

### Worker and channels

* `BackgroundWorkerProofs`: `WorkerTypeCorrect`, `PackagesHaveOneEntry`,
  `PackagesNeverEarly`, for any number of callers whose calls overlap in any way. The
  last has the hypothesis `OneThread`, the pool that `PowerSessionManager` builds
  (`PowerSessionManager.h:136`): with two threads one may time out on an entry the other
  has taken. The invariant `WorkerInv` needs no hypothesis. An entry under way leads to
  the package it was made for, to none, or to one whose call overlapped
  (`EntriesRight`); a call about to read the counter will read the id of its own package
  or has overlapped, and no entry for its package exists yet (`ReadersRight`); a package
  stored has an entry or such a call (`PackagesReached`). `Timing` adds that a waiting
  thread's wait ends with an entry that is due.
* `ChannelManagerProofs`: `ChannelChecksHold`, `ClientsUseOwnChannel` and
  `ManagerImplementsDirectory`. The invariant says that a group's count is the number of
  its occupied slots, that map entries and slots name each other, and that the channel a
  client was told of is its entry.
* `ChannelGroupProofs`: `GroupTypeCorrect`, `WakeupsAreKept`, `MessagesInOrder`. The bit
  of a slot with unread messages is about to be set, is set, or was taken by the thread
  and not yet looked at (`WakeupKept`); the messages of a channel lie with the sessions,
  with the thread and in the queue, in that order of their stamps (`StampsInOrder`). A
  channel is created in a slot whose queue is empty (`Lifecycle`), or the messages of
  two clients would mix.

### Interaction, thermal, lights

* `PowerHalProofs`: `HandlerTypeCorrect`, `HintFollowsState`, `AbortsAreFresh`,
  `RequestsHonoured`. A request that restarts the wait was not
  covered, so it lasts longer than everything owed before; hence the one pair of
  duration and age bounds what is owed to all requests (`OwedBounded`), the second poll
  outlasts it (`PollLongEnough`), and when it times out nothing is owed.
* `LightsThermalProofs`: `ThermalTypeCorrect`, `CallbacksAreCurrent`, `SensorsAreArmed` and
  the action property `SeveritiesDoNotFlap`. The mutexes (`Locking`) leave one thread
  between a new severity and the armed trip. A callback that does not know a severity is
  ahead of that thread in its loop, also after another entry was erased (`AllTold`); a
  sensor whose trip does not fit is the one that thread will arm (`AllArmed`).
* `LightsThermalProofs`: `LightsTypeCorrect`, `StaticColourShown`. Unless the newest update was
  debounced the stored setting is the composite of the lights (`SettingCurrent`), and
  the channels the static write has passed show the setting unless the blink thread
  wrote them later (`WrittenShown`).

### Records (`PowerHalProofs`)

`RecordsTypeCorrect`, `MaxSafe`, `CountersSafe`, `FpsSumSafe`, for every size of the
ring and every stream of frames, limits and resets. The invariant `RecordsInv` compares
the members with the history `window`:

* `Ring`: the slot `k` before `latest` holds the `k`-th newest frame. `Back` is that
  index arithmetic, and its own inverse: it also gives the age of a slot. The remainders
  in the code are shown to be `Back`.
* `Falling`: from front to back the queue's frames are newer and shorter, and all in the
  window. So only the front can be the frame that is evicted, and an index is out of
  the queue before its slot is used again.
* `Covers`: for every frame of the window the queue has one that arrived no earlier and
  is no shorter. Without it the front would be the longest candidate, not the longest
  frame.
* `Counted`, `Averaged`: the counters are the counts of the window, the jitters on top
  of those a reset left.
* `Tracked`, while `clean`: the interval sum is that of the newest `added` frames, also
  while there are fewer than three; the one that leaves is still in its slot although
  `RemoveOldest` has given it up.

What counts and sums do when a frame is added or dropped are lemmas of their own
(`CountAppend`, `CountTail`, `SumOfAppend`, `SumOfTail`). That the recursive function in
`SumOf` has a value at all is an induction; it is done with the least counterexample
(`LeastNat`, from the well-foundedness of the naturals), since the induction rules of the
library cannot be instantiated.

### Camera (`QCamera2HWIProofs`)

For any number of callers, any calls and any settings, and for every failure in the
model: `CameraTypeCorrect`, `LiveSnapshotSafe`, `SyncAnsweredSafe`. The invariant
`CameraInv` adds to them that only existing channels stream and that video streams
exactly in the recording states; then a live snapshot outlives the recording only while
the thread is about to cancel it or could not be started, and never its channels.

`StreamsSafe`, `NobodyForgottenSafe`, `NoForeignAnswerSafe` have the hypothesis
`OneCaller`, which the camera service provides by serialising its calls. It is needed:
with two, a command of the other caller may come between the `SET_PARAMS_STOP` and the
`SET_PARAMS_RESTART` of one call, and the restart leaves channels in a state without
them; and a retro picture takes the result of the other's `PREPARE_SNAPSHOT`. The parts
of `CallerInv`:

* `Lone`: at most one answer to an ordinary command is under way, as a command in the
  queue, a result in the list, an event, or an estimation the backend has still to
  report. `Owned`: that answer is awaited. Together they are `NoForeignAnswer`, and the
  reason a deferred answer never meets a second command. The results no caller asked for
  (`Unasked`) are exempt: they are the ones `NoForeignAnswer` lets stay.
* `Answered`: a call waits for an answer that is under way, but for the commands
  `NobodyForgotten` names. `CallShape`: which calls send the commands answered late, so
  that `retro` is the setting of the call that waits.
* `Quiet`: no channels in the states without a preview. `AfterStop`: between
  `SET_PARAMS_STOP` and `SET_PARAMS_RESTART` there are no channels, or the restart would
  replace channels in use; these are three commands of one call with other events
  between them.

The proof goes handler by handler: an outcome of an operation keeps the parts of the
camera it does not name (`Keeps`), a handler answers its command or stays silent
(`Effect`), and either keeps the invariant of the queues.

### Only model-checked

* Liveness: `BoostsEnd`, `AllDelivered`, `ShutdownEnds`, `AllRead`, `DestructorReturns`
  (channel group and lights), `HintReleased`, `ExitReturns`, `CallsReturn`,
  `BlinkShows`. The prover has no reasoning about fairness and ENABLED.
* `IdsUnique` and `NoDataLoss` are false, see the findings.
* The type, count and entry invariants of `ChannelManager` are parts of the invariant
  that is proved and are not run again.

## Not modelled, and the plan

Session modes, jank levels and heuristic boosts in `PowerSession` come next; they choose
values and durations of votes, which the model already leaves open. For the
camera, a weaker hypothesis than one caller would be the next theorem, and so would be a
composition of `BackgroundWorker` with `PowerSession` that shows what overlapping calls
of `schedule` do to boosts.

Left out for good. The repository's C and C++ is dominated by code received from
Qualcomm and kept as received: the camera's parameters, postprocessor, HAL3 and kernel
interfaces, the audio HAL, video codecs, display and GPS, some 480,000 lines. A model of
all of it is out of reach, and its control is mostly table lookups, format conversions
and ioctls; the camera's state machine was taken because its protocol between threads
is what everything else in that HAL hangs on. Of the device's own code the overlays and
policy files, the infrared and fingerprint services (each call is one ioctl or one call
of a vendor library), the init extension, shims and settings apps have no state worth a
model.
