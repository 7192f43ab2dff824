------------------------- MODULE QCameraStateMachine -------------------------
(***************************************************************************)
(* The state machine of the camera HAL (HAL1): the thread that takes API   *)
(* commands and backend events from two queues, the eight states with what *)
(* each does with every command, and the channels these commands add, start*)
(* and stop.  cam is the state machine and the part of                     *)
(* QCamera2HardwareInterface its handlers read and write:                  *)
(*   ch, on   the preview, ZSL and video channels that exist, and those    *)
(*            that stream (the live snapshot channel comes and goes with   *)
(*            VIDEO; the capture channel is part of snap)                  *)
(*   snap     the captures that run: "zsl" (frames of the ZSL channel),    *)
(*            "cap" (a channel of its own), "live" (while recording)       *)
(*   live     the live snapshot thread: what it is about to do, or that    *)
(*            the one that should end a capture could not be started       *)
(*   prep     a flash estimation runs; ready: retro frames are due         *)
(* One camera (no muxer), persist.vendor.camera.feature.restart at its     *)
(* default 0; message masks, advanced capture and TNR are left out.        *)
(***************************************************************************)
EXTENDS Naturals, Sequences

CONSTANT Settings   \* the parameters callers set: [zsl, hint] records

ASSUME SettingsAssumption == Settings \subseteq [zsl: BOOLEAN, hint: BOOLEAN]

VARIABLES cam,      \* m_state and the streams, see above
          apiQ,     \* api_queue
          evtQ,     \* evt_queue
          results,  \* m_apiResultList
          syncWait, \* the callback thread waits in processSyncEvt
          alive     \* the thread runs: no EXIT command was taken

States == {"PREVIEW_STOPPED", "PREVIEW_READY", "PREVIEWING",
           "PREPARE_SNAPSHOT", "PIC_TAKING", "RECORDING",
           "VIDEO_PIC_TAKING", "PREVIEW_PIC_TAKING"}

\* QUERY stands for every call that is answered in each state and changes
\* nothing modelled here (callbacks, message types, get/put parameters,
\* preview_enabled, dump, auto focus, ...).
Api == {"QUERY", "REG_FACE_IMAGE", "SET_WINDOW", "CLEAR_WINDOW",
        "SET_PARAMS", "SET_PARAMS_STOP", "SET_PARAMS_COMMIT",
        "SET_PARAMS_RESTART", "PREPARE_PREVIEW", "START_PREVIEW",
        "STOP_PREVIEW", "PRE_START_RECORDING", "START_RECORDING",
        "STOP_RECORDING", "RELEASE_FRAME", "PREPARE_SNAPSHOT",
        "PRE_TAKE_PICTURE", "TAKE_PICTURE", "CANCEL_PICTURE",
        "STOP_CAPTURE_CHANNEL", "LONGSHOT_ON", "LONGSHOT_OFF", "RELEASE"}

Events == {"SNAPSHOT_DONE", "PREP_SNAPSHOT_DONE", "READY_FOR_SNAPSHOT"}

\* What the list of results may hold: SNAPSHOT_DONE is an event that in one
\* case has a result there, too.
Results == [api: Api \cup {"SNAPSHOT_DONE"}, ok: BOOLEAN]

\* isCaptureRunning
CaptureStates == {"PIC_TAKING", "VIDEO_PIC_TAKING", "PREVIEW_PIC_TAKING"}

RecordStates == {"RECORDING", "VIDEO_PIC_TAKING"}

Channels == {"ZSL", "PREVIEW", "VIDEO"}

Cam == [state: States, ch: SUBSET Channels, on: SUBSET Channels,
        snap: SUBSET {"zsl", "cap", "live"},
        live: {"idle", "take", "cancel", "failed"},
        zsl: BOOLEAN, zslNew: BOOLEAN, hint: BOOLEAN, hintNew: BOOLEAN,
        restart: BOOLEAN, longshot: BOOLEAN, retro: BOOLEAN, win: BOOLEAN,
        prep: BOOLEAN, ready: BOOLEAN]

InitCam ==
  [state |-> "PREVIEW_STOPPED", ch |-> {}, on |-> {}, snap |-> {},
   live |-> "idle", zsl |-> FALSE, zslNew |-> FALSE, hint |-> FALSE,
   hintNew |-> FALSE, restart |-> FALSE, longshot |-> FALSE,
   retro |-> FALSE, win |-> FALSE, prep |-> FALSE, ready |-> FALSE]

SMInit == /\ cam = InitCam
          /\ apiQ = <<>> /\ evtQ = <<>> /\ results = <<>>
          /\ syncWait = FALSE
          /\ alive = TRUE

-----------------------------------------------------------------------------
(* What the handlers call.  An operation that may fail is the set of its    *)
(* outcomes: the new cam, whether it succeeded, the events it queued.       *)

Out(c, ok) == [c |-> c, ok |-> ok, ev |-> <<>>]
To(c, s) == [c EXCEPT !.state = s]

\* delChannel: a channel stops with its deletion, and with it the capture,
\* the estimation and the retro frames that came from it.
DelChannels(c, S) ==
  [c EXCEPT !.ch = @ \ S, !.on = @ \ S,
            !.snap = @ \ ((IF "ZSL" \in S THEN {"zsl"} ELSE {}) \cup
                           (IF "VIDEO" \in S THEN {"live"} ELSE {})),
            !.prep = @ /\ (c.on \ S) # {},
            !.ready = @ /\ "ZSL" \notin S]

\* Mutant: the video channel is forgotten.
UnprepareKeepsVideo(c) == DelChannels(c, Channels \ {"VIDEO"})

unpreparePreview(c) == DelChannels(c, Channels)

stopPreview(c) == unpreparePreview(c)

stopRecording(c) == [c EXCEPT !.on = @ \ {"VIDEO"}]

\* cancelPicture ends the capture on the channel of the present mode.
cancelPicture(c) ==
  [c EXCEPT !.snap = @ \ {IF c.zsl THEN "zsl" ELSE "cap"},
            !.ready = @ /\ ~c.zsl]

\* Mutant: no thread is started to stop the live snapshot.
CancelLiveForgets(c) == {Out(c, TRUE)}

\* cancelLiveSnapshot and takeLiveSnapshot join the previous live snapshot
\* thread (see Joined) and start one; pthread_create may fail.
cancelLiveSnapshot(c) == {Out([c EXCEPT !.live = "cancel"], TRUE),
                          Out([c EXCEPT !.live = "failed"], FALSE)}

takeLiveSnapshot(c) == {Out([c EXCEPT !.live = "take"], TRUE), Out(c, FALSE)}

\* sendCommand(LONGSHOT_OFF): ends a running capture and queues an event.
LongshotOff(c) ==
  LET ends == c.longshot /\ c.state \in CaptureStates
      d == IF ends THEN cancelPicture(c) ELSE c
  IN  [c |-> [d EXCEPT !.longshot = FALSE], ok |-> TRUE,
       ev |-> IF ends THEN <<"SNAPSHOT_DONE">> ELSE <<>>]

\* sendCommand(LONGSHOT_ON): refused while a capture runs.
LongshotOn(c) ==
  IF c.state \in CaptureStates THEN Out(c, FALSE)
                               ELSE Out([c EXCEPT !.longshot = TRUE], TRUE)

\* The channels of the present mode; startPreview starts StartOf.
ChannelsOf(c) == IF c.hint THEN {"VIDEO", "PREVIEW"}
                 ELSE IF c.zsl THEN {"ZSL"} ELSE {"PREVIEW"}
StartOf(c) == IF c.zsl /\ ~c.hint THEN "ZSL" ELSE "PREVIEW"

\* preparePreview replaces the channels of the mode.  It fails before it
\* does anything, or after it dropped some of them; VIDEO is added before
\* PREVIEW.  Recording mode switches longshot off first.  Without it the
\* failure to add PREVIEW is forgotten when CALLBACK is added next.
preparePreview(c) ==
  LET l == IF c.hint /\ c.longshot THEN LongshotOff(c) ELSE Out(c, TRUE)
      dropped == {S \in SUBSET ChannelsOf(c) :
                    c.hint /\ "PREVIEW" \in S => "VIDEO" \in S}
      d == DelChannels(l.c, ChannelsOf(c))
      added == {ChannelsOf(c)} \cup (IF c.hint THEN {} ELSE {ChannelsOf(c) \ {"PREVIEW"}})
  IN  {[l EXCEPT !.c = [d EXCEPT !.ch = @ \cup S]] : S \in added} \cup {Out(c, FALSE)}
      \cup {[l EXCEPT !.c = DelChannels(l.c, S), !.ok = FALSE] : S \in dropped}

\* startPreview fails without its channel, while starting it, or after it
\* streams (no job for the postprocessor).
startPreview(c) ==
  {Out(c, FALSE)} \cup
  {Out([c EXCEPT !.on = @ \cup {StartOf(c)}], ok) :
   ok \in IF StartOf(c) \in c.ch THEN BOOLEAN ELSE {}}

\* startPreview with unpreparePreview when it fails.
StartOrUnprepare(c) ==
  {[o EXCEPT !.c = IF o.ok THEN @ ELSE unpreparePreview(@)] :
   o \in startPreview(c)}

\* preparePreview, then Start of what it prepared.
PrepareAnd(c, Start(_)) ==
  {o \in preparePreview(c) : ~o.ok} \cup
  UNION {{[s EXCEPT !.ev = o.ev] : s \in Start(o.c)} :
         o \in {p \in preparePreview(c) : p.ok}}

RestartPreview(c) == PrepareAnd(c, StartOrUnprepare)

\* updateRecordingHintValue: commits the new hint (and what is pending), or
\* fails with the hint set or not.
updateRecordingHintValue(c, v) ==
  {[c EXCEPT !.hint = v, !.hintNew = v, !.zsl = c.zslNew],
   [c EXCEPT !.hintNew = v], c}

preStartRecording(c) ==
  IF c.hint THEN {Out(c, TRUE)}
  ELSE UNION {PrepareAnd(d, startPreview) :
              d \in updateRecordingHintValue(stopPreview(c), TRUE)}

preTakePicture(c) ==
  IF ~c.hint THEN {Out(c, TRUE)}
  ELSE UNION {RestartPreview(d) :
              d \in updateRecordingHintValue(stopPreview(c), FALSE)}

startRecording(c) ==
  {Out(c, FALSE)} \cup
  {Out([c EXCEPT !.on = @ \cup {v}], TRUE) : v \in c.ch \cap {"VIDEO"}}

\* takePicture: in ZSL mode frames of the ZSL channel, otherwise the preview
\* is stopped and a capture channel of its own started.  The capture channel
\* some failures leave behind, idle until the next picture replaces it, is
\* left out.
takePicture(c) ==
  {Out(c, FALSE)} \cup
  IF c.zsl
  THEN {Out([c EXCEPT !.snap = @ \cup {"zsl"},
                      !.ready = c.retro /\ "ZSL" \in c.on], TRUE) :
        z \in c.ch \cap {"ZSL"}}
  ELSE {Out(stopPreview(c), FALSE),
        Out([stopPreview(c) EXCEPT !.snap = @ \cup {"cap"}], TRUE)}

\* longShot: one more request on the capture's channel.
longShot(c) ==
  {Out(c, ok) : ok \in IF (IF c.zsl THEN "ZSL" \in c.ch ELSE "cap" \in c.snap)
                       THEN BOOLEAN ELSE {FALSE}}

\* updateParameters: other settings; a changed ZSL mode needs a restart, and
\* so do others that are not modelled.
WithSettings(c, v, r) ==
  [c EXCEPT !.zslNew = v.zsl, !.hintNew = v.hint,
            !.restart = r \/ v.zsl # c.zslNew]

updateParameters(c) ==
  {Out(WithSettings(c, v, r), ok) :
   v \in Settings, r \in BOOLEAN, ok \in BOOLEAN}

commitParameterChanges(c) ==
  {Out(c, FALSE)} \cup
  {Out([c EXCEPT !.zsl = c.zslNew, !.hint = c.hintNew], ok) : ok \in BOOLEAN}

-----------------------------------------------------------------------------
(* The handlers, one per state.  A command is answered (Answer puts its     *)
(* result in the list and wakes the callers), or left unanswered (Silent).  *)
(* Only PIC_TAKING knows STOP_CAPTURE_CHANNEL; see stateMachine.            *)

Answer(e, o) == /\ cam' = o.c
                /\ evtQ' = evtQ \o o.ev
                /\ results' = Append(results, [api |-> e, ok |-> o.ok])
                /\ UNCHANGED syncWait

Silent(c) == cam' = c /\ UNCHANGED <<evtQ, results, syncWait>>

Accept(e) == Answer(e, Out(cam, TRUE))
Refuse(e) == Answer(e, Out(cam, FALSE))
AnswerOne(e, outcomes) == \E o \in outcomes : Answer(e, o)

\* pthread_join of the live snapshot thread: the handler waits for its end.
Joined == cam.live \in {"idle", "failed"}

\* The state after an operation: yes if it succeeded, no if it failed.
Moved(outcomes, yes, no) ==
  {[o EXCEPT !.c.state = IF o.ok THEN yes ELSE no] : o \in outcomes}

\* setNeedRestart(false)
Settled(outcomes) == {[o EXCEPT !.c.restart = FALSE] : o \in outcomes}

\* SET_PARAMS and SET_PARAMS_COMMIT, the same in five states.
Params(e) ==
  \/ e = "SET_PARAMS" /\ AnswerOne(e, updateParameters(cam))
  \/ e = "SET_PARAMS_COMMIT" /\ AnswerOne(e, commitParameterChanges(cam))

\* While recording, parameters that need a restart are refused.
ParamsRecording(e) ==
  \/ /\ e = "SET_PARAMS"
     /\ AnswerOne(e, {[o EXCEPT !.ok = @ /\ ~o.c.restart,
                                !.c.restart = FALSE] :
                      o \in updateParameters(cam)})
  \/ e = "SET_PARAMS_COMMIT" /\ AnswerOne(e, commitParameterChanges(cam))
  \/ e \in {"SET_PARAMS_STOP", "SET_PARAMS_RESTART"} /\ Refuse(e)

\* sendCommand without a change of state.
SendCommand(e) ==
  \/ e = "LONGSHOT_ON" /\ Answer(e, LongshotOn(cam))
  \/ e = "LONGSHOT_OFF" /\ Answer(e, LongshotOff(cam))

\* sendCommand in a picture state: LONGSHOT_OFF goes back to PREVIEWING.
SendCommandPicture(e) ==
  \/ e = "LONGSHOT_ON" /\ Answer(e, LongshotOn(cam))
  \/ /\ e = "LONGSHOT_OFF"
     /\ AnswerOne(e, Moved({LongshotOff(cam)}, "PREVIEWING", "PREVIEWING"))

PreviewStopped(e) ==
  \/ e \in {"QUERY", "REG_FACE_IMAGE", "SET_PARAMS_STOP", "STOP_PREVIEW",
            "CANCEL_PICTURE"} /\ Accept(e)
  \/ e \in {"PRE_START_RECORDING", "START_RECORDING", "STOP_RECORDING",
            "PREPARE_SNAPSHOT", "PRE_TAKE_PICTURE", "TAKE_PICTURE"} /\ Refuse(e)
  \/ e \in {"SET_WINDOW", "CLEAR_WINDOW"}
     /\ Answer(e, Out([cam EXCEPT !.win = (e = "SET_WINDOW")], TRUE))
  \/ Params(e)
  \/ SendCommand(e)
  \/ e = "SET_PARAMS_RESTART" /\ AnswerOne(e, Settled({Out(cam, TRUE)}))
  \/ (e = "PREPARE_PREVIEW" \/ (e = "START_PREVIEW" /\ ~cam.win))
     /\ AnswerOne(e, Moved(preparePreview(cam), "PREVIEW_READY", cam.state))
  \/ e = "START_PREVIEW" /\ cam.win
     /\ AnswerOne(e, Moved(RestartPreview(cam), "PREVIEWING", cam.state))
  \/ e = "RELEASE"
     /\ Answer(e, Out([unpreparePreview(cam) EXCEPT !.snap = {}], TRUE))
  \/ e = "RELEASE_FRAME" /\ Silent(cam)

PreviewReady(e) ==
  \/ e \in {"QUERY", "REG_FACE_IMAGE", "PREPARE_PREVIEW"} /\ Accept(e)
  \/ e \in {"PRE_START_RECORDING", "START_RECORDING", "STOP_RECORDING",
            "PREPARE_SNAPSHOT", "PRE_TAKE_PICTURE", "TAKE_PICTURE",
            "CANCEL_PICTURE", "RELEASE"} /\ Refuse(e)
  \/ e = "SET_WINDOW"
     /\ AnswerOne(e, Moved(StartOrUnprepare([cam EXCEPT !.win = TRUE]),
                           "PREVIEWING", "PREVIEW_STOPPED"))
  \/ e = "CLEAR_WINDOW" /\ Answer(e, Out([cam EXCEPT !.win = FALSE], TRUE))
  \/ Params(e)
  \/ SendCommand(e)
  \/ e = "SET_PARAMS_STOP" /\ Answer(e, Out(unpreparePreview(cam), TRUE))
  \/ e = "SET_PARAMS_RESTART"
     /\ AnswerOne(e, Settled(Moved(preparePreview(cam), cam.state,
                                   "PREVIEW_STOPPED")))
  \/ e = "START_PREVIEW" /\ cam.win       \* the failure is not reported
     /\ AnswerOne(e, {[o EXCEPT !.ok = TRUE] :
                      o \in Moved(StartOrUnprepare(cam), "PREVIEWING",
                                  "PREVIEW_STOPPED")})
  \/ e = "START_PREVIEW" /\ ~cam.win /\ Accept(e)
  \/ e = "STOP_PREVIEW"
     /\ Answer(e, Out(To(unpreparePreview(cam), "PREVIEW_STOPPED"), TRUE))
  \/ e = "RELEASE_FRAME" /\ Silent(cam)

\* The outcomes of TAKE_PICTURE in PREVIEWING, after the recording hint was
\* dropped: a capture beside the preview (ZSL, longshot) or instead of it,
\* in which case a failed one starts the preview again.
TakeInPreview(c) ==
  IF c.zsl \/ c.longshot
  THEN Moved(takePicture(To(c, "PREVIEW_PIC_TAKING")), "PREVIEW_PIC_TAKING",
             "PREVIEWING")
  ELSE LET taken == takePicture(To(c, "PIC_TAKING"))
       IN  {o \in taken : o.ok} \cup
           UNION {{[r EXCEPT !.ok = FALSE] :
                   r \in Moved(RestartPreview(stopPreview(o.c)), "PREVIEWING",
                               "PREVIEW_STOPPED")} :
                  o \in {t \in taken : ~t.ok}}

\* TAKE_PICTURE with the recording hint restarts the preview without it; the
\* outcome of the restart is ignored.
DropHint(c) ==
  IF ~c.hint THEN {Out(c, TRUE)}
  ELSE UNION {RestartPreview(d) :
              d \in updateRecordingHintValue(stopPreview(c), FALSE)}

\* LONGSHOT_ON in ZSL mode restarts a preview short of buffers; the state
\* stays when the restart fails.
LongshotOnPreviewing(c) ==
  {LongshotOn(c)} \cup
  IF c.zsl /\ "ZSL" \in c.ch THEN RestartPreview(stopPreview(LongshotOn(c).c))
                             ELSE {}

\* prepareHardwareForSnapshot: the backend is told to estimate the flash.
\* Its answer is metadata of a stream, so without one there is none.
Estimate(c) == [c EXCEPT !.prep = (c.on # {})]

Previewing(e) ==
  \/ e \in {"QUERY", "REG_FACE_IMAGE", "PREPARE_PREVIEW", "START_PREVIEW",
            "CANCEL_PICTURE", "STOP_RECORDING"} /\ Accept(e)
  \/ e \in {"SET_WINDOW", "CLEAR_WINDOW", "RELEASE"} /\ Refuse(e)
  \/ Params(e)
  \/ e = "SET_PARAMS_STOP" /\ Answer(e, Out(stopPreview(cam), TRUE))
  \/ e = "SET_PARAMS_RESTART"     \* a failed preparePreview keeps the state
     /\ AnswerOne(e, Settled({o \in preparePreview(cam) : ~o.ok} \cup
          UNION {{[s EXCEPT !.ev = o.ev] :
                  s \in Moved(StartOrUnprepare(o.c), cam.state,
                              "PREVIEW_STOPPED")} :
                 o \in {p \in preparePreview(cam) : p.ok}}))
  \/ e = "STOP_PREVIEW"
     /\ Answer(e, Out(To(stopPreview(cam), "PREVIEW_STOPPED"), TRUE))
  \/ e = "PRE_START_RECORDING" /\ AnswerOne(e, preStartRecording(cam))
  \/ e = "START_RECORDING"
     /\ AnswerOne(e, Moved(startRecording(cam), "RECORDING", cam.state))
  \/ e = "PREPARE_SNAPSHOT"
     /\ \/ Silent([Estimate(cam) EXCEPT !.state = "PREPARE_SNAPSHOT"])
        \/ Refuse(e)
  \/ e = "PRE_TAKE_PICTURE" /\ AnswerOne(e, preTakePicture(cam))
  \/ e = "TAKE_PICTURE"
     /\ \E h \in DropHint(cam) : \E t \in TakeInPreview(h.c) :
          LET wait == t.ok /\ t.c.retro /\ t.c.state = "PREVIEW_PIC_TAKING"
          IN  \/ ~wait /\ Answer(e, t)
              \/ wait /\ Silent(t.c)
  \/ e = "LONGSHOT_ON" /\ AnswerOne(e, LongshotOnPreviewing(cam))
  \/ e = "LONGSHOT_OFF" /\ Answer(e, LongshotOff(cam))
  \/ e = "RELEASE_FRAME" /\ Silent(cam)

PrepareSnapshot(e) ==
  \/ e \notin {"REG_FACE_IMAGE", "STOP_CAPTURE_CHANNEL"} /\ Refuse(e)
  \/ e = "REG_FACE_IMAGE" /\ Silent(cam)

PicTaking(e) ==
  \/ e \in {"QUERY", "REG_FACE_IMAGE", "SET_PARAMS_STOP"} /\ Accept(e)
  \/ e \in {"SET_WINDOW", "CLEAR_WINDOW", "PREPARE_SNAPSHOT",
            "PRE_START_RECORDING", "START_RECORDING", "STOP_RECORDING",
            "RELEASE_FRAME", "PREPARE_PREVIEW", "START_PREVIEW", "RELEASE"}
     /\ Refuse(e)
  \/ Params(e)
  \/ SendCommandPicture(e)
  \/ e = "SET_PARAMS_RESTART" /\ AnswerOne(e, Settled({Out(cam, TRUE)}))
  \/ e \in {"STOP_PREVIEW", "CANCEL_PICTURE"}
     /\ Answer(e, Out(To(cancelPicture(cam), "PREVIEW_STOPPED"), TRUE))
  \/ e = "PRE_TAKE_PICTURE" /\ Answer(e, Out(cam, cam.longshot))
  \/ e = "TAKE_PICTURE" /\ cam.longshot /\ AnswerOne(e, longShot(cam))
  \/ e = "TAKE_PICTURE" /\ ~cam.longshot /\ Refuse(e)
  \/ e = "STOP_CAPTURE_CHANNEL"     \* the channel stays, its picture is due
     /\ AnswerOne(e, {Out(cam, ok) : ok \in BOOLEAN})

Recording(e) ==
  \/ e \in {"QUERY", "REG_FACE_IMAGE", "PREPARE_PREVIEW", "START_PREVIEW",
            "SET_WINDOW", "CLEAR_WINDOW", "PRE_START_RECORDING",
            "START_RECORDING", "PRE_TAKE_PICTURE", "PREPARE_SNAPSHOT",
            "RELEASE_FRAME"} /\ Accept(e)
  \/ e \in {"CANCEL_PICTURE", "RELEASE"} /\ Refuse(e)
  \/ ParamsRecording(e)
  \/ SendCommand(e)
  \/ e = "TAKE_PICTURE" /\ Joined
     /\ AnswerOne(e, Moved(takeLiveSnapshot(cam), "VIDEO_PIC_TAKING",
                           cam.state))
  \/ e = "STOP_RECORDING"
     /\ Answer(e, Out(To(stopRecording(cam), "PREVIEWING"), TRUE))
  \/ e = "STOP_PREVIEW"
     /\ Answer(e, Out(To(stopPreview(stopRecording(cam)), "PREVIEW_STOPPED"),
                      TRUE))

VideoPicTaking(e) ==
  \/ e \in {"QUERY", "REG_FACE_IMAGE", "RELEASE_FRAME"} /\ Accept(e)
  \/ e \in {"SET_WINDOW", "CLEAR_WINDOW", "PRE_START_RECORDING",
            "START_RECORDING", "PREPARE_PREVIEW", "START_PREVIEW",
            "PREPARE_SNAPSHOT", "PRE_TAKE_PICTURE", "TAKE_PICTURE", "RELEASE"}
     /\ Refuse(e)
  \/ ParamsRecording(e)
  \/ SendCommand(e)
  \/ e = "STOP_RECORDING" /\ Joined     \* the cancel's status is overwritten
     /\ \E o \in cancelLiveSnapshot(cam) :
          Answer(e, Out(To(stopRecording(o.c), "PREVIEWING"), TRUE))
  \/ e = "CANCEL_PICTURE" /\ Joined
     /\ AnswerOne(e, Moved(cancelLiveSnapshot(cam), "RECORDING", "RECORDING"))
  \/ e = "STOP_PREVIEW" /\ Joined
     /\ \E o \in cancelLiveSnapshot(cam) :
          Answer(e, Out(To(stopPreview(stopRecording(o.c)), "PREVIEW_STOPPED"),
                        TRUE))

\* The capture of PREVIEW_PIC_TAKING is a picture, or a live snapshot.
Picture(c) == c.zsl \/ c.longshot
CancelCapture(c) == IF Picture(c) THEN {Out(cancelPicture(c), TRUE)}
                                  ELSE cancelLiveSnapshot(c)

PreviewPicTaking(e) ==
  \/ e \in {"QUERY", "REG_FACE_IMAGE", "RELEASE_FRAME"} /\ Accept(e)
  \/ e \in {"STOP_RECORDING", "PREPARE_PREVIEW", "START_PREVIEW",
            "SET_WINDOW", "CLEAR_WINDOW", "RELEASE"} /\ Refuse(e)
  \/ e \in {"PRE_START_RECORDING", "START_RECORDING"} /\ Picture(cam)
     /\ Refuse(e)
  \/ e = "PRE_START_RECORDING" /\ ~Picture(cam)
     /\ AnswerOne(e, preStartRecording(cam))
  \/ e = "START_RECORDING" /\ ~Picture(cam)
     /\ AnswerOne(e, Moved(startRecording(cam), "VIDEO_PIC_TAKING", cam.state))
  \/ Params(e)
  \/ SendCommandPicture(e)
  \/ e = "SET_PARAMS_STOP" /\ Answer(e, Out(stopPreview(cam), TRUE))
  \/ e = "SET_PARAMS_RESTART"
     /\ AnswerOne(e, Settled(Moved(RestartPreview(cam), cam.state,
                                   "PIC_TAKING")))
  \/ e = "CANCEL_PICTURE" /\ (Picture(cam) \/ Joined)
     /\ AnswerOne(e, Moved(CancelCapture(cam), "PREVIEWING", "PREVIEWING"))
  \/ e = "STOP_PREVIEW" /\ (Picture(cam) \/ Joined)
     /\ \E o \in CancelCapture(cam) :
          Answer(e, Out(To(unpreparePreview(o.c), "PREVIEW_STOPPED"), o.ok))
  \/ e = "PRE_TAKE_PICTURE" /\ Answer(e, Out(cam, cam.longshot))
  \/ e = "TAKE_PICTURE" /\ cam.longshot /\ AnswerOne(e, longShot(cam))
  \/ e = "TAKE_PICTURE" /\ ~cam.longshot /\ Refuse(e)
  \/ e = "PREPARE_SNAPSHOT"
     /\ \/ cam.retro /\ Silent(Estimate(cam))
        \/ Refuse(e)

-----------------------------------------------------------------------------
(* Events.  Every state answers SNAPSHOT_DONE through signalEvtResult, which *)
(* ends processSyncEvt's wait.                                              *)

\* What SNAPSHOT_DONE does to the capture in each state.
SnapshotDone(c) ==
  CASE c.state = "PIC_TAKING" ->
         Moved({Out(cancelPicture(c), TRUE)}, "PREVIEW_STOPPED", "PREVIEW_STOPPED")
    [] c.state = "VIDEO_PIC_TAKING" ->
         Moved(cancelLiveSnapshot(c), "RECORDING", "RECORDING")
    [] c.state = "PREVIEW_PIC_TAKING" ->
         Moved(CancelCapture(c), "PREVIEWING", "PREVIEWING")
    [] OTHER -> {Out(c, TRUE)}

\* The end of a retro picture is signalled to the callers as well.
SnapshotResult(o) ==
  IF cam.state = "PREVIEW_PIC_TAKING" /\ cam.retro
  THEN Append(results, [api |-> "SNAPSHOT_DONE", ok |-> o.ok])
  ELSE results

\* Mutant: only a state with a capture signals the end.
SnapshotDoneUnsignalled ==
  \E o \in SnapshotDone(cam) :
    /\ cam' = o.c
    /\ results' = SnapshotResult(o)
    /\ syncWait' = (syncWait /\ cam.state \notin CaptureStates)

EventSnapshotDone ==
  /\ \/ cam.state \notin {"VIDEO_PIC_TAKING", "PREVIEW_PIC_TAKING"}
     \/ cam.state = "PREVIEW_PIC_TAKING" /\ Picture(cam)
     \/ Joined
  /\ \E o \in SnapshotDone(cam) : cam' = o.c /\ results' = SnapshotResult(o)
  /\ syncWait' = FALSE

\* Mutant: the state is left without an answer.
PrepDoneUnanswered ==
  cam' = To(cam, "PREVIEWING") /\ UNCHANGED <<results, syncWait>>

\* PREP_SNAPSHOT_DONE answers the PREPARE_SNAPSHOT that started it.
EventPrepSnapshotDone ==
  LET answers == \/ cam.state = "PREPARE_SNAPSHOT"
                 \/ cam.state = "PREVIEW_PIC_TAKING" /\ cam.retro
  IN  /\ cam' = IF cam.state = "PREPARE_SNAPSHOT" THEN To(cam, "PREVIEWING")
                                                  ELSE cam
      /\ results' = IF answers
                    THEN Append(results, [api |-> "PREPARE_SNAPSHOT", ok |-> TRUE])
                    ELSE results
      /\ UNCHANGED syncWait

\* READY_FOR_SNAPSHOT answers a retro TAKE_PICTURE.
EventReadyForSnapshot ==
  /\ results' = IF cam.state = "PREVIEW_PIC_TAKING" /\ cam.retro
                THEN Append(results, [api |-> "TAKE_PICTURE", ok |-> TRUE])
                ELSE results
  /\ UNCHANGED <<cam, syncWait>>

\* A command no case of the state's handler names is dropped.
stateMachine(e) ==
  \/ cam.state = "PREVIEW_STOPPED" /\ PreviewStopped(e)
  \/ cam.state = "PREVIEW_READY" /\ PreviewReady(e)
  \/ cam.state = "PREVIEWING" /\ Previewing(e)
  \/ cam.state = "PREPARE_SNAPSHOT" /\ PrepareSnapshot(e)
  \/ cam.state = "PIC_TAKING" /\ PicTaking(e)
  \/ cam.state = "RECORDING" /\ Recording(e)
  \/ cam.state = "VIDEO_PIC_TAKING" /\ VideoPicTaking(e)
  \/ cam.state = "PREVIEW_PIC_TAKING" /\ PreviewPicTaking(e)
  \/ cam.state # "PIC_TAKING" /\ e = "STOP_CAPTURE_CHANNEL" /\ Silent(cam)

\* smEvtProcRoutine takes an API command if there is one, else an event.
ApiStep ==
  /\ alive /\ apiQ # <<>> /\ Head(apiQ) # "EXIT"
  /\ stateMachine(Head(apiQ))
  /\ apiQ' = Tail(apiQ)
  /\ UNCHANGED alive

EvtStep ==
  /\ alive /\ apiQ = <<>> /\ evtQ # <<>>
  /\ evtQ' = Tail(evtQ)
  /\ \/ Head(evtQ) = "SNAPSHOT_DONE" /\ EventSnapshotDone
     \/ Head(evtQ) = "PREP_SNAPSHOT_DONE" /\ EventPrepSnapshotDone
     \/ Head(evtQ) = "READY_FOR_SNAPSHOT" /\ EventReadyForSnapshot
  /\ UNCHANGED <<apiQ, alive>>

ExitStep ==
  /\ alive /\ apiQ # <<>> /\ Head(apiQ) = "EXIT"
  /\ alive' = FALSE
  /\ apiQ' = Tail(apiQ)
  /\ UNCHANGED <<cam, evtQ, results, syncWait>>
=============================================================================
