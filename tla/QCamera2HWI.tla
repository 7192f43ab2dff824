----------------------------- MODULE QCamera2HWI -----------------------------
(***************************************************************************)
(* The camera HAL around its state machine: the callers of the camera      *)
(* device, each blocked in waitAPIResult until the result of its command is *)
(* in the list; the live snapshot thread; the post-processor; the callback  *)
(* thread that reports the last picture with processSyncEvt; the camera     *)
(* backend; and the destructor.                                             *)
(***************************************************************************)
EXTENDS QCameraStateMachine, FiniteSets

CONSTANTS Callers,     \* threads that call the camera device
          CallsOf,     \* CallsOf[c]: the calls c makes
          MaxUnread,   \* bound: commands and results nobody waits for
          MaxEvents    \* bound: events queued when longshot is switched off

ASSUME CallersAssumption == /\ IsFiniteSet(Callers)
                            /\ MaxUnread \in Nat /\ MaxEvents \in Nat

VARIABLES call,     \* call[c]: "idle", or the call c is in and the command
                    \* it waits for
          closing   \* the destructor has begun

smVars == <<cam, apiQ, evtQ, results, syncWait, alive>>
vars == <<smVars, call, closing>>

\* The first command of each call; "take_retro" is take_picture with retro
\* frames, "take_flash" take_picture that estimates the flash first.
First == [set_preview_window |-> "SET_WINDOW",
          clear_preview_window |-> "CLEAR_WINDOW",
          prepare_preview |-> "PREPARE_PREVIEW",
          start_preview |-> "START_PREVIEW",
          stop_preview |-> "STOP_PREVIEW",
          start_recording |-> "PRE_START_RECORDING",
          stop_recording |-> "STOP_RECORDING",
          release_recording_frame |-> "RELEASE_FRAME",
          register_face_image |-> "REG_FACE_IMAGE",
          take_retro |-> "PRE_TAKE_PICTURE",
          take_flash |-> "PREPARE_SNAPSHOT",
          take_picture |-> "PRE_TAKE_PICTURE",
          cancel_picture |-> "CANCEL_PICTURE",
          set_parameters |-> "SET_PARAMS",
          longshot_on |-> "LONGSHOT_ON",
          longshot_off |-> "LONGSHOT_OFF",
          release |-> "RELEASE",
          query |-> "QUERY"]

ASSUME CallsAssumption == CallsOf \in [Callers -> SUBSET DOMAIN First]

Idle == [op |-> "idle", api |-> "none"]
Calls == [op: DOMAIN First \cup {"idle"}, api: Api \cup {"none"}]

Init == /\ SMInit
        /\ call = [c \in Callers |-> Idle]
        /\ closing = FALSE

-----------------------------------------------------------------------------
(* Callers.                                                                 *)

\* Commands and results of api in the queue and the list.
Unread(api) == Cardinality({i \in DOMAIN apiQ : apiQ[i] = api}) +
               Cardinality({i \in DOMAIN results : results[i].api = api})

\* The results that threads other than the callers cause, and nobody reads.
Unasked == {"CANCEL_PICTURE", "STOP_CAPTURE_CHANNEL", "SNAPSHOT_DONE"}

FewUnread == Unread("CANCEL_PICTURE") + Unread("STOP_CAPTURE_CHANNEL")
             + Unread("SNAPSHOT_DONE") < MaxUnread

Takes == {"take_retro", "take_flash", "take_picture"}

\* A call begins: processAPI queues its first command.  take_picture records
\* whether it uses retro frames (setRetroPicture).
Begin(c, op) ==
  /\ call[c] = Idle /\ ~closing
  /\ op = "take_retro" => /\ cam.zsl /\ ~cam.longshot
                          /\ cam.state \notin RecordStates
                          /\ FewUnread
  /\ op = "longshot_off" => Len(evtQ) < MaxEvents
  /\ cam' = IF op \in Takes THEN [cam EXCEPT !.retro = (op = "take_retro")]
                            ELSE cam
  /\ apiQ' = Append(apiQ, First[op])
  /\ call' = [call EXCEPT ![c] = [op |-> op, api |-> First[op]]]
  /\ UNCHANGED <<evtQ, results, syncWait, alive, closing>>

\* start_recording
AfterPreStart(ok) == {IF ok THEN "START_RECORDING" ELSE "none"}

\* prepare_snapshot, which sends its command only when the flash is needed and
\* whose status take_picture ignores.
AfterPrepare(op) == {IF op = "take_flash" THEN "PRE_TAKE_PICTURE" ELSE "none"}

\* The command a call sends after the result of api; "none" ends the call.
Follow(op, api, ok) ==
  CASE api = "PRE_TAKE_PICTURE" /\ ok -> {"TAKE_PICTURE"}
    [] api = "PREPARE_SNAPSHOT" -> AfterPrepare(op)
    [] api = "TAKE_PICTURE" /\ op = "take_retro" -> {"PREPARE_SNAPSHOT", "none"}
    [] api = "PRE_START_RECORDING" -> AfterPreStart(ok)
    [] api = "SET_PARAMS" /\ ok -> {IF cam.restart THEN "SET_PARAMS_STOP"
                                                   ELSE "SET_PARAMS_COMMIT"}
    [] api = "SET_PARAMS_STOP" /\ ok -> {"SET_PARAMS_COMMIT"}
    [] api = "SET_PARAMS_COMMIT" /\ ok /\ cam.restart -> {"SET_PARAMS_RESTART"}
    [] OTHER -> {"none"}

\* waitAPIResult: a woken caller takes the first result of its command.
FirstOf(api) ==
  {i \in DOMAIN results : /\ results[i].api = api
                          /\ \A j \in 1..(i - 1) : results[j].api # api}

\* Mutant: the result is read and stays in the list.
TakeCopies(c) ==
  \E i \in FirstOf(call[c].api) :
  \E n \in Follow(call[c].op, call[c].api, results[i].ok) :
    /\ apiQ' = IF n = "none" THEN apiQ ELSE Append(apiQ, n)
    /\ call' = [call EXCEPT ![c] = IF n = "none" THEN Idle
                                   ELSE [op |-> @.op, api |-> n]]
    /\ UNCHANGED <<cam, evtQ, results, syncWait, alive, closing>>

Take(c) ==
  \E i \in FirstOf(call[c].api) :
  \E n \in Follow(call[c].op, call[c].api, results[i].ok) :
    /\ results' = SubSeq(results, 1, i - 1) \o
                  SubSeq(results, i + 1, Len(results))
    /\ apiQ' = IF n = "none" THEN apiQ ELSE Append(apiQ, n)
    /\ call' = [call EXCEPT ![c] = IF n = "none" THEN Idle
                                   ELSE [op |-> @.op, api |-> n]]
    /\ UNCHANGED <<cam, evtQ, syncWait, alive, closing>>

-----------------------------------------------------------------------------
(* The other threads.                                                       *)

\* takeLiveSnapshot_internal: starts the capture, gives up quietly, or asks
\* the state machine to cancel without waiting for the result.
takeLiveSnapshot_internal ==
  /\ cam.live = "take"
  /\ \/ /\ "VIDEO" \in cam.ch
        /\ cam' = [cam EXCEPT !.live = "idle", !.snap = @ \cup {"live"}]
        /\ UNCHANGED apiQ
     \/ /\ cam' = [cam EXCEPT !.live = "idle"]
        /\ UNCHANGED apiQ
     \/ /\ FewUnread /\ ~closing
        /\ cam' = [cam EXCEPT !.live = "idle"]
        /\ apiQ' = Append(apiQ, "CANCEL_PICTURE")
  /\ UNCHANGED <<evtQ, results, syncWait, alive, call, closing>>

cancelLiveSnapshot_internal ==
  /\ cam.live = "cancel"
  /\ cam' = [cam EXCEPT !.live = "idle", !.snap = @ \ {"live"}]
  /\ UNCHANGED <<apiQ, evtQ, results, syncWait, alive, call, closing>>

\* The captures whose frames come in: those of their own channels, and that of
\* the ZSL channel while it streams.
Yielding == {s \in cam.snap : s = "zsl" => "ZSL" \in cam.on}

\* The post-processor's stopCapture: a frame of a regular capture is being
\* reprocessed, and the state machine is asked to stop its channel.  Nobody
\* waits for the result.  (A frame of the same capture may send it again.)
stopCapture ==
  /\ Yielding # {} /\ ~cam.zsl /\ ~cam.hint /\ ~cam.longshot
  /\ FewUnread /\ ~closing
  /\ apiQ' = Append(apiQ, "STOP_CAPTURE_CHANNEL")
  /\ UNCHANGED <<cam, evtQ, results, syncWait, alive, call, closing>>

\* The callback thread got the last picture: processSyncEvt queues the event
\* and waits for it.  Retro frames come before the last picture; a capture
\* nobody ended reports again.
AllPictures ==
  /\ Yielding # {} /\ ~cam.longshot /\ ~cam.ready /\ ~syncWait
  /\ evtQ' = Append(evtQ, "SNAPSHOT_DONE")
  /\ syncWait' = TRUE
  /\ UNCHANGED <<cam, apiQ, results, alive, call, closing>>

\* Metadata of a running stream: the flash estimation is over.
PrepareDone ==
  /\ cam.prep /\ cam.on # {}
  /\ cam' = [cam EXCEPT !.prep = FALSE]
  /\ evtQ' = Append(evtQ, "PREP_SNAPSHOT_DONE")
  /\ UNCHANGED <<apiQ, results, syncWait, alive, call, closing>>

\* The last retro frame arrived.
RetroDone ==
  /\ cam.ready
  /\ cam' = [cam EXCEPT !.ready = FALSE]
  /\ evtQ' = Append(evtQ, "READY_FOR_SNAPSHOT")
  /\ UNCHANGED <<apiQ, results, syncWait, alive, call, closing>>

\* The destructor: no more commands, then the EXIT command.
Destroy ==
  /\ ~closing /\ \A c \in Callers : call[c] = Idle
  /\ closing' = TRUE
  /\ apiQ' = Append(apiQ, "EXIT")
  /\ UNCHANGED <<cam, evtQ, results, syncWait, alive, call>>

Machine == /\ ApiStep \/ EvtStep \/ ExitStep
           /\ UNCHANGED <<call, closing>>

Next == \/ \E c \in Callers : (\E op \in CallsOf[c] : Begin(c, op)) \/ Take(c)
        \/ Machine
        \/ takeLiveSnapshot_internal \/ cancelLiveSnapshot_internal
        \/ stopCapture \/ AllPictures \/ PrepareDone \/ RetroDone
        \/ Destroy

Spec == Init /\ [][Next]_vars

-----------------------------------------------------------------------------
(* Properties.                                                              *)

\* Every variable has its type.
TypeOK ==
  /\ cam \in Cam
  /\ apiQ \in Seq(Api \cup {"EXIT"}) /\ evtQ \in Seq(Events)
  /\ results \in Seq(Results)
  /\ syncWait \in BOOLEAN /\ alive \in BOOLEAN
  /\ call \in [Callers -> Calls] /\ closing \in BOOLEAN

\* The preview, ZSL and video channels agree with the state, whichever of the
\* modelled operations failed on the way: video streams exactly while
\* recording, nothing streams in PREVIEW_READY, none of them is left in
\* PREVIEW_STOPPED, and only existing ones stream.
StreamsMatchState ==
  /\ "VIDEO" \in cam.on <=> cam.state \in RecordStates
  /\ cam.state = "PREVIEW_READY" => cam.on = {}
  /\ cam.state = "PREVIEW_STOPPED" => cam.ch = {}
  /\ cam.on \subseteq cam.ch

\* A live snapshot runs only on the channels of a recording, and outlives the
\* recording only until the live snapshot thread stops it, unless that thread
\* could not be started; it never outlives the recording's channels.
LiveSnapshotEnds ==
  "live" \in cam.snap =>
    /\ "VIDEO" \in cam.ch
    /\ cam.state \in RecordStates \/ cam.live \in {"cancel", "failed"}

Pending(e) == \E i \in DOMAIN evtQ : evtQ[i] = e

\* What will still answer command a: its place in the queue, its result, or
\* for PREPARE_SNAPSHOT the flash estimation, in the state that answers it.
OnItsWay(a) ==
  \/ Unread(a) > 0
  \/ /\ a = "PREPARE_SNAPSHOT" /\ cam.state = "PREPARE_SNAPSHOT"
     /\ cam.prep \/ Pending("PREP_SNAPSHOT_DONE")

\* No caller waits in vain: as long as one waits in waitAPIResult, the answer
\* is on its way.  Except for the commands some state leaves unanswered; for
\* the two deferred answers of a retro picture, which are lost when the
\* SNAPSHOT_DONE of an earlier capture, overtaken by commands, ends this one;
\* and for a flash estimation asked for while no stream runs (after a failed
\* restart), which no metadata ends.
NobodyForgotten ==
  \A c \in Callers :
    \/ call[c] = Idle
    \/ call[c].api \in {"RELEASE_FRAME", "REG_FACE_IMAGE"}
    \/ /\ call[c].op = "take_retro"
       /\ call[c].api \in {"TAKE_PICTURE", "PREPARE_SNAPSHOT"}
    \/ /\ call[c].api = "PREPARE_SNAPSHOT"
       /\ cam.state = "PREPARE_SNAPSHOT" /\ cam.on = {}
    \/ OnItsWay(call[c].api)

\* When no call is under way and no command queued, the only results left in
\* the list are those no caller asked for: the live snapshot thread's
\* CANCEL_PICTURE, the post-processor's STOP_CAPTURE_CHANNEL and the end of a
\* retro picture.  So but for cancel_picture no later call is given the answer
\* of an earlier command.
NoForeignAnswer ==
  (\A c \in Callers : call[c] = Idle) /\ apiQ = <<>> =>
    \A i \in DOMAIN results : results[i].api \in Unasked

\* The callback thread that waits in processSyncEvt has its event in the
\* queue: no handler of SNAPSHOT_DONE forgets to signal it.
SyncAnswered == syncWait => Pending("SNAPSHOT_DONE")
=============================================================================
