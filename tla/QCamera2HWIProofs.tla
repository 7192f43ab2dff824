------------------------- MODULE QCamera2HWIProofs -------------------------
(***************************************************************************)
(* The camera's state machine and the threads around it.                   *)
(*                                                                         *)
(* Some properties hold whatever the number of callers: video streams      *)
(* exactly while recording, a live snapshot has a recording's channels     *)
(* and is stopped after it unless no thread could be started to do so, and *)
(* the callback thread is always answered.  The others need what the       *)
(* camera service provides, one call at a time (OneCaller): then at most   *)
(* one answer is under way, and it is the answer the caller waits for.     *)
(***************************************************************************)
EXTENDS QCamera2HWI, SequenceTheorems, FiniteSetTheorems, TLAPS

-----------------------------------------------------------------------------
(* The inductive invariants.                                               *)

\* Only existing channels stream, and a live snapshot has its channel.
Sound(c) ==
  /\ c.on \subseteq c.ch
  /\ "live" \in c.snap => "VIDEO" \in c.ch

\* Video streams while recording, the live snapshot thread starts captures
\* only then, and a capture it started ends with the state or is being ended.
Streams(c) ==
  /\ Sound(c)
  /\ "VIDEO" \in c.on <=> c.state \in RecordStates
  /\ c.live = "take" => c.state = "VIDEO_PIC_TAKING"
  /\ "live" \in c.snap => c.state = "VIDEO_PIC_TAKING" \/ c.live \in {"cancel", "failed"}

CameraInv == TypeOK /\ Streams(cam) /\ SyncAnswered

\* With one caller also the states without a preview have no channels.
Quiet(c) ==
  /\ c.state = "PREVIEW_READY" => c.on = {}
  /\ c.state \in {"PREVIEW_STOPPED", "PIC_TAKING"} => c.ch = {}

OneCaller == \A c, d \in Callers : c = d

\* Some call waits for the answer to a.
Awaited(a) == \E c \in Callers : call[c].api = a

\* Commands of calls in the queue, their results in the list, and the events
\* that answer one are the elements outside these sets; CANCEL_PICTURE and
\* STOP_CAPTURE_CHANNEL also come from threads that do not wait, and the end of
\* a retro picture has a result nobody takes.
QueueOthers == {"CANCEL_PICTURE", "STOP_CAPTURE_CHANNEL", "EXIT"}
ListOthers == {x \in Results : x.api \in Unasked}
EventOthers == {"SNAPSHOT_DONE"}

Has(q, x) == \E i \in DOMAIN q : q[i] = x
Clear(q, S) == \A i \in DOMAIN q : q[i] \in S
AtMostOne(q, S) == \A i, j \in DOMAIN q : q[i] \notin S /\ q[j] \notin S => i = j

\* At most one answer to an ordinary command is under way, in whatever form.
Lone ==
  /\ AtMostOne(apiQ, QueueOthers) /\ AtMostOne(results, ListOthers)
  /\ AtMostOne(evtQ, EventOthers)
  /\ ~Clear(apiQ, QueueOthers) => /\ Clear(results, ListOthers) /\ Clear(evtQ, EventOthers)
                                  /\ ~cam.prep /\ ~cam.ready
  /\ ~Clear(results, ListOthers) => Clear(evtQ, EventOthers) /\ ~cam.prep /\ ~cam.ready
  /\ ~Clear(evtQ, EventOthers) => ~cam.prep /\ ~cam.ready
  /\ ~(cam.prep /\ cam.ready)

\* And it is awaited.
Owned ==
  /\ \A a \in Api \ QueueOthers : Has(apiQ, a) => Awaited(a)
  /\ \A x \in Results \ ListOthers : Has(results, x) => Awaited(x.api)
  /\ cam.prep \/ Has(evtQ, "PREP_SNAPSHOT_DONE") => Awaited("PREPARE_SNAPSHOT")
  /\ cam.ready \/ Has(evtQ, "READY_FOR_SNAPSHOT") => Awaited("TAKE_PICTURE")

\* The commands callers send.
Asked == Api \ {"STOP_CAPTURE_CHANNEL"}

\* Which calls send the commands that may be answered late.
CallShape ==
  \A c \in Callers :
    \/ call[c] = Idle
    \/ /\ call[c].op # "idle" /\ call[c].api \in Asked
       /\ call[c].api \in {"PRE_TAKE_PICTURE", "TAKE_PICTURE"} => call[c].op \in Takes
       /\ call[c].api = "PREPARE_SNAPSHOT" => call[c].op \in {"take_flash", "take_retro"}
       /\ call[c].op \in Takes => cam.retro = (call[c].op = "take_retro")

\* set_parameters has stopped the preview and not yet restarted it.
StoppedFor(c) ==
  \/ /\ cam.restart /\ call[c].api = "SET_PARAMS_STOP"
     /\ Has(results, [api |-> "SET_PARAMS_STOP", ok |-> TRUE])
  \/ cam.restart /\ call[c].api = "SET_PARAMS_COMMIT"
  \/ call[c].api = "SET_PARAMS_RESTART" /\ Has(apiQ, "SET_PARAMS_RESTART")

\* Then there are no channels to replace, unless it was refused.
AfterStop ==
  \A c \in Callers : StoppedFor(c) => cam.state \in RecordStates \/ cam.ch = {}

\* The answer is in the queue or the list, or the flash estimation runs.
Underway(a) ==
  \/ Has(apiQ, a)
  \/ \E b \in BOOLEAN : Has(results, [api |-> a, ok |-> b])
  \/ /\ a = "PREPARE_SNAPSHOT" /\ cam.state = "PREPARE_SNAPSHOT"
     /\ cam.prep \/ Has(evtQ, "PREP_SNAPSHOT_DONE") \/ cam.on = {}

\* The commands that may stay without an answer, see NobodyForgotten.
Excused(c) ==
  \/ call[c].api \in {"RELEASE_FRAME", "REG_FACE_IMAGE"}
  \/ call[c].op = "take_retro" /\ call[c].api \in {"TAKE_PICTURE", "PREPARE_SNAPSHOT"}

Answered == \A c \in Callers : call[c] = Idle \/ Excused(c) \/ Underway(call[c].api)

CallerInv ==
  /\ CameraInv
  /\ Quiet(cam) /\ Lone /\ Owned /\ CallShape /\ AfterStop /\ Answered

-----------------------------------------------------------------------------
(* The operations.  An operation on the channels keeps the state and the   *)
(* threads and starts neither video nor a capture nor an estimation.       *)

Keeps(c, d) ==
  /\ d \in Cam /\ Sound(d)
  /\ d.live = c.live /\ d.retro = c.retro
  /\ "VIDEO" \in d.on => "VIDEO" \in c.on
  /\ "live" \in d.snap => "live" \in c.snap
  /\ d.prep => c.prep
  /\ d.ready => c.ready

Outcome == [c : Cam, ok : BOOLEAN, ev : {<<>>, <<"SNAPSHOT_DONE">>}]

\* What an operation on the channels may come to.
Calm(c, o) == o \in Outcome /\ Keeps(c, o.c) /\ o.c.state = c.state

\* The fields that the invariants read.
Fields(d, state, ch, on, snap, live, retro, prep, ready, restart) ==
  /\ d \in Cam
  /\ d.state = state /\ d.ch = ch /\ d.on = on /\ d.snap = snap /\ d.live = live
  /\ d.retro = retro /\ d.prep = prep /\ d.ready = ready /\ d.restart = restart

\* The fields of a camera.
LEMMA CamFields ==
  ASSUME NEW c \in Cam
  PROVE  /\ c.state \in States /\ c.ch \subseteq Channels /\ c.on \subseteq Channels
         /\ c.snap \subseteq {"zsl", "cap", "live"} /\ c.live \in {"idle", "take", "cancel", "failed"}
         /\ c.zsl \in BOOLEAN /\ c.zslNew \in BOOLEAN /\ c.hint \in BOOLEAN
         /\ c.hintNew \in BOOLEAN /\ c.restart \in BOOLEAN /\ c.longshot \in BOOLEAN
         /\ c.retro \in BOOLEAN /\ c.win \in BOOLEAN /\ c.prep \in BOOLEAN
         /\ c.ready \in BOOLEAN
  BY DEF Cam

\* A camera keeps what it has.
LEMMA KeepsSelf ==
  ASSUME NEW c \in Cam, Sound(c)
  PROVE  Keeps(c, c)
  BY DEF Keeps

\* One operation after another.
LEMMA KeepsTransitive ==
  ASSUME NEW c, NEW d, NEW e, Keeps(c, d), Keeps(d, e)
  PROVE  Keeps(c, e)
  BY DEF Keeps

\* Updates of one field.
LEMMA ToFields ==
  ASSUME NEW c \in Cam, NEW s \in States
  PROVE  Fields([c EXCEPT !.state = s], s, c.ch, c.on, c.snap, c.live, c.retro, c.prep, c.ready,
                c.restart)
  BY DEF Cam, Fields

\* Channels that exist.
LEMMA ChFields ==
  ASSUME NEW c \in Cam, NEW x \in SUBSET Channels
  PROVE  Fields([c EXCEPT !.ch = x], c.state, x, c.on, c.snap, c.live, c.retro, c.prep, c.ready,
                c.restart)
  BY DEF Cam, Fields

\* Channels that stream.
LEMMA OnFields ==
  ASSUME NEW c \in Cam, NEW x \in SUBSET Channels
  PROVE  Fields([c EXCEPT !.on = x], c.state, c.ch, x, c.snap, c.live, c.retro, c.prep, c.ready,
                c.restart)
  BY DEF Cam, Fields

\* The live snapshot thread.
LEMMA LiveFields ==
  ASSUME NEW c \in Cam, NEW x \in {"idle", "take", "cancel", "failed"}
  PROVE  Fields([c EXCEPT !.live = x], c.state, c.ch, c.on, c.snap, x, c.retro, c.prep, c.ready,
                c.restart)
  BY DEF Cam, Fields

\* The captures.
LEMMA SnapFields ==
  ASSUME NEW c \in Cam, NEW x \in SUBSET {"zsl", "cap", "live"}
  PROVE  Fields([c EXCEPT !.snap = x], c.state, c.ch, c.on, x, c.live, c.retro, c.prep, c.ready,
                c.restart)
  BY DEF Cam, Fields

\* The live snapshot thread and the captures.
LEMMA LiveSnapFields ==
  ASSUME NEW c \in Cam, NEW x \in {"idle", "take", "cancel", "failed"}, NEW y \in SUBSET {"zsl", "cap", "live"}
  PROVE  Fields([c EXCEPT !.live = x, !.snap = y], c.state, c.ch, c.on, y, x, c.retro, c.prep,
                c.ready, c.restart)
  BY DEF Cam, Fields

\* The captures and the retro frames.
LEMMA SnapReadyFields ==
  ASSUME NEW c \in Cam, NEW y \in SUBSET {"zsl", "cap", "live"}, NEW p \in BOOLEAN
  PROVE  Fields([c EXCEPT !.snap = y, !.ready = p], c.state, c.ch, c.on, y, c.live, c.retro,
                c.prep, p, c.restart)
  BY DEF Cam, Fields

\* The flash estimation.
LEMMA PrepFields ==
  ASSUME NEW c \in Cam, NEW p \in BOOLEAN
  PROVE  Fields([c EXCEPT !.prep = p], c.state, c.ch, c.on, c.snap, c.live, c.retro, p, c.ready,
                c.restart)
  BY DEF Cam, Fields

\* The flash estimation in its state.
LEMMA StatePrepFields ==
  ASSUME NEW c \in Cam, NEW s \in States, NEW p \in BOOLEAN
  PROVE  Fields([c EXCEPT !.state = s, !.prep = p], s, c.ch, c.on, c.snap, c.live, c.retro, p,
                c.ready, c.restart)
  BY DEF Cam, Fields

\* The retro frames.
LEMMA ReadyFields ==
  ASSUME NEW c \in Cam, NEW p \in BOOLEAN
  PROVE  Fields([c EXCEPT !.ready = p], c.state, c.ch, c.on, c.snap, c.live, c.retro, c.prep, p,
                c.restart)
  BY DEF Cam, Fields

\* Retro mode.
LEMMA RetroFields ==
  ASSUME NEW c \in Cam, NEW p \in BOOLEAN
  PROVE  Fields([c EXCEPT !.retro = p], c.state, c.ch, c.on, c.snap, c.live, p, c.prep, c.ready,
                c.restart)
  BY DEF Cam, Fields

\* The need to restart.
LEMMA RestartFields ==
  ASSUME NEW c \in Cam, NEW p \in BOOLEAN
  PROVE  Fields([c EXCEPT !.restart = p], c.state, c.ch, c.on, c.snap, c.live, c.retro, c.prep,
                c.ready, p)
  BY DEF Cam, Fields

\* Fields that the invariants do not read.
LEMMA OtherFields ==
  ASSUME NEW c \in Cam, NEW p \in BOOLEAN, NEW q \in BOOLEAN, NEW s \in BOOLEAN
  PROVE  /\ Fields([c EXCEPT !.longshot = p], c.state, c.ch, c.on, c.snap, c.live, c.retro, c.prep,
                   c.ready, c.restart)
         /\ Fields([c EXCEPT !.win = p], c.state, c.ch, c.on, c.snap, c.live, c.retro, c.prep,
                   c.ready, c.restart)
         /\ Fields([c EXCEPT !.hintNew = p], c.state, c.ch, c.on, c.snap, c.live, c.retro, c.prep,
                   c.ready, c.restart)
         /\ Fields([c EXCEPT !.zsl = p, !.hint = q], c.state, c.ch, c.on, c.snap, c.live, c.retro,
                   c.prep, c.ready, c.restart)
         /\ Fields([c EXCEPT !.hint = p, !.hintNew = q, !.zsl = s], c.state, c.ch, c.on, c.snap,
                   c.live, c.retro, c.prep, c.ready, c.restart)
<1>1. Fields([c EXCEPT !.longshot = p], c.state, c.ch, c.on, c.snap, c.live, c.retro, c.prep,
             c.ready, c.restart)
  BY DEF Cam, Fields
<1>2. Fields([c EXCEPT !.win = p], c.state, c.ch, c.on, c.snap, c.live, c.retro, c.prep, c.ready,
             c.restart)
  BY DEF Cam, Fields
<1>3. Fields([c EXCEPT !.hintNew = p], c.state, c.ch, c.on, c.snap, c.live, c.retro, c.prep,
             c.ready, c.restart)
  BY DEF Cam, Fields
<1>4. Fields([c EXCEPT !.zsl = p, !.hint = q], c.state, c.ch, c.on, c.snap, c.live, c.retro,
             c.prep, c.ready, c.restart)
  BY DEF Cam, Fields
<1>5. Fields([c EXCEPT !.hint = p, !.hintNew = q, !.zsl = s], c.state, c.ch, c.on, c.snap,
             c.live, c.retro, c.prep, c.ready, c.restart)
  BY DEF Cam, Fields
<1> QED
  BY <1>1, <1>2, <1>3, <1>4, <1>5

\* New settings.
LEMMA SettingFields ==
  ASSUME NEW c \in Cam, NEW p \in BOOLEAN, NEW q \in BOOLEAN, NEW s \in BOOLEAN
  PROVE  Fields([c EXCEPT !.zslNew = p, !.hintNew = q, !.restart = s], c.state, c.ch, c.on, c.snap,
                c.live, c.retro, c.prep, c.ready, s)
  BY DEF Cam, Fields

\* Deleting channels.
LEMMA DelKeeps ==
  ASSUME NEW c \in Cam, Sound(c), NEW S \in SUBSET Channels
  PROVE  /\ Keeps(c, DelChannels(c, S)) /\ DelChannels(c, S).state = c.state
         /\ DelChannels(c, S).ch = c.ch \ S /\ DelChannels(c, S).on = c.on \ S
         /\ DelChannels(c, S).restart = c.restart
         /\ S = Channels => ~DelChannels(c, S).ready
<1> DEFINE ch == c.ch \ S
           on == c.on \ S
           snap == c.snap \ ((IF "ZSL" \in S THEN {"zsl"} ELSE {}) \cup
                             (IF "VIDEO" \in S THEN {"live"} ELSE {}))
           prep == c.prep /\ (c.on \ S) # {}
           ready == c.ready /\ "ZSL" \notin S
           d == DelChannels(c, S)
<1>1. /\ ch \in SUBSET Channels /\ on \in SUBSET Channels
      /\ snap \in SUBSET {"zsl", "cap", "live"} /\ prep \in BOOLEAN /\ ready \in BOOLEAN
  BY CamFields
<1>2. d = [c EXCEPT !.ch = ch, !.on = on, !.snap = snap, !.prep = prep, !.ready = ready]
  BY Zenon DEF DelChannels
<1>3. /\ on \subseteq ch /\ ("live" \in snap => "VIDEO" \in ch /\ "live" \in c.snap)
      /\ "VIDEO" \in on => "VIDEO" \in c.on
      /\ (prep => c.prep) /\ (ready => c.ready)
      /\ S = Channels => ~ready
  BY DEF Sound, Channels
<1> HIDE DEF ch, on, snap, prep, ready, d
<1>4. Fields(d, c.state, ch, on, snap, c.live, c.retro, prep, ready, c.restart)
  <2> DEFINE e == [c EXCEPT !.ch = ch, !.on = on, !.snap = snap, !.prep = prep, !.ready = ready]
  <2>1. Fields(e, c.state, ch, on, snap, c.live, c.retro, prep, ready, c.restart)
    BY <1>1 DEF Cam, Fields
  <2>2. d = e
    BY <1>2, Zenon
  <2> HIDE DEF e
  <2> QED
    BY <2>1, <2>2
<1>5. Keeps(c, d) /\ d.state = c.state /\ d.ch = ch /\ d.on = on /\ d.restart = c.restart
      /\ (S = Channels => ~d.ready)
  BY <1>3, <1>4 DEF Keeps, Sound, Fields
<1> QED
  BY <1>5 DEF d, ch, on

\* unpreparePreview and stopPreview delete every channel.
LEMMA UnprepareKeeps ==
  ASSUME NEW c \in Cam, Sound(c)
  PROVE  /\ Keeps(c, unpreparePreview(c)) /\ unpreparePreview(c).state = c.state
         /\ unpreparePreview(c).ch = {} /\ unpreparePreview(c).on = {}
         /\ ~unpreparePreview(c).ready
         /\ stopPreview(c) = unpreparePreview(c)
<1>1. c.ch \ Channels = {} /\ c.on \ Channels = {}
  BY CamFields
<1> QED
  BY <1>1, DelKeeps DEF unpreparePreview, stopPreview

\* stopRecording stops the video channel.
LEMMA StopRecordingKeeps ==
  ASSUME NEW c \in Cam, Sound(c)
  PROVE  /\ Keeps(c, stopRecording(c)) /\ stopRecording(c).state = c.state
         /\ "VIDEO" \notin stopRecording(c).on
<1> DEFINE on == c.on \ {"VIDEO"}
           d == stopRecording(c)
<1>1. on \in SUBSET Channels /\ "VIDEO" \notin on /\ on \subseteq c.on
  BY CamFields
<1>2. d = [c EXCEPT !.on = on]
  BY DEF stopRecording
<1> HIDE DEF on, d
<1>3. Fields(d, c.state, c.ch, on, c.snap, c.live, c.retro, c.prep, c.ready, c.restart)
  BY <1>1, <1>2, OnFields
<1>4. Keeps(c, d) /\ d.state = c.state /\ "VIDEO" \notin d.on
  BY <1>1, <1>3 DEF Fields, Keeps, Sound
<1> QED
  BY <1>4 DEF d

\* cancelPicture ends a capture and leaves the channels alone.
LEMMA CancelPictureKeeps ==
  ASSUME NEW c \in Cam, Sound(c)
  PROVE  /\ Keeps(c, cancelPicture(c)) /\ cancelPicture(c).state = c.state
         /\ cancelPicture(c).ch = c.ch /\ cancelPicture(c).on = c.on
         /\ cancelPicture(c).restart = c.restart
<1> DEFINE snap == c.snap \ {IF c.zsl THEN "zsl" ELSE "cap"}
           ready == c.ready /\ ~c.zsl
           d == cancelPicture(c)
<1>1. /\ snap \in SUBSET {"zsl", "cap", "live"} /\ ready \in BOOLEAN
      /\ ("live" \in snap => "live" \in c.snap) /\ (ready => c.ready)
  BY CamFields
<1>2. d = [c EXCEPT !.snap = snap, !.ready = ready]
  BY Zenon DEF cancelPicture
<1> HIDE DEF snap, ready, d
<1>3. Fields(d, c.state, c.ch, c.on, snap, c.live, c.retro, c.prep, ready, c.restart)
  BY <1>1, <1>2, SnapReadyFields
<1>4. /\ Keeps(c, d) /\ d.state = c.state /\ d.ch = c.ch /\ d.on = c.on
      /\ d.restart = c.restart
  BY <1>1, <1>3 DEF Fields, Keeps, Sound
<1> QED
  BY <1>4 DEF d

\* An outcome without events.
LEMMA OutCalm ==
  ASSUME NEW c \in Cam, NEW d, Keeps(c, d), d.state = c.state, NEW b \in BOOLEAN
  PROVE  /\ Calm(c, Out(d, b))
         /\ Out(d, b).c = d /\ Out(d, b).ok = b /\ Out(d, b).ev = <<>>
<1>1. d \in Cam
  BY DEF Keeps
<1> QED
  BY <1>1 DEF Calm, Outcome, Out

\* The parts of an outcome.
Parts(o, c, ok, ev) == o \in Outcome /\ o.c = c /\ o.ok = ok /\ o.ev = ev

\* Updates of an outcome.
LEMMA OutcomeUpdate ==
  ASSUME NEW o \in Outcome, NEW d \in Cam, NEW b \in BOOLEAN,
         NEW v \in {<<>>, <<"SNAPSHOT_DONE">>}
  PROVE  /\ Parts([o EXCEPT !.c = d], d, o.ok, o.ev)
         /\ Parts([o EXCEPT !.ok = b], o.c, b, o.ev)
         /\ Parts([o EXCEPT !.ev = v], o.c, o.ok, v)
         /\ Parts([o EXCEPT !.c = d, !.ok = b], d, b, o.ev)
<1>1. Parts([o EXCEPT !.c = d], d, o.ok, o.ev)
  BY DEF Outcome, Parts
<1>2. Parts([o EXCEPT !.ok = b], o.c, b, o.ev)
  BY DEF Outcome, Parts
<1>3. Parts([o EXCEPT !.ev = v], o.c, o.ok, v)
  BY DEF Outcome, Parts
<1>4. Parts([o EXCEPT !.c = d, !.ok = b], d, b, o.ev)
  BY DEF Outcome, Parts
<1> QED
  BY <1>1, <1>2, <1>3, <1>4

\* sendCommand(LONGSHOT_ON).
LEMMA LongshotOnCalm ==
  ASSUME NEW c \in Cam, Sound(c)
  PROVE  /\ Calm(c, LongshotOn(c)) /\ LongshotOn(c).c.ch = c.ch /\ LongshotOn(c).c.on = c.on
         /\ LongshotOn(c).ev = <<>>
<1> DEFINE d == [c EXCEPT !.longshot = TRUE]
<1>1. Fields(d, c.state, c.ch, c.on, c.snap, c.live, c.retro, c.prep, c.ready, c.restart)
  BY OtherFields
<1> HIDE DEF d
<1>2. Keeps(c, d) /\ d.state = c.state /\ d.ch = c.ch /\ d.on = c.on
  BY <1>1 DEF Fields, Keeps, Sound
<1>3. Keeps(c, c)
  BY KeepsSelf
<1>4. LongshotOn(c) = IF c.state \in CaptureStates THEN Out(c, FALSE) ELSE Out(d, TRUE)
  BY DEF LongshotOn, d
<1>5. /\ Calm(c, Out(c, FALSE)) /\ Out(c, FALSE).c = c /\ Out(c, FALSE).ev = <<>>
      /\ Calm(c, Out(d, TRUE)) /\ Out(d, TRUE).c = d /\ Out(d, TRUE).ev = <<>>
  BY <1>2, <1>3, OutCalm
<1> QED
  BY <1>2, <1>4, <1>5

\* sendCommand(LONGSHOT_OFF).
LEMMA LongshotOffCalm ==
  ASSUME NEW c \in Cam, Sound(c)
  PROVE  /\ Calm(c, LongshotOff(c)) /\ LongshotOff(c).c.ch = c.ch
         /\ LongshotOff(c).c.on = c.on /\ LongshotOff(c).ok
<1> DEFINE ends == c.longshot /\ c.state \in CaptureStates
           d == IF ends THEN cancelPicture(c) ELSE c
           f == [d EXCEPT !.longshot = FALSE]
           v == IF ends THEN <<"SNAPSHOT_DONE">> ELSE <<>>
<1>1. Keeps(c, d) /\ d.state = c.state /\ d.ch = c.ch /\ d.on = c.on
  BY CancelPictureKeeps, KeepsSelf
<1>2. v \in {<<>>, <<"SNAPSHOT_DONE">>}
  OBVIOUS
<1>3. LongshotOff(c) = [c |-> f, ok |-> TRUE, ev |-> v]
  BY Zenon DEF LongshotOff
<1> HIDE DEF d, v
<1>4. d \in Cam
  BY <1>1 DEF Keeps
<1>5. Fields(f, d.state, d.ch, d.on, d.snap, d.live, d.retro, d.prep, d.ready, d.restart)
  BY <1>4, OtherFields
<1> HIDE DEF f
<1>6. Keeps(c, f) /\ f.state = c.state /\ f.ch = c.ch /\ f.on = c.on /\ f \in Cam
  BY <1>1, <1>5 DEF Fields, Keeps, Sound
<1> QED
  BY <1>2, <1>3, <1>6 DEF Calm, Outcome

\* preparePreview: a failure leaves no channel where there was none, and it
\* starts nothing.
LEMMA PrepareCalm ==
  ASSUME NEW c \in Cam, Sound(c), NEW o \in preparePreview(c)
  PROVE  /\ Calm(c, o)
         /\ c.ch = {} /\ ~o.ok => o.c.ch = {}
         /\ c.on = {} => o.c.on = {}
<1> DEFINE l == IF c.hint /\ c.longshot THEN LongshotOff(c) ELSE Out(c, TRUE)
           cs == ChannelsOf(c)
           dropped == {S \in SUBSET cs : c.hint /\ "PREVIEW" \in S => "VIDEO" \in S}
           d == DelChannels(l.c, cs)
           added == {cs} \cup (IF c.hint THEN {} ELSE {cs \ {"PREVIEW"}})
<1>1. Calm(c, l) /\ l.c.ch = c.ch /\ l.c.on = c.on
  BY LongshotOffCalm, KeepsSelf, OutCalm
<1>2. cs \in SUBSET Channels
  BY DEF ChannelsOf, Channels
<1>3. \/ \E S \in added : o = [l EXCEPT !.c = [d EXCEPT !.ch = @ \cup S]]
      \/ o = Out(c, FALSE)
      \/ \E S \in dropped : o = [l EXCEPT !.c = DelChannels(l.c, S), !.ok = FALSE]
  BY Zenon DEF preparePreview
<1>4. dropped \subseteq SUBSET Channels /\ added \subseteq SUBSET Channels
  BY <1>2
<1> HIDE DEF l, cs, dropped, added
<1>5. l.c \in Cam /\ Sound(l.c) /\ l \in Outcome /\ Keeps(c, l.c) /\ l.c.state = c.state
  BY <1>1 DEF Calm, Keeps
<1>6. CASE \E S \in added : o = [l EXCEPT !.c = [d EXCEPT !.ch = @ \cup S]]
  <2>0. PICK S \in added : o = [l EXCEPT !.c = [d EXCEPT !.ch = @ \cup S]]
    BY <1>6
  <2> DEFINE f == [d EXCEPT !.ch = @ \cup S]
  <2>1. Keeps(c, d) /\ d.state = c.state /\ d.ch = c.ch \ cs /\ d.on = c.on \ cs
    BY <1>1, <1>2, <1>5, DelKeeps, KeepsTransitive
  <2> HIDE DEF d
  <2>2. d \in Cam
    BY <2>1 DEF Keeps
  <2> DEFINE x == d.ch \cup S
  <2>3. x \in SUBSET Channels /\ f = [d EXCEPT !.ch = x]
    BY <1>4, <2>2, CamFields
  <2> HIDE DEF f
  <2>4. Fields(f, d.state, x, d.on, d.snap, d.live, d.retro, d.prep, d.ready, d.restart)
    BY <2>2, <2>3, ChFields
  <2>5. Keeps(c, f) /\ f.state = c.state /\ f \in Cam /\ f.on = c.on \ cs
    BY <2>1, <2>4 DEF Fields, Keeps, Sound
  <2>6. Parts(o, f, l.ok, l.ev)
    BY <1>5, <2>0, <2>5, OutcomeUpdate DEF f
  <2>7. l.ok
    BY LongshotOffCalm, KeepsSelf, OutCalm DEF l
  <2> QED
    BY <2>5, <2>6, <2>7 DEF Parts, Calm
<1>7. CASE o = Out(c, FALSE)
  BY <1>7, KeepsSelf, OutCalm
<1>8. CASE \E S \in dropped : o = [l EXCEPT !.c = DelChannels(l.c, S), !.ok = FALSE]
  <2>1. PICK S \in dropped : o = [l EXCEPT !.c = DelChannels(l.c, S), !.ok = FALSE]
    BY <1>8
  <2> DEFINE g == DelChannels(l.c, S)
  <2>2. Keeps(c, g) /\ g.state = c.state /\ g.ch = c.ch \ S /\ g.on = c.on \ S
    BY <1>1, <1>4, <1>5, DelKeeps, KeepsTransitive
  <2> HIDE DEF g
  <2>3. g \in Cam
    BY <2>2 DEF Keeps
  <2>4. Parts(o, g, FALSE, l.ev)
    BY <1>5, <2>1, <2>3, OutcomeUpdate DEF g
  <2> QED
    BY <2>2, <2>4 DEF Parts, Calm
<1> QED
  BY <1>3, <1>6, <1>7, <1>8

\* startPreview starts a preview channel that exists.
LEMMA StartCalm ==
  ASSUME NEW c \in Cam, Sound(c), NEW o \in startPreview(c)
  PROVE  Calm(c, o) /\ o.ev = <<>>
<1>1. CASE o = Out(c, FALSE)
  BY <1>1, KeepsSelf, OutCalm
<1>2. CASE \E ok \in BOOLEAN : StartOf(c) \in c.ch /\ o = Out([c EXCEPT !.on = @ \cup {StartOf(c)}], ok)
  <2> DEFINE on == c.on \cup {StartOf(c)}
             d == [c EXCEPT !.on = on]
  <2>1. PICK ok \in BOOLEAN : StartOf(c) \in c.ch /\ o = Out(d, ok)
    BY <1>2
  <2>2. StartOf(c) \in {"ZSL", "PREVIEW"}
    BY DEF StartOf
  <2>3. on \in SUBSET Channels /\ on \subseteq c.ch /\ ("VIDEO" \in on => "VIDEO" \in c.on)
    BY <2>1, <2>2, CamFields DEF Sound, Channels
  <2> HIDE DEF on
  <2>4. Fields(d, c.state, c.ch, on, c.snap, c.live, c.retro, c.prep, c.ready, c.restart)
    BY <2>3, OnFields
  <2> HIDE DEF d
  <2>5. Keeps(c, d) /\ d.state = c.state
    BY <2>3, <2>4 DEF Fields, Keeps, Sound
  <2> QED
    BY <2>1, <2>5, OutCalm
<1> QED
  BY <1>1, <1>2 DEF startPreview

\* A preview that does not start leaves no channel.
LEMMA StartOrUnprepareCalm ==
  ASSUME NEW c \in Cam, Sound(c), NEW o \in StartOrUnprepare(c)
  PROVE  Calm(c, o) /\ o.ev = <<>> /\ (~o.ok => o.c.ch = {})
<1>1. PICK s \in startPreview(c) :
        o = [s EXCEPT !.c = IF s.ok THEN s.c ELSE unpreparePreview(s.c)]
  BY DEF StartOrUnprepare
<1> DEFINE d == IF s.ok THEN s.c ELSE unpreparePreview(s.c)
<1>2. Calm(c, s) /\ s.ev = <<>>
  BY StartCalm
<1>3. s \in Outcome /\ s.c \in Cam /\ Sound(s.c) /\ Keeps(c, s.c) /\ s.c.state = c.state
  BY <1>2 DEF Calm, Keeps
<1>4. Keeps(c, d) /\ d.state = c.state /\ (~s.ok => d.ch = {})
  BY <1>3, UnprepareKeeps, KeepsTransitive
<1> HIDE DEF d
<1>5. d \in Cam
  BY <1>4 DEF Keeps
<1>6. Parts(o, d, s.ok, s.ev)
  BY <1>1, <1>3, <1>5, OutcomeUpdate DEF d
<1> QED
  BY <1>2, <1>4, <1>6 DEF Parts, Calm

\* One calm operation after another; the events of the first are kept.
LEMMA CalmAfter ==
  ASSUME NEW c \in Cam, NEW o, NEW s, Calm(c, o), Calm(o.c, s)
  PROVE  /\ Calm(c, [s EXCEPT !.ev = o.ev]) /\ [s EXCEPT !.ev = o.ev].ok = s.ok
         /\ [s EXCEPT !.ev = o.ev].c = s.c
<1>1. o \in Outcome /\ s \in Outcome /\ Keeps(c, s.c) /\ s.c.state = c.state
  BY KeepsTransitive DEF Calm
<1>2. o.ev \in {<<>>, <<"SNAPSHOT_DONE">>} /\ s.c \in Cam /\ s.ok \in BOOLEAN
  BY <1>1 DEF Outcome
<1>3. Parts([s EXCEPT !.ev = o.ev], s.c, s.ok, o.ev)
  BY <1>1, <1>2, OutcomeUpdate
<1> QED
  BY <1>1, <1>3 DEF Calm, Parts

\* Preparing and starting the preview again.
LEMMA RestartCalm ==
  ASSUME NEW c \in Cam, Sound(c), NEW r \in RestartPreview(c)
  PROVE  Calm(c, r) /\ (c.ch = {} /\ ~r.ok => r.c.ch = {})
<1>1. CASE r \in preparePreview(c)
  BY <1>1, PrepareCalm
<1>2. CASE \E o \in preparePreview(c) : \E s \in StartOrUnprepare(o.c) : r = [s EXCEPT !.ev = o.ev]
  <2>1. PICK o \in preparePreview(c) : \E s \in StartOrUnprepare(o.c) : r = [s EXCEPT !.ev = o.ev]
    BY <1>2
  <2>2. PICK s \in StartOrUnprepare(o.c) : r = [s EXCEPT !.ev = o.ev]
    BY <2>1
  <2>3. Calm(c, o)
    BY PrepareCalm
  <2>4. Calm(o.c, s) /\ (~s.ok => s.c.ch = {})
    BY <2>3, StartOrUnprepareCalm DEF Calm, Keeps
  <2> QED
    BY <2>2, <2>3, <2>4, CalmAfter
<1> QED
  BY <1>1, <1>2 DEF RestartPreview, PrepareAnd

\* updateRecordingHintValue changes neither channels nor captures.
LEMMA HintKeeps ==
  ASSUME NEW c \in Cam, Sound(c), NEW v \in BOOLEAN, NEW d \in updateRecordingHintValue(c, v)
  PROVE  Keeps(c, d) /\ d.state = c.state /\ d.ch = c.ch /\ d.on = c.on
<1>1. \/ d = [c EXCEPT !.hint = v, !.hintNew = v, !.zsl = c.zslNew]
      \/ d = [c EXCEPT !.hintNew = v]
      \/ d = c
  BY DEF updateRecordingHintValue
<1>2. c.zslNew \in BOOLEAN
  BY CamFields
<1>3. Fields(d, c.state, c.ch, c.on, c.snap, c.live, c.retro, c.prep, c.ready, c.restart)
  <2>1. Fields(c, c.state, c.ch, c.on, c.snap, c.live, c.retro, c.prep, c.ready, c.restart)
    BY DEF Fields
  <2> QED
    BY <1>1, <1>2, <2>1, OtherFields
<1> QED
  BY <1>3 DEF Fields, Keeps, Sound

\* Stopping the preview and changing the recording hint.
LEMMA StopAndHint ==
  ASSUME NEW c \in Cam, Sound(c), NEW v \in BOOLEAN,
         NEW d \in updateRecordingHintValue(stopPreview(c), v)
  PROVE  Keeps(c, d) /\ d.state = c.state /\ d.ch = {} /\ d.on = {} /\ d \in Cam /\ Sound(d)
<1>1. /\ Keeps(c, stopPreview(c)) /\ stopPreview(c).state = c.state
      /\ stopPreview(c).ch = {} /\ stopPreview(c).on = {}
  BY UnprepareKeeps
<1>2. stopPreview(c) \in Cam /\ Sound(stopPreview(c))
  BY <1>1 DEF Keeps
<1>3. /\ Keeps(stopPreview(c), d) /\ d.state = stopPreview(c).state
      /\ d.ch = stopPreview(c).ch /\ d.on = stopPreview(c).on
  BY <1>2, HintKeeps
<1>4. Keeps(c, d)
  BY <1>1, <1>3, KeepsTransitive
<1> QED
  BY <1>1, <1>3, <1>4 DEF Keeps

\* Calm from a camera that was kept.
LEMMA CalmFrom ==
  ASSUME NEW c, NEW d, NEW o, Keeps(c, d), d.state = c.state, Calm(d, o)
  PROVE  Calm(c, o)
  BY KeepsTransitive DEF Calm

\* preStartRecording.
LEMMA PreStartRecordingCalm ==
  ASSUME NEW c \in Cam, Sound(c), NEW r \in preStartRecording(c)
  PROVE  Calm(c, r)
<1>1. CASE c.hint
  BY <1>1, KeepsSelf, OutCalm DEF preStartRecording
<1>2. CASE ~c.hint
  <2>1. PICK d \in updateRecordingHintValue(stopPreview(c), TRUE) : r \in PrepareAnd(d, startPreview)
    BY <1>2 DEF preStartRecording
  <2>2. Keeps(c, d) /\ d.state = c.state /\ d \in Cam /\ Sound(d)
    BY StopAndHint
  <2>3. CASE r \in preparePreview(d)
    BY <2>2, <2>3, PrepareCalm, CalmFrom
  <2>4. CASE \E o \in preparePreview(d) : \E s \in startPreview(o.c) : r = [s EXCEPT !.ev = o.ev]
    <3>1. PICK o \in preparePreview(d) : \E s \in startPreview(o.c) : r = [s EXCEPT !.ev = o.ev]
      BY <2>4
    <3>2. PICK s \in startPreview(o.c) : r = [s EXCEPT !.ev = o.ev]
      BY <3>1
    <3>3. Calm(d, o)
      BY <2>2, PrepareCalm
    <3>4. Calm(o.c, s)
      BY <3>3, StartCalm DEF Calm, Keeps
    <3> QED
      BY <2>2, <3>2, <3>3, <3>4, CalmAfter, CalmFrom
  <2> QED
    BY <2>1, <2>3, <2>4 DEF PrepareAnd
<1> QED
  BY <1>1, <1>2, CamFields

\* preTakePicture, and TAKE_PICTURE's restart without the hint.
LEMMA PreTakePictureCalm ==
  ASSUME NEW c \in Cam, Sound(c), NEW r \in preTakePicture(c) \cup DropHint(c)
  PROVE  Calm(c, r)
<1>1. CASE c.hint
  <2>1. PICK d \in updateRecordingHintValue(stopPreview(c), FALSE) : r \in RestartPreview(d)
    BY <1>1 DEF preTakePicture, DropHint
  <2>2. Keeps(c, d) /\ d.state = c.state /\ d \in Cam /\ Sound(d)
    BY StopAndHint
  <2> QED
    BY <2>1, <2>2, RestartCalm, CalmFrom
<1>2. CASE ~c.hint
  BY <1>2, KeepsSelf, OutCalm DEF preTakePicture, DropHint
<1> QED
  BY <1>1, <1>2, CamFields

\* longShot changes nothing.
LEMMA LongShotCalm ==
  ASSUME NEW c \in Cam, Sound(c), NEW o \in longShot(c)
  PROVE  Calm(c, o) /\ o.c = c /\ o.ev = <<>>
<1>1. PICK ok \in BOOLEAN : o = Out(c, ok)
  BY DEF longShot
<1> QED
  BY <1>1, KeepsSelf, OutCalm

\* updateParameters keeps the channels.
LEMMA UpdateParametersCalm ==
  ASSUME NEW c \in Cam, Sound(c), NEW o \in updateParameters(c)
  PROVE  Calm(c, o) /\ o.c.ch = c.ch /\ o.c.on = c.on /\ o.ev = <<>>
<1>1. PICK v \in Settings, q \in BOOLEAN, ok \in BOOLEAN :
        o = Out(WithSettings(c, v, q), ok)
  BY DEF updateParameters
<1> DEFINE need == q \/ v.zsl # c.zslNew
           d == [c EXCEPT !.zslNew = v.zsl, !.hintNew = v.hint, !.restart = need]
<1>2. o = Out(d, ok)
  BY <1>1, Zenon DEF WithSettings
<1>3. v.zsl \in BOOLEAN /\ v.hint \in BOOLEAN /\ need \in BOOLEAN
  BY SettingsAssumption
<1> HIDE DEF need
<1>4. Fields(d, c.state, c.ch, c.on, c.snap, c.live, c.retro, c.prep, c.ready, need)
  BY <1>3, SettingFields
<1> HIDE DEF d
<1>5. Keeps(c, d) /\ d.state = c.state /\ d.ch = c.ch /\ d.on = c.on
  BY <1>4 DEF Fields, Keeps, Sound
<1> QED
  BY <1>2, <1>5, OutCalm

\* commitParameterChanges keeps the channels and the need to restart.
LEMMA CommitCalm ==
  ASSUME NEW c \in Cam, Sound(c), NEW o \in commitParameterChanges(c)
  PROVE  /\ Calm(c, o) /\ o.c.ch = c.ch /\ o.c.on = c.on /\ o.c.restart = c.restart
         /\ o.ev = <<>>
<1> DEFINE d == [c EXCEPT !.zsl = c.zslNew, !.hint = c.hintNew]
<1>1. Fields(d, c.state, c.ch, c.on, c.snap, c.live, c.retro, c.prep, c.ready, c.restart)
  BY CamFields, OtherFields
<1>2. o = Out(c, FALSE) \/ \E ok \in BOOLEAN : o = Out(d, ok)
  BY DEF commitParameterChanges
<1> HIDE DEF d
<1>3. Keeps(c, d) /\ d.state = c.state /\ d.ch = c.ch /\ d.on = c.on /\ d.restart = c.restart
  BY <1>1 DEF Fields, Keeps, Sound
<1>4. CASE o = Out(c, FALSE)
  BY <1>4, KeepsSelf, OutCalm
<1>5. CASE \E ok \in BOOLEAN : o = Out(d, ok)
  BY <1>3, <1>5, OutCalm
<1> QED
  BY <1>2, <1>4, <1>5

\* takePicture, without retro frames, is calm but for the capture; the frames
\* of a retro picture are due when it starts one in ZSL mode.
LEMMA TakePictureKeeps ==
  ASSUME NEW c \in Cam, Sound(c), NEW o \in takePicture(c)
  PROVE  /\ o \in Outcome /\ o.ev = <<>> /\ o.c.state = c.state
         /\ o.c \in Cam /\ Sound(o.c) /\ o.c.live = c.live /\ o.c.retro = c.retro
         /\ "VIDEO" \in o.c.on => "VIDEO" \in c.on
         /\ "live" \in o.c.snap => "live" \in c.snap
         /\ o.c.prep => c.prep
         /\ (o.c.ready => c.ready) \/ (c.zsl /\ c.retro /\ o.ok)
         /\ ~c.zsl /\ o.ok => o.c.ch = {}
<1>1. CASE o = Out(c, FALSE)
  <2>1. Calm(c, o) /\ ~o.ok /\ o.ev = <<>>
    BY <1>1, KeepsSelf, OutCalm
  <2> QED
    BY <2>1 DEF Calm, Keeps
<1>2. CASE c.zsl /\ o = Out([c EXCEPT !.snap = @ \cup {"zsl"},
                                      !.ready = c.retro /\ "ZSL" \in c.on], TRUE)
  <2> DEFINE snap == c.snap \cup {"zsl"}
             ready == c.retro /\ "ZSL" \in c.on
             d == [c EXCEPT !.snap = snap, !.ready = ready]
  <2>1. snap \in SUBSET {"zsl", "cap", "live"} /\ ("live" \in snap => "live" \in c.snap)
        /\ ready \in BOOLEAN /\ (ready => c.retro)
    BY CamFields
  <2>2. o = Out(d, TRUE)
    BY <1>2
  <2> HIDE DEF snap, ready
  <2>3. Fields(d, c.state, c.ch, c.on, snap, c.live, c.retro, c.prep, ready, c.restart)
    BY <2>1, SnapReadyFields
  <2> HIDE DEF d
  <2>4. o \in Outcome /\ o.c = d /\ o.ok /\ o.ev = <<>>
    BY <2>2, <2>3 DEF Out, Outcome, Fields
  <2> QED
    BY <1>2, <2>1, <2>3, <2>4 DEF Fields, Sound
<1>3. CASE ~c.zsl /\ o = Out(stopPreview(c), FALSE)
  <2>0. Keeps(c, stopPreview(c)) /\ stopPreview(c).state = c.state
    BY UnprepareKeeps
  <2>1. Calm(c, o) /\ o.ok = FALSE /\ o.ev = <<>>
    BY <1>3, <2>0, OutCalm
  <2> QED
    BY <2>1 DEF Calm, Keeps
<1>4. CASE ~c.zsl /\ o = Out([stopPreview(c) EXCEPT !.snap = @ \cup {"cap"}], TRUE)
  <2> DEFINE f == stopPreview(c)
             snap == f.snap \cup {"cap"}
             d == [f EXCEPT !.snap = snap]
  <2>1. Keeps(c, f) /\ f.state = c.state /\ f.ch = {} /\ f.on = {}
    BY UnprepareKeeps
  <2>2. o = Out(d, TRUE)
    BY <1>4
  <2> HIDE DEF f
  <2>3. f \in Cam
    BY <2>1 DEF Keeps
  <2>4. snap \in SUBSET {"zsl", "cap", "live"} /\ ("live" \in snap => "live" \in f.snap)
    BY <2>3, CamFields
  <2> HIDE DEF snap
  <2>5. Fields(d, f.state, f.ch, f.on, snap, f.live, f.retro, f.prep, f.ready, f.restart)
    BY <2>3, <2>4, SnapFields
  <2> HIDE DEF d
  <2>6. o \in Outcome /\ o.c = d /\ o.ok /\ o.ev = <<>>
    BY <2>2, <2>5 DEF Out, Outcome, Fields
  <2> QED
    BY <2>1, <2>4, <2>5, <2>6 DEF Fields, Keeps, Sound
<1> QED
  BY <1>1, <1>2, <1>3, <1>4, CamFields DEF takePicture

\* startRecording streams a video channel that exists.
LEMMA StartRecordingParts ==
  ASSUME NEW c \in Cam, Sound(c), NEW o \in startRecording(c)
  PROVE  /\ o \in Outcome /\ o.ev = <<>>
         /\ ~o.ok => o.c = c
         /\ o.ok => /\ Fields(o.c, c.state, c.ch, c.on \cup {"VIDEO"}, c.snap, c.live, c.retro,
                              c.prep, c.ready, c.restart)
                    /\ "VIDEO" \in c.ch
<1>1. CASE o = Out(c, FALSE)
  BY <1>1 DEF Out, Outcome
<1>2. CASE "VIDEO" \in c.ch /\ o = Out([c EXCEPT !.on = @ \cup {"VIDEO"}], TRUE)
  <2> DEFINE on == c.on \cup {"VIDEO"}
             d == [c EXCEPT !.on = on]
  <2>1. on \in SUBSET Channels
    BY CamFields DEF Channels
  <2>2. o = Out(d, TRUE)
    BY <1>2
  <2> HIDE DEF on
  <2>3. Fields(d, c.state, c.ch, on, c.snap, c.live, c.retro, c.prep, c.ready, c.restart)
    BY <2>1, OnFields
  <2> HIDE DEF d
  <2>4. o \in Outcome /\ o.c = d /\ o.ok /\ o.ev = <<>>
    BY <2>2, <2>3 DEF Out, Outcome, Fields
  <2> QED
    BY <1>2, <2>3, <2>4 DEF on
<1> QED
  BY <1>1, <1>2 DEF startRecording

-----------------------------------------------------------------------------
(* The handlers.  What a command does to the camera, answered or not: the  *)
(* channels still match the state, with one caller also the states without *)
(* a preview (if SET_PARAMS_RESTART finds no channels), the commands that  *)
(* may come between SET_PARAMS_STOP and SET_PARAMS_RESTART leave channels  *)
(* and restart alone, and SET_PARAMS_STOP leaves no channels.              *)

Between == {"SET_PARAMS_COMMIT", "CANCEL_PICTURE", "STOP_CAPTURE_CHANNEL"}

CamEffect(e, c, d) ==
  /\ d \in Cam /\ Streams(d) /\ d.retro = c.retro
  /\ Quiet(c) /\ (e = "SET_PARAMS_RESTART" /\ c.state \notin RecordStates => c.ch = {}) => Quiet(d)
  /\ e \in Between => /\ d.ch = c.ch /\ d.restart = c.restart
                      /\ d.state \in RecordStates <=> c.state \in RecordStates

\* What an answer may come to.
AnswerEffect(e, c, o) ==
  /\ CamEffect(e, c, o.c) /\ o \in Outcome
  /\ o.c.prep => c.prep
  /\ o.c.ready => c.ready
  /\ e = "SET_PARAMS_STOP" /\ o.ok /\ Quiet(c) => o.c.state \in RecordStates \/ o.c.ch = {}
  /\ c.state = "PREPARE_SNAPSHOT" => o.c = c

\* The commands that are left unanswered, or answered later.
SilentEffect(e, c, d) ==
  /\ CamEffect(e, c, d)
  /\ \/ e \in {"RELEASE_FRAME", "REG_FACE_IMAGE", "STOP_CAPTURE_CHANNEL"} /\ d = c
     \/ /\ e = "PREPARE_SNAPSHOT" /\ c.state # "PREPARE_SNAPSHOT" /\ d.ready = c.ready
        /\ (d.state = "PREPARE_SNAPSHOT" /\ (d.prep \/ d.on = {})) \/ c.retro
     \/ /\ e = "TAKE_PICTURE" /\ c.state # "PREPARE_SNAPSHOT" /\ c.retro
        /\ d.prep => c.prep

Effect(e) ==
  \/ \E o : Answer(e, o) /\ AnswerEffect(e, cam, o)
  \/ \E d : Silent(d) /\ SilentEffect(e, cam, d)

\* Outside recordings calm operations may change to any other such state.
LEMMA StreamsShift ==
  ASSUME NEW c, NEW d, Streams(c), c.state \notin RecordStates,
         Keeps(c, d), d.state \notin RecordStates
  PROVE  Streams(d)
  BY DEF Streams, Keeps, RecordStates

\* While the state stays, so does what the streams must be.
LEMMA StreamsStay ==
  ASSUME NEW c, NEW d, Streams(c), Keeps(c, d), d.state = c.state, d.on = c.on
  PROVE  Streams(d)
  BY DEF Streams, Keeps

\* An answer outside recordings.
LEMMA ShiftEffect ==
  ASSUME NEW e, NEW c, NEW o \in Outcome, Streams(c), Keeps(c, o.c),
         c.state \notin RecordStates \cup {"PREPARE_SNAPSHOT"}, o.c.state \notin RecordStates,
         e \in Between => o.c.ch = c.ch /\ o.c.restart = c.restart,
         e = "SET_PARAMS_STOP" => o.c.ch = {},
         Quiet(c) /\ (e = "SET_PARAMS_RESTART" => c.ch = {}) => Quiet(o.c)
  PROVE  AnswerEffect(e, c, o)
<1>1. Streams(o.c)
  BY StreamsShift
<1> QED
  BY <1>1 DEF AnswerEffect, CamEffect, Keeps

\* An answer of a command that touches neither channels nor state.
LEMMA StillEffect ==
  ASSUME NEW e, NEW c, NEW o, Streams(c), Calm(c, o), o.c.ch = c.ch, o.c.on = c.on,
         e \in Between => o.c.restart = c.restart,
         e # "SET_PARAMS_STOP", c.state # "PREPARE_SNAPSHOT"
  PROVE  AnswerEffect(e, c, o)
<1>1. Keeps(c, o.c) /\ o.c.state = c.state /\ o \in Outcome
  BY DEF Calm
<1>2. Streams(o.c)
  BY <1>1, StreamsStay
<1>3. Quiet(c) => Quiet(o.c)
  BY <1>1 DEF Quiet
<1> QED
  BY <1>1, <1>2, <1>3 DEF AnswerEffect, CamEffect, Keeps

\* An answer that changes nothing.
LEMMA SameEffect ==
  ASSUME NEW e, NEW c \in Cam, Streams(c), NEW b \in BOOLEAN,
         e = "SET_PARAMS_STOP" /\ b => c.state \in {"PREVIEW_STOPPED", "PIC_TAKING"}
  PROVE  AnswerEffect(e, c, Out(c, b))
<1>1. Out(c, b) \in Outcome /\ Out(c, b).c = c /\ Out(c, b).ok = b
  BY DEF Out, Outcome
<1> HIDE DEF Out
<1>2. CamEffect(e, c, c)
  BY DEF CamEffect
<1>3. e = "SET_PARAMS_STOP" /\ b /\ Quiet(c) => c.ch = {}
  BY DEF Quiet
<1> QED
  BY <1>1, <1>2, <1>3 DEF AnswerEffect

\* No answer, and no change.
LEMMA SilentSame ==
  ASSUME NEW e \in {"RELEASE_FRAME", "REG_FACE_IMAGE", "STOP_CAPTURE_CHANNEL"}, NEW c \in Cam,
         Streams(c)
  PROVE  SilentEffect(e, c, c)
  BY DEF SilentEffect, CamEffect

\* Going to a state.
LEMMA ToKeeps ==
  ASSUME NEW c, NEW d, Keeps(c, d), NEW s \in States
  PROVE  /\ Keeps(c, To(d, s)) /\ To(d, s).state = s /\ To(d, s).ch = d.ch
         /\ To(d, s).on = d.on /\ To(d, s).restart = d.restart
<1>1. d \in Cam
  BY DEF Keeps
<1>2. Fields(To(d, s), s, d.ch, d.on, d.snap, d.live, d.retro, d.prep, d.ready, d.restart)
  BY <1>1, ToFields DEF To
<1> QED
  BY <1>2 DEF Fields, Keeps, Sound

\* An outcome that goes to a state.
LEMMA MovedParts ==
  ASSUME NEW o \in Outcome, NEW s \in States
  PROVE  /\ [o EXCEPT !.c.state = s] \in Outcome /\ [o EXCEPT !.c.state = s].c = To(o.c, s)
         /\ [o EXCEPT !.c.state = s].ok = o.ok /\ [o EXCEPT !.c.state = s].ev = o.ev
<1>1. o.c \in Cam
  BY DEF Outcome
<1>2. To(o.c, s) \in Cam
  BY <1>1, ToFields DEF Fields, To
<1> DEFINE p == [o EXCEPT !.c.state = s]
<1>3. p = [o EXCEPT !.c = To(o.c, s)]
  BY Zenon DEF To
<1> HIDE DEF p
<1>4. Parts(p, To(o.c, s), o.ok, o.ev)
  BY <1>2, <1>3, OutcomeUpdate
<1>5. p \in Outcome /\ p.c = To(o.c, s) /\ p.ok = o.ok /\ p.ev = o.ev
  BY <1>4 DEF Parts
<1> QED
  BY <1>5 DEF p

\* An outcome after which no restart is needed.
LEMMA SettledParts ==
  ASSUME NEW o \in Outcome
  PROVE  LET p == [o EXCEPT !.c.restart = FALSE]
         IN  /\ p \in Outcome /\ p.ok = o.ok /\ p.ev = o.ev
             /\ Fields(p.c, o.c.state, o.c.ch, o.c.on, o.c.snap, o.c.live, o.c.retro, o.c.prep,
                       o.c.ready, FALSE)
<1> DEFINE d == [o.c EXCEPT !.restart = FALSE]
           p == [o EXCEPT !.c.restart = FALSE]
<1>1. o.c \in Cam
  BY DEF Outcome
<1>2. Fields(d, o.c.state, o.c.ch, o.c.on, o.c.snap, o.c.live, o.c.retro, o.c.prep, o.c.ready,
             FALSE)
  BY <1>1, RestartFields
<1>3. p = [o EXCEPT !.c = d]
  BY Zenon
<1> HIDE DEF d, p
<1>4. d \in Cam
  BY <1>2 DEF Fields
<1>5. Parts(p, d, o.ok, o.ev)
  BY <1>3, <1>4, OutcomeUpdate DEF Outcome
<1>6. /\ p \in Outcome /\ p.ok = o.ok /\ p.ev = o.ev
      /\ Fields(p.c, o.c.state, o.c.ch, o.c.on, o.c.snap, o.c.live, o.c.retro, o.c.prep,
                o.c.ready, FALSE)
  BY <1>2, <1>5 DEF Parts
<1> QED
  BY <1>6 DEF p

\* Accepting or refusing a command.
LEMMA AcceptEffect ==
  ASSUME NEW e, cam \in Cam, Streams(cam), Accept(e) \/ Refuse(e),
         e = "SET_PARAMS_STOP" /\ Accept(e) => cam.state \in {"PREVIEW_STOPPED", "PIC_TAKING"}
  PROVE  Effect(e)
<1>1. CASE Accept(e)
  <2>1. AnswerEffect(e, cam, Out(cam, TRUE))
    BY <1>1, SameEffect
  <2> QED
    BY <1>1, <2>1 DEF Effect, Accept
<1>2. CASE Refuse(e)
  <2>1. AnswerEffect(e, cam, Out(cam, FALSE))
    BY SameEffect
  <2> QED
    BY <1>2, <2>1 DEF Effect, Refuse
<1> QED
  BY <1>1, <1>2

\* One of several outcomes.
LEMMA OneEffect ==
  ASSUME NEW e, NEW O, AnswerOne(e, O), \A o \in O : AnswerEffect(e, cam, o)
  PROVE  Effect(e)
  BY DEF AnswerOne, Effect

\* SET_PARAMS and SET_PARAMS_COMMIT.
LEMMA ParamsEffect ==
  ASSUME NEW e, cam \in Cam, Streams(cam), cam.state # "PREPARE_SNAPSHOT", Params(e)
  PROVE  Effect(e)
<1>0. Sound(cam)
  BY DEF Streams
<1>1. CASE e = "SET_PARAMS" /\ AnswerOne(e, updateParameters(cam))
  <2>1. \A o \in updateParameters(cam) : AnswerEffect(e, cam, o)
    BY <1>0, <1>1, UpdateParametersCalm, StillEffect DEF Between
  <2> QED
    BY <1>1, <2>1, OneEffect
<1>2. CASE e = "SET_PARAMS_COMMIT" /\ AnswerOne(e, commitParameterChanges(cam))
  <2>1. \A o \in commitParameterChanges(cam) : AnswerEffect(e, cam, o)
    BY <1>0, <1>2, CommitCalm, StillEffect
  <2> QED
    BY <1>2, <2>1, OneEffect
<1> QED
  BY <1>1, <1>2 DEF Params

\* Parameters while recording.
LEMMA ParamsRecordingEffect ==
  ASSUME NEW e, cam \in Cam, Streams(cam), cam.state \in RecordStates, ParamsRecording(e)
  PROVE  Effect(e)
<1>0. Sound(cam) /\ cam.state # "PREPARE_SNAPSHOT"
  BY DEF Streams, RecordStates
<1>1. CASE /\ e = "SET_PARAMS"
           /\ AnswerOne(e, {[o EXCEPT !.ok = @ /\ ~o.c.restart, !.c.restart = FALSE] :
                            o \in updateParameters(cam)})
  <2> DEFINE P(o) == [o EXCEPT !.ok = @ /\ ~o.c.restart, !.c.restart = FALSE]
  <2>1. ASSUME NEW o \in updateParameters(cam)
        PROVE  AnswerEffect(e, cam, P(o))
    <3>1. Calm(cam, o) /\ o.c.ch = cam.ch /\ o.c.on = cam.on
      BY <1>0, UpdateParametersCalm
    <3>2. o \in Outcome /\ Keeps(cam, o.c) /\ o.c.state = cam.state /\ o.c \in Cam
      BY <3>1 DEF Calm, Outcome
    <3> DEFINE d == [o.c EXCEPT !.restart = FALSE]
               b == o.ok /\ ~o.c.restart
               q == [o EXCEPT !.ok = b]
               p == P(o)
    <3>3. p = [q EXCEPT !.c = d]
      BY <3>2 DEF Outcome
    <3>4. Fields(d, o.c.state, o.c.ch, o.c.on, o.c.snap, o.c.live, o.c.retro, o.c.prep,
                 o.c.ready, FALSE)
      BY <3>2, RestartFields
    <3>5. b \in BOOLEAN
      OBVIOUS
    <3> HIDE DEF d, b, p, q
    <3>6. Keeps(cam, d) /\ d.state = cam.state /\ d.ch = cam.ch /\ d.on = cam.on /\ d \in Cam
      BY <3>1, <3>2, <3>4 DEF Fields, Keeps, Sound
    <3>7. Parts(q, o.c, b, o.ev)
      BY <3>2, <3>5, <3>6, OutcomeUpdate DEF q
    <3>a. q \in Outcome /\ q.ok = b /\ q.ev = o.ev
      BY <3>7 DEF Parts
    <3>b. Parts(p, d, q.ok, q.ev)
      BY <3>3, <3>5, <3>6, <3>a, OutcomeUpdate
    <3>8. Parts(p, d, b, o.ev)
      BY <3>a, <3>b
    <3>9. AnswerEffect(e, cam, p)
      BY <1>0, <1>1, <3>6, <3>8, StillEffect DEF Calm, Parts, Between
    <3> QED
      BY <3>9 DEF p
  <2> DEFINE O == {P(o) : o \in updateParameters(cam)}
  <2>2. \A o \in O : AnswerEffect(e, cam, o)
    BY <2>1
  <2>3. AnswerOne(e, O)
    BY <1>1, Zenon
  <2> QED
    BY <2>2, <2>3, OneEffect
<1>2. CASE e = "SET_PARAMS_COMMIT" /\ AnswerOne(e, commitParameterChanges(cam))
  <2>1. \A o \in commitParameterChanges(cam) : AnswerEffect(e, cam, o)
    BY <1>0, <1>2, CommitCalm, StillEffect
  <2> QED
    BY <1>2, <2>1, OneEffect
<1>3. CASE e \in {"SET_PARAMS_STOP", "SET_PARAMS_RESTART"} /\ Refuse(e)
  <2>1. AnswerEffect(e, cam, Out(cam, FALSE))
    BY SameEffect
  <2> QED
    BY <1>3, <2>1 DEF Effect, Refuse
<1> QED
  BY <1>1, <1>2, <1>3 DEF ParamsRecording

\* sendCommand without a change of state.
LEMMA LongshotEffect ==
  ASSUME NEW e, cam \in Cam, Streams(cam), cam.state # "PREPARE_SNAPSHOT",
         \/ e = "LONGSHOT_ON" /\ Answer(e, LongshotOn(cam))
         \/ e = "LONGSHOT_OFF" /\ Answer(e, LongshotOff(cam))
  PROVE  Effect(e)
<1>0. Sound(cam)
  BY DEF Streams
<1>1. CASE e = "LONGSHOT_ON" /\ Answer(e, LongshotOn(cam))
  <2>1. AnswerEffect(e, cam, LongshotOn(cam))
    BY <1>0, <1>1, LongshotOnCalm, StillEffect DEF Between
  <2> QED
    BY <1>1, <2>1 DEF Effect
<1>2. CASE e = "LONGSHOT_OFF" /\ Answer(e, LongshotOff(cam))
  <2>1. AnswerEffect(e, cam, LongshotOff(cam))
    BY <1>0, <1>2, LongshotOffCalm, StillEffect DEF Between
  <2> QED
    BY <1>2, <2>1 DEF Effect
<1> QED
  BY <1>1, <1>2

\* sendCommand in a picture state.
LEMMA SendCommandPictureEffect ==
  ASSUME NEW e, cam \in Cam, Streams(cam), cam.state \in {"PIC_TAKING", "PREVIEW_PIC_TAKING"},
         SendCommandPicture(e)
  PROVE  Effect(e)
<1>0. Sound(cam) /\ cam.state \notin RecordStates \cup {"PREPARE_SNAPSHOT"}
  BY DEF Streams, RecordStates
<1>1. CASE e = "LONGSHOT_ON" /\ Answer(e, LongshotOn(cam))
  BY <1>0, <1>1, LongshotEffect
<1>2. CASE e = "LONGSHOT_OFF" /\ AnswerOne(e, Moved({LongshotOff(cam)}, "PREVIEWING", "PREVIEWING"))
  <2> DEFINE o == LongshotOff(cam)
             p == [o EXCEPT !.c.state = "PREVIEWING"]
  <2>1. o \in Outcome /\ Keeps(cam, o.c)
    BY <1>0, LongshotOffCalm DEF Calm
  <2>2. Answer(e, p)
    BY <1>2 DEF AnswerOne, Moved
  <2>3. p \in Outcome /\ p.c = To(o.c, "PREVIEWING")
    BY <2>1, MovedParts DEF States
  <2> HIDE DEF o, p
  <2>4. Keeps(cam, p.c) /\ p.c.state = "PREVIEWING"
    BY <2>1, <2>3, ToKeeps DEF States
  <2>5. AnswerEffect(e, cam, p)
    BY <1>0, <1>2, <2>3, <2>4, ShiftEffect DEF Quiet, Between, RecordStates
  <2> QED
    BY <2>2, <2>5 DEF Effect
<1> QED
  BY <1>1, <1>2 DEF SendCommandPicture

\* A calm outcome that goes to a state.
LEMMA MovedCalm ==
  ASSUME NEW c, NEW o, Calm(c, o), NEW s \in States, NEW p, p = [o EXCEPT !.c.state = s]
  PROVE  /\ p \in Outcome /\ Keeps(c, p.c) /\ p.c.state = s
         /\ p.c.ch = o.c.ch /\ p.c.on = o.c.on /\ p.ok = o.ok /\ p.ev = o.ev
<1>1. o \in Outcome /\ Keeps(c, o.c)
  BY DEF Calm
<1>2. p \in Outcome /\ p.c = To(o.c, s) /\ p.ok = o.ok /\ p.ev = o.ev
  BY <1>1, MovedParts
<1> QED
  BY <1>1, <1>2, ToKeeps

\* A calm outcome after which no restart is needed.
LEMMA SettledCalm ==
  ASSUME NEW c, NEW o \in Outcome, Keeps(c, o.c), NEW p, p = [o EXCEPT !.c.restart = FALSE]
  PROVE  /\ p \in Outcome /\ Keeps(c, p.c) /\ p.c.state = o.c.state
         /\ p.c.ch = o.c.ch /\ p.c.on = o.c.on /\ p.ok = o.ok
<1>1. /\ p \in Outcome /\ p.ok = o.ok
      /\ Fields(p.c, o.c.state, o.c.ch, o.c.on, o.c.snap, o.c.live, o.c.retro, o.c.prep,
                o.c.ready, FALSE)
  BY SettledParts
<1>2. Keeps(c, o.c)
  OBVIOUS
<1> QED
  BY <1>1, <1>2 DEF Fields, Keeps, Sound

\* The preview window.
LEMMA WinKeeps ==
  ASSUME NEW c \in Cam, Sound(c), NEW b \in BOOLEAN
  PROVE  /\ Keeps(c, [c EXCEPT !.win = b]) /\ [c EXCEPT !.win = b].state = c.state
         /\ [c EXCEPT !.win = b].ch = c.ch /\ [c EXCEPT !.win = b].on = c.on
<1> DEFINE d == [c EXCEPT !.win = b]
<1>1. Fields(d, c.state, c.ch, c.on, c.snap, c.live, c.retro, c.prep, c.ready, c.restart)
  BY OtherFields
<1> HIDE DEF d
<1>2. Keeps(c, d) /\ d.state = c.state /\ d.ch = c.ch /\ d.on = c.on
  BY <1>1 DEF Fields, Keeps, Sound
<1> QED
  BY <1>2 DEF d

\* An answer with the window set or cleared.
LEMMA WinEffect ==
  ASSUME NEW e \in {"SET_WINDOW", "CLEAR_WINDOW"}, cam \in Cam, Streams(cam),
         cam.state # "PREPARE_SNAPSHOT", NEW b \in BOOLEAN,
         Answer(e, Out([cam EXCEPT !.win = b], TRUE))
  PROVE  Effect(e)
<1> DEFINE d == [cam EXCEPT !.win = b]
<1>1. Keeps(cam, d) /\ d.state = cam.state /\ d.ch = cam.ch /\ d.on = cam.on
  BY WinKeeps DEF Streams
<1>2. Answer(e, Out(d, TRUE))
  OBVIOUS
<1> HIDE DEF d
<1>3. Calm(cam, Out(d, TRUE)) /\ Out(d, TRUE).c = d
  BY <1>1, OutCalm
<1>4. AnswerEffect(e, cam, Out(d, TRUE))
  BY <1>1, <1>3, StillEffect DEF Between
<1> QED
  BY <1>2, <1>4 DEF Effect

\* SET_PARAMS_RESTART without a preview.
LEMMA SettledEffect ==
  ASSUME NEW e, cam \in Cam, Streams(cam), e = "SET_PARAMS_RESTART",
         cam.state \notin RecordStates \cup {"PREPARE_SNAPSHOT"},
         AnswerOne(e, Settled({Out(cam, TRUE)}))
  PROVE  Effect(e)
<1>1. Keeps(cam, cam)
  BY KeepsSelf DEF Streams
<1> DEFINE o == Out(cam, TRUE)
<1>2. Calm(cam, o) /\ o.c = cam
  BY <1>1, OutCalm
<1>3. PICK p : p = [o EXCEPT !.c.restart = FALSE] /\ Answer(e, p)
  BY DEF Settled, AnswerOne
<1> HIDE DEF o
<1>4. o \in Outcome /\ Keeps(cam, o.c) /\ o.c = cam
  BY <1>2 DEF Calm
<1>a. /\ p \in Outcome /\ Keeps(cam, p.c) /\ p.c.state = o.c.state /\ p.c.ch = o.c.ch
      /\ p.c.on = o.c.on
  BY <1>3, <1>4, SettledCalm, Zenon
<1>5. /\ p \in Outcome /\ Keeps(cam, p.c) /\ p.c.state = cam.state /\ p.c.ch = cam.ch
      /\ p.c.on = cam.on
  BY <1>4, <1>a
<1>6. Quiet(cam) => Quiet(p.c)
  BY <1>5 DEF Quiet
<1>7. AnswerEffect(e, cam, p)
  BY <1>5, <1>6, ShiftEffect DEF Between
<1> QED
  BY <1>3, <1>7 DEF Effect

\* PREVIEW_STOPPED.
LEMMA PreviewStoppedEffect ==
  ASSUME NEW e \in Api, cam \in Cam, Streams(cam), cam.state = "PREVIEW_STOPPED", PreviewStopped(e)
  PROVE  Effect(e)
<1>0. Sound(cam) /\ cam.state \notin RecordStates \cup {"PREPARE_SNAPSHOT"}
  BY DEF Streams, RecordStates
<1>1. CASE Accept(e) \/ Refuse(e)
  BY <1>1, AcceptEffect
<1>2. CASE /\ e \in {"SET_WINDOW", "CLEAR_WINDOW"}
           /\ Answer(e, Out([cam EXCEPT !.win = (e = "SET_WINDOW")], TRUE))
  <2>1. CASE e = "SET_WINDOW"
    BY <1>0, <1>2, <2>1, WinEffect
  <2>2. CASE e = "CLEAR_WINDOW"
    BY <1>0, <1>2, <2>2, WinEffect
  <2> QED
    BY <1>2, <2>1, <2>2
<1>3. CASE Params(e)
  BY <1>0, <1>3, ParamsEffect
<1>4. CASE SendCommand(e)
  BY <1>0, <1>4, LongshotEffect DEF SendCommand
<1>5. CASE e = "SET_PARAMS_RESTART" /\ AnswerOne(e, Settled({Out(cam, TRUE)}))
  BY <1>0, <1>5, SettledEffect
<1>6. CASE /\ e \in {"PREPARE_PREVIEW", "START_PREVIEW"}
           /\ AnswerOne(e, Moved(preparePreview(cam), "PREVIEW_READY", cam.state))
  <2>1. \A o \in preparePreview(cam) : Calm(cam, o)
    BY <1>0, PrepareCalm
  <2>2. ASSUME NEW p \in Moved(preparePreview(cam), "PREVIEW_READY", cam.state)
        PROVE  AnswerEffect(e, cam, p)
    <3>0. "PREVIEW_READY" \in States /\ cam.state \in States
      BY CamFields DEF States
    <3>a. PICK o \in preparePreview(cam) :
            p = [o EXCEPT !.c.state = IF o.ok THEN "PREVIEW_READY" ELSE cam.state]
      BY DEF Moved
    <3>1. /\ p \in Outcome /\ Keeps(cam, p.c)
          /\ p.c.state = IF o.ok THEN "PREVIEW_READY" ELSE cam.state
          /\ p.c.ch = o.c.ch /\ p.c.on = o.c.on
      BY <2>1, <3>0, <3>a, MovedCalm
    <3>2. /\ cam.ch = {} /\ ~o.ok => o.c.ch = {}
          /\ cam.on = {} => o.c.on = {}
      BY <1>0, PrepareCalm
    <3>3. Quiet(cam) => Quiet(p.c)
      BY <1>0, <3>1, <3>2 DEF Quiet, Sound
    <3>4. p.c.state \notin RecordStates
      BY <1>0, <3>1 DEF RecordStates
    <3> QED
      BY <1>0, <1>6, <3>1, <3>3, <3>4, ShiftEffect DEF Between
  <2> QED
    BY <1>6, <2>2, OneEffect
<1>7. CASE e = "START_PREVIEW" /\ AnswerOne(e, Moved(RestartPreview(cam), "PREVIEWING", cam.state))
  <2>1. \A o \in RestartPreview(cam) : Calm(cam, o)
    BY <1>0, RestartCalm
  <2>2. ASSUME NEW p \in Moved(RestartPreview(cam), "PREVIEWING", cam.state)
        PROVE  AnswerEffect(e, cam, p)
    <3>0. "PREVIEWING" \in States /\ cam.state \in States
      BY CamFields DEF States
    <3>a. PICK o \in RestartPreview(cam) :
            p = [o EXCEPT !.c.state = IF o.ok THEN "PREVIEWING" ELSE cam.state]
      BY DEF Moved
    <3>1. /\ p \in Outcome /\ Keeps(cam, p.c)
          /\ p.c.state = IF o.ok THEN "PREVIEWING" ELSE cam.state
          /\ p.c.ch = o.c.ch /\ p.c.on = o.c.on
      BY <2>1, <3>0, <3>a, MovedCalm
    <3>2. cam.ch = {} /\ ~o.ok => o.c.ch = {}
      BY <1>0, RestartCalm
    <3>3. Quiet(cam) => Quiet(p.c)
      BY <1>0, <3>1, <3>2 DEF Quiet, Sound
    <3>4. p.c.state \notin RecordStates
      BY <1>0, <3>1 DEF RecordStates
    <3> QED
      BY <1>0, <1>7, <3>1, <3>3, <3>4, ShiftEffect DEF Between
  <2> QED
    BY <1>7, <2>2, OneEffect
<1>8. CASE e = "RELEASE" /\ Answer(e, Out([unpreparePreview(cam) EXCEPT !.snap = {}], TRUE))
  <2> DEFINE f == unpreparePreview(cam)
             d == [f EXCEPT !.snap = {}]
  <2>1. Keeps(cam, f) /\ f.state = cam.state /\ f.ch = {} /\ f.on = {}
    BY <1>0, UnprepareKeeps
  <2>2. Answer(e, Out(d, TRUE))
    BY <1>8
  <2> HIDE DEF f
  <2>3. Fields(d, f.state, f.ch, f.on, {}, f.live, f.retro, f.prep, f.ready, f.restart)
    BY <2>1, SnapFields DEF Keeps
  <2> HIDE DEF d
  <2>4. Keeps(cam, d) /\ d.state = cam.state /\ d.ch = {} /\ d.on = {}
    BY <2>1, <2>3 DEF Fields, Keeps, Sound
  <2>5. Calm(cam, Out(d, TRUE)) /\ Out(d, TRUE).c = d
    BY <2>4, OutCalm
  <2>6. AnswerEffect(e, cam, Out(d, TRUE))
    BY <1>0, <1>8, <2>4, <2>5, ShiftEffect DEF Quiet, Between, Calm
  <2> QED
    BY <2>2, <2>6 DEF Effect
<1>9. CASE e = "RELEASE_FRAME" /\ Silent(cam)
  BY <1>9, SilentSame DEF Effect
<1> QED
  BY <1>1, <1>2, <1>3, <1>4, <1>5, <1>6, <1>7, <1>8, <1>9 DEF PreviewStopped

\* An answer with a change to PREVIEWING or PREVIEW_STOPPED.
LEMMA ToOutcomeEffect ==
  ASSUME NEW e, cam \in Cam, Streams(cam), cam.state \notin RecordStates \cup {"PREPARE_SNAPSHOT"},
         NEW d, Keeps(cam, d), NEW s \in {"PREVIEWING", "PREVIEW_STOPPED"},
         e \in Between => d.ch = cam.ch /\ d.restart = cam.restart, e # "SET_PARAMS_STOP",
         Quiet(cam) /\ s = "PREVIEW_STOPPED" => d.ch = {},
         NEW o \in Outcome, o.c = To(d, s), Answer(e, o)
  PROVE  Effect(e)
<1> DEFINE f == To(d, s)
<1>1. Keeps(cam, f) /\ f.state = s /\ f.ch = d.ch /\ f.restart = d.restart
  BY ToKeeps DEF States
<1>2. o.c = f
  OBVIOUS
<1> HIDE DEF f
<1>4. Quiet(cam) => Quiet(f)
  BY <1>1 DEF Quiet
<1>5. f.state \notin RecordStates
  BY <1>1 DEF RecordStates
<1>6. AnswerEffect(e, cam, o)
  BY <1>1, <1>2, <1>4, <1>5, ShiftEffect
<1> QED
  BY <1>6 DEF Effect

\* A successful one.
LEMMA ToEffect ==
  ASSUME NEW e, cam \in Cam, Streams(cam), cam.state \notin RecordStates \cup {"PREPARE_SNAPSHOT"},
         NEW d, Keeps(cam, d), NEW s \in {"PREVIEWING", "PREVIEW_STOPPED"},
         e \in Between => d.ch = cam.ch /\ d.restart = cam.restart, e # "SET_PARAMS_STOP",
         Quiet(cam) /\ s = "PREVIEW_STOPPED" => d.ch = {},
         Answer(e, Out(To(d, s), TRUE))
  PROVE  Effect(e)
<1> DEFINE f == To(d, s)
           o == Out(f, TRUE)
<1>1. Keeps(cam, f)
  BY ToKeeps DEF States
<1>2. Answer(e, o)
  OBVIOUS
<1> HIDE DEF f
<1>3. o \in Outcome /\ o.c = f
  BY <1>1 DEF Keeps, Outcome, Out
<1> HIDE DEF o
<1> QED
  BY <1>2, <1>3, ToOutcomeEffect DEF f

\* SET_PARAMS_STOP deletes the channels.
LEMMA StopEffect ==
  ASSUME NEW e, e = "SET_PARAMS_STOP", cam \in Cam, Streams(cam),
         cam.state \notin RecordStates \cup {"PREPARE_SNAPSHOT"},
         Answer(e, Out(unpreparePreview(cam), TRUE))
  PROVE  Effect(e)
<1> DEFINE d == unpreparePreview(cam)
<1>1. Keeps(cam, d) /\ d.state = cam.state /\ d.ch = {} /\ d.on = {}
  BY UnprepareKeeps DEF Streams
<1>2. Calm(cam, Out(d, TRUE)) /\ Out(d, TRUE).c = d
  BY <1>1, OutCalm
<1> HIDE DEF d
<1>3. Out(d, TRUE) \in Outcome
  BY <1>2 DEF Calm
<1>4. Quiet(d)
  BY <1>1 DEF Quiet
<1>5. AnswerEffect(e, cam, Out(d, TRUE))
  BY <1>1, <1>2, <1>3, <1>4, ShiftEffect DEF Between
<1> QED
  BY <1>5 DEF Effect, d

\* PREVIEW_READY.
LEMMA PreviewReadyEffect ==
  ASSUME NEW e \in Api, cam \in Cam, Streams(cam), cam.state = "PREVIEW_READY", PreviewReady(e)
  PROVE  Effect(e)
<1>0. Sound(cam) /\ cam.state \notin RecordStates \cup {"PREPARE_SNAPSHOT"}
  BY DEF Streams, RecordStates
<1>1. CASE e # "SET_PARAMS_STOP" /\ (Accept(e) \/ Refuse(e))
  BY <1>1, AcceptEffect
<1>a. ASSUME NEW o \in Outcome, Keeps(cam, o.c), o.c.state \in {"PREVIEWING", "PREVIEW_STOPPED"},
             o.c.state = "PREVIEW_STOPPED" => o.c.ch = {},
             e \notin Between \cup {"SET_PARAMS_STOP"}
      PROVE  AnswerEffect(e, cam, o)
  <2>1. Quiet(o.c) /\ o.c.state \notin RecordStates
    BY <1>a DEF Quiet, RecordStates
  <2> QED
    BY <1>0, <1>a, <2>1, ShiftEffect
<1>b. "PREVIEWING" \in States /\ "PREVIEW_STOPPED" \in States /\ "PREVIEW_READY" \in States
  BY DEF States
<1>2. CASE /\ e = "SET_WINDOW"
           /\ AnswerOne(e, Moved(StartOrUnprepare([cam EXCEPT !.win = TRUE]), "PREVIEWING",
                                 "PREVIEW_STOPPED"))
  <2> DEFINE w == [cam EXCEPT !.win = TRUE]
  <2>1. Keeps(cam, w) /\ w.state = cam.state
    BY <1>0, WinKeeps
  <2>2. PICK p \in Moved(StartOrUnprepare(w), "PREVIEWING", "PREVIEW_STOPPED") : Answer(e, p)
    BY <1>2 DEF AnswerOne
  <2> HIDE DEF w
  <2>3. PICK o \in StartOrUnprepare(w) :
          p = [o EXCEPT !.c.state = IF o.ok THEN "PREVIEWING" ELSE "PREVIEW_STOPPED"]
    BY DEF Moved
  <2>4. Calm(cam, o) /\ (~o.ok => o.c.ch = {})
    BY <2>1, StartOrUnprepareCalm, CalmFrom DEF Keeps
  <2>5. /\ p \in Outcome /\ Keeps(cam, p.c)
        /\ p.c.state = IF o.ok THEN "PREVIEWING" ELSE "PREVIEW_STOPPED"
        /\ p.c.ch = o.c.ch
    BY <1>b, <2>3, <2>4, MovedCalm
  <2>6. AnswerEffect(e, cam, p)
    BY <1>2, <1>a, <2>4, <2>5 DEF Between
  <2> QED
    BY <2>2, <2>6 DEF Effect
<1>3. CASE e = "CLEAR_WINDOW" /\ Answer(e, Out([cam EXCEPT !.win = FALSE], TRUE))
  BY <1>0, <1>3, WinEffect
<1>4. CASE Params(e)
  BY <1>0, <1>4, ParamsEffect
<1>5. CASE SendCommand(e)
  BY <1>0, <1>5, LongshotEffect DEF SendCommand
<1>6. CASE e = "SET_PARAMS_STOP" /\ Answer(e, Out(unpreparePreview(cam), TRUE))
  BY <1>0, <1>6, StopEffect
<1>7. CASE /\ e = "SET_PARAMS_RESTART"
           /\ AnswerOne(e, Settled(Moved(preparePreview(cam), cam.state, "PREVIEW_STOPPED")))
  <2>1. PICK q \in Settled(Moved(preparePreview(cam), cam.state, "PREVIEW_STOPPED")) : Answer(e, q)
    BY <1>7 DEF AnswerOne
  <2>2. PICK p \in Moved(preparePreview(cam), cam.state, "PREVIEW_STOPPED") :
          q = [p EXCEPT !.c.restart = FALSE]
    BY DEF Settled
  <2>3. PICK o \in preparePreview(cam) :
          p = [o EXCEPT !.c.state = IF o.ok THEN cam.state ELSE "PREVIEW_STOPPED"]
    BY DEF Moved
  <2>4. /\ Calm(cam, o) /\ (cam.ch = {} /\ ~o.ok => o.c.ch = {})
        /\ (cam.on = {} => o.c.on = {})
    BY <1>0, PrepareCalm
  <2>5. /\ p \in Outcome /\ Keeps(cam, p.c)
        /\ p.c.state = IF o.ok THEN "PREVIEW_READY" ELSE "PREVIEW_STOPPED"
        /\ p.c.ch = o.c.ch /\ p.c.on = o.c.on
    BY <1>b, <2>3, <2>4, MovedCalm
  <2>6. /\ q \in Outcome /\ Keeps(cam, q.c) /\ q.c.state = p.c.state
        /\ q.c.ch = p.c.ch /\ q.c.on = p.c.on
    BY <2>2, <2>5, SettledCalm, Zenon
  <2>7. cam.ch = {} => Quiet(q.c)
    BY <1>0, <2>4, <2>5, <2>6 DEF Quiet, Sound
  <2>8. q.c.state \notin RecordStates
    BY <2>5, <2>6 DEF RecordStates
  <2>9. AnswerEffect(e, cam, q)
    BY <1>0, <1>7, <2>6, <2>7, <2>8, ShiftEffect DEF Between
  <2> QED
    BY <2>1, <2>9 DEF Effect
<1>8. CASE /\ e = "START_PREVIEW"
           /\ AnswerOne(e, {[o EXCEPT !.ok = TRUE] :
                            o \in Moved(StartOrUnprepare(cam), "PREVIEWING", "PREVIEW_STOPPED")})
  <2>1. PICK p \in Moved(StartOrUnprepare(cam), "PREVIEWING", "PREVIEW_STOPPED") :
          Answer(e, [p EXCEPT !.ok = TRUE])
    BY <1>8 DEF AnswerOne
  <2>2. PICK o \in StartOrUnprepare(cam) :
          p = [o EXCEPT !.c.state = IF o.ok THEN "PREVIEWING" ELSE "PREVIEW_STOPPED"]
    BY DEF Moved
  <2>3. Calm(cam, o) /\ (~o.ok => o.c.ch = {})
    BY <1>0, StartOrUnprepareCalm
  <2>4. /\ p \in Outcome /\ Keeps(cam, p.c)
        /\ p.c.state = IF o.ok THEN "PREVIEWING" ELSE "PREVIEW_STOPPED"
        /\ p.c.ch = o.c.ch
    BY <1>b, <2>2, <2>3, MovedCalm
  <2> DEFINE q == [p EXCEPT !.ok = TRUE]
  <2>5. q \in Outcome /\ q.c = p.c
    BY <2>4 DEF Outcome
  <2> HIDE DEF q
  <2>6. AnswerEffect(e, cam, q)
    BY <1>8, <1>a, <2>3, <2>4, <2>5 DEF Between
  <2> QED
    BY <2>1, <2>6 DEF Effect, q
<1>9. CASE /\ e = "STOP_PREVIEW"
           /\ Answer(e, Out(To(unpreparePreview(cam), "PREVIEW_STOPPED"), TRUE))
  BY <1>0, <1>9, UnprepareKeeps, ToEffect DEF Between
<1>10. CASE e = "RELEASE_FRAME" /\ Silent(cam)
  BY <1>10, SilentSame DEF Effect
<1> QED
  BY <1>1, <1>2, <1>3, <1>4, <1>5, <1>6, <1>7, <1>8, <1>9, <1>10 DEF PreviewReady

\* PREPARE_SNAPSHOT.
LEMMA PrepareSnapshotEffect ==
  ASSUME NEW e \in Api, cam \in Cam, Streams(cam), PrepareSnapshot(e)
  PROVE  Effect(e)
<1>1. CASE Refuse(e)
  <2>1. AnswerEffect(e, cam, Out(cam, FALSE))
    BY SameEffect
  <2> QED
    BY <1>1, <2>1 DEF Effect, Refuse
<1>2. CASE e = "REG_FACE_IMAGE" /\ Silent(cam)
  BY <1>2, SilentSame DEF Effect
<1> QED
  BY <1>1, <1>2 DEF PrepareSnapshot

\* TAKE_PICTURE while longshot is on.
LEMMA LongShotEffect ==
  ASSUME NEW e, e = "TAKE_PICTURE", cam \in Cam, Streams(cam), cam.state # "PREPARE_SNAPSHOT",
         AnswerOne(e, longShot(cam))
  PROVE  Effect(e)
<1>0. Sound(cam)
  BY DEF Streams
<1>1. \A o \in longShot(cam) : AnswerEffect(e, cam, o)
  BY <1>0, LongShotCalm, StillEffect DEF Between
<1> QED
  BY <1>1, OneEffect

\* PIC_TAKING.
LEMMA PicTakingEffect ==
  ASSUME NEW e \in Api, cam \in Cam, Streams(cam), cam.state = "PIC_TAKING", PicTaking(e)
  PROVE  Effect(e)
<1>0. Sound(cam) /\ cam.state \notin RecordStates \cup {"PREPARE_SNAPSHOT"}
  BY DEF Streams, RecordStates
<1>1. CASE Accept(e) \/ Refuse(e)
  BY <1>1, AcceptEffect
<1>2. CASE Params(e)
  BY <1>0, <1>2, ParamsEffect
<1>3. CASE SendCommandPicture(e)
  BY <1>3, SendCommandPictureEffect
<1>4. CASE e = "SET_PARAMS_RESTART" /\ AnswerOne(e, Settled({Out(cam, TRUE)}))
  BY <1>0, <1>4, SettledEffect
<1>5. CASE /\ e \in {"STOP_PREVIEW", "CANCEL_PICTURE"}
           /\ Answer(e, Out(To(cancelPicture(cam), "PREVIEW_STOPPED"), TRUE))
  <2>1. /\ Keeps(cam, cancelPicture(cam)) /\ cancelPicture(cam).ch = cam.ch
        /\ cancelPicture(cam).restart = cam.restart
    BY <1>0, CancelPictureKeeps
  <2>2. Quiet(cam) => cam.ch = {}
    BY DEF Quiet
  <2> QED
    BY <1>0, <1>5, <2>1, <2>2, ToEffect
<1>6. CASE e = "PRE_TAKE_PICTURE" /\ Answer(e, Out(cam, cam.longshot))
  <2>1. AnswerEffect(e, cam, Out(cam, cam.longshot))
    BY <1>6, SameEffect, CamFields
  <2> QED
    BY <1>6, <2>1 DEF Effect
<1>7. CASE e = "TAKE_PICTURE" /\ AnswerOne(e, longShot(cam))
  BY <1>0, <1>7, LongShotEffect
<1>8. CASE e = "STOP_CAPTURE_CHANNEL" /\ AnswerOne(e, {Out(cam, ok) : ok \in BOOLEAN})
  <2>1. \A o \in {Out(cam, ok) : ok \in BOOLEAN} : AnswerEffect(e, cam, o)
    BY <1>8, SameEffect
  <2> QED
    BY <1>8, <2>1, OneEffect
<1> QED
  BY <1>1, <1>2, <1>3, <1>4, <1>5, <1>6, <1>7, <1>8 DEF PicTaking

\* Keeps, but for the retro frames.
Nearly(c, d) ==
  /\ d \in Cam /\ Sound(d)
  /\ d.live = c.live /\ d.retro = c.retro
  /\ "VIDEO" \in d.on => "VIDEO" \in c.on
  /\ "live" \in d.snap => "live" \in c.snap
  /\ d.prep => c.prep

\* Outside recordings.
LEMMA StreamsNearly ==
  ASSUME NEW c, NEW d, Streams(c), c.state \notin RecordStates,
         Nearly(c, d), d.state \notin RecordStates
  PROVE  Streams(d)
  BY DEF Streams, Nearly, RecordStates

\* One operation after another.
LEMMA KeepsNearly ==
  ASSUME NEW c, NEW d, NEW e, Keeps(c, d), Nearly(d, e)
  PROVE  Nearly(c, e) /\ ((e.ready => d.ready) => Keeps(c, e))
  BY DEF Keeps, Nearly

\* takePicture.
LEMMA TakePictureNearly ==
  ASSUME NEW c \in Cam, Sound(c), NEW o \in takePicture(c)
  PROVE  /\ o \in Outcome /\ o.c.state = c.state /\ Nearly(c, o.c)
         /\ (o.c.ready => c.ready) \/ (c.zsl /\ c.retro /\ o.ok)
         /\ ~c.zsl /\ o.ok => o.c.ch = {}
  BY TakePictureKeeps DEF Nearly

\* What TAKE_PICTURE in PREVIEWING may come to.
Taken(c, t) ==
  /\ t \in Outcome /\ Nearly(c, t.c)
  /\ t.c.state \in {"PREVIEWING", "PREVIEW_PIC_TAKING", "PIC_TAKING", "PREVIEW_STOPPED"}
  /\ (t.c.ready => c.ready) \/ (t.ok /\ c.retro /\ t.c.state = "PREVIEW_PIC_TAKING")
  /\ t.c.state \in {"PIC_TAKING", "PREVIEW_STOPPED"} => t.c.ch = {}

\* A capture beside the preview.
LEMMA TakeBeside ==
  ASSUME NEW c \in Cam, Sound(c),
         NEW t \in Moved(takePicture(To(c, "PREVIEW_PIC_TAKING")), "PREVIEW_PIC_TAKING",
                         "PREVIEWING")
  PROVE  Taken(c, t)
<1> DEFINE b == To(c, "PREVIEW_PIC_TAKING")
<1>1. PICK o \in takePicture(b) :
        t = [o EXCEPT !.c.state = IF o.ok THEN "PREVIEW_PIC_TAKING" ELSE "PREVIEWING"]
  BY DEF Moved
<1>2. Keeps(c, b) /\ b.state = "PREVIEW_PIC_TAKING"
  BY KeepsSelf, ToKeeps DEF States
<1> HIDE DEF b
<1>3. /\ o \in Outcome /\ Nearly(b, o.c)
      /\ (o.c.ready => b.ready) \/ (b.retro /\ o.ok)
  BY <1>2, TakePictureNearly DEF Keeps
<1> DEFINE s == IF o.ok THEN "PREVIEW_PIC_TAKING" ELSE "PREVIEWING"
<1>4. s \in States
  BY DEF States
<1>5. t \in Outcome /\ t.c = To(o.c, s) /\ t.ok = o.ok
  BY <1>1, <1>3, <1>4, MovedParts
<1>6. s \in {"PREVIEWING", "PREVIEW_PIC_TAKING"} /\ (o.ok => s = "PREVIEW_PIC_TAKING")
  OBVIOUS
<1> HIDE DEF s
<1>7. Fields(t.c, s, o.c.ch, o.c.on, o.c.snap, o.c.live, o.c.retro, o.c.prep, o.c.ready,
             o.c.restart)
  BY <1>3, <1>4, <1>5, ToFields DEF To, Nearly
<1>8. Nearly(c, o.c) /\ (b.ready => c.ready) /\ b.retro = c.retro
  BY <1>2, <1>3, KeepsNearly DEF Keeps
<1>9. Nearly(c, t.c)
  BY <1>7, <1>8 DEF Nearly, Fields, Sound
<1>10. t.c.ready = o.c.ready /\ t.c.state = s
  BY <1>7 DEF Fields
<1> QED
  BY <1>3, <1>5, <1>6, <1>8, <1>9, <1>10 DEF Taken

\* A capture instead of the preview.
LEMMA TakeInstead ==
  ASSUME NEW c \in Cam, Sound(c), ~c.zsl, NEW t,
         \/ t \in {o \in takePicture(To(c, "PIC_TAKING")) : o.ok}
         \/ \E o \in takePicture(To(c, "PIC_TAKING")) :
            \E r \in Moved(RestartPreview(stopPreview(o.c)), "PREVIEWING", "PREVIEW_STOPPED") :
              ~o.ok /\ t = [r EXCEPT !.ok = FALSE]
  PROVE  Taken(c, t)
<1> DEFINE b == To(c, "PIC_TAKING")
<1>1. Keeps(c, b) /\ b.state = "PIC_TAKING"
  BY KeepsSelf, ToKeeps DEF States
<1>2. b.zsl = c.zsl
  BY DEF To, Cam
<1>3. \/ t \in {o \in takePicture(b) : o.ok}
      \/ \E o \in takePicture(b) :
         \E r \in Moved(RestartPreview(stopPreview(o.c)), "PREVIEWING", "PREVIEW_STOPPED") :
           ~o.ok /\ t = [r EXCEPT !.ok = FALSE]
  OBVIOUS
<1> HIDE DEF b
<1>4. ASSUME NEW o \in takePicture(b)
      PROVE  /\ o \in Outcome /\ o.c.state = "PIC_TAKING" /\ Keeps(c, o.c) /\ Nearly(c, o.c)
             /\ o.ok => o.c.ch = {}
  <2>1. /\ o \in Outcome /\ o.c.state = b.state /\ Nearly(b, o.c)
        /\ (o.c.ready => b.ready) \/ (b.zsl /\ b.retro /\ o.ok)
        /\ ~b.zsl /\ o.ok => o.c.ch = {}
    BY <1>1, TakePictureNearly DEF Keeps
  <2> QED
    BY <1>1, <1>2, <2>1, KeepsNearly
<1>5. CASE t \in {o \in takePicture(b) : o.ok}
  BY <1>4, <1>5 DEF Taken, Keeps
<1>6. CASE \E o \in takePicture(b) :
           \E r \in Moved(RestartPreview(stopPreview(o.c)), "PREVIEWING", "PREVIEW_STOPPED") :
             ~o.ok /\ t = [r EXCEPT !.ok = FALSE]
  <2>1. PICK o \in takePicture(b) :
           \E r \in Moved(RestartPreview(stopPreview(o.c)), "PREVIEWING", "PREVIEW_STOPPED") :
             ~o.ok /\ t = [r EXCEPT !.ok = FALSE]
    BY <1>6
  <2> DEFINE f == stopPreview(o.c)
  <2>2. PICK r \in Moved(RestartPreview(f), "PREVIEWING", "PREVIEW_STOPPED") :
             ~o.ok /\ t = [r EXCEPT !.ok = FALSE]
    BY <2>1
  <2>3. Keeps(c, f) /\ f.ch = {}
    BY <1>4, UnprepareKeeps, KeepsTransitive DEF Keeps
  <2> HIDE DEF f
  <2>4. PICK p \in RestartPreview(f) :
          r = [p EXCEPT !.c.state = IF p.ok THEN "PREVIEWING" ELSE "PREVIEW_STOPPED"]
    BY DEF Moved
  <2>5. Calm(f, p) /\ (~p.ok => p.c.ch = {})
    BY <2>3, RestartCalm DEF Keeps
  <2>6. "PREVIEWING" \in States /\ "PREVIEW_STOPPED" \in States
    BY DEF States
  <2>7. /\ r \in Outcome /\ Keeps(f, r.c)
        /\ r.c.state = IF p.ok THEN "PREVIEWING" ELSE "PREVIEW_STOPPED"
        /\ r.c.ch = p.c.ch
    BY <2>4, <2>5, <2>6, MovedCalm
  <2>8. Keeps(c, r.c)
    BY <2>3, <2>7, KeepsTransitive
  <2>9. t \in Outcome /\ t.c = r.c
    BY <2>2, <2>7 DEF Outcome
  <2> QED
    BY <2>5, <2>7, <2>8, <2>9 DEF Taken, Keeps, Nearly
<1> QED
  BY <1>3, <1>5, <1>6

\* TAKE_PICTURE in PREVIEWING, after the recording hint was dropped.
LEMMA TakeInPreviewTaken ==
  ASSUME NEW c \in Cam, Sound(c), NEW t \in TakeInPreview(c)
  PROVE  Taken(c, t)
<1>1. CASE c.zsl \/ c.longshot
  BY <1>1, TakeBeside DEF TakeInPreview
<1>2. CASE ~(c.zsl \/ c.longshot)
  <2>1. \/ t \in {o \in takePicture(To(c, "PIC_TAKING")) : o.ok}
        \/ \E o \in takePicture(To(c, "PIC_TAKING")) :
           \E r \in Moved(RestartPreview(stopPreview(o.c)), "PREVIEWING", "PREVIEW_STOPPED") :
             ~o.ok /\ t = [r EXCEPT !.ok = FALSE]
    BY <1>2 DEF TakeInPreview
  <2> QED
    BY <1>2, <2>1, TakeInstead
<1> QED
  BY <1>1, <1>2

\* A calm answer in a state with a preview.
LEMMA CalmEffect ==
  ASSUME NEW e, NEW o, Streams(cam), cam.state \in {"PREVIEWING", "PREVIEW_PIC_TAKING"},
         Calm(cam, o), e \notin Between \cup {"SET_PARAMS_STOP"}
  PROVE  AnswerEffect(e, cam, o)
<1>1. o \in Outcome /\ Keeps(cam, o.c) /\ o.c.state = cam.state
  BY DEF Calm
<1>2. Quiet(o.c) /\ cam.state \notin RecordStates \cup {"PREPARE_SNAPSHOT"}
  BY <1>1 DEF Quiet, RecordStates
<1> QED
  BY <1>1, <1>2, ShiftEffect

\* startRecording, from a preview.
LEMMA StartRecordingEffect ==
  ASSUME NEW e, e = "START_RECORDING", cam \in Cam, Streams(cam), NEW s \in RecordStates,
         cam.state \in {"PREVIEWING", "PREVIEW_PIC_TAKING"},
         AnswerOne(e, Moved(startRecording(cam), s, cam.state))
  PROVE  Effect(e)
<1>0. Sound(cam) /\ cam.state \notin RecordStates /\ s \in States
  BY DEF Streams, RecordStates, States
<1>1. PICK p \in Moved(startRecording(cam), s, cam.state) : Answer(e, p)
  BY DEF AnswerOne
<1>2. PICK o \in startRecording(cam) : p = [o EXCEPT !.c.state = IF o.ok THEN s ELSE cam.state]
  BY DEF Moved
<1>3. /\ o \in Outcome
      /\ ~o.ok => o.c = cam
      /\ o.ok => /\ Fields(o.c, cam.state, cam.ch, cam.on \cup {"VIDEO"}, cam.snap, cam.live,
                           cam.retro, cam.prep, cam.ready, cam.restart)
                 /\ "VIDEO" \in cam.ch
  BY <1>0, StartRecordingParts
<1>4. CASE ~o.ok
  <2>1. Keeps(cam, cam)
    BY <1>0, KeepsSelf
  <2>2. Calm(cam, o)
    BY <1>3, <1>4, <2>1 DEF Calm
  <2> DEFINE z == cam.state
  <2>3. p = [o EXCEPT !.c.state = z] /\ z \in States
    BY <1>2, <1>4, CamFields
  <2> HIDE DEF z
  <2>a. p \in Outcome /\ p.c = To(o.c, z)
    BY <1>3, <2>3, MovedParts
  <2>b. Keeps(cam, p.c) /\ p.c.state = z
    BY <2>2, <2>3, <2>a, ToKeeps DEF Calm
  <2>4. p \in Outcome /\ Keeps(cam, p.c) /\ p.c.state = cam.state
    BY <2>a, <2>b DEF z
  <2>5. AnswerEffect(e, cam, p)
    BY <2>4, CalmEffect DEF Calm, Between
  <2> QED
    BY <1>1, <2>5 DEF Effect
<1>5. CASE o.ok
  <2>1. p = [o EXCEPT !.c.state = s]
    BY <1>2, <1>5
  <2>2. p \in Outcome /\ p.c = To(o.c, s)
    BY <1>0, <1>3, <2>1, MovedParts
  <2>3. Fields(p.c, s, o.c.ch, o.c.on, o.c.snap, o.c.live, o.c.retro, o.c.prep, o.c.ready,
               o.c.restart)
    BY <1>0, <1>3, <1>5, <2>2, ToFields DEF To, Fields
  <2>4. Fields(p.c, s, cam.ch, cam.on \cup {"VIDEO"}, cam.snap, cam.live, cam.retro, cam.prep,
               cam.ready, cam.restart)
    BY <1>3, <1>5, <2>3 DEF Fields
  <2>5. Streams(p.c)
    BY <1>0, <1>3, <1>5, <2>4 DEF Fields, Streams, Sound, RecordStates
  <2>6. Quiet(p.c)
    BY <2>4 DEF Fields, Quiet, RecordStates
  <2>7. AnswerEffect(e, cam, p)
    BY <2>2, <2>4, <2>5, <2>6 DEF AnswerEffect, CamEffect, Fields, Between
  <2> QED
    BY <1>1, <2>7 DEF Effect
<1> QED
  BY <1>4, <1>5

\* SET_PARAMS_RESTART in PREVIEWING.
LEMMA PreviewingRestart ==
  ASSUME NEW e, e = "SET_PARAMS_RESTART", cam \in Cam, Streams(cam), cam.state = "PREVIEWING",
         AnswerOne(e, Settled({o \in preparePreview(cam) : ~o.ok} \cup
           UNION {{[s EXCEPT !.ev = o.ev] :
                   s \in Moved(StartOrUnprepare(o.c), cam.state, "PREVIEW_STOPPED")} :
                  o \in {p \in preparePreview(cam) : p.ok}}))
  PROVE  Effect(e)
<1>0. Sound(cam) /\ cam.state \notin RecordStates \cup {"PREPARE_SNAPSHOT"}
      /\ "PREVIEWING" \in States /\ "PREVIEW_STOPPED" \in States
  BY DEF Streams, RecordStates, States
<1> DEFINE Started(o) == Moved(StartOrUnprepare(o.c), cam.state, "PREVIEW_STOPPED")
           P == {o \in preparePreview(cam) : ~o.ok} \cup
                UNION {{[s EXCEPT !.ev = o.ev] : s \in Started(o)} :
                       o \in {p \in preparePreview(cam) : p.ok}}
<1>1. PICK q \in Settled(P) : Answer(e, q)
  BY DEF AnswerOne
<1> HIDE DEF P
<1>2. PICK p \in P : q = [p EXCEPT !.c.restart = FALSE]
  BY DEF Settled
<1>3. /\ p \in Outcome /\ Keeps(cam, p.c)
      /\ p.c.state \in {"PREVIEWING", "PREVIEW_STOPPED"}
      /\ p.c.state = "PREVIEW_STOPPED" => p.c.ch = {}
  <2>1. CASE p \in preparePreview(cam)
    BY <1>0, <2>1, PrepareCalm DEF Calm
  <2>2. CASE \E o \in preparePreview(cam) : \E s \in Started(o) : p = [s EXCEPT !.ev = o.ev]
    <3> HIDE DEF Started
    <3>1. PICK o \in preparePreview(cam) : \E s \in Started(o) : p = [s EXCEPT !.ev = o.ev]
      BY <2>2
    <3>2. PICK s \in Started(o) : p = [s EXCEPT !.ev = o.ev]
      BY <3>1
    <3>3. PICK t \in StartOrUnprepare(o.c) :
            s = [t EXCEPT !.c.state = IF t.ok THEN cam.state ELSE "PREVIEW_STOPPED"]
      BY DEF Started, Moved
    <3>4. Calm(cam, o)
      BY <1>0, PrepareCalm
    <3>5. Calm(o.c, t) /\ (~t.ok => t.c.ch = {})
      BY <3>4, StartOrUnprepareCalm DEF Calm, Keeps
    <3>6. /\ s \in Outcome /\ Keeps(o.c, s.c)
          /\ s.c.state = IF t.ok THEN cam.state ELSE "PREVIEW_STOPPED"
          /\ s.c.ch = t.c.ch
      BY <1>0, <3>3, <3>5, MovedCalm
    <3>7. Keeps(cam, s.c)
      BY <3>4, <3>6, KeepsTransitive DEF Calm
    <3>8. p \in Outcome /\ p.c = s.c
      BY <3>2, <3>4, <3>6 DEF Outcome, Calm
    <3> QED
      BY <3>5, <3>6, <3>7, <3>8
  <2> QED
    BY <2>1, <2>2 DEF P
<1>4. /\ q \in Outcome /\ Keeps(cam, q.c) /\ q.c.state = p.c.state
      /\ q.c.ch = p.c.ch /\ q.c.on = p.c.on
  BY <1>2, <1>3, SettledCalm, Zenon
<1>5. Quiet(q.c) /\ q.c.state \notin RecordStates
  BY <1>3, <1>4 DEF Quiet, RecordStates
<1>6. AnswerEffect(e, cam, q)
  BY <1>0, <1>4, <1>5, ShiftEffect DEF Between
<1> QED
  BY <1>1, <1>6 DEF Effect

\* TAKE_PICTURE in PREVIEWING: the answer of a retro picture waits for its
\* frames.
LEMMA PreviewingTake ==
  ASSUME NEW e, e = "TAKE_PICTURE", cam \in Cam, Streams(cam), cam.state = "PREVIEWING",
         NEW h \in DropHint(cam), NEW t \in TakeInPreview(h.c), NEW wait,
         wait = (t.ok /\ t.c.retro /\ t.c.state = "PREVIEW_PIC_TAKING"),
         (~wait /\ Answer(e, t)) \/ (wait /\ Silent(t.c))
  PROVE  Effect(e)
<1>0. Sound(cam) /\ cam.state \notin RecordStates \cup {"PREPARE_SNAPSHOT"}
  BY DEF Streams, RecordStates
<1>1. Keeps(cam, h.c)
  BY <1>0, PreTakePictureCalm DEF Calm
<1>2. Taken(h.c, t)
  BY <1>1, TakeInPreviewTaken DEF Keeps
<1>3. /\ Nearly(cam, t.c) /\ t \in Outcome /\ cam.retro = t.c.retro
      /\ t.c.state \in {"PREVIEWING", "PREVIEW_PIC_TAKING", "PIC_TAKING", "PREVIEW_STOPPED"}
      /\ (t.c.ready => cam.ready) \/ (t.ok /\ t.c.retro /\ t.c.state = "PREVIEW_PIC_TAKING")
      /\ t.c.state \in {"PIC_TAKING", "PREVIEW_STOPPED"} => t.c.ch = {}
  BY <1>1, <1>2, KeepsNearly DEF Taken, Keeps, Nearly
<1>4. Quiet(t.c) /\ t.c.state \notin RecordStates
  BY <1>3 DEF Quiet, RecordStates
<1>5. Streams(t.c)
  BY <1>0, <1>3, <1>4, StreamsNearly
<1>6. CamEffect(e, cam, t.c)
  BY <1>3, <1>4, <1>5 DEF CamEffect, Nearly, Between
<1>7. CASE ~wait /\ Answer(e, t)
  <2>1. AnswerEffect(e, cam, t)
    BY <1>0, <1>3, <1>6, <1>7 DEF AnswerEffect, Nearly
  <2> QED
    BY <1>7, <2>1 DEF Effect
<1>8. CASE wait /\ Silent(t.c)
  <2>1. SilentEffect(e, cam, t.c)
    BY <1>0, <1>3, <1>6, <1>8 DEF SilentEffect, Nearly
  <2> QED
    BY <1>8, <2>1 DEF Effect
<1> QED
  BY <1>7, <1>8

\* LONGSHOT_ON in PREVIEWING.
LEMMA LongshotOnPreviewingCalm ==
  ASSUME NEW c \in Cam, Sound(c), NEW o \in LongshotOnPreviewing(c)
  PROVE  Calm(c, o)
<1> DEFINE l == LongshotOn(c)
           f == stopPreview(l.c)
<1>1. Calm(c, l)
  BY LongshotOnCalm
<1>2. l.c \in Cam /\ Sound(l.c) /\ Keeps(c, l.c) /\ l.c.state = c.state
  BY <1>1 DEF Calm, Keeps
<1>3. Keeps(c, f) /\ f.state = c.state
  BY <1>2, UnprepareKeeps, KeepsTransitive
<1>4. o = l \/ o \in RestartPreview(f)
  BY DEF LongshotOnPreviewing
<1> HIDE DEF l, f
<1>5. CASE o \in RestartPreview(f)
  BY <1>3, <1>5, RestartCalm, CalmFrom DEF Keeps
<1> QED
  BY <1>1, <1>4, <1>5

\* A flash estimation begins.
LEMMA EstimateFields ==
  ASSUME NEW c \in Cam
  PROVE  /\ Fields(Estimate(c), c.state, c.ch, c.on, c.snap, c.live, c.retro, c.on # {}, c.ready,
                   c.restart)
         /\ Fields([Estimate(c) EXCEPT !.state = "PREPARE_SNAPSHOT"], "PREPARE_SNAPSHOT", c.ch, c.on,
                   c.snap, c.live, c.retro, c.on # {}, c.ready, c.restart)
<1> DEFINE b == c.on # {}
           g == Estimate(c)
<1>1. b \in BOOLEAN
  OBVIOUS
<1>2. g = [c EXCEPT !.prep = b]
  BY DEF Estimate
<1> HIDE DEF b, g
<1>3. Fields(g, c.state, c.ch, c.on, c.snap, c.live, c.retro, b, c.ready, c.restart)
  BY <1>1, <1>2, PrepFields
<1>4. g \in Cam /\ "PREPARE_SNAPSHOT" \in States
  BY <1>3 DEF Fields, States
<1> DEFINE h == [g EXCEPT !.state = "PREPARE_SNAPSHOT"]
<1>5. Fields(h, "PREPARE_SNAPSHOT", g.ch, g.on, g.snap, g.live, g.retro, g.prep, g.ready, g.restart)
  BY <1>4, ToFields
<1> HIDE DEF h
<1>6. Fields(h, "PREPARE_SNAPSHOT", c.ch, c.on, c.snap, c.live, c.retro, b, c.ready, c.restart)
  BY <1>3, <1>5 DEF Fields
<1> QED
  BY <1>3, <1>6 DEF b, g, h

\* PREVIEWING.
LEMMA PreviewingEffect ==
  ASSUME NEW e \in Api, cam \in Cam, Streams(cam), cam.state = "PREVIEWING", Previewing(e)
  PROVE  Effect(e)
<1>0. Sound(cam) /\ cam.state \notin RecordStates \cup {"PREPARE_SNAPSHOT"}
  BY DEF Streams, RecordStates
<1>1. CASE e # "SET_PARAMS_STOP" /\ (Accept(e) \/ Refuse(e))
  BY <1>1, AcceptEffect
<1>2. CASE Params(e)
  BY <1>0, <1>2, ParamsEffect
<1>3. CASE e = "SET_PARAMS_STOP" /\ Answer(e, Out(stopPreview(cam), TRUE))
  BY <1>0, <1>3, StopEffect DEF stopPreview
<1>4. CASE /\ e = "SET_PARAMS_RESTART"
           /\ AnswerOne(e, Settled({o \in preparePreview(cam) : ~o.ok} \cup
                UNION {{[s EXCEPT !.ev = o.ev] :
                        s \in Moved(StartOrUnprepare(o.c), cam.state, "PREVIEW_STOPPED")} :
                       o \in {p \in preparePreview(cam) : p.ok}}))
  BY <1>4, PreviewingRestart
<1>5. CASE e = "STOP_PREVIEW" /\ Answer(e, Out(To(stopPreview(cam), "PREVIEW_STOPPED"), TRUE))
  BY <1>0, <1>5, UnprepareKeeps, ToEffect DEF Between
<1>6. CASE e = "PRE_START_RECORDING" /\ AnswerOne(e, preStartRecording(cam))
  <2>1. \A o \in preStartRecording(cam) : AnswerEffect(e, cam, o)
    BY <1>0, <1>6, PreStartRecordingCalm, CalmEffect DEF Between
  <2> QED
    BY <1>6, <2>1, OneEffect
<1>7. CASE /\ e = "START_RECORDING"
           /\ AnswerOne(e, Moved(startRecording(cam), "RECORDING", cam.state))
  <2>1. "RECORDING" \in RecordStates
    BY DEF RecordStates
  <2> QED
    BY <1>7, <2>1, StartRecordingEffect
<1>8. CASE /\ e = "PREPARE_SNAPSHOT"
           /\ Silent([Estimate(cam) EXCEPT !.state = "PREPARE_SNAPSHOT"])
  <2> DEFINE b == cam.on # {}
             d == [Estimate(cam) EXCEPT !.state = "PREPARE_SNAPSHOT"]
  <2>1. Fields(d, "PREPARE_SNAPSHOT", cam.ch, cam.on, cam.snap, cam.live, cam.retro, b, cam.ready,
               cam.restart)
    BY EstimateFields
  <2>2. Silent(d)
    BY <1>8
  <2> HIDE DEF d
  <2>3. Streams(d)
    BY <1>0, <2>1 DEF Fields, Streams, Sound, RecordStates
  <2>4. Quiet(d)
    BY <2>1 DEF Fields, Quiet
  <2>5. SilentEffect(e, cam, d)
    BY <1>8, <2>1, <2>3, <2>4 DEF SilentEffect, CamEffect, Fields, Between
  <2> QED
    BY <2>2, <2>5 DEF Effect
<1>9. CASE e = "PRE_TAKE_PICTURE" /\ AnswerOne(e, preTakePicture(cam))
  <2>1. \A o \in preTakePicture(cam) : AnswerEffect(e, cam, o)
    BY <1>0, <1>9, PreTakePictureCalm, CalmEffect DEF Between
  <2> QED
    BY <1>9, <2>1, OneEffect
<1>10. CASE /\ e = "TAKE_PICTURE"
            /\ \E h \in DropHint(cam) : \E t \in TakeInPreview(h.c) :
                 LET wait == t.ok /\ t.c.retro /\ t.c.state = "PREVIEW_PIC_TAKING"
                 IN  \/ ~wait /\ Answer(e, t)
                     \/ wait /\ Silent(t.c)
  <2>1. PICK h \in DropHint(cam) : \E t \in TakeInPreview(h.c) :
                 LET wait == t.ok /\ t.c.retro /\ t.c.state = "PREVIEW_PIC_TAKING"
                 IN  \/ ~wait /\ Answer(e, t)
                     \/ wait /\ Silent(t.c)
    BY <1>10
  <2>2. PICK t \in TakeInPreview(h.c) :
                 LET wait == t.ok /\ t.c.retro /\ t.c.state = "PREVIEW_PIC_TAKING"
                 IN  \/ ~wait /\ Answer(e, t)
                     \/ wait /\ Silent(t.c)
    BY <2>1
  <2> DEFINE w == t.ok /\ t.c.retro /\ t.c.state = "PREVIEW_PIC_TAKING"
  <2>3. (~w /\ Answer(e, t)) \/ (w /\ Silent(t.c))
    BY <2>2
  <2> QED
    BY <1>10, <2>3, PreviewingTake, Zenon
<1>11. CASE e = "LONGSHOT_ON" /\ AnswerOne(e, LongshotOnPreviewing(cam))
  <2>1. \A o \in LongshotOnPreviewing(cam) : AnswerEffect(e, cam, o)
    BY <1>0, <1>11, LongshotOnPreviewingCalm, CalmEffect DEF Between
  <2> QED
    BY <1>11, <2>1, OneEffect
<1>12. CASE e = "LONGSHOT_OFF" /\ Answer(e, LongshotOff(cam))
  BY <1>0, <1>12, LongshotEffect
<1>13. CASE e = "RELEASE_FRAME" /\ Silent(cam)
  BY <1>13, SilentSame DEF Effect
<1> QED
  BY <1>1, <1>2, <1>3, <1>4, <1>5, <1>6, <1>7, <1>8, <1>9, <1>10, <1>11, <1>12, <1>13
     DEF Previewing

\* cancelLiveSnapshot starts the thread that ends the live snapshot, or fails to.
Cancelled(c, l) ==
  /\ Fields(l, c.state, c.ch, c.on, c.snap, l.live, c.retro, c.prep, c.ready, c.restart)
  /\ l.live \in {"cancel", "failed"}

\* Its outcomes.
LEMMA CancelLiveFields ==
  ASSUME NEW c \in Cam, NEW o \in cancelLiveSnapshot(c)
  PROVE  o \in Outcome /\ Cancelled(c, o.c)
<1>1. ASSUME NEW x \in {"cancel", "failed"}, NEW b \in BOOLEAN, o = Out([c EXCEPT !.live = x], b)
      PROVE  o \in Outcome /\ Cancelled(c, o.c)
  <2> DEFINE d == [c EXCEPT !.live = x]
  <2>1. Fields(d, c.state, c.ch, c.on, c.snap, x, c.retro, c.prep, c.ready, c.restart)
    BY LiveFields
  <2>2. o = Out(d, b)
    BY <1>1
  <2> HIDE DEF d
  <2>3. o.c = d /\ o \in Outcome
    BY <2>1, <2>2 DEF Out, Outcome, Fields
  <2> QED
    BY <2>1, <2>3 DEF Cancelled, Fields
<1> QED
  BY <1>1 DEF cancelLiveSnapshot

\* What remains possible after it.
LEMMA CancelledKeeps ==
  ASSUME NEW c \in Cam, Sound(c), NEW l, Cancelled(c, l)
  PROVE  /\ l \in Cam /\ Sound(l) /\ Keeps(l, l) /\ l.ch = c.ch /\ l.on = c.on
         /\ l.restart = c.restart
<1>1. l \in Cam /\ Sound(l) /\ l.ch = c.ch /\ l.on = c.on /\ l.restart = c.restart
  BY DEF Cancelled, Fields, Sound
<1> QED
  BY <1>1, KeepsSelf

\* An answer after cancelLiveSnapshot.
LEMMA CancelLiveEffect ==
  ASSUME NEW e, cam \in Cam, Streams(cam), cam.state # "PREPARE_SNAPSHOT",
         NEW l, Cancelled(cam, l), NEW d, Keeps(l, d),
         NEW s \in {"PREVIEWING", "RECORDING", "PREVIEW_STOPPED"},
         "VIDEO" \in d.on <=> s \in RecordStates,
         s = "PREVIEW_STOPPED" => d.ch = {}, e # "SET_PARAMS_STOP",
         e \in Between => /\ d.ch = cam.ch /\ d.restart = cam.restart
                          /\ s \in RecordStates <=> cam.state \in RecordStates,
         NEW o \in Outcome, o.c = To(d, s), Answer(e, o)
  PROVE  Effect(e)
<1> DEFINE f == To(d, s)
<1>1. /\ Fields(l, cam.state, cam.ch, cam.on, cam.snap, l.live, cam.retro, cam.prep, cam.ready,
                cam.restart)
      /\ l.live \in {"cancel", "failed"}
  BY DEF Cancelled
<1>2. /\ Keeps(l, f) /\ f.state = s /\ f.ch = d.ch /\ f.on = d.on /\ f.restart = d.restart
  BY ToKeeps DEF States
<1>3. o.c = f
  OBVIOUS
<1> HIDE DEF f
<1>5. Streams(f)
  BY <1>1, <1>2 DEF Fields, Keeps, Streams
<1>6. Quiet(f)
  BY <1>2 DEF Quiet
<1>7. AnswerEffect(e, cam, o)
  BY <1>1, <1>2, <1>3, <1>5, <1>6 DEF AnswerEffect, CamEffect, Fields, Keeps
<1> QED
  BY <1>7 DEF Effect

\* An answer that says whether an operation succeeded.
LEMMA OutParts ==
  ASSUME NEW d \in Cam, NEW b \in BOOLEAN
  PROVE  Out(d, b) \in Outcome /\ Out(d, b).c = d
  BY DEF Out, Outcome

\* An outcome of cancelLiveSnapshot that goes to a state.
LEMMA CancelMovedParts ==
  ASSUME NEW c \in Cam, NEW s \in States, NEW p \in Moved(cancelLiveSnapshot(c), s, s)
  PROVE  \E l : Cancelled(c, l) /\ p \in Outcome /\ p.c = To(l, s)
<1>1. PICK o \in cancelLiveSnapshot(c) : p = [o EXCEPT !.c.state = IF o.ok THEN s ELSE s]
  BY DEF Moved
<1>2. p = [o EXCEPT !.c.state = s]
  BY <1>1
<1>3. o \in Outcome /\ Cancelled(c, o.c)
  BY CancelLiveFields
<1>4. p \in Outcome /\ p.c = To(o.c, s)
  BY <1>2, <1>3, MovedParts
<1> QED
  BY <1>3, <1>4

\* CANCEL_PICTURE of a live snapshot.
LEMMA CancelMovedEffect ==
  ASSUME NEW e, cam \in Cam, Streams(cam), cam.state # "PREPARE_SNAPSHOT",
         NEW s \in {"PREVIEWING", "RECORDING"}, e # "SET_PARAMS_STOP",
         s \in RecordStates <=> cam.state \in RecordStates,
         AnswerOne(e, Moved(cancelLiveSnapshot(cam), s, s))
  PROVE  Effect(e)
<1>1. PICK p \in Moved(cancelLiveSnapshot(cam), s, s) : Answer(e, p)
  BY DEF AnswerOne
<1>2. PICK l : Cancelled(cam, l) /\ p \in Outcome /\ p.c = To(l, s)
  BY CancelMovedParts DEF States
<1>3. Keeps(l, l) /\ l.ch = cam.ch /\ l.on = cam.on /\ l.restart = cam.restart
  BY <1>2, CancelledKeeps DEF Streams
<1>4. "VIDEO" \in l.on <=> s \in RecordStates
  BY <1>3 DEF Streams
<1> QED
  BY <1>1, <1>2, <1>3, <1>4, CancelLiveEffect

\* The end of a recording without a live snapshot.
LEMMA EndRecordingEffect ==
  ASSUME NEW e, cam \in Cam, Streams(cam), cam.state = "RECORDING",
         NEW d, Keeps(cam, d), "VIDEO" \notin d.on,
         NEW s \in {"PREVIEWING", "PREVIEW_STOPPED"},
         s = "PREVIEW_STOPPED" => d.ch = {}, e \notin Between \cup {"SET_PARAMS_STOP"},
         Answer(e, Out(To(d, s), TRUE))
  PROVE  Effect(e)
<1> DEFINE f == To(d, s)
           o == Out(f, TRUE)
<1>1. /\ Keeps(cam, f) /\ f.state = s /\ f.ch = d.ch /\ f.on = d.on
  BY ToKeeps DEF States
<1>2. Answer(e, o)
  OBVIOUS
<1> HIDE DEF f
<1>3. o \in Outcome /\ o.c = f
  BY <1>1 DEF Keeps, Outcome, Out
<1> HIDE DEF o
<1>4. Streams(f)
  BY <1>1 DEF Keeps, Streams, RecordStates
<1>5. Quiet(f)
  BY <1>1 DEF Quiet
<1>6. AnswerEffect(e, cam, o)
  BY <1>1, <1>3, <1>4, <1>5 DEF AnswerEffect, CamEffect, Keeps
<1> QED
  BY <1>2, <1>6 DEF Effect

\* RECORDING.
LEMMA RecordingEffect ==
  ASSUME NEW e \in Api, cam \in Cam, Streams(cam), cam.state = "RECORDING", Recording(e)
  PROVE  Effect(e)
<1>0. Sound(cam) /\ cam.state \in RecordStates /\ cam.state # "PREPARE_SNAPSHOT"
  BY DEF Streams, RecordStates
<1>1. CASE e # "SET_PARAMS_STOP" /\ (Accept(e) \/ Refuse(e))
  BY <1>1, AcceptEffect
<1>2. CASE ParamsRecording(e)
  BY <1>0, <1>2, ParamsRecordingEffect
<1>3. CASE SendCommand(e)
  BY <1>0, <1>3, LongshotEffect DEF SendCommand
<1>4. CASE /\ e = "TAKE_PICTURE"
           /\ AnswerOne(e, Moved(takeLiveSnapshot(cam), "VIDEO_PIC_TAKING", cam.state))
  <2>1. PICK p \in Moved(takeLiveSnapshot(cam), "VIDEO_PIC_TAKING", cam.state) : Answer(e, p)
    BY <1>4 DEF AnswerOne
  <2>2. PICK o \in takeLiveSnapshot(cam) :
          p = [o EXCEPT !.c.state = IF o.ok THEN "VIDEO_PIC_TAKING" ELSE cam.state]
    BY DEF Moved
  <2> DEFINE d == [cam EXCEPT !.live = "take"]
  <2>3. Fields(d, cam.state, cam.ch, cam.on, cam.snap, "take", cam.retro, cam.prep, cam.ready,
               cam.restart)
    BY LiveFields
  <2>4. o = Out(d, TRUE) \/ o = Out(cam, FALSE)
    BY DEF takeLiveSnapshot
  <2> HIDE DEF d
  <2>5. d \in Cam
    BY <2>3 DEF Fields
  <2>6. CASE o = Out(d, TRUE)
    <3>1. o \in Outcome /\ o.c = d /\ o.ok
      BY <2>5, <2>6 DEF Out, Outcome
    <3>2. p = [o EXCEPT !.c.state = "VIDEO_PIC_TAKING"] /\ "VIDEO_PIC_TAKING" \in States
      BY <2>2, <3>1 DEF States
    <3>3. p \in Outcome /\ p.c = To(d, "VIDEO_PIC_TAKING")
      BY <3>1, <3>2, MovedParts
    <3>4. Fields(p.c, "VIDEO_PIC_TAKING", d.ch, d.on, d.snap, d.live, d.retro, d.prep, d.ready,
                 d.restart)
      BY <2>5, <3>2, <3>3, ToFields DEF To
    <3>5. Fields(p.c, "VIDEO_PIC_TAKING", cam.ch, cam.on, cam.snap, "take", cam.retro, cam.prep,
                 cam.ready, cam.restart)
      BY <2>3, <3>4 DEF Fields
    <3>6. Streams(p.c)
      BY <1>0, <3>5 DEF Fields, Streams, Sound, RecordStates
    <3>7. Quiet(p.c)
      BY <3>5 DEF Fields, Quiet
    <3>8. AnswerEffect(e, cam, p)
      BY <1>0, <1>4, <3>3, <3>5, <3>6, <3>7 DEF AnswerEffect, CamEffect, Fields, Between
    <3> QED
      BY <2>1, <3>8 DEF Effect
  <2>7. CASE o = Out(cam, FALSE)
    <3>1. o \in Outcome /\ o.c = cam /\ ~o.ok
      BY <2>7 DEF Out, Outcome
    <3>2. p = [o EXCEPT !.c.state = "RECORDING"] /\ "RECORDING" \in States
      BY <2>2, <3>1 DEF States
    <3>3. p \in Outcome /\ p.c = To(cam, "RECORDING")
      BY <3>1, <3>2, MovedParts
    <3>4. Keeps(cam, cam)
      BY <1>0, KeepsSelf
    <3>5. Keeps(cam, p.c) /\ p.c.state = cam.state /\ p.c.ch = cam.ch /\ p.c.on = cam.on
      BY <3>2, <3>3, <3>4, ToKeeps
    <3>6. AnswerEffect(e, cam, p)
      BY <1>0, <1>4, <3>3, <3>5, StillEffect DEF Calm, Between
    <3> QED
      BY <2>1, <3>6 DEF Effect
  <2> QED
    BY <2>4, <2>6, <2>7
<1>5. CASE /\ e = "STOP_RECORDING"
           /\ Answer(e, Out(To(stopRecording(cam), "PREVIEWING"), TRUE))
  BY <1>0, <1>5, StopRecordingKeeps, EndRecordingEffect DEF Between
<1>6. CASE /\ e = "STOP_PREVIEW"
           /\ Answer(e, Out(To(stopPreview(stopRecording(cam)), "PREVIEW_STOPPED"), TRUE))
  <2> DEFINE g == stopRecording(cam)
             d == stopPreview(g)
  <2>1. Keeps(cam, g)
    BY <1>0, StopRecordingKeeps
  <2>2. Keeps(cam, d) /\ d.ch = {} /\ d.on = {}
    BY <2>1, UnprepareKeeps, KeepsTransitive DEF Keeps
  <2>3. Answer(e, Out(To(d, "PREVIEW_STOPPED"), TRUE))
    BY <1>6
  <2> HIDE DEF d
  <2> QED
    BY <1>6, <2>2, <2>3, EndRecordingEffect DEF Between
<1> QED
  BY <1>1, <1>2, <1>3, <1>4, <1>5, <1>6 DEF Recording

\* VIDEO_PIC_TAKING.
LEMMA VideoPicTakingEffect ==
  ASSUME NEW e \in Api, cam \in Cam, Streams(cam), cam.state = "VIDEO_PIC_TAKING", VideoPicTaking(e)
  PROVE  Effect(e)
<1>0. Sound(cam) /\ cam.state \in RecordStates /\ cam.state # "PREPARE_SNAPSHOT"
      /\ "VIDEO" \in cam.on
  BY DEF Streams, RecordStates
<1>1. CASE e # "SET_PARAMS_STOP" /\ (Accept(e) \/ Refuse(e))
  BY <1>1, AcceptEffect
<1>2. CASE ParamsRecording(e)
  BY <1>0, <1>2, ParamsRecordingEffect
<1>3. CASE SendCommand(e)
  BY <1>0, <1>3, LongshotEffect DEF SendCommand
<1>4. CASE /\ e = "STOP_RECORDING"
           /\ \E o \in cancelLiveSnapshot(cam) :
                Answer(e, Out(To(stopRecording(o.c), "PREVIEWING"), TRUE))
  <2>1. PICK o \in cancelLiveSnapshot(cam) :
          Answer(e, Out(To(stopRecording(o.c), "PREVIEWING"), TRUE))
    BY <1>4
  <2> DEFINE d == stopRecording(o.c)
             f == To(d, "PREVIEWING")
  <2>2. Cancelled(cam, o.c)
    BY CancelLiveFields
  <2>3. Keeps(o.c, d) /\ "VIDEO" \notin d.on
    BY <1>0, <2>2, CancelledKeeps, StopRecordingKeeps
  <2> HIDE DEF d
  <2>4. f \in Cam
    BY <2>3, ToKeeps DEF Keeps, States
  <2>5. Out(f, TRUE) \in Outcome /\ Out(f, TRUE).c = f
    BY <2>4, OutParts
  <2>6. Answer(e, Out(f, TRUE))
    BY <2>1 DEF d
  <2> QED
    BY <1>0, <1>4, <2>2, <2>3, <2>5, <2>6, CancelLiveEffect DEF Between, RecordStates
<1>5. CASE /\ e = "CANCEL_PICTURE"
           /\ AnswerOne(e, Moved(cancelLiveSnapshot(cam), "RECORDING", "RECORDING"))
  BY <1>0, <1>5, CancelMovedEffect DEF RecordStates
<1>6. CASE /\ e = "STOP_PREVIEW"
           /\ \E o \in cancelLiveSnapshot(cam) :
                Answer(e, Out(To(stopPreview(stopRecording(o.c)), "PREVIEW_STOPPED"), TRUE))
  <2>1. PICK o \in cancelLiveSnapshot(cam) :
          Answer(e, Out(To(stopPreview(stopRecording(o.c)), "PREVIEW_STOPPED"), TRUE))
    BY <1>6
  <2> DEFINE g == stopRecording(o.c)
             d == stopPreview(g)
             f == To(d, "PREVIEW_STOPPED")
  <2>2. Cancelled(cam, o.c)
    BY CancelLiveFields
  <2>3. Keeps(o.c, g)
    BY <1>0, <2>2, CancelledKeeps, StopRecordingKeeps
  <2>4. Keeps(o.c, d) /\ d.ch = {} /\ d.on = {}
    BY <2>3, UnprepareKeeps, KeepsTransitive DEF Keeps
  <2> HIDE DEF d
  <2>5. f \in Cam
    BY <2>4, ToKeeps DEF Keeps, States
  <2>6. Out(f, TRUE) \in Outcome /\ Out(f, TRUE).c = f
    BY <2>5, OutParts
  <2>7. Answer(e, Out(f, TRUE))
    BY <2>1 DEF d
  <2> QED
    BY <1>0, <1>6, <2>2, <2>4, <2>6, <2>7, CancelLiveEffect DEF Between, RecordStates
<1> QED
  BY <1>1, <1>2, <1>3, <1>4, <1>5, <1>6 DEF VideoPicTaking

\* SET_PARAMS_RESTART in PREVIEW_PIC_TAKING.
LEMMA PreviewPicTakingRestart ==
  ASSUME NEW e, e = "SET_PARAMS_RESTART", cam \in Cam, Streams(cam),
         cam.state = "PREVIEW_PIC_TAKING",
         AnswerOne(e, Settled(Moved(RestartPreview(cam), cam.state, "PIC_TAKING")))
  PROVE  Effect(e)
<1>0. Sound(cam) /\ cam.state \notin RecordStates \cup {"PREPARE_SNAPSHOT"}
      /\ "PREVIEW_PIC_TAKING" \in States /\ "PIC_TAKING" \in States
  BY DEF Streams, RecordStates, States
<1>1. PICK q \in Settled(Moved(RestartPreview(cam), cam.state, "PIC_TAKING")) : Answer(e, q)
  BY DEF AnswerOne
<1>2. PICK p \in Moved(RestartPreview(cam), cam.state, "PIC_TAKING") :
        q = [p EXCEPT !.c.restart = FALSE]
  BY DEF Settled
<1>3. PICK o \in RestartPreview(cam) :
        p = [o EXCEPT !.c.state = IF o.ok THEN cam.state ELSE "PIC_TAKING"]
  BY DEF Moved
<1>4. Calm(cam, o) /\ (cam.ch = {} /\ ~o.ok => o.c.ch = {})
  BY <1>0, RestartCalm
<1>5. /\ p \in Outcome /\ Keeps(cam, p.c)
      /\ p.c.state = IF o.ok THEN "PREVIEW_PIC_TAKING" ELSE "PIC_TAKING"
      /\ p.c.ch = o.c.ch /\ p.c.on = o.c.on
  BY <1>0, <1>3, <1>4, MovedCalm
<1>6. /\ q \in Outcome /\ Keeps(cam, q.c) /\ q.c.state = p.c.state
      /\ q.c.ch = p.c.ch /\ q.c.on = p.c.on
  BY <1>2, <1>5, SettledCalm, Zenon
<1>7. cam.ch = {} => Quiet(q.c)
  BY <1>4, <1>5, <1>6 DEF Quiet
<1>8. q.c.state \notin RecordStates
  BY <1>5, <1>6 DEF RecordStates
<1>9. AnswerEffect(e, cam, q)
  BY <1>0, <1>6, <1>7, <1>8, ShiftEffect DEF Between
<1> QED
  BY <1>1, <1>9 DEF Effect

\* The one outcome of cancelPicture that goes to a state.
LEMMA PictureMovedParts ==
  ASSUME NEW g \in Cam, NEW s \in States, NEW p \in Moved({Out(g, TRUE)}, s, s)
  PROVE  p \in Outcome /\ p.c = To(g, s)
<1> DEFINE o == Out(g, TRUE)
<1>1. o \in Outcome /\ o.c = g
  BY OutParts
<1>2. p = [o EXCEPT !.c.state = s]
  BY DEF Moved
<1> HIDE DEF o
<1> QED
  BY <1>1, <1>2, MovedParts

\* PREVIEW_PIC_TAKING.
LEMMA PreviewPicTakingEffect ==
  ASSUME NEW e \in Api, cam \in Cam, Streams(cam), cam.state = "PREVIEW_PIC_TAKING",
         PreviewPicTaking(e)
  PROVE  Effect(e)
<1> DEFINE g == cancelPicture(cam)
<1>0. Sound(cam) /\ cam.state \notin RecordStates \cup {"PREPARE_SNAPSHOT"}
      /\ "VIDEO" \notin cam.on
  BY DEF Streams, RecordStates
<1>e. Keeps(cam, g) /\ g.ch = cam.ch /\ g.restart = cam.restart
  BY <1>0, CancelPictureKeeps
<1>f. Keeps(cam, unpreparePreview(g)) /\ unpreparePreview(g).ch = {}
  BY <1>e, UnprepareKeeps, KeepsTransitive DEF Keeps
<1>1. CASE e # "SET_PARAMS_STOP" /\ (Accept(e) \/ Refuse(e))
  BY <1>1, AcceptEffect
<1>2. CASE e = "PRE_START_RECORDING" /\ AnswerOne(e, preStartRecording(cam))
  <2>1. \A o \in preStartRecording(cam) : AnswerEffect(e, cam, o)
    BY <1>0, <1>2, PreStartRecordingCalm, CalmEffect DEF Between
  <2> QED
    BY <1>2, <2>1, OneEffect
<1>3. CASE /\ e = "START_RECORDING"
           /\ AnswerOne(e, Moved(startRecording(cam), "VIDEO_PIC_TAKING", cam.state))
  <2>1. "VIDEO_PIC_TAKING" \in RecordStates
    BY DEF RecordStates
  <2> QED
    BY <1>3, <2>1, StartRecordingEffect
<1>4. CASE Params(e)
  BY <1>0, <1>4, ParamsEffect
<1>5. CASE SendCommandPicture(e)
  BY <1>5, SendCommandPictureEffect
<1>6. CASE e = "SET_PARAMS_STOP" /\ Answer(e, Out(stopPreview(cam), TRUE))
  BY <1>0, <1>6, StopEffect DEF stopPreview
<1>7. CASE /\ e = "SET_PARAMS_RESTART"
           /\ AnswerOne(e, Settled(Moved(RestartPreview(cam), cam.state, "PIC_TAKING")))
  BY <1>7, PreviewPicTakingRestart
<1>8. CASE e = "CANCEL_PICTURE" /\ AnswerOne(e, Moved({Out(g, TRUE)}, "PREVIEWING", "PREVIEWING"))
  <2>1. PICK p \in Moved({Out(g, TRUE)}, "PREVIEWING", "PREVIEWING") : Answer(e, p)
    BY <1>8 DEF AnswerOne
  <2>2. p \in Outcome /\ p.c = To(g, "PREVIEWING")
    BY <1>e, PictureMovedParts DEF Keeps, States
  <2> QED
    BY <1>0, <1>8, <1>e, <2>1, <2>2, ToOutcomeEffect
<1>9. CASE /\ e = "CANCEL_PICTURE"
           /\ AnswerOne(e, Moved(cancelLiveSnapshot(cam), "PREVIEWING", "PREVIEWING"))
  BY <1>0, <1>9, CancelMovedEffect DEF RecordStates
<1>10. CASE e = "STOP_PREVIEW" /\ Answer(e, Out(To(unpreparePreview(g), "PREVIEW_STOPPED"), TRUE))
  BY <1>0, <1>10, <1>f, ToEffect DEF Between
<1>11. CASE /\ e = "STOP_PREVIEW"
            /\ \E o \in cancelLiveSnapshot(cam) :
                 Answer(e, Out(To(unpreparePreview(o.c), "PREVIEW_STOPPED"), o.ok))
  <2>1. PICK o \in cancelLiveSnapshot(cam) :
          Answer(e, Out(To(unpreparePreview(o.c), "PREVIEW_STOPPED"), o.ok))
    BY <1>11
  <2> DEFINE d == unpreparePreview(o.c)
             f == To(d, "PREVIEW_STOPPED")
             b == o.ok
  <2>2. Cancelled(cam, o.c) /\ b \in BOOLEAN
    BY CancelLiveFields DEF Outcome
  <2>3. Keeps(o.c, d) /\ d.ch = {} /\ d.on = {}
    BY <1>0, <2>2, CancelledKeeps, UnprepareKeeps
  <2> HIDE DEF d
  <2>4. f \in Cam
    BY <2>3, ToKeeps DEF Keeps, States
  <2>5. Out(f, b) \in Outcome /\ Out(f, b).c = f
    BY <2>2, <2>4, OutParts
  <2>6. Answer(e, Out(f, b))
    BY <2>1 DEF d
  <2> QED
    BY <1>0, <1>11, <2>2, <2>3, <2>5, <2>6, CancelLiveEffect DEF Between, RecordStates
<1>12. CASE e = "PRE_TAKE_PICTURE" /\ Answer(e, Out(cam, cam.longshot))
  <2>1. AnswerEffect(e, cam, Out(cam, cam.longshot))
    BY <1>12, SameEffect, CamFields
  <2> QED
    BY <1>12, <2>1 DEF Effect
<1>13. CASE e = "TAKE_PICTURE" /\ AnswerOne(e, longShot(cam))
  BY <1>0, <1>13, LongShotEffect
<1>14. CASE e = "PREPARE_SNAPSHOT" /\ cam.retro /\ Silent(Estimate(cam))
  <2> DEFINE b == cam.on # {}
             d == Estimate(cam)
  <2>1. Fields(d, cam.state, cam.ch, cam.on, cam.snap, cam.live, cam.retro, b, cam.ready,
               cam.restart)
    BY EstimateFields
  <2>2. Silent(d)
    BY <1>14
  <2> HIDE DEF d
  <2>3. Streams(d)
    BY <1>0, <2>1 DEF Fields, Streams, Sound, RecordStates
  <2>4. Quiet(d)
    BY <2>1 DEF Fields, Quiet
  <2>5. SilentEffect(e, cam, d)
    BY <1>0, <1>14, <2>1, <2>3, <2>4 DEF SilentEffect, CamEffect, Fields, Between
  <2> QED
    BY <2>2, <2>5 DEF Effect
<1> QED
  <2>1. CASE e = "CANCEL_PICTURE" /\ AnswerOne(e, Moved(CancelCapture(cam), "PREVIEWING", "PREVIEWING"))
    BY <1>8, <1>9, <2>1 DEF CancelCapture
  <2>2. CASE /\ e = "STOP_PREVIEW"
             /\ \E o \in CancelCapture(cam) :
                  Answer(e, Out(To(unpreparePreview(o.c), "PREVIEW_STOPPED"), o.ok))
    <3>1. CASE Picture(cam)
      <4>1. PICK o : /\ o = Out(g, TRUE)
                     /\ Answer(e, Out(To(unpreparePreview(o.c), "PREVIEW_STOPPED"), o.ok))
        BY <2>2, <3>1 DEF CancelCapture
      <4>2. o.c = g /\ o.ok = TRUE
        BY <4>1 DEF Out
      <4> QED
        BY <1>10, <2>2, <4>1, <4>2
    <3>2. CASE ~Picture(cam)
      BY <1>11, <2>2, <3>2 DEF CancelCapture
    <3> QED
      BY <3>1, <3>2
  <2> QED
    BY <1>1, <1>2, <1>3, <1>4, <1>5, <1>6, <1>7, <1>12, <1>13, <1>14, <2>1, <2>2
       DEF PreviewPicTaking

\* Every command, in every state.
LEMMA StateMachineEffect ==
  ASSUME NEW e \in Api, cam \in Cam, Streams(cam), stateMachine(e)
  PROVE  Effect(e)
<1>1. CASE e = "STOP_CAPTURE_CHANNEL" /\ Silent(cam)
  BY <1>1, SilentSame DEF Effect
<1> QED
  BY <1>1, PreviewStoppedEffect, PreviewReadyEffect, PreviewingEffect, PrepareSnapshotEffect,
     PicTakingEffect, RecordingEffect, VideoPicTakingEffect, PreviewPicTakingEffect
     DEF stateMachine

\* What SNAPSHOT_DONE does to the camera.
DoneEffect(d) ==
  /\ d \in Cam /\ Streams(d) /\ d.retro = cam.retro /\ d.ch = cam.ch
  /\ d.restart = cam.restart /\ (d.prep => cam.prep) /\ (d.ready => cam.ready)
  /\ d.state \in RecordStates <=> cam.state \in RecordStates
  /\ Quiet(cam) => Quiet(d)
  /\ cam.state = "PREPARE_SNAPSHOT" => d = cam

\* SNAPSHOT_DONE ends a picture.
LEMMA PictureDone ==
  ASSUME cam \in Cam, Streams(cam), NEW s \in {"PREVIEW_STOPPED", "PREVIEWING"},
         cam.state = "PIC_TAKING" \/ (cam.state = "PREVIEW_PIC_TAKING" /\ s = "PREVIEWING"),
         NEW d, d = To(cancelPicture(cam), s)
  PROVE  DoneEffect(d)
<1> DEFINE g == cancelPicture(cam)
<1>0. Sound(cam)
  BY DEF Streams
<1>1. /\ Keeps(cam, g) /\ g.ch = cam.ch /\ g.on = cam.on /\ g.restart = cam.restart
  BY <1>0, CancelPictureKeeps
<1> HIDE DEF g
<1>2. Keeps(cam, d) /\ d.state = s /\ d.ch = cam.ch /\ d.restart = cam.restart
  BY <1>1, ToKeeps DEF States, g
<1>3. cam.state \notin RecordStates /\ d.state \notin RecordStates /\ (Quiet(cam) => Quiet(d))
  BY <1>2 DEF RecordStates, Quiet
<1>4. Streams(d)
  BY <1>2, <1>3, StreamsShift
<1> QED
  BY <1>2, <1>3, <1>4 DEF Keeps, DoneEffect

\* SNAPSHOT_DONE ends a live snapshot.
LEMMA LiveDone ==
  ASSUME cam \in Cam, Streams(cam), NEW s \in {"RECORDING", "PREVIEWING"},
         s \in RecordStates <=> cam.state \in RecordStates, cam.state # "PREPARE_SNAPSHOT",
         NEW l, Cancelled(cam, l), NEW d, d = To(l, s)
  PROVE  DoneEffect(d)
<1>1. /\ Fields(l, cam.state, cam.ch, cam.on, cam.snap, l.live, cam.retro, cam.prep, cam.ready,
                cam.restart)
      /\ l.live \in {"cancel", "failed"}
  BY DEF Cancelled
<1>2. l \in Cam /\ s \in States
  BY <1>1 DEF Fields, States
<1>3. Fields(d, s, l.ch, l.on, l.snap, l.live, l.retro, l.prep, l.ready, l.restart)
  BY <1>2, ToFields DEF To
<1>4. Fields(d, s, cam.ch, cam.on, cam.snap, l.live, cam.retro, cam.prep, cam.ready, cam.restart)
  BY <1>1, <1>3 DEF Fields
<1>5. Streams(d) /\ Quiet(d)
  BY <1>1, <1>4 DEF Fields, Streams, Sound, Quiet
<1> QED
  BY <1>4, <1>5 DEF Fields, DoneEffect

\* SNAPSHOT_DONE.
LEMMA SnapshotDoneStreams ==
  ASSUME cam \in Cam, Streams(cam), NEW o \in SnapshotDone(cam)
  PROVE  DoneEffect(o.c) /\ o.ok \in BOOLEAN
<1> DEFINE g == cancelPicture(cam)
<1>0. g \in Cam
  BY CancelPictureKeeps DEF Streams, Keeps
<1>1. ASSUME NEW s \in {"PREVIEW_STOPPED", "PREVIEWING"}, o \in Moved({Out(g, TRUE)}, s, s)
      PROVE  o \in Outcome /\ o.c = To(g, s)
  BY <1>0, <1>1, PictureMovedParts DEF States
<1>2. ASSUME NEW s \in {"RECORDING", "PREVIEWING"}, o \in Moved(cancelLiveSnapshot(cam), s, s),
             s \in RecordStates <=> cam.state \in RecordStates, cam.state # "PREPARE_SNAPSHOT"
      PROVE  DoneEffect(o.c) /\ o.ok \in BOOLEAN
  <2>1. PICK l : Cancelled(cam, l) /\ o \in Outcome /\ o.c = To(l, s)
    BY <1>2, CancelMovedParts DEF States
  <2> QED
    BY <1>2, <2>1, LiveDone DEF Outcome
<1>3. CASE cam.state = "PIC_TAKING"
  <2>1. o \in Moved({Out(g, TRUE)}, "PREVIEW_STOPPED", "PREVIEW_STOPPED")
    BY <1>3 DEF SnapshotDone
  <2> QED
    BY <1>1, <1>3, <2>1, PictureDone DEF Outcome
<1>4. CASE cam.state = "VIDEO_PIC_TAKING"
  <2>1. o \in Moved(cancelLiveSnapshot(cam), "RECORDING", "RECORDING")
    BY <1>4 DEF SnapshotDone
  <2> QED
    BY <1>2, <1>4, <2>1 DEF RecordStates
<1>5. CASE cam.state = "PREVIEW_PIC_TAKING"
  <2>1. o \in Moved(CancelCapture(cam), "PREVIEWING", "PREVIEWING")
    BY <1>5 DEF SnapshotDone
  <2>2. CASE Picture(cam)
    <3>1. o \in Moved({Out(g, TRUE)}, "PREVIEWING", "PREVIEWING")
      BY <2>1, <2>2 DEF CancelCapture
    <3> QED
      BY <1>1, <1>5, <3>1, PictureDone DEF Outcome
  <2>3. CASE ~Picture(cam)
    <3>1. o \in Moved(cancelLiveSnapshot(cam), "PREVIEWING", "PREVIEWING")
      BY <2>1, <2>3 DEF CancelCapture
    <3> QED
      BY <1>2, <1>5, <3>1 DEF RecordStates
  <2> QED
    BY <2>2, <2>3
<1>6. CASE cam.state \notin {"PIC_TAKING", "VIDEO_PIC_TAKING", "PREVIEW_PIC_TAKING"}
  <2>1. o = Out(cam, TRUE)
    BY <1>6 DEF SnapshotDone
  <2>2. o.c = cam /\ o.ok \in BOOLEAN
    BY <2>1 DEF Out
  <2> QED
    BY <2>2 DEF DoneEffect
<1> QED
  BY <1>3, <1>4, <1>5, <1>6

-----------------------------------------------------------------------------
(* Queues.                                                                 *)

\* Appending to a queue.
LEMMA AppendHas ==
  ASSUME NEW T, NEW q \in Seq(T), NEW y \in T, NEW S
  PROVE  /\ Append(q, y) \in Seq(T)
         /\ \A x : Has(Append(q, y), x) <=> Has(q, x) \/ x = y
         /\ Clear(Append(q, y), S) <=> Clear(q, S) /\ y \in S
         /\ AtMostOne(q, S) /\ y \in S => AtMostOne(Append(q, y), S)
         /\ Clear(q, S) => AtMostOne(Append(q, y), S)
<1> DEFINE w == Append(q, y)
<1>1. /\ w \in Seq(T) /\ Len(w) = Len(q) + 1 /\ w[Len(q) + 1] = y
      /\ \A i \in 1 .. Len(q) : w[i] = q[i]
  OBVIOUS
<1>2. DOMAIN w = 1 .. Len(q) + 1 /\ DOMAIN q = 1 .. Len(q) /\ Len(q) \in Nat
  BY <1>1
<1> HIDE DEF w
<1>3. ASSUME NEW x
      PROVE  Has(w, x) <=> Has(q, x) \/ x = y
  BY <1>1, <1>2 DEF Has
<1>4. Clear(w, S) <=> Clear(q, S) /\ y \in S
  BY <1>1, <1>2 DEF Clear
<1>5. AtMostOne(q, S) /\ y \in S => AtMostOne(w, S)
  BY <1>1, <1>2 DEF AtMostOne
<1>6. Clear(q, S) => AtMostOne(w, S)
  BY <1>1, <1>2 DEF AtMostOne, Clear
<1> QED
  BY <1>1, <1>3, <1>4, <1>5, <1>6 DEF w

\* Taking the first element of a queue.
LEMMA TailHas ==
  ASSUME NEW T, NEW q \in Seq(T), q # <<>>, NEW S
  PROVE  /\ Tail(q) \in Seq(T) /\ Head(q) \in T
         /\ \A x : Has(q, x) <=> Head(q) = x \/ Has(Tail(q), x)
         /\ Clear(q, S) <=> Head(q) \in S /\ Clear(Tail(q), S)
         /\ AtMostOne(q, S) => AtMostOne(Tail(q), S)
         /\ AtMostOne(q, S) /\ Head(q) \notin S => Clear(Tail(q), S)
<1> DEFINE w == Tail(q)
           n == Len(q)
<1>1. /\ w \in Seq(T) /\ Head(q) = q[1] /\ q[1] \in T /\ n \in Nat /\ n > 0
      /\ DOMAIN w = 1 .. n - 1 /\ DOMAIN q = 1 .. n
      /\ \A i \in 1 .. n - 1 : w[i] = q[i + 1]
  OBVIOUS
<1> HIDE DEF w, n
<1>2. \A i \in 2 .. n : q[i] = w[i - 1] /\ i - 1 \in 1 .. n - 1
  BY <1>1
<1>3. ASSUME NEW x
      PROVE  Has(q, x) <=> q[1] = x \/ Has(w, x)
  <2>1. ASSUME NEW i \in DOMAIN q, q[i] = x, q[1] # x
        PROVE  Has(w, x)
    <3>1. i \in 1 .. n /\ i # 1
      BY <1>1, <2>1
    <3>2. i \in 2 .. n
      BY <1>1, <3>1
    <3>3. i - 1 \in DOMAIN w /\ w[i - 1] = x
      BY <1>1, <1>2, <2>1, <3>2
    <3> QED
      BY <3>3 DEF Has
  <2>2. ASSUME NEW i \in DOMAIN w, w[i] = x
        PROVE  Has(q, x)
    <3>1. i + 1 \in DOMAIN q /\ q[i + 1] = x
      BY <1>1, <2>2
    <3> QED
      BY <3>1 DEF Has
  <2>3. q[1] = x => Has(q, x)
    BY <1>1 DEF Has
  <2> QED
    BY <2>1, <2>2, <2>3 DEF Has
<1>4. Clear(q, S) <=> q[1] \in S /\ Clear(w, S)
  <2>1. ASSUME Clear(q, S)
        PROVE  q[1] \in S /\ Clear(w, S)
    BY <1>1, <2>1 DEF Clear
  <2>2. ASSUME q[1] \in S, Clear(w, S), NEW i \in DOMAIN q
        PROVE  q[i] \in S
    <3>1. i \in 1 .. n
      BY <1>1, <2>2
    <3>2. CASE i = 1
      BY <2>2, <3>2
    <3>3. CASE i # 1
      <4>1. i \in 2 .. n
        BY <1>1, <3>1, <3>3
      <4>2. i - 1 \in DOMAIN w /\ w[i - 1] = q[i]
        BY <1>1, <1>2, <4>1
      <4> QED
        BY <2>2, <4>2 DEF Clear
    <3> QED
      BY <3>2, <3>3
  <2> QED
    BY <2>1, <2>2 DEF Clear
<1>5. ASSUME AtMostOne(q, S)
      PROVE  AtMostOne(w, S)
  <2> SUFFICES ASSUME NEW i \in 1 .. n - 1, NEW j \in 1 .. n - 1, w[i] \notin S, w[j] \notin S
               PROVE  i = j
    BY <1>1 DEF AtMostOne
  <2>1. i + 1 \in 1 .. n /\ j + 1 \in 1 .. n /\ q[i + 1] \notin S /\ q[j + 1] \notin S
    BY <1>1
  <2>2. i + 1 = j + 1
    BY <1>1, <1>5, <2>1 DEF AtMostOne
  <2> QED
    BY <2>2
<1>6. ASSUME AtMostOne(q, S), q[1] \notin S
      PROVE  Clear(w, S)
  <2> SUFFICES ASSUME NEW i \in 1 .. n - 1, w[i] \notin S
               PROVE  FALSE
    BY <1>1 DEF Clear
  <2>1. i + 1 \in 1 .. n /\ q[i + 1] \notin S /\ 1 \in 1 .. n
    BY <1>1
  <2>2. i + 1 = 1
    BY <1>1, <1>6, <2>1 DEF AtMostOne
  <2> QED
    BY <2>2
<1> QED
  BY <1>1, <1>3, <1>4, <1>5, <1>6 DEF w

\* w is list q without its element k.
Without(q, k, w) == w = SubSeq(q, 1, k - 1) \o SubSeq(q, k + 1, Len(q))

\* Taking an element out of a list.
LEMMA RemoveHas ==
  ASSUME NEW T, NEW q \in Seq(T), NEW k \in DOMAIN q, NEW w, Without(q, k, w), NEW S
  PROVE  /\ w \in Seq(T)
         /\ \A x : Has(w, x) => Has(q, x)
         /\ \A x : Has(q, x) => x = q[k] \/ Has(w, x)
         /\ Clear(q, S) => Clear(w, S)
         /\ AtMostOne(q, S) => AtMostOne(w, S)
         /\ AtMostOne(q, S) /\ q[k] \notin S => Clear(w, S)
<1> DEFINE n == Len(q)
           u == SubSeq(q, 1, k - 1)
           v == SubSeq(q, k + 1, Len(q))
           To0(i) == IF i < k THEN i ELSE i + 1
<1>1. n \in Nat /\ DOMAIN q = 1 .. n /\ k \in 1 .. n
  OBVIOUS
<1>2. /\ u \in Seq(T) /\ Len(u) = k - 1
      /\ \A i \in 1 .. k - 1 : u[i] = q[i]
  BY <1>1
<1>3. /\ v \in Seq(T) /\ Len(v) = n - k
      /\ \A i \in 1 .. n - k : v[i] = q[i + k]
  BY <1>1
<1>4. w = u \o v
  BY DEF Without
<1> HIDE DEF u, v
<1>5. w \in Seq(T) /\ DOMAIN w = 1 .. n - 1
  <2>1. u \o v \in Seq(T) /\ Len(u \o v) = Len(u) + Len(v)
    BY <1>2, <1>3, ConcatProperties
  <2>2. Len(u) + Len(v) = n - 1
    BY <1>1, <1>2, <1>3
  <2>3. w \in Seq(T) /\ Len(w) = n - 1
    BY <1>4, <2>1, <2>2
  <2> QED
    BY <2>3
<1>6. \A i \in 1 .. n - 1 : To0(i) \in 1 .. n /\ To0(i) # k /\ w[i] = q[To0(i)]
  <2> SUFFICES ASSUME NEW i \in 1 .. n - 1
               PROVE  To0(i) \in 1 .. n /\ To0(i) # k /\ w[i] = q[To0(i)]
    OBVIOUS
  <2>1. CASE i < k
    BY <1>1, <1>2, <1>3, <1>4, <2>1
  <2>2. CASE ~(i < k)
    <3>a. i \in 1 .. Len(u) + Len(v) /\ i > Len(u) /\ i - (k - 1) \in 1 .. n - k
      BY <1>1, <1>2, <1>3, <2>2
    <3>b. w[i] = v[i - Len(u)]
      <4>1. \A j \in 1 .. Len(u) + Len(v) :
              (u \o v)[j] = IF j <= Len(u) THEN u[j] ELSE v[j - Len(u)]
        BY <1>2, <1>3, ConcatProperties
      <4>2. (u \o v)[i] = IF i <= Len(u) THEN u[i] ELSE v[i - Len(u)]
        BY <3>a, <4>1
      <4>3. ~(i <= Len(u))
        BY <1>1, <1>2, <2>2
      <4> QED
        BY <1>4, <4>2, <4>3
    <3>1. w[i] = v[i - (k - 1)] /\ i - (k - 1) \in 1 .. n - k
      BY <1>2, <3>a, <3>b
    <3>2. v[i - (k - 1)] = q[(i - (k - 1)) + k]
      BY <1>3, <3>1
    <3> QED
      BY <1>1, <2>2, <3>1, <3>2
  <2> QED
    BY <2>1, <2>2
<1>7. \A i, j \in 1 .. n - 1 : To0(i) = To0(j) => i = j
  BY <1>1
<1>8. ASSUME NEW i \in 1 .. n, i # k
      PROVE  \E j \in 1 .. n - 1 : To0(j) = i
  <2>1. CASE i < k
    BY <1>1, <2>1
  <2>2. CASE i > k
    <3>1. i - 1 \in 1 .. n - 1 /\ To0(i - 1) = i
      BY <1>1, <2>2
    <3> QED
      BY <3>1
  <2> QED
    BY <1>1, <1>8, <2>1, <2>2
<1> HIDE DEF To0, n
<1>9. \A x : Has(w, x) => Has(q, x)
  BY <1>1, <1>5, <1>6 DEF Has
<1>10. \A x : Has(q, x) => x = q[k] \/ Has(w, x)
  <2> SUFFICES ASSUME NEW i \in 1 .. n, i # k
               PROVE  Has(w, q[i])
    BY <1>1 DEF Has
  <2>1. PICK j \in 1 .. n - 1 : To0(j) = i
    BY <1>8
  <2> QED
    BY <1>5, <1>6, <2>1 DEF Has
<1>11. Clear(q, S) => Clear(w, S)
  BY <1>1, <1>5, <1>6 DEF Clear
<1>12. ASSUME AtMostOne(q, S)
       PROVE  AtMostOne(w, S)
  <2> SUFFICES ASSUME NEW i \in 1 .. n - 1, NEW j \in 1 .. n - 1, w[i] \notin S, w[j] \notin S
               PROVE  i = j
    BY <1>5 DEF AtMostOne
  <2>1. To0(i) \in 1 .. n /\ To0(j) \in 1 .. n /\ q[To0(i)] \notin S /\ q[To0(j)] \notin S
    BY <1>6
  <2>2. To0(i) = To0(j)
    BY <1>1, <1>12, <2>1 DEF AtMostOne
  <2> QED
    BY <1>7, <2>2
<1>13. ASSUME AtMostOne(q, S), q[k] \notin S
       PROVE  Clear(w, S)
  BY <1>1, <1>5, <1>6, <1>13 DEF AtMostOne, Clear
<1> QED
  BY <1>5, <1>9, <1>10, <1>11, <1>12, <1>13

\* The events an operation queues.
LEMMA EventsGrow ==
  ASSUME NEW q \in Seq(Events), NEW v \in {<<>>, <<"SNAPSHOT_DONE">>}
  PROVE  /\ q \o v \in Seq(Events)
         /\ \A x : Has(q, x) => Has(q \o v, x)
         /\ \A x : x # "SNAPSHOT_DONE" /\ Has(q \o v, x) => Has(q, x)
         /\ Clear(q, EventOthers) <=> Clear(q \o v, EventOthers)
         /\ AtMostOne(q, EventOthers) => AtMostOne(q \o v, EventOthers)
<1>1. CASE v = <<>>
  <2>1. q \o v = q
    BY <1>1
  <2> QED
    BY <2>1
<1>2. CASE v = <<"SNAPSHOT_DONE">>
  <2>1. q \o v = Append(q, "SNAPSHOT_DONE")
    BY <1>2
  <2>2. "SNAPSHOT_DONE" \in Events /\ "SNAPSHOT_DONE" \in EventOthers
    BY DEF Events, EventOthers
  <2> QED
    BY <2>1, <2>2, AppendHas
<1> QED
  BY <1>1, <1>2

\* The commands that calls begin with.
LEMMA FirstShape ==
  ASSUME NEW op \in DOMAIN First
  PROVE  /\ First[op] \in Asked /\ First[op] \in Api /\ op # "idle"
         /\ First[op] \notin {"SET_PARAMS_STOP", "SET_PARAMS_COMMIT", "SET_PARAMS_RESTART",
                              "TAKE_PICTURE"}
         /\ First[op] = "PRE_TAKE_PICTURE" => op \in Takes
         /\ First[op] = "PREPARE_SNAPSHOT" => op = "take_flash"
  BY DEF First, Asked, Api, Takes

\* The commands that calls go on with.
LEMMA FollowShape ==
  ASSUME NEW op, NEW api, NEW ok, NEW n \in Follow(op, api, ok)
  PROVE  \/ n = "none"
         \/ n = "TAKE_PICTURE" /\ api = "PRE_TAKE_PICTURE"
         \/ n = "PRE_TAKE_PICTURE" /\ api = "PREPARE_SNAPSHOT" /\ op = "take_flash"
         \/ n = "PREPARE_SNAPSHOT" /\ api = "TAKE_PICTURE" /\ op = "take_retro"
         \/ n = "START_RECORDING" /\ api = "PRE_START_RECORDING"
         \/ n = "SET_PARAMS_STOP" /\ api = "SET_PARAMS"
         \/ n = "SET_PARAMS_COMMIT" /\ api = "SET_PARAMS" /\ ~cam.restart
         \/ n = "SET_PARAMS_COMMIT" /\ api = "SET_PARAMS_STOP" /\ ok
         \/ n = "SET_PARAMS_RESTART" /\ api = "SET_PARAMS_COMMIT" /\ cam.restart
  BY DEF Follow, AfterPreStart, AfterPrepare

-----------------------------------------------------------------------------
(* CameraInv, for any callers.                                             *)

\* Everything but the camera and the answers has its type after a step.
LEMMA CallsTyped ==
  ASSUME TypeOK, NEW c \in Callers, NEW op \in DOMAIN First \cup {"idle"},
         NEW n \in Api \cup {"none"}
  PROVE  [call EXCEPT ![c] = [op |-> op, api |-> n]] \in [Callers -> Calls]
  BY DEF TypeOK, Calls

\* A call begins.
LEMMA BeginCamera ==
  ASSUME CameraInv, NEW c \in Callers, NEW op \in CallsOf[c], Begin(c, op)
  PROVE  /\ CameraInv'
         /\ op \in DOMAIN First
         /\ cam'.state = cam.state /\ cam'.ch = cam.ch /\ cam'.on = cam.on
         /\ cam'.prep = cam.prep /\ cam'.ready = cam.ready /\ cam'.restart = cam.restart
         /\ op \in Takes => cam'.retro = (op = "take_retro")
<1>0. TypeOK /\ Streams(cam) /\ SyncAnswered
  BY DEF CameraInv
<1>1. op \in DOMAIN First
  BY CallsAssumption
<1>2. First[op] \in Api
  BY <1>1, FirstShape
<1> DEFINE p == (op = "take_retro")
           d == [cam EXCEPT !.retro = p]
<1>3. p \in BOOLEAN /\ cam \in Cam
  BY <1>0 DEF TypeOK
<1>4. cam' = IF op \in Takes THEN d ELSE cam
  BY DEF Begin
<1> HIDE DEF p
<1>5. Fields(d, cam.state, cam.ch, cam.on, cam.snap, cam.live, p, cam.prep, cam.ready,
             cam.restart)
  BY <1>3, RetroFields
<1> HIDE DEF d
<1>6. /\ cam' \in Cam /\ cam'.state = cam.state /\ cam'.ch = cam.ch /\ cam'.on = cam.on
      /\ cam'.snap = cam.snap /\ cam'.live = cam.live
      /\ cam'.prep = cam.prep /\ cam'.ready = cam.ready /\ cam'.restart = cam.restart
      /\ op \in Takes => cam'.retro = p
  BY <1>3, <1>4, <1>5 DEF Fields
<1>7. Streams(cam')
  BY <1>0, <1>6 DEF Streams, Sound
<1>8. apiQ' \in Seq(Api \cup {"EXIT"})
  BY <1>0, <1>2, AppendHas DEF TypeOK, Begin
<1>9. call' \in [Callers -> Calls]
  BY <1>0, <1>1, <1>2, CallsTyped DEF Begin
<1>10. /\ evtQ' = evtQ /\ results' = results /\ syncWait' = syncWait /\ alive' = alive
       /\ closing' = closing
  BY DEF Begin
<1>11. TypeOK' /\ SyncAnswered'
  BY <1>0, <1>6, <1>8, <1>9, <1>10 DEF TypeOK, SyncAnswered, Pending
<1> QED
  BY <1>1, <1>6, <1>7, <1>11 DEF CameraInv, p

\* Taking a result out of the list.
LEMMA TakeList ==
  ASSUME TypeOK, NEW i \in DOMAIN results,
         results' = SubSeq(results, 1, i - 1) \o SubSeq(results, i + 1, Len(results))
  PROVE  /\ results' \in Seq(Results) /\ results[i] \in Results
         /\ \A x : Has(results', x) => Has(results, x)
         /\ \A x : Has(results, x) => x = results[i] \/ Has(results', x)
         /\ Clear(results, ListOthers) => Clear(results', ListOthers)
         /\ AtMostOne(results, ListOthers) => AtMostOne(results', ListOthers)
         /\ AtMostOne(results, ListOthers) /\ results[i] \notin ListOthers
              => Clear(results', ListOthers)
<1> DEFINE w == results'
           S == ListOthers
           T == Results
<1>1. results \in Seq(T)
  BY DEF TypeOK, Results
<1>2. Without(results, i, w)
  BY DEF Without
<1> HIDE DEF w, S, T
<1>3. results[i] \in T
  BY <1>1
<1>4. /\ w \in Seq(T)
      /\ \A x : Has(w, x) => Has(results, x)
      /\ \A x : Has(results, x) => x = results[i] \/ Has(w, x)
      /\ Clear(results, S) => Clear(w, S)
      /\ AtMostOne(results, S) => AtMostOne(w, S)
      /\ AtMostOne(results, S) /\ results[i] \notin S => Clear(w, S)
  BY <1>1, <1>2, RemoveHas
<1> QED
  BY <1>3, <1>4 DEF w, S, T

\* What a caller that takes its result i goes on with: command n, or nothing.
TakesAndSends(c, i, n) ==
  /\ i \in DOMAIN results /\ results[i].api = call[c].api
  /\ n \in Follow(call[c].op, call[c].api, results[i].ok) /\ n \in Api \cup {"none"}
  /\ results' = SubSeq(results, 1, i - 1) \o SubSeq(results, i + 1, Len(results))
  /\ n = "none" => apiQ' = apiQ /\ call' = [call EXCEPT ![c] = Idle]
  /\ n # "none" => /\ apiQ' = Append(apiQ, n)
                   /\ call' = [call EXCEPT ![c] = [op |-> call[c].op, api |-> n]]

\* A caller takes its result and goes on.
LEMMA TakeShape ==
  ASSUME TypeOK, NEW c \in Callers, Take(c)
  PROVE  \E i, n : TakesAndSends(c, i, n)
<1>1. PICK i \in FirstOf(call[c].api) :
        \E n \in Follow(call[c].op, call[c].api, results[i].ok) :
          /\ results' = SubSeq(results, 1, i - 1) \o SubSeq(results, i + 1, Len(results))
          /\ apiQ' = IF n = "none" THEN apiQ ELSE Append(apiQ, n)
          /\ call' = [call EXCEPT ![c] = IF n = "none" THEN Idle
                                         ELSE [op |-> @.op, api |-> n]]
  BY DEF Take
<1>2. PICK n \in Follow(call[c].op, call[c].api, results[i].ok) :
          /\ results' = SubSeq(results, 1, i - 1) \o SubSeq(results, i + 1, Len(results))
          /\ apiQ' = IF n = "none" THEN apiQ ELSE Append(apiQ, n)
          /\ call' = [call EXCEPT ![c] = IF n = "none" THEN Idle
                                         ELSE [op |-> @.op, api |-> n]]
  BY <1>1
<1>3. n \in Api \cup {"none"}
  <2> DEFINE op == call[c].op
             api == call[c].api
             ok == results[i].ok
  <2>1. n \in Follow(op, api, ok)
    OBVIOUS
  <2> HIDE DEF op, api, ok
  <2> QED
    BY <2>1, FollowShape DEF Api
<1>4. i \in DOMAIN results /\ results[i].api = call[c].api
  BY DEF FirstOf
<1>5. n = "none" => apiQ' = apiQ /\ call' = [call EXCEPT ![c] = Idle]
  BY <1>2
<1>6. n # "none" => /\ apiQ' = Append(apiQ, n)
                    /\ call' = [call EXCEPT ![c] = [op |-> call[c].op, api |-> n]]
  BY <1>2 DEF TypeOK
<1>7. TakesAndSends(c, i, n)
  BY <1>2, <1>3, <1>4, <1>5, <1>6 DEF TakesAndSends
<1> QED
  BY <1>7

\* A caller takes its result.
LEMMA TakeCamera ==
  ASSUME CameraInv, NEW c \in Callers, Take(c)
  PROVE  CameraInv'
<1>0. TypeOK /\ Streams(cam) /\ SyncAnswered
  BY DEF CameraInv
<1>1. PICK i, n : TakesAndSends(c, i, n)
  BY <1>0, TakeShape
<1>2. results' \in Seq(Results)
  BY <1>0, <1>1, TakeList DEF TakesAndSends
<1>5. /\ evtQ' = evtQ /\ cam' = cam /\ syncWait' = syncWait /\ alive' = alive
      /\ closing' = closing
  BY DEF Take
<1>3. CASE n = "none"
  <2>1. apiQ' = apiQ /\ call' = [call EXCEPT ![c] = Idle] /\ Idle \in Calls
    BY <1>1, <1>3 DEF TakesAndSends, Idle, Calls
  <2>2. call' \in [Callers -> Calls]
    BY <1>0, <2>1 DEF TypeOK
  <2> QED
    BY <1>0, <1>2, <1>5, <2>1, <2>2 DEF CameraInv, TypeOK, SyncAnswered, Pending, Results
<1>4. CASE n # "none"
  <2>1. call[c].op \in DOMAIN First \cup {"idle"} /\ n \in Api
    BY <1>0, <1>1, <1>4 DEF TypeOK, Calls, TakesAndSends
  <2>4. apiQ' = Append(apiQ, n) /\ call' = [call EXCEPT ![c] = [op |-> call[c].op, api |-> n]]
    BY <1>1, <1>4 DEF TakesAndSends
  <2>2. call' \in [Callers -> Calls]
    BY <1>0, <2>1, <2>4, CallsTyped
  <2>3. apiQ' \in Seq(Api \cup {"EXIT"})
    BY <1>0, <2>1, <2>4, AppendHas DEF TypeOK
  <2> QED
    BY <1>0, <1>2, <1>5, <2>2, <2>3 DEF CameraInv, TypeOK, SyncAnswered, Pending, Results
<1> QED
  BY <1>3, <1>4

\* The effect of a command on the queues.
LEMMA EffectQueues ==
  ASSUME TypeOK, NEW e \in Api, Effect(e)
  PROVE  /\ evtQ' \in Seq(Events) /\ results' \in Seq(Results)
         /\ syncWait' = syncWait
         /\ \A x : Has(evtQ, x) => Has(evtQ', x)
         /\ cam' \in Cam /\ Streams(cam')
<1>1. CASE \E o : Answer(e, o) /\ AnswerEffect(e, cam, o)
  <2>1. PICK o : Answer(e, o) /\ AnswerEffect(e, cam, o)
    BY <1>1
  <2>2. o.ev \in {<<>>, <<"SNAPSHOT_DONE">>} /\ o.ok \in BOOLEAN
    BY <2>1 DEF AnswerEffect, Outcome
  <2>3. evtQ' = evtQ \o o.ev /\ cam' = o.c /\ syncWait' = syncWait
        /\ results' = Append(results, [api |-> e, ok |-> o.ok])
    BY <2>1 DEF Answer
  <2>4. [api |-> e, ok |-> o.ok] \in Results
    BY <2>2 DEF Results
  <2>5. results' \in Seq(Results)
    BY <2>3, <2>4, AppendHas DEF TypeOK
  <2>6. evtQ' \in Seq(Events) /\ \A x : Has(evtQ, x) => Has(evtQ', x)
    BY <2>2, <2>3, EventsGrow DEF TypeOK
  <2>7. cam' \in Cam /\ Streams(cam')
    BY <2>1, <2>3 DEF AnswerEffect, CamEffect
  <2> QED
    BY <2>3, <2>5, <2>6, <2>7
<1>2. CASE \E d : Silent(d) /\ SilentEffect(e, cam, d)
  <2>1. PICK d : Silent(d) /\ SilentEffect(e, cam, d)
    BY <1>2
  <2> QED
    BY <2>1 DEF Silent, SilentEffect, CamEffect, TypeOK
<1> QED
  BY <1>1, <1>2 DEF Effect

\* The state machine takes a command.
LEMMA ApiCamera ==
  ASSUME CameraInv, ApiStep, UNCHANGED <<call, closing>>
  PROVE  CameraInv' /\ Head(apiQ) \in Api /\ Effect(Head(apiQ))
<1>0. TypeOK /\ Streams(cam) /\ SyncAnswered /\ cam \in Cam
  BY DEF CameraInv, TypeOK
<1>1. apiQ # <<>> /\ Head(apiQ) # "EXIT" /\ stateMachine(Head(apiQ)) /\ apiQ' = Tail(apiQ)
      /\ alive' = alive
  BY DEF ApiStep
<1>2. apiQ' \in Seq(Api \cup {"EXIT"}) /\ Head(apiQ) \in Api \cup {"EXIT"}
  BY <1>0, <1>1, TailHas DEF TypeOK
<1>3. Head(apiQ) \in Api
  BY <1>1, <1>2
<1>4. Effect(Head(apiQ))
  BY <1>0, <1>1, <1>3, StateMachineEffect
<1>5. /\ evtQ' \in Seq(Events) /\ results' \in Seq(Results)
      /\ syncWait' = syncWait
      /\ \A x : Has(evtQ, x) => Has(evtQ', x)
      /\ cam' \in Cam /\ Streams(cam')
  BY <1>0, <1>3, <1>4, EffectQueues
<1>6. SyncAnswered'
  BY <1>0, <1>5 DEF SyncAnswered, Pending, Has
<1> QED
  BY <1>0, <1>1, <1>2, <1>3, <1>4, <1>5, <1>6 DEF CameraInv, TypeOK

\* Events that answer a command.
LEMMA AnswerEvents ==
  ASSUME TypeOK, Streams(cam), EventPrepSnapshotDone \/ EventReadyForSnapshot
  PROVE  /\ results' \in Seq(Results) /\ syncWait' = syncWait
         /\ cam' \in Cam /\ Streams(cam') /\ cam'.ch = cam.ch /\ cam'.restart = cam.restart
         /\ cam'.retro = cam.retro /\ cam'.prep = cam.prep /\ cam'.ready = cam.ready
         /\ cam'.state \in RecordStates <=> cam.state \in RecordStates
         /\ Quiet(cam) => Quiet(cam')
<1> DEFINE d == [cam EXCEPT !.state = "PREVIEWING"]
<1>1. \/ cam' = cam
      \/ cam.state = "PREPARE_SNAPSHOT" /\ cam' = d
  <2>1. CASE EventPrepSnapshotDone
    <3>1. cam' = IF cam.state = "PREPARE_SNAPSHOT" THEN d ELSE cam
      BY <2>1, Zenon DEF EventPrepSnapshotDone, To
    <3> HIDE DEF d
    <3> QED
      BY <3>1
  <2>2. CASE EventReadyForSnapshot
    BY <2>2 DEF EventReadyForSnapshot
  <2> QED
    BY <2>1, <2>2
<1>2. cam \in Cam /\ "PREVIEWING" \in States
  BY DEF TypeOK, States
<1>3. Fields(d, "PREVIEWING", cam.ch, cam.on, cam.snap, cam.live, cam.retro, cam.prep, cam.ready,
             cam.restart)
  BY <1>2, ToFields
<1>4. \/ results' = results
      \/ results' = Append(results, [api |-> "PREPARE_SNAPSHOT", ok |-> TRUE])
      \/ results' = Append(results, [api |-> "TAKE_PICTURE", ok |-> TRUE])
  BY DEF EventPrepSnapshotDone, EventReadyForSnapshot
<1>5. /\ [api |-> "PREPARE_SNAPSHOT", ok |-> TRUE] \in Results
      /\ [api |-> "TAKE_PICTURE", ok |-> TRUE] \in Results
  BY DEF Results, Api
<1>6. results' \in Seq(Results)
  <2> DEFINE r == [api |-> "PREPARE_SNAPSHOT", ok |-> TRUE]
             t == [api |-> "TAKE_PICTURE", ok |-> TRUE]
             R == Results
  <2>1. results \in Seq(R) /\ r \in R /\ t \in R
    BY <1>5 DEF TypeOK
  <2>2. results' = results \/ results' = Append(results, r) \/ results' = Append(results, t)
    BY <1>4
  <2> HIDE DEF r, t, R
  <2>3. results' \in Seq(R)
    BY <2>1, <2>2, AppendHas
  <2> QED
    BY <2>3 DEF R
<1>7. syncWait' = syncWait
  BY DEF EventPrepSnapshotDone, EventReadyForSnapshot
<1> HIDE DEF d
<1>8. CASE cam' = cam
  BY <1>2, <1>6, <1>7, <1>8
<1>9. CASE cam.state = "PREPARE_SNAPSHOT" /\ cam' = d
  BY <1>3, <1>6, <1>7, <1>9 DEF Fields, Streams, Sound, RecordStates, Quiet
<1> QED
  BY <1>1, <1>8, <1>9 DEF d

\* The end of a picture, for the camera and the list of results.
LEMMA SnapshotDoneStep ==
  ASSUME TypeOK, Streams(cam), EventSnapshotDone
  PROVE  /\ DoneEffect(cam') /\ syncWait' = FALSE /\ results' \in Seq(Results)
         /\ \/ results' = results
            \/ \E x \in ListOthers : results' = Append(results, x)
<1>0. cam \in Cam /\ results \in Seq(Results)
  BY DEF TypeOK
<1>1. PICK o \in SnapshotDone(cam) : cam' = o.c /\ results' = SnapshotResult(o)
  BY DEF EventSnapshotDone
<1>2. DoneEffect(o.c) /\ o.ok \in BOOLEAN
  BY <1>0, SnapshotDoneStreams
<1> DEFINE x == [api |-> "SNAPSHOT_DONE", ok |-> o.ok]
<1>3. x \in ListOthers
  BY <1>2 DEF ListOthers, Results, Unasked
<1>4. results' = results \/ results' = Append(results, x)
  BY <1>1 DEF SnapshotResult
<1> HIDE DEF x
<1>5. x \in Results
  BY <1>3 DEF ListOthers
<1>6. results' \in Seq(Results)
  BY <1>0, <1>4, <1>5, AppendHas
<1>7. syncWait' = FALSE
  BY DEF EventSnapshotDone
<1>8. DoneEffect(cam')
  BY <1>1, <1>2
<1> QED
  BY <1>3, <1>4, <1>6, <1>7, <1>8

\* The state machine takes an event.
LEMMA EvtCamera ==
  ASSUME CameraInv, EvtStep, UNCHANGED <<call, closing>>
  PROVE  CameraInv'
<1>0. TypeOK /\ Streams(cam) /\ SyncAnswered /\ cam \in Cam
  BY DEF CameraInv, TypeOK
<1>1. evtQ # <<>> /\ evtQ' = Tail(evtQ) /\ apiQ' = apiQ /\ alive' = alive
  BY DEF EvtStep
<1>2. evtQ' \in Seq(Events) /\ \A x : Has(evtQ, x) <=> Head(evtQ) = x \/ Has(evtQ', x)
  BY <1>0, <1>1, TailHas DEF TypeOK
<1>3. CASE Head(evtQ) = "SNAPSHOT_DONE" /\ EventSnapshotDone
  <2>1. DoneEffect(cam') /\ syncWait' = FALSE /\ results' \in Seq(Results)
    BY <1>0, <1>3, SnapshotDoneStep
  <2> QED
    BY <1>0, <1>1, <1>2, <2>1 DEF DoneEffect, CameraInv, TypeOK, SyncAnswered
<1>4. CASE \/ Head(evtQ) = "PREP_SNAPSHOT_DONE" /\ EventPrepSnapshotDone
           \/ Head(evtQ) = "READY_FOR_SNAPSHOT" /\ EventReadyForSnapshot
  <2>1. /\ results' \in Seq(Results) /\ syncWait' = syncWait
        /\ cam' \in Cam /\ Streams(cam')
    BY <1>0, <1>4, AnswerEvents
  <2>2. SyncAnswered'
    BY <1>0, <1>2, <1>4, <2>1 DEF SyncAnswered, Pending, Has
  <2> QED
    BY <1>0, <1>1, <1>2, <2>1, <2>2 DEF CameraInv, TypeOK
<1> QED
  BY <1>3, <1>4 DEF EvtStep

\* The state machine takes the EXIT command.
LEMMA ExitCamera ==
  ASSUME CameraInv, ExitStep, UNCHANGED <<call, closing>>
  PROVE  CameraInv'
<1>0. TypeOK
  BY DEF CameraInv
<1>1. apiQ' \in Seq(Api \cup {"EXIT"})
  BY <1>0, TailHas DEF TypeOK, ExitStep
<1> QED
  BY <1>1 DEF CameraInv, TypeOK, SyncAnswered, Pending, ExitStep

\* The live snapshot thread starts the capture, gives up or sends a CANCEL_PICTURE.
LEMMA LiveTakeCamera ==
  ASSUME CameraInv, takeLiveSnapshot_internal
  PROVE  /\ CameraInv'
         /\ cam'.state = cam.state /\ cam'.ch = cam.ch /\ cam'.on = cam.on
         /\ cam'.retro = cam.retro /\ cam'.prep = cam.prep /\ cam'.ready = cam.ready
         /\ cam'.restart = cam.restart
<1>0. TypeOK /\ Streams(cam) /\ SyncAnswered /\ cam \in Cam
  BY DEF CameraInv, TypeOK
<1> DEFINE y == cam.snap \cup {"live"}
           d == [cam EXCEPT !.live = "idle", !.snap = y]
           g == [cam EXCEPT !.live = "idle"]
<1>1. y \in SUBSET {"zsl", "cap", "live"}
  BY <1>0, CamFields
<1>2. /\ cam.live = "take"
      /\ cam' = g \/ ("VIDEO" \in cam.ch /\ cam' = d)
      /\ apiQ' = apiQ \/ apiQ' = Append(apiQ, "CANCEL_PICTURE")
      /\ UNCHANGED <<evtQ, results, syncWait, alive, call, closing>>
  BY Zenon DEF takeLiveSnapshot_internal
<1> HIDE DEF y
<1>3. Fields(d, cam.state, cam.ch, cam.on, y, "idle", cam.retro, cam.prep, cam.ready, cam.restart)
  BY <1>0, <1>1, LiveSnapFields
<1>4. Fields(g, cam.state, cam.ch, cam.on, cam.snap, "idle", cam.retro, cam.prep, cam.ready,
             cam.restart)
  BY <1>0, LiveFields
<1> HIDE DEF d, g
<1>5. cam.state = "VIDEO_PIC_TAKING"
  BY <1>0, <1>2 DEF Streams
<1>6. /\ cam' \in Cam /\ Streams(cam')
      /\ cam'.state = cam.state /\ cam'.ch = cam.ch /\ cam'.on = cam.on
      /\ cam'.retro = cam.retro /\ cam'.prep = cam.prep /\ cam'.ready = cam.ready
      /\ cam'.restart = cam.restart
  BY <1>0, <1>2, <1>3, <1>4, <1>5 DEF Fields, Streams, Sound, RecordStates
<1>7. apiQ' \in Seq(Api \cup {"EXIT"})
  <2>1. "CANCEL_PICTURE" \in Api \cup {"EXIT"}
    BY DEF Api
  <2> QED
    BY <1>0, <1>2, <2>1, AppendHas DEF TypeOK
<1> QED
  BY <1>0, <1>2, <1>6, <1>7 DEF CameraInv, TypeOK, SyncAnswered, Pending

\* The live snapshot thread ends the capture.
LEMMA LiveCancelCamera ==
  ASSUME CameraInv, cancelLiveSnapshot_internal
  PROVE  /\ CameraInv'
         /\ cam'.state = cam.state /\ cam'.ch = cam.ch /\ cam'.on = cam.on
         /\ cam'.retro = cam.retro /\ cam'.prep = cam.prep /\ cam'.ready = cam.ready
         /\ cam'.restart = cam.restart
<1>0. TypeOK /\ Streams(cam) /\ SyncAnswered /\ cam \in Cam
  BY DEF CameraInv, TypeOK
<1> DEFINE y == cam.snap \ {"live"}
           d == [cam EXCEPT !.live = "idle", !.snap = y]
<1>1. y \in SUBSET {"zsl", "cap", "live"} /\ "live" \notin y
  BY <1>0, CamFields
<1>2. cam' = d /\ UNCHANGED <<apiQ, evtQ, results, syncWait, alive, call, closing>>
  BY DEF cancelLiveSnapshot_internal
<1> HIDE DEF y
<1>3. Fields(d, cam.state, cam.ch, cam.on, y, "idle", cam.retro, cam.prep, cam.ready, cam.restart)
  BY <1>0, <1>1, LiveSnapFields
<1> HIDE DEF d
<1>6. /\ cam' \in Cam /\ Streams(cam')
      /\ cam'.state = cam.state /\ cam'.ch = cam.ch /\ cam'.on = cam.on
      /\ cam'.retro = cam.retro /\ cam'.prep = cam.prep /\ cam'.ready = cam.ready
      /\ cam'.restart = cam.restart
  BY <1>0, <1>1, <1>2, <1>3 DEF Fields, Streams, Sound
<1> QED
  BY <1>0, <1>2, <1>6 DEF CameraInv, TypeOK, SyncAnswered, Pending

\* The post-processor asks for the capture channel to be stopped.
LEMMA StopCaptureCamera ==
  ASSUME CameraInv, stopCapture
  PROVE  CameraInv'
<1>0. TypeOK
  BY DEF CameraInv
<1>1. "STOP_CAPTURE_CHANNEL" \in Api \cup {"EXIT"} /\ apiQ' = Append(apiQ, "STOP_CAPTURE_CHANNEL")
  BY DEF Api, stopCapture
<1>2. apiQ' \in Seq(Api \cup {"EXIT"})
  BY <1>0, <1>1, AppendHas DEF TypeOK
<1> QED
  BY <1>2 DEF CameraInv, TypeOK, SyncAnswered, Pending, stopCapture

\* The callback thread reports the last picture.
LEMMA AllPicturesCamera ==
  ASSUME CameraInv, AllPictures
  PROVE  CameraInv'
<1>0. TypeOK /\ Streams(cam)
  BY DEF CameraInv
<1>1. evtQ' = Append(evtQ, "SNAPSHOT_DONE") /\ "SNAPSHOT_DONE" \in Events
  BY DEF AllPictures, Events
<1>2. evtQ' \in Seq(Events) /\ Has(evtQ', "SNAPSHOT_DONE")
  BY <1>0, <1>1, AppendHas DEF TypeOK
<1> QED
  BY <1>0, <1>2 DEF AllPictures, CameraInv, TypeOK, SyncAnswered, Pending, Has

\* The flash estimation comes to its end.
LEMMA PrepareDoneCamera ==
  ASSUME CameraInv, PrepareDone
  PROVE  /\ CameraInv'
         /\ cam'.state = cam.state /\ cam'.ch = cam.ch /\ cam'.on = cam.on
         /\ cam'.retro = cam.retro /\ cam'.restart = cam.restart
         /\ ~cam'.prep /\ cam'.ready = cam.ready
<1>0. TypeOK /\ Streams(cam) /\ SyncAnswered /\ cam \in Cam
  BY DEF CameraInv, TypeOK
<1> DEFINE d == [cam EXCEPT !.prep = FALSE]
           x == "PREP_SNAPSHOT_DONE"
<1>1. /\ cam' = d /\ evtQ' = Append(evtQ, x) /\ x \in Events
      /\ UNCHANGED <<apiQ, results, syncWait, alive, call, closing>>
  BY DEF PrepareDone, Events
<1>2. Fields(d, cam.state, cam.ch, cam.on, cam.snap, cam.live, cam.retro, FALSE, cam.ready,
             cam.restart)
  BY <1>0, PrepFields
<1> HIDE DEF d, x
<1>3. evtQ' \in Seq(Events) /\ \A z : Has(evtQ, z) => Has(evtQ', z)
  BY <1>0, <1>1, AppendHas DEF TypeOK
<1>4. /\ cam' \in Cam /\ Streams(cam')
      /\ cam'.state = cam.state /\ cam'.ch = cam.ch /\ cam'.on = cam.on
      /\ cam'.retro = cam.retro /\ cam'.restart = cam.restart
      /\ ~cam'.prep /\ cam'.ready = cam.ready
  BY <1>0, <1>1, <1>2 DEF Fields, Streams, Sound
<1>5. SyncAnswered'
  BY <1>0, <1>1, <1>3 DEF SyncAnswered, Pending, Has
<1> QED
  BY <1>0, <1>1, <1>3, <1>4, <1>5 DEF CameraInv, TypeOK

\* The last retro frame arrives.
LEMMA RetroDoneCamera ==
  ASSUME CameraInv, RetroDone
  PROVE  /\ CameraInv'
         /\ cam'.state = cam.state /\ cam'.ch = cam.ch /\ cam'.on = cam.on
         /\ cam'.retro = cam.retro /\ cam'.restart = cam.restart
         /\ ~cam'.ready /\ cam'.prep = cam.prep
<1>0. TypeOK /\ Streams(cam) /\ SyncAnswered /\ cam \in Cam
  BY DEF CameraInv, TypeOK
<1> DEFINE d == [cam EXCEPT !.ready = FALSE]
           x == "READY_FOR_SNAPSHOT"
<1>1. /\ cam' = d /\ evtQ' = Append(evtQ, x) /\ x \in Events
      /\ UNCHANGED <<apiQ, results, syncWait, alive, call, closing>>
  BY DEF RetroDone, Events
<1>2. Fields(d, cam.state, cam.ch, cam.on, cam.snap, cam.live, cam.retro, cam.prep, FALSE,
             cam.restart)
  BY <1>0, ReadyFields
<1> HIDE DEF d, x
<1>3. evtQ' \in Seq(Events) /\ \A z : Has(evtQ, z) => Has(evtQ', z)
  BY <1>0, <1>1, AppendHas DEF TypeOK
<1>4. /\ cam' \in Cam /\ Streams(cam')
      /\ cam'.state = cam.state /\ cam'.ch = cam.ch /\ cam'.on = cam.on
      /\ cam'.retro = cam.retro /\ cam'.restart = cam.restart
      /\ ~cam'.ready /\ cam'.prep = cam.prep
  BY <1>0, <1>1, <1>2 DEF Fields, Streams, Sound
<1>5. SyncAnswered'
  BY <1>0, <1>1, <1>3 DEF SyncAnswered, Pending, Has
<1> QED
  BY <1>0, <1>1, <1>3, <1>4, <1>5 DEF CameraInv, TypeOK

\* The destructor sends EXIT.
LEMMA DestroyCamera ==
  ASSUME CameraInv, Destroy
  PROVE  CameraInv'
<1>0. TypeOK
  BY DEF CameraInv
<1>1. apiQ' \in Seq(Api \cup {"EXIT"})
  BY <1>0, AppendHas DEF TypeOK, Destroy
<1> QED
  BY <1>1 DEF CameraInv, TypeOK, SyncAnswered, Pending, Destroy

\* Nothing changes.
LEMMA CameraStutter ==
  ASSUME CameraInv, UNCHANGED vars
  PROVE  CameraInv'
  BY DEF CameraInv, TypeOK, SyncAnswered, Pending, vars, smVars

\* The camera when it is opened.
LEMMA CameraInit ==
  ASSUME Init
  PROVE  CameraInv
<1>1. InitCam \in Cam /\ Streams(InitCam)
  BY DEF InitCam, Cam, States, Channels, Streams, Sound, RecordStates
<1>2. call \in [Callers -> Calls]
  BY DEF Init, Idle, Calls
<1>3. <<>> \in Seq(Api \cup {"EXIT"}) /\ <<>> \in Seq(Events)
      /\ <<>> \in Seq(Results)
  OBVIOUS
<1>4. /\ cam = InitCam /\ apiQ = <<>> /\ evtQ = <<>> /\ results = <<>> /\ syncWait = FALSE
      /\ alive = TRUE /\ closing = FALSE
  BY DEF Init, SMInit
<1>5. cam \in Cam /\ Streams(cam)
  BY <1>1, <1>4
<1> QED
  BY <1>2, <1>3, <1>4, <1>5 DEF CameraInv, TypeOK, SyncAnswered

\* CameraInv is inductive.
LEMMA CameraStep ==
  ASSUME CameraInv, [Next]_vars
  PROVE  CameraInv'
<1>1. CASE \E c \in Callers : (\E op \in CallsOf[c] : Begin(c, op)) \/ Take(c)
  BY <1>1, BeginCamera, TakeCamera
<1>2. CASE Machine
  BY <1>2, ApiCamera, EvtCamera, ExitCamera DEF Machine
<1>3. CASE takeLiveSnapshot_internal
  BY <1>3, LiveTakeCamera
<1>4. CASE cancelLiveSnapshot_internal
  BY <1>4, LiveCancelCamera
<1>5. CASE AllPictures
  BY <1>5, AllPicturesCamera
<1>6. CASE PrepareDone
  BY <1>6, PrepareDoneCamera
<1>7. CASE RetroDone
  BY <1>7, RetroDoneCamera
<1>8. CASE Destroy
  BY <1>8, DestroyCamera
<1>9. CASE stopCapture
  BY <1>9, StopCaptureCamera
<1>10. CASE UNCHANGED vars
  BY <1>10, CameraStutter
<1> QED
  BY <1>1, <1>2, <1>3, <1>4, <1>5, <1>6, <1>7, <1>8, <1>9, <1>10 DEF Next

\* Every variable has its type, whatever the callers do.
THEOREM CameraTypeCorrect == Spec => []TypeOK
<1>1. Init => CameraInv
  BY CameraInit
<1>2. CameraInv /\ [Next]_vars => CameraInv'
  BY CameraStep
<1>3. CameraInv => TypeOK
  BY DEF CameraInv
<1> QED
  BY <1>1, <1>2, <1>3, PTL DEF Spec

\* takeLiveSnapshot_internal and cancelLiveSnapshot_internal: a live snapshot
\* runs only on the channels of a recording, and after the recording only until
\* the live snapshot thread stops it, or as long as the channels do when that
\* thread could not be started.
THEOREM LiveSnapshotSafe == Spec => []LiveSnapshotEnds
<1>1. Init => CameraInv
  BY CameraInit
<1>2. CameraInv /\ [Next]_vars => CameraInv'
  BY CameraStep
<1>3. CameraInv => LiveSnapshotEnds
  BY DEF CameraInv, LiveSnapshotEnds, Streams, Sound, RecordStates
<1> QED
  BY <1>1, <1>2, <1>3, PTL DEF Spec

\* processSyncEvt: the waiting callback thread has its event in the queue.
THEOREM SyncAnsweredSafe == Spec => []SyncAnswered
<1>1. Init => CameraInv
  BY CameraInit
<1>2. CameraInv /\ [Next]_vars => CameraInv'
  BY CameraStep
<1>3. CameraInv => SyncAnswered
  BY DEF CameraInv
<1> QED
  BY <1>1, <1>2, <1>3, PTL DEF Spec

-----------------------------------------------------------------------------
(* One caller: which answers are under way.                                *)

\* Queue w has the tokens of queue q: the same elements outside S.
SameTokens(q, w, S) ==
  /\ AtMostOne(q, S) => AtMostOne(w, S)
  /\ Clear(q, S) <=> Clear(w, S)
  /\ \A x : x \notin S => (Has(q, x) <=> Has(w, x))

\* Nothing but elements of S comes and goes.
LEMMA SameTokensAppend ==
  ASSUME NEW T, NEW q \in Seq(T), NEW S, NEW y \in T, y \in S
  PROVE  SameTokens(q, Append(q, y), S)
  BY AppendHas DEF SameTokens

\* Nothing but elements of S comes and goes.
LEMMA SameTokensTail ==
  ASSUME NEW T, NEW q \in Seq(T), NEW S, q # <<>>, Head(q) \in S
  PROVE  SameTokens(q, Tail(q), S)
  BY TailHas DEF SameTokens

\* The same for the events that an operation queues.
LEMMA SameTokensEvents ==
  ASSUME NEW q \in Seq(Events), NEW v \in {<<>>, <<"SNAPSHOT_DONE">>}
  PROVE  SameTokens(q, q \o v, EventOthers)
<1>1. \A x : x \notin EventOthers => x # "SNAPSHOT_DONE"
  BY DEF EventOthers
<1> QED
  BY <1>1, EventsGrow DEF SameTokens

\* Steps that neither take nor give an ordinary answer.
LEMMA Undisturbed ==
  ASSUME CallerInv, CameraInv', Quiet(cam'), call' = call,
         cam'.retro = cam.retro, cam'.restart = cam.restart, cam'.ch = cam.ch,
         cam'.state \in RecordStates <=> cam.state \in RecordStates,
         cam'.prep => cam.prep, cam'.ready => cam.ready,
         SameTokens(apiQ, apiQ', QueueOthers), SameTokens(results, results', ListOthers),
         SameTokens(evtQ, evtQ', EventOthers),
         \A a \in Asked : Underway(a) => Underway(a)'
  PROVE  CallerInv'
<1>1. Lone'
  BY DEF CallerInv, Lone, SameTokens
<1>2. Owned'
  <2>1. ASSUME NEW a \in Api \ QueueOthers, Has(apiQ', a)
        PROVE  Awaited(a)'
    BY <2>1 DEF CallerInv, Owned, SameTokens, Awaited
  <2>2. ASSUME NEW x \in Results \ ListOthers, Has(results', x)
        PROVE  Awaited(x.api)'
    BY <2>2 DEF CallerInv, Owned, SameTokens, Awaited
  <2>3. "PREP_SNAPSHOT_DONE" \notin EventOthers /\ "READY_FOR_SNAPSHOT" \notin EventOthers
    BY DEF EventOthers
  <2>4. cam'.prep \/ Has(evtQ', "PREP_SNAPSHOT_DONE") => Awaited("PREPARE_SNAPSHOT")'
    BY <2>3 DEF CallerInv, Owned, SameTokens, Awaited
  <2>5. cam'.ready \/ Has(evtQ', "READY_FOR_SNAPSHOT") => Awaited("TAKE_PICTURE")'
    BY <2>3 DEF CallerInv, Owned, SameTokens, Awaited
  <2> QED
    BY <2>1, <2>2, <2>4, <2>5 DEF Owned
<1>3. CallShape'
  BY DEF CallerInv, CallShape
<1>4. AfterStop'
  <2>1. "SET_PARAMS_RESTART" \notin QueueOthers
    BY DEF QueueOthers
  <2>2. [api |-> "SET_PARAMS_STOP", ok |-> TRUE] \notin ListOthers
    BY DEF ListOthers, Unasked
  <2>3. \A c \in Callers : StoppedFor(c)' => StoppedFor(c)
    BY <2>1, <2>2 DEF StoppedFor, SameTokens
  <2> QED
    BY <2>3 DEF CallerInv, AfterStop
<1>5. Answered'
  <2> SUFFICES ASSUME NEW c \in Callers
               PROVE  call[c] = Idle \/ Excused(c) \/ Underway(call[c].api)'
    BY DEF Answered, Excused
  <2>1. CASE call[c] = Idle \/ Excused(c)
    BY <2>1
  <2>2. CASE call[c] # Idle /\ Underway(call[c].api)
    BY <2>2 DEF CallerInv, CallShape
  <2> QED
    BY <2>1, <2>2 DEF CallerInv, Answered
<1> QED
  BY <1>1, <1>2, <1>3, <1>4, <1>5 DEF CallerInv

\* Tokens of an unchanged queue.
LEMMA SameTokensSelf ==
  ASSUME NEW q, NEW S
  PROVE  SameTokens(q, q, S)
  BY DEF SameTokens

\* The destructor.
LEMMA DestroyCaller ==
  ASSUME CallerInv, Destroy
  PROVE  CallerInv'
<1>0. CameraInv /\ TypeOK /\ Quiet(cam)
  BY DEF CallerInv, CameraInv
<1>1. CameraInv'
  BY <1>0, DestroyCamera
<1>2. apiQ' = Append(apiQ, "EXIT") /\ UNCHANGED <<cam, evtQ, results, syncWait, alive, call>>
  BY DEF Destroy
<1>3. "EXIT" \in QueueOthers /\ "EXIT" \in Api \cup {"EXIT"}
  BY DEF QueueOthers
<1>4. SameTokens(apiQ, apiQ', QueueOthers)
  BY <1>0, <1>2, <1>3, SameTokensAppend DEF TypeOK
<1>5. \A a : Has(apiQ, a) => Has(apiQ', a)
  BY <1>0, <1>2, <1>3, AppendHas DEF TypeOK
<1>6. \A a \in Asked : Underway(a) => Underway(a)'
  BY <1>2, <1>5 DEF Underway
<1> QED
  BY <1>0, <1>1, <1>2, <1>4, <1>6, SameTokensSelf, Undisturbed

\* The thread ends.
LEMMA ExitCaller ==
  ASSUME CallerInv, ExitStep, UNCHANGED <<call, closing>>
  PROVE  CallerInv'
<1>0. CameraInv /\ TypeOK /\ Quiet(cam)
  BY DEF CallerInv, CameraInv
<1>1. CameraInv'
  BY <1>0, ExitCamera
<1>2. /\ apiQ # <<>> /\ Head(apiQ) = "EXIT" /\ apiQ' = Tail(apiQ)
      /\ UNCHANGED <<cam, evtQ, results, syncWait>>
  BY DEF ExitStep
<1>3. Head(apiQ) \in QueueOthers /\ Head(apiQ) \notin Api
  BY <1>2 DEF QueueOthers, Api
<1>4. SameTokens(apiQ, apiQ', QueueOthers)
  BY <1>0, <1>2, <1>3, SameTokensTail DEF TypeOK
<1>5. \A a \in Api : Has(apiQ, a) => Has(apiQ', a)
  BY <1>0, <1>2, <1>3, TailHas DEF TypeOK
<1>6. \A a \in Asked : Underway(a) => Underway(a)'
  BY <1>2, <1>5 DEF Underway, Asked
<1> QED
  BY <1>0, <1>1, <1>2, <1>4, <1>6, SameTokensSelf, Undisturbed

\* The post-processor.
LEMMA StopCaptureCaller ==
  ASSUME CallerInv, stopCapture
  PROVE  CallerInv'
<1> DEFINE x == "STOP_CAPTURE_CHANNEL"
<1>0. CameraInv /\ TypeOK /\ Quiet(cam)
  BY DEF CallerInv, CameraInv
<1>1. CameraInv'
  BY <1>0, StopCaptureCamera
<1>2. apiQ' = Append(apiQ, x) /\ UNCHANGED <<cam, evtQ, results, syncWait, alive, call>>
  BY DEF stopCapture
<1>3. x \in QueueOthers /\ x \in Api \cup {"EXIT"}
  BY DEF QueueOthers, Api
<1> HIDE DEF x
<1>4. SameTokens(apiQ, apiQ', QueueOthers)
  BY <1>0, <1>2, <1>3, SameTokensAppend DEF TypeOK
<1>5. \A a : Has(apiQ, a) => Has(apiQ', a)
  BY <1>0, <1>2, <1>3, AppendHas DEF TypeOK
<1>6. \A a \in Asked : Underway(a) => Underway(a)'
  BY <1>2, <1>5 DEF Underway
<1> QED
  BY <1>0, <1>1, <1>2, <1>4, <1>6, SameTokensSelf, Undisturbed

\* The live snapshot thread.
LEMMA LiveCaller ==
  ASSUME CallerInv, takeLiveSnapshot_internal \/ cancelLiveSnapshot_internal
  PROVE  CallerInv'
<1>0. CameraInv /\ TypeOK /\ Quiet(cam)
  BY DEF CallerInv, CameraInv
<1>1. /\ CameraInv'
      /\ cam'.state = cam.state /\ cam'.ch = cam.ch /\ cam'.on = cam.on
      /\ cam'.retro = cam.retro /\ cam'.prep = cam.prep /\ cam'.ready = cam.ready
      /\ cam'.restart = cam.restart
  BY <1>0, LiveTakeCamera, LiveCancelCamera
<1>2. /\ apiQ' = apiQ \/ apiQ' = Append(apiQ, "CANCEL_PICTURE")
      /\ evtQ' = evtQ /\ results' = results /\ call' = call
  BY DEF takeLiveSnapshot_internal, cancelLiveSnapshot_internal
<1>3. "CANCEL_PICTURE" \in QueueOthers /\ "CANCEL_PICTURE" \in Api \cup {"EXIT"}
  BY DEF QueueOthers, Api
<1>4. SameTokens(apiQ, apiQ', QueueOthers)
  BY <1>0, <1>2, <1>3, SameTokensAppend, SameTokensSelf DEF TypeOK
<1>5. \A a : Has(apiQ, a) => Has(apiQ', a)
  <2>1. CASE apiQ' = apiQ
    BY <2>1
  <2>2. CASE apiQ' = Append(apiQ, "CANCEL_PICTURE")
    BY <1>0, <1>3, <2>2, AppendHas DEF TypeOK
  <2> QED
    BY <1>2, <2>1, <2>2
<1>6. \A a \in Asked : Underway(a) => Underway(a)'
  BY <1>1, <1>2, <1>5 DEF Underway
<1>7. Quiet(cam')
  BY <1>0, <1>1 DEF Quiet
<1> QED
  BY <1>0, <1>1, <1>2, <1>4, <1>6, <1>7, SameTokensSelf, Undisturbed

\* The callback thread.
LEMMA AllPicturesCaller ==
  ASSUME CallerInv, AllPictures
  PROVE  CallerInv'
<1>0. CameraInv /\ TypeOK /\ Quiet(cam)
  BY DEF CallerInv, CameraInv
<1>1. CameraInv'
  BY <1>0, AllPicturesCamera
<1>2. evtQ' = Append(evtQ, "SNAPSHOT_DONE") /\ UNCHANGED <<cam, apiQ, results, call>>
  BY DEF AllPictures
<1>3. "SNAPSHOT_DONE" \in EventOthers /\ "SNAPSHOT_DONE" \in Events
  BY DEF EventOthers, Events
<1>4. SameTokens(evtQ, evtQ', EventOthers)
  BY <1>0, <1>2, <1>3, SameTokensAppend DEF TypeOK
<1>5. \A a : Has(evtQ, a) => Has(evtQ', a)
  BY <1>0, <1>2, <1>3, AppendHas DEF TypeOK
<1>6. \A a \in Asked : Underway(a) => Underway(a)'
  BY <1>2, <1>5 DEF Underway
<1> QED
  BY <1>0, <1>1, <1>2, <1>4, <1>6, SameTokensSelf, Undisturbed

\* SNAPSHOT_DONE.
LEMMA SnapshotDoneCaller ==
  ASSUME CallerInv, EvtStep, Head(evtQ) = "SNAPSHOT_DONE", EventSnapshotDone,
         UNCHANGED <<call, closing>>
  PROVE  CallerInv'
<1>0. CameraInv /\ TypeOK /\ Quiet(cam) /\ Streams(cam) /\ cam \in Cam
  BY DEF CallerInv, CameraInv, TypeOK
<1>1. CameraInv'
  BY <1>0, EvtCamera
<1>2. evtQ # <<>> /\ evtQ' = Tail(evtQ) /\ apiQ' = apiQ
  BY DEF EvtStep
<1>3. /\ cam'.retro = cam.retro /\ cam'.ch = cam.ch
      /\ cam'.restart = cam.restart /\ (cam'.prep => cam.prep) /\ (cam'.ready => cam.ready)
      /\ cam'.state \in RecordStates <=> cam.state \in RecordStates
      /\ Quiet(cam) => Quiet(cam')
      /\ cam.state = "PREPARE_SNAPSHOT" => cam' = cam
  BY <1>0, SnapshotDoneStep DEF DoneEffect
<1>4. SameTokens(evtQ, evtQ', EventOthers)
  BY <1>0, <1>2, SameTokensTail DEF TypeOK, EventOthers
<1>5. Has(evtQ, "PREP_SNAPSHOT_DONE") => Has(evtQ', "PREP_SNAPSHOT_DONE")
  BY <1>4 DEF SameTokens, EventOthers
<1>6. SameTokens(results, results', ListOthers) /\ \A x : Has(results, x) => Has(results', x)
  <2>1. CASE results' = results
    BY <2>1, SameTokensSelf
  <2>2. CASE \E x \in ListOthers : results' = Append(results, x)
    <3>1. PICK x \in ListOthers : results' = Append(results, x)
      BY <2>2
    <3>2. x \in Results /\ results \in Seq(Results)
      BY <1>0 DEF ListOthers, TypeOK
    <3> QED
      BY <3>1, <3>2, SameTokensAppend, AppendHas
  <2> QED
    BY <1>0, <2>1, <2>2, SnapshotDoneStep
<1>7. \A a \in Asked : Underway(a) => Underway(a)'
  BY <1>2, <1>3, <1>5, <1>6 DEF Underway
<1> QED
  BY <1>0, <1>1, <1>2, <1>3, <1>4, <1>6, <1>7, SameTokensSelf, Undisturbed

\* CANCEL_PICTURE, whoever sent it, and STOP_CAPTURE_CHANNEL, when they are answered.
LEMMA UnaskedAnswered ==
  ASSUME CallerInv, ApiStep, NEW e \in {"CANCEL_PICTURE", "STOP_CAPTURE_CHANNEL"},
         Head(apiQ) = e, NEW o, Answer(e, o), AnswerEffect(e, cam, o), UNCHANGED <<call, closing>>
  PROVE  CallerInv'
<1>0. CameraInv /\ TypeOK /\ Quiet(cam) /\ Streams(cam) /\ cam \in Cam
  BY DEF CallerInv, CameraInv, TypeOK
<1>1. CameraInv'
  BY <1>0, ApiCamera
<1>2. apiQ # <<>> /\ apiQ' = Tail(apiQ)
  BY DEF ApiStep
<1>4. o.ev \in {<<>>, <<"SNAPSHOT_DONE">>} /\ o.ok \in BOOLEAN
  BY DEF AnswerEffect, Outcome
<1> DEFINE r == [api |-> e, ok |-> o.ok]
<1>5. evtQ' = evtQ \o o.ev /\ cam' = o.c /\ results' = Append(results, r)
  BY DEF Answer
<1>6. /\ cam'.retro = cam.retro /\ cam'.ch = cam.ch
      /\ cam'.restart = cam.restart /\ (cam'.prep => cam.prep) /\ (cam'.ready => cam.ready)
      /\ cam'.state \in RecordStates <=> cam.state \in RecordStates
      /\ Quiet(cam')
      /\ cam.state = "PREPARE_SNAPSHOT" => cam' = cam
  BY <1>0, <1>5 DEF AnswerEffect, CamEffect, Between
<1>7. r \in ListOthers /\ r \in Results
  BY <1>4 DEF ListOthers, Results, Api, Unasked
<1>8. results \in Seq(Results)
  BY <1>0 DEF TypeOK, Results
<1> HIDE DEF r
<1>9. SameTokens(results, results', ListOthers)
  BY <1>5, <1>7, <1>8, SameTokensAppend
<1>10. \A x : Has(results', x) <=> Has(results, x) \/ x = r
  BY <1>5, <1>7, <1>8, AppendHas
<1>11. SameTokens(evtQ, evtQ', EventOthers)
  BY <1>0, <1>4, <1>5, SameTokensEvents DEF TypeOK
<1>12. Has(evtQ, "PREP_SNAPSHOT_DONE") => Has(evtQ', "PREP_SNAPSHOT_DONE")
  BY <1>11 DEF SameTokens, EventOthers
<1>13. SameTokens(apiQ, apiQ', QueueOthers)
  BY <1>0, <1>2, SameTokensTail DEF TypeOK, QueueOthers
<1>14. ASSUME NEW a \in Asked, Underway(a)
       PROVE  Underway(a)'
  <2>1. CASE Has(apiQ, a) /\ a = e
    <3>1. Has(results', [api |-> a, ok |-> o.ok])
      BY <1>10, <2>1 DEF r
    <3> QED
      BY <1>4, <3>1 DEF Underway
  <2>2. CASE Has(apiQ, a) /\ a # e
    <3>1. Has(apiQ', a)
      BY <1>0, <1>2, <2>2, TailHas DEF TypeOK
    <3> QED
      BY <3>1 DEF Underway
  <2>3. CASE \E b \in BOOLEAN : Has(results, [api |-> a, ok |-> b])
    BY <1>10, <2>3 DEF Underway
  <2>4. CASE /\ a = "PREPARE_SNAPSHOT" /\ cam.state = "PREPARE_SNAPSHOT"
             /\ cam.prep \/ Has(evtQ, "PREP_SNAPSHOT_DONE") \/ cam.on = {}
    BY <1>6, <1>12, <2>4 DEF Underway
  <2> QED
    BY <1>14, <2>1, <2>2, <2>3, <2>4 DEF Underway
<1> QED
  BY <1>0, <1>1, <1>6, <1>9, <1>11, <1>13, <1>14, Undisturbed

\* STOP_CAPTURE_CHANNEL in a state that does not know it.
LEMMA UnaskedDropped ==
  ASSUME CallerInv, ApiStep, Head(apiQ) = "STOP_CAPTURE_CHANNEL", Silent(cam),
         UNCHANGED <<call, closing>>
  PROVE  CallerInv'
<1>0. CameraInv /\ TypeOK /\ Quiet(cam)
  BY DEF CallerInv, CameraInv
<1>1. CameraInv'
  BY <1>0, ApiCamera
<1>2. apiQ # <<>> /\ apiQ' = Tail(apiQ) /\ UNCHANGED <<cam, evtQ, results>>
  BY DEF ApiStep, Silent
<1>3. Head(apiQ) \in QueueOthers
  BY DEF QueueOthers
<1>4. SameTokens(apiQ, apiQ', QueueOthers)
  BY <1>0, <1>2, <1>3, SameTokensTail DEF TypeOK
<1>5. \A a \in Asked : Has(apiQ, a) => Has(apiQ', a)
  BY <1>0, <1>2, TailHas DEF TypeOK, Asked
<1>6. \A a \in Asked : Underway(a) => Underway(a)'
  BY <1>2, <1>5 DEF Underway
<1> QED
  BY <1>0, <1>1, <1>2, <1>4, <1>6, SameTokensSelf, Undisturbed

\* The commands that threads other than callers send.
LEMMA CancelCaller ==
  ASSUME CallerInv, ApiStep, Head(apiQ) \in {"CANCEL_PICTURE", "STOP_CAPTURE_CHANNEL"},
         UNCHANGED <<call, closing>>
  PROVE  CallerInv'
<1> DEFINE e == Head(apiQ)
<1>0. CameraInv
  BY DEF CallerInv
<1>1. Effect(e)
  BY <1>0, ApiCamera
<1>2. CASE \E o : Answer(e, o) /\ AnswerEffect(e, cam, o)
  BY <1>2, UnaskedAnswered
<1>3. CASE \E d : Silent(d) /\ SilentEffect(e, cam, d)
  BY <1>3, UnaskedDropped DEF SilentEffect
<1> QED
  BY <1>1, <1>2, <1>3 DEF Effect

\* Nothing is under way.
LEMMA NoToken ==
  ASSUME Clear(apiQ, QueueOthers)', Clear(results, ListOthers)', Clear(evtQ, EventOthers)',
         ~cam'.prep, ~cam'.ready
  PROVE  Lone' /\ Owned'
<1>1. Lone'
  BY DEF Lone, AtMostOne, Clear
<1>2. Owned'
  BY DEF Owned, Has, Clear, EventOthers
<1> QED
  BY <1>1, <1>2

\* The caller has just sent a command.
LEMMA QueueToken ==
  ASSUME apiQ \in Seq(Api \cup {"EXIT"}), Clear(apiQ, QueueOthers), NEW n \in Api,
         apiQ' = Append(apiQ, n), NEW c \in Callers, call'[c].api = n,
         Clear(results, ListOthers)', Clear(evtQ, EventOthers)', ~cam'.prep, ~cam'.ready
  PROVE  Lone' /\ Owned' /\ Has(apiQ', n)
<1>1. AtMostOne(apiQ', QueueOthers) /\ \A x : Has(apiQ', x) <=> Has(apiQ, x) \/ x = n
  <2>1. n \in Api \cup {"EXIT"}
    OBVIOUS
  <2> QED
    BY <2>1, AppendHas
<1>2. Lone'
  BY <1>1 DEF Lone, AtMostOne, Clear
<1>3. ASSUME NEW a \in Api \ QueueOthers, Has(apiQ', a)
      PROVE  Awaited(a)'
  <2>1. ~Has(apiQ, a)
    BY DEF Has, Clear
  <2>2. a = n
    BY <1>1, <1>3, <2>1
  <2> QED
    BY <2>2 DEF Awaited
<1>4. \A x \in Results \ ListOthers : ~Has(results', x)
  BY DEF Has, Clear
<1>5. ~Has(evtQ', "PREP_SNAPSHOT_DONE") /\ ~Has(evtQ', "READY_FOR_SNAPSHOT")
  BY DEF Has, Clear, EventOthers
<1>6. Owned'
  BY <1>3, <1>4, <1>5 DEF Owned
<1> QED
  BY <1>1, <1>2, <1>6

\* The answer has just been put in the list.
LEMMA ResultToken ==
  ASSUME results \in Seq(Results), Clear(results, ListOthers), NEW r \in Results,
         results' = Append(results, r), NEW c \in Callers, call'[c].api = r.api,
         Clear(apiQ, QueueOthers)', Clear(evtQ, EventOthers)', ~cam'.prep, ~cam'.ready
  PROVE  /\ Lone' /\ Owned' /\ Has(results', r)
         /\ \A x \in Results \ ListOthers : Has(results', x) => x = r
<1>1. AtMostOne(results', ListOthers) /\ \A x : Has(results', x) <=> Has(results, x) \/ x = r
  BY AppendHas
<1>2. Lone'
  BY <1>1 DEF Lone, AtMostOne, Clear
<1>3. ASSUME NEW x \in Results \ ListOthers, Has(results', x)
      PROVE  x = r
  <2>1. ~Has(results, x)
    BY DEF Has, Clear
  <2> QED
    BY <1>1, <1>3, <2>1
<1>4. ASSUME NEW x \in Results \ ListOthers, Has(results', x)
      PROVE  Awaited(x.api)'
  BY <1>3, <1>4 DEF Awaited
<1>5. \A a \in Api \ QueueOthers : ~Has(apiQ', a)
  BY DEF Has, Clear
<1>6. ~Has(evtQ', "PREP_SNAPSHOT_DONE") /\ ~Has(evtQ', "READY_FOR_SNAPSHOT")
  BY DEF Has, Clear, EventOthers
<1>7. Owned'
  BY <1>4, <1>5, <1>6 DEF Owned
<1> QED
  BY <1>1, <1>2, <1>3, <1>7

\* The event that answers has just been queued.
LEMMA EventToken ==
  ASSUME evtQ \in Seq(Events), Clear(evtQ, EventOthers), NEW x \in Events,
         evtQ' = Append(evtQ, x), NEW c \in Callers,
         x = "PREP_SNAPSHOT_DONE" => call'[c].api = "PREPARE_SNAPSHOT",
         x = "READY_FOR_SNAPSHOT" => call'[c].api = "TAKE_PICTURE",
         Clear(apiQ, QueueOthers)', Clear(results, ListOthers)', ~cam'.prep, ~cam'.ready
  PROVE  Lone' /\ Owned' /\ Has(evtQ', x)
<1>1. AtMostOne(evtQ', EventOthers) /\ \A y : Has(evtQ', y) <=> Has(evtQ, y) \/ y = x
  BY AppendHas
<1>2. Lone'
  BY <1>1 DEF Lone, AtMostOne, Clear
<1>3. ~Has(evtQ, "PREP_SNAPSHOT_DONE") /\ ~Has(evtQ, "READY_FOR_SNAPSHOT")
  BY DEF Has, Clear, EventOthers
<1>4. Has(evtQ', "PREP_SNAPSHOT_DONE") => Awaited("PREPARE_SNAPSHOT")'
  BY <1>1, <1>3 DEF Awaited
<1>5. Has(evtQ', "READY_FOR_SNAPSHOT") => Awaited("TAKE_PICTURE")'
  BY <1>1, <1>3 DEF Awaited
<1>6. \A a \in Api \ QueueOthers : ~Has(apiQ', a)
  BY DEF Has, Clear
<1>7. \A r \in Results \ ListOthers : ~Has(results', r)
  BY DEF Has, Clear
<1>8. Owned'
  BY <1>4, <1>5, <1>6, <1>7 DEF Owned
<1> QED
  BY <1>1, <1>2, <1>8

-----------------------------------------------------------------------------
(* One caller: its calls.                                                  *)

\* The elements of the list.
LEMMA ResultTyped ==
  ASSUME TypeOK, NEW i \in DOMAIN results
  PROVE  results[i] \in Results
<1>1. results \in Seq(Results)
  BY DEF TypeOK, Results
<1> QED
  BY <1>1

\* A caller that waits for no ordinary answer has none under way.
LEMMA IdleClear ==
  ASSUME CallerInv, OneCaller, NEW c \in Callers, call[c].api \in {"none", "CANCEL_PICTURE"}
  PROVE  /\ Clear(apiQ, QueueOthers) /\ Clear(results, ListOthers) /\ Clear(evtQ, EventOthers)
         /\ ~cam.prep /\ ~cam.ready
<1>0. TypeOK /\ Owned
  BY DEF CallerInv, CameraInv
<1>1. \A a : Awaited(a) => a \in {"none", "CANCEL_PICTURE"}
  BY DEF Awaited, OneCaller
<1>2. "none" \notin Api /\ "PREPARE_SNAPSHOT" \notin {"none", "CANCEL_PICTURE"}
      /\ "TAKE_PICTURE" \notin {"none", "CANCEL_PICTURE"}
  BY DEF Api
<1>3. Clear(apiQ, QueueOthers)
  <2> SUFFICES ASSUME NEW i \in DOMAIN apiQ, apiQ[i] \notin QueueOthers
               PROVE  FALSE
    BY DEF Clear
  <2>1. apiQ[i] \in Api \cup {"EXIT"}
    BY <1>0 DEF TypeOK
  <2>2. apiQ[i] \in Api \ QueueOthers /\ Has(apiQ, apiQ[i]) /\ apiQ[i] # "CANCEL_PICTURE"
    BY <2>1 DEF Has, QueueOthers
  <2>3. Awaited(apiQ[i])
    BY <1>0, <2>2 DEF Owned
  <2> QED
    BY <1>1, <1>2, <2>2, <2>3
<1>4. Clear(results, ListOthers)
  <2> SUFFICES ASSUME NEW i \in DOMAIN results, results[i] \notin ListOthers
               PROVE  FALSE
    BY DEF Clear
  <2>1. results[i] \in Results
    BY <1>0, ResultTyped
  <2>2. results[i].api # "CANCEL_PICTURE" /\ results[i].api # "none"
    <3>1. results[i].api \notin Unasked
      BY <2>1 DEF ListOthers
    <3>2. results[i].api \in Api \cup {"SNAPSHOT_DONE"}
      BY <2>1 DEF Results
    <3> QED
      BY <3>1, <3>2 DEF Unasked, Api
  <2>3. Has(results, results[i])
    BY DEF Has
  <2>4. Awaited(results[i].api)
    BY <1>0, <2>1, <2>3 DEF Owned
  <2> QED
    BY <1>1, <1>2, <2>2, <2>4
<1>5. ~cam.prep /\ ~Has(evtQ, "PREP_SNAPSHOT_DONE") /\ ~cam.ready
      /\ ~Has(evtQ, "READY_FOR_SNAPSHOT")
  BY <1>0, <1>1, <1>2 DEF Owned
<1>6. Clear(evtQ, EventOthers)
  BY <1>0, <1>5 DEF TypeOK, Clear, Has, Events, EventOthers
<1> QED
  BY <1>3, <1>4, <1>5, <1>6

\* A call begins.
LEMMA BeginCaller ==
  ASSUME CallerInv, OneCaller, NEW c \in Callers, NEW op \in CallsOf[c], Begin(c, op)
  PROVE  CallerInv'
<1>0. CameraInv /\ TypeOK /\ Quiet(cam) /\ call[c].api = "none"
  BY DEF CallerInv, CameraInv, Begin, Idle
<1>1. /\ CameraInv'
      /\ op \in DOMAIN First
      /\ cam'.state = cam.state /\ cam'.ch = cam.ch /\ cam'.on = cam.on
      /\ cam'.prep = cam.prep /\ cam'.ready = cam.ready /\ cam'.restart = cam.restart
      /\ op \in Takes => cam'.retro = (op = "take_retro")
  BY <1>0, BeginCamera
<1> DEFINE n == First[op]
<1>2. /\ n \in Asked /\ n \in Api /\ op # "idle"
      /\ n \notin {"SET_PARAMS_STOP", "SET_PARAMS_COMMIT", "SET_PARAMS_RESTART", "TAKE_PICTURE"}
      /\ n = "PRE_TAKE_PICTURE" => op \in Takes
      /\ n = "PREPARE_SNAPSHOT" => op = "take_flash"
  BY <1>1, FirstShape
<1>3. /\ apiQ' = Append(apiQ, n) /\ evtQ' = evtQ /\ results' = results
      /\ call' = [call EXCEPT ![c] = [op |-> op, api |-> n]]
  BY DEF Begin
<1> HIDE DEF n
<1>4. call'[c].op = op /\ call'[c].api = n
  BY <1>0, <1>3 DEF TypeOK
<1>5. /\ Clear(apiQ, QueueOthers) /\ Clear(results, ListOthers) /\ Clear(evtQ, EventOthers)
      /\ ~cam.prep /\ ~cam.ready
  BY <1>0, IdleClear
<1>6. Clear(results, ListOthers)' /\ Clear(evtQ, EventOthers)'
  BY <1>3, <1>5
<1>7. Lone' /\ Owned' /\ Has(apiQ', n)
  BY <1>0, <1>1, <1>2, <1>3, <1>4, <1>5, <1>6, QueueToken DEF TypeOK
<1>8. \A d \in Callers : d = c
  BY DEF OneCaller
<1>9. CallShape'
  BY <1>1, <1>2, <1>4, <1>8 DEF CallShape
<1>10. AfterStop'
  BY <1>2, <1>4, <1>8 DEF AfterStop, StoppedFor
<1>11. Answered'
  BY <1>4, <1>7, <1>8 DEF Answered, Underway
<1>12. Quiet(cam')
  BY <1>0, <1>1 DEF Quiet
<1> QED
  BY <1>1, <1>7, <1>9, <1>10, <1>11, <1>12 DEF CallerInv

\* A result that a caller takes is the only answer under way.
LEMMA TakeClear ==
  ASSUME CallerInv, OneCaller, NEW c \in Callers, NEW i, NEW n, TakesAndSends(c, i, n)
  PROVE  /\ Clear(apiQ, QueueOthers) /\ Clear(results', ListOthers) /\ Clear(evtQ, EventOthers)
         /\ ~cam.prep /\ ~cam.ready
<1>0. TypeOK /\ Lone
  BY DEF CallerInv, CameraInv
<1>1. /\ i \in DOMAIN results /\ results[i].api = call[c].api
      /\ results' = SubSeq(results, 1, i - 1) \o SubSeq(results, i + 1, Len(results))
  BY DEF TakesAndSends
<1>2. /\ Clear(results, ListOthers) => Clear(results', ListOthers)
      /\ AtMostOne(results, ListOthers) /\ results[i] \notin ListOthers
              => Clear(results', ListOthers)
  BY <1>0, <1>1, TakeList
<1>3. CASE call[c].api = "CANCEL_PICTURE"
  BY <1>2, <1>3, IdleClear
<1>4. CASE call[c].api # "CANCEL_PICTURE"
  <2>0. results[i].api \notin Unasked
    <3>1. results[i].api # "none"
      BY <1>0, <1>1, ResultTyped DEF Results, Api
    <3>2. call[c].api \in Asked
      BY <1>1, <3>1 DEF CallerInv, CallShape, Idle
    <3> QED
      BY <1>1, <1>4, <3>2 DEF Asked, Unasked, Api
  <2>1. results[i] \notin ListOthers
    BY <2>0 DEF ListOthers
  <2>2. ~Clear(results, ListOthers)
    BY <1>1, <2>1 DEF Clear
  <2> QED
    BY <1>0, <1>2, <2>1, <2>2 DEF Lone
<1> QED
  BY <1>3, <1>4

\* A caller takes its result.
LEMMA TakeCaller ==
  ASSUME CallerInv, OneCaller, NEW c \in Callers, Take(c)
  PROVE  CallerInv'
<1>0. CameraInv /\ TypeOK /\ Quiet(cam) /\ CallShape /\ AfterStop
  BY DEF CallerInv, CameraInv
<1>1. CameraInv'
  BY <1>0, TakeCamera
<1>2. PICK i, n : TakesAndSends(c, i, n)
  BY <1>0, TakeShape
<1>3. /\ Clear(apiQ, QueueOthers) /\ Clear(results', ListOthers) /\ Clear(evtQ, EventOthers)
      /\ ~cam.prep /\ ~cam.ready
  BY <1>2, TakeClear
<1>4. cam' = cam /\ evtQ' = evtQ
  BY DEF Take
<1>5. Clear(results, ListOthers)' /\ Clear(evtQ, EventOthers)' /\ ~cam'.prep /\ ~cam'.ready
  BY <1>3, <1>4
<1>6. \A d \in Callers : d = c
  BY DEF OneCaller
<1>7. CASE n = "none"
  <2>1. apiQ' = apiQ /\ call'[c] = Idle
    BY <1>0, <1>2, <1>7 DEF TakesAndSends, TypeOK
  <2>2. Clear(apiQ, QueueOthers)'
    BY <1>3, <2>1
  <2>3. Lone' /\ Owned'
    BY <1>5, <2>2, NoToken
  <2>4. CallShape' /\ Answered'
    BY <1>6, <2>1 DEF CallShape, Answered
  <2>5. AfterStop'
    BY <1>6, <2>1 DEF AfterStop, StoppedFor, Idle
  <2> QED
    BY <1>0, <1>1, <1>4, <2>3, <2>4, <2>5 DEF CallerInv
<1>8. CASE n # "none"
  <2> DEFINE op == call[c].op
             api == call[c].api
             ok == results[i].ok
  <2>1. /\ i \in DOMAIN results /\ results[i].api = api /\ n \in Follow(op, api, ok)
        /\ n \in Api /\ apiQ' = Append(apiQ, n) /\ call'[c] = [op |-> op, api |-> n]
    <3>1. /\ i \in DOMAIN results /\ results[i].api = api /\ n \in Follow(op, api, ok)
          /\ n \in Api /\ apiQ' = Append(apiQ, n)
          /\ call' = [call EXCEPT ![c] = [op |-> op, api |-> n]]
      BY <1>2, <1>8, Zenon DEF TakesAndSends
    <3>2. c \in DOMAIN call
      BY <1>0 DEF TypeOK
    <3> QED
      BY <3>1, <3>2
  <2>2. results[i] \in Results
    BY <1>0, <2>1, ResultTyped
  <2>3. api # "none" /\ ok \in BOOLEAN /\ results[i] = [api |-> api, ok |-> ok]
    BY <2>1, <2>2 DEF Results, Api
  <2>4. call[c] # Idle
    BY <2>3 DEF Idle
  <2>5. /\ op # "idle"
        /\ api \in {"PRE_TAKE_PICTURE", "TAKE_PICTURE"} => op \in Takes
        /\ api = "PREPARE_SNAPSHOT" => op \in {"take_flash", "take_retro"}
        /\ op \in Takes => cam.retro = (op = "take_retro")
    BY <1>0, <2>4 DEF CallShape
  <2>6. StoppedFor(c) <=>
          \/ /\ cam.restart /\ api = "SET_PARAMS_STOP"
             /\ Has(results, [api |-> "SET_PARAMS_STOP", ok |-> TRUE])
          \/ cam.restart /\ api = "SET_PARAMS_COMMIT"
          \/ api = "SET_PARAMS_RESTART" /\ Has(apiQ, "SET_PARAMS_RESTART")
    BY DEF StoppedFor
  <2>7. Has(results, [api |-> api, ok |-> ok])
    BY <2>1, <2>3 DEF Has
  <2>8. call'[c].op = op /\ call'[c].api = n
    BY <2>1
  <2> HIDE DEF op, api, ok
  <2>9. \/ n = "TAKE_PICTURE" /\ api = "PRE_TAKE_PICTURE"
        \/ n = "PRE_TAKE_PICTURE" /\ api = "PREPARE_SNAPSHOT" /\ op = "take_flash"
        \/ n = "PREPARE_SNAPSHOT" /\ api = "TAKE_PICTURE" /\ op = "take_retro"
        \/ n = "START_RECORDING" /\ api = "PRE_START_RECORDING"
        \/ n = "SET_PARAMS_STOP" /\ api = "SET_PARAMS"
        \/ n = "SET_PARAMS_COMMIT" /\ api = "SET_PARAMS" /\ ~cam.restart
        \/ n = "SET_PARAMS_COMMIT" /\ api = "SET_PARAMS_STOP" /\ ok
        \/ n = "SET_PARAMS_RESTART" /\ api = "SET_PARAMS_COMMIT" /\ cam.restart
    BY <1>8, <2>1, FollowShape
  <2>10. Lone' /\ Owned' /\ Has(apiQ', n)
    BY <1>0, <1>3, <1>5, <2>1, <2>8, QueueToken DEF TypeOK
  <2>11. CallShape'
    BY <1>4, <1>6, <2>1, <2>5, <2>8, <2>9 DEF CallShape, Takes, Asked
  <2>12. Answered'
    BY <1>6, <2>8, <2>10 DEF Answered, Underway
  <2>13. ~Has(results', [api |-> "SET_PARAMS_STOP", ok |-> TRUE])
    BY <1>3 DEF Has, Clear, ListOthers, Unasked
  <2>14. StoppedFor(c)' => StoppedFor(c)
    BY <1>4, <2>3, <2>6, <2>7, <2>8, <2>9, <2>13 DEF StoppedFor
  <2>15. AfterStop'
    BY <1>0, <1>4, <1>6, <2>14 DEF AfterStop
  <2> QED
    BY <1>0, <1>1, <1>4, <2>10, <2>11, <2>12, <2>15 DEF CallerInv
<1> QED
  BY <1>7, <1>8

-----------------------------------------------------------------------------
(* One caller: the state machine's answers.                                *)

\* An ordinary command at the head of the queue is the only answer under way.
LEMMA HeadClear ==
  ASSUME CallerInv, apiQ # <<>>, Head(apiQ) \in Asked, Head(apiQ) # "CANCEL_PICTURE"
  PROVE  /\ Clear(Tail(apiQ), QueueOthers) /\ Clear(results, ListOthers)
         /\ Clear(evtQ, EventOthers) /\ ~cam.prep /\ ~cam.ready
         /\ Awaited(Head(apiQ)) /\ Has(apiQ, Head(apiQ))
<1>0. TypeOK /\ Lone /\ Owned
  BY DEF CallerInv, CameraInv
<1>1. Head(apiQ) \notin QueueOthers
  BY DEF QueueOthers, Asked, Api
<1>2. /\ \A x : Has(apiQ, x) <=> Head(apiQ) = x \/ Has(Tail(apiQ), x)
      /\ Clear(apiQ, QueueOthers) <=> Head(apiQ) \in QueueOthers /\ Clear(Tail(apiQ), QueueOthers)
      /\ AtMostOne(apiQ, QueueOthers) /\ Head(apiQ) \notin QueueOthers
           => Clear(Tail(apiQ), QueueOthers)
  BY <1>0, TailHas DEF TypeOK
<1> DEFINE h == Head(apiQ)
<1>3. h \in Api \ QueueOthers /\ Has(apiQ, h)
  BY <1>1, <1>2 DEF Asked
<1> HIDE DEF h
<1>4. Awaited(h)
  BY <1>0, <1>3 DEF Owned
<1> QED
  BY <1>0, <1>1, <1>2, <1>3, <1>4 DEF Lone, h

\* The only caller waits for e: what that says of its call.
LEMMA OnlyCall ==
  ASSUME CallerInv, OneCaller, NEW e \in Api, Awaited(e)
  PROVE  \E c \in Callers :
           /\ \A d \in Callers : d = c
           /\ call[c].api = e /\ call[c] # Idle
           /\ e \in {"TAKE_PICTURE", "PREPARE_SNAPSHOT"} /\ cam.retro => call[c].op = "take_retro"
<1>1. PICK c \in Callers : call[c].api = e
  BY DEF Awaited
<1>2. call[c] # Idle
  BY <1>1 DEF Idle, Api
<1>3. \A d \in Callers : d = c
  BY DEF OneCaller
<1>4. /\ call[c].api \in {"PRE_TAKE_PICTURE", "TAKE_PICTURE"} => call[c].op \in Takes
      /\ call[c].api = "PREPARE_SNAPSHOT" => call[c].op \in {"take_flash", "take_retro"}
      /\ call[c].op \in Takes => cam.retro = (call[c].op = "take_retro")
  BY <1>2 DEF CallerInv, CallShape
<1>5. e \in {"TAKE_PICTURE", "PREPARE_SNAPSHOT"} /\ cam.retro => call[c].op = "take_retro"
  BY <1>1, <1>4 DEF Takes
<1> QED
  BY <1>1, <1>2, <1>3, <1>5

\* While nobody waits for a restart of the preview, or it was stopped, a
\* command leaves no channels where none belong.
LEMMA ApiQuiet ==
  ASSUME CallerInv, NEW e \in Api, NEW c \in Callers, call[c].api = e, Has(apiQ, e),
         NEW d, CamEffect(e, cam, d)
  PROVE  Quiet(d)
<1>1. e = "SET_PARAMS_RESTART" /\ cam.state \notin RecordStates => cam.ch = {}
  BY DEF CallerInv, AfterStop, StoppedFor
<1> QED
  BY <1>1 DEF CallerInv, CamEffect

\* An ordinary command is answered at once.
LEMMA AnswerCaller ==
  ASSUME CallerInv, OneCaller, ApiStep, UNCHANGED <<call, closing>>,
         NEW e \in Asked, e = Head(apiQ), e # "CANCEL_PICTURE",
         NEW o, Answer(e, o), AnswerEffect(e, cam, o)
  PROVE  CallerInv'
<1>0. CameraInv /\ TypeOK /\ Quiet(cam) /\ CallShape /\ AfterStop
  BY DEF CallerInv, CameraInv
<1>1. CameraInv' /\ apiQ # <<>> /\ apiQ' = Tail(apiQ) /\ call' = call
  BY <1>0, ApiCamera DEF ApiStep
<1>2. /\ Clear(apiQ', QueueOthers) /\ Clear(results, ListOthers)
      /\ Clear(evtQ, EventOthers) /\ ~cam.prep /\ ~cam.ready
      /\ Awaited(e) /\ Has(apiQ, e)
  BY <1>1, HeadClear
<1>a. e \in Api
  BY DEF Asked
<1>3. PICK c \in Callers : /\ \A d \in Callers : d = c
                           /\ call[c].api = e /\ call[c] # Idle
  BY <1>2, <1>a, OnlyCall
<1> DEFINE r == [api |-> e, ok |-> o.ok]
<1>4. evtQ' = evtQ \o o.ev /\ cam' = o.c /\ results' = Append(results, r)
  BY DEF Answer
<1>5. o.ev \in {<<>>, <<"SNAPSHOT_DONE">>} /\ o.ok \in BOOLEAN
  BY DEF AnswerEffect, Outcome
<1>6. r \in Results /\ r.api = e /\ r.ok = o.ok
  BY <1>5, <1>a DEF Results
<1> HIDE DEF r
<1>7. Clear(evtQ', EventOthers)
  BY <1>0, <1>2, <1>4, <1>5, EventsGrow DEF TypeOK
<1>8. /\ CamEffect(e, cam, cam') /\ ~cam'.prep /\ ~cam'.ready
      /\ e = "SET_PARAMS_STOP" /\ r.ok => cam'.state \in RecordStates \/ cam'.ch = {}
  BY <1>0, <1>2, <1>4, <1>6 DEF AnswerEffect
<1>9. Quiet(cam')
  BY <1>2, <1>3, <1>8, <1>a, ApiQuiet
<1>10. /\ Lone' /\ Owned' /\ Has(results', r)
       /\ \A x \in Results \ ListOthers : Has(results', x) => x = r
  <2>1. results \in Seq(Results) /\ call'[c].api = r.api
    BY <1>0, <1>1, <1>3, <1>6 DEF TypeOK, Results
  <2>2. Clear(apiQ, QueueOthers)' /\ Clear(evtQ, EventOthers)'
    BY <1>2, <1>7
  <2> QED
    BY <1>2, <1>4, <1>6, <1>8, <2>1, <2>2, ResultToken
<1>11. CallShape'
  BY <1>0, <1>1, <1>8 DEF CallShape, CamEffect
<1>12. Answered'
  <2>1. r = [api |-> e, ok |-> o.ok]
    BY DEF r
  <2>2. Underway(e)'
    BY <1>5, <1>10, <2>1 DEF Underway
  <2> QED
    BY <1>1, <1>3, <2>2 DEF Answered
<1>13. AfterStop'
  <2> SUFFICES ASSUME StoppedFor(c)'
               PROVE  cam'.state \in RecordStates \/ cam'.ch = {}
    BY <1>3 DEF AfterStop
  <2>1. ~Has(apiQ', "SET_PARAMS_RESTART")
    BY <1>2 DEF Has, Clear, QueueOthers
  <2>2. CASE call[c].api = "SET_PARAMS_STOP" /\ Has(results', [api |-> "SET_PARAMS_STOP", ok |-> TRUE])
    <3>1. [api |-> "SET_PARAMS_STOP", ok |-> TRUE] \in Results \ ListOthers
      BY DEF Results, ListOthers, Unasked, Api
    <3>2. r = [api |-> "SET_PARAMS_STOP", ok |-> TRUE]
      BY <1>10, <2>2, <3>1
    <3> QED
      BY <1>6, <1>8, <3>2
  <2>3. CASE cam'.restart /\ call[c].api = "SET_PARAMS_COMMIT"
    <3>1. cam'.ch = cam.ch /\ cam'.restart = cam.restart
          /\ (cam'.state \in RecordStates <=> cam.state \in RecordStates)
      BY <1>3, <1>8, <2>3 DEF CamEffect, Between
    <3>2. StoppedFor(c)
      BY <2>3, <3>1 DEF StoppedFor
    <3> QED
      BY <1>0, <3>1, <3>2 DEF AfterStop
  <2> QED
    BY <1>1, <2>1, <2>2, <2>3 DEF StoppedFor
<1> QED
  BY <1>1, <1>9, <1>10, <1>11, <1>12, <1>13 DEF CallerInv

\* An ordinary command is answered later or never.
LEMMA SilentCaller ==
  ASSUME CallerInv, OneCaller, ApiStep, UNCHANGED <<call, closing>>,
         NEW e \in Asked, e = Head(apiQ), e # "CANCEL_PICTURE",
         NEW d, Silent(d), SilentEffect(e, cam, d)
  PROVE  CallerInv'
<1>0. CameraInv /\ TypeOK /\ Quiet(cam) /\ CallShape /\ AfterStop
  BY DEF CallerInv, CameraInv
<1>1. CameraInv' /\ apiQ # <<>> /\ apiQ' = Tail(apiQ) /\ call' = call
  BY <1>0, ApiCamera DEF ApiStep
<1>2. /\ Clear(apiQ', QueueOthers) /\ Clear(results, ListOthers)
      /\ Clear(evtQ, EventOthers) /\ ~cam.prep /\ ~cam.ready
      /\ Awaited(e) /\ Has(apiQ, e)
  BY <1>1, HeadClear
<1>a. e \in Api
  BY DEF Asked
<1>3. PICK c \in Callers :
        /\ \A b \in Callers : b = c
        /\ call[c].api = e /\ call[c] # Idle
        /\ e \in {"TAKE_PICTURE", "PREPARE_SNAPSHOT"} /\ cam.retro => call[c].op = "take_retro"
  BY <1>2, <1>a, OnlyCall
<1>4. cam' = d /\ evtQ' = evtQ /\ results' = results
  BY DEF Silent
<1>5. CamEffect(e, cam, cam')
  BY <1>4 DEF SilentEffect
<1>6. \/ e \in {"RELEASE_FRAME", "REG_FACE_IMAGE"} /\ ~cam'.prep /\ ~cam'.ready
      \/ e = "PREPARE_SNAPSHOT" /\ ~cam'.ready
         /\ ((cam'.state = "PREPARE_SNAPSHOT" /\ (cam'.prep \/ cam'.on = {})) \/ cam.retro)
      \/ e = "TAKE_PICTURE" /\ ~cam'.prep /\ cam.retro
  BY <1>2, <1>4 DEF SilentEffect, Asked
<1>7. Clear(results', ListOthers) /\ Clear(evtQ', EventOthers)
  BY <1>2, <1>4
<1>8. Quiet(cam')
  BY <1>2, <1>3, <1>5, <1>a, ApiQuiet
<1>9. Lone'
  BY <1>2, <1>6, <1>7 DEF Lone, AtMostOne, Clear
<1>10. Owned'
  <2>1. \A a \in Api \ QueueOthers : ~Has(apiQ', a)
    BY <1>2 DEF Has, Clear
  <2>2. \A x \in Results \ ListOthers : ~Has(results', x)
    BY <1>7 DEF Has, Clear
  <2>3. ~Has(evtQ', "PREP_SNAPSHOT_DONE") /\ ~Has(evtQ', "READY_FOR_SNAPSHOT")
    BY <1>7 DEF Has, Clear, EventOthers
  <2>4. cam'.prep => Awaited("PREPARE_SNAPSHOT")'
    BY <1>1, <1>3, <1>6 DEF Awaited
  <2>5. cam'.ready => Awaited("TAKE_PICTURE")'
    BY <1>1, <1>3, <1>6 DEF Awaited
  <2> QED
    BY <2>1, <2>2, <2>3, <2>4, <2>5 DEF Owned
<1>11. CallShape'
  BY <1>0, <1>1, <1>5 DEF CallShape, CamEffect
<1>12. Answered'
  BY <1>1, <1>3, <1>6 DEF Answered, Excused, Underway
<1>13. AfterStop'
  BY <1>1, <1>3, <1>6 DEF AfterStop, StoppedFor
<1> QED
  BY <1>1, <1>8, <1>9, <1>10, <1>11, <1>12, <1>13 DEF CallerInv

\* The state machine takes a command.
LEMMA ApiCaller ==
  ASSUME CallerInv, OneCaller, ApiStep, UNCHANGED <<call, closing>>
  PROVE  CallerInv'
<1>1. CameraInv
  BY DEF CallerInv
<1>2. Head(apiQ) \in Api /\ Effect(Head(apiQ))
  BY <1>1, ApiCamera
<1>3. CASE Head(apiQ) \in {"CANCEL_PICTURE", "STOP_CAPTURE_CHANNEL"}
  BY <1>3, CancelCaller
<1>4. CASE Head(apiQ) \notin {"CANCEL_PICTURE", "STOP_CAPTURE_CHANNEL"}
  <2>1. Head(apiQ) \in Asked
    BY <1>2, <1>4 DEF Asked
  <2> QED
    BY <1>2, <1>4, <2>1, AnswerCaller, SilentCaller DEF Effect
<1> QED
  BY <1>3, <1>4

\* An event that answers is the only answer under way.
LEMMA EventClear ==
  ASSUME CallerInv, evtQ # <<>>, Head(evtQ) \notin EventOthers
  PROVE  /\ Clear(apiQ, QueueOthers) /\ Clear(results, ListOthers)
         /\ Clear(Tail(evtQ), EventOthers) /\ ~cam.prep /\ ~cam.ready
         /\ Has(evtQ, Head(evtQ))
<1>0. TypeOK /\ Lone
  BY DEF CallerInv, CameraInv
<1>1. /\ \A x : Has(evtQ, x) <=> Head(evtQ) = x \/ Has(Tail(evtQ), x)
      /\ Clear(evtQ, EventOthers) <=> Head(evtQ) \in EventOthers /\ Clear(Tail(evtQ), EventOthers)
      /\ AtMostOne(evtQ, EventOthers) /\ Head(evtQ) \notin EventOthers
           => Clear(Tail(evtQ), EventOthers)
  BY <1>0, TailHas DEF TypeOK
<1>2. ~Clear(evtQ, EventOthers) /\ Has(evtQ, Head(evtQ))
  BY <1>1
<1> QED
  BY <1>0, <1>1, <1>2 DEF Lone

\* PREP_SNAPSHOT_DONE and READY_FOR_SNAPSHOT.
LEMMA AnswerEventCaller ==
  ASSUME CallerInv, OneCaller, EvtStep, UNCHANGED <<call, closing>>,
         \/ Head(evtQ) = "PREP_SNAPSHOT_DONE" /\ EventPrepSnapshotDone
         \/ Head(evtQ) = "READY_FOR_SNAPSHOT" /\ EventReadyForSnapshot
  PROVE  CallerInv'
<1>0. CameraInv /\ TypeOK /\ Quiet(cam) /\ Streams(cam) /\ CallShape /\ AfterStop
  BY DEF CallerInv, CameraInv
<1>1. CameraInv' /\ evtQ # <<>> /\ evtQ' = Tail(evtQ) /\ apiQ' = apiQ /\ call' = call
  BY <1>0, EvtCamera DEF EvtStep
<1>2. /\ cam'.ch = cam.ch /\ cam'.restart = cam.restart
      /\ cam'.retro = cam.retro /\ cam'.prep = cam.prep /\ cam'.ready = cam.ready
      /\ cam'.state \in RecordStates <=> cam.state \in RecordStates
      /\ Quiet(cam')
  BY <1>0, AnswerEvents
<1>3. Head(evtQ) \notin EventOthers
  BY DEF EventOthers
<1>4. /\ Clear(apiQ, QueueOthers) /\ Clear(results, ListOthers)
      /\ Clear(evtQ', EventOthers) /\ ~cam.prep /\ ~cam.ready
      /\ Has(evtQ, Head(evtQ))
  BY <1>1, <1>3, EventClear
<1>5. PICK e \in {"PREPARE_SNAPSHOT", "TAKE_PICTURE"} :
        /\ Awaited(e)
        /\ \/ results' = Append(results, [api |-> e, ok |-> TRUE])
           \/ results' = results /\ ~(e = "PREPARE_SNAPSHOT" /\ cam.state = "PREPARE_SNAPSHOT")
  <2>1. CASE Head(evtQ) = "PREP_SNAPSHOT_DONE" /\ EventPrepSnapshotDone
    <3>1. Awaited("PREPARE_SNAPSHOT")
      BY <1>4, <2>1 DEF CallerInv, Owned
    <3>2. \/ results' = Append(results, [api |-> "PREPARE_SNAPSHOT", ok |-> TRUE])
          \/ results' = results /\ cam.state # "PREPARE_SNAPSHOT"
      BY <2>1 DEF EventPrepSnapshotDone
    <3> QED
      BY <3>1, <3>2
  <2>2. CASE Head(evtQ) = "READY_FOR_SNAPSHOT" /\ EventReadyForSnapshot
    <3>1. Awaited("TAKE_PICTURE")
      BY <1>4, <2>2 DEF CallerInv, Owned
    <3>2. \/ results' = Append(results, [api |-> "TAKE_PICTURE", ok |-> TRUE])
          \/ results' = results
      BY <2>2 DEF EventReadyForSnapshot
    <3> QED
      BY <3>1, <3>2
  <2> QED
    BY <2>1, <2>2
<1>6. e \in Api
  BY DEF Api
<1>7. PICK c \in Callers : /\ \A b \in Callers : b = c
                           /\ call[c].api = e /\ call[c] # Idle
  BY <1>5, <1>6, OnlyCall
<1>8. CallShape'
  BY <1>0, <1>1, <1>2 DEF CallShape
<1>9. AfterStop'
  BY <1>1, <1>7 DEF AfterStop, StoppedFor
<1>10. Clear(apiQ, QueueOthers)' /\ Clear(evtQ, EventOthers)' /\ ~cam'.prep /\ ~cam'.ready
  BY <1>1, <1>2, <1>4
<1>11. CASE results' = Append(results, [api |-> e, ok |-> TRUE])
  <2> DEFINE r == [api |-> e, ok |-> TRUE]
  <2>1. r \in Results /\ r.api = e /\ results \in Seq(Results)
    BY <1>0, <1>6 DEF Results, TypeOK
  <2>2. results' = Append(results, r)
    BY <1>11
  <2> HIDE DEF r
  <2>3. Lone' /\ Owned' /\ Has(results', r)
    BY <1>1, <1>4, <1>7, <1>10, <2>1, <2>2, ResultToken
  <2>4. Underway(e)'
    BY <2>3 DEF Underway, r
  <2>5. Answered'
    BY <1>1, <1>7, <2>4 DEF Answered
  <2> QED
    BY <1>1, <1>2, <1>8, <1>9, <2>3, <2>5 DEF CallerInv
<1>12. CASE results' = results /\ ~(e = "PREPARE_SNAPSHOT" /\ cam.state = "PREPARE_SNAPSHOT")
  <2>1. Clear(results, ListOthers)'
    BY <1>4, <1>12
  <2>2. Lone' /\ Owned'
    BY <1>10, <2>1, NoToken
  <2>3. ~Has(apiQ, e)
    BY <1>4 DEF Has, Clear, QueueOthers
  <2>4. ~Has(results, [api |-> e, ok |-> TRUE]) /\ ~Has(results, [api |-> e, ok |-> FALSE])
    BY <1>4 DEF Has, Clear, ListOthers, Unasked
  <2>5. ~Underway(e)
    BY <1>12, <2>3, <2>4 DEF Underway
  <2>6. Excused(c)
    BY <1>7, <2>5 DEF CallerInv, Answered
  <2>7. Answered'
    BY <1>1, <1>7, <2>6 DEF Answered, Excused
  <2> QED
    BY <1>1, <1>2, <1>8, <1>9, <2>2, <2>7 DEF CallerInv
<1> QED
  BY <1>5, <1>11, <1>12

\* The flash estimation or the last retro frame queues its event.
LEMMA DeferredCaller ==
  ASSUME CallerInv, OneCaller, PrepareDone \/ RetroDone
  PROVE  CallerInv'
<1>0. CameraInv /\ TypeOK /\ Quiet(cam) /\ CallShape /\ AfterStop /\ Lone /\ Owned /\ Answered
  BY DEF CallerInv, CameraInv
<1>1. /\ CameraInv'
      /\ cam'.state = cam.state /\ cam'.ch = cam.ch /\ cam'.on = cam.on
      /\ cam'.retro = cam.retro /\ cam'.restart = cam.restart
      /\ PrepareDone => ~cam'.prep /\ cam'.ready = cam.ready
      /\ RetroDone => ~cam'.ready /\ cam'.prep = cam.prep
  BY <1>0, PrepareDoneCamera, RetroDoneCamera
<1>2. /\ apiQ' = apiQ /\ results' = results /\ call' = call
      /\ \/ PrepareDone /\ cam.prep /\ evtQ' = Append(evtQ, "PREP_SNAPSHOT_DONE")
         \/ RetroDone /\ cam.ready /\ evtQ' = Append(evtQ, "READY_FOR_SNAPSHOT")
  BY DEF PrepareDone, RetroDone
<1>3. /\ Clear(apiQ, QueueOthers) /\ Clear(results, ListOthers)
      /\ Clear(evtQ, EventOthers) /\ ~(cam.prep /\ cam.ready)
  BY <1>0, <1>2 DEF Lone
<1>4. PICK x \in {"PREP_SNAPSHOT_DONE", "READY_FOR_SNAPSHOT"} :
        /\ evtQ' = Append(evtQ, x) /\ ~cam'.prep /\ ~cam'.ready
        /\ x = "PREP_SNAPSHOT_DONE" => cam.prep /\ Awaited("PREPARE_SNAPSHOT")
        /\ x = "READY_FOR_SNAPSHOT" => ~cam.prep /\ Awaited("TAKE_PICTURE")
  <2>1. CASE PrepareDone /\ cam.prep /\ evtQ' = Append(evtQ, "PREP_SNAPSHOT_DONE")
    BY <1>0, <1>1, <1>3, <2>1 DEF Owned
  <2>2. CASE RetroDone /\ cam.ready /\ evtQ' = Append(evtQ, "READY_FOR_SNAPSHOT")
    BY <1>0, <1>1, <1>3, <2>2 DEF Owned
  <2> QED
    BY <1>2, <2>1, <2>2
<1>5. PICK c \in Callers : /\ x = "PREP_SNAPSHOT_DONE" => call[c].api = "PREPARE_SNAPSHOT"
                           /\ x = "READY_FOR_SNAPSHOT" => call[c].api = "TAKE_PICTURE"
  BY <1>4 DEF Awaited
<1>6. \A b \in Callers : b = c
  BY DEF OneCaller
<1>7. Clear(apiQ, QueueOthers)' /\ Clear(results, ListOthers)' /\ x \in Events
  BY <1>2, <1>3 DEF Events
<1>8. Lone' /\ Owned' /\ Has(evtQ', x)
  <2>1. evtQ \in Seq(Events) /\ call' = call
    BY <1>0, <1>2 DEF TypeOK
  <2> QED
    BY <1>3, <1>4, <1>5, <1>7, <2>1, EventToken
<1>9. CallShape' /\ AfterStop'
  BY <1>0, <1>1, <1>2 DEF CallShape, AfterStop, StoppedFor
<1>10. Quiet(cam')
  BY <1>0, <1>1 DEF Quiet
<1>11. \A y : Has(evtQ, y) => Has(evtQ', y)
  BY <1>0, <1>4, <1>7, AppendHas DEF TypeOK
<1>12. \A a \in Asked : Underway(a) => Underway(a)'
  BY <1>1, <1>2, <1>4, <1>8, <1>11 DEF Underway
<1>13. Answered'
  BY <1>0, <1>2, <1>12 DEF Answered, Excused, CallShape
<1> QED
  BY <1>1, <1>8, <1>9, <1>10, <1>13 DEF CallerInv

-----------------------------------------------------------------------------
(* One caller: the theorems.                                               *)

\* The camera when it is opened.
LEMMA CallerInit ==
  ASSUME Init
  PROVE  CallerInv
<1>1. CameraInv
  BY CameraInit
<1>2. /\ cam = InitCam /\ apiQ = <<>> /\ evtQ = <<>> /\ results = <<>>
      /\ \A c \in Callers : call[c] = Idle
  BY DEF Init, SMInit
<1>3. /\ InitCam.state = "PREVIEW_STOPPED" /\ InitCam.ch = {} /\ InitCam.on = {}
      /\ ~InitCam.prep /\ ~InitCam.ready
  BY DEF InitCam
<1>4. Quiet(cam)
  BY <1>2, <1>3 DEF Quiet
<1>5. \A x : ~Has(<<>>, x)
  BY DEF Has
<1>6. Lone
  BY <1>2, <1>3 DEF Lone, AtMostOne, Clear
<1>7. Owned
  BY <1>2, <1>3, <1>5 DEF Owned
<1>8. CallShape /\ Answered
  BY <1>2 DEF CallShape, Answered
<1>9. AfterStop
  BY <1>2, <1>3 DEF AfterStop
<1> QED
  BY <1>1, <1>4, <1>6, <1>7, <1>8, <1>9 DEF CallerInv

\* Nothing changes.
LEMMA CallerStutter ==
  ASSUME CallerInv, UNCHANGED vars
  PROVE  CallerInv'
<1>1. /\ cam' = cam /\ apiQ' = apiQ /\ evtQ' = evtQ /\ results' = results /\ call' = call
      /\ CameraInv' /\ Quiet(cam)
  BY CameraStutter DEF CallerInv, vars, smVars
<1>2. \A a \in Asked : Underway(a) => Underway(a)'
  BY <1>1 DEF Underway
<1> QED
  BY <1>1, <1>2, SameTokensSelf, Undisturbed

\* With one caller CallerInv is inductive.
LEMMA CallerStep ==
  ASSUME OneCaller, CallerInv, [Next]_vars
  PROVE  CallerInv'
<1>1. CASE \E c \in Callers : (\E op \in CallsOf[c] : Begin(c, op)) \/ Take(c)
  BY <1>1, BeginCaller, TakeCaller
<1>2. CASE ApiStep /\ UNCHANGED <<call, closing>>
  BY <1>2, ApiCaller
<1>3. CASE EvtStep /\ UNCHANGED <<call, closing>>
  BY <1>3, SnapshotDoneCaller, AnswerEventCaller DEF EvtStep
<1>4. CASE ExitStep /\ UNCHANGED <<call, closing>>
  BY <1>4, ExitCaller
<1>5. CASE takeLiveSnapshot_internal \/ cancelLiveSnapshot_internal
  BY <1>5, LiveCaller
<1>6. CASE AllPictures
  BY <1>6, AllPicturesCaller
<1>7. CASE PrepareDone \/ RetroDone
  BY <1>7, DeferredCaller
<1>8. CASE Destroy
  BY <1>8, DestroyCaller
<1>9. CASE stopCapture
  BY <1>9, StopCaptureCaller
<1>10. CASE UNCHANGED vars
  BY <1>10, CallerStutter
<1> QED
  BY <1>1, <1>2, <1>3, <1>4, <1>5, <1>6, <1>7, <1>8, <1>9, <1>10 DEF Next, Machine

\* Counting what a queue holds.
LEMMA CountPositive ==
  ASSUME NEW n \in Nat, NEW I, I \subseteq 1 .. n
  PROVE  Cardinality(I) \in Nat /\ (I # {} => Cardinality(I) > 0)
<1>1. IsFiniteSet(1 .. n)
  BY FS_Interval
<1>2. IsFiniteSet(I)
  BY <1>1, FS_Subset
<1>3. Cardinality(I) \in Nat /\ (Cardinality(I) = 0 <=> I = {})
  BY <1>2, FS_CardinalityType, FS_EmptySet
<1> DEFINE m == Cardinality(I)
<1>4. m \in Nat /\ (I # {} => m # 0)
  BY <1>3
<1> HIDE DEF m
<1>5. m \in Nat /\ (I # {} => m > 0)
  BY <1>4
<1> QED
  BY <1>5 DEF m

\* What is under way is counted.
LEMMA UnderwayCounted ==
  ASSUME TypeOK, NEW a, Underway(a)
  PROVE  \/ OnItsWay(a)
         \/ a = "PREPARE_SNAPSHOT" /\ cam.state = "PREPARE_SNAPSHOT" /\ cam.on = {}
<1> DEFINE I == {i \in DOMAIN apiQ : apiQ[i] = a}
           J == {i \in DOMAIN results : results[i].api = a}
<1>1. /\ Len(apiQ) \in Nat /\ I \subseteq 1 .. Len(apiQ)
      /\ Len(results) \in Nat /\ J \subseteq 1 .. Len(results)
  BY DEF TypeOK
<1>2. Unread(a) = Cardinality(I) + Cardinality(J)
  BY DEF Unread
<1>3. Has(apiQ, a) => I # {}
  BY DEF Has
<1>4. ASSUME NEW b \in BOOLEAN, Has(results, [api |-> a, ok |-> b])
      PROVE  J # {}
  <2>1. PICK i \in DOMAIN results : results[i] = [api |-> a, ok |-> b]
    BY <1>4 DEF Has
  <2>2. i \in J
    BY <2>1
  <2> QED
    BY <2>2
<1> HIDE DEF I, J
<1>5. /\ Cardinality(I) \in Nat /\ (I # {} => Cardinality(I) > 0)
      /\ Cardinality(J) \in Nat /\ (J # {} => Cardinality(J) > 0)
  BY <1>1, CountPositive
<1>6. CASE Has(apiQ, a) \/ \E b \in BOOLEAN : Has(results, [api |-> a, ok |-> b])
  <2>1. I # {} \/ J # {}
    BY <1>3, <1>4, <1>6
  <2>2. Unread(a) > 0
    BY <1>2, <1>5, <2>1
  <2> QED
    BY <2>2 DEF OnItsWay
<1>7. CASE /\ a = "PREPARE_SNAPSHOT" /\ cam.state = "PREPARE_SNAPSHOT"
           /\ cam.prep \/ Has(evtQ, "PREP_SNAPSHOT_DONE") \/ cam.on = {}
  BY <1>7 DEF OnItsWay, Pending, Has
<1> QED
  BY <1>6, <1>7 DEF Underway

\* The channels agree with the state, when one thread at a time calls the
\* camera: no handler, whichever of the modelled operations fails in it, leaves
\* a preview, ZSL or video channel behind or streams without one, and
\* SET_PARAMS_RESTART brings none back where the state has none.
THEOREM StreamsSafe ==
  ASSUME OneCaller
  PROVE  Spec => []StreamsMatchState
<1>1. Init => CallerInv
  BY CallerInit
<1>2. CallerInv /\ [Next]_vars => CallerInv'
  BY CallerStep
<1>3. CallerInv => StreamsMatchState
  BY DEF CallerInv, CameraInv, Streams, Sound, Quiet, StreamsMatchState
<1> QED
  BY <1>1, <1>2, <1>3, PTL DEF Spec

\* waitAPIResult: the one caller never waits in vain, but for the commands
\* named in NobodyForgotten and a flash estimation without a stream.
THEOREM NobodyForgottenSafe ==
  ASSUME OneCaller
  PROVE  Spec => []NobodyForgotten
<1>1. Init => CallerInv
  BY CallerInit
<1>2. CallerInv /\ [Next]_vars => CallerInv'
  BY CallerStep
<1>3. CallerInv => NobodyForgotten
  <2> SUFFICES ASSUME CallerInv, NEW c \in Callers
               PROVE  \/ call[c] = Idle \/ Excused(c) \/ OnItsWay(call[c].api)
                      \/ /\ call[c].api = "PREPARE_SNAPSHOT"
                         /\ cam.state = "PREPARE_SNAPSHOT" /\ cam.on = {}
    BY DEF NobodyForgotten, Excused
  <2>1. TypeOK /\ (call[c] = Idle \/ Excused(c) \/ Underway(call[c].api))
    BY DEF CallerInv, CameraInv, Answered
  <2> QED
    BY <2>1, UnderwayCounted
<1> QED
  BY <1>1, <1>2, <1>3, PTL DEF Spec

\* m_apiResultList: between calls it holds no answer that a later call but
\* cancel_picture could be given in place of its own: what is left there are
\* the results of the commands and the event that no caller waits for.
THEOREM NoForeignAnswerSafe ==
  ASSUME OneCaller
  PROVE  Spec => []NoForeignAnswer
<1>1. Init => CallerInv
  BY CallerInit
<1>2. CallerInv /\ [Next]_vars => CallerInv'
  BY CallerStep
<1>3. CallerInv => NoForeignAnswer
  <2> SUFFICES ASSUME CallerInv, \A c \in Callers : call[c] = Idle, NEW i \in DOMAIN results,
                      results[i].api \notin Unasked
               PROVE  FALSE
    BY DEF NoForeignAnswer
  <2>1. TypeOK /\ Owned
    BY DEF CallerInv, CameraInv
  <2>2. results[i] \in Results
    BY <2>1, ResultTyped
  <2>3. /\ results[i] \notin ListOthers /\ Has(results, results[i])
        /\ results[i].api \in Api \cup {"SNAPSHOT_DONE"}
    BY <2>2 DEF ListOthers, Has, Results
  <2>4. Awaited(results[i].api)
    BY <2>1, <2>2, <2>3 DEF Owned
  <2>5. results[i].api = "none"
    BY <2>4 DEF Awaited, Idle
  <2> QED
    BY <2>3, <2>5 DEF Api
<1> QED
  BY <1>1, <1>2, <1>3, PTL DEF Spec

=============================================================================
