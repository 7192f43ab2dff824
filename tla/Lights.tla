------------------------------- MODULE Lights -------------------------------
(***************************************************************************)
(* The notification LED of the lights HAL.  setLightState, on a binder     *)
(* thread, stores the state of one of three lights and composes them into  *)
(* one setting under mMutex, at most once in kDebounceMs; a static colour  *)
(* it writes to the LED itself.  The blink thread copies the setting under *)
(* mMutex, but writes the LED and sleeps without it.  The LED has one file *)
(* per channel, so two writers may also interleave inside a colour.        *)
(*                                                                         *)
(* A colour is the set of the channels that are lit.  Time is whether the  *)
(* debounce interval since the last apply is still running.                *)
(***************************************************************************)
EXTENDS Integers, FiniteSets

CONSTANTS NumChannels,   \* the LED's channels, written in this order
          LightStates    \* the HwLightStates clients set; Off is one of them

Channels == 1 .. NumChannels
Off == [color |-> {}, flash |-> FALSE, ms |-> 0]
LightTypes == {"BATTERY", "NOTIFICATIONS", "ATTENTION"}

\* flashOnMs and flashOffMs are one period here: the code treats them alike.
ASSUME LightsAssumption ==
    /\ NumChannels \in Nat \ {0}
    /\ LightStates \subseteq [color : SUBSET Channels, flash : BOOLEAN, ms : Nat]
    /\ Off \in LightStates

VARIABLES last,      \* mLastBattery, mLastNotification, mLastAttention
          recent,    \* less than kDebounceMs since mLastApplyMs
          blink,     \* mBlinkEnabled, mBlinkColor, mBlinkOnMs and mBlinkOffMs
          apply,     \* next channel the holder of mMutex writes; 0: mutex free
          led,       \* the channels that are lit
          running,   \* mBlinkRunning
          worker,    \* the blink thread
          dropped,   \* history: the newest update fell into the debounce
          overrun    \* history: channels not known to hold the static colour

lightsVars == <<last, recent, blink, apply, led, running, worker, dropped, overrun>>

LightsInit ==
    /\ last = [l \in LightTypes |-> Off]
    /\ recent = FALSE
    /\ blink = [enabled |-> FALSE, color |-> {}, ms |-> 0]
    /\ apply = 0
    /\ led \in SUBSET Channels
    /\ running = TRUE
    /\ worker = [pc |-> "loop", phaseOn |-> FALSE, color |-> {}, ms |-> 0, next |-> 0]
    /\ dropped = FALSE
    /\ overrun = Channels
-----------------------------------------------------------------------------
\* The light that shows: notification before attention before battery.
Chosen(lights) ==
    IF lights["NOTIFICATIONS"].color # {} THEN lights["NOTIFICATIONS"]
    ELSE IF lights["ATTENTION"].color # {} THEN lights["ATTENTION"]
    ELSE IF lights["BATTERY"].color # {} THEN lights["BATTERY"]
    ELSE Off

AllOff(lights) == \A l \in LightTypes : lights[l].color = {}

\* Mutant: the update that turns everything off is debounced like any other.
DebouncedAlways(lights) == recent

\* updateCompositeLedLocked returns early, and nothing applies the state later.
Debounced(lights) == ~AllOff(lights) /\ recent

\* A period below 50 ms becomes a second when the light blinks.
SettingOf(s) ==
    LET wantBlink == s.flash /\ s.color # {}
    IN  [enabled |-> wantBlink, color |-> s.color,
         ms |-> IF wantBlink /\ s.ms < 50 THEN 1000 ELSE s.ms]

setLightState(l, s) ==
    LET lights == [last EXCEPT ![l] = s]
        setting == SettingOf(Chosen(lights))
    IN  /\ running /\ apply = 0
        /\ last' = lights
        /\ IF Debounced(lights)
           THEN dropped' = TRUE /\ UNCHANGED <<recent, blink, apply, overrun>>
           ELSE /\ recent' = TRUE
                /\ blink' = setting
                /\ dropped' = FALSE
                /\ apply' = IF setting.enabled THEN 0 ELSE 1
                /\ overrun' = {}
        /\ UNCHANGED <<led, running, worker>>

Written(c, color) == IF c \in color THEN led \cup {c} ELSE led \ {c}

\* setNotificationColor of a static colour, one channel file after the other.
WriteStatic ==
    /\ apply # 0
    /\ led' = Written(apply, blink.color)
    /\ apply' = IF apply = NumChannels THEN 0 ELSE apply + 1
    /\ UNCHANGED <<last, recent, blink, running, worker, dropped, overrun>>

\* kDebounceMs have passed since the last apply.
DebounceOver ==
    /\ recent
    /\ recent' = FALSE
    /\ UNCHANGED <<last, blink, apply, led, running, worker, dropped, overrun>>
-----------------------------------------------------------------------------
\* Mutant: the thread looks at mBlinkRunning only when it blinks.
WorkerLoopEndless ==
    /\ worker.pc = "loop" /\ apply = 0
    /\ worker' =
         IF ~blink.enabled THEN [worker EXCEPT !.phaseOn = FALSE]
         ELSE IF ~running THEN [worker EXCEPT !.pc = "done"]
         ELSE [pc |-> "write", next |-> 1, color |-> blink.color, ms |-> blink.ms,
               phaseOn |-> worker.phaseOn \/ blink.color # worker.color \/ blink.ms # worker.ms]
    /\ UNCHANGED <<last, recent, blink, apply, led, running, dropped, overrun>>

\* The head of blinkWorker's loop: end, or copy the setting under mMutex; a new
\* setting starts with its on phase.  worker.color and ms are lastColor, lastOn
\* and lastOff, equal to the copies from here on.
WorkerLoop ==
    /\ worker.pc = "loop"
    /\ \/ ~running /\ worker' = [worker EXCEPT !.pc = "done"]
       \/ /\ running /\ apply = 0 /\ ~blink.enabled
          /\ worker' = [worker EXCEPT !.phaseOn = FALSE]
       \/ /\ running /\ apply = 0 /\ blink.enabled
          /\ worker' = [pc |-> "write", next |-> 1, color |-> blink.color, ms |-> blink.ms,
                        phaseOn |-> \/ worker.phaseOn
                                    \/ blink.color # worker.color
                                    \/ blink.ms # worker.ms]
    /\ UNCHANGED <<last, recent, blink, apply, led, running, dropped, overrun>>

\* Mutant: the phase is not flipped after the sleep.
WorkerWriteNoFlip ==
    /\ worker.pc = "write"
    /\ led' = Written(worker.next, IF worker.phaseOn THEN worker.color ELSE {})
    /\ worker' = IF worker.next < NumChannels THEN [worker EXCEPT !.next = @ + 1]
                 ELSE [worker EXCEPT !.pc = "loop", !.next = 0]
    /\ UNCHANGED <<last, recent, blink, apply, running, dropped, overrun>>

\* The thread writes one channel, without mMutex; after the last one it sleeps
\* and flips the phase.
WorkerWrite ==
    LET c == worker.next
        shadowed == ~blink.enabled /\ (apply = 0 \/ c < apply)
    IN  /\ worker.pc = "write"
        /\ led' = Written(c, IF worker.phaseOn THEN worker.color ELSE {})
        /\ overrun' = IF shadowed THEN overrun \cup {c} ELSE overrun
        /\ worker' = IF c < NumChannels THEN [worker EXCEPT !.next = c + 1]
                     ELSE [worker EXCEPT !.pc = "loop", !.next = 0, !.phaseOn = ~@]
        /\ UNCHANGED <<last, recent, blink, apply, running, dropped>>

\* The destructor: no call is in progress; it then joins the thread.
Destroy ==
    /\ running /\ apply = 0
    /\ running' = FALSE
    /\ UNCHANGED <<last, recent, blink, apply, led, worker, dropped, overrun>>
-----------------------------------------------------------------------------
Worker == WorkerLoop \/ WorkerWrite

LightsNext ==
    \/ \E l \in LightTypes, s \in LightStates : setLightState(l, s)
    \/ WriteStatic
    \/ DebounceOver
    \/ WorkerLoop
    \/ WorkerWrite
    \/ Destroy

LightsSpec == LightsInit /\ [][LightsNext]_lightsVars

\* The thread's sleeps end, and a binder thread that writes goes on.
LightsFairSpec == LightsSpec /\ WF_lightsVars(Worker) /\ WF_lightsVars(WriteStatic)
-----------------------------------------------------------------------------
LightsTypeOK ==
    /\ last \in [LightTypes -> LightStates]
    /\ recent \in BOOLEAN /\ running \in BOOLEAN /\ dropped \in BOOLEAN
    /\ blink \in [enabled : BOOLEAN, color : SUBSET Channels, ms : Nat]
    /\ apply \in 0 .. NumChannels
    /\ led \subseteq Channels /\ overrun \subseteq Channels
    /\ worker \in [pc : {"loop", "write", "done"}, phaseOn : BOOLEAN,
                   color : SUBSET Channels, ms : Nat, next : 0 .. NumChannels]

\* What the LED should show by the states clients have set, as far as the
\* debounce let the newest one through; everything off always gets through.
InForce == AllOff(last) \/ ~dropped

\* A static composite of the three lights is what the LED shows, channel by
\* channel, once setLightState has returned.  The exceptions are exact: an update
\* lost in the debounce (never the one that turns everything off), a channel that
\* the blink thread overwrote afterwards with a colour it had copied before, and
\* the LED as the HAL found it, until the first call.
StaticShown ==
    LET shown == Chosen(last)
    IN  (InForce /\ apply = 0 /\ ~shown.flash) =>
            \A c \in Channels \ overrun : c \in led <=> c \in shown.color

\* A light that keeps blinking is seen on, in exactly its colour, and off, again
\* and again, whatever the LED showed before and whatever else is set below it.
BlinkShows ==
    \A s \in {x \in LightStates : x.flash /\ x.color # {}} :
        <>[](running /\ InForce /\ Chosen(last) = s)
            => []<>(led = s.color) /\ []<>(led = {})

\* The destructor's join returns: the thread sees mBlinkRunning after at most
\* one more phase.
DestructorReturns == ~running ~> worker.pc = "done"
=============================================================================
