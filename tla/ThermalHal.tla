----------------------------- MODULE ThermalHal -----------------------------
(***************************************************************************)
(* The thermal HAL in the netlink build: the sensors ThermalUtils keeps,   *)
(* the severity ThermalCommon estimates for each, the trip the kernel is   *)
(* armed with, and the callbacks Thermal tells of every change.            *)
(*                                                                         *)
(* Three kinds of threads meet here.  The monitor's event and sample       *)
(* threads receive the kernel's netlink messages, and binder threads read  *)
(* temperatures and register callbacks.  Whoever notifies holds            *)
(* sens_cb_mutex from the new value to the armed trip, and                 *)
(* thermal_callback_mutex_ around the loop over the callbacks.             *)
(*                                                                         *)
(* The kernel is external: a message or a sysfs read brings any            *)
(* temperature of Temps.  Temperatures, thresholds and hysteresis are in   *)
(* the sensor's own unit (the raw reading divided by mulFactor).           *)
(***************************************************************************)
EXTENDS Integers, Sequences, SequencesExt, FiniteSetsExt

CONSTANTS Sensors,       \* thermal zones of the configuration
          Config,          \* Config[s]: its target_therm_cfg and hysteresis
          Temps,           \* readings the kernel may report
          Garbage,         \* what an int made from NAN may hold
          Callbacks,       \* IThermalChangedCallback objects of clients
          Binders          \* binder threads that read temperatures

Shutdown == 6              \* ThrottlingSeverity::SHUTDOWN; NONE is 0
NoReading == 0             \* Temperature::value before the first reading

ASSUME ThermalAssumption ==
    /\ Sensors # {} /\ Temps \subseteq Int /\ Garbage \subseteq Int /\ Garbage # {}
    /\ Config \in [Sensors -> [type : STRING, hot : BOOLEAN, sev : 1 .. Shutdown - 1,
                                throt : Int, shut : Int, hyst : Nat]]
    /\ {"event", "sample", "none"} \cap Binders = {}

\* In every table of thermalConfig a hot sensor throttles before it shuts down.
ASSUME HotOrdered ==
    \A s \in Sensors :
        Config[s].hot /\ Config[s].throt # 0 /\ Config[s].shut # 0
            => Config[s].throt <= Config[s].shut

VARIABLES ready,     \* is_sensor_init
          loaded,    \* thermalConfig holds the sensors
          sens,      \* thermalConfig[tzn]: t.value and t.throttlingStatus
          trip,      \* the trip temperature and the hysteresis written to sysfs
          cb,        \* the registered callbacks, in order
          sensLock,  \* the holder of sens_cb_mutex, or "none"
          cbLock,    \* the holder of thermal_callback_mutex_, or "none"
          th,        \* what each thread is doing
          told,      \* history: the severity each registered callback knows
          changed    \* history: the sensors whose severity Notify has changed

vars == <<ready, loaded, sens, trip, cb, sensLock, cbLock, th, told, changed>>

Monitors == {"event", "sample"}
Threads == Monitors \cup Binders
Severities == 0 .. Shutdown
Types == {Config[s].type : s \in Sensors}
Idle == [pc |-> "idle", s |-> "none", i |-> 0, todo |-> {}]
-----------------------------------------------------------------------------
(* ThermalCommon *)

\* initialize_sensor: the thresholds that are configured; all others are NAN.
Threshold(s) ==
    [v \in {w \in {Config[s].sev, Shutdown} :
                IF w = Shutdown THEN Config[s].shut # 0 ELSE Config[s].throt # 0} |->
        IF v = Shutdown THEN Config[s].shut ELSE Config[s].throt]

\* A temperature at or beyond the threshold of v moved back by margin.
Beyond(s, v, t, margin) ==
    IF Config[s].hot THEN t >= Threshold(s)[v] - margin
                     ELSE t <= Threshold(s)[v] + margin

\* Mutant: the hysteresis is forgotten.
EstimateNoHysteresis(s, status, t) ==
    Max({0} \cup {v \in DOMAIN Threshold(s) : Beyond(s, v, t, 0)})

\* estimateSeverity: the highest severity that is reached, or held by the
\* hysteresis if it is the current one.
estimateSeverity(s, status, t) ==
    Max({0} \cup {v \in DOMAIN Threshold(s) :
                    Beyond(s, v, t, IF v = status THEN Config[s].hyst ELSE 0)})

\* Mutant: the trip stays at the threshold that was just reached.
ArmedAtStatus(s, status) ==
    LET higher == {v \in DOMAIN Threshold(s) : v >= status}
    IN  IF ~Config[s].hot THEN {trip[s]}
        ELSE {[high |-> Threshold(s)[Min(higher)],
               hyst |-> IF status = 0 THEN trip[s].hyst ELSE Config[s].hyst]}

\* initThreshold for a sensor of the given status: the trip is the next hot
\* threshold; at the top it is made from NAN, and isnan of an int is false.
\* The hysteresis file is left alone for NONE.
ArmedFor(s, status) ==
    LET higher == {v \in DOMAIN Threshold(s) : v > status}
        highs == IF higher = {} THEN Garbage ELSE {Threshold(s)[Min(higher)]}
    IN  IF ~Config[s].hot THEN {trip[s]}
        ELSE {[high |-> h,
               hyst |-> IF status = 0 THEN trip[s].hyst
                        ELSE (h - Threshold(s)[status]) + Config[s].hyst] : h \in highs}

\* read_temperature: a value; the old one when the file cannot be opened (errno
\* is positive and the empty buffer does not parse); or a failure.
readings(s) == Temps \cup {sens[s].value}
-----------------------------------------------------------------------------
(* ThermalUtils *)

Init ==
    /\ ready = FALSE /\ loaded = FALSE
    /\ sens = [s \in Sensors |-> [value |-> NoReading, status |-> 0]]
    /\ trip = [s \in Sensors |-> [high |-> NoReading, hyst |-> 0]]
    /\ cb = <<>>
    /\ sensLock = "none" /\ cbLock = "none"
    /\ th = [t \in Threads |-> IF t = "event" THEN [Idle EXCEPT !.pc = "boot"] ELSE Idle]
    /\ told = [c \in Callbacks |-> [s \in Sensors |-> 0]]
    /\ changed = {}

Started == th["event"].pc # "boot"

\* The loop of the constructor and of eventCreateParse: the entry is stored
\* before the copy is read and estimated, so only the trip knows the reading.
Load ==
    /\ loaded' = TRUE
    /\ \E v \in [Sensors -> Temps \cup {NoReading}] :
         trip' \in {f \in [Sensors -> UNION {ArmedFor(s, estimateSeverity(s, 0, v[s])) : s \in Sensors}] :
                      \A s \in Sensors : f[s] \in ArmedFor(s, estimateSeverity(s, 0, v[s]))}
    /\ UNCHANGED <<sens, cb, sensLock, cbLock, told, changed>>

\* The constructor; the monitor's threads and the service start after it.
Boot ==
    /\ ~Started
    /\ th' = [th EXCEPT !["event"] = Idle]
    /\ \/ ready' = TRUE /\ Load
       \/ UNCHANGED <<ready, loaded, sens, trip, cb, sensLock, cbLock, told, changed>>

\* eventCreateParse, while no sensor was found: initThermalZones now succeeds
\* (a failure changes nothing).  is_sensor_init is set before the lock.
eventCreateParse ==
    /\ Started /\ th["event"].pc = "idle" /\ ~ready
    /\ ready' = TRUE
    /\ th' = [th EXCEPT !["event"].pc = "fill"]
    /\ UNCHANGED <<loaded, sens, trip, cb, sensLock, cbLock, told, changed>>

Fill ==
    /\ th["event"].pc = "fill" /\ sensLock = "none"
    /\ Load
    /\ th' = [th EXCEPT !["event"] = Idle]
    /\ UNCHANGED ready

\* Notify: an estimate that changes nothing ends it, otherwise the thread goes
\* on to the callbacks.  todo is what readTemperatures still has to read.
Notify(t, s, value, todo) ==
    LET severity == estimateSeverity(s, sens[s].status, value)
        rings == severity # sens[s].status
        more == todo # {}
    IN  /\ sens' = [sens EXCEPT ![s] = [value |-> value, status |-> severity]]
        /\ changed' = IF rings THEN changed \cup {s} ELSE changed
        /\ sensLock' = IF rings \/ more THEN t ELSE "none"
        /\ th' = [th EXCEPT ![t] =
                    IF rings \/ more
                    THEN [pc |-> IF rings THEN "notify" ELSE "read",
                          s |-> s, i |-> 0, todo |-> todo]
                    ELSE Idle]

CanEnter(t) == Started /\ loaded /\ th[t].pc = "idle" /\ sensLock = "none"

\* eventParse of trip 1: the value is the one stored last.
eventParse(s) ==
    /\ CanEnter("event")
    /\ Notify("event", s, sens[s].value, {})
    /\ UNCHANGED <<ready, loaded, trip, cb, cbLock, told>>

sampleParse(s) ==
    /\ CanEnter("sample")
    /\ \E v \in Temps : Notify("sample", s, v, {})
    /\ UNCHANGED <<ready, loaded, trip, cb, cbLock, told>>

\* readTemperatures, of all sensors or of one type.
readTemperatures(b, which) ==
    /\ CanEnter(b) /\ ready /\ which # {}
    /\ sensLock' = b
    /\ th' = [th EXCEPT ![b] = [Idle EXCEPT !.pc = "read", !.todo = which]]
    /\ UNCHANGED <<ready, loaded, sens, trip, cb, cbLock, told, changed>>

\* One round of its loop, in the order of the hash map; a failed read returns.
ReadNext(t) ==
    /\ th[t].pc = "read"
    /\ \E s \in th[t].todo :
         \/ \E v \in readings(s) : Notify(t, s, v, th[t].todo \ {s})
         \/ /\ th' = [th EXCEPT ![t] = Idle]
            /\ sensLock' = "none"
            /\ UNCHANGED <<sens, changed>>
    /\ UNCHANGED <<ready, loaded, trip, cb, cbLock, told>>

\* The end of Notify: initThreshold, and on to the next sensor or out.
Arm(t) ==
    /\ th[t].pc = "arm"
    /\ \E f \in ArmedFor(th[t].s, sens[th[t].s].status) : trip' = [trip EXCEPT ![th[t].s] = f]
    /\ IF th[t].todo # {}
       THEN th' = [th EXCEPT ![t].pc = "read"] /\ UNCHANGED sensLock
       ELSE th' = [th EXCEPT ![t] = Idle] /\ sensLock' = "none"
    /\ UNCHANGED <<ready, loaded, sens, cb, cbLock, told, changed>>
-----------------------------------------------------------------------------
(* Thermal *)

\* sendThrottlingChangeCB takes its mutex and starts at the first callback.
sendThrottlingChangeCB(t) ==
    /\ th[t].pc = "notify" /\ cbLock = "none"
    /\ cbLock' = t
    /\ th' = [th EXCEPT ![t].pc = "loop", ![t].i = 1]
    /\ UNCHANGED <<ready, loaded, sens, trip, cb, sensLock, told, changed>>

Matches(entry, s) == entry.type \in {Config[s].type, "UNKNOWN"}

Forget(c) == told' = [told EXCEPT ![c] = [s \in Sensors |-> 0]]

\* Mutant: the iterator is advanced after an erase too.
EraseSkips(t) ==
    LET i == th[t].i
        s == th[t].s
    IN  /\ th[t].pc = "loop" /\ i <= Len(cb)
        /\ \/ /\ Matches(cb[i], s)
              /\ told' = [told EXCEPT ![cb[i].who][s] = sens[s].status]
              /\ UNCHANGED cb
           \/ /\ Matches(cb[i], s)
              /\ cb' = RemoveAt(cb, i)
              /\ Forget(cb[i].who)
           \/ ~Matches(cb[i], s) /\ UNCHANGED <<cb, told>>
        /\ th' = [th EXCEPT ![t].i = i + 1]
        /\ UNCHANGED <<ready, loaded, sens, trip, sensLock, cbLock, changed>>

\* Mutant: a callback of another type is passed over without advancing.
LoopStuck(t) ==
    LET i == th[t].i
        s == th[t].s
    IN  /\ th[t].pc = "loop" /\ i <= Len(cb)
        /\ IF Matches(cb[i], s)
           THEN /\ told' = [told EXCEPT ![cb[i].who][s] = sens[s].status]
                /\ th' = [th EXCEPT ![t].i = i + 1]
           ELSE UNCHANGED <<told, th>>
        /\ UNCHANGED <<ready, loaded, sens, trip, cb, sensLock, cbLock, changed>>

\* One round of its loop: notifyThrottling fails for a callback that is gone,
\* which is erased; the iterator then stands on the entry that follows.
SendNext(t) ==
    LET i == th[t].i
        s == th[t].s
    IN  /\ th[t].pc = "loop" /\ i <= Len(cb)
        /\ \/ /\ Matches(cb[i], s)
              /\ told' = [told EXCEPT ![cb[i].who][s] = sens[s].status]
              /\ th' = [th EXCEPT ![t].i = i + 1]
              /\ UNCHANGED cb
           \/ /\ Matches(cb[i], s)
              /\ cb' = RemoveAt(cb, i)
              /\ Forget(cb[i].who)
              /\ UNCHANGED th
           \/ /\ ~Matches(cb[i], s)
              /\ th' = [th EXCEPT ![t].i = i + 1]
              /\ UNCHANGED <<cb, told>>
        /\ UNCHANGED <<ready, loaded, sens, trip, sensLock, cbLock, changed>>

SendEnd(t) ==
    /\ th[t].pc = "loop" /\ th[t].i > Len(cb)
    /\ cbLock' = "none"
    /\ th' = [th EXCEPT ![t].pc = "arm", ![t].i = 0]
    /\ UNCHANGED <<ready, loaded, sens, trip, cb, sensLock, told, changed>>

Registered(c) == \E i \in DOMAIN cb : cb[i].who = c

\* Both register functions; without a type it is UNKNOWN, which is every type.
register(c, type) ==
    /\ Started /\ cbLock = "none"
    /\ type \notin {"BCL_VOLTAGE", "BCL_CURRENT"}
    /\ ~Registered(c)
    /\ cb' = Append(cb, [who |-> c, type |-> type])
    /\ told' = [told EXCEPT ![c] = [s \in Sensors |-> sens[s].status]]
    /\ UNCHANGED <<ready, loaded, sens, trip, sensLock, cbLock, th, changed>>

unregister(c) ==
    /\ Started /\ cbLock = "none"
    /\ \E i \in DOMAIN cb :
         /\ cb[i].who = c /\ \A j \in 1 .. i - 1 : cb[j].who # c
         /\ cb' = RemoveAt(cb, i)
    /\ Forget(c)
    /\ UNCHANGED <<ready, loaded, sens, trip, sensLock, cbLock, th, changed>>
-----------------------------------------------------------------------------
\* What a thread that holds sens_cb_mutex does next.
Proceed(t) == ReadNext(t) \/ Arm(t) \/ sendThrottlingChangeCB(t) \/ SendNext(t) \/ SendEnd(t)

Next ==
    \/ Boot
    \/ eventCreateParse
    \/ Fill
    \/ \E s \in Sensors : eventParse(s) \/ sampleParse(s)
    \/ \E b \in Binders :
         \/ readTemperatures(b, Sensors)
         \/ \E type \in Types : readTemperatures(b, {s \in Sensors : Config[s].type = type})
    \/ \E t \in Threads : Proceed(t)
    \/ \E c \in Callbacks : unregister(c) \/ \E type \in Types \cup {"UNKNOWN"} : register(c, type)

Spec == Init /\ [][Next]_vars

\* A thread that runs is scheduled again, and a oneway notification returns.
\* Only the holder of sens_cb_mutex can proceed, so one conjunct is enough.
FairSpec == Spec /\ WF_vars(\E t \in Threads : Proceed(t))
-----------------------------------------------------------------------------
(* Properties *)

TypeOK ==
    /\ ready \in BOOLEAN /\ loaded \in BOOLEAN
    /\ sens \in [Sensors -> [value : Temps \cup {NoReading}, status : Severities]]
    /\ trip \in [Sensors -> [high : Int, hyst : Int]]
    /\ cb \in Seq([who : Callbacks, type : Types \cup {"UNKNOWN"}])
    /\ sensLock \in Threads \cup {"none"} /\ cbLock \in Threads \cup {"none"}
    /\ th \in [Threads -> [pc : {"boot", "idle", "fill", "read", "notify", "loop", "arm"},
                           s : Sensors \cup {"none"}, i : Nat, todo : SUBSET Sensors]]
    /\ told \in [Callbacks -> [Sensors -> Severities]]
    /\ changed \subseteq Sensors

\* Whenever nobody is notifying, every registered callback that asked for the
\* sensor's type knows its current severity: from the notification, or, when it
\* registered later, from a read at that moment.  Notifications of two threads
\* cannot overtake each other (sens_cb_mutex is held across them), a
\* registration between the estimate and the loop misses nothing, and erasing
\* a dead callback does not skip the next one.
ToldCurrent ==
    sensLock = "none" =>
        \A i \in DOMAIN cb, s \in Sensors :
            Matches(cb[i], s) => told[cb[i].who][s] = sens[s].status

\* The trip f is right for a hot sensor of that status: the kernel reports the
\* next threshold above, and the temperature below which the hysteresis releases
\* the present one.
ArmedRight(s, status, f) ==
    LET higher == {v \in DOMAIN Threshold(s) : v > status}
    IN  /\ \A v \in higher : f.high <= Threshold(s)[v]
        /\ higher # {} => \E v \in higher : f.high = Threshold(s)[v]
        /\ status # 0 => f.high - f.hyst = Threshold(s)[status] - Config[s].hyst

\* Whenever nobody is notifying, a hot sensor whose severity has changed since
\* the HAL started is armed for that severity.  A sensor that has not changed
\* may be armed for a severity that the map does not know, since Load estimates
\* a copy.
ArmedForStatus ==
    sensLock = "none" =>
        \A s \in {x \in changed : Config[x].hot} : ArmedRight(s, sens[s].status, trip[s])

Justified(s) ==
    LET old == sens[s].status
        new == sens'[s].status
    IN  new # old =>
          /\ new > old => Beyond(s, new, sens'[s].value, 0)
          /\ new < old => ~Beyond(s, old, sens'[s].value, Config[s].hyst)
          /\ \A v \in DOMAIN Threshold(s) : Beyond(s, v, sens'[s].value, 0) => v <= new

\* A severity changes only for a reason: it rises only to a threshold the
\* reading has reached, it falls only when the reading has left the hysteresis of
\* the old severity, and it never falls below a threshold still reached.  So a
\* reading that swings inside the hysteresis notifies nobody.
NoFlapping == [][\A s \in Sensors : Justified(s)]_vars

\* A thread that entered sens_cb_mutex leaves it: the callback mutex is taken
\* only inside, never the other way round, and the loop over the callbacks ends
\* although it erases from the list it walks.
CallsReturn == sensLock # "none" ~> sensLock = "none"
=============================================================================
