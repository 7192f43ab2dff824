----------------------- MODULE LightsThermalProofs -----------------------
(***************************************************************************)
(* Proofs about two HALs of the device that share nothing: the thermal     *)
(* HAL first, the notification LED of the lights HAL after it.             *)
(*                                                                         *)
(* The thermal HAL, for all sensors, temperatures, callbacks and binder    *)
(* threads: the lock discipline (Locking) leaves one thread between a new  *)
(* severity and the armed trip.  A callback that does not know the         *)
(* severity of a sensor is ahead of that thread in its loop over the       *)
(* callbacks (AllTold), and a sensor whose trip is wrong is the one that   *)
(* thread is about to arm (AllArmed).                                      *)
(*                                                                         *)
(* The LED, for every number of channels and every set of light states:    *)
(* StaticShown speaks of the lights clients have set and of the LED.  The  *)
(* two meet in the setting: unless the newest update was debounced it is   *)
(* the one composed from the lights (SettingCurrent), and the channels     *)
(* that the static write has passed show it unless the blink thread wrote  *)
(* them later (WrittenShown).                                              *)
(***************************************************************************)
EXTENDS ThermalHal, Lights, SequenceTheorems, TLAPS

InMutex == {"read", "notify", "loop", "arm"}   \* inside sens_cb_mutex
Telling == {"notify", "loop", "arm"}           \* between estimate and trip

\* Which thread holds which mutex, and that nothing happens before Load.
Locking ==
    /\ \A t \in Threads : th[t].pc \in InMutex <=> sensLock = t
    /\ \A t \in Threads : th[t].pc = "loop" <=> cbLock = t
    /\ \A t \in Threads : th[t].pc = "loop" => th[t].i # 0
    /\ \A t \in Threads : th[t].pc \in Telling => th[t].s \in Sensors
    /\ \A t \in Threads : th[t].pc \in {"boot", "fill"} => t = "event" /\ ~loaded
    /\ loaded \/ th["event"].pc = "fill" => ready
    /\ ~loaded => changed = {} /\ sensLock = "none"

\* A severity is NONE or has a threshold.
StatusKnown == \A s \in Sensors : sens[s].status \in {0} \cup DOMAIN Threshold(s)

\* A client has one entry in the list of callbacks.
Unique == \A i, j \in DOMAIN cb : cb[i].who = cb[j].who => i = j

\* The notification of s has still to come to entry i.
Ahead(i, s) ==
    \E t \in Threads :
        /\ th[t].s = s
        /\ th[t].pc = "notify" \/ (th[t].pc = "loop" /\ th[t].i <= i)

AllTold ==
    \A i \in DOMAIN cb, s \in Sensors :
        Matches(cb[i], s) => told[cb[i].who][s] = sens[s].status \/ Ahead(i, s)

ArmPending(s) == \E t \in Threads : th[t].s = s /\ th[t].pc \in Telling

AllArmed ==
    \A s \in changed :
        Config[s].hot => ArmedRight(s, sens[s].status, trip[s]) \/ ArmPending(s)

ThermalInv ==
    TypeOK /\ Locking /\ StatusKnown /\ Unique /\ AllTold /\ AllArmed

-----------------------------------------------------------------------------
(* Sequences, and the maximum and minimum of small sets.                   *)

\* Erasing an entry moves the entries behind it one place up.
LEMMA RemoveAtProperties ==
    ASSUME NEW S, NEW seq \in Seq(S), NEW i \in 1 .. Len(seq)
    PROVE  /\ RemoveAt(seq, i) \in Seq(S)
           /\ Len(RemoveAt(seq, i)) = Len(seq) - 1
           /\ \A j \in 1 .. Len(seq) - 1 :
                 RemoveAt(seq, i)[j] = IF j < i THEN seq[j] ELSE seq[j + 1]
<1> DEFINE left == SubSeq(seq, 1, i - 1)
           right == SubSeq(seq, i + 1, Len(seq))
<1>1. left \in Seq(S) /\ Len(left) = i - 1 /\ \A j \in 1 .. i - 1 : left[j] = seq[j]
  BY LenProperties, SubSeqProperties
<1>2. /\ right \in Seq(S) /\ Len(right) = Len(seq) - i
      /\ \A j \in 1 .. Len(seq) - i : right[j] = seq[i + j]
  BY LenProperties, SubSeqProperties
<1>3. RemoveAt(seq, i) = left \o right
  BY DEF RemoveAt
<1> HIDE DEF left, right
<1>4. Len(seq) \in Nat /\ i \in Int /\ i <= Len(seq) /\ (i - 1) + (Len(seq) - i) = Len(seq) - 1
  BY LenProperties
<1>5. /\ left \o right \in Seq(S) /\ Len(left \o right) = Len(seq) - 1
      /\ \A j \in 1 .. Len(seq) - 1 :
            (left \o right)[j] = IF j <= i - 1 THEN left[j] ELSE right[j - (i - 1)]
  <2>1. /\ left \o right \in Seq(S) /\ Len(left \o right) = Len(left) + Len(right)
        /\ \A j \in 1 .. Len(left) + Len(right) :
              (left \o right)[j] = IF j <= Len(left) THEN left[j] ELSE right[j - Len(left)]
    BY <1>1, <1>2, ConcatProperties, Zenon
  <2> QED
    BY <1>1, <1>2, <1>4, <2>1
<1>6. ASSUME NEW j \in 1 .. Len(seq) - 1
      PROVE  (left \o right)[j] = IF j < i THEN seq[j] ELSE seq[j + 1]
  <2>1. Len(seq) \in Nat /\ j \in Int /\ i \in Int
    BY LenProperties
  <2>2. CASE j < i
    BY <1>1, <1>5, <2>1, <2>2
  <2>3. CASE ~(j < i)
    <3>1. j - (i - 1) \in 1 .. Len(seq) - i /\ i + (j - (i - 1)) = j + 1
      BY <2>1, <2>3
    <3>2. (left \o right)[j] = right[j - (i - 1)]
      BY <1>5, <2>1, <2>3
    <3> QED
      BY <1>2, <2>3, <3>1, <3>2
  <2> QED
    BY <2>2, <2>3
<1> QED
  BY <1>3, <1>5, <1>6

\* The greatest of at most three numbers.
LEMMA MaxOfThree ==
    ASSUME NEW a \in Int, NEW b \in Int, NEW c \in Int, NEW S, S \subseteq {a, b, c}, S # {}
    PROVE  Max(S) \in S /\ \A y \in S : Max(S) >= y
<1>1. \E x \in S : \A y \in S : x >= y
  <2>1. CASE a \in S /\ (b \in S => a >= b) /\ (c \in S => a >= c)
    BY <2>1
  <2>2. CASE b \in S /\ (a \in S => b >= a) /\ (c \in S => b >= c)
    BY <2>2
  <2>3. CASE c \in S /\ (a \in S => c >= a) /\ (b \in S => c >= b)
    BY <2>3
  <2>4. a \in S \/ b \in S \/ c \in S
    OBVIOUS
  <2> QED
    BY <2>1, <2>2, <2>3, <2>4
<1> QED
  BY <1>1 DEF Max

\* The smaller of at most two numbers.
LEMMA MinOfTwo ==
    ASSUME NEW a \in Int, NEW b \in Int, NEW S, S \subseteq {a, b}, S # {}
    PROVE  Min(S) \in S /\ \A y \in S : Min(S) <= y
<1>1. \E x \in S : \A y \in S : x <= y
  <2>1. CASE a \in S /\ (b \in S => a <= b)
    BY <2>1
  <2>2. CASE b \in S /\ (a \in S => b <= a)
    BY <2>2
  <2>3. a \in S \/ b \in S
    OBVIOUS
  <2> QED
    BY <2>1, <2>2, <2>3
<1> QED
  BY <1>1 DEF Min

-----------------------------------------------------------------------------
(* The severity and the trip of one sensor.                                *)

\* The fields of a sensor's table entry.
LEMMA ConfigTypes ==
    ASSUME NEW s \in Sensors
    PROVE  /\ Config[s].sev \in Int /\ 0 < Config[s].sev /\ Config[s].sev < Shutdown
           /\ Config[s].throt \in Int /\ Config[s].shut \in Int /\ Config[s].hyst \in Nat
  BY ThermalAssumption DEF Shutdown

\* A sensor has thresholds for its throttling severity and for SHUTDOWN at most.
LEMMA ThresholdTypes ==
    ASSUME NEW s \in Sensors
    PROVE  /\ DOMAIN Threshold(s) \subseteq {Config[s].sev, Shutdown}
           /\ \A v \in DOMAIN Threshold(s) :
                 v \in Int /\ v \in Severities /\ v > 0 /\ Threshold(s)[v] \in Int
<1>1. DOMAIN Threshold(s) \subseteq {Config[s].sev, Shutdown}
  BY DEF Threshold
<1>2. \A v \in DOMAIN Threshold(s) :
         Threshold(s)[v] = IF v = Shutdown THEN Config[s].shut ELSE Config[s].throt
  BY DEF Threshold
<1> QED
  BY <1>1, <1>2, ConfigTypes DEF Shutdown, Severities

\* Hot thresholds rise with the severity.
LEMMA ThresholdsRise ==
    ASSUME NEW s \in Sensors, Config[s].hot,
           NEW v \in DOMAIN Threshold(s), NEW w \in DOMAIN Threshold(s), v <= w
    PROVE  Threshold(s)[v] <= Threshold(s)[w]
<1>1. v \in {Config[s].sev, Shutdown} /\ w \in {Config[s].sev, Shutdown}
  BY ThresholdTypes
<1>2. CASE v = w
  BY <1>2, ThresholdTypes
<1>3. CASE v # w
  <2>1. v = Config[s].sev /\ w = Shutdown
    BY <1>1, <1>3, ConfigTypes DEF Shutdown
  <2>2. Config[s].sev # Shutdown
    BY ConfigTypes DEF Shutdown
  <2>3. Config[s].throt # 0 /\ Config[s].shut # 0
    BY <2>1, <2>2 DEF Threshold
  <2>4. Threshold(s)[v] = Config[s].throt /\ Threshold(s)[w] = Config[s].shut
    BY <2>1, <2>2 DEF Threshold
  <2> QED
    BY <2>3, <2>4, HotOrdered
<1> QED
  BY <1>2, <1>3

\* estimateSeverity returns the highest severity that is reached or held.
LEMMA EstimateHighest ==
    ASSUME NEW s \in Sensors, NEW status, NEW t
    PROVE  LET e == estimateSeverity(s, status, t)
               margin(v) == IF v = status THEN Config[s].hyst ELSE 0
           IN  /\ e \in {0} \cup DOMAIN Threshold(s) /\ e \in Severities
               /\ e # 0 => Beyond(s, e, t, margin(e))
               /\ \A v \in DOMAIN Threshold(s) : Beyond(s, v, t, margin(v)) => v <= e
<1> DEFINE held == {v \in DOMAIN Threshold(s) :
                      Beyond(s, v, t, IF v = status THEN Config[s].hyst ELSE 0)}
           e == estimateSeverity(s, status, t)
<1>1. {0} \cup held \subseteq {0, Config[s].sev, Shutdown}
  BY ThresholdTypes
<1>2. e = Max({0} \cup held)
  BY DEF estimateSeverity
<1>3. Config[s].sev \in Int /\ Shutdown \in Int
  BY ConfigTypes DEF Shutdown
<1> HIDE DEF held
<1>4. e \in {0} \cup held /\ \A y \in {0} \cup held : e >= y
  BY <1>1, <1>2, <1>3, MaxOfThree
<1>5. 0 \in Severities
  BY DEF Severities, Shutdown
<1> QED
  BY <1>4, <1>5, ThresholdTypes DEF held, Severities, Shutdown

\* A threshold that is reached is also held.
LEMMA BeyondMonotone ==
    ASSUME NEW s \in Sensors, NEW v \in DOMAIN Threshold(s), NEW t \in Int,
           Beyond(s, v, t, 0)
    PROVE  Beyond(s, v, t, Config[s].hyst)
  BY ConfigTypes, ThresholdTypes DEF Beyond

\* What initThreshold writes is right for the sensor's status.
LEMMA ArmedForRight ==
    ASSUME NEW s \in Sensors, NEW status \in {0} \cup DOMAIN Threshold(s),
           trip[s] \in [high : Int, hyst : Int], NEW f \in ArmedFor(s, status)
    PROVE  /\ f \in [high : Int, hyst : Int]
           /\ Config[s].hot => ArmedRight(s, status, f)
<1> DEFINE higher == {v \in DOMAIN Threshold(s) : v > status}
           highs == IF higher = {} THEN Garbage ELSE {Threshold(s)[Min(higher)]}
<1>1. CASE ~Config[s].hot
  BY <1>1 DEF ArmedFor
<1>2. CASE Config[s].hot
  <2>1. PICK h \in highs :
           f = [high |-> h, hyst |-> IF status = 0 THEN trip[s].hyst
                                     ELSE (h - Threshold(s)[status]) + Config[s].hyst]
    BY <1>2 DEF ArmedFor
  <2>2. higher \subseteq {Config[s].sev, Shutdown} /\ higher \subseteq DOMAIN Threshold(s)
    BY ThresholdTypes
  <2>3. Config[s].sev \in Int /\ Shutdown \in Int /\ Config[s].hyst \in Nat
    BY ConfigTypes DEF Shutdown
  <2>4. higher # {} => Min(higher) \in higher /\ \A y \in higher : Min(higher) <= y
    <3> HIDE DEF higher
    <3> QED
      BY <2>2, <2>3, MinOfTwo
  <2>5. h \in Int
    BY <2>2, <2>4, ThermalAssumption, ThresholdTypes
  <2>6. status # 0 => Threshold(s)[status] \in Int
    BY ThresholdTypes
  <2>7. f \in [high : Int, hyst : Int]
    BY <2>1, <2>3, <2>5, <2>6
  <2>8. status # 0 => f.high - f.hyst = Threshold(s)[status] - Config[s].hyst
    BY <2>1, <2>3, <2>5, <2>6
  <2>9. higher # {} => h = Threshold(s)[Min(higher)]
    OBVIOUS
  <2>10. \A v \in higher : f.high <= Threshold(s)[v]
    <3> HIDE DEF highs
    <3> SUFFICES ASSUME NEW v \in higher PROVE h <= Threshold(s)[v]
      BY <2>1
    <3>1. Min(higher) \in DOMAIN Threshold(s) /\ Min(higher) <= v /\ v \in DOMAIN Threshold(s)
      BY <2>2, <2>4
    <3>2. Threshold(s)[Min(higher)] <= Threshold(s)[v]
      BY <1>2, <3>1, ThresholdsRise
    <3> QED
      BY <2>9, <3>2
  <2> QED
    BY <2>1, <2>4, <2>7, <2>8, <2>9, <2>10 DEF ArmedRight
<1> QED
  BY <1>1, <1>2

-----------------------------------------------------------------------------
(* The initial state.                                                      *)

Reading == Temps \cup {NoReading}
ThreadState == [pc : {"boot", "idle", "fill", "read", "notify", "loop", "arm"},
                s : Sensors \cup {"none"}, i : Nat, todo : SUBSET Sensors]

\* The two netlink threads are not binder threads.
LEMMA ThreadNames ==
    /\ "event" \in Threads /\ "sample" \in Threads /\ Binders \subseteq Threads
    /\ "none" \notin Threads
    /\ \A t \in Binders : t # "event"
  BY ThermalAssumption DEF Threads, Monitors

\* A thread at rest.
LEMMA IdleType == Idle \in ThreadState /\ Idle.pc = "idle"
  BY DEF Idle, ThreadState

\* Before the sensors are loaded the invariant holds.
LEMMA InvInit == Init => ThermalInv
<1> SUFFICES ASSUME Init PROVE ThermalInv
  OBVIOUS
<1> USE DEF Init
<1>1. cb = <<>> /\ DOMAIN cb = {}
  OBVIOUS
<1>2. th \in [Threads -> ThreadState]
  BY IdleType DEF Idle, ThreadState
<1>3. \A t \in Threads : th[t].pc = IF t = "event" THEN "boot" ELSE "idle"
  BY DEF Idle
<1>4. TypeOK
  <2>1. 0 \in Severities
    BY DEF Severities, Shutdown
  <2>2. sens \in [Sensors -> [value : Temps \cup {NoReading}, status : Severities]]
    BY <2>1
  <2>3. trip \in [Sensors -> [high : Int, hyst : Int]]
    BY DEF NoReading
  <2>4. told \in [Callbacks -> [Sensors -> Severities]]
    BY <2>1
  <2>5. cb \in Seq([who : Callbacks, type : Types \cup {"UNKNOWN"}])
    BY <1>1
  <2> QED
    BY <1>2, <2>2, <2>3, <2>4, <2>5 DEF TypeOK, ThreadState
<1>5. Locking
  <2>1. th["event"].pc = "boot"
    BY <1>3, ThreadNames
  <2>2. \A t \in Threads : th[t].pc \notin InMutex /\ th[t].pc # "fill"
    BY <1>3 DEF InMutex
  <2> QED
    BY <1>3, <2>1, <2>2, ThreadNames DEF Locking, InMutex, Telling
<1>6. StatusKnown /\ Unique /\ AllTold /\ AllArmed
  BY <1>1 DEF StatusKnown, Unique, AllTold, AllArmed
<1> QED
  BY <1>4, <1>5, <1>6 DEF ThermalInv

-----------------------------------------------------------------------------
(* Steps that leave severities, callbacks and notifications alone.         *)

\* A thread that is not telling may go anywhere outside Telling.
LEMMA ToldKept ==
    ASSUME AllTold, UNCHANGED <<sens, cb, told>>,
           \A t \in Threads : th[t].pc \in {"notify", "loop"} => th'[t] = th[t]
    PROVE  AllTold'
  BY DEF AllTold, Ahead, Matches

\* Nothing to show about trips in a step that changes no severity and no trip and
\* leaves the notifying thread at it.
LEMMA ArmedKept ==
    ASSUME AllArmed, UNCHANGED <<sens, trip, changed>>,
           \A t \in Threads : th[t].pc \in Telling =>
              th'[t].s = th[t].s /\ th'[t].pc \in Telling
    PROVE  AllArmed'
  BY DEF AllArmed, ArmPending

\* Load estimates and arms every sensor before any of them has changed.
LEMMA LoadTypes ==
    ASSUME TypeOK, Load
    PROVE  trip' \in [Sensors -> [high : Int, hyst : Int]]
<1>1. PICK v \in [Sensors -> Temps \cup {NoReading}] :
         trip' \in {f \in [Sensors -> UNION {ArmedFor(s, estimateSeverity(s, 0, v[s])) : s \in Sensors}] :
                      \A s \in Sensors : f[s] \in ArmedFor(s, estimateSeverity(s, 0, v[s]))}
  BY DEF Load
<1>2. /\ trip' = [s \in Sensors |-> trip'[s]]
      /\ \A s \in Sensors : trip'[s] \in ArmedFor(s, estimateSeverity(s, 0, v[s]))
  BY <1>1
<1>3. \A s \in Sensors : trip[s] \in [high : Int, hyst : Int]
  BY DEF TypeOK
<1>4. \A s \in Sensors : estimateSeverity(s, 0, v[s]) \in {0} \cup DOMAIN Threshold(s)
  BY EstimateHighest
<1>5. \A s \in Sensors : trip'[s] \in [high : Int, hyst : Int]
  BY <1>2, <1>3, <1>4, ArmedForRight
<1> QED
  BY <1>2, <1>5

\* Steps of the event thread while it loads the sensors; no other thread is in the
\* mutex until they are loaded.
LEMMA EventThreadKeeps ==
    ASSUME ThermalInv, NEW r \in ThreadState, r.pc \in {"idle", "fill"},
           th' = [th EXCEPT !["event"] = r], th["event"].pc \in {"boot", "idle", "fill"},
           UNCHANGED <<sens, cb, sensLock, cbLock, told, changed>>,
           trip' = trip \/ (Load /\ ~loaded),
           loaded' \in BOOLEAN, ready' \in BOOLEAN, loaded' => ready', loaded => loaded',
           loaded' => r.pc = "idle", r.pc = "fill" => ready'
    PROVE  ThermalInv'
<1> USE ThreadNames DEF ThermalInv
<1>1. th \in [Threads -> ThreadState]
  BY DEF TypeOK, ThreadState
<1>2. th' \in [Threads -> ThreadState] /\ th'["event"] = r
  BY <1>1
<1>3. \A t \in Threads : t # "event" => th'[t] = th[t]
  BY <1>1
<1>4. TypeOK'
  <2>1. trip' \in [Sensors -> [high : Int, hyst : Int]]
    BY LoadTypes DEF TypeOK
  <2> QED
    BY <1>2, <2>1 DEF TypeOK, ThreadState
<1>5. Locking'
  BY <1>2, <1>3 DEF Locking, InMutex, Telling
<1>6. StatusKnown' /\ Unique'
  BY DEF StatusKnown, Unique
<1>7. \A t \in Threads : th[t].pc \in Telling => th'[t] = th[t]
  BY <1>3 DEF Telling
<1>8. AllTold'
  BY <1>7, ToldKept DEF Telling
<1>9. AllArmed'
  <2>1. CASE trip' = trip
    BY <1>7, <2>1, ArmedKept
  <2>2. CASE ~loaded
    BY <2>2 DEF Locking, AllArmed
  <2> QED
    BY <2>1, <2>2
<1> QED
  BY <1>4, <1>5, <1>6, <1>8, <1>9

\* Start, late discovery and the filling of the table keep the invariant.
LEMMA StartKeeps ==
    ASSUME ThermalInv, Boot \/ eventCreateParse \/ Fill
    PROVE  ThermalInv'
<1> USE ThreadNames, IdleType DEF ThermalInv, TypeOK, Locking
<1>1. CASE Boot
  <2>1. th["event"].pc = "boot" /\ th' = [th EXCEPT !["event"] = Idle] /\ ~loaded
    BY <1>1 DEF Boot, Started
  <2>2. CASE ready' = TRUE /\ Load
    <3>1. loaded' = TRUE /\ UNCHANGED <<sens, cb, sensLock, cbLock, told, changed>>
      BY <2>2 DEF Load
    <3> QED
      BY <2>1, <2>2, <3>1, EventThreadKeeps
  <2>3. CASE UNCHANGED <<ready, loaded, sens, trip, cb, sensLock, cbLock, told, changed>>
    BY <2>1, <2>3, EventThreadKeeps
  <2> QED
    BY <1>1, <2>2, <2>3 DEF Boot
<1>2. CASE eventCreateParse
  <2>1. th["event"].pc = "idle" /\ ~ready /\ ready' /\ ~loaded
    BY <1>2 DEF eventCreateParse
  <2>2. [th["event"] EXCEPT !.pc = "fill"] \in ThreadState
    BY DEF ThreadState
  <2>3. th' = [th EXCEPT !["event"] = [th["event"] EXCEPT !.pc = "fill"]]
    BY <1>2 DEF eventCreateParse
  <2>4. [th["event"] EXCEPT !.pc = "fill"].pc = "fill"
    BY DEF ThreadState
  <2> QED
    BY <1>2, <2>1, <2>2, <2>3, <2>4, EventThreadKeeps DEF eventCreateParse
<1>3. CASE Fill
  <2>1. th["event"].pc = "fill" /\ th' = [th EXCEPT !["event"] = Idle] /\ ~loaded
    BY <1>3 DEF Fill
  <2>2. /\ UNCHANGED <<sens, cb, sensLock, cbLock, told, changed>>
        /\ Load /\ loaded' = TRUE /\ ready' = ready /\ ready
    BY <1>3, <2>1 DEF Fill, Load
  <2> QED
    BY <2>1, <2>2, EventThreadKeeps
<1> QED
  BY <1>1, <1>2, <1>3

-----------------------------------------------------------------------------
(* Notify.                                                                 *)

\* The three callers of Notify hold sens_cb_mutex and nobody is being told.  A
\* changed severity makes the thread tell it, an unchanged one changes nothing.
LEMMA NotifyKeeps ==
    ASSUME ThermalInv, loaded, NEW t \in Threads, NEW s \in Sensors, NEW v \in Reading,
           NEW todo \in SUBSET Sensors, th[t].pc \in {"idle", "read"}, sensLock \in {"none", t},
           Notify(t, s, v, todo), UNCHANGED <<ready, loaded, trip, cb, cbLock, told>>
    PROVE  ThermalInv'
<1> DEFINE e == estimateSeverity(s, sens[s].status, v)
           rings == e # sens[s].status
<1> USE DEF ThermalInv
<1>1. \A u \in Threads : th[u].pc \notin Telling
  BY ThreadNames DEF Locking, InMutex, Telling
<1>2. e \in {0} \cup DOMAIN Threshold(s) /\ e \in Severities
  BY EstimateHighest
<1>3. /\ sens' = [sens EXCEPT ![s] = [value |-> v, status |-> e]]
      /\ changed' = IF rings THEN changed \cup {s} ELSE changed
  BY DEF Notify
<1>4. PICK r \in ThreadState :
         /\ th' = [th EXCEPT ![t] = r]
         /\ IF rings THEN r.pc = "notify" /\ r.s = s ELSE r.pc \in {"read", "idle"}
         /\ sensLock' = IF r.pc = "idle" THEN "none" ELSE t
  <2>1. CASE rings
    <3> DEFINE r == [pc |-> "notify", s |-> s, i |-> 0, todo |-> todo]
    <3>1. r \in ThreadState /\ r.pc = "notify" /\ r.s = s
      BY DEF ThreadState
    <3>2. th' = [th EXCEPT ![t] = r] /\ sensLock' = t
      BY <2>1 DEF Notify
    <3> QED
      BY <2>1, <3>1, <3>2
  <2>2. CASE ~rings /\ todo # {}
    <3> DEFINE r == [pc |-> "read", s |-> s, i |-> 0, todo |-> todo]
    <3>1. r \in ThreadState /\ r.pc = "read"
      BY DEF ThreadState
    <3>2. th' = [th EXCEPT ![t] = r] /\ sensLock' = t
      BY <2>2 DEF Notify
    <3> QED
      BY <2>2, <3>1, <3>2
  <2>3. CASE ~rings /\ todo = {}
    <3>1. th' = [th EXCEPT ![t] = Idle] /\ sensLock' = "none"
      BY <2>3 DEF Notify
    <3> QED
      BY <2>3, <3>1, IdleType
  <2> QED
    BY <2>1, <2>2, <2>3
<1> HIDE DEF e, rings
<1>5. th \in [Threads -> ThreadState] /\ sens \in [Sensors -> [value : Reading, status : Severities]]
  BY DEF TypeOK, ThreadState, Reading
<1>6. /\ th' \in [Threads -> ThreadState] /\ th'[t] = r
      /\ \A u \in Threads : u # t => th'[u] = th[u]
  BY <1>4, <1>5
<1>7. /\ sens' \in [Sensors -> [value : Reading, status : Severities]]
      /\ sens'[s].status = e /\ \A x \in Sensors : x # s => sens'[x] = sens[x]
  BY <1>2, <1>3, <1>5
<1>8. TypeOK'
  BY <1>3, <1>4, <1>6, <1>7 DEF TypeOK, ThreadState, Reading
<1>9. Locking'
  <2>1. \A u \in Threads : u # t => th[u].pc \notin InMutex
    BY ThreadNames DEF Locking
  <2>2. r.pc \in {"notify", "read", "idle"}
    BY <1>4
  <2>3. th'["event"].pc # "fill"
    BY <1>6, <2>2, ThreadNames DEF Locking
  <2> QED
    BY <1>4, <1>6, <2>1, <2>2, <2>3, ThreadNames DEF Locking, InMutex, Telling
<1>10. StatusKnown' /\ Unique'
  BY <1>2, <1>7 DEF StatusKnown, Unique
<1>11. AllTold'
  <2> SUFFICES ASSUME NEW i \in DOMAIN cb, NEW x \in Sensors, Matches(cb[i], x),
                      ~Ahead(i, x)'
               PROVE  told[cb[i].who][x] = sens'[x].status
    BY DEF AllTold, Matches
  <2>1. told[cb[i].who][x] = sens[x].status
    BY <1>1 DEF AllTold, Ahead, Telling
  <2>2. ~(x = s /\ rings)
    BY <1>4, <1>6 DEF Ahead
  <2> QED
    BY <1>7, <2>1, <2>2 DEF rings
<1>12. AllArmed'
  <2> SUFFICES ASSUME NEW x \in changed', Config[x].hot, ~ArmPending(x)'
               PROVE  ArmedRight(x, sens'[x].status, trip[x])
    BY DEF AllArmed
  <2>1. ~(x = s /\ rings)
    BY <1>4, <1>6 DEF ArmPending, Telling
  <2>2. x \in changed /\ x \in Sensors
    BY <1>3, <2>1 DEF TypeOK
  <2>3. ArmedRight(x, sens[x].status, trip[x])
    BY <1>1, <2>2 DEF AllArmed, ArmPending
  <2> QED
    BY <1>7, <2>1, <2>2, <2>3 DEF rings
<1> QED
  BY <1>8, <1>9, <1>10, <1>11, <1>12

\* A new severity, however read, is known to the thread that will notify it.
LEMMA NotifiersKeep ==
    ASSUME ThermalInv,
           \/ \E s \in Sensors : eventParse(s) \/ sampleParse(s)
           \/ \E t \in Threads, s \in Sensors :
                /\ th[t].pc = "read" /\ s \in th[t].todo
                /\ \E v \in readings(s) : Notify(t, s, v, th[t].todo \ {s})
                /\ UNCHANGED <<ready, loaded, trip, cb, cbLock, told>>
    PROVE  ThermalInv'
<1>1. \A s \in Sensors : sens[s].value \in Reading
  BY DEF ThermalInv, TypeOK, Reading
<1>2. ASSUME NEW s \in Sensors, eventParse(s) PROVE ThermalInv'
  <2>1. Notify("event", s, sens[s].value, {}) /\ loaded /\ sensLock = "none"
        /\ th["event"].pc = "idle" /\ UNCHANGED <<ready, loaded, trip, cb, cbLock, told>>
    BY <1>2 DEF eventParse, CanEnter
  <2> QED
    BY <1>1, <2>1, NotifyKeeps, ThreadNames
<1>3. ASSUME NEW s \in Sensors, sampleParse(s) PROVE ThermalInv'
  <2>1. PICK v \in Temps : Notify("sample", s, v, {})
    BY <1>3 DEF sampleParse
  <2>2. loaded /\ sensLock = "none" /\ th["sample"].pc = "idle"
        /\ UNCHANGED <<ready, loaded, trip, cb, cbLock, told>>
    BY <1>3 DEF sampleParse, CanEnter
  <2>3. v \in Reading
    BY DEF Reading
  <2> QED
    BY <2>1, <2>2, <2>3, NotifyKeeps, ThreadNames
<1>4. ASSUME NEW t \in Threads, NEW s \in Sensors, th[t].pc = "read", s \in th[t].todo,
             NEW v \in readings(s), Notify(t, s, v, th[t].todo \ {s}),
             UNCHANGED <<ready, loaded, trip, cb, cbLock, told>>
      PROVE  ThermalInv'
  <2>1. sensLock = t /\ loaded
    BY <1>4, ThreadNames DEF ThermalInv, Locking, InMutex
  <2>2. th[t].todo \ {s} \in SUBSET Sensors
    BY DEF ThermalInv, TypeOK
  <2>3. v \in Reading
    BY <1>1, <1>4 DEF readings, Reading
  <2> QED
    BY <1>4, <2>1, <2>2, <2>3, NotifyKeeps
<1> QED
  BY <1>2, <1>3, <1>4

-----------------------------------------------------------------------------
(* The rest of readTemperatures and Notify.                                *)

\* A step of one thread that nobody has to be told of.
LEMMA ThreadKeeps ==
    ASSUME ThermalInv, NEW t \in Threads, NEW r \in ThreadState, th' = [th EXCEPT ![t] = r],
           th[t].pc \in {"idle", "read", "arm"}, r.pc \in {"idle", "read"}, loaded,
           sensLock \in {"none", t}, sensLock' = IF r.pc = "idle" THEN "none" ELSE t,
           UNCHANGED <<ready, loaded, sens, cb, cbLock, told, changed>>,
           trip' \in [Sensors -> [high : Int, hyst : Int]],
           \A s \in Sensors : (Config[s].hot /\ trip'[s] # trip[s]) => ArmedRight(s, sens[s].status, trip'[s]),
           \A s \in Sensors : (th[t].pc = "arm" /\ th[t].s = s /\ Config[s].hot)
                                  => ArmedRight(s, sens[s].status, trip'[s])
    PROVE  ThermalInv'
<1> USE DEF ThermalInv
<1>1. th \in [Threads -> ThreadState]
  BY DEF TypeOK, ThreadState
<1>2. /\ th' \in [Threads -> ThreadState] /\ th'[t] = r
      /\ \A u \in Threads : u # t => th'[u] = th[u]
  BY <1>1
<1>3. \A u \in Threads : u # t => th[u].pc \notin InMutex
  BY ThreadNames DEF Locking
<1>4. TypeOK'
  BY <1>2 DEF TypeOK, ThreadState
<1>5. Locking'
  <2>1. th'["event"].pc # "fill"
    BY <1>2, ThreadNames DEF Locking
  <2> QED
    BY <1>2, <1>3, <2>1, ThreadNames DEF Locking, InMutex, Telling
<1>6. StatusKnown' /\ Unique'
  BY DEF StatusKnown, Unique
<1>7. AllTold'
  BY <1>2, ToldKept
<1>8. AllArmed'
  <2> SUFFICES ASSUME NEW s \in changed, Config[s].hot
               PROVE  ArmedRight(s, sens[s].status, trip'[s])
    BY DEF AllArmed
  <2>1. s \in Sensors
    BY DEF TypeOK
  <2>2. \A u \in Threads : u # t => th[u].pc \notin Telling
    BY <1>3 DEF InMutex, Telling
  <2>3. CASE ArmPending(s)
    BY <2>1, <2>2, <2>3 DEF ArmPending, Telling
  <2>4. CASE ArmedRight(s, sens[s].status, trip[s])
    BY <2>1, <2>4
  <2> QED
    BY <2>3, <2>4 DEF AllArmed
<1> QED
  BY <1>4, <1>5, <1>6, <1>7, <1>8

\* Taking and releasing sens_cb_mutex around a read keeps the invariant.
LEMMA ReadersKeep ==
    ASSUME ThermalInv, NEW t \in Threads, loaded,
           \/ /\ th[t].pc = "idle" /\ sensLock = "none" /\ sensLock' = t
              /\ \E which \in SUBSET Sensors :
                    th' = [th EXCEPT ![t] = [Idle EXCEPT !.pc = "read", !.todo = which]]
           \/ th[t].pc = "read" /\ sensLock' = "none" /\ th' = [th EXCEPT ![t] = Idle],
           UNCHANGED <<ready, loaded, sens, trip, cb, cbLock, told, changed>>
    PROVE  ThermalInv'
<1>1. PICK r \in ThreadState : /\ th' = [th EXCEPT ![t] = r] /\ r.pc \in {"idle", "read"}
                               /\ sensLock' = IF r.pc = "idle" THEN "none" ELSE t
  <2>1. ASSUME NEW which \in SUBSET Sensors
        PROVE  LET r == [Idle EXCEPT !.pc = "read", !.todo = which]
               IN  r \in ThreadState /\ r.pc = "read"
    BY DEF Idle, ThreadState
  <2> QED
    BY <2>1, IdleType
<1>2. sensLock \in {"none", t} /\ th[t].pc \in {"idle", "read"}
  BY DEF ThermalInv, Locking, InMutex
<1>3. trip' \in [Sensors -> [high : Int, hyst : Int]]
  BY DEF ThermalInv, TypeOK
<1> QED
  BY <1>1, <1>2, <1>3, ThreadKeeps

\* Arming the trip of the severity just notified keeps the invariant.
LEMMA ArmKeeps ==
    ASSUME ThermalInv, NEW t \in Threads, Arm(t)
    PROVE  ThermalInv'
<1> DEFINE s == th[t].s
<1> USE DEF ThermalInv
<1>1. th[t].pc = "arm" /\ s \in Sensors /\ sensLock = t /\ loaded
  BY ThreadNames DEF Arm, Locking, InMutex, Telling
<1>2. UNCHANGED <<ready, loaded, sens, cb, cbLock, told, changed>>
  BY DEF Arm
<1>3. PICK f \in ArmedFor(s, sens[s].status) : trip' = [trip EXCEPT ![s] = f]
  BY DEF Arm
<1>4. trip \in [Sensors -> [high : Int, hyst : Int]]
  BY DEF TypeOK
<1>5. sens[s].status \in {0} \cup DOMAIN Threshold(s)
  BY <1>1 DEF StatusKnown
<1>6. f \in [high : Int, hyst : Int] /\ (Config[s].hot => ArmedRight(s, sens[s].status, f))
  BY <1>1, <1>4, <1>5, ArmedForRight
<1>7. /\ trip' \in [Sensors -> [high : Int, hyst : Int]] /\ trip'[s] = f
      /\ \A x \in Sensors : x # s => trip'[x] = trip[x]
  BY <1>1, <1>3, <1>4, <1>6
<1>8. PICK r \in ThreadState : /\ th' = [th EXCEPT ![t] = r] /\ r.pc \in {"idle", "read"}
                               /\ sensLock' = IF r.pc = "idle" THEN "none" ELSE t
  <2>1. CASE th[t].todo # {}
    <3>1. th' = [th EXCEPT ![t] = [th[t] EXCEPT !.pc = "read"]] /\ sensLock' = t
      BY <1>1, <2>1 DEF Arm
    <3>2. th[t] \in ThreadState
      BY DEF TypeOK, ThreadState
    <3>3. [th[t] EXCEPT !.pc = "read"] \in ThreadState /\ [th[t] EXCEPT !.pc = "read"].pc = "read"
      BY <3>2 DEF ThreadState
    <3> QED
      BY <3>1, <3>3
  <2>2. CASE th[t].todo = {}
    BY <2>2, IdleType DEF Arm
  <2> QED
    BY <2>1, <2>2
<1> QED
  BY <1>1, <1>2, <1>6, <1>7, <1>8, ThreadKeeps

-----------------------------------------------------------------------------
(* Thermal.                                                                *)

\* A thread that enters the loop has all callbacks ahead of it.
LEMMA TellStartKeeps ==
    ASSUME ThermalInv, NEW t \in Threads, sendThrottlingChangeCB(t)
    PROVE  ThermalInv'
<1> USE DEF ThermalInv
<1>1. th \in [Threads -> ThreadState]
  BY DEF TypeOK, ThreadState
<1>2. /\ th[t].pc = "notify" /\ cbLock = "none" /\ cbLock' = t
      /\ th' = [th EXCEPT ![t] = [th[t] EXCEPT !.pc = "loop", !.i = 1]]
      /\ UNCHANGED <<ready, loaded, sens, trip, cb, sensLock, told, changed>>
  BY DEF sendThrottlingChangeCB
<1>3. /\ th' \in [Threads -> ThreadState]
      /\ th'[t].pc = "loop" /\ th'[t].s = th[t].s /\ th'[t].i = 1
      /\ \A u \in Threads : u # t => th'[u] = th[u]
  BY <1>1, <1>2 DEF ThreadState
<1>4. TypeOK'
  BY <1>2, <1>3 DEF TypeOK, ThreadState
<1>5. Locking'
  BY <1>2, <1>3, ThreadNames DEF Locking, InMutex, Telling
<1>6. StatusKnown' /\ Unique'
  BY <1>2 DEF StatusKnown, Unique
<1>7. AllTold'
  <2>1. \A i \in DOMAIN cb : i \in Int /\ 1 <= i
    BY DEF TypeOK
  <2> QED
    BY <1>2, <1>3, <2>1 DEF AllTold, Ahead, Matches
<1>8. AllArmed'
  BY <1>2, <1>3, ArmedKept DEF Telling
<1> QED
  BY <1>4, <1>5, <1>6, <1>7, <1>8

\* A thread that leaves the loop has told every callback that matches.
LEMMA TellEndKeeps ==
    ASSUME ThermalInv, NEW t \in Threads, SendEnd(t)
    PROVE  ThermalInv'
<1> USE DEF ThermalInv
<1>1. th \in [Threads -> ThreadState]
  BY DEF TypeOK, ThreadState
<1>2. /\ th[t].pc = "loop" /\ th[t].i > Len(cb) /\ cbLock' = "none"
      /\ th' = [th EXCEPT ![t] = [th[t] EXCEPT !.pc = "arm", !.i = 0]]
      /\ UNCHANGED <<ready, loaded, sens, trip, cb, sensLock, told, changed>>
  BY DEF SendEnd
<1>3. /\ th' \in [Threads -> ThreadState]
      /\ th'[t].pc = "arm" /\ th'[t].s = th[t].s
      /\ \A u \in Threads : u # t => th'[u] = th[u]
  BY <1>1, <1>2 DEF ThreadState
<1>4. TypeOK'
  BY <1>2, <1>3 DEF TypeOK, ThreadState
<1>5. cbLock = t
  BY <1>2 DEF Locking
<1>6. Locking'
  BY <1>2, <1>3, <1>5, ThreadNames DEF Locking, InMutex, Telling
<1>7. StatusKnown' /\ Unique'
  BY <1>2 DEF StatusKnown, Unique
<1>8. AllTold'
  <2>1. th[t].i \in Nat /\ Len(cb) \in Nat /\ DOMAIN cb = 1 .. Len(cb)
    BY <1>1 DEF TypeOK, ThreadState
  <2>2. \A i \in DOMAIN cb : ~(th[t].i <= i)
    BY <1>2, <2>1
  <2> QED
    BY <1>2, <1>3, <2>2 DEF AllTold, Ahead, Matches
<1>9. AllArmed'
  BY <1>2, <1>3, ArmedKept DEF Telling
<1> QED
  BY <1>4, <1>6, <1>7, <1>8, <1>9

\* The entries of the list of callbacks.
LEMMA CallbackTypes ==
    ASSUME TypeOK
    PROVE  /\ Len(cb) \in Nat /\ DOMAIN cb = 1 .. Len(cb)
           /\ \A i \in DOMAIN cb : cb[i] \in [who : Callbacks, type : Types \cup {"UNKNOWN"}]
<1> DEFINE Entries == [who : Callbacks, type : Types \cup {"UNKNOWN"}]
<1>1. cb \in Seq(Entries)
  BY DEF TypeOK
<1> HIDE DEF Entries
<1>2. Len(cb) \in Nat /\ DOMAIN cb = 1 .. Len(cb) /\ \A i \in DOMAIN cb : cb[i] \in Entries
  BY <1>1, ElementOfSeq, LenProperties
<1> QED
  BY <1>2 DEF Entries

\* An entry is erased: the entries after it move down by one, and a loop that
\* stands on it stands on the next one.
LEMMA EraseKeeps ==
    ASSUME ThermalInv, NEW i \in DOMAIN cb, cb' = RemoveAt(cb, i), Forget(cb[i].who),
           UNCHANGED <<ready, loaded, sens, trip, sensLock, cbLock, th, changed>>,
           \A t \in Threads : th[t].pc = "loop" => th[t].i <= i
    PROVE  ThermalInv'
<1> USE DEF ThermalInv
<1> DEFINE Entries == [who : Callbacks, type : Types \cup {"UNKNOWN"}]
           from(j) == IF j < i THEN j ELSE j + 1
<1>1. /\ cb \in Seq(Entries) /\ Len(cb) \in Nat /\ DOMAIN cb = 1 .. Len(cb)
      /\ \A j \in DOMAIN cb : cb[j] \in Entries
  BY CallbackTypes DEF TypeOK
<1>2. /\ cb' \in Seq(Entries) /\ Len(cb') = Len(cb) - 1
      /\ \A j \in 1 .. Len(cb) - 1 : cb'[j] = IF j < i THEN cb[j] ELSE cb[j + 1]
  <2> HIDE DEF Entries
  <2> QED
    BY <1>1, RemoveAtProperties
<1>3. DOMAIN cb' = 1 .. Len(cb) - 1
  BY <1>2
<1>4. \A j \in DOMAIN cb' : /\ from(j) \in DOMAIN cb /\ from(j) # i /\ cb'[j] = cb[from(j)]
                            /\ j \in Int /\ from(j) \in Int /\ j <= from(j) /\ (from(j) >= i => j >= i)
  BY <1>1, <1>2, <1>3
<1>5. \A j, k \in DOMAIN cb' : from(j) = from(k) => j = k
  BY <1>1, <1>3
<1>6. TypeOK'
  <2>1. [s \in Sensors |-> 0] \in [Sensors -> Severities]
    BY DEF Severities, Shutdown
  <2>2. told' \in [Callbacks -> [Sensors -> Severities]]
    BY <2>1 DEF Forget, TypeOK
  <2> QED
    BY <1>2, <2>2 DEF TypeOK
<1>7. Locking' /\ StatusKnown' /\ AllArmed'
  BY DEF Locking, StatusKnown, AllArmed, ArmPending
<1>8. Unique'
  <2> HIDE DEF from
  <2> QED
    BY <1>4, <1>5 DEF Unique
<1>9. AllTold'
  <2> SUFFICES ASSUME NEW j \in DOMAIN cb', NEW s \in Sensors, Matches(cb'[j], s)
               PROVE  told'[cb'[j].who][s] = sens[s].status \/ Ahead(j, s)'
    BY DEF AllTold, Matches
  <2> DEFINE k == from(j)
  <2>1. k \in DOMAIN cb /\ k # i /\ cb'[j] = cb[k] /\ j \in Int /\ k \in Int /\ (k >= i => j >= i)
    BY <1>4
  <2> HIDE DEF k, from
  <2>2. told[cb[k].who][s] = sens[s].status \/ Ahead(k, s)
    BY <2>1 DEF AllTold, Matches
  <2>3. cb[k].who # cb[i].who /\ cb[k].who \in Callbacks
    BY <1>1, <2>1 DEF Unique
  <2>4. told'[cb[k].who] = told[cb[k].who]
    BY <2>3 DEF Forget, TypeOK
  <2>5. Ahead(k, s) => Ahead(j, s)'
    <3> SUFFICES ASSUME NEW t \in Threads, th[t].pc = "loop", th[t].i <= k
                 PROVE  th[t].i <= j
      BY DEF Ahead
    <3>1. th[t].i \in Nat /\ th[t].i <= i /\ i \in Int
      BY <1>1 DEF TypeOK
    <3>2. CASE k >= i
      BY <2>1, <3>1, <3>2
    <3>3. CASE ~(k >= i)
      BY <1>4, <2>1, <3>1, <3>3 DEF k, from
    <3> QED
      BY <3>2, <3>3
  <2> QED
    BY <2>1, <2>2, <2>4, <2>5
<1> QED
  BY <1>6, <1>7, <1>8, <1>9

\* The loop goes on to the next entry after it has told this one, or passed it.
LEMMA SendKeeps ==
    ASSUME ThermalInv, NEW t \in Threads, SendNext(t)
    PROVE  ThermalInv'
<1> USE DEF ThermalInv
<1> DEFINE i == th[t].i
           s == th[t].s
<1>1. th[t].pc = "loop" /\ cbLock = t /\ s \in Sensors /\ sensLock = t
  BY DEF SendNext, Locking, Telling, InMutex
<1>2. \A u \in Threads : u # t => th[u].pc \notin {"notify", "loop"}
  BY <1>1 DEF Locking, InMutex
<1>3. th \in [Threads -> ThreadState] /\ i \in Nat /\ th[t] \in ThreadState
  BY DEF TypeOK, ThreadState
<1>4. UNCHANGED <<ready, loaded, sens, trip, sensLock, cbLock, changed>>
  BY DEF SendNext
<1>5. ASSUME th' = [th EXCEPT ![t].i = i + 1], cb' = cb,
             told' \in [Callbacks -> [Sensors -> Severities]],
             \A c \in Callbacks, x \in Sensors : told'[c][x] \in {told[c][x], sens[x].status},
             (i \in DOMAIN cb /\ Matches(cb[i], s)) => told'[cb[i].who][s] = sens[s].status
      PROVE  ThermalInv'
  <2>1. /\ th' \in [Threads -> ThreadState]
        /\ th'[t].pc = "loop" /\ th'[t].s = s /\ th'[t].i = i + 1
        /\ \A u \in Threads : u # t => th'[u] = th[u]
    BY <1>1, <1>3, <1>5 DEF ThreadState
  <2>2. TypeOK'
    BY <1>4, <1>5, <2>1 DEF TypeOK, ThreadState
  <2>3. Locking'
    BY <1>1, <1>3, <1>4, <2>1, ThreadNames DEF Locking, InMutex, Telling
  <2>4. StatusKnown' /\ Unique'
    BY <1>4, <1>5 DEF StatusKnown, Unique
  <2>5. AllArmed'
    BY <1>1, <1>4, <2>1, ArmedKept DEF Telling
  <2>6. AllTold'
    <3> SUFFICES ASSUME NEW j \in DOMAIN cb, NEW x \in Sensors, Matches(cb[j], x)
                 PROVE  told'[cb[j].who][x] = sens[x].status \/ Ahead(j, x)'
      BY <1>4, <1>5 DEF AllTold, Matches
    <3>1. cb[j].who \in Callbacks /\ j \in Int
      BY CallbackTypes
    <3>2. CASE told[cb[j].who][x] = sens[x].status
      BY <1>5, <3>1, <3>2
    <3>3. CASE Ahead(j, x)
      <4>1. x = s /\ i <= j
        BY <1>1, <1>2, <3>3 DEF Ahead
      <4>2. CASE i = j
        BY <1>5, <4>1, <4>2
      <4>3. CASE i # j
        <5>1. i + 1 <= j
          BY <1>3, <3>1, <4>1, <4>3
        <5> QED
          BY <2>1, <4>1, <5>1 DEF Ahead
      <4> QED
        BY <4>2, <4>3
    <3> QED
      BY <3>2, <3>3 DEF AllTold
  <2> QED
    BY <2>2, <2>3, <2>4, <2>5, <2>6
<1>6. i <= Len(cb)
  BY DEF SendNext
<1>7. CASE Matches(cb[i], s) /\ told' = [told EXCEPT ![cb[i].who][s] = sens[s].status]
           /\ th' = [th EXCEPT ![t].i = i + 1] /\ cb' = cb
  <2>1. told \in [Callbacks -> [Sensors -> Severities]] /\ sens[s].status \in Severities
    BY <1>1 DEF TypeOK
  <2>2. told' \in [Callbacks -> [Sensors -> Severities]]
    BY <1>7, <2>1
  <2>3. \A c \in Callbacks, x \in Sensors : told'[c][x] \in {told[c][x], sens[x].status}
    BY <1>1, <1>7, <2>1
  <2>4. i \in DOMAIN cb => told'[cb[i].who][s] = sens[s].status
    BY <1>1, <1>7, <2>1, CallbackTypes
  <2> QED
    BY <1>5, <1>7, <2>2, <2>3, <2>4
<1>8. CASE Matches(cb[i], s) /\ cb' = RemoveAt(cb, i) /\ Forget(cb[i].who) /\ th' = th
  <2>1. i # 0
    BY <1>1 DEF Locking
  <2>2. i \in DOMAIN cb
    BY <1>3, <1>6, <2>1, CallbackTypes
  <2>3. \A u \in Threads : th[u].pc = "loop" => th[u].i <= i
    BY <1>2, <1>3
  <2> QED
    BY <1>4, <1>8, <2>2, <2>3, EraseKeeps
<1>9. CASE ~Matches(cb[i], s) /\ th' = [th EXCEPT ![t].i = i + 1] /\ UNCHANGED <<cb, told>>
  BY <1>5, <1>9 DEF TypeOK
<1> QED
  BY <1>7, <1>8, <1>9 DEF SendNext

\* A new callback is told all severities by register itself.
LEMMA RegisterKeeps ==
    ASSUME ThermalInv, NEW c \in Callbacks, NEW type \in Types \cup {"UNKNOWN"}, register(c, type)
    PROVE  ThermalInv'
<1> USE DEF ThermalInv
<1> DEFINE Entries == [who : Callbacks, type : Types \cup {"UNKNOWN"}]
           entry == [who |-> c, type |-> type]
<1>1. /\ cbLock = "none" /\ ~Registered(c) /\ cb' = Append(cb, entry)
      /\ told' = [told EXCEPT ![c] = [s \in Sensors |-> sens[s].status]]
      /\ UNCHANGED <<ready, loaded, sens, trip, sensLock, cbLock, th, changed>>
  BY DEF register
<1>2. /\ cb \in Seq(Entries) /\ entry \in Entries /\ entry.who = c /\ Len(cb) \in Nat
      /\ DOMAIN cb = 1 .. Len(cb)
  BY CallbackTypes DEF TypeOK
<1>3. /\ cb' \in Seq(Entries) /\ DOMAIN cb' = 1 .. Len(cb) + 1
      /\ \A j \in DOMAIN cb : cb'[j] = cb[j]
      /\ cb'[Len(cb) + 1] = entry
  <2> HIDE DEF Entries, entry
  <2> QED
    BY <1>1, <1>2, AppendProperties
<1>4. \A j \in DOMAIN cb' : (j \in DOMAIN cb /\ cb'[j] = cb[j]) \/ (j = Len(cb) + 1 /\ cb'[j] = entry)
  BY <1>2, <1>3
<1>5. TypeOK'
  <2>1. told' \in [Callbacks -> [Sensors -> Severities]]
    BY <1>1 DEF TypeOK
  <2> QED
    BY <1>1, <1>3, <2>1 DEF TypeOK
<1>6. Locking' /\ StatusKnown' /\ AllArmed'
  BY <1>1 DEF Locking, StatusKnown, AllArmed, ArmPending
<1>7. \A j \in DOMAIN cb : cb[j].who # c
  BY <1>1 DEF Registered
<1>8. Unique'
  <2> HIDE DEF entry
  <2> QED
    BY <1>2, <1>4, <1>7 DEF Unique
<1>9. AllTold'
  <2> SUFFICES ASSUME NEW j \in DOMAIN cb', NEW s \in Sensors, Matches(cb'[j], s)
               PROVE  told'[cb'[j].who][s] = sens[s].status \/ Ahead(j, s)
    BY <1>1 DEF AllTold, Matches, Ahead
  <2>1. CASE j \in DOMAIN cb /\ cb'[j] = cb[j]
    <3>1. told'[cb[j].who] = told[cb[j].who]
      BY <1>1, <1>7, <2>1, CallbackTypes DEF TypeOK
    <3> QED
      BY <2>1, <3>1 DEF AllTold, Matches
  <2>2. CASE cb'[j] = entry
    BY <1>1, <2>2 DEF TypeOK
  <2> QED
    BY <1>4, <2>1, <2>2
<1> QED
  BY <1>5, <1>6, <1>8, <1>9

\* unregister moves the entries behind the erased one, while no loop is under way.
LEMMA UnregisterKeeps ==
    ASSUME ThermalInv, NEW c \in Callbacks, unregister(c)
    PROVE  ThermalInv'
<1>1. PICK i \in DOMAIN cb : cb[i].who = c /\ cb' = RemoveAt(cb, i)
  BY DEF unregister
<1>2. /\ cbLock = "none" /\ Forget(c)
      /\ UNCHANGED <<ready, loaded, sens, trip, sensLock, cbLock, th, changed>>
  BY DEF unregister
<1>3. \A t \in Threads : th[t].pc # "loop"
  BY <1>2, ThreadNames DEF ThermalInv, Locking
<1> QED
  BY <1>1, <1>2, <1>3, EraseKeeps

-----------------------------------------------------------------------------

\* Every step keeps the invariant.
LEMMA InvStep == ThermalInv /\ [Next]_vars => ThermalInv'
<1> SUFFICES ASSUME ThermalInv, [Next]_vars PROVE ThermalInv'
  OBVIOUS
<1>1. ASSUME NEW t \in Threads, ReadNext(t) PROVE ThermalInv'
  <2>1. th[t].pc = "read" /\ UNCHANGED <<ready, loaded, trip, cb, cbLock, told>>
    BY <1>1 DEF ReadNext
  <2>2. th[t].todo \subseteq Sensors /\ loaded
    BY <2>1, ThreadNames DEF ThermalInv, TypeOK, Locking, InMutex
  <2>3. PICK s \in th[t].todo :
           \/ \E v \in readings(s) : Notify(t, s, v, th[t].todo \ {s})
           \/ /\ th' = [th EXCEPT ![t] = Idle]
              /\ sensLock' = "none"
              /\ UNCHANGED <<sens, changed>>
    BY <1>1 DEF ReadNext
  <2>4. CASE \E v \in readings(s) : Notify(t, s, v, th[t].todo \ {s})
    BY <2>1, <2>2, <2>4, NotifiersKeep
  <2>5. CASE /\ th' = [th EXCEPT ![t] = Idle] /\ sensLock' = "none" /\ UNCHANGED <<sens, changed>>
    BY <2>1, <2>2, <2>5, ReadersKeep
  <2> QED
    BY <2>3, <2>4, <2>5
<1>2. ASSUME NEW b \in Binders, NEW which \in SUBSET Sensors, readTemperatures(b, which)
      PROVE  ThermalInv'
  BY <1>2, ReadersKeep, ThreadNames DEF readTemperatures, CanEnter
<1>3. CASE \E b \in Binders :
              \/ readTemperatures(b, Sensors)
              \/ \E type \in Types : readTemperatures(b, {s \in Sensors : Config[s].type = type})
  BY <1>2, <1>3
<1>4. CASE UNCHANGED vars
  BY <1>4 DEF vars, ThermalInv, TypeOK, Locking, StatusKnown, Unique, AllTold, Ahead, Matches,
              AllArmed, ArmPending
<1> QED
  BY <1>1, <1>3, <1>4, StartKeeps, NotifiersKeep, ArmKeeps, TellStartKeeps, SendKeeps,
     TellEndKeeps, RegisterKeeps, UnregisterKeeps DEF Next, Proceed

\* The invariant holds throughout.
LEMMA ThermalAlways == Spec => []ThermalInv
  BY InvInit, InvStep, PTL DEF Spec

\* The variables of the thermal HAL keep their types.
THEOREM ThermalTypeCorrect == Spec => []TypeOK
<1>1. ThermalInv => TypeOK
  BY DEF ThermalInv
<1> QED
  BY <1>1, ThermalAlways, PTL

\* Whenever no thread is notifying, every registered callback knows the current
\* severity of every sensor of its type.
THEOREM CallbacksAreCurrent == Spec => []ToldCurrent
<1>1. ThermalInv => ToldCurrent
  <2> SUFFICES ASSUME ThermalInv, sensLock = "none", NEW i \in DOMAIN cb, NEW s \in Sensors,
                      Matches(cb[i], s)
               PROVE  told[cb[i].who][s] = sens[s].status
    BY DEF ToldCurrent
  <2>1. ~Ahead(i, s)
    BY ThreadNames DEF ThermalInv, Locking, InMutex, Ahead
  <2> QED
    BY <2>1 DEF ThermalInv, AllTold
<1> QED
  BY <1>1, ThermalAlways, PTL

\* Whenever no thread is notifying, every hot sensor whose severity has changed
\* is armed for its severity.
THEOREM SensorsAreArmed == Spec => []ArmedForStatus
<1>1. ThermalInv => ArmedForStatus
  <2> SUFFICES ASSUME ThermalInv, sensLock = "none", NEW s \in changed, Config[s].hot
               PROVE  ArmedRight(s, sens[s].status, trip[s])
    BY DEF ArmedForStatus
  <2>1. ~ArmPending(s)
    BY ThreadNames DEF ThermalInv, Locking, InMutex, ArmPending, Telling
  <2> QED
    BY <2>1 DEF ThermalInv, AllArmed
<1> QED
  BY <1>1, ThermalAlways, PTL

-----------------------------------------------------------------------------
(* Why a severity changes.                                                 *)

\* Only Notify changes a sensor, and it stores what it estimated.
LEMMA OnlyNotifyChanges ==
    ASSUME ThermalInv, [Next]_vars, NEW s \in Sensors, sens'[s] # sens[s]
    PROVE  \E v \in Reading :
              sens'[s] = [value |-> v, status |-> estimateSeverity(s, sens[s].status, v)]
<1>1. \A x \in Sensors : sens[x].value \in Reading
  BY DEF ThermalInv, TypeOK, Reading
<1>2. ASSUME NEW t \in Threads, NEW x \in Sensors, NEW v \in Reading, NEW todo, Notify(t, x, v, todo)
      PROVE  \E w \in Reading :
                sens'[s] = [value |-> w, status |-> estimateSeverity(s, sens[s].status, w)]
  <2>1. sens' = [sens EXCEPT ![x] = [value |-> v, status |-> estimateSeverity(x, sens[x].status, v)]]
    BY <1>2 DEF Notify
  <2>2. sens \in [Sensors -> [value : Temps \cup {NoReading}, status : Severities]]
    BY DEF ThermalInv, TypeOK
  <2>3. s = x
    BY <2>1, <2>2
  <2> QED
    BY <2>1, <2>2, <2>3
<1>3. CASE \E x \in Sensors : eventParse(x) \/ sampleParse(x)
  <2>1. PICK x \in Sensors, t \in Threads, v \in Reading : Notify(t, x, v, {})
    BY <1>1, <1>3, ThreadNames DEF eventParse, sampleParse, Reading
  <2> QED
    BY <1>2, <2>1
<1>4. CASE \E t \in Threads : ReadNext(t)
  <2>1. PICK t \in Threads : ReadNext(t)
    BY <1>4
  <2>2. PICK x \in th[t].todo : \E v \in readings(x) : Notify(t, x, v, th[t].todo \ {x})
    BY <2>1 DEF ReadNext
  <2>3. PICK v \in readings(x) : Notify(t, x, v, th[t].todo \ {x})
    BY <2>2
  <2>4. x \in Sensors
    BY DEF ThermalInv, TypeOK
  <2>5. v \in Reading
    BY <1>1, <2>4 DEF readings, Reading
  <2> QED
    BY <1>2, <2>3, <2>4, <2>5
<1>5. sens' = sens \/ (\E x \in Sensors : eventParse(x) \/ sampleParse(x))
                   \/ (\E t \in Threads : ReadNext(t))
  BY DEF Next, vars, Proceed, Boot, Load, eventCreateParse, Fill, readTemperatures, Arm,
         sendThrottlingChangeCB, SendNext, SendEnd, register, unregister
<1> QED
  BY <1>3, <1>4, <1>5

\* Every change of a severity is justified by its reading.
LEMMA StepJustified ==
    ASSUME ThermalInv, [Next]_vars, NEW s \in Sensors
    PROVE  Justified(s)
<1> DEFINE old == sens[s].status
           new == sens'[s].status
           value == sens'[s].value
           margin(v) == IF v = old THEN Config[s].hyst ELSE 0
<1> SUFFICES ASSUME new # old
             PROVE  /\ new > old => Beyond(s, new, value, 0)
                    /\ new < old => ~Beyond(s, old, value, Config[s].hyst)
                    /\ \A v \in DOMAIN Threshold(s) : Beyond(s, v, value, 0) => v <= new
  BY DEF Justified
<1>1. PICK r \in Reading :
         sens'[s] = [value |-> r, status |-> estimateSeverity(s, old, r)]
  BY OnlyNotifyChanges
<1>2. value = r /\ new = estimateSeverity(s, old, r)
  BY <1>1
<1>3. value \in Int
  BY <1>2, ThermalAssumption DEF Reading, NoReading
<1>4. old \in {0} \cup DOMAIN Threshold(s) /\ old \in Int /\ old >= 0
  BY ThresholdTypes DEF ThermalInv, StatusKnown
<1>5. /\ new \in {0} \cup DOMAIN Threshold(s) /\ new \in Int /\ new >= 0
      /\ new # 0 => Beyond(s, new, value, margin(new))
      /\ \A v \in DOMAIN Threshold(s) : Beyond(s, v, value, margin(v)) => v <= new
  BY <1>2, EstimateHighest, ThresholdTypes
<1>6. new > old => Beyond(s, new, value, 0)
  BY <1>4, <1>5
<1>7. new < old => ~Beyond(s, old, value, Config[s].hyst)
  BY <1>4, <1>5
<1>8. ASSUME NEW v \in DOMAIN Threshold(s), Beyond(s, v, value, 0) PROVE v <= new
  <2>1. Beyond(s, v, value, Config[s].hyst)
    BY <1>3, <1>8, BeyondMonotone
  <2> QED
    BY <1>5, <1>8, <2>1
<1> QED
  BY <1>6, <1>7, <1>8

\* A severity rises only to a threshold the reading has reached, falls only when
\* the reading has left the hysteresis of the old one, and never below a
\* threshold still reached.
THEOREM SeveritiesDoNotFlap == Spec => NoFlapping
<1>1. ThermalInv /\ [Next]_vars => [\A s \in Sensors : Justified(s)]_vars
  BY StepJustified
<1> QED
  BY <1>1, ThermalAlways, PTL DEF Spec, NoFlapping

-----------------------------------------------------------------------------
(* The lights HAL.                                                         *)

\* A debounced update is never the one that turns everything off, and without
\* one the setting is composed from the lights as they are.
SettingCurrent ==
    /\ AllOff(last) => ~dropped
    /\ ~dropped => blink = SettingOf(Chosen(last))

\* The channels that setNotificationColor has written since the last apply.
Passed == {c \in Channels : apply = 0 \/ c < apply}

WrittenShown ==
    ~blink.enabled => \A c \in Passed \ overrun : c \in led <=> c \in blink.color

\* Only a static setting is written by setLightState, and a thread that writes
\* stands on a channel.
Writers ==
    /\ apply # 0 => ~blink.enabled
    /\ worker.pc = "write" => worker.next \in Channels

LightsInv == LightsTypeOK /\ SettingCurrent /\ WrittenShown /\ Writers

-----------------------------------------------------------------------------
(* The channels, and the operators of the composition.                     *)

\* The channels of the LED are numbered from 1.
LEMMA ChannelRange ==
    /\ 1 \in Channels /\ NumChannels \in Nat
    /\ \A c : c \in Channels <=> c \in Int /\ 1 <= c /\ c <= NumChannels
  BY LightsAssumption DEF Channels

\* The chosen light is one of the states clients set, or Off.
LEMMA ChosenType ==
    ASSUME NEW lights \in [LightTypes -> LightStates]
    PROVE  /\ Chosen(lights) \in LightStates
           /\ AllOff(lights) => Chosen(lights) = Off
  BY LightsAssumption DEF Chosen, AllOff, LightTypes

\* The setting keeps the colour of the state it is made from, and blinks only
\* for a state that flashes.
LEMMA SettingType ==
    ASSUME NEW s \in LightStates
    PROVE  /\ SettingOf(s) \in [enabled : BOOLEAN, color : SUBSET Channels, ms : Nat]
           /\ SettingOf(s).color = s.color
           /\ SettingOf(s).enabled => s.flash
<1>1. s \in [color : SUBSET Channels, flash : BOOLEAN, ms : Nat]
  BY LightsAssumption
<1>2. (s.flash /\ s.color # {}) \in BOOLEAN
  BY Zenon
<1>3. (IF s.flash /\ s.color # {} /\ s.ms < 50 THEN 1000 ELSE s.ms) \in Nat
  BY <1>1
<1> QED
  BY <1>1, <1>2, <1>3 DEF SettingOf

-----------------------------------------------------------------------------
\* A dark LED and no light set satisfy the invariant.
LEMMA LightsInvInit == LightsInit => LightsInv
<1> SUFFICES ASSUME LightsInit PROVE LightsInv
  OBVIOUS
<1> USE LightsAssumption DEF LightsInit
<1>1. LightsTypeOK
  <2>1. last \in [LightTypes -> LightStates]
    OBVIOUS
  <2>2. blink \in [enabled : BOOLEAN, color : SUBSET Channels, ms : Nat]
    OBVIOUS
  <2>3. worker \in [pc : {"loop", "write", "done"}, phaseOn : BOOLEAN,
                    color : SUBSET Channels, ms : Nat, next : 0 .. NumChannels]
    OBVIOUS
  <2> QED
    BY <2>1, <2>2, <2>3 DEF LightsTypeOK
<1>2. Chosen(last) = Off
  BY DEF Chosen, Off, LightTypes
<1>3. SettingOf(Off) = blink
  BY DEF SettingOf, Off
<1>4. SettingCurrent
  BY <1>2, <1>3 DEF SettingCurrent
<1>5. WrittenShown /\ Writers
  BY DEF WrittenShown, Writers, Passed
<1> QED
  BY <1>1, <1>4, <1>5 DEF LightsInv

\* setLightState up to its unlock: stored, debounced, applied or handed to the blink
\* thread.
LEMMA SetLightStateKeeps ==
    ASSUME LightsInv, NEW l \in LightTypes, NEW s \in LightStates, setLightState(l, s)
    PROVE  LightsInv'
<1> DEFINE lights == [last EXCEPT ![l] = s]
           setting == SettingOf(Chosen(lights))
<1>1. lights \in [LightTypes -> LightStates] /\ last' = lights
  BY DEF setLightState, LightsInv, LightsTypeOK
<1>2. Chosen(lights) \in LightStates
  BY <1>1, ChosenType
<1>3. setting \in [enabled : BOOLEAN, color : SUBSET Channels, ms : Nat]
  BY <1>2, SettingType
<1>4. apply = 0 /\ UNCHANGED <<led, running, worker>>
  BY DEF setLightState
<1>5. CASE Debounced(lights)
  <2>1. dropped' = TRUE /\ UNCHANGED <<recent, blink, apply, overrun>>
    BY <1>5 DEF setLightState
  <2>2. ~AllOff(lights)
    BY <1>5 DEF Debounced
  <2>3. LightsTypeOK' /\ WrittenShown' /\ Writers'
    BY <1>1, <1>4, <2>1 DEF LightsInv, LightsTypeOK, WrittenShown, Passed, Writers
  <2>4. SettingCurrent'
    BY <1>1, <2>1, <2>2 DEF SettingCurrent, AllOff
  <2> QED
    BY <2>3, <2>4 DEF LightsInv
<1>6. CASE ~Debounced(lights)
  <2>1. /\ recent' = TRUE /\ dropped' = FALSE /\ overrun' = {}
        /\ blink' = setting
        /\ apply' = IF setting.enabled THEN 0 ELSE 1
    BY <1>6 DEF setLightState
  <2>2. LightsTypeOK'
    <3>1. apply' \in 0 .. NumChannels
      BY <2>1, ChannelRange
    <3> QED
      BY <1>1, <1>3, <1>4, <2>1, <3>1 DEF LightsInv, LightsTypeOK
  <2>3. SettingCurrent'
    BY <1>1, <2>1 DEF SettingCurrent
  <2>4. Writers'
    BY <1>4, <2>1 DEF LightsInv, Writers
  <2>5. WrittenShown'
    <3>1. ~setting.enabled => Passed' = {}
      BY <2>1, ChannelRange DEF Passed
    <3> QED
      BY <2>1, <3>1 DEF WrittenShown
  <2> QED
    BY <2>2, <2>3, <2>4, <2>5 DEF LightsInv
<1> QED
  BY <1>5, <1>6

\* Each channel the static write passes shows the setting.
LEMMA WriteStaticKeeps ==
    ASSUME LightsInv, WriteStatic
    PROVE  LightsInv'
<1> USE LightsAssumption
<1>1. apply \in Channels /\ led \subseteq Channels /\ ~blink.enabled
  BY DEF LightsInv, LightsTypeOK, Writers, WriteStatic, Channels
<1>2. UNCHANGED <<last, recent, blink, running, worker, dropped, overrun>>
  BY DEF WriteStatic
<1>3. \A c \in Channels : c \in led' <=> IF c = apply THEN c \in blink.color ELSE c \in led
  BY DEF WriteStatic, Written
<1>4. led' \subseteq Channels /\ apply' \in 0 .. NumChannels
  BY <1>1 DEF WriteStatic, Written, Channels
<1>5. LightsTypeOK'
  BY <1>2, <1>4 DEF LightsInv, LightsTypeOK
<1>6. \A c \in Passed' : c = apply \/ c \in Passed
  BY <1>1 DEF Passed, WriteStatic, Channels
<1>7. WrittenShown'
  BY <1>1, <1>2, <1>3, <1>6 DEF LightsInv, WrittenShown, Passed
<1>8. SettingCurrent' /\ Writers'
  BY <1>1, <1>2 DEF LightsInv, SettingCurrent, Writers, AllOff, Chosen
<1> QED
  BY <1>5, <1>7, <1>8 DEF LightsInv

\* The blink thread's turn copies the setting and starts no write of a static one.
LEMMA WorkerLoopKeeps ==
    ASSUME LightsInv, WorkerLoop
    PROVE  LightsInv'
<1>1. UNCHANGED <<last, recent, blink, apply, led, running, dropped, overrun>>
  BY DEF WorkerLoop
<1>2. /\ worker' \in [pc : {"loop", "write", "done"}, phaseOn : BOOLEAN,
                      color : SUBSET Channels, ms : Nat, next : 0 .. NumChannels]
      /\ worker'.pc = "write" => worker'.next \in Channels
  <2>1. (worker.phaseOn \/ blink.color # worker.color \/ blink.ms # worker.ms) \in BOOLEAN
    BY Zenon
  <2>2. PICK p \in BOOLEAN :
           p = (worker.phaseOn \/ blink.color # worker.color \/ blink.ms # worker.ms)
    BY <2>1, Zenon
  <2>3. \/ worker' = [worker EXCEPT !.pc = "done"]
        \/ worker' = [worker EXCEPT !.phaseOn = FALSE]
        \/ worker' = [pc |-> "write", next |-> 1, color |-> blink.color, ms |-> blink.ms,
                      phaseOn |-> p]
    BY <2>2, Zenon DEF WorkerLoop
  <2>4. 1 \in 0 .. NumChannels /\ 1 \in Channels
    BY ChannelRange
  <2>5. /\ worker.pc = "loop"
        /\ worker \in [pc : {"loop", "write", "done"}, phaseOn : BOOLEAN,
                       color : SUBSET Channels, ms : Nat, next : 0 .. NumChannels]
        /\ blink \in [enabled : BOOLEAN, color : SUBSET Channels, ms : Nat]
    BY DEF LightsInv, LightsTypeOK, WorkerLoop
  <2>6. CASE worker' = [worker EXCEPT !.pc = "done"]
    BY <2>5, <2>6
  <2>7. CASE worker' = [worker EXCEPT !.phaseOn = FALSE]
    BY <2>5, <2>7
  <2>8. CASE worker' = [pc |-> "write", next |-> 1, color |-> blink.color, ms |-> blink.ms,
                        phaseOn |-> p]
    BY <2>4, <2>5, <2>8
  <2> QED
    BY <2>3, <2>6, <2>7, <2>8
<1>3. LightsTypeOK' /\ Writers'
  BY <1>1, <1>2 DEF LightsInv, LightsTypeOK, Writers
<1>4. SettingCurrent' /\ WrittenShown'
  BY <1>1 DEF LightsInv, SettingCurrent, WrittenShown, Passed, AllOff, Chosen
<1> QED
  BY <1>3, <1>4 DEF LightsInv

\* The blink thread writes a channel behind the static write only if overrun
\* says so afterwards.
LEMMA WorkerWriteKeeps ==
    ASSUME LightsInv, WorkerWrite
    PROVE  LightsInv'
<1> DEFINE c == worker.next
<1>1. c \in Channels /\ led \subseteq Channels
  BY DEF LightsInv, LightsTypeOK, Writers, WorkerWrite
<1>2. UNCHANGED <<last, recent, blink, apply, running, dropped>>
  BY DEF WorkerWrite
<1>3. led' \subseteq Channels /\ \A d \in Channels : d # c => (d \in led' <=> d \in led)
  BY <1>1 DEF WorkerWrite, Written
<1>4. /\ overrun \subseteq overrun' /\ overrun' \subseteq Channels
      /\ (~blink.enabled /\ c \in Passed) => c \in overrun'
  BY <1>1 DEF WorkerWrite, Passed, LightsInv, LightsTypeOK
<1>5. /\ worker' \in [pc : {"loop", "write", "done"}, phaseOn : BOOLEAN,
                      color : SUBSET Channels, ms : Nat, next : 0 .. NumChannels]
      /\ worker'.pc = "write" => worker'.next \in Channels
  <2>1. (~worker.phaseOn) \in BOOLEAN
    BY Zenon
  <2>2. PICK p \in BOOLEAN : p = ~worker.phaseOn
    BY <2>1, Zenon
  <2>3. worker' = IF c < NumChannels THEN [worker EXCEPT !.next = c + 1]
                  ELSE [worker EXCEPT !.pc = "loop", !.next = 0, !.phaseOn = p]
    BY <2>2, Zenon DEF WorkerWrite
  <2>4. worker \in [pc : {"loop", "write", "done"}, phaseOn : BOOLEAN,
                    color : SUBSET Channels, ms : Nat, next : 0 .. NumChannels]
    BY DEF LightsInv, LightsTypeOK
  <2>5. CASE c < NumChannels
    <3>1. c + 1 \in 0 .. NumChannels /\ c + 1 \in Channels
      BY <1>1, <2>5, ChannelRange
    <3>2. worker' = [worker EXCEPT !.next = c + 1]
      BY <2>3, <2>5
    <3> QED
      BY <2>4, <3>1, <3>2
  <2>6. CASE ~(c < NumChannels)
    <3>1. worker' = [worker EXCEPT !.pc = "loop", !.next = 0, !.phaseOn = p]
      BY <2>3, <2>6
    <3>2. 0 \in 0 .. NumChannels
      BY ChannelRange
    <3> QED
      BY <2>4, <3>1, <3>2
  <2> QED
    BY <2>5, <2>6
<1>6. LightsTypeOK' /\ Writers'
  BY <1>2, <1>3, <1>4, <1>5 DEF LightsInv, LightsTypeOK, Writers
<1>7. WrittenShown'
  BY <1>2, <1>3, <1>4 DEF LightsInv, WrittenShown, Passed
<1>8. SettingCurrent'
  BY <1>2 DEF LightsInv, SettingCurrent, AllOff, Chosen
<1> QED
  BY <1>6, <1>7, <1>8 DEF LightsInv

\* Every step keeps the invariant.
LEMMA LightsInvStep == LightsInv /\ [LightsNext]_lightsVars => LightsInv'
<1> SUFFICES ASSUME LightsInv, [LightsNext]_lightsVars PROVE LightsInv'
  OBVIOUS
<1>1. CASE DebounceOver
  BY <1>1 DEF DebounceOver, LightsInv, LightsTypeOK, SettingCurrent, WrittenShown, Passed,
              Writers, AllOff, Chosen
<1>2. CASE Destroy
  BY <1>2 DEF Destroy, LightsInv, LightsTypeOK, SettingCurrent, WrittenShown, Passed,
              Writers, AllOff, Chosen
<1>3. CASE UNCHANGED lightsVars
  BY <1>3 DEF lightsVars, LightsInv, LightsTypeOK, SettingCurrent, WrittenShown, Passed,
              Writers, AllOff, Chosen
<1> QED
  BY <1>1, <1>2, <1>3, SetLightStateKeeps, WriteStaticKeeps, WorkerLoopKeeps,
     WorkerWriteKeeps DEF LightsNext

\* The invariant holds throughout.
LEMMA LightsAlways == LightsSpec => []LightsInv
  BY LightsInvInit, LightsInvStep, PTL DEF LightsSpec

\* The variables of the lights HAL keep their types.
THEOREM LightsTypeCorrect == LightsSpec => []LightsTypeOK
<1>1. LightsInv => LightsTypeOK
  BY DEF LightsInv
<1> QED
  BY <1>1, LightsAlways, PTL

\* Once setLightState has returned, every channel of the LED shows the static
\* composite of the three lights, unless the newest update was debounced or the
\* blink thread has overwritten that channel since.
THEOREM StaticColourShown == LightsSpec => []StaticShown
<1>1. LightsInv => StaticShown
  <2> SUFFICES ASSUME LightsInv, InForce, apply = 0, ~Chosen(last).flash,
                      NEW c \in Channels \ overrun
               PROVE  c \in led <=> c \in Chosen(last).color
    BY DEF StaticShown
  <2>1. Chosen(last) \in LightStates
    BY ChosenType DEF LightsInv, LightsTypeOK
  <2>2. blink = SettingOf(Chosen(last))
    BY DEF LightsInv, SettingCurrent, InForce
  <2>3. blink.color = Chosen(last).color /\ ~blink.enabled
    BY <2>1, <2>2, SettingType
  <2> QED
    BY <2>3 DEF LightsInv, WrittenShown, Passed
<1> QED
  BY <1>1, LightsAlways, PTL

=============================================================================
