--------------------------- MODULE SessionRecords ---------------------------
(***************************************************************************)
(* The frame statistics of a hint session: SessionRecords keeps the last   *)
(* kMaxNumOfRecords frames in a ring and maintains, frame by frame, what a *)
(* walk over the ring would compute: the longest duration (front of a      *)
(* queue of indexes), the average, the missed cycles, and for game mode    *)
(* the start intervals of the last three frames and the jitters.  The      *)
(* session lock serialises the calls, and a report of several frames is    *)
(* one action per frame.                                                   *)
(*                                                                         *)
(* A frame is its duration and the distance of its start from the previous *)
(* one, which is not positive when reports arrive out of order.  The last  *)
(* start time itself is not kept: the distance stands for it.              *)
(***************************************************************************)
EXTENDS Integers, Sequences, FiniteSets, FiniteSetsExt

CONSTANTS MaxNumOfRecords,   \* kMaxNumOfRecords
          FrameDurations,    \* frame durations that are reported
          Intervals,         \* distances between frame starts
          JankLimits,        \* (target / 1000) * kJankCheckTimeFactor per target
          LowRate,           \* 1000000 / fpsLowRateThreshold
          MaxResets          \* bound on the resets

FpsFrames == 3               \* kTotalFramesForFPSCheck

ASSUME RecordsAssumption ==
    /\ MaxNumOfRecords \in Nat /\ MaxNumOfRecords >= FpsFrames
    /\ FrameDurations \subseteq Nat /\ Intervals \subseteq Int /\ JankLimits \subseteq Nat
    /\ {LowRate, MaxResets} \subseteq Nat

VARIABLES r,        \* the members of SessionRecords
          window,   \* history: the frames since the last reset, newest last
          carried,  \* history: the jitters counted when the records were reset
          clean,    \* history: the last three intervals are those that were added
          resets    \* resets so far, bounded by MaxResets

recordsVars == <<r, window, carried, clean, resets>>

NoRecord == [start |-> 0, total |-> 0, missed |-> FALSE, jitter |-> FALSE]

RecordsInit ==
    /\ r = [records |-> [i \in 0 .. MaxNumOfRecords - 1 |-> NoRecord], queue |-> <<>>,
            latest |-> -1, frames |-> 0, missed |-> 0, sum |-> 0, avg |-> 0,
            intervals |-> 0, added |-> 0, jitters |-> 0]
    /\ window = <<>> /\ carried = 0 /\ clean = TRUE /\ resets = 0
-----------------------------------------------------------------------------
Bit(b) == IF b THEN 1 ELSE 0

\* Mutant: the longest frame stays at the front when its record goes.
RemoveOldestKeepsFront(m) ==
    LET old == (m.latest + 1) % MaxNumOfRecords
    IN  IF m.frames < MaxNumOfRecords THEN m
        ELSE [m EXCEPT !.sum = @ - m.records[old].total,
                       !.missed = @ - Bit(m.records[old].missed),
                       !.jitters = @ - Bit(m.records[old].jitter),
                       !.frames = @ - 1]

\* A full ring first gives up its oldest record.
RemoveOldest(m) ==
    LET old == (m.latest + 1) % MaxNumOfRecords
    IN  IF m.frames < MaxNumOfRecords THEN m
        ELSE [m EXCEPT !.sum = @ - m.records[old].total,
                       !.missed = @ - Bit(m.records[old].missed),
                       !.jitters = @ - Bit(m.records[old].jitter),
                       !.frames = @ - 1,
                       !.queue = IF Head(@) = old THEN Tail(@) ELSE @]

\* 1.4 times the average of the last three intervals, in whole numbers.
IsJitter(m, start) == 10 * FpsFrames * start > 14 * m.intervals

\* Mutant: the interval that leaves the sum is the one of the frame before.
TrackStartWrongOld(m, start, compute) ==
    LET old == (m.latest - FpsFrames + 1) % MaxNumOfRecords
    IN  IF ~compute THEN [m EXCEPT !.intervals = 0, !.added = 0]
        ELSE IF m.added < FpsFrames
             THEN IF start > 0 THEN [m EXCEPT !.intervals = @ + start, !.added = @ + 1] ELSE m
             ELSE [m EXCEPT !.intervals = @ + (start - m.records[old].start)]

\* The intervals of the last three frames; only positive ones are added until
\* there are three.  latest is already the new frame's index.
TrackStart(m, start, compute) ==
    LET old == (m.latest - FpsFrames) % MaxNumOfRecords
    IN  IF ~compute THEN [m EXCEPT !.intervals = 0, !.added = 0]
        ELSE IF m.added < FpsFrames
             THEN IF start > 0 THEN [m EXCEPT !.intervals = @ + start, !.added = @ + 1] ELSE m
             ELSE [m EXCEPT !.intervals = @ + (start - m.records[old].start)]

\* Pop from the back every index whose frame is not longer, and push the new.
PushIndex(m, total) ==
    LET longer == {i \in DOMAIN m.queue : m.records[m.queue[i]].total > total}
    IN  Append(SubSeq(m.queue, 1, Max({0} \cup longer)), m.latest)

\* The record of a frame, before it is stored and the intervals are updated.
RecordOf(m, f, limit, compute) ==
    LET start == IF m.frames > 0 THEN f.start ELSE 0
    IN  [start |-> start, total |-> f.total, missed |-> f.total > limit,
         jitter |-> compute /\ m.added = FpsFrames /\ IsJitter(m, start)]

\* The rest of a round, once the oldest record is gone.
Store(m, rec, compute) ==
    LET m1 == TrackStart([m EXCEPT !.latest = (@ + 1) % MaxNumOfRecords], rec.start, compute)
        m2 == [m1 EXCEPT !.records[m1.latest] = rec]
        sum == m.sum + rec.total
    IN  [m2 EXCEPT !.frames = @ + 1,
                   !.missed = @ + Bit(rec.missed),
                   !.jitters = @ + Bit(rec.jitter),
                   !.queue = PushIndex(m2, rec.total),
                   !.sum = sum,
                   !.avg = sum \div (m.frames + 1)]

getMaxDuration(m) == m.records[Head(m.queue)].total

isLowFrameRate(m) ==
    LET before(i) == IF i = 0 THEN MaxNumOfRecords - 1 ELSE i - 1
    IN  /\ m.frames >= 3
        /\ \A i \in {m.latest, before(m.latest), before(before(m.latest))} :
             m.records[i].start >= LowRate

\* Mutant: the sum of the durations survives the reset.
resetKeepsSum(m) ==
    [m EXCEPT !.avg = 0, !.latest = -1, !.missed = 0, !.frames = 0, !.queue = <<>>]

\* The code keeps the sum of intervals, its frame count and the jitters.
resetRecords(m) ==
    [m EXCEPT !.avg = 0, !.latest = -1, !.missed = 0, !.frames = 0, !.sum = 0, !.queue = <<>>]
-----------------------------------------------------------------------------
\* The newest MaxNumOfRecords frames of a history.
Newest(seq) == IF Len(seq) <= MaxNumOfRecords THEN seq ELSE Tail(seq)

\* addReportedDurations, one frame of it.
addReportedDurations(f, limit, compute) ==
    LET m == RemoveOldest(r)
        rec == RecordOf(m, f, limit, compute)
    IN  /\ r' = Store(m, rec, compute)
        /\ window' = Newest(Append(window, rec))
        /\ clean' = (~compute \/ (clean /\ (r.added \in {0, FpsFrames} \/ rec.start > 0)))
        /\ UNCHANGED <<carried, resets>>

\* updateTargetWorkDuration to a target that differs enough from the last one.
Reset ==
    /\ resets < MaxResets
    /\ resets' = resets + 1
    /\ r' = resetRecords(r)
    /\ window' = <<>>
    /\ carried' = r.jitters
    /\ clean' = (clean /\ r.added = 0)

RecordsNext ==
    \/ \E start \in Intervals, total \in FrameDurations, limit \in JankLimits, compute \in BOOLEAN :
         addReportedDurations([start |-> start, total |-> total], limit, compute)
    \/ Reset

RecordsSpec == RecordsInit /\ [][RecordsNext]_recordsVars
-----------------------------------------------------------------------------
MissedFrames(w) == {i \in DOMAIN w : w[i].missed}
JitterFrames(w) == {i \in DOMAIN w : w[i].jitter}
Totals(w) == [i \in DOMAIN w |-> w[i].total]
Recent(w, n) == {i \in DOMAIN w : i > Len(w) - n}

\* The sum f[1] + ... + f[n].
SumOf(f, n) == LET sum[i \in 0 .. n] == IF i = 0 THEN 0 ELSE sum[i - 1] + f[i] IN sum[n]

Records == [start : Int, total : Nat, missed : BOOLEAN, jitter : BOOLEAN]
Slots == 0 .. MaxNumOfRecords - 1

Members ==
    [records : [Slots -> Records], queue : Seq(Slots), latest : Slots \cup {-1},
     frames : 0 .. MaxNumOfRecords, missed : Int, sum : Int, avg : Int,
     intervals : Int, added : 0 .. FpsFrames, jitters : Int]

RecordsTypeOK ==
    /\ r \in Members
    /\ window \in Seq(Records)
    /\ carried \in Int /\ clean \in BOOLEAN /\ resets \in 0 .. MaxResets

\* The maximum comes from the front of a queue that only ever holds candidates:
\* it is the longest duration in the window whatever was evicted or reset.
MaxRight ==
    window # <<>> => getMaxDuration(r) = Max({window[i].total : i \in DOMAIN window})

\* The counters that are adjusted frame by frame are those of the window: its
\* length, its missed cycles by the limit in force when each frame arrived, its
\* average, its low frame rate by the newest three starts, and its jitters on
\* top of those the last reset left behind (resetRecords does not clear them).
CountersRight ==
    /\ r.frames = Len(window)
    /\ r.missed = Cardinality(MissedFrames(window))
    /\ r.sum = SumOf(Totals(window), Len(window))
    /\ window # <<>> => r.avg = r.sum \div Len(window)
    /\ r.jitters = carried + Cardinality(JitterFrames(window))
    /\ isLowFrameRate(r) <=>
         Len(window) >= 3 /\ \A i \in Recent(window, 3) : window[i].start >= LowRate

\* The divisor of getLatestFPS, once three intervals are in it, is the distance
\* the last three frames took, so game mode reports the current rate.  It is lost
\* by a reset in game mode and by an interval that is not positive between the
\* first three (clean), and not regained before game mode ends.
FpsSumRight ==
    clean /\ r.added = FpsFrames =>
        LET n == Len(window)
        IN  /\ n >= FpsFrames
            /\ r.intervals = window[n].start + window[n - 1].start + window[n - 2].start
=============================================================================
