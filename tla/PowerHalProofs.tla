--------------------------- MODULE PowerHalProofs ---------------------------
(***************************************************************************)
(* Proofs about two parts of the power HAL that are independent of each    *)
(* other: InteractionHandler, for all durations and limits, and            *)
(* SessionRecords, for every size of the ring and every stream of frames.  *)
(*                                                                         *)
(* The argument for RequestHonoured: a request that restarts the wait lasts *)
(* longer than everything asked before, because it was not covered, so the *)
(* one pair (mDurationMs, age) bounds what is owed to all of them          *)
(* (OwedBounded); the thread's second poll outlasts that bound             *)
(* (PollLongEnough); so when it times out nothing is owed.                 *)
(*                                                                         *)
(* The argument for the records: the slot k before latest holds the k-th   *)
(* newest frame of the history (Ring); the queue of indexes is, from front *)
(* to back, both newer and shorter (Falling) and leaves no frame without a *)
(* candidate that arrived no earlier and is no shorter (Covers), so its    *)
(* front is the maximum, and the index that is evicted can only be its     *)
(* front; each counter is the count over the history (Counted, Tracked).   *)
(* What sums and counts do when a frame is added or dropped is proved from *)
(* the least number that would be a counterexample.                        *)
(***************************************************************************)
EXTENDS InteractionHandler, SessionRecords, FiniteSetTheorems, FunctionTheorems,
        WellFoundedInduction, TLAPS

-----------------------------------------------------------------------------
(* The interaction handler                                                 *)


\* Which combinations of state, thread and caller occur.
Lifecycle ==
    /\ caller = "constructing" => thread = "none" /\ hint = 0 /\ owed = 0 /\ mEventFd = 0
    /\ thread = "none" => mState = "UNINITIALIZED" /\ caller \in {"constructing", "ready", "gone"}
    /\ (thread # "none" /\ caller = "ready") => mState # "UNINITIALIZED"
    /\ caller \in {"exiting", "joining", "gone"} => mState = "UNINITIALIZED"
    /\ thread = "done" => mState = "UNINITIALIZED"
    /\ thread = "asleep" => mState \in {"IDLE", "UNINITIALIZED"}
    /\ mState = "WAITING" => thread \in {"unlocked", "poll_abort", "read_idle", "poll_idle", "release", "cut"}
    /\ mState = "IDLE" => thread \in {"top", "asleep"}
    /\ (mState = "INTERACTION" /\ mEventFd = 0) => thread = "top"
    /\ mState # "UNINITIALIZED" => mEventFd <= 1
    /\ ~kDisplayIdleSupport => mState \in {"UNINITIALIZED", "IDLE"}

\* What is owed to the requests is bounded by the last one that was accepted.
OwedBounded ==
    /\ mState \in {"INTERACTION", "WAITING"} => owed = 0 \/ owed + age <= mDurationMs
    /\ (kDisplayIdleSupport /\ mState = "IDLE") => owed = 0 \/ late
    /\ (thread = "none" \/ ~kDisplayIdleSupport) => owed <= hint
    /\ (mState = "UNINITIALIZED" /\ thread # "none" /\ kDisplayIdleSupport)
          => owed = 0 \/ late \/ hint = Forever

\* A wait that nobody aborted lasts as long as that bound.
PollLongEnough ==
    mState = "WAITING" =>
        /\ thread \in {"poll_abort", "read_idle", "poll_idle"} => timeout_ms = mDurationMs
        /\ thread = "poll_idle" => mDurationMs <= timer + age
        /\ thread = "release" => mDurationMs <= age
        /\ thread = "cut" => owed = 0 \/ late

HandlerInv ==
    /\ TypeOK /\ Lifecycle /\ HintMatchesState /\ NoStaleAbort
    /\ OwedBounded /\ PollLongEnough

-----------------------------------------------------------------------------

\* Acquire clamps every duration, negative ones included, to the configured
\* minimum and maximum.
LEMMA FinalDurationInRange ==
    ASSUME NEW d \in Durations
    PROVE  finalDuration(d) \in kMinDurationMs .. kMaxDurationMs
<1> DEFINE input == (d + kDurationOffsetMs) % Wrap
<1>1. input \in Int
  BY InteractionAssumption
<1>2. QED
  BY <1>1, InteractionAssumption DEF finalDuration

\* The constructor establishes the invariant of the handler.
LEMMA HandlerInvInit == Init => HandlerInv
<1> SUFFICES ASSUME Init PROVE HandlerInv
  OBVIOUS
<1> USE InteractionAssumption DEF Init
<1>1. TypeOK
  <2>1. late \in BOOLEAN
    BY Zenon
  <2>2. QED
    BY <2>1 DEF TypeOK, OldAge, Forever, MaxOf
<1>2. Lifecycle
  BY DEF Lifecycle
<1>3. HintMatchesState /\ PollLongEnough
  BY DEF HintMatchesState, PollLongEnough
<1>4. NoStaleAbort
  BY DEF NoStaleAbort
<1>5. OwedBounded
  BY DEF OwedBounded
<1>6. QED
  BY <1>1, <1>2, <1>3, <1>4, <1>5 DEF HandlerInv

\* Every step of the owner, of the thread and of time keeps it.
LEMMA HandlerInvStep == HandlerInv /\ [Next]_vars => HandlerInv'
<1> SUFFICES ASSUME HandlerInv, [Next]_vars PROVE HandlerInv'
  OBVIOUS
<1> USE InteractionAssumption
<1> USE DEF HandlerInv, TypeOK, Lifecycle, HintMatchesState, NoStaleAbort,
            OwedBounded, PollLongEnough, OldAge, Forever, requestVars, threadVars
<1>1. CASE InitHandler
  BY <1>1 DEF InitHandler
<1>2. ASSUME NEW d \in Durations, setBoost(d) PROVE HandlerInv'
  <2> DEFINE final == finalDuration(d)
  <2>1. final \in kMinDurationMs .. kMaxDurationMs
    BY FinalDurationInRange
  <2> HIDE DEF final
  <2>2. CASE AcquireDirectly(final) /\ (~kDisplayIdleSupport \/ mState = "UNINITIALIZED")
    BY <1>2, <2>1, <2>2 DEF setBoost, AcquireDirectly, MaxOf
  <2>3. CASE AcquireCovered(final) /\ kDisplayIdleSupport /\ mState # "UNINITIALIZED"
    <3>1. TypeOK'
      BY <1>2, <2>1, <2>3 DEF setBoost, AcquireCovered, covered, MaxOf
    <3>2. Lifecycle'
      BY <1>2, <2>1, <2>3 DEF setBoost, AcquireCovered, covered, MaxOf
    <3>3. HintMatchesState'
      BY <1>2, <2>1, <2>3 DEF setBoost, AcquireCovered, covered, MaxOf
    <3>4. NoStaleAbort'
      BY <1>2, <2>1, <2>3 DEF setBoost, AcquireCovered, covered, MaxOf
    <3>5. OwedBounded'
      BY <1>2, <2>1, <2>3 DEF setBoost, AcquireCovered, covered, MaxOf
    <3>6. PollLongEnough'
      BY <1>2, <2>1, <2>3 DEF setBoost, AcquireCovered, covered, MaxOf
    <3>7. QED
      BY <3>1, <3>2, <3>3, <3>4, <3>5, <3>6
  <2>4. CASE AcquireNew(final) /\ kDisplayIdleSupport /\ mState # "UNINITIALIZED"
    <3>1. TypeOK'
      <4>1. late' \in BOOLEAN
        BY <2>4, Zenon DEF AcquireNew
      <4>2. QED
        BY <1>2, <2>1, <2>4, <4>1 DEF setBoost, AcquireNew, notify, MaxOf
    <3>2. Lifecycle'
      BY <1>2, <2>1, <2>4 DEF setBoost, AcquireNew, covered, notify, MaxOf
    <3>3. HintMatchesState'
      BY <1>2, <2>1, <2>4 DEF setBoost, AcquireNew, covered, notify, MaxOf
    <3>4. NoStaleAbort'
      BY <1>2, <2>1, <2>4 DEF setBoost, AcquireNew, covered, notify, MaxOf
    <3>5. OwedBounded'
      BY <1>2, <2>1, <2>4 DEF setBoost, AcquireNew, covered, notify, MaxOf
    <3>6. PollLongEnough'
      BY <1>2, <2>1, <2>4 DEF setBoost, AcquireNew, covered, notify, MaxOf
    <3>7. QED
      BY <3>1, <3>2, <3>3, <3>4, <3>5, <3>6
  <2>5. QED
    BY <1>2, <2>2, <2>3, <2>4 DEF setBoost, Acquire, final
<1>3. CASE setSustained
  BY <1>3 DEF setSustained
<1>4. CASE Exit
  BY <1>4 DEF Exit
<1>5. CASE ExitNotify
  BY <1>5 DEF ExitNotify, notify
<1>6. CASE ExitJoin
  BY <1>6 DEF ExitJoin
<1>7. CASE Routine
  BY <1>7 DEF Routine
<1>8. CASE CallWaitForIdle
  BY <1>8 DEF CallWaitForIdle, MaxOf
<1>9. CASE PollAborted
  BY <1>9 DEF PollAborted
<1>10. CASE PollTimedOut
  BY <1>10 DEF PollTimedOut
<1>11. CASE ReadBusy
  BY <1>11 DEF ReadBusy, MaxOf
<1>12. CASE WaitCut
  BY <1>12 DEF WaitCut
<1>13. CASE Release
  <2>1. TypeOK'
    BY <1>13 DEF Release
  <2>2. Lifecycle'
    BY <1>13 DEF Release
  <2>3. HintMatchesState'
    BY <1>13 DEF Release
  <2>4. NoStaleAbort'
    BY <1>13 DEF Release
  <2>5. OwedBounded'
    BY <1>13 DEF Release
  <2>6. PollLongEnough'
    BY <1>13 DEF Release
  <2>7. QED
    BY <2>1, <2>2, <2>3, <2>4, <2>5, <2>6
<1>14. CASE Tick
  BY <1>14 DEF Tick, LessOne, MaxOf
<1>15. CASE UNCHANGED vars
  BY <1>15 DEF vars
<1>16. QED
  BY <1>1, <1>2, <1>3, <1>4, <1>5, <1>6, <1>7, <1>8, <1>9, <1>10, <1>11,
     <1>12, <1>13, <1>14, <1>15 DEF Next

\* The invariant implies that no request is owed a hint that is off.
LEMMA InvHonours == HandlerInv => RequestHonoured
  BY InteractionAssumption
  DEF HandlerInv, TypeOK, Lifecycle, HintMatchesState, OwedBounded, PollLongEnough,
      RequestHonoured, HintOn, Forever

\* The inductive invariant holds throughout.
LEMMA HandlerAlways == Spec => []HandlerInv
  BY HandlerInvInit, HandlerInvStep, PTL DEF Spec

\* Every variable keeps its type: the duration the handler stores is always
\* a clamped one, and the eventfd holds at most two aborts.
THEOREM HandlerTypeCorrect == Spec => []TypeOK
<1>1. HandlerInv => TypeOK
  BY DEF HandlerInv
<1>2. QED
  BY <1>1, HandlerAlways, PTL

\* The hint is on exactly while the handler is in INTERACTION or WAITING.
THEOREM HintFollowsState == Spec => []HintMatchesState
<1>1. HandlerInv => HintMatchesState
  BY DEF HandlerInv
<1>2. QED
  BY <1>1, HandlerAlways, PTL

\* An abort written by Acquire is consumed by the wait it was written for.
THEOREM AbortsAreFresh == Spec => []NoStaleAbort
<1>1. HandlerInv => NoStaleAbort
  BY DEF HandlerInv
<1>2. QED
  BY <1>1, HandlerAlways, PTL

\* Every request keeps the hint on for its own clamped duration, whatever
\* requests follow it, unless the display was seen idle.
THEOREM RequestsHonoured == Spec => []RequestHonoured
  BY InvHonours, HandlerAlways, PTL
-----------------------------------------------------------------------------
(* Sums                                                                    *)

\* g is the function of the running sums of f up to n.
RunningSums(g, f, n) == g = [i \in 0 .. n |-> IF i = 0 THEN 0 ELSE g[i - 1] + f[i]]

\* A set of naturals that is not empty has a least element.
LEMMA LeastNat ==
    ASSUME NEW T, T \subseteq Nat, T # {}
    PROVE  \E x \in T : \A y \in T : x <= y
<1>1. PICK x \in T : \A y \in T : ~(<<y, x>> \in OpToRel(<, Nat))
  <2> DEFINE R == OpToRel(<, Nat)
  <2>1. IsWellFoundedOn(R, Nat)
    BY NatLessThanWellFounded
  <2> HIDE DEF R
  <2>2. \E x \in T : \A y \in T : ~(<<y, x>> \in R)
    BY <2>1, WFMin
  <2> QED
    BY <2>2 DEF R
<1>2. ASSUME NEW y \in T, y < x PROVE FALSE
  <2>1. <<y, x>> \in Nat \X Nat /\ <<y, x>>[1] < <<y, x>>[2]
    BY <1>2
  <2>2. <<y, x>> \in OpToRel(<, Nat)
    BY <2>1, Zenon DEF OpToRel
  <2> QED
    BY <1>1, <2>2
<1>3. \A y \in T : x <= y
  BY <1>2
<1> QED
  BY <1>3

\* Every sequence of integers has running sums.
LEMMA RunningSumsExist ==
    ASSUME NEW n \in Nat, NEW f \in [1 .. n -> Int]
    PROVE  \E g \in [0 .. n -> Int] : RunningSums(g, f, n)
<1> DEFINE Without == {k \in 0 .. n : ~ \E g \in [0 .. k -> Int] : RunningSums(g, f, k)}
<1> SUFFICES ASSUME Without # {} PROVE FALSE
  OBVIOUS
<1>1. PICK k \in Without : \A j \in Without : k <= j
  <2> HIDE DEF Without
  <2>1. Without \subseteq Nat
    BY DEF Without
  <2> QED
    BY <2>1, LeastNat
<1>2. k # 0
  <2> SUFFICES ASSUME k = 0 PROVE FALSE
    OBVIOUS
  <2> DEFINE g == [i \in 0 .. 0 |-> 0]
  <2>1. g \in [0 .. 0 -> Int] /\ RunningSums(g, f, 0)
    BY DEF RunningSums
  <2> QED
    BY <1>1, <2>1
<1>3. k - 1 \in 0 .. n /\ k - 1 \notin Without
  BY <1>1, <1>2
<1>4. PICK g \in [0 .. k - 1 -> Int] : RunningSums(g, f, k - 1)
  BY <1>3
<1> DEFINE h == [i \in 0 .. k |-> IF i = k THEN g[k - 1] + f[k] ELSE g[i]]
<1>5. k \in 1 .. n /\ \A i \in 1 .. k : i - 1 \in 0 .. k - 1
  BY <1>2, <1>1
<1>6. h \in [0 .. k -> Int]
  BY <1>5
<1>7. \A i \in 0 .. k : h[i] = IF i = 0 THEN 0 ELSE h[i - 1] + f[i]
  BY <1>4, <1>5 DEF RunningSums
<1>8. RunningSums(h, f, k)
  BY <1>6, <1>7 DEF RunningSums
<1> QED
  BY <1>1, <1>6, <1>8

\* The running sums are unique.
LEMMA RunningSumsUnique ==
    ASSUME NEW n \in Nat, NEW f, NEW g, NEW h, RunningSums(g, f, n), RunningSums(h, f, n)
    PROVE  g = h
<1> DEFINE Differ == {k \in 0 .. n : g[k] # h[k]}
<1>1. Differ = {}
  <2> SUFFICES ASSUME Differ # {} PROVE FALSE
    OBVIOUS
  <2>1. PICK k \in Differ : \A j \in Differ : k <= j
    <3> HIDE DEF Differ
    <3>1. Differ \subseteq Nat
      BY DEF Differ
    <3> QED
      BY <3>1, LeastNat
  <2>2. k = 0 \/ g[k - 1] = h[k - 1]
    BY <2>1
  <2> QED
    BY <2>1, <2>2 DEF RunningSums
<1>2. \A k \in 0 .. n : g[k] = h[k]
  BY <1>1
<1>3. g = [k \in 0 .. n |-> g[k]] /\ h = [k \in 0 .. n |-> h[k]]
  BY DEF RunningSums
<1> QED
  BY <1>2, <1>3

\* SumOf is the last running sum.
LEMMA SumOfIs ==
    ASSUME NEW n \in Nat, NEW f, NEW g, RunningSums(g, f, n)
    PROVE  SumOf(f, n) = g[n]
<1> DEFINE sum == CHOOSE s : s = [i \in 0 .. n |-> IF i = 0 THEN 0 ELSE s[i - 1] + f[i]]
<1>1. RunningSums(sum, f, n)
  BY Zenon DEF RunningSums
<1>2. sum = g
  BY <1>1, RunningSumsUnique
<1>3. SumOf(f, n) = sum[n]
  BY Zenon DEF SumOf
<1> QED
  BY <1>2, <1>3

\* The sum of an integer sequence is an integer; the empty sum is 0.
LEMMA SumOfType ==
    ASSUME NEW n \in Nat, NEW f \in [1 .. n -> Int]
    PROVE  SumOf(f, n) \in Int /\ (n = 0 => SumOf(f, n) = 0)
<1>1. PICK g \in [0 .. n -> Int] : RunningSums(g, f, n)
  BY RunningSumsExist
<1>2. SumOf(f, n) = g[n]
  BY <1>1, SumOfIs
<1> QED
  BY <1>1, <1>2 DEF RunningSums

\* A value at the end is added to the sum.
LEMMA SumOfAppend ==
    ASSUME NEW n \in Nat, NEW f \in [1 .. n -> Int], NEW e \in [1 .. n + 1 -> Int],
           \A i \in 1 .. n : e[i] = f[i]
    PROVE  SumOf(e, n + 1) = SumOf(f, n) + e[n + 1]
<1>1. PICK g \in [0 .. n -> Int] : RunningSums(g, f, n)
  BY RunningSumsExist
<1> DEFINE h == [i \in 0 .. n + 1 |-> IF i = n + 1 THEN g[n] + e[n + 1] ELSE g[i]]
<1>2. \A i \in 0 .. n + 1 : h[i] = IF i = 0 THEN 0 ELSE h[i - 1] + e[i]
  BY <1>1 DEF RunningSums
<1>3. RunningSums(h, e, n + 1)
  BY <1>2 DEF RunningSums
<1>4. SumOf(f, n) = g[n]
  BY <1>1, SumOfIs
<1>5. SumOf(e, n + 1) = h[n + 1]
  BY <1>3, SumOfIs
<1> QED
  BY <1>4, <1>5

\* A value that leaves at the front is taken from the sum.
LEMMA SumOfTail ==
    ASSUME NEW n \in Nat, NEW f \in [1 .. n + 1 -> Int], NEW e \in [1 .. n -> Int],
           \A i \in 1 .. n : e[i] = f[i + 1]
    PROVE  SumOf(e, n) = SumOf(f, n + 1) - f[1]
<1>1. PICK g \in [0 .. n + 1 -> Int] : RunningSums(g, f, n + 1)
  BY RunningSumsExist
<1> DEFINE h == [i \in 0 .. n |-> g[i + 1] - f[1]]
<1>a. \A i \in 0 .. n + 1 : g[i] = IF i = 0 THEN 0 ELSE g[i - 1] + f[i]
  BY <1>1 DEF RunningSums
<1>2. \A i \in 0 .. n : h[i] = IF i = 0 THEN 0 ELSE h[i - 1] + e[i]
  <2> TAKE i \in 0 .. n
  <2>1. g[i + 1] = g[i] + f[i + 1] /\ g[i] \in Int /\ f[i + 1] \in Int /\ f[1] \in Int
    BY <1>a
  <2>2. CASE i = 0
    BY <2>1, <2>2, <1>a
  <2>3. CASE i # 0
    BY <2>1, <2>3
  <2> QED
    BY <2>2, <2>3
<1>3. RunningSums(h, e, n)
  BY <1>2 DEF RunningSums
<1>4. SumOf(f, n + 1) = g[n + 1]
  BY <1>1, SumOfIs
<1>5. SumOf(e, n) = h[n]
  BY <1>3, SumOfIs
<1> QED
  BY <1>4, <1>5

-----------------------------------------------------------------------------
(* Counting                                                                *)

\* An index at the end adds itself to a count.
LEMMA CountAppend ==
    ASSUME NEW n \in Nat, NEW S \in SUBSET (1 .. n), NEW T,
           T = IF n + 1 \in T THEN S \cup {n + 1} ELSE S
    PROVE  /\ Cardinality(S) \in Nat
           /\ Cardinality(T) = Cardinality(S) + Bit(n + 1 \in T)
<1>a. IsFiniteSet(1 .. n)
  BY FS_Interval
<1>1. IsFiniteSet(S) /\ Cardinality(S) \in Nat
  BY <1>a, FS_Subset, FS_CardinalityType
<1>2. n + 1 \notin S
  OBVIOUS
<1>3. Cardinality(S \cup {n + 1}) = Cardinality(S) + 1
  BY <1>1, <1>2, FS_AddElement
<1> QED
  BY <1>1, <1>3 DEF Bit

\* An index that leaves at the front takes itself from a count.
LEMMA CountTail ==
    ASSUME NEW n \in Nat, NEW S \in SUBSET (1 .. n + 1), NEW T,
           T = {i \in 1 .. n : i + 1 \in S}
    PROVE  /\ Cardinality(S) \in Nat
           /\ Cardinality(T) = Cardinality(S) - Bit(1 \in S)
<1> DEFINE U == S \ {1}
<1>a. IsFiniteSet(1 .. n + 1)
  BY FS_Interval
<1>1. IsFiniteSet(S) /\ Cardinality(S) \in Nat
  BY <1>a, FS_Subset, FS_CardinalityType
<1>2. IsFiniteSet(U)
  BY <1>1, FS_RemoveElement
<1>b. IsFiniteSet(1 .. n) /\ T \subseteq 1 .. n
  BY FS_Interval
<1>c. IsFiniteSet(T)
  BY <1>b, FS_Subset
<1>3. Cardinality(U) = Cardinality(S) - Bit(1 \in S)
  BY <1>1, FS_RemoveElement DEF Bit
<1>4. Cardinality(T) = Cardinality(U)
  <2> DEFINE shift == [i \in T |-> i + 1]
  <2>1. shift \in Bijection(T, U)
    <3>1. shift \in [T -> U]
      OBVIOUS
    <3>2. \A a, b \in T : shift[a] = shift[b] => a = b
      OBVIOUS
    <3>3. \A u \in U : u - 1 \in T /\ shift[u - 1] = u
      OBVIOUS
    <3> QED
      BY <3>1, <3>2, <3>3, Fun_IsBij, Zenon
  <2>2. ExistsBijection(T, U)
    BY <2>1 DEF ExistsBijection
  <2> QED
    BY <1>c, <2>2, FS_Bijection
<1> QED
  BY <1>1, <1>3, <1>4

-----------------------------------------------------------------------------
(* The invariant of the records                                            *)

\* The slot of the frame that arrived k frames before the one in slot l, and
\* at the same time the age of the frame in slot k.
Back(l, k) == IF k <= l THEN l - k ELSE l - k + MaxNumOfRecords

\* The ring holds the frames of the history w, the newest in slot latest.
Ring(m, w) ==
    /\ m.frames = Len(w) /\ Len(w) <= MaxNumOfRecords
    /\ w # <<>> => m.latest >= 0
    /\ \A k \in 0 .. Len(w) - 1 : m.records[Back(m.latest, k)] = w[Len(w) - k]

\* The figures that are adjusted frame by frame are those of w.
Counted(m, w, kept) ==
    /\ m.missed = Cardinality(MissedFrames(w))
    /\ m.jitters = kept + Cardinality(JitterFrames(w))
    /\ m.sum = SumOf(Totals(w), Len(w))

Averaged(m, w) == w # <<>> => m.avg = m.sum \div Len(w)

\* The indexes in the queue are of frames in w, and from front to back both
\* newer and shorter.
Falling(m, w) ==
    LET ageOf(k) == Back(m.latest, m.queue[k])
        total(k) == m.records[m.queue[k]].total
    IN  /\ \A k \in DOMAIN m.queue : ageOf(k) <= Len(w) - 1
        /\ \A k, l \in DOMAIN m.queue : k < l => ageOf(k) > ageOf(l) /\ total(k) > total(l)

\* No frame in w is longer than every candidate that arrived with or after it.
Covers(m, w) ==
    \A a \in 0 .. Len(w) - 1 : \E k \in DOMAIN m.queue :
        /\ Back(m.latest, m.queue[k]) <= a
        /\ m.records[m.queue[k]].total >= m.records[Back(m.latest, a)].total

\* The sum of the starts of the newest k frames of w, for the k that occur.
NewestStarts(w, k) ==
    LET n == Len(w)
    IN  CASE k = 0 -> 0
          [] k = 1 -> w[n].start
          [] k = 2 -> w[n].start + w[n - 1].start
          [] k = 3 -> w[n].start + w[n - 1].start + w[n - 2].start

\* The intervals that were added are those of the newest frames.
Tracked(m, w) == m.added <= Len(w) /\ m.intervals = NewestStarts(w, m.added)

RecordsInv ==
    /\ RecordsTypeOK
    /\ Ring(r, window)
    /\ Counted(r, window, carried)
    /\ Averaged(r, window)
    /\ Falling(r, window)
    /\ Covers(r, window)
    /\ clean => Tracked(r, window)
-----------------------------------------------------------------------------
(* The history                                                             *)

\* What a new frame changes in the figures of a history.
LEMMA FiguresAppend ==
    ASSUME NEW w \in Seq(Records), NEW rec \in Records
    PROVE  /\ Cardinality(MissedFrames(Append(w, rec))) = Cardinality(MissedFrames(w)) + Bit(rec.missed)
           /\ Cardinality(JitterFrames(Append(w, rec))) = Cardinality(JitterFrames(w)) + Bit(rec.jitter)
           /\ SumOf(Totals(Append(w, rec)), Len(w) + 1) = SumOf(Totals(w), Len(w)) + rec.total
<1> DEFINE n == Len(w)
           u == Append(w, rec)
<1>1. /\ n \in Nat /\ DOMAIN w = 1 .. n /\ DOMAIN u = 1 .. n + 1 /\ u[n + 1] = rec
      /\ \A i \in 1 .. n : u[i] = w[i] /\ w[i] \in Records
  OBVIOUS
<1> HIDE DEF n, u
<1>2. /\ MissedFrames(w) \in SUBSET (1 .. n) /\ Bit(n + 1 \in MissedFrames(u)) = Bit(rec.missed)
      /\ MissedFrames(u) = IF n + 1 \in MissedFrames(u) THEN MissedFrames(w) \cup {n + 1} ELSE MissedFrames(w)
  <2>1. \A i \in 1 .. n : i \in MissedFrames(u) <=> i \in MissedFrames(w)
    BY <1>1 DEF MissedFrames
  <2>2. MissedFrames(w) \subseteq 1 .. n /\ MissedFrames(u) \subseteq 1 .. n + 1
    BY <1>1 DEF MissedFrames
  <2>3. Bit(n + 1 \in MissedFrames(u)) = Bit(rec.missed)
    BY <1>1 DEF MissedFrames, Bit
  <2>4. \A i \in MissedFrames(u) : i \in MissedFrames(w) \/ i = n + 1
    BY <1>1, <2>1, <2>2
  <2>5. MissedFrames(w) \subseteq MissedFrames(u)
    BY <2>1, <2>2
  <2>6. ASSUME n + 1 \in MissedFrames(u) PROVE MissedFrames(u) = MissedFrames(w) \cup {n + 1}
    BY <2>4, <2>5, <2>6
  <2>7. ASSUME n + 1 \notin MissedFrames(u) PROVE MissedFrames(u) = MissedFrames(w)
    BY <2>4, <2>5, <2>7
  <2>8. MissedFrames(w) \in SUBSET (1 .. n)
    BY <2>2
  <2> QED
    BY <2>3, <2>6, <2>7, <2>8, Zenon
<1>3. Cardinality(MissedFrames(u)) = Cardinality(MissedFrames(w)) + Bit(rec.missed)
  BY <1>1, <1>2, CountAppend
<1>4. /\ JitterFrames(w) \in SUBSET (1 .. n) /\ Bit(n + 1 \in JitterFrames(u)) = Bit(rec.jitter)
      /\ JitterFrames(u) = IF n + 1 \in JitterFrames(u) THEN JitterFrames(w) \cup {n + 1} ELSE JitterFrames(w)
  <2>1. \A i \in 1 .. n : i \in JitterFrames(u) <=> i \in JitterFrames(w)
    BY <1>1 DEF JitterFrames
  <2>2. JitterFrames(w) \subseteq 1 .. n /\ JitterFrames(u) \subseteq 1 .. n + 1
    BY <1>1 DEF JitterFrames
  <2>3. Bit(n + 1 \in JitterFrames(u)) = Bit(rec.jitter)
    BY <1>1 DEF JitterFrames, Bit
  <2>4. \A i \in JitterFrames(u) : i \in JitterFrames(w) \/ i = n + 1
    BY <1>1, <2>1, <2>2
  <2>5. JitterFrames(w) \subseteq JitterFrames(u)
    BY <2>1, <2>2
  <2>6. ASSUME n + 1 \in JitterFrames(u) PROVE JitterFrames(u) = JitterFrames(w) \cup {n + 1}
    BY <2>4, <2>5, <2>6
  <2>7. ASSUME n + 1 \notin JitterFrames(u) PROVE JitterFrames(u) = JitterFrames(w)
    BY <2>4, <2>5, <2>7
  <2>8. JitterFrames(w) \in SUBSET (1 .. n)
    BY <2>2
  <2> QED
    BY <2>3, <2>6, <2>7, <2>8, Zenon
<1>5. Cardinality(JitterFrames(u)) = Cardinality(JitterFrames(w)) + Bit(rec.jitter)
  BY <1>1, <1>4, CountAppend
<1>6. /\ Totals(w) \in [1 .. n -> Int] /\ Totals(u) \in [1 .. n + 1 -> Int]
      /\ \A i \in 1 .. n : Totals(u)[i] = Totals(w)[i]
      /\ Totals(u)[n + 1] = rec.total
  <2>1. \A i \in 1 .. n : w[i].total \in Int /\ u[i].total = w[i].total
    BY <1>1 DEF Records
  <2>2. rec.total \in Int /\ u[n + 1].total = rec.total
    BY <1>1 DEF Records
  <2>3. Totals(w) = [i \in 1 .. n |-> w[i].total] /\ Totals(u) = [i \in 1 .. n + 1 |-> u[i].total]
    BY <1>1 DEF Totals
  <2>4. \A i \in 1 .. n + 1 : i \in 1 .. n \/ i = n + 1
    BY <1>1
  <2> QED
    BY <1>1, <2>1, <2>2, <2>3, <2>4
<1>7. SumOf(Totals(u), n + 1) = SumOf(Totals(w), n) + rec.total
  BY <1>1, <1>6, SumOfAppend
<1> QED
  BY <1>3, <1>5, <1>7 DEF n, u

\* What the oldest frame takes away when it leaves a history.
LEMMA FiguresTail ==
    ASSUME NEW w \in Seq(Records), w # <<>>
    PROVE  /\ Cardinality(MissedFrames(Tail(w))) = Cardinality(MissedFrames(w)) - Bit(w[1].missed)
           /\ Cardinality(JitterFrames(Tail(w))) = Cardinality(JitterFrames(w)) - Bit(w[1].jitter)
           /\ SumOf(Totals(Tail(w)), Len(w) - 1) = SumOf(Totals(w), Len(w)) - w[1].total
<1> DEFINE n == Len(w) - 1
           u == Tail(w)
<1>1. /\ n \in Nat /\ Len(w) = n + 1 /\ DOMAIN w = 1 .. n + 1 /\ DOMAIN u = 1 .. n
      /\ \A i \in 1 .. n : u[i] = w[i + 1]
      /\ \A i \in 1 .. n + 1 : w[i] \in Records
      /\ 1 \in 1 .. n + 1 /\ \A i \in 1 .. n : i + 1 \in 1 .. n + 1
  OBVIOUS
<1> HIDE DEF n, u
<1>2. /\ MissedFrames(w) \in SUBSET (1 .. n + 1) /\ Bit(1 \in MissedFrames(w)) = Bit(w[1].missed)
      /\ MissedFrames(u) = {i \in 1 .. n : i + 1 \in MissedFrames(w)}
  <2>1. \A i \in 1 .. n + 1 : i \in MissedFrames(w) <=> w[i].missed
    BY <1>1 DEF MissedFrames
  <2>2. \A i \in 1 .. n : i \in MissedFrames(u) <=> i + 1 \in MissedFrames(w)
    BY <1>1, <2>1 DEF MissedFrames
  <2>3. MissedFrames(w) \subseteq 1 .. n + 1 /\ MissedFrames(u) \subseteq 1 .. n
    BY <1>1 DEF MissedFrames
  <2>4. Bit(1 \in MissedFrames(w)) = Bit(w[1].missed)
    BY <1>1, <2>1 DEF Bit
  <2> QED
    BY <2>2, <2>3, <2>4
<1>3. Cardinality(MissedFrames(u)) = Cardinality(MissedFrames(w)) - Bit(w[1].missed)
  BY <1>1, <1>2, CountTail
<1>4. /\ JitterFrames(w) \in SUBSET (1 .. n + 1) /\ Bit(1 \in JitterFrames(w)) = Bit(w[1].jitter)
      /\ JitterFrames(u) = {i \in 1 .. n : i + 1 \in JitterFrames(w)}
  <2>1. \A i \in 1 .. n + 1 : i \in JitterFrames(w) <=> w[i].jitter
    BY <1>1 DEF JitterFrames
  <2>2. \A i \in 1 .. n : i \in JitterFrames(u) <=> i + 1 \in JitterFrames(w)
    BY <1>1, <2>1 DEF JitterFrames
  <2>3. JitterFrames(w) \subseteq 1 .. n + 1 /\ JitterFrames(u) \subseteq 1 .. n
    BY <1>1 DEF JitterFrames
  <2>4. Bit(1 \in JitterFrames(w)) = Bit(w[1].jitter)
    BY <1>1, <2>1 DEF Bit
  <2> QED
    BY <2>2, <2>3, <2>4
<1>5. Cardinality(JitterFrames(u)) = Cardinality(JitterFrames(w)) - Bit(w[1].jitter)
  BY <1>1, <1>4, CountTail
<1>6. /\ Totals(u) \in [1 .. n -> Int] /\ Totals(w) \in [1 .. n + 1 -> Int]
      /\ \A i \in 1 .. n : Totals(u)[i] = Totals(w)[i + 1]
      /\ Totals(w)[1] = w[1].total
  <2>1. \A i \in 1 .. n + 1 : w[i].total \in Int
    BY <1>1 DEF Records
  <2>2. Totals(w) = [i \in 1 .. n + 1 |-> w[i].total] /\ Totals(u) = [i \in 1 .. n |-> u[i].total]
    BY <1>1 DEF Totals
  <2>3. \A i \in 1 .. n : u[i].total = w[i + 1].total
    BY <1>1
  <2> QED
    BY <1>1, <2>1, <2>2, <2>3
<1>7. SumOf(Totals(u), n) = SumOf(Totals(w), n + 1) - w[1].total
  BY <1>1, <1>6, SumOfTail
<1> QED
  BY <1>1, <1>3, <1>5, <1>7 DEF n, u

-----------------------------------------------------------------------------
(* Slots of the ring                                                       *)

\* The slot after latest, in the arithmetic of the code.
LEMMA NextSlot ==
    ASSUME NEW l \in Slots \cup {-1}
    PROVE  /\ (l + 1) % MaxNumOfRecords = IF l = MaxNumOfRecords - 1 THEN 0 ELSE l + 1
           /\ (l + 1) % MaxNumOfRecords \in Slots
<1> DEFINE N == MaxNumOfRecords
<1>1. N \in Nat /\ N >= 3 /\ l \in -1 .. N - 1
  BY RecordsAssumption DEF Slots, FpsFrames
<1> HIDE DEF N
<1>2. CASE l = N - 1
  <2>1. N % N = 0
    BY <1>1
  <2> QED
    BY <1>1, <1>2, <2>1 DEF N, Slots
<1>3. CASE l # N - 1
  <2>1. (l + 1) % N = l + 1
    BY <1>1, <1>3
  <2> QED
    BY <1>1, <1>3, <2>1 DEF N, Slots
<1> QED
  BY <1>2, <1>3

\* The slot of the interval that leaves the sum: three before latest.
LEMMA OldSlot ==
    ASSUME NEW l \in Slots
    PROVE  (l - FpsFrames) % MaxNumOfRecords = IF l >= 3 THEN l - 3 ELSE l - 3 + MaxNumOfRecords
<1> DEFINE N == MaxNumOfRecords
<1>1. N \in Nat /\ N >= 3 /\ l \in 0 .. N - 1
  BY RecordsAssumption DEF Slots, FpsFrames
<1> HIDE DEF N
<1>2. CASE l >= 3
  <2>1. (l - 3) % N = l - 3
    BY <1>1, <1>2
  <2> QED
    BY <1>1, <1>2, <2>1 DEF N, FpsFrames
<1>3. CASE ~(l >= 3)
  <2>1. (l - 3) % N = l - 3 + N
    BY <1>1, <1>3
  <2> QED
    BY <1>1, <1>3, <2>1 DEF N, FpsFrames
<1> QED
  BY <1>2, <1>3

\* Slots and ages correspond one to one.
LEMMA BackInverse ==
    ASSUME NEW l \in Slots, NEW k \in Slots
    PROVE  /\ Back(l, k) \in Slots /\ Back(l, Back(l, k)) = k
           /\ Back(l, 0) = l /\ Back(l, l) = 0
BY RecordsAssumption DEF Slots, Back

\* An age is in the range of the slots, also before the first frame.
LEMMA BackType ==
    ASSUME NEW l \in Slots \cup {-1}, NEW k \in Slots
    PROVE  Back(l, k) \in Slots
BY RecordsAssumption DEF Slots, Back

\* A slot that is not overwritten ages by one when latest moves on.
LEMMA BackNext ==
    ASSUME NEW l \in Slots, NEW p \in Slots, p = (IF l = MaxNumOfRecords - 1 THEN 0 ELSE l + 1)
    PROVE  /\ \A k \in Slots : k # MaxNumOfRecords - 1 => Back(p, k + 1) = Back(l, k)
           /\ \A s \in Slots : s # p => Back(p, s) = Back(l, s) + 1
           /\ Back(l, MaxNumOfRecords - 1) = p
           /\ Back(l, p) = MaxNumOfRecords - 1
BY RecordsAssumption DEF Slots, Back

-----------------------------------------------------------------------------
(* The oldest record is given up                                           *)

\* The history without the frame that RemoveOldest gives up.
Room(w) == IF Len(w) < MaxNumOfRecords THEN w ELSE Tail(w)

\* RemoveOldest keeps the slots and the intervals, and leaves room for a frame.
LEMMA RemoveOldestMembers ==
    ASSUME NEW m \in Members, NEW w \in Seq(Records), Ring(m, w), Falling(m, w), Covers(m, w)
    PROVE  /\ RemoveOldest(m) \in Members
           /\ RemoveOldest(m).records = m.records /\ RemoveOldest(m).latest = m.latest
           /\ RemoveOldest(m).added = m.added /\ RemoveOldest(m).intervals = m.intervals
           /\ RemoveOldest(m).frames = Len(Room(w)) /\ Len(Room(w)) < MaxNumOfRecords
           /\ Room(w) \in Seq(Records)
           /\ Room(w) = <<>> <=> w = <<>>
<1> DEFINE N == MaxNumOfRecords
           old == (m.latest + 1) % N
<1>0. N \in Nat /\ N >= 3
  BY RecordsAssumption DEF FpsFrames
<1>1. CASE Len(w) < N
  BY <1>0, <1>1 DEF RemoveOldest, Room, Ring
<1>2. CASE Len(w) = N
  <2>1. m.frames = N /\ m.latest \in Slots /\ w # <<>>
    BY <1>0, <1>2 DEF Ring, Members, Slots
  <2>2. old \in Slots
    BY <2>1, NextSlot
  <2>3. /\ m.records[old].total \in Int
        /\ Bit(m.records[old].missed) \in Int /\ Bit(m.records[old].jitter) \in Int
    BY <2>2 DEF Members, Records, Bit
  <2>4. m.queue # <<>> /\ Tail(m.queue) \in Seq(Slots)
    <3>1. PICK k \in DOMAIN m.queue : TRUE
      BY <1>0, <1>2 DEF Covers
    <3> QED
      BY <3>1 DEF Members
  <2> DEFINE q == IF Head(m.queue) = old THEN Tail(m.queue) ELSE m.queue
  <2>5. q \in Seq(Slots)
    BY <2>4 DEF Members
  <2>6. RemoveOldest(m) = [m EXCEPT !.sum = m.sum - m.records[old].total,
                       !.missed = m.missed - Bit(m.records[old].missed),
                       !.jitters = m.jitters - Bit(m.records[old].jitter),
                       !.frames = m.frames - 1,
                       !.queue = q]
    BY <1>0, <2>1 DEF RemoveOldest, Members
  <2> HIDE DEF old, q
  <2>7. m.frames - 1 \in 0 .. MaxNumOfRecords
    BY <1>0, <2>1
  <2>8. m.sum - m.records[old].total \in Int /\ m.missed - Bit(m.records[old].missed) \in Int
        /\ m.jitters - Bit(m.records[old].jitter) \in Int
    BY <2>3 DEF Members
  <2>9. RemoveOldest(m) \in Members
    BY <2>5, <2>6, <2>7, <2>8 DEF Members
  <2>10. /\ RemoveOldest(m).records = m.records /\ RemoveOldest(m).latest = m.latest
         /\ RemoveOldest(m).added = m.added /\ RemoveOldest(m).intervals = m.intervals
         /\ RemoveOldest(m).frames = m.frames - 1
    BY <2>6 DEF Members
  <2>11. Room(w) = Tail(w) /\ Len(Tail(w)) = N - 1 /\ Tail(w) \in Seq(Records)
    BY <1>0, <1>2, <2>1 DEF Room
  <2>12. Tail(w) # <<>>
    <3>1. Len(<<>>) = 0 /\ N - 1 # 0
      BY <1>0
    <3> QED
      BY <2>11, <3>1
  <2> QED
    BY <1>0, <2>1, <2>9, <2>10, <2>11, <2>12
<1> QED
  BY <1>0, <1>1, <1>2 DEF Ring

\* What is left in the ring, the figures and the queue is right for what is
\* left of the history.
LEMMA RemoveOldestRing ==
    ASSUME NEW m \in Members, NEW w \in Seq(Records), Ring(m, w), Falling(m, w), Covers(m, w)
    PROVE  Ring(RemoveOldest(m), Room(w))
<1> DEFINE N == MaxNumOfRecords
<1>0. N \in Nat /\ N >= 3
  BY RecordsAssumption DEF FpsFrames
<1>1. CASE Len(w) < N
  BY <1>0, <1>1 DEF RemoveOldest, Room, Ring
<1>2. CASE Len(w) = N
  <2>1. Room(w) = Tail(w) /\ Len(Tail(w)) = N - 1 /\ w # <<>>
    BY <1>0, <1>2 DEF Room
  <2>2. \A k \in 0 .. N - 2 : Tail(w)[N - 1 - k] = w[N - k]
    BY <1>0, <1>2
  <2>3. /\ RemoveOldest(m).records = m.records /\ RemoveOldest(m).latest = m.latest
        /\ RemoveOldest(m).frames = Len(Room(w))
    BY RemoveOldestMembers
  <2>4. \A k \in 0 .. N - 2 : m.records[Back(m.latest, k)] = w[N - k]
    BY <1>0, <1>2 DEF Ring
  <2>5. \A k \in 0 .. N - 2 : m.records[Back(m.latest, k)] = Tail(w)[N - 1 - k]
    BY <2>2, <2>4
  <2>6. m.latest >= 0
    BY <2>1 DEF Ring
  <2>7. N - 1 - 1 = N - 2 /\ N - 1 <= N
    BY <1>0
  <2> QED
    BY <2>1, <2>3, <2>5, <2>6, <2>7 DEF Ring
<1> QED
  BY <1>0, <1>1, <1>2 DEF Ring

LEMMA RemoveOldestCounted ==
    ASSUME NEW m \in Members, NEW w \in Seq(Records), NEW kept \in Int,
           Ring(m, w), Falling(m, w), Covers(m, w), Counted(m, w, kept)
    PROVE  Counted(RemoveOldest(m), Room(w), kept)
<1> DEFINE N == MaxNumOfRecords
           old == (m.latest + 1) % N
<1>0. N \in Nat /\ N >= 3
  BY RecordsAssumption DEF FpsFrames
<1>1. CASE Len(w) < N
  BY <1>0, <1>1 DEF RemoveOldest, Room, Ring
<1>2. CASE Len(w) = N
  <2>1. Room(w) = Tail(w) /\ Len(Tail(w)) = Len(w) - 1 /\ w # <<>> /\ m.frames = N /\ m.latest \in Slots
    BY <1>0, <1>2 DEF Room, Ring, Members, Slots
  <2>2. old = Back(m.latest, N - 1)
    BY <2>1, NextSlot, BackNext
  <2>3. m.records[old] = w[1]
    BY <1>0, <1>2, <2>2 DEF Ring
  <2>4. /\ RemoveOldest(m).sum = m.sum - m.records[old].total
        /\ RemoveOldest(m).missed = m.missed - Bit(m.records[old].missed)
        /\ RemoveOldest(m).jitters = m.jitters - Bit(m.records[old].jitter)
    BY <1>0, <2>1 DEF RemoveOldest, Members
  <2> HIDE DEF old
  <2>5. /\ RemoveOldest(m).sum = m.sum - w[1].total
        /\ RemoveOldest(m).missed = m.missed - Bit(w[1].missed)
        /\ RemoveOldest(m).jitters = m.jitters - Bit(w[1].jitter)
    BY <2>3, <2>4
  <2>6. Cardinality(JitterFrames(w)) \in Int /\ Bit(w[1].jitter) \in Int
    <3>1. JitterFrames(w) \subseteq 1 .. Len(w) /\ IsFiniteSet(1 .. Len(w))
      BY FS_Interval DEF JitterFrames
    <3>2. Cardinality(JitterFrames(w)) \in Nat
      BY <3>1, FS_Subset, FS_CardinalityType
    <3> QED
      BY <3>2 DEF Bit
  <2> QED
    BY <2>1, <2>5, <2>6, FiguresTail DEF Counted
<1> QED
  BY <1>0, <1>1, <1>2 DEF Ring

LEMMA RemoveOldestQueue ==
    ASSUME NEW m \in Members, NEW w \in Seq(Records), Ring(m, w), Falling(m, w), Covers(m, w)
    PROVE  Falling(RemoveOldest(m), Room(w)) /\ Covers(RemoveOldest(m), Room(w))
<1> DEFINE N == MaxNumOfRecords
           old == (m.latest + 1) % N
           e == RemoveOldest(m)
<1>0. N \in Nat /\ N >= 3
  BY RecordsAssumption DEF FpsFrames
<1>1. CASE Len(w) < N
  BY <1>0, <1>1 DEF RemoveOldest, Room, Ring
<1>2. CASE Len(w) = N
  <2>1. Room(w) = Tail(w) /\ Len(Room(w)) = N - 1 /\ w # <<>> /\ m.frames = N /\ m.latest \in Slots
    BY <1>0, <1>2 DEF Room, Ring, Members, Slots
  <2>2. old = Back(m.latest, N - 1) /\ old \in Slots /\ Back(m.latest, old) = N - 1
    BY <2>1, NextSlot, BackNext
  <2>3. e.records = m.records /\ e.latest = m.latest
    BY RemoveOldestMembers
  <2>4. e.queue = IF Head(m.queue) = old THEN Tail(m.queue) ELSE m.queue
    BY <1>0, <2>1 DEF RemoveOldest, Members
  <2>5. m.queue # <<>> /\ m.queue \in Seq(Slots)
    BY <1>0, <1>2 DEF Covers, Members
  <2> DEFINE ageOf(k) == Back(m.latest, m.queue[k])
             total(k) == m.records[m.queue[k]].total
             D == DOMAIN m.queue
  <2>6. /\ D = 1 .. Len(m.queue) /\ Len(m.queue) \in Nat /\ 1 \in D
        /\ \A k \in D : m.queue[k] \in Slots /\ ageOf(k) \in Slots
        /\ Head(m.queue) = m.queue[1]
    BY <2>1, <2>5, BackInverse
  <2>7. /\ \A k \in D : ageOf(k) <= N - 1
        /\ \A k, l \in D : k < l => ageOf(k) > ageOf(l) /\ total(k) > total(l)
    BY <1>2 DEF Falling
  <2>8. \A a \in 0 .. N - 1 : \E k \in D : ageOf(k) <= a /\ total(k) >= m.records[Back(m.latest, a)].total
    BY <1>2 DEF Covers
  <2>9. \A k \in D : k # 1 => ageOf(k) < N - 1
    BY <1>0, <2>6, <2>7 DEF Slots
  <2> HIDE DEF old, e
  <2>10. CASE Head(m.queue) = old
    <3>1. ageOf(1) = N - 1
      BY <2>2, <2>6, <2>10
    <3>2. /\ e.queue = Tail(m.queue) /\ DOMAIN e.queue = 1 .. Len(m.queue) - 1
          /\ \A k \in DOMAIN e.queue : e.queue[k] = m.queue[k + 1] /\ k + 1 \in D
      BY <2>4, <2>5, <2>6, <2>10
    <3>3. Falling(e, Room(w))
      <4>1. \A k \in DOMAIN e.queue : Back(e.latest, e.queue[k]) <= N - 1 - 1
        <5> SUFFICES ASSUME NEW k \in DOMAIN e.queue
                     PROVE  Back(e.latest, e.queue[k]) <= N - 1 - 1
          OBVIOUS
        <5>1. k + 1 \in D /\ k + 1 # 1 /\ e.queue[k] = m.queue[k + 1]
          BY <2>6, <3>2
        <5>2. ageOf(k + 1) < N - 1 /\ ageOf(k + 1) \in 0 .. N - 1
          BY <2>6, <2>9, <5>1 DEF Slots
        <5> QED
          BY <1>0, <2>3, <5>1, <5>2
      <4>2. \A k, l \in DOMAIN e.queue : k < l =>
              /\ Back(e.latest, e.queue[k]) > Back(e.latest, e.queue[l])
              /\ e.records[e.queue[k]].total > e.records[e.queue[l]].total
        BY <2>3, <2>6, <2>7, <3>2
      <4> QED
        BY <2>1, <4>1, <4>2 DEF Falling
    <3>4. Covers(e, Room(w))
      <4> SUFFICES ASSUME NEW a \in 0 .. N - 2
                   PROVE \E k \in DOMAIN e.queue : /\ Back(e.latest, e.queue[k]) <= a
                            /\ e.records[e.queue[k]].total >= e.records[Back(e.latest, a)].total
        <5>1. N - 1 - 1 = N - 2
          BY <1>0
        <5> QED
          BY <2>1, <5>1 DEF Covers
      <4>1. PICK k \in D : ageOf(k) <= a /\ total(k) >= m.records[Back(m.latest, a)].total
        BY <1>0, <2>8
      <4>2. k # 1 /\ k - 1 \in DOMAIN e.queue /\ e.queue[k - 1] = m.queue[k]
        BY <1>0, <2>6, <3>1, <3>2, <4>1
      <4> QED
        BY <2>3, <4>1, <4>2
    <3> QED
      BY <3>3, <3>4 DEF e
  <2>11. CASE Head(m.queue) # old
    <3>1. ageOf(1) # N - 1
      <4>1. Back(m.latest, ageOf(1)) = m.queue[1]
        BY <2>1, <2>6, BackInverse
      <4> QED
        BY <2>2, <2>6, <2>11, <4>1
    <3>2. e.queue = m.queue
      BY <2>4, <2>11
    <3>3. Falling(e, Room(w))
      <4>1. \A k \in D : ageOf(k) <= N - 1 - 1
        BY <1>0, <2>6, <2>7, <2>9, <3>1 DEF Slots
      <4> QED
        BY <2>1, <2>3, <2>7, <3>2, <4>1 DEF Falling
    <3>4. Covers(e, Room(w))
      <4>1. \A a \in 0 .. N - 1 - 1 : a \in 0 .. N - 1
        BY <1>0
      <4> QED
        BY <2>1, <2>3, <2>8, <3>2, <4>1 DEF Covers
    <3> QED
      BY <3>3, <3>4 DEF e
  <2> QED
    BY <2>10, <2>11
<1> QED
  BY <1>0, <1>1, <1>2 DEF Ring

-----------------------------------------------------------------------------
(* The new record is stored                                                *)

\* A bounded set of naturals has a largest element, and Max is it.
LEMMA MaxOfBounded ==
    ASSUME NEW n \in Nat, NEW S \in SUBSET (0 .. n), S # {}
    PROVE  Max(S) \in S /\ \A x \in S : x <= Max(S)
<1> DEFINE T == {n - x : x \in S}
<1>1. T \subseteq Nat /\ T # {}
  <2>1. \A x \in S : n - x \in Nat
    OBVIOUS
  <2>2. PICK x \in S : TRUE
    OBVIOUS
  <2>3. n - x \in T
    OBVIOUS
  <2> QED
    BY <2>1, <2>3
<1>2. PICK t \in T : \A y \in T : t <= y
  <2> HIDE DEF T
  <2> QED
    BY <1>1, LeastNat
<1>3. PICK z \in S : t = n - z
  OBVIOUS
<1>4. \A x \in S : n - x \in T
  OBVIOUS
<1>5. \A x \in S : z >= x
  <2> TAKE x \in S
  <2>1. n - z <= n - x
    BY <1>2, <1>3, <1>4
  <2> QED
    BY <2>1
<1>6. Max(S) \in S /\ \A y \in S : Max(S) >= y
  BY <1>5, Zenon DEF Max
<1> QED
  BY <1>6

\* The queue of candidates after a frame of that duration went to slot p.
Pushed(q, records, total, p) ==
    Append(SubSeq(q, 1, Max({0} \cup {i \in DOMAIN q : records[q[i]].total > total})), p)

\* The queue s is q with only the first keep candidates, and p behind them.
KeepsPrefix(s, q, records, total, p, keep) ==
    /\ s \in Seq(Slots)
    /\ Len(s) = keep + 1
    /\ \A i \in 1 .. keep : s[i] = q[i]
    /\ s[keep + 1] = p
    /\ keep > 0 => records[q[keep]].total > total
    /\ \A i \in 1 .. Len(q) : i > keep => ~(records[q[i]].total > total)

\* The candidates that are kept are a prefix of the queue.
LEMMA PushedPrefix ==
    ASSUME NEW q \in Seq(Slots), NEW records, NEW total, NEW p \in Slots,
           NEW s, s = Pushed(q, records, total, p)
    PROVE  \E keep \in 0 .. Len(q) : KeepsPrefix(s, q, records, total, p, keep)
<1> DEFINE longer == {i \in DOMAIN q : records[q[i]].total > total}
           keep == Max({0} \cup longer)
<1>0. DOMAIN q = 1 .. Len(q) /\ Len(q) \in Nat
  OBVIOUS
<1>1. {0} \cup longer \in SUBSET (0 .. Len(q))
  BY <1>0
<1>2. keep \in {0} \cup longer /\ \A x \in {0} \cup longer : x <= keep
  <2> DEFINE S == {0} \cup longer
  <2>1. S # {} /\ S \in SUBSET (0 .. Len(q))
    BY <1>1
  <2> HIDE DEF S
  <2>2. Max(S) \in S /\ \A x \in S : x <= Max(S)
    BY <1>0, <2>1, MaxOfBounded
  <2> QED
    BY <2>2 DEF S
<1> DEFINE pre == SubSeq(q, 1, keep)
<1>3. s = Append(pre, p)
  BY DEF Pushed
<1>4. keep \in 0 .. Len(q)
  BY <1>1, <1>2
<1>5. ASSUME keep > 0 PROVE records[q[keep]].total > total
  <2> HIDE DEF keep
  <2>1. keep \in longer
    BY <1>2, <1>5
  <2> QED
    BY <2>1
<1>6. \A i \in 1 .. Len(q) : i > keep => ~(records[q[i]].total > total)
  <2> SUFFICES ASSUME NEW i \in 1 .. Len(q), i > keep, records[q[i]].total > total PROVE FALSE
    OBVIOUS
  <2>1. i \in longer
    BY <1>0
  <2>2. i <= keep
    BY <1>2, <2>1
  <2> QED
    BY <1>4, <2>2
<1> HIDE DEF keep, longer
<1>7. pre \in Seq(Slots) /\ Len(pre) = keep /\ \A i \in 1 .. keep : pre[i] = q[i]
  BY <1>0, <1>4
<1> HIDE DEF pre
<1>8. /\ Append(pre, p) \in Seq(Slots) /\ Len(Append(pre, p)) = keep + 1
      /\ \A i \in 1 .. keep : Append(pre, p)[i] = q[i]
      /\ Append(pre, p)[keep + 1] = p
  BY <1>4, <1>7
<1> QED
  BY <1>3, <1>4, <1>5, <1>6, <1>8 DEF KeepsPrefix

\* What TrackStart leaves in the sum of the intervals.
LEMMA TrackStartMembers ==
    ASSUME NEW m \in Members, m.latest \in Slots, NEW start \in Int, NEW compute \in BOOLEAN,
           NEW t, t = TrackStart(m, start, compute)
    PROVE  /\ t \in Members
           /\ t.latest = m.latest /\ t.records = m.records /\ t.queue = m.queue
           /\ t.frames = m.frames /\ t.missed = m.missed /\ t.jitters = m.jitters
           /\ t.sum = m.sum /\ t.avg = m.avg
           /\ ~compute => t.intervals = 0 /\ t.added = 0
           /\ (compute /\ m.added < 3 /\ start > 0) => t.intervals = m.intervals + start /\ t.added = m.added + 1
           /\ (compute /\ m.added < 3 /\ ~(start > 0)) => t.intervals = m.intervals /\ t.added = m.added
           /\ (compute /\ m.added = 3) =>
                /\ t.intervals = m.intervals + (start - m.records[(m.latest - FpsFrames) % MaxNumOfRecords].start)
                /\ t.added = 3
<1> DEFINE old == (m.latest - FpsFrames) % MaxNumOfRecords
<1>1. old \in Slots
  BY OldSlot, RecordsAssumption DEF Slots, FpsFrames
<1>2. m.records[old].start \in Int /\ m.intervals \in Int /\ m.added \in 0 .. 3
  BY <1>1 DEF Members, Records, FpsFrames
<1>3. t = IF ~compute THEN [m EXCEPT !.intervals = 0, !.added = 0]
          ELSE IF m.added < 3
               THEN IF start > 0 THEN [m EXCEPT !.intervals = m.intervals + start, !.added = m.added + 1] ELSE m
               ELSE [m EXCEPT !.intervals = m.intervals + (start - m.records[old].start)]
  BY DEF TrackStart, FpsFrames, Members
<1> HIDE DEF old
<1> DEFINE new == IF ~compute THEN 0
                  ELSE IF m.added < 3 THEN IF start > 0 THEN m.intervals + start ELSE m.intervals
                  ELSE m.intervals + (start - m.records[old].start)
           count == IF ~compute THEN 0
                    ELSE IF m.added < 3 THEN IF start > 0 THEN m.added + 1 ELSE m.added
                    ELSE m.added
<1>4. new \in Int /\ count \in 0 .. FpsFrames
  BY <1>2 DEF FpsFrames
<1>5. t = [m EXCEPT !.intervals = new, !.added = count]
  BY <1>3 DEF Members
<1> HIDE DEF new, count
<1>6. /\ t \in Members /\ t.intervals = new /\ t.added = count
      /\ t.latest = m.latest /\ t.records = m.records /\ t.queue = m.queue
      /\ t.frames = m.frames /\ t.missed = m.missed /\ t.jitters = m.jitters
      /\ t.sum = m.sum /\ t.avg = m.avg
  BY <1>4, <1>5 DEF Members
<1> QED
  BY <1>2, <1>6 DEF new, count, old

\* The members that Store leaves behind, one by one.
LEMMA StoreMembers ==
    ASSUME NEW m \in Members, m.frames < MaxNumOfRecords, NEW rec \in Records, NEW compute \in BOOLEAN,
           NEW p, p = (m.latest + 1) % MaxNumOfRecords,
           NEW s, s = Store(m, rec, compute)
    PROVE  /\ s \in Members /\ p \in Slots
           /\ s.latest = p /\ s.records[p] = rec /\ \A k \in Slots : k # p => s.records[k] = m.records[k]
           /\ s.frames = m.frames + 1
           /\ s.missed = m.missed + Bit(rec.missed)
           /\ s.jitters = m.jitters + Bit(rec.jitter)
           /\ s.sum = m.sum + rec.total
           /\ s.avg = (m.sum + rec.total) \div (m.frames + 1)
           /\ s.queue = Pushed(m.queue, s.records, rec.total, p)
           /\ ~compute => s.intervals = 0 /\ s.added = 0
           /\ (compute /\ m.added < 3 /\ rec.start > 0) =>
                s.intervals = m.intervals + rec.start /\ s.added = m.added + 1
           /\ (compute /\ m.added < 3 /\ ~(rec.start > 0)) =>
                s.intervals = m.intervals /\ s.added = m.added
           /\ (compute /\ m.added = 3) =>
                /\ s.intervals = m.intervals + (rec.start - m.records[(p - FpsFrames) % MaxNumOfRecords].start)
                /\ s.added = 3
<1> DEFINE m0 == [m EXCEPT !.latest = p]
           t == TrackStart(m0, rec.start, compute)
           records == [m.records EXCEPT ![p] = rec]
           queue == Pushed(m.queue, records, rec.total, p)
           sum == m.sum + rec.total
           avg == sum \div (m.frames + 1)
<1>1. p \in Slots
  BY NextSlot DEF Members
<1>2. /\ m0 \in Members /\ m0.latest = p /\ m0.records = m.records /\ m0.queue = m.queue
      /\ m0.frames = m.frames /\ m0.missed = m.missed /\ m0.jitters = m.jitters
      /\ m0.sum = m.sum /\ m0.avg = m.avg /\ m0.added = m.added /\ m0.intervals = m.intervals
  BY <1>1 DEF Members
<1>3. /\ t \in Members
      /\ t.latest = p /\ t.records = m.records /\ t.queue = m.queue
      /\ t.frames = m.frames /\ t.missed = m.missed /\ t.jitters = m.jitters
      /\ t.sum = m.sum /\ t.avg = m.avg
      /\ ~compute => t.intervals = 0 /\ t.added = 0
      /\ (compute /\ m.added < 3 /\ rec.start > 0) =>
           t.intervals = m.intervals + rec.start /\ t.added = m.added + 1
      /\ (compute /\ m.added < 3 /\ ~(rec.start > 0)) =>
           t.intervals = m.intervals /\ t.added = m.added
      /\ (compute /\ m.added = 3) =>
           /\ t.intervals = m.intervals + (rec.start - m.records[(p - FpsFrames) % MaxNumOfRecords].start)
           /\ t.added = 3
  <2>1. rec.start \in Int
    BY DEF Records
  <2> HIDE DEF m0
  <2>2. t = TrackStart(m0, rec.start, compute)
    OBVIOUS
  <2> HIDE DEF t
  <2> QED
    BY <1>1, <1>2, <2>1, <2>2, TrackStartMembers
<1>4. queue \in Seq(Slots)
  <2>1. m.queue \in Seq(Slots)
    BY DEF Members
  <2> HIDE DEF records
  <2> QED
    BY <1>1, <2>1, PushedPrefix DEF KeepsPrefix
<1>5. records \in [Slots -> Records]
  BY <1>1 DEF Members
<1>6. sum \in Int /\ m.frames + 1 \in 0 .. MaxNumOfRecords
  BY RecordsAssumption DEF Members, Records
<1>7. avg \in Int
  <2>1. m.frames + 1 \in Int /\ m.frames + 1 > 0
    BY DEF Members
  <2> HIDE DEF sum
  <2> QED
    BY <1>6, <2>1
<1>8. m.missed + Bit(rec.missed) \in Int /\ m.jitters + Bit(rec.jitter) \in Int
  BY DEF Members, Bit
<1> HIDE DEF t
<1> DEFINE m2 == [t EXCEPT !.records[t.latest] = rec]
<1>10. m2 \in Members /\ m2 = [t EXCEPT !.records = records]
  BY <1>3, <1>5 DEF Members
<1>11. /\ m2.queue = m.queue /\ m2.records = records /\ m2.latest = p /\ m2.frames = m.frames
       /\ m2.missed = m.missed /\ m2.jitters = m.jitters
       /\ m2.intervals = t.intervals /\ m2.added = t.added
  BY <1>3, <1>10 DEF Members
<1>12. PushIndex(m2, rec.total) = queue
  BY <1>11 DEF PushIndex, Pushed
<1> DEFINE z == [m2 EXCEPT !.frames = m.frames + 1, !.missed = m.missed + Bit(rec.missed),
                           !.jitters = m.jitters + Bit(rec.jitter), !.queue = queue,
                           !.sum = sum, !.avg = avg]
<1>13. s = z
  <2>1. s = [m2 EXCEPT !.frames = @ + 1,
                   !.missed = @ + Bit(rec.missed),
                   !.jitters = @ + Bit(rec.jitter),
                   !.queue = PushIndex(m2, rec.total),
                   !.sum = m.sum + rec.total,
                   !.avg = (m.sum + rec.total) \div (m.frames + 1)]
    BY DEF Store, Members, t
  <2> HIDE DEF m2, queue, avg
  <2>2. avg = (m.sum + rec.total) \div (m.frames + 1)
    BY DEF avg
  <2> QED
    BY <1>11, <1>12, <2>1, <2>2 DEF Members
<1> HIDE DEF m2, queue, avg, sum, records
<1>14. /\ z \in Members
       /\ z.latest = p /\ z.records = records
       /\ z.frames = m.frames + 1
       /\ z.missed = m.missed + Bit(rec.missed)
       /\ z.jitters = m.jitters + Bit(rec.jitter)
       /\ z.sum = sum /\ z.avg = avg /\ z.queue = queue
       /\ z.intervals = t.intervals /\ z.added = t.added
  BY <1>4, <1>6, <1>7, <1>8, <1>10, <1>11 DEF Members
<1> HIDE DEF z
<1>15. records[p] = rec /\ \A k \in Slots : k # p => records[k] = m.records[k]
  BY <1>1 DEF records, Members
<1>16. queue = Pushed(m.queue, records, rec.total, p) /\ avg = (m.sum + rec.total) \div (m.frames + 1)
       /\ sum = m.sum + rec.total
  BY DEF queue, avg, sum
<1> QED
  BY <1>1, <1>3, <1>13, <1>14, <1>15, <1>16

\* The ring, the figures and the average are right once the frame is stored.
LEMMA StoreRing ==
    ASSUME NEW m \in Members, NEW w \in Seq(Records), Len(w) < MaxNumOfRecords, Ring(m, w),
           NEW rec \in Records, NEW compute \in BOOLEAN
    PROVE  Ring(Store(m, rec, compute), Append(w, rec))
<1> DEFINE p == (m.latest + 1) % MaxNumOfRecords
           s == Store(m, rec, compute)
           n == Len(w)
           u == Append(w, rec)
<1>0. n \in Nat /\ m.frames = n /\ m.frames < MaxNumOfRecords /\ MaxNumOfRecords \in Nat
  BY RecordsAssumption DEF Ring
<1>1. p = IF m.latest = MaxNumOfRecords - 1 THEN 0 ELSE m.latest + 1
  BY NextSlot DEF Members
<1>a. Len(u) = n + 1 /\ u[n + 1] = rec /\ \A i \in 1 .. n : u[i] = w[i]
  OBVIOUS
<1>b. p = (m.latest + 1) % MaxNumOfRecords /\ s = Store(m, rec, compute)
  OBVIOUS
<1> HIDE DEF p, s, n, u
<1>2. /\ p \in Slots /\ s.latest = p /\ s.frames = n + 1
      /\ s.records[p] = rec /\ \A k \in Slots : k # p => s.records[k] = m.records[k]
  BY <1>0, <1>b, StoreMembers
<1>4. ASSUME NEW k \in 0 .. n PROVE s.records[Back(p, k)] = u[n + 1 - k]
  <2>1. CASE k = 0
    <3>1. Back(p, k) = p
      BY <1>2, <2>1, BackInverse
    <3> QED
      BY <1>0, <1>2, <1>a, <2>1, <3>1
  <2>2. CASE k # 0
    <3>1. k - 1 \in 0 .. n - 1 /\ k - 1 \in Slots /\ k - 1 # MaxNumOfRecords - 1 /\ w # <<>>
      BY <1>0, <2>2 DEF Slots, n
    <3>2. m.latest \in Slots
      BY <3>1 DEF Ring, Members, Slots
    <3>3. Back(p, k) = Back(m.latest, k - 1)
      BY <1>0, <1>1, <1>2, <2>2, <3>1, <3>2, RecordsAssumption DEF Back, Slots
    <3>4. Back(m.latest, k - 1) # p /\ Back(m.latest, k - 1) \in Slots
      <4>1. Back(m.latest, Back(m.latest, k - 1)) = k - 1 /\ Back(m.latest, k - 1) \in Slots
        BY <3>1, <3>2, BackInverse
      <4>2. Back(m.latest, p) = MaxNumOfRecords - 1
        BY <1>1, <1>2, <3>2, BackNext
      <4> QED
        BY <3>1, <4>1, <4>2
    <3>5. m.records[Back(m.latest, k - 1)] = w[n - (k - 1)]
      BY <3>1 DEF Ring, n
    <3>6. u[n + 1 - k] = w[n - (k - 1)]
      BY <1>0, <1>a, <2>2
    <3> QED
      BY <1>2, <3>3, <3>4, <3>5, <3>6
  <2> QED
    BY <2>1, <2>2
<1>5. n + 1 <= MaxNumOfRecords /\ n + 1 - 1 = n /\ p >= 0
  BY <1>0, <1>2 DEF n, Slots
<1>6. Ring(s, u)
  <2>1. \A k \in 0 .. Len(u) - 1 : s.records[Back(s.latest, k)] = u[Len(u) - k]
    <3> TAKE k \in 0 .. Len(u) - 1
    <3>1. k \in 0 .. n /\ Len(u) - k = n + 1 - k
      BY <1>0, <1>a
    <3> QED
      BY <1>2, <1>4, <3>1
  <2>2. s.frames = Len(u) /\ Len(u) <= MaxNumOfRecords /\ s.latest >= 0
    BY <1>2, <1>5, <1>a
  <2> QED
    BY <2>1, <2>2 DEF Ring
<1> QED
  BY <1>6 DEF s, u

LEMMA StoreCounted ==
    ASSUME NEW m \in Members, NEW w \in Seq(Records), Len(w) < MaxNumOfRecords, Ring(m, w),
           NEW kept \in Int, Counted(m, w, kept), NEW rec \in Records, NEW compute \in BOOLEAN
    PROVE  /\ Counted(Store(m, rec, compute), Append(w, rec), kept)
           /\ Averaged(Store(m, rec, compute), Append(w, rec))
<1> DEFINE s == Store(m, rec, compute)
           u == Append(w, rec)
<1>0. m.frames = Len(w) /\ m.frames < MaxNumOfRecords /\ Len(u) = Len(w) + 1
  BY DEF Ring
<1>a. s = Store(m, rec, compute)
  OBVIOUS
<1> HIDE DEF s, u
<1>1. /\ s.missed = m.missed + Bit(rec.missed)
      /\ s.jitters = m.jitters + Bit(rec.jitter)
      /\ s.sum = m.sum + rec.total
      /\ s.avg = (m.sum + rec.total) \div (Len(w) + 1)
  BY <1>0, <1>a, StoreMembers
<1>2. Cardinality(JitterFrames(w)) \in Int /\ Bit(rec.jitter) \in Int
  <2>1. JitterFrames(w) \subseteq 1 .. Len(w) /\ IsFiniteSet(1 .. Len(w))
    BY FS_Interval DEF JitterFrames
  <2>2. Cardinality(JitterFrames(w)) \in Nat
    BY <2>1, FS_Subset, FS_CardinalityType
  <2> QED
    BY <2>2 DEF Bit
<1>3. /\ Cardinality(MissedFrames(u)) = Cardinality(MissedFrames(w)) + Bit(rec.missed)
      /\ Cardinality(JitterFrames(u)) = Cardinality(JitterFrames(w)) + Bit(rec.jitter)
      /\ SumOf(Totals(u), Len(u)) = SumOf(Totals(w), Len(w)) + rec.total
  BY <1>0, FiguresAppend DEF u
<1>4. s.jitters = kept + Cardinality(JitterFrames(u))
  BY <1>1, <1>2, <1>3 DEF Counted
<1>5. s.missed = Cardinality(MissedFrames(u)) /\ s.sum = SumOf(Totals(u), Len(u))
  BY <1>1, <1>3 DEF Counted
<1>6. s.avg = s.sum \div Len(u)
  BY <1>0, <1>1
<1> QED
  BY <1>4, <1>5, <1>6 DEF Counted, Averaged, s, u

\* The candidates are again newer and shorter from front to back, and none of
\* the frames is longer than all that arrived with or after it.
LEMMA StoreQueue ==
    ASSUME NEW m \in Members, NEW w \in Seq(Records), Len(w) < MaxNumOfRecords, Ring(m, w),
           Falling(m, w), Covers(m, w), NEW rec \in Records, NEW compute \in BOOLEAN
    PROVE  /\ Falling(Store(m, rec, compute), Append(w, rec))
           /\ Covers(Store(m, rec, compute), Append(w, rec))
<1> DEFINE p == (m.latest + 1) % MaxNumOfRecords
           s == Store(m, rec, compute)
           n == Len(w)
           u == Append(w, rec)
<1>0. /\ n \in Nat /\ m.frames = n /\ m.frames < MaxNumOfRecords /\ MaxNumOfRecords \in Nat
      /\ n <= MaxNumOfRecords - 1 /\ Len(u) = n + 1
  BY RecordsAssumption DEF Ring
<1>1. p = IF m.latest = MaxNumOfRecords - 1 THEN 0 ELSE m.latest + 1
  BY NextSlot DEF Members
<1>b. p = (m.latest + 1) % MaxNumOfRecords /\ s = Store(m, rec, compute)
  OBVIOUS
<1> HIDE DEF p, s, n, u
<1>2. /\ s \in Members /\ p \in Slots /\ s.latest = p
      /\ s.records[p] = rec /\ \A k \in Slots : k # p => s.records[k] = m.records[k]
      /\ s.queue = Pushed(m.queue, s.records, rec.total, p)
  BY <1>0, <1>b, StoreMembers
<1>3. /\ m.queue \in Seq(Slots) /\ s.records \in [Slots -> Records] /\ m.records \in [Slots -> Records]
      /\ m.latest \in Slots \cup {-1}
  BY <1>2 DEF Members
<1>4. PICK keep \in 0 .. Len(m.queue) :
        /\ s.queue \in Seq(Slots) /\ Len(s.queue) = keep + 1
        /\ \A i \in 1 .. keep : s.queue[i] = m.queue[i]
        /\ s.queue[keep + 1] = p
        /\ keep > 0 => s.records[m.queue[keep]].total > rec.total
        /\ \A i \in 1 .. Len(m.queue) : i > keep => ~(s.records[m.queue[i]].total > rec.total)
  <2>1. PICK keep \in 0 .. Len(m.queue) : KeepsPrefix(s.queue, m.queue, s.records, rec.total, p, keep)
    BY <1>2, <1>3, PushedPrefix
  <2> QED
    BY <2>1 DEF KeepsPrefix
<1> DEFINE D == 1 .. Len(m.queue)
           ageOf(k) == Back(m.latest, m.queue[k])
           newAge(k) == Back(p, m.queue[k])
<1>5. /\ Len(m.queue) \in Nat /\ D = DOMAIN m.queue
      /\ DOMAIN s.queue = 1 .. keep + 1 /\ keep \in Nat
      /\ \A k \in D : m.queue[k] \in Slots
      /\ 1 .. keep \subseteq D /\ \A k \in 1 .. keep + 1 : k \in 1 .. keep \/ k = keep + 1
  BY <1>3, <1>4
<1>c. \A k \in D : ageOf(k) \in Slots /\ ageOf(k) \in Nat
  <2>1. \A k \in D : ageOf(k) \in Slots
    BY <1>3, <1>5, BackType
  <2> QED
    BY <2>1 DEF Slots
<1>6. /\ \A k \in D : ageOf(k) <= n - 1
      /\ \A k, l \in D : k < l =>
           ageOf(k) > ageOf(l) /\ m.records[m.queue[k]].total > m.records[m.queue[l]].total
  BY <1>5 DEF Falling, n
\* A slot of the queue is not the one that is overwritten, and ages by one.
<1>7. ASSUME NEW k \in D
      PROVE  /\ m.latest \in Slots /\ m.queue[k] # p
             /\ newAge(k) = ageOf(k) + 1 /\ newAge(k) \in 1 .. n
             /\ s.records[m.queue[k]] = m.records[m.queue[k]]
  <2>1. m.queue[k] \in Slots
    BY <1>5
  <2>2. ageOf(k) <= n - 1 /\ ageOf(k) \in Int /\ ageOf(k) >= 0
    BY <1>c, <1>6
  <2>3. m.latest \in Slots
    <3>1. n # 0
      BY <1>0, <2>2
    <3>2. m.latest >= 0
      BY <3>1 DEF Ring, n
    <3> QED
      BY <1>3, <3>2 DEF Slots
  <2>4. m.queue[k] # p
    <3>1. Back(m.latest, p) = MaxNumOfRecords - 1
      BY <1>1, <1>2, <2>3, BackNext
    <3> QED
      BY <1>0, <2>2, <3>1
  <2>5. newAge(k) = ageOf(k) + 1
    <3>1. \A x \in Slots : x # p => Back(p, x) = Back(m.latest, x) + 1
      BY <1>1, <1>2, <2>3, BackNext
    <3> QED
      BY <2>1, <2>4, <3>1
  <2> QED
    BY <1>0, <1>2, <2>1, <2>2, <2>3, <2>4, <2>5
<1>8. Back(p, p) = 0
  BY <1>2, BackInverse
<1>9. \A k \in D : /\ s.records[m.queue[k]].total \in Nat /\ m.records[m.queue[k]].total \in Nat
  BY <1>3, <1>5 DEF Records
<1>10. rec.total \in Nat
  BY DEF Records
<1>11. \A k \in 1 .. keep : s.records[m.queue[k]].total > rec.total
  <2> TAKE k \in 1 .. keep
  <2>1. keep \in D /\ k \in D /\ s.records[m.queue[keep]].total > rec.total
    BY <1>4, <1>5
  <2>2. CASE k = keep
    BY <2>1, <2>2
  <2>3. CASE k # keep
    <3>1. k < keep
      BY <1>5, <2>3
    <3>2. m.records[m.queue[k]].total > m.records[m.queue[keep]].total
      BY <1>6, <2>1, <3>1
    <3>3. s.records[m.queue[k]].total > s.records[m.queue[keep]].total
      BY <1>7, <2>1, <3>2
    <3> QED
      BY <1>9, <1>10, <2>1, <3>3
  <2> QED
    BY <2>2, <2>3
<1>12. Falling(s, u)
  <2>1. \A k \in 1 .. keep + 1 : Back(p, s.queue[k]) <= n
    <3> TAKE k \in 1 .. keep + 1
    <3>1. CASE k \in 1 .. keep
      BY <1>4, <1>5, <1>7, <3>1
    <3>2. CASE k = keep + 1
      BY <1>0, <1>4, <1>8, <3>2
    <3> QED
      BY <1>5, <3>1, <3>2
  <2>2. ASSUME NEW k \in 1 .. keep + 1, NEW l \in 1 .. keep + 1, k < l
        PROVE  /\ Back(p, s.queue[k]) > Back(p, s.queue[l])
               /\ s.records[s.queue[k]].total > s.records[s.queue[l]].total
    <3>1. k \in 1 .. keep /\ k \in D /\ s.queue[k] = m.queue[k]
      BY <1>4, <1>5, <2>2
    <3>2. CASE l \in 1 .. keep
      <4>1. l \in D /\ s.queue[l] = m.queue[l]
        BY <1>4, <1>5, <3>2
      <4>2. ageOf(k) > ageOf(l) /\ m.records[m.queue[k]].total > m.records[m.queue[l]].total
        BY <1>6, <2>2, <3>1, <4>1
      <4>3. newAge(k) = ageOf(k) + 1 /\ newAge(l) = ageOf(l) + 1 /\ newAge(k) \in Int /\ newAge(l) \in Int
        BY <1>7, <3>1, <4>1
      <4>4. ageOf(k) \in Int /\ ageOf(l) \in Int
        BY <1>c, <3>1, <4>1
      <4>5. newAge(k) > newAge(l)
        BY <4>2, <4>3, <4>4
      <4>6. s.records[m.queue[k]].total > s.records[m.queue[l]].total
        BY <1>7, <3>1, <4>1, <4>2
      <4> QED
        BY <3>1, <4>1, <4>5, <4>6
    <3>3. CASE l = keep + 1
      <4>1. s.queue[l] = p /\ Back(p, s.queue[l]) = 0
        BY <1>4, <1>8, <3>3
      <4>2. newAge(k) \in 1 .. n
        BY <1>7, <3>1
      <4>3. newAge(k) > 0
        BY <1>0, <4>2
      <4> QED
        BY <1>2, <1>11, <3>1, <4>1, <4>3
    <3> QED
      BY <1>5, <3>2, <3>3
  <2>3. n <= Len(u) - 1 /\ Len(u) - 1 = n
    BY <1>0
  <2> QED
    BY <1>2, <1>5, <2>1, <2>2, <2>3 DEF Falling
<1>13. Covers(s, u)
  <2> SUFFICES ASSUME NEW a \in 0 .. n
               PROVE  \E k \in DOMAIN s.queue :
                        /\ Back(p, s.queue[k]) <= a
                        /\ s.records[s.queue[k]].total >= s.records[Back(p, a)].total
    <3>1. Len(u) - 1 = n
      BY <1>0
    <3> QED
      BY <1>2, <3>1 DEF Covers
  <2>a. keep + 1 \in DOMAIN s.queue /\ s.queue[keep + 1] = p /\ Back(p, p) <= a
    BY <1>4, <1>5, <1>8
  <2>1. CASE a = 0
    <3>1. Back(p, a) = p
      BY <1>2, <2>1, BackInverse
    <3> QED
      BY <1>2, <1>10, <2>a, <3>1
  <2>2. CASE a # 0
    <3>1. a - 1 \in 0 .. n - 1 /\ a - 1 \in Slots /\ n # 0 /\ a - 1 < MaxNumOfRecords - 1 /\ a \in Nat
      BY <1>0, <2>2 DEF Slots
    <3>2. m.latest \in Slots
      <4>1. m.latest >= 0
        BY <3>1 DEF Ring, n
      <4> QED
        BY <1>3, <4>1 DEF Slots
    <3>3. Back(p, a) = Back(m.latest, a - 1) /\ Back(m.latest, a - 1) \in Slots
          /\ Back(m.latest, a - 1) # p
      <4>1. Back(m.latest, Back(m.latest, a - 1)) = a - 1 /\ Back(m.latest, a - 1) \in Slots
        BY <3>1, <3>2, BackInverse
      <4>2. Back(m.latest, p) = MaxNumOfRecords - 1
        BY <1>1, <1>2, <3>2, BackNext
      <4>3. Back(p, a) = Back(m.latest, a - 1)
        BY <1>0, <1>1, <1>2, <2>2, <3>1, <3>2, RecordsAssumption DEF Back, Slots
      <4> QED
        BY <3>1, <4>1, <4>2, <4>3
    <3>4. PICK k \in D : /\ ageOf(k) <= a - 1
                         /\ m.records[m.queue[k]].total >= m.records[Back(m.latest, a - 1)].total
      BY <1>5, <3>1 DEF Covers, n
    <3>5. s.records[m.queue[k]].total >= s.records[Back(p, a)].total
      BY <1>2, <1>7, <3>3, <3>4
    <3>6. newAge(k) <= a
      <4>1. newAge(k) = ageOf(k) + 1 /\ ageOf(k) \in Int
        BY <1>c, <1>7
      <4> QED
        BY <3>1, <3>4, <4>1
    <3>7. CASE k \in 1 .. keep
      <4>1. k \in DOMAIN s.queue /\ s.queue[k] = m.queue[k]
        BY <1>4, <1>5, <3>7
      <4> QED
        BY <3>5, <3>6, <4>1
    <3>8. CASE k \notin 1 .. keep
      <4>1. k > keep /\ ~(s.records[m.queue[k]].total > rec.total)
        BY <1>4, <1>5, <3>8
      <4>2. s.records[Back(p, a)].total \in Nat
        BY <1>3, <3>3 DEF Records
      <4>3. rec.total >= s.records[Back(p, a)].total
        BY <1>9, <1>10, <3>5, <4>1, <4>2
      <4> QED
        BY <1>2, <2>a, <4>3
    <3> QED
      BY <3>7, <3>8
  <2> QED
    BY <2>1, <2>2
<1> QED
  BY <1>12, <1>13 DEF s, u

-----------------------------------------------------------------------------
(* The intervals of the last three frames                                  *)

\* A frame keeps the sum of the intervals that of the newest frames, when game
\* mode is off, or the sum was right and the interval is one that is counted.
LEMMA StoreTracked ==
    ASSUME NEW m \in Members, NEW w \in Seq(Records), Ring(m, w), Falling(m, w), Covers(m, w),
           NEW rec \in Records, NEW compute \in BOOLEAN,
           ~compute \/ (Tracked(m, w) /\ (m.added \in {0, FpsFrames} \/ rec.start > 0))
    PROVE  Tracked(Store(RemoveOldest(m), rec, compute), Append(Room(w), rec))
<1> DEFINE e == RemoveOldest(m)
           v == Room(w)
           p == (e.latest + 1) % MaxNumOfRecords
           s == Store(e, rec, compute)
           u == Append(v, rec)
           n == Len(w)
           k == Len(u)
<1> SUFFICES Tracked(s, u)
  OBVIOUS
<1>0. MaxNumOfRecords \in Nat /\ MaxNumOfRecords >= 3 /\ n \in Nat /\ n <= MaxNumOfRecords
  BY RecordsAssumption DEF FpsFrames, Ring
<1>1. /\ e \in Members /\ e.records = m.records /\ e.latest = m.latest
      /\ e.added = m.added /\ e.intervals = m.intervals
      /\ e.frames = Len(v) /\ Len(v) < MaxNumOfRecords /\ v \in Seq(Records)
  BY RemoveOldestMembers
<1>2. k = (IF n < MaxNumOfRecords THEN n ELSE n - 1) + 1
  BY <1>0 DEF Room
<1>3. /\ u[k] = rec
      /\ n >= 1 => u[k - 1] = w[n]
      /\ n >= 2 => u[k - 2] = w[n - 1]
  <2>1. CASE n < MaxNumOfRecords
    BY <2>1 DEF Room
  <2>2. CASE n = MaxNumOfRecords
    <3>1. v = Tail(w) /\ w # <<>>
      BY <1>0, <2>2 DEF Room
    <3> QED
      BY <1>0, <2>2, <3>1
  <2> HIDE DEF n, u, k, v
  <2> QED
    BY <1>0, <2>1, <2>2
<1>4. p = IF m.latest = MaxNumOfRecords - 1 THEN 0 ELSE m.latest + 1
  BY <1>1, NextSlot DEF Members
<1>d. k = Len(u)
  OBVIOUS
<1>b. p = (e.latest + 1) % MaxNumOfRecords /\ s = Store(e, rec, compute)
  OBVIOUS
<1> HIDE DEF e, v, p, s, u, n, k
<1>5. /\ p \in Slots
      /\ ~compute => s.intervals = 0 /\ s.added = 0
      /\ (compute /\ m.added < 3 /\ rec.start > 0) =>
                s.intervals = m.intervals + rec.start /\ s.added = m.added + 1
      /\ (compute /\ m.added < 3 /\ ~(rec.start > 0)) =>
                s.intervals = m.intervals /\ s.added = m.added
      /\ (compute /\ m.added = 3) =>
                /\ s.intervals = m.intervals + (rec.start - m.records[(p - FpsFrames) % MaxNumOfRecords].start)
                /\ s.added = 3
  BY <1>1, <1>b, StoreMembers
<1>6. m.added \in 0 .. 3 /\ m.intervals \in Int /\ rec.start \in Int
      /\ \A i \in 1 .. n : w[i].start \in Int
  <2>1. m.added \in 0 .. 3 /\ m.intervals \in Int
    BY DEF Members, FpsFrames
  <2>2. \A i \in 1 .. n : w[i] \in Records
    BY DEF n
  <2> QED
    BY <2>1, <2>2 DEF Records
<1>7. CASE ~compute
  BY <1>0, <1>2, <1>5, <1>7, <1>d DEF Tracked, NewestStarts
<1>8. CASE compute
  <2>1. m.added <= n /\ m.intervals = NewestStarts(w, m.added) /\ (m.added \in {0, 3} \/ rec.start > 0)
    BY <1>8 DEF Tracked, n, FpsFrames
  <2>2. k >= 1 /\ (m.added < 3 => m.added + 1 <= k) /\ (m.added = 3 => 3 <= k)
    BY <1>0, <1>2, <1>6, <2>1
  <2>3. CASE m.added = 0 /\ ~(rec.start > 0)
    <3>1. s.added = 0 /\ s.intervals = 0
      BY <1>5, <1>8, <2>1, <2>3 DEF NewestStarts
    <3> QED
      BY <2>2, <3>1, <1>d DEF Tracked, NewestStarts
  <2>4. CASE m.added = 0 /\ rec.start > 0
    <3>1. s.added = 1 /\ s.intervals = rec.start
      BY <1>5, <1>6, <1>8, <2>1, <2>4 DEF NewestStarts
    <3> QED
      BY <1>3, <2>2, <3>1, <1>d DEF Tracked, NewestStarts
  <2>5. CASE m.added = 1 /\ rec.start > 0
    <3>1. s.added = 2 /\ s.intervals = rec.start + w[n].start
      BY <1>0, <1>5, <1>6, <1>8, <2>1, <2>5 DEF NewestStarts, n
    <3>2. 2 <= k /\ u[k] = rec /\ u[k - 1] = w[n]
      BY <1>3, <2>1, <2>2, <2>5
    <3> QED
      BY <3>1, <3>2, <1>d DEF Tracked, NewestStarts
  <2>6. CASE m.added = 2 /\ rec.start > 0
    <3>1. s.added = 3 /\ s.intervals = rec.start + w[n].start + w[n - 1].start
      <4>1. m.intervals = w[n].start + w[n - 1].start
        BY <2>1, <2>6 DEF NewestStarts, n
      <4>2. w[n].start \in Int /\ w[n - 1].start \in Int
        BY <1>0, <1>6, <2>1, <2>6
      <4> QED
        BY <1>5, <1>6, <1>8, <2>6, <4>1, <4>2
    <3>2. 3 <= k /\ u[k] = rec /\ u[k - 1] = w[n] /\ u[k - 2] = w[n - 1]
      BY <1>0, <1>3, <2>1, <2>2, <2>6
    <3> QED
      BY <3>1, <3>2, <1>d DEF Tracked, NewestStarts
  <2>7. CASE m.added = 3
    <3>1. n >= 3 /\ w # <<>>
      BY <2>1, <2>7 DEF n
    <3>2. m.latest \in Slots
      <4>1. m.latest >= 0 /\ m.latest \in Slots \cup {-1}
        BY <3>1 DEF Ring, Members
      <4> QED
        BY <4>1 DEF Slots
    <3>3. (p - FpsFrames) % MaxNumOfRecords = Back(m.latest, 2)
      <4>1. (p - FpsFrames) % MaxNumOfRecords = IF p >= 3 THEN p - 3 ELSE p - 3 + MaxNumOfRecords
        BY <1>5, OldSlot
      <4> QED
        BY <1>0, <1>4, <3>2, <4>1 DEF Back, Slots
    <3>4. m.records[Back(m.latest, 2)] = w[n - 2]
      BY <3>1 DEF Ring, n
    <3>5. m.intervals = w[n].start + w[n - 1].start + w[n - 2].start
      BY <2>1, <2>7 DEF NewestStarts, n
    <3>6. w[n].start \in Int /\ w[n - 1].start \in Int /\ w[n - 2].start \in Int
      BY <1>0, <1>6, <3>1
    <3>7. s.added = 3 /\ s.intervals = m.intervals + (rec.start - w[n - 2].start)
      BY <1>5, <1>8, <2>7, <3>3, <3>4
    <3>8. s.intervals = rec.start + w[n].start + w[n - 1].start
      BY <1>6, <3>5, <3>6, <3>7
    <3>9. 3 <= k /\ u[k] = rec /\ u[k - 1] = w[n] /\ u[k - 2] = w[n - 1]
      BY <1>0, <1>3, <2>2, <2>7, <3>1
    <3> QED
      BY <3>7, <3>8, <3>9, <1>d DEF Tracked, NewestStarts
  <2> QED
    BY <1>6, <2>1, <2>3, <2>4, <2>5, <2>6, <2>7
<1> QED
  BY <1>7, <1>8

-----------------------------------------------------------------------------
(* The steps                                                               *)

\* Empty records satisfy the invariant of the ring and its queue.
LEMMA EmptyRecords ==
    ASSUME NEW m \in Members, m.frames = 0, m.queue = <<>>
    PROVE  Ring(m, <<>>) /\ Falling(m, <<>>) /\ Covers(m, <<>>) /\ Averaged(m, <<>>)
<1>1. Len(<<>>) = 0 /\ 0 .. 0 - 1 = {}
  OBVIOUS
<1>2. DOMAIN m.queue = {}
  OBVIOUS
<1>3. Ring(m, <<>>)
  BY <1>1, RecordsAssumption DEF Ring
<1> QED
  BY <1>1, <1>2, <1>3 DEF Falling, Covers, Averaged

\* Nothing is counted in an empty history.
LEMMA EmptyFigures ==
    /\ Cardinality(MissedFrames(<<>>)) = 0 /\ Cardinality(JitterFrames(<<>>)) = 0
    /\ SumOf(Totals(<<>>), Len(<<>>)) = 0
<1>1. MissedFrames(<<>>) = {} /\ JitterFrames(<<>>) = {}
  BY DEF MissedFrames, JitterFrames
<1>2. Len(<<>>) = 0 /\ Totals(<<>>) \in [1 .. 0 -> Int]
  BY DEF Totals
<1>3. SumOf(Totals(<<>>), 0) = 0
  BY <1>2, SumOfType
<1> QED
  BY <1>1, <1>2, <1>3, FS_EmptySet

\* The constructor establishes the invariant.
LEMMA RecordsInitInv == RecordsInit => RecordsInv
<1> SUFFICES ASSUME RecordsInit PROVE RecordsInv
  OBVIOUS
<1>1. RecordsTypeOK
  BY RecordsAssumption
  DEF RecordsInit, RecordsTypeOK, Members, Slots, Records, NoRecord, FpsFrames
<1>2. r.frames = 0 /\ r.queue = <<>> /\ r.missed = 0 /\ r.jitters = 0 /\ r.sum = 0
      /\ r.added = 0 /\ r.intervals = 0 /\ window = <<>> /\ carried = 0
  BY DEF RecordsInit
<1>3. r \in Members
  BY <1>1 DEF RecordsTypeOK
<1>4. Ring(r, window) /\ Falling(r, window) /\ Covers(r, window) /\ Averaged(r, window)
  BY <1>2, <1>3, EmptyRecords
<1>5. Counted(r, window, carried)
  BY <1>2, EmptyFigures DEF Counted
<1>6. Tracked(r, window)
  BY <1>2 DEF Tracked, NewestStarts
<1> QED
  BY <1>1, <1>4, <1>5, <1>6 DEF RecordsInv

\* A reset keeps the jitters and the intervals, and the invariant.
LEMMA ResetInv ==
    ASSUME RecordsInv, Reset
    PROVE  RecordsInv'
<1>1. r \in Members /\ carried \in Int /\ clean \in BOOLEAN /\ resets \in 0 .. MaxResets
  BY DEF RecordsInv, RecordsTypeOK
<1>2. r' = [r EXCEPT !.avg = 0, !.latest = -1, !.missed = 0, !.frames = 0, !.sum = 0, !.queue = <<>>]
  BY DEF Reset, resetRecords
<1>3. /\ r' \in Members
      /\ r'.frames = 0 /\ r'.queue = <<>> /\ r'.missed = 0 /\ r'.sum = 0
      /\ r'.jitters = r.jitters /\ r'.added = r.added /\ r'.intervals = r.intervals
  <2>1. <<>> \in Seq(Slots) /\ 0 \in 0 .. MaxNumOfRecords
    BY RecordsAssumption
  <2> DEFINE empty == <<>>
  <2>2. r' = [r EXCEPT !.avg = 0, !.latest = -1, !.missed = 0, !.frames = 0, !.sum = 0, !.queue = empty]
        /\ empty \in Seq(Slots) /\ empty = <<>>
    BY <1>2, <2>1
  <2> HIDE DEF empty
  <2>3. -1 \in Slots \cup {-1} /\ 0 \in Int
    OBVIOUS
  <2>4. /\ r'.frames = 0 /\ r'.queue = empty /\ r'.missed = 0 /\ r'.sum = 0
        /\ r'.jitters = r.jitters /\ r'.added = r.added /\ r'.intervals = r.intervals
    BY <1>1, <2>2 DEF Members
  <2>5. r' \in Members
    BY <1>1, <2>1, <2>2, <2>3 DEF Members
  <2> QED
    BY <2>2, <2>4, <2>5
<1>4. window' = <<>> /\ carried' = r.jitters /\ clean' = (clean /\ r.added = 0)
      /\ resets' = resets + 1 /\ resets < MaxResets
  BY DEF Reset
<1>5. RecordsTypeOK'
  <2>1. r.jitters \in Int
    BY <1>1 DEF Members
  <2>2. resets' \in 0 .. MaxResets
    BY <1>1, <1>4, RecordsAssumption
  <2> QED
    BY <1>3, <1>4, <2>1, <2>2 DEF RecordsTypeOK
<1>6. Ring(r', window') /\ Falling(r', window') /\ Covers(r', window') /\ Averaged(r', window')
  BY <1>3, <1>4, EmptyRecords
<1>7. Counted(r', window', carried')
  <2>1. r.jitters \in Int
    BY <1>1 DEF Members
  <2> QED
    BY <1>3, <1>4, <2>1, EmptyFigures DEF Counted
<1>8. clean' => Tracked(r', window')
  <2> SUFFICES ASSUME clean, r.added = 0 PROVE Tracked(r', window')
    BY <1>4
  <2>1. r'.added = 0 /\ r'.intervals = 0
    BY <1>3 DEF RecordsInv, Tracked, NewestStarts
  <2> QED
    BY <1>4, <2>1 DEF Tracked, NewestStarts
<1> QED
  BY <1>5, <1>6, <1>7, <1>8 DEF RecordsInv

\* A frame of a report keeps the invariant.
LEMMA addReportedDurationsInv ==
    ASSUME RecordsInv, NEW start \in Intervals, NEW total \in FrameDurations,
           NEW limit \in JankLimits, NEW compute \in BOOLEAN,
           addReportedDurations([start |-> start, total |-> total], limit, compute)
    PROVE  RecordsInv'
<1> DEFINE m == RemoveOldest(r)
           f == [start |-> start, total |-> total]
           rec == RecordOf(m, f, limit, compute)
           w == Room(window)
<1>1. /\ r \in Members /\ window \in Seq(Records) /\ carried \in Int /\ clean \in BOOLEAN
      /\ Ring(r, window) /\ Counted(r, window, carried) /\ Falling(r, window) /\ Covers(r, window)
      /\ clean => Tracked(r, window)
  BY DEF RecordsInv, RecordsTypeOK
<1>2. rec \in Records
  BY RecordsAssumption DEF RecordOf, Records, IsJitter
<1>3. /\ m \in Members /\ w \in Seq(Records) /\ Len(w) < MaxNumOfRecords /\ m.frames = Len(w)
  BY <1>1, RemoveOldestMembers
<1>4. Ring(m, w) /\ Counted(m, w, carried) /\ Falling(m, w) /\ Covers(m, w)
  BY <1>1, RemoveOldestRing, RemoveOldestCounted, RemoveOldestQueue
<1>5. Newest(Append(window, rec)) = Append(w, rec)
  <2> HIDE DEF rec
  <2>1. Len(window) <= MaxNumOfRecords /\ MaxNumOfRecords \in Nat /\ MaxNumOfRecords >= 3
    BY <1>1, RecordsAssumption DEF Ring, FpsFrames
  <2>2. CASE Len(window) < MaxNumOfRecords
    BY <1>1, <1>2, <2>1, <2>2 DEF Newest, Room
  <2>3. CASE Len(window) = MaxNumOfRecords
    <3>1. window # <<>> /\ Room(window) = Tail(window) /\ Newest(Append(window, rec)) = Tail(Append(window, rec))
      BY <1>1, <1>2, <2>1, <2>3 DEF Newest, Room
    <3> QED
      BY <1>1, <1>2, <3>1
  <2> QED
    BY <1>1, <2>1, <2>2, <2>3
<1>6. /\ r' = Store(m, rec, compute) /\ window' = Append(w, rec)
      /\ clean' = (~compute \/ (clean /\ (r.added \in {0, FpsFrames} \/ rec.start > 0)))
      /\ carried' = carried /\ resets' = resets
  BY <1>5 DEF addReportedDurations
<1> HIDE DEF m, rec, w
<1>7. r' \in Members
  <2>1. m.frames < MaxNumOfRecords
    BY <1>3
  <2> QED
    BY <1>2, <1>3, <1>6, <2>1, StoreMembers
<1>8. RecordsTypeOK'
  BY <1>1, <1>2, <1>3, <1>6, <1>7 DEF RecordsTypeOK, RecordsInv
<1>9. Ring(r', window') /\ Counted(r', window', carried') /\ Averaged(r', window')
  BY <1>1, <1>2, <1>3, <1>4, <1>6, StoreRing, StoreCounted
<1>10. Falling(r', window') /\ Covers(r', window')
  BY <1>2, <1>3, <1>4, <1>6, StoreQueue
<1>11. clean' => Tracked(r', window')
  <2> SUFFICES ASSUME clean' PROVE Tracked(r', window')
    OBVIOUS
  <2>1. ~compute \/ (Tracked(r, window) /\ (r.added \in {0, FpsFrames} \/ rec.start > 0))
    BY <1>1, <1>6
  <2>2. Tracked(Store(RemoveOldest(r), rec, compute), Append(Room(window), rec))
    BY <1>1, <1>2, <2>1, StoreTracked
  <2> QED
    BY <1>6, <2>2 DEF m, w
<1> QED
  BY <1>8, <1>9, <1>10, <1>11 DEF RecordsInv

\* Every step of the records keeps the invariant.
LEMMA RecordsStepInv == RecordsInv /\ [RecordsNext]_recordsVars => RecordsInv'
<1> SUFFICES ASSUME RecordsInv, [RecordsNext]_recordsVars PROVE RecordsInv'
  OBVIOUS
<1>1. CASE Reset
  BY <1>1, ResetInv
<1>2. CASE \E start \in Intervals, total \in FrameDurations, limit \in JankLimits, compute \in BOOLEAN :
             addReportedDurations([start |-> start, total |-> total], limit, compute)
  BY <1>2, addReportedDurationsInv
<1>3. CASE UNCHANGED recordsVars
  BY <1>3 DEF recordsVars, RecordsInv, RecordsTypeOK, Ring, Counted, Averaged, Falling, Covers, Tracked
<1> QED
  BY <1>1, <1>2, <1>3 DEF RecordsNext
-----------------------------------------------------------------------------
(* What the callers read                                                   *)

\* The front of the queue is the longest frame of the window.
LEMMA InvMax == RecordsInv => MaxRight
<1> SUFFICES ASSUME RecordsInv, window # <<>>
             PROVE  getMaxDuration(r) = Max({window[i].total : i \in DOMAIN window})
  BY DEF MaxRight
<1> DEFINE n == Len(window)
           q == r.queue
           S == {window[i].total : i \in DOMAIN window}
           front == r.records[q[1]].total
<1>1. /\ r \in Members /\ window \in Seq(Records) /\ Ring(r, window) /\ Falling(r, window) /\ Covers(r, window)
  BY DEF RecordsInv, RecordsTypeOK
<1>2. n \in Nat /\ n >= 1 /\ DOMAIN window = 1 .. n /\ n <= MaxNumOfRecords /\ MaxNumOfRecords \in Nat
  BY <1>1, RecordsAssumption DEF Ring
<1>a. \A i \in 1 .. n : window[i] \in Records
  BY <1>1
<1>3. r.latest \in Slots /\ q \in Seq(Slots) /\ r.records \in [Slots -> Records]
  <2>1. r.latest >= 0 /\ r.latest \in Slots \cup {-1}
    BY <1>1 DEF Ring, Members
  <2> QED
    BY <1>1, <2>1 DEF Members, Slots
<1>4. \A a \in 0 .. n - 1 : r.records[Back(r.latest, a)] = window[n - a]
  BY <1>1 DEF Ring
<1>5. q # <<>>
  <2>1. 0 \in 0 .. n - 1
    BY <1>2
  <2> QED
    BY <1>1, <2>1 DEF Covers
<1>6. Len(q) \in Nat /\ DOMAIN q = 1 .. Len(q) /\ 1 \in DOMAIN q /\ Head(q) = q[1]
      /\ \A k \in DOMAIN q : q[k] \in Slots
  BY <1>3, <1>5
<1>7. \A k \in DOMAIN q : r.records[q[k]].total \in Nat
  BY <1>3, <1>6 DEF Records
<1>8. \A k \in DOMAIN q : front >= r.records[q[k]].total
  <2> TAKE k \in DOMAIN q
  <2>1. CASE k = 1
    BY <1>6, <1>7, <2>1
  <2>2. CASE k # 1
    <3>1. 1 < k
      BY <1>6, <2>2
    <3>2. front > r.records[q[k]].total
      BY <1>1, <1>6, <3>1 DEF Falling
    <3> QED
      BY <1>6, <1>7, <3>2
  <2> QED
    BY <2>1, <2>2
<1>9. ASSUME NEW i \in 1 .. n PROVE front >= window[i].total
  <2>1. n - i \in 0 .. n - 1 /\ n - (n - i) = i
    BY <1>2
  <2>2. r.records[Back(r.latest, n - i)] = window[i]
    BY <1>4, <2>1
  <2>3. PICK k \in DOMAIN q : r.records[q[k]].total >= r.records[Back(r.latest, n - i)].total
    BY <1>1, <2>1 DEF Covers
  <2>4. window[i].total \in Nat
    BY <1>a DEF Records
  <2> QED
    BY <1>6, <1>7, <1>8, <2>2, <2>3, <2>4
<1>10. \E i \in 1 .. n : front = window[i].total
  <2> DEFINE a == Back(r.latest, q[1])
  <2>1. a \in Slots /\ Back(r.latest, a) = q[1]
    BY <1>3, <1>6, BackInverse
  <2>2. a <= n - 1
    BY <1>1, <1>6 DEF Falling
  <2>3. a \in 0 .. n - 1 /\ n - a \in 1 .. n
    BY <1>2, <2>1, <2>2 DEF Slots
  <2>4. r.records[q[1]] = window[n - a]
    BY <1>4, <2>1, <2>3
  <2> QED
    BY <2>3, <2>4
<1>11. front \in S /\ \A x \in S : front >= x
  BY <1>2, <1>9, <1>10
<1>12. S \subseteq Nat
  <2>1. \A i \in 1 .. n : window[i].total \in Nat
    BY <1>a DEF Records
  <2> QED
    BY <1>2, <2>1
<1> HIDE DEF S, front
<1>13. Max(S) \in S /\ \A x \in S : Max(S) >= x
  BY <1>11, Zenon DEF Max
<1>14. Max(S) = front
  <2>1. Max(S) \in Nat /\ front \in Nat /\ Max(S) >= front /\ front >= Max(S)
    BY <1>11, <1>12, <1>13
  <2> QED
    BY <2>1
<1>15. getMaxDuration(r) = front
  BY <1>6 DEF getMaxDuration, front
<1> QED
  BY <1>14, <1>15 DEF S

\* The figures that are read are those of the window.
LEMMA InvCounters == RecordsInv => CountersRight
<1> SUFFICES ASSUME RecordsInv PROVE CountersRight
  OBVIOUS
<1> DEFINE n == Len(window)
           l == r.latest
<1>1. /\ r \in Members /\ window \in Seq(Records) /\ Ring(r, window) /\ Counted(r, window, carried)
      /\ Averaged(r, window)
  BY DEF RecordsInv, RecordsTypeOK
<1>2. n \in Nat /\ r.frames = n /\ n <= MaxNumOfRecords /\ MaxNumOfRecords \in Nat /\ MaxNumOfRecords >= 3
      /\ DOMAIN window = 1 .. n
  BY <1>1, RecordsAssumption DEF Ring, FpsFrames
<1>3. ASSUME n >= 3
      PROVE  isLowFrameRate(r) <=> \A i \in Recent(window, 3) : window[i].start >= LowRate
  <2>1. l \in Slots
    <3>1. window # <<>>
      BY <1>2, <1>3
    <3>2. l >= 0 /\ l \in Slots \cup {-1}
      BY <1>1, <3>1 DEF Ring, Members
    <3> QED
      BY <3>2 DEF Slots
  <2> DEFINE before(i) == IF i = 0 THEN MaxNumOfRecords - 1 ELSE i - 1
  <2>2. l = Back(l, 0) /\ before(l) = Back(l, 1) /\ before(before(l)) = Back(l, 2)
    BY <1>2, <2>1 DEF Back, Slots
  <2>3. r.records[l] = window[n] /\ r.records[before(l)] = window[n - 1]
        /\ r.records[before(before(l))] = window[n - 2]
    <3>1. \A k \in 0 .. n - 1 : r.records[Back(l, k)] = window[n - k]
      BY <1>1 DEF Ring
    <3>2. r.records[Back(l, 0)] = window[n - 0] /\ r.records[Back(l, 1)] = window[n - 1]
          /\ r.records[Back(l, 2)] = window[n - 2] /\ n - 0 = n
      BY <1>2, <1>3, <3>1
    <3> HIDE DEF before
    <3> QED
      BY <2>2, <3>2
  <2>4. isLowFrameRate(r) <=> \A i \in {l, before(l), before(before(l))} : r.records[i].start >= LowRate
    BY <1>2, <1>3 DEF isLowFrameRate
  <2> HIDE DEF before
  <2>5. isLowFrameRate(r) <=> /\ window[n].start >= LowRate /\ window[n - 1].start >= LowRate
                              /\ window[n - 2].start >= LowRate
    BY <2>3, <2>4
  <2>6. Recent(window, 3) = {n, n - 1, n - 2}
    BY <1>2, <1>3 DEF Recent
  <2> QED
    BY <2>5, <2>6
<1>4. isLowFrameRate(r) => n >= 3
  BY <1>2 DEF isLowFrameRate
<1> QED
  BY <1>1, <1>2, <1>3, <1>4 DEF CountersRight, Counted, Averaged

\* Once there are three intervals in the sum, they are those of the last three.
LEMMA InvFps == RecordsInv => FpsSumRight
BY DEF RecordsInv, FpsSumRight, Tracked, NewestStarts, FpsFrames

-----------------------------------------------------------------------------

\* The records are well formed, for every size of the ring, every stream of
\* frames and every reset: the ring and the queue never name a slot that does
\* not exist.
THEOREM RecordsTypeCorrect == RecordsSpec => []RecordsTypeOK
<1>1. RecordsInv => RecordsTypeOK
  BY DEF RecordsInv
<1> QED
  BY <1>1, RecordsInitInv, RecordsStepInv, PTL DEF RecordsSpec

\* getMaxDuration is the longest frame of the window.
THEOREM MaxSafe == RecordsSpec => []MaxRight
BY InvMax, RecordsInitInv, RecordsStepInv, PTL DEF RecordsSpec

\* The figures that are adjusted frame by frame are those of the window.
THEOREM CountersSafe == RecordsSpec => []CountersRight
BY InvCounters, RecordsInitInv, RecordsStepInv, PTL DEF RecordsSpec

\* The divisor of getLatestFPS is the distance of the last three frames.
THEOREM FpsSumSafe == RecordsSpec => []FpsSumRight
BY InvFps, RecordsInitInv, RecordsStepInv, PTL DEF RecordsSpec

=============================================================================
