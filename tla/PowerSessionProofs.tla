------------------------- MODULE PowerSessionProofs -------------------------
(***************************************************************************)
(* Hint sessions, proved for every set of sessions, threads and callers.   *)
(* First SessionTaskMap on its own: its two directions stay consistent.    *)
(* Then PowerSession: its type, the consistency of the map under all its   *)
(* interleavings, that no thread keeps a boost nobody votes for, that a    *)
(* thread that leaves the map is released, and that the calls go through   *)
(* the timeout protocol of VoteTimeouts, whose theorems then hold here.    *)
(***************************************************************************)
EXTENDS PowerSession, SequenceTheorems, FiniteSetTheorems, TLAPS

-----------------------------------------------------------------------------
(* SessionTaskMap.  MapTypeOK and Consistent together are inductive:       *)
(* LinksAgree makes the multiplicity that remove erases on the tasks' side *)
(* exactly the one the session lists, and NoEmptyEntry then follows from   *)
(* the definition of the keys.                                             *)

MapInv == MapTypeOK /\ Consistent

\* Erasing occurrences of one session from the tasks' lists touches no other
\* session and never makes a count negative.
LEMMA TasksWithoutValue ==
    ASSUME MapTypeOK, NEW s \in Sessions, NEW gone \in TaskBag
    PROVE  /\ TasksWithout(s, gone) \in [Tids -> [Sessions -> Nat]]
           /\ \A t \in Tids, x \in Sessions :
                 TasksWithout(s, gone)[t][x] =
                    IF x = s THEN Monus(mTasks[t][s], gone[t]) ELSE mTasks[t][x]
<1>1. \A t \in Tids : gone[t] \in Nat /\ mTasks[t] \in [Sessions -> Nat]
  BY DEF MapTypeOK, TaskBag
<1>2. \A t \in Tids : Monus(mTasks[t][s], gone[t]) \in Nat
  BY <1>1 DEF Monus
<1> QED
  BY <1>1, <1>2 DEF TasksWithout

\* The keys that survive the erasure are the tasks that some session still
\* lists, when the links agreed before and gone is part of what s listed.
LEMMA KeysWithoutValue ==
    ASSUME MapInv, NEW s \in Sessions, NEW gone \in TaskBag,
           \A t \in Tids : gone[t] = linkedTasks[s][t] \/ gone[t] = 0
    PROVE  \A t \in Tids : t \in KeysWithout(s, gone) <=>
                           \E x \in Sessions : TasksWithout(s, gone)[t][x] > 0
<1> SUFFICES ASSUME NEW t \in Tids
             PROVE  t \in KeysWithout(s, gone) <=>
                    \E x \in Sessions : TasksWithout(s, gone)[t][x] > 0
  OBVIOUS
<1>1. /\ t \in taskKeys <=> \E x \in Sessions : mTasks[t][x] > 0
      /\ linkedTasks[s][t] = mTasks[t][s]
      /\ \A x \in Sessions : mTasks[t][x] \in Nat
  BY DEF MapInv, MapTypeOK, Consistent, LinksAgree, NoEmptyEntry
<1>2. \A x \in Sessions : TasksWithout(s, gone)[t][x] =
            IF x = s THEN Monus(mTasks[t][s], gone[t]) ELSE mTasks[t][x]
  BY TasksWithoutValue DEF MapInv
<1>3. CASE gone[t] = 0
  <2>1. Monus(mTasks[t][s], gone[t]) = mTasks[t][s]
    BY <1>1, <1>3 DEF Monus
  <2>2. \A x \in Sessions : TasksWithout(s, gone)[t][x] = mTasks[t][x]
    BY <1>2, <2>1
  <2> QED
    BY <1>1, <1>3, <2>2 DEF KeysWithout
<1>4. CASE gone[t] # 0
  <2>1. gone[t] = mTasks[t][s]
    BY <1>1, <1>4
  <2>2. \A x \in Sessions : TasksWithout(s, gone)[t][x] > 0 => mTasks[t][x] > 0
    BY <1>1, <1>2, <2>1 DEF Monus
  <2> QED
    BY <1>1, <1>4, <2>1, <2>2 DEF KeysWithout
<1> QED
  BY <1>3, <1>4

\* The dead occurrences are all or none of those the session lists.
LEMMA DeadLinksValue ==
    ASSUME MapInv, NEW s \in Sessions, NEW dead \in SUBSET Tids
    PROVE  /\ DeadLinks(s, dead) \in TaskBag
           /\ \A t \in Tids : \/ DeadLinks(s, dead)[t] = linkedTasks[s][t]
                              \/ DeadLinks(s, dead)[t] = 0
           /\ \A t \in Tids : DeadLinks(s, dead)[t] =
                              IF t \in dead THEN linkedTasks[s][t] ELSE 0
  BY DEF DeadLinks, MapInv, MapTypeOK, TaskBag

\* The empty map is consistent.
LEMMA InitConsistent == MapInit => MapInv
  BY DEF MapInit, MapInv, MapTypeOK, Consistent, LinksAgree, NoEmptyEntry, NoTasks, TaskBag

\* add of a session that is not in the map keeps the map consistent.
LEMMA AddConsistent ==
    ASSUME MapInv, NEW s \in Sessions, NEW taskIds \in TaskBag, add(s, taskIds)
    PROVE  MapInv'
<1>1. \A t \in Tids : taskIds[t] \in Nat /\ mTasks[t] \in [Sessions -> Nat]
  BY DEF MapInv, MapTypeOK, TaskBag
<1>2. \A t \in Tids, x \in Sessions :
         mTasks'[t][x] = IF x = s THEN mTasks[t][s] + taskIds[t] ELSE mTasks[t][x]
  BY <1>1 DEF add
<1>3. \A x \in Sessions : linkedTasks'[x] = IF x = s THEN taskIds ELSE linkedTasks[x]
  BY DEF add, MapInv, MapTypeOK
<1>4. MapTypeOK'
  BY <1>1 DEF add, MapInv, MapTypeOK
<1>5. LinksAgree'
  <2> SUFFICES ASSUME NEW x \in Sessions, NEW t \in Tids
               PROVE  /\ linkedTasks'[x][t] = mTasks'[t][x]
                      /\ x \notin mSessions' => linkedTasks'[x][t] = 0
    BY DEF LinksAgree
  <2>1. s \notin mSessions /\ mTasks[t][s] = 0 /\ linkedTasks[x][t] = mTasks[t][x]
    BY DEF add, MapInv, Consistent, LinksAgree
  <2>2. x \notin mSessions => linkedTasks[x][t] = 0
    BY DEF MapInv, Consistent, LinksAgree
  <2> QED
    BY <1>1, <1>2, <1>3, <2>1, <2>2 DEF add
<1>6. NoEmptyEntry'
  <2> SUFFICES ASSUME NEW t \in Tids
               PROVE  t \in taskKeys' <=> \E x \in Sessions : mTasks'[t][x] > 0
    BY DEF NoEmptyEntry
  <2>1. t \in taskKeys <=> \E x \in Sessions : mTasks[t][x] > 0
    BY DEF MapInv, Consistent, NoEmptyEntry
  <2>2. t \in taskKeys' <=> t \in taskKeys \/ taskIds[t] > 0
    BY DEF add
  <2>3. \A x \in Sessions : mTasks[t][x] \in Nat
    BY <1>1
  <2> QED
    BY <1>1, <1>2, <2>1, <2>2, <2>3
<1> QED
  BY <1>4, <1>5, <1>6 DEF MapInv, Consistent

\* remove erases exactly the session's occurrences in the lists of its tasks.
LEMMA RemoveConsistent ==
    ASSUME MapInv, NEW s \in Sessions, remove(s)
    PROVE  MapInv'
<1>1. linkedTasks[s] \in TaskBag
  BY DEF MapInv, MapTypeOK
<1>2. \A t \in Tids, x \in Sessions :
         mTasks'[t][x] = IF x = s THEN Monus(mTasks[t][s], linkedTasks[s][t])
                                  ELSE mTasks[t][x]
  BY <1>1, TasksWithoutValue DEF remove, MapInv
<1>3. \A x \in Sessions : linkedTasks'[x] = IF x = s THEN NoTasks ELSE linkedTasks[x]
  BY DEF remove, MapInv, MapTypeOK
<1>4. MapTypeOK'
  <2>1. mTasks' \in [Tids -> [Sessions -> Nat]]
    BY <1>1, TasksWithoutValue DEF remove, MapInv
  <2> QED
    BY <2>1 DEF remove, MapInv, MapTypeOK, KeysWithout, TaskBag, NoTasks
<1>5. LinksAgree'
  <2> SUFFICES ASSUME NEW x \in Sessions, NEW t \in Tids
               PROVE  /\ linkedTasks'[x][t] = mTasks'[t][x]
                      /\ x \notin mSessions' => linkedTasks'[x][t] = 0
    BY DEF LinksAgree
  <2>1. /\ linkedTasks[x][t] = mTasks[t][x] /\ linkedTasks[s][t] = mTasks[t][s]
        /\ mTasks[t][s] \in Nat
        /\ x \notin mSessions => linkedTasks[x][t] = 0
    BY DEF MapInv, MapTypeOK, Consistent, LinksAgree
  <2> QED
    BY <1>2, <1>3, <2>1 DEF remove, Monus, NoTasks
<1>6. NoEmptyEntry'
  BY <1>1, KeysWithoutValue DEF remove, NoEmptyEntry
<1> QED
  BY <1>4, <1>5, <1>6 DEF MapInv, Consistent

\* replace erases the old links and enters the new ones.
LEMMA ReplaceConsistent ==
    ASSUME MapInv, NEW s \in Sessions, NEW taskIds \in TaskBag, replace(s, taskIds)
    PROVE  MapInv'
<1> DEFINE W == TasksWithout(s, linkedTasks[s])
<1>1. linkedTasks[s] \in TaskBag /\ \A t \in Tids : taskIds[t] \in Nat
  BY DEF MapInv, MapTypeOK, TaskBag
<1>2. W \in [Tids -> [Sessions -> Nat]]
  BY <1>1, TasksWithoutValue DEF MapInv
<1>3. \A t \in Tids, x \in Sessions : W[t][x] = IF x = s THEN 0 ELSE mTasks[t][x]
  <2> SUFFICES ASSUME NEW t \in Tids, NEW x \in Sessions
               PROVE  W[t][x] = IF x = s THEN 0 ELSE mTasks[t][x]
    OBVIOUS
  <2>1. W[t][x] = IF x = s THEN Monus(mTasks[t][s], linkedTasks[s][t]) ELSE mTasks[t][x]
    BY <1>1, TasksWithoutValue DEF MapInv
  <2>2. linkedTasks[s][t] = mTasks[t][s] /\ mTasks[t][s] \in Nat
    BY DEF MapInv, MapTypeOK, Consistent, LinksAgree
  <2> QED
    BY <2>1, <2>2 DEF Monus
<1>4. mTasks' = [t \in Tids |-> [W[t] EXCEPT ![s] = @ + taskIds[t]]]
  BY DEF replace
<1> HIDE DEF W
<1>5. \A t \in Tids, x \in Sessions :
         mTasks'[t][x] = IF x = s THEN taskIds[t] ELSE mTasks[t][x]
  BY <1>1, <1>2, <1>3, <1>4
<1>6. \A x \in Sessions : linkedTasks'[x] = IF x = s THEN taskIds ELSE linkedTasks[x]
  BY DEF replace, MapInv, MapTypeOK
<1>7. MapTypeOK'
  <2>1. mTasks' \in [Tids -> [Sessions -> Nat]]
    BY <1>1, <1>2, <1>4
  <2> QED
    BY <2>1 DEF replace, MapInv, MapTypeOK, KeysWithout
<1>8. LinksAgree'
  <2> SUFFICES ASSUME NEW x \in Sessions, NEW t \in Tids
               PROVE  /\ linkedTasks'[x][t] = mTasks'[t][x]
                      /\ x \notin mSessions' => linkedTasks'[x][t] = 0
    BY DEF LinksAgree
  <2>1. /\ linkedTasks[x][t] = mTasks[t][x]
        /\ x \notin mSessions => linkedTasks[x][t] = 0
    BY DEF MapInv, Consistent, LinksAgree
  <2> QED
    BY <1>5, <1>6, <2>1 DEF replace
<1>9. NoEmptyEntry'
  <2> SUFFICES ASSUME NEW t \in Tids
               PROVE  t \in taskKeys' <=> \E x \in Sessions : mTasks'[t][x] > 0
    BY DEF NoEmptyEntry
  <2>1. t \in KeysWithout(s, linkedTasks[s]) <=> \E x \in Sessions : W[t][x] > 0
    BY <1>1, KeysWithoutValue DEF W
  <2>2. t \in taskKeys' <=> t \in KeysWithout(s, linkedTasks[s]) \/ taskIds[t] > 0
    BY DEF replace
  <2> QED
    BY <1>1, <1>3, <1>5, <2>1, <2>2
<1> QED
  BY <1>7, <1>8, <1>9 DEF MapInv, Consistent

\* Forgetting dead threads erases their links in both directions.
LEMMA DropDeadConsistent ==
    ASSUME MapInv, NEW s \in Sessions, NEW dead \in SUBSET Tids, dropDeadThreads(s, dead)
    PROVE  MapInv'
<1> DEFINE gone == DeadLinks(s, dead)
<1>1. /\ gone \in TaskBag
      /\ \A t \in Tids : gone[t] = linkedTasks[s][t] \/ gone[t] = 0
      /\ \A t \in Tids : gone[t] = IF t \in dead THEN linkedTasks[s][t] ELSE 0
  BY DeadLinksValue
<1>2. mTasks' = TasksWithout(s, gone) /\ taskKeys' = KeysWithout(s, gone)
  BY DEF dropDeadThreads
<1> HIDE DEF gone
<1>3. \A t \in Tids, x \in Sessions :
         mTasks'[t][x] = IF x = s THEN Monus(mTasks[t][s], gone[t]) ELSE mTasks[t][x]
  BY <1>1, <1>2, TasksWithoutValue DEF MapInv
<1>4. \A x \in Sessions, t \in Tids :
         linkedTasks'[x][t] = IF x = s /\ t \in dead THEN 0 ELSE linkedTasks[x][t]
  BY DEF dropDeadThreads, MapInv, MapTypeOK, TaskBag
<1>5. MapTypeOK'
  <2>1. mTasks' \in [Tids -> [Sessions -> Nat]]
    BY <1>1, <1>2, TasksWithoutValue DEF MapInv
  <2>2. linkedTasks' \in [Sessions -> TaskBag]
    BY DEF dropDeadThreads, MapInv, MapTypeOK, TaskBag
  <2> QED
    BY <1>2, <2>1, <2>2 DEF dropDeadThreads, MapInv, MapTypeOK, KeysWithout
<1>6. LinksAgree'
  <2> SUFFICES ASSUME NEW x \in Sessions, NEW t \in Tids
               PROVE  /\ linkedTasks'[x][t] = mTasks'[t][x]
                      /\ x \notin mSessions' => linkedTasks'[x][t] = 0
    BY DEF LinksAgree
  <2>1. /\ linkedTasks[x][t] = mTasks[t][x] /\ linkedTasks[s][t] = mTasks[t][s]
        /\ mTasks[t][s] \in Nat
        /\ x \notin mSessions => linkedTasks[x][t] = 0
    BY DEF MapInv, MapTypeOK, Consistent, LinksAgree
  <2> QED
    BY <1>1, <1>3, <1>4, <2>1 DEF dropDeadThreads, Monus
<1>7. NoEmptyEntry'
  BY <1>1, <1>2, KeysWithoutValue DEF NoEmptyEntry
<1> QED
  BY <1>5, <1>6, <1>7 DEF MapInv, Consistent

\* SessionTaskMap keeps both directions of the map consistent: a session lists
\* a thread as often as the thread lists the session, and a thread has an entry
\* exactly while a session lists it.
THEOREM MapStaysConsistent == MapSpec => []Consistent
<1>1. MapInit => MapInv
  BY InitConsistent
<1>2. MapInv /\ [MapNext]_mapVars => MapInv'
  <2> SUFFICES ASSUME MapInv, [MapNext]_mapVars PROVE MapInv'
    OBVIOUS
  <2>1. CASE UNCHANGED mapVars
    BY <2>1 DEF mapVars, MapInv, MapTypeOK, Consistent, LinksAgree, NoEmptyEntry
  <2>2. CASE MapNext
    BY <2>2, AddConsistent, RemoveConsistent, ReplaceConsistent, DropDeadConsistent DEF MapNext
  <2> QED
    BY <2>1, <2>2
<1>3. MapInv => Consistent
  BY DEF MapInv
<1> QED
  BY <1>1, <1>2, <1>3, PTL DEF MapSpec

-----------------------------------------------------------------------------
(* The greatest of finitely many numbers.                                  *)

\* Every nonempty set of natural numbers has a least element.
LEMMA LeastNumber ==
    ASSUME NEW S \in SUBSET Nat, S # {}
    PROVE  \E m \in S : \A n \in S : m <= n
<1> DEFINE R == OpToRel(<, Nat)
<1>1. IsWellFoundedOn(R, Nat)
  BY NatLessThanWellFounded, Zenon
<1>2. \A n, m \in Nat : n < m => <<n, m>> \in R
  BY DEF OpToRel
<1> HIDE DEF R
<1>3. PICK m \in S : \A n \in S : ~(<<n, m>> \in R)
  BY <1>1, WFMin, Zenon
<1>4. \A n \in S : ~(n < m)
  BY <1>2, <1>3
<1>5. \A n \in S : m <= n
  BY <1>4
<1> QED
  BY <1>5

\* Finitely many natural numbers have an upper bound.
LEMMA UpperBound ==
    ASSUME NEW S, IsFiniteSet(S), NEW f \in [S -> Nat]
    PROVE  \E b \in Nat : \A x \in S : f[x] <= b
<1>1. PICK n \in Nat : ExistsSurjection(1 .. n, S)
  BY FS_NatSurjection
<1>2. PICK g \in [1 .. n -> S] : \A x \in S : \E i \in 1 .. n : g[i] = x
  BY <1>1 DEF ExistsSurjection, Surjection
<1> DEFINE h == [i \in 1 .. n |-> f[g[i]]]
           Low == {m \in 0 .. n : \E b \in Nat : \A i \in 1 .. m : h[i] <= b}
           Free == (0 .. n) \ Low
<1>3. h \in [1 .. n -> Nat] /\ \A i \in 1 .. n : h[i] = f[g[i]]
  BY <1>2
<1> HIDE DEF h
<1>4. 0 \in Low
  <2>1. \A i \in 1 .. 0 : h[i] <= 0
    OBVIOUS
  <2> QED
    BY <2>1
<1>5. ASSUME NEW m \in 1 .. n, m - 1 \in Low PROVE m \in Low
  <2>1. PICK b \in Nat : \A i \in 1 .. m - 1 : h[i] <= b
    BY <1>5
  <2>2. h[m] \in Nat /\ b + h[m] \in Nat
    BY <1>3
  <2>3. ASSUME NEW i \in 1 .. m PROVE h[i] <= b + h[m]
    <3>1. h[i] \in Nat
      BY <1>3
    <3>2. CASE i = m
      BY <2>2, <3>2
    <3>3. CASE i # m
      <4>1. h[i] <= b
        BY <2>1, <3>3
      <4> QED
        BY <2>2, <3>1, <4>1
    <3> QED
      BY <3>2, <3>3
  <2>4. \A i \in 1 .. m : h[i] <= b + h[m]
    BY <2>3
  <2> DEFINE c == b + h[m]
  <2> HIDE DEF c
  <2>5. c \in Nat /\ \A i \in 1 .. m : h[i] <= c
    BY <2>2, <2>4 DEF c
  <2>6. m \in 0 .. n
    OBVIOUS
  <2> QED
    BY <2>5, <2>6, Zenon
<1>6. n \in Low => \E b \in Nat : \A i \in 1 .. n : h[i] <= b
  OBVIOUS
<1> HIDE DEF Low
<1>7. Free = {}
  <2> SUFFICES ASSUME Free # {} PROVE FALSE
    OBVIOUS
  <2>1. PICK m \in Free : \A k \in Free : m <= k
    <3>1. Free \in SUBSET Nat
      OBVIOUS
    <3> HIDE DEF Free
    <3> QED
      BY <3>1, LeastNumber
  <2>2. m \in 1 .. n
    BY <1>4, <2>1
  <2>3. m - 1 \in 0 .. n /\ m - 1 \notin Free
    BY <2>1, <2>2
  <2> QED
    BY <1>5, <2>1, <2>2, <2>3
<1>8. PICK b \in Nat : \A i \in 1 .. n : h[i] <= b
  <2>1. n \in Low
    BY <1>7
  <2> QED
    BY <1>6, <2>1
<1>9. \A x \in S : f[x] <= b
  BY <1>2, <1>3, <1>8
<1> QED
  BY <1>9

\* V holds zero and the values of f on the finite set S.
ImageOf(V, S, f) == IsFiniteSet(S) /\ f \in [S -> Nat] /\ V = {0} \cup {f[x] : x \in S}

\* Max, over zero and the values of a function on a finite set, is one of them
\* and no smaller than any.
LEMMA MaxOfImage ==
    ASSUME NEW S, NEW f, NEW V, ImageOf(V, S, f)
    PROVE  /\ Max(V) \in V /\ Max(V) \in Nat
           /\ \A x \in S : f[x] <= Max(V)
<1>0. IsFiniteSet(S) /\ f \in [S -> Nat] /\ V = {0} \cup {f[x] : x \in S}
  BY DEF ImageOf
<1>1. PICK b \in Nat : \A x \in S : f[x] <= b
  BY <1>0, UpperBound
<1> DEFINE U == {u \in Nat : \A y \in V : y <= u}
<1>2. V \subseteq Nat /\ 0 \in V
  BY <1>0
<1>3. b \in U
  BY <1>0, <1>1
<1>4. PICK u \in U : \A w \in U : u <= w
  <2>1. U \in SUBSET Nat /\ U # {}
    BY <1>3
  <2> HIDE DEF U
  <2> QED
    BY <2>1, LeastNumber
<1>5. u \in V
  <2> SUFFICES ASSUME u \notin V PROVE FALSE
    OBVIOUS
  <2>1. u # 0
    BY <1>2
  <2>2. \A y \in V : y <= u - 1
    BY <1>2, <1>4
  <2>3. u - 1 \in U
    BY <1>4, <2>1, <2>2
  <2> QED
    BY <1>4, <2>3
<1>6. \A y \in V : u >= y
  BY <1>2, <1>4
<1>7. Max(V) \in V /\ \A y \in V : Max(V) >= y
  <2> HIDE DEF U
  <2> QED
    BY <1>5, <1>6 DEF Max
<1> QED
  BY <1>0, <1>2, <1>7

-----------------------------------------------------------------------------
(* The inductive invariant.                                                *)

\* A thread has steps to take exactly while it is on a session, and no two
\* callers are on one session: mPowerHintSessionLock.
Locks ==
    /\ \A a \in Threads : act[a].todo = <<>> <=> act[a].sid = None
    /\ \A c, d \in Callers : act[c].sid = act[d].sid => c = d \/ act[c].sid = None

\* The steps that change the threads of the session, and the steps that may
\* come before one of them.
Leaves == {"replace", "remove"}
Quiet(k) == \/ k.op \in {"add", "apply", "ubRead", "ubDo"}
            \/ k.op = "force" /\ k.flag = FALSE

\* The order of the steps of a call: a session is switched off before its
\* threads change, and a vote that ends boosts is followed by one that applies.
ListOK(q, stamp) ==
    \A i \in 1 .. Len(q) :
        /\ q[i].op # "timeout"
        /\ q[i].op = "setProfile" => i = 1
        /\ q[i].op = "add" => i = 1 /\ 2 <= Len(q) /\ q[2].op = "force"
        /\ q[i].op = "schedule" => i = 1 /\ stamp # NoStamp
        /\ q[i].op = "remove" => i = Len(q)
        /\ q[i].op \in Leaves => \A j \in 1 .. i - 1 : Quiet(q[j])
        /\ q[i].op = "disableBoosts" =>
              \E j \in i + 1 .. Len(q) : q[j].op = "vote" /\ q[j].vid = "CPU_VOTE_DEFAULT"

HandlerListOK(q, stamp) ==
    \A i \in 1 .. Len(q) :
        /\ q[i].op \in {"timeout", "apply", "ubRead", "ubDo"}
        /\ q[i].op = "timeout" => Len(q) = 1 /\ stamp # NoStamp

Lists ==
    /\ \A c \in Callers : ListOK(act[c].todo, act[c].stamp)
    /\ HandlerListOK(act[Handler].todo, act[Handler].stamp)

\* What the steps of a call need of its session.
CallMembership(s, q) ==
    \A i \in 1 .. Len(q) :
        /\ q[i].op = "add" => state[s] = "open" /\ s \notin mSessions
        /\ q[i].op = "remove" => state[s] = "closed" /\ s \in mSessions
        /\ q[i].op \in {"target", "disableBoosts"} => s \in mSessions

\* The session will still be added.
WillAdd(q) == \E i \in 1 .. Len(q) : q[i].op = "add"

\* A session has an entry exactly while it is open, but for the call that adds
\* it and the call that removes it; without the entry it has no votes.
SessionMembership(s) ==
    /\ state[s] = "new" => s \notin mSessions
    /\ state[s] # "new" => targetNs[s] \in Targets
    /\ state[s] = "open" /\ s \notin mSessions =>
          \E c \in Callers : act[c].sid = s /\ WillAdd(act[c].todo)
    /\ s \notin mSessions => votes[s] = NoVotes /\ ~isActive[s]

Membership ==
    /\ \A c \in Callers : CallMembership(act[c].sid, act[c].todo)
    /\ \A s \in Sessions : SessionMembership(s)

\* Only levels are voted for.
VoteLevels ==
    \A s \in Sessions, v \in VoteIds : votes[s][v].val \in Levels \cup {0}

\* The threads of the session change before any step of K.
Leaving(q, K) ==
    \E r \in 1 .. Len(q) : /\ q[r].op \in Leaves
                           /\ \A j \in 1 .. r - 1 : q[j].op \notin K

\* A session whose threads change next was switched off.
Inactive == \A c \in Callers : Leaving(act[c].todo, {"force"}) => ~isActive[act[c].sid]

\* The session was switched off and that was applied to its threads.
Settled(s) ==
    \E c \in Callers : act[c].sid = s /\ Leaving(act[c].todo, {"force", "apply"})

Applies(k) == k.op = "apply" \/ (k.op = "vote" /\ k.vid \in CpuVoteIds)

\* The uclamp of the session's threads is set anew before its threads change.
WillApply(q) ==
    \E i \in 1 .. Len(q) : /\ Applies(q[i])
                           /\ \A j \in 1 .. i - 1 : q[j].op \notin Leaves

\* No active vote accounts for the uclamp of t.
Unjustified(t) ==
    /\ uclamp[t] > 0
    /\ \A x \in mSessions, v \in CpuVoteIds :
          mTasks[t][x] > 0 /\ isActive[x] /\ votes[x][v].active => votes[x][v].val < uclamp[t]

\* A thread about to set the uclamp of t anew, in time.
Refresher(a, t) ==
    /\ WillApply(act[a].todo)
    /\ act[a].sid \in Sessions /\ linkedTasks[act[a].sid][t] > 0
    /\ ~Settled(act[a].sid)

Refreshed == \A t \in alive : Unjustified(t) => \E a \in Threads : Refresher(a, t)

\* A profile is only set on threads the session contains, and a thread that no
\* session contains keeps it only until it is cleared.
Profiles ==
    /\ \A c \in Callers : \A i \in 1 .. Len(act[c].todo) :
          act[c].todo[i].op = "setProfile" =>
              \A t \in act[c].todo[i].tids \cap alive : linkedTasks[act[c].sid][t] > 0
    /\ \A t \in (alive \cap qos) \ taskKeys : ProfileClearPending(t)

PSInv ==
    /\ TypeOK /\ Consistent /\ Locks /\ Lists /\ Membership /\ VoteLevels
    /\ Inactive /\ Refreshed /\ Profiles

-----------------------------------------------------------------------------
(* Steps and lists of steps.                                               *)

OpNames == {"add", "remove", "apply", "ubRead", "ubDo", "disableBoosts", "force", "setActive",
            "replace", "setProfile", "clearProfile", "vote", "schedule", "target", "timeout"}

\* The fields of each step.
LEMMA StepFields ==
    \A k \in Steps :
        /\ k.op \in OpNames
        /\ k.op \in {"force", "setActive"} => k.flag \in BOOLEAN
        /\ k.op = "replace" => k.tids \in TaskBag
        /\ k.op \in {"setProfile", "clearProfile"} => k.tids \in SUBSET Tids
        /\ k.op \in {"vote", "schedule"} =>
              k.vid \in VoteIds /\ k.val \in Levels /\ k.dur \in Durations
        /\ k.op = "target" => k.dur \in Durations
        /\ k.op = "timeout" => k.vid \in VoteIds /\ k.deadline \in Nat
  BY DEF Steps, OpNames

\* Every step that is written is one of Steps.
LEMMA StepsWritten ==
    /\ \A op \in {"add", "remove", "apply", "ubRead", "ubDo", "disableBoosts"} :
          [op |-> op] \in Steps
    /\ \A flag \in BOOLEAN, op \in {"force", "setActive"} : [op |-> op, flag |-> flag] \in Steps
    /\ \A tids \in TaskBag : [op |-> "replace", tids |-> tids] \in Steps
    /\ \A tids \in SUBSET Tids, op \in {"setProfile", "clearProfile"} :
          [op |-> op, tids |-> tids] \in Steps
    /\ \A v \in VoteIds, val \in Levels, dur \in Durations :
          [op |-> "vote", vid |-> v, val |-> val, dur |-> dur] \in Steps
    /\ \A dur \in Durations : [op |-> "target", dur |-> dur] \in Steps
    /\ \A v \in VoteIds, n \in Nat : [op |-> "timeout", vid |-> v, deadline |-> n] \in Steps
    /\ \A k \in Steps : k.op = "vote" =>
          /\ [k EXCEPT !.op = "schedule"] \in Steps
          /\ [k EXCEPT !.op = "schedule"].op = "schedule"
          /\ [k EXCEPT !.op = "schedule"].vid = k.vid
          /\ [k EXCEPT !.op = "schedule"].val = k.val
          /\ [k EXCEPT !.op = "schedule"].dur = k.dur
  BY DEF Steps

\* What a list becomes when its first step is replaced by the steps more.
LEMMA Spliced ==
    ASSUME NEW q \in Seq(Steps), q # <<>>, NEW more \in Seq(Steps),
           NEW r, r = more \o Tail(q)
    PROVE  /\ r \in Seq(Steps) /\ Len(r) = Len(more) + Len(q) - 1
           /\ Len(q) \in Nat /\ Len(q) >= 1 /\ Len(more) \in Nat /\ Len(r) \in Nat
           /\ \A i \in 1 .. Len(more) : r[i] = more[i]
           /\ \A i \in 2 .. Len(q) : r[i + Len(more) - 1] = q[i]
           /\ \A i \in Len(more) + 1 .. Len(r) : r[i] = q[i - Len(more) + 1]
           /\ Head(q) = q[1] /\ q[1] \in Steps
           /\ \A i \in 1 .. Len(q) : q[i] \in Steps
<1>1. /\ Tail(q) \in Seq(Steps) /\ Len(Tail(q)) = Len(q) - 1
      /\ \A i \in 1 .. Len(Tail(q)) : Tail(q)[i] = q[i + 1]
  BY HeadTailProperties
<1>2. Len(q) \in Nat /\ Len(q) >= 1 /\ Len(more) \in Nat
  BY EmptySeq, LenProperties
<1>3. /\ r \in Seq(Steps) /\ Len(r) = Len(more) + Len(Tail(q))
      /\ \A i \in 1 .. Len(more) + Len(Tail(q)) :
            r[i] = IF i <= Len(more) THEN more[i] ELSE Tail(q)[i - Len(more)]
  BY <1>1, ConcatProperties
<1>4. \A i \in 1 .. Len(q) : q[i] \in Steps
  BY ElementOfSeq
<1>5. Head(q) = q[1]
  OBVIOUS
<1> DEFINE T == Tail(q)
<1> HIDE DEF T
<1>6. /\ \A i \in 1 .. Len(more) : r[i] = more[i]
      /\ \A i \in 2 .. Len(q) : r[i + Len(more) - 1] = q[i]
      /\ \A i \in Len(more) + 1 .. Len(r) : r[i] = q[i - Len(more) + 1]
  BY <1>1, <1>2, <1>3 DEF T
<1> QED
  BY <1>1, <1>2, <1>3, <1>4, <1>5, <1>6

\* The steps a step may put in its place, with the clock reading they keep.
Allowed(k, more, stamp) ==
    /\ \A i \in 1 .. Len(more) :
          /\ more[i].op \in {"apply", "ubRead", "ubDo", "setProfile", "clearProfile", "schedule"}
          /\ more[i].op = "setProfile" => i = 1
          /\ more[i].op = "schedule" => i = 1 /\ stamp # NoStamp
          /\ k.op \in {"timeout", "apply", "ubRead", "ubDo"} =>
                more[i].op \in {"apply", "ubRead", "ubDo"}
    /\ (\A i \in 1 .. Len(more) : Quiet(more[i])) \/ ~Quiet(k)

\* A step that replaces itself by allowed steps keeps the order of the list.
LEMMA ListStep ==
    ASSUME NEW q \in Seq(Steps), q # <<>>, NEW more \in Seq(Steps), NEW old, NEW stamp,
           ListOK(q, old), Allowed(q[1], more, stamp), NEW r, r = more \o Tail(q)
    PROVE  ListOK(r, stamp)
<1>1. /\ Len(q) \in Nat /\ Len(q) >= 1 /\ Len(more) \in Nat /\ Len(r) = Len(more) + Len(q) - 1
      /\ \A i \in 1 .. Len(more) : r[i] = more[i]
      /\ \A i \in 2 .. Len(q) : r[i + Len(more) - 1] = q[i]
      /\ \A i \in Len(more) + 1 .. Len(r) : r[i] = q[i - Len(more) + 1]
  BY Spliced
<1>0. Len(q) \in Nat /\ Len(more) \in Nat /\ Len(r) = Len(more) + Len(q) - 1
  BY <1>1
<1>2. SUFFICES ASSUME NEW i \in 1 .. Len(r)
               PROVE  /\ r[i].op # "timeout"
                      /\ r[i].op = "setProfile" => i = 1
                      /\ r[i].op = "add" => i = 1 /\ 2 <= Len(r) /\ r[2].op = "force"
                      /\ r[i].op = "schedule" => i = 1 /\ stamp # NoStamp
                      /\ r[i].op = "remove" => i = Len(r)
                      /\ r[i].op \in Leaves => \A j \in 1 .. i - 1 : Quiet(r[j])
                      /\ r[i].op = "disableBoosts" =>
                            \E j \in i + 1 .. Len(r) :
                               r[j].op = "vote" /\ r[j].vid = "CPU_VOTE_DEFAULT"
  BY DEF ListOK
<1>3. CASE i <= Len(more)
  <2>1. i \in 1 .. Len(more) /\ r[i] = more[i]
    BY <1>1, <1>3
  <2> QED
    BY <2>1 DEF Allowed, Leaves
<1>4. CASE i > Len(more)
  <2> DEFINE j == i - Len(more) + 1
  <2>a. j \in 2 .. Len(q) /\ i = j + Len(more) - 1 /\ i \in Len(more) + 1 .. Len(r)
    BY <1>0, <1>4
  <2>b. r[i] = q[j]
    BY <1>1, <2>a
  <2>1. j \in 2 .. Len(q) /\ r[i] = q[j] /\ i = j + Len(more) - 1
    BY <2>a, <2>b
  <2> HIDE DEF j
  <2>0. j \in 1 .. Len(q)
    BY <1>1, <2>1
  <2>2. /\ q[j].op # "timeout" /\ q[j].op # "setProfile" /\ q[j].op # "add"
        /\ q[j].op # "schedule" /\ (q[j].op = "remove" => j = Len(q))
    BY <1>1, <2>0, <2>1 DEF ListOK
  <2>3. ASSUME q[j].op \in Leaves, NEW n \in 1 .. i - 1 PROVE Quiet(r[n])
    <3>1. \A m \in 1 .. j - 1 : Quiet(q[m])
      BY <2>0, <2>3 DEF ListOK
    <3>2. Quiet(q[1])
      BY <2>1, <3>1
    <3>3. CASE n <= Len(more)
      <4>1. n \in 1 .. Len(more) /\ r[n] = more[n]
        BY <1>1, <3>3
      <4> QED
        BY <3>2, <4>1 DEF Allowed
    <3>4. CASE n > Len(more)
      <4>1. n - Len(more) + 1 \in 1 .. j - 1 /\ r[n] = q[n - Len(more) + 1]
        BY <1>1, <2>1, <3>4
      <4> QED
        BY <3>1, <4>1
    <3> QED
      BY <1>1, <3>3, <3>4
  <2>4. ASSUME q[j].op = "disableBoosts"
        PROVE  \E n \in i + 1 .. Len(r) : r[n].op = "vote" /\ r[n].vid = "CPU_VOTE_DEFAULT"
    <3>1. PICK m \in j + 1 .. Len(q) : q[m].op = "vote" /\ q[m].vid = "CPU_VOTE_DEFAULT"
      BY <2>0, <2>4 DEF ListOK
    <3>2. m + Len(more) - 1 \in i + 1 .. Len(r) /\ r[m + Len(more) - 1] = q[m]
      BY <1>1, <2>1
    <3> QED
      BY <3>1, <3>2
  <2>5. q[j].op = "remove" => i = Len(r)
    <3>1. i = j + Len(more) - 1
      BY <2>1
    <3>2. q[j].op = "remove" => j = Len(q)
      BY <2>2
    <3> QED
      BY <1>0, <3>1, <3>2
  <2> QED
    BY <2>1, <2>2, <2>3, <2>4, <2>5
<1>5. i <= Len(more) \/ i > Len(more)
  BY <1>0
<1> QED
  BY <1>3, <1>4, <1>5

\* The worker only has steps that apply votes after the timeout.
LEMMA HandlerListStep ==
    ASSUME NEW q \in Seq(Steps), q # <<>>, NEW more \in Seq(Steps), NEW old, NEW stamp,
           HandlerListOK(q, old), Allowed(q[1], more, stamp), NEW r, r = more \o Tail(q)
    PROVE  HandlerListOK(r, stamp)
<1>1. /\ Len(q) \in Nat /\ Len(q) >= 1 /\ Len(more) \in Nat /\ Len(r) = Len(more) + Len(q) - 1
      /\ \A i \in 1 .. Len(more) : r[i] = more[i]
      /\ \A i \in Len(more) + 1 .. Len(r) : r[i] = q[i - Len(more) + 1]
  BY Spliced
<1>2. q[1].op \in {"timeout", "apply", "ubRead", "ubDo"}
  BY <1>1 DEF HandlerListOK
<1>3. SUFFICES ASSUME NEW i \in 1 .. Len(r) PROVE r[i].op \in {"apply", "ubRead", "ubDo"}
  BY DEF HandlerListOK
<1>4. CASE i <= Len(more)
  <2>1. i \in 1 .. Len(more) /\ r[i] = more[i]
    BY <1>1, <1>4
  <2> QED
    BY <1>2, <2>1 DEF Allowed
<1>5. CASE i > Len(more)
  <2> DEFINE j == i - Len(more) + 1
  <2>1. j \in 2 .. Len(q) /\ r[i] = q[j]
    BY <1>1, <1>5
  <2> HIDE DEF j
  <2>2. Len(q) # 1 /\ j \in 1 .. Len(q)
    BY <1>1, <2>1
  <2> QED
    BY <2>1, <2>2 DEF HandlerListOK
<1> QED
  BY <1>1, <1>4, <1>5

\* Where a change of threads in the new list comes from.
LEMMA LeavingBack ==
    ASSUME NEW q \in Seq(Steps), q # <<>>, NEW more \in Seq(Steps), NEW old, NEW stamp,
           ListOK(q, old), Allowed(q[1], more, stamp), NEW r, r = more \o Tail(q),
           NEW K, Leaving(r, K)
    PROVE  /\ Quiet(q[1])
           /\ \A i \in 1 .. Len(more) : more[i].op \notin K
           /\ q[1].op \notin K => Leaving(q, K)
<1>1. /\ Len(q) \in Nat /\ Len(q) >= 1 /\ Len(more) \in Nat /\ Len(r) = Len(more) + Len(q) - 1
      /\ \A i \in 1 .. Len(more) : r[i] = more[i]
      /\ \A i \in 2 .. Len(q) : r[i + Len(more) - 1] = q[i]
      /\ \A i \in Len(more) + 1 .. Len(r) : r[i] = q[i - Len(more) + 1]
  BY Spliced
<1>2. PICK n \in 1 .. Len(r) : r[n].op \in Leaves /\ \A j \in 1 .. n - 1 : r[j].op \notin K
  BY DEF Leaving
<1>3. n > Len(more)
  <2> SUFFICES ASSUME n <= Len(more) PROVE FALSE
    BY <1>1
  <2>1. n \in 1 .. Len(more) /\ r[n] = more[n]
    BY <1>1
  <2> QED
    BY <1>2, <2>1 DEF Allowed, Leaves
<1> DEFINE m == n - Len(more) + 1
<1>4. m \in 2 .. Len(q) /\ r[n] = q[m] /\ n = m + Len(more) - 1
  BY <1>1, <1>3
<1> HIDE DEF m
<1>5. m \in 1 .. Len(q) /\ 1 \in 1 .. m - 1
  BY <1>1, <1>4
<1>6. Quiet(q[1])
  BY <1>2, <1>4, <1>5 DEF ListOK
<1>7. \A i \in 1 .. Len(more) : more[i].op \notin K
  <2> SUFFICES ASSUME NEW i \in 1 .. Len(more) PROVE more[i].op \notin K
    OBVIOUS
  <2>1. i \in 1 .. n - 1 /\ r[i] = more[i]
    BY <1>1, <1>3
  <2> QED
    BY <1>2, <2>1
<1>8. ASSUME q[1].op \notin K, NEW j \in 1 .. m - 1 PROVE q[j].op \notin K
  <2>1. CASE j = 1
    BY <1>8, <2>1
  <2>2. CASE j # 1
    <3>1. j \in 2 .. Len(q) /\ j + Len(more) - 1 \in 1 .. n - 1
      BY <1>1, <1>4, <2>2
    <3>2. r[j + Len(more) - 1] = q[j]
      BY <1>1, <3>1
    <3> QED
      BY <1>2, <3>1, <3>2
  <2> QED
    BY <2>1, <2>2
<1>9. q[1].op \notin K => Leaving(q, K)
  BY <1>2, <1>4, <1>5, <1>8 DEF Leaving
<1> QED
  BY <1>6, <1>7, <1>9

\* A step that does not apply leaves the application for later.
LEMMA WillApplyKept ==
    ASSUME NEW q \in Seq(Steps), q # <<>>, NEW more \in Seq(Steps), NEW stamp,
           Allowed(q[1], more, stamp), NEW r, r = more \o Tail(q),
           WillApply(q), ~Applies(q[1])
    PROVE  WillApply(r)
<1>1. /\ Len(q) \in Nat /\ Len(q) >= 1 /\ Len(more) \in Nat /\ Len(r) = Len(more) + Len(q) - 1
      /\ \A i \in 1 .. Len(more) : r[i] = more[i]
      /\ \A i \in 2 .. Len(q) : r[i + Len(more) - 1] = q[i]
      /\ \A i \in Len(more) + 1 .. Len(r) : r[i] = q[i - Len(more) + 1]
  BY Spliced
<1>2. PICK n \in 1 .. Len(q) : Applies(q[n]) /\ \A j \in 1 .. n - 1 : q[j].op \notin Leaves
  BY DEF WillApply
<1>3. n \in 2 .. Len(q) /\ n + Len(more) - 1 \in 1 .. Len(r)
  BY <1>1, <1>2
<1> DEFINE m == n + Len(more) - 1
<1>4. Applies(r[m])
  BY <1>1, <1>2, <1>3
<1>5. ASSUME NEW j \in 1 .. m - 1 PROVE r[j].op \notin Leaves
  <2>1. CASE j <= Len(more)
    <3>1. j \in 1 .. Len(more) /\ r[j] = more[j]
      BY <1>1, <2>1
    <3> QED
      BY <3>1 DEF Allowed, Leaves
  <2>2. CASE j > Len(more)
    <3>1. r[j] = q[j - Len(more) + 1] /\ j - Len(more) + 1 \in 1 .. n - 1
      BY <1>1, <1>3, <2>2
    <3> QED
      BY <1>2, <3>1
  <2> QED
    BY <1>1, <2>1, <2>2
<1> HIDE DEF m
<1> QED
  BY <1>3, <1>4, <1>5 DEF WillApply, m

-----------------------------------------------------------------------------
(* One thread takes a step.                                                *)

\* Thread a replaces its first step by the steps more.
Moved(a, more, stamp) ==
    /\ \A b \in Threads : b # a => act'[b] = act[b]
    /\ act'[a].todo = more \o Tail(act[a].todo)
    /\ act'[a].stamp = stamp
    /\ act'[a].sid = IF act'[a].todo = <<>> THEN None ELSE act[a].sid

Stepping(a, more, stamp) ==
    /\ act[a].todo # <<>>
    /\ more \in Seq(Steps)
    /\ act' \in [Threads -> Activity]
    /\ Moved(a, more, stamp)
    /\ Allowed(act[a].todo[1], more, stamp)

\* The fields of what a thread is doing, and its next step.
LEMMA ActFields ==
    ASSUME act \in [Threads -> Activity], NEW a \in Threads
    PROVE  /\ act[a] \in Activity
           /\ act[a].sid \in Sessions \cup {None} /\ act[a].todo \in Seq(Steps)
           /\ act[a].stamp \in Nat \cup {NoStamp} /\ act[a].seen \in BOOLEAN
           /\ act[a].todo # <<>> => /\ Next1(a) = act[a].todo[1] /\ Next1(a) \in Steps
                                    /\ 1 \in 1 .. Len(act[a].todo)
                                    /\ Len(act[a].todo) \in Nat
<1>1. act[a] \in Activity
  OBVIOUS
<1>2. /\ act[a].sid \in Sessions \cup {None} /\ act[a].todo \in Seq(Steps)
      /\ act[a].stamp \in Nat \cup {NoStamp} /\ act[a].seen \in BOOLEAN
  BY <1>1 DEF Activity
<1>3. ASSUME act[a].todo # <<>>
      PROVE  /\ Head(act[a].todo) = act[a].todo[1] /\ act[a].todo[1] \in Steps
             /\ Len(act[a].todo) \in Nat /\ Len(act[a].todo) >= 1
  BY <1>2, <1>3, Spliced, EmptySeq
<1> QED
  BY <1>1, <1>2, <1>3 DEF Next1

\* The empty list, and the list of applyCpuAndGpuVotes and what follows it.
LEMMA RefreshList ==
    /\ <<>> \in Seq(Steps) /\ Len(<<>>) = 0
    /\ Refresh \in Seq(Steps) /\ Len(Refresh) = 3
    /\ Refresh[1].op = "apply" /\ Refresh[2].op = "ubRead" /\ Refresh[3].op = "ubDo"
    /\ Refresh # <<>>
<1>1. [op |-> "apply"] \in Steps /\ [op |-> "ubRead"] \in Steps /\ [op |-> "ubDo"] \in Steps
  BY StepsWritten
<1> HIDE DEF Steps
<1> QED
  BY <1>1 DEF Refresh

\* The activity after a step, whatever the steps put in its place.
LEMMA StepActivity ==
    ASSUME act \in [Threads -> Activity], NEW a \in Threads, act[a].todo # <<>>,
           NEW more \in Seq(Steps)
    PROVE  /\ Step(a, more) \in Activity
           /\ Step(a, more).todo = more \o Tail(act[a].todo)
           /\ Step(a, more).stamp = NoStamp
           /\ Step(a, more).sid = IF more \o Tail(act[a].todo) = <<>> THEN None ELSE act[a].sid
<1> DEFINE r == more \o Tail(act[a].todo)
<1>1. r \in Seq(Steps)
  BY ActFields, Spliced
<1>2. act[a] \in Activity /\ <<>> \in Seq(Steps)
  BY ActFields, RefreshList
<1> HIDE DEF r
<1>3. Step(a, more) = IF r = <<>> THEN Idle ELSE [act[a] EXCEPT !.todo = r, !.stamp = NoStamp]
  BY DEF Step, r
<1>4. Idle \in Activity /\ Idle.todo = <<>> /\ Idle.stamp = NoStamp /\ Idle.sid = None
  BY <1>2 DEF Idle, Activity, None
<1>5. /\ [act[a] EXCEPT !.todo = r, !.stamp = NoStamp] \in Activity
      /\ [act[a] EXCEPT !.todo = r, !.stamp = NoStamp].todo = r
      /\ [act[a] EXCEPT !.todo = r, !.stamp = NoStamp].stamp = NoStamp
      /\ [act[a] EXCEPT !.todo = r, !.stamp = NoStamp].sid = act[a].sid
  BY <1>1, <1>2 DEF Activity
<1> QED
  BY <1>3, <1>4, <1>5 DEF r

\* Continue replaces the first step by the steps it inserts.
LEMMA ContinueSteps ==
    ASSUME act \in [Threads -> Activity], NEW a \in Threads, Busy(a), NEW more \in Seq(Steps),
           Continue(a, more), Allowed(Next1(a), more, NoStamp)
    PROVE  Stepping(a, more, NoStamp)
<1>1. act[a].todo # <<>> /\ Next1(a) = act[a].todo[1]
  BY ActFields DEF Busy
<1>2. /\ Step(a, more) \in Activity
      /\ Step(a, more).todo = more \o Tail(act[a].todo)
      /\ Step(a, more).stamp = NoStamp
      /\ Step(a, more).sid = IF more \o Tail(act[a].todo) = <<>> THEN None ELSE act[a].sid
  BY <1>1, StepActivity
<1>3. act' = [act EXCEPT ![a] = Step(a, more)]
  BY DEF Continue
<1>4. act' \in [Threads -> Activity] /\ act'[a] = Step(a, more)
  BY <1>2, <1>3
<1>5. \A b \in Threads : b # a => act'[b] = act[b]
  BY <1>3
<1> QED
  BY <1>1, <1>2, <1>4, <1>5 DEF Stepping, Moved

\* Done drops the first step.
LEMMA DoneSteps ==
    ASSUME act \in [Threads -> Activity], NEW a \in Threads, Busy(a), Done(a)
    PROVE  Stepping(a, <<>>, NoStamp)
<1>1. Allowed(Next1(a), <<>>, NoStamp) /\ <<>> \in Seq(Steps)
  BY RefreshList DEF Allowed
<1>2. Continue(a, <<>>)
  BY DEF Done, Continue
<1> QED
  BY <1>1, <1>2, ContinueSteps

\* A step of the manager that goes on with Refresh.
LEMMA RefreshSteps ==
    ASSUME act \in [Threads -> Activity], NEW a \in Threads, Busy(a), Continue(a, Refresh)
    PROVE  Stepping(a, Refresh, NoStamp)
<1>1. \A i \in 1 .. Len(Refresh) : Refresh[i].op \in {"apply", "ubRead", "ubDo"}
  <2>1. \A i \in 1 .. Len(Refresh) : i = 1 \/ i = 2 \/ i = 3
    BY RefreshList
  <2> QED
    BY <2>1, RefreshList
<1>2. Allowed(Next1(a), Refresh, NoStamp)
  BY <1>1 DEF Allowed, Quiet
<1> QED
  BY <1>2, RefreshList, ContinueSteps

\* The steps of setting and clearing profiles follow a change of threads.
LEMMA ProfileSteps ==
    ASSUME act \in [Threads -> Activity], NEW a \in Threads, Busy(a),
           NEW added \in SUBSET Tids, NEW removed \in SUBSET Tids,
           NEW more, \/ more = <<[op |-> "setProfile", tids |-> added],
                                 [op |-> "clearProfile", tids |-> removed]>>
                     \/ more = <<[op |-> "clearProfile", tids |-> removed]>>,
           Next1(a).op \in Leaves, Continue(a, more)
    PROVE  Stepping(a, more, NoStamp)
<1>1. /\ [op |-> "setProfile", tids |-> added] \in Steps
      /\ [op |-> "clearProfile", tids |-> removed] \in Steps
  BY StepsWritten
<1>2. /\ more \in Seq(Steps)
      /\ \A i \in 1 .. Len(more) : /\ more[i].op \in {"setProfile", "clearProfile"}
                                   /\ more[i].op = "setProfile" => i = 1
  <2> HIDE DEF Steps
  <2>1. CASE more = <<[op |-> "clearProfile", tids |-> removed]>>
    <3>1. more \in Seq(Steps) /\ Len(more) = 1 /\ more[1].op = "clearProfile"
      BY <1>1, <2>1
    <3> QED
      BY <3>1
  <2>2. CASE more = <<[op |-> "setProfile", tids |-> added],
                      [op |-> "clearProfile", tids |-> removed]>>
    <3>1. /\ more \in Seq(Steps) /\ Len(more) = 2
          /\ more[1].op = "setProfile" /\ more[2].op = "clearProfile"
      BY <1>1, <2>2
    <3>2. \A i \in 1 .. Len(more) : i = 1 \/ i = 2
      BY <3>1
    <3> QED
      BY <3>1, <3>2
  <2> QED
    BY <2>1, <2>2
<1>3. Allowed(Next1(a), more, NoStamp)
  BY <1>2 DEF Allowed, Quiet, Leaves
<1> QED
  BY <1>2, <1>3, ContinueSteps

\* Where the steps of the new list come from, and what stays in it.
LEMMA Origin ==
    ASSUME act \in [Threads -> Activity], NEW a \in Threads, NEW more, NEW stamp,
           Stepping(a, more, stamp)
    PROVE  /\ \A i \in 1 .. Len(act'[a].todo) :
                 \/ \E m \in 1 .. Len(more) : act'[a].todo[i] = more[m]
                 \/ \E j \in 2 .. Len(act[a].todo) : act'[a].todo[i] = act[a].todo[j]
           /\ \A j \in 2 .. Len(act[a].todo) :
                 \E i \in 1 .. Len(act'[a].todo) : act'[a].todo[i] = act[a].todo[j]
           /\ \A m \in 1 .. Len(more) :
                 \E i \in 1 .. Len(act'[a].todo) : act'[a].todo[i] = more[m]
           /\ Len(act[a].todo) \in Nat /\ act'[a].todo \in Seq(Steps)
<1> DEFINE q == act[a].todo
           r == act'[a].todo
<1>1. q \in Seq(Steps) /\ q # <<>> /\ more \in Seq(Steps) /\ r = more \o Tail(q)
  BY ActFields DEF Stepping, Moved
<1> HIDE DEF q, r
<1>2. /\ r \in Seq(Steps) /\ Len(r) = Len(more) + Len(q) - 1
      /\ Len(q) \in Nat /\ Len(q) >= 1 /\ Len(more) \in Nat
      /\ \A i \in 1 .. Len(more) : r[i] = more[i]
      /\ \A i \in 2 .. Len(q) : r[i + Len(more) - 1] = q[i]
      /\ \A i \in Len(more) + 1 .. Len(r) : r[i] = q[i - Len(more) + 1]
  BY <1>1, Spliced
<1>3. ASSUME NEW i \in 1 .. Len(r)
      PROVE  (\E m \in 1 .. Len(more) : r[i] = more[m]) \/ \E j \in 2 .. Len(q) : r[i] = q[j]
  <2>1. CASE i <= Len(more)
    BY <1>2, <2>1
  <2>2. CASE i > Len(more)
    <3>1. i - Len(more) + 1 \in 2 .. Len(q) /\ r[i] = q[i - Len(more) + 1]
      BY <1>2, <2>2
    <3> QED
      BY <3>1
  <2> QED
    BY <1>2, <2>1, <2>2
<1>4. ASSUME NEW j \in 2 .. Len(q) PROVE \E i \in 1 .. Len(r) : r[i] = q[j]
  <2>1. j + Len(more) - 1 \in 1 .. Len(r) /\ r[j + Len(more) - 1] = q[j]
    BY <1>2
  <2> QED
    BY <2>1
<1>5. ASSUME NEW m \in 1 .. Len(more) PROVE \E i \in 1 .. Len(r) : r[i] = more[m]
  BY <1>2
<1> QED
  BY <1>2, <1>3, <1>4, <1>5 DEF q, r

\* The worker is no caller, and None is no session.
LEMMA ThreadKinds ==
    /\ \A c \in Callers : c \in Threads /\ c # Handler
    /\ Handler \in Threads /\ Binder \in Callers
    /\ None \notin Sessions
    /\ \A a \in Threads : a \in Callers \/ a = Handler
  BY PowerSessionAssumption DEF Callers, Threads, None

\* The bounds and the durations are numbers.
LEMMA Numbers ==
    /\ MaxTime \in Nat /\ MaxCalls \in Nat /\ MaxStalls \in Nat
    /\ StaleTimeFactor \in Nat /\ ReportingRateLimit \in Nat
    /\ \A n \in Targets \cup {0} : n \in Nat
    /\ \A n \in Durations : n \in Nat
    /\ \A n \in Levels : n \in Nat
    /\ \A n \in Targets : n \in Durations
<1>1. Durations \subseteq Nat /\ Levels \subseteq Nat /\ Targets \subseteq Durations
  BY PowerSessionAssumption, VotesAssumption
<1>2. \A n \in Durations : n \in Nat
  BY <1>1
<1>3. \A n \in Targets \cup {0} : n \in Nat
  <2> SUFFICES ASSUME NEW n \in Targets PROVE n \in Nat
    OBVIOUS
  <2>1. n \in Durations
    BY <1>1
  <2> QED
    BY <1>2, <2>1
<1> QED
  BY <1>1, <1>2, <1>3, PowerSessionAssumption

\* A step on a session takes no lock, and the last one releases it.
LEMMA LocksStep ==
    ASSUME act \in [Threads -> Activity], Locks, NEW a \in Threads, NEW more, NEW stamp,
           Stepping(a, more, stamp)
    PROVE  Locks'
<1>1. /\ \A b \in Threads : b # a => act'[b] = act[b]
      /\ act'[a].sid = IF act'[a].todo = <<>> THEN None ELSE act[a].sid
      /\ act[a].sid # None
  BY DEF Stepping, Moved, Locks
<1>2. \A b \in Threads : act'[b].todo = <<>> <=> act'[b].sid = None
  BY <1>1 DEF Locks
<1>3. \A c, d \in Callers : act'[c].sid = act'[d].sid => c = d \/ act'[c].sid = None
  BY <1>1, ThreadKinds DEF Locks
<1> QED
  BY <1>2, <1>3 DEF Locks

\* Every step keeps the order of the lists.
LEMMA ListsStep ==
    ASSUME act \in [Threads -> Activity], Lists, NEW a \in Threads, NEW more, NEW stamp,
           Stepping(a, more, stamp)
    PROVE  Lists'
<1>1. /\ \A b \in Threads : b # a => act'[b] = act[b]
      /\ act[a].todo \in Seq(Steps) /\ act[a].todo # <<>> /\ more \in Seq(Steps)
      /\ act'[a].todo = more \o Tail(act[a].todo) /\ act'[a].stamp = stamp
      /\ Allowed(act[a].todo[1], more, stamp)
  BY ActFields DEF Stepping, Moved
<1>2. ASSUME NEW c \in Callers PROVE ListOK(act'[c].todo, act'[c].stamp)
  <2>1. CASE c = a
    BY <1>1, <2>1, ListStep DEF Lists
  <2>2. CASE c # a
    BY <1>1, <2>2, ThreadKinds DEF Lists
  <2> QED
    BY <2>1, <2>2
<1>3. HandlerListOK(act'[Handler].todo, act'[Handler].stamp)
  <2>1. CASE Handler = a
    BY <1>1, <2>1, HandlerListStep DEF Lists
  <2>2. CASE Handler # a
    BY <1>1, <2>2, ThreadKinds DEF Lists
  <2> QED
    BY <2>1, <2>2
<1> QED
  BY <1>2, <1>3 DEF Lists

\* No step but those that add and remove the session changes its membership.
LEMMA MembershipKept ==
    ASSUME TypeOK, Lists, Membership, NEW a \in Threads, NEW more, NEW stamp,
           Stepping(a, more, stamp), act[a].todo[1].op # "add",
           UNCHANGED <<mSessions, state, targetNs>>,
           \A s \in Sessions : s \notin mSessions =>
              votes'[s] = votes[s] /\ isActive'[s] = isActive[s]
    PROVE  Membership'
<1>0. act \in [Threads -> Activity]
  BY DEF TypeOK
<1>1. /\ \A b \in Threads : b # a => act'[b] = act[b]
      /\ act'[a].sid = IF act'[a].todo = <<>> THEN None ELSE act[a].sid
      /\ Allowed(act[a].todo[1], more, stamp)
  BY DEF Stepping, Moved
<1>2. ASSUME NEW c \in Callers PROVE CallMembership(act[c].sid, act[c].todo)'
  <2>1. CASE c # a
    <3>1. act'[c] = act[c] /\ CallMembership(act[c].sid, act[c].todo)
      BY <1>1, <2>1, ThreadKinds DEF Membership
    <3> QED
      BY <3>1 DEF CallMembership
  <2>2. CASE c = a
    <3> SUFFICES ASSUME NEW i \in 1 .. Len(act'[a].todo)
                 PROVE  LET op == act'[a].todo[i].op IN
                        /\ op = "add" => state[act'[a].sid] = "open" /\ act'[a].sid \notin mSessions
                        /\ op = "remove" =>
                              state[act'[a].sid] = "closed" /\ act'[a].sid \in mSessions
                        /\ op \in {"target", "disableBoosts"} => act'[a].sid \in mSessions
      BY <2>2 DEF CallMembership
    <3>1. act'[a].todo # <<>>
      OBVIOUS
    <3>2. act'[a].sid = act[a].sid
      BY <1>1, <3>1
    <3>3. CallMembership(act[a].sid, act[a].todo)
      BY <2>2 DEF Membership
    <3>4. CASE \E m \in 1 .. Len(more) : act'[a].todo[i] = more[m]
      BY <1>1, <3>4 DEF Allowed
    <3>5. CASE \E j \in 2 .. Len(act[a].todo) : act'[a].todo[i] = act[a].todo[j]
      BY <3>2, <3>3, <3>5 DEF CallMembership
    <3> QED
      BY <1>0, <3>4, <3>5, Origin
  <2> QED
    BY <2>1, <2>2
<1>3. ASSUME NEW s \in Sessions PROVE SessionMembership(s)'
  <2>1. SessionMembership(s)
    BY DEF Membership
  <2>2. ASSUME NEW c \in Callers, act[c].sid = s, WillAdd(act[c].todo)
        PROVE  act'[c] = act[c]
    <3>1. PICK i \in 1 .. Len(act[c].todo) : act[c].todo[i].op = "add"
      BY <2>2 DEF WillAdd
    <3>2. act[c].todo[1].op = "add"
      BY <3>1 DEF Lists, ListOK
    <3> QED
      BY <1>1, <3>2, ThreadKinds
  <2> QED
    BY <2>1, <2>2 DEF SessionMembership
<1> QED
  BY <1>2, <1>3 DEF Membership

\* No step but forceSessionActive, resume and the addition makes a session
\* active whose threads are about to change.
LEMMA InactiveKept ==
    ASSUME TypeOK, Lists, Inactive, NEW a \in Threads, NEW more, NEW stamp,
           Stepping(a, more, stamp), act[a].todo[1].op # "force",
           \A c \in Callers : isActive'[act[c].sid] => isActive[act[c].sid]
    PROVE  Inactive'
<1>1. /\ \A b \in Threads : b # a => act'[b] = act[b]
      /\ act[a].todo \in Seq(Steps) /\ act[a].todo # <<>> /\ more \in Seq(Steps)
      /\ act'[a].todo = more \o Tail(act[a].todo)
      /\ act'[a].sid = IF act'[a].todo = <<>> THEN None ELSE act[a].sid
      /\ Allowed(act[a].todo[1], more, stamp)
  BY ActFields DEF Stepping, Moved, TypeOK
<1> SUFFICES ASSUME NEW c \in Callers, Leaving(act'[c].todo, {"force"})
             PROVE  ~isActive'[act'[c].sid]
  BY DEF Inactive
<1>2. CASE c # a
  BY <1>1, <1>2, ThreadKinds DEF Inactive
<1>3. CASE c = a
  <2>1. act'[c].todo # <<>>
    BY DEF Leaving
  <2>2. Leaving(act[c].todo, {"force"})
    BY <1>1, <1>3, LeavingBack DEF Lists
  <2> QED
    BY <1>1, <1>3, <2>1, <2>2 DEF Inactive
<1> QED
  BY <1>2, <1>3

\* A busy thread is on a session.
LEMMA OnSession ==
    ASSUME act \in [Threads -> Activity], Locks, NEW a \in Threads, act[a].todo # <<>>
    PROVE  act[a].sid \in Sessions
  BY ActFields, ThreadKinds DEF Locks

\* A pending clear stays pending until it is done.
LEMMA PendingKept ==
    ASSUME act \in [Threads -> Activity], NEW a \in Threads, NEW more, NEW stamp,
           Stepping(a, more, stamp), NEW t, ProfileClearPending(t),
           ~(act[a].todo[1].op = "clearProfile" /\ t \in act[a].todo[1].tids)
    PROVE  ProfileClearPending(t)'
<1>1. \A b \in Threads : b # a => act'[b] = act[b]
  BY DEF Stepping, Moved
<1>0. PICK b \in Threads : \E i \in DOMAIN act[b].todo :
         act[b].todo[i].op = "clearProfile" /\ t \in act[b].todo[i].tids
  BY DEF ProfileClearPending
<1>2. PICK i \in DOMAIN act[b].todo :
         act[b].todo[i].op = "clearProfile" /\ t \in act[b].todo[i].tids
  BY <1>0
<1>3. CASE b # a
  BY <1>1, <1>2, <1>3 DEF ProfileClearPending
<1>4. CASE b = a
  <2>1. DOMAIN act[a].todo = 1 .. Len(act[a].todo) /\ Len(act[a].todo) \in Nat
    BY ActFields, LenProperties
  <2>2. i \in 2 .. Len(act[a].todo)
    BY <1>2, <1>4, <2>1
  <2>3. PICK n \in 1 .. Len(act'[a].todo) : act'[a].todo[n] = act[a].todo[i]
    BY <2>2, Origin
  <2>4. DOMAIN act'[a].todo = 1 .. Len(act'[a].todo)
    BY Origin, LenProperties
  <2> QED
    BY <1>2, <1>4, <2>3, <2>4 DEF ProfileClearPending
<1> QED
  BY <1>3, <1>4

\* No step but the change of threads and of profiles disturbs the profiles.
LEMMA ProfilesKept ==
    ASSUME TypeOK, Locks, Profiles, NEW a \in Threads, NEW more, NEW stamp,
           Stepping(a, more, stamp), act[a].todo[1].op # "clearProfile",
           \A m \in 1 .. Len(more) : more[m].op # "setProfile",
           UNCHANGED <<alive, qos>>,
           \A t \in alive : t \in taskKeys => t \in taskKeys',
           \A x \in Sessions, t \in alive : linkedTasks'[x][t] = linkedTasks[x][t]
    PROVE  Profiles'
<1>0. act \in [Threads -> Activity] /\ act' \in [Threads -> Activity]
  BY DEF TypeOK, Stepping
<1>1. /\ \A b \in Threads : b # a => act'[b] = act[b]
      /\ act'[a].sid = IF act'[a].todo = <<>> THEN None ELSE act[a].sid
      /\ act[a].todo # <<>>
  BY DEF Stepping, Moved
<1>2. ASSUME NEW c \in Callers, NEW i \in 1 .. Len(act'[c].todo),
             act'[c].todo[i].op = "setProfile",
             NEW t \in act'[c].todo[i].tids \cap alive
      PROVE  linkedTasks'[act'[c].sid][t] > 0
  <2>1. PICK j \in 1 .. Len(act[c].todo) : act'[c].todo[i] = act[c].todo[j]
    <3>1. CASE c # a
      BY <1>1, <1>2, <3>1, ThreadKinds
    <3>2. CASE c = a
      <4>1. \E j \in 2 .. Len(act[c].todo) : act'[c].todo[i] = act[c].todo[j]
        BY <1>0, <1>2, <3>2, Origin
      <4> QED
        BY <4>1
    <3> QED
      BY <3>1, <3>2
  <2>2. act'[c].todo # <<>>
    BY <1>2
  <2>3. act'[c].sid = act[c].sid
    BY <1>1, <2>2, ThreadKinds
  <2>4. act[c].todo # <<>>
    BY <2>1
  <2>5. act[c].sid \in Sessions
    BY <1>0, <2>4, OnSession, ThreadKinds
  <2>6. linkedTasks[act[c].sid][t] > 0
    BY <1>2, <2>1 DEF Profiles
  <2> QED
    BY <2>3, <2>5, <2>6
<1>3. ASSUME NEW t \in (alive \cap qos) \ taskKeys' PROVE ProfileClearPending(t)'
  <2>1. ProfileClearPending(t)
    BY <1>3 DEF Profiles
  <2> QED
    BY <1>0, <2>1, PendingKept
<1> QED
  BY <1>2, <1>3 DEF Profiles

\* Only the step that applies settles a session.
LEMMA SettledBack ==
    ASSUME TypeOK, Lists, NEW a \in Threads, NEW more, NEW stamp,
           Stepping(a, more, stamp), NEW s \in Sessions, Settled(s)'
    PROVE  Settled(s) \/ (act[a].sid = s /\ act[a].todo[1].op \in {"force", "apply"} /\ a \in Callers
                          /\ \A m \in 1 .. Len(more) : more[m].op # "apply")
<1>1. /\ \A b \in Threads : b # a => act'[b] = act[b]
      /\ act[a].todo \in Seq(Steps) /\ act[a].todo # <<>> /\ more \in Seq(Steps)
      /\ act'[a].todo = more \o Tail(act[a].todo)
      /\ act'[a].sid = IF act'[a].todo = <<>> THEN None ELSE act[a].sid
      /\ Allowed(act[a].todo[1], more, stamp)
  BY ActFields DEF Stepping, Moved, TypeOK
<1>2. PICK c \in Callers : act'[c].sid = s /\ Leaving(act'[c].todo, {"force", "apply"})
  BY DEF Settled
<1>3. CASE c # a
  BY <1>1, <1>2, <1>3, ThreadKinds DEF Settled
<1>4. CASE c = a
  <2>1. act[a].sid = s
    BY <1>1, <1>2, <1>4, ThreadKinds
  <2>2. /\ \A m \in 1 .. Len(more) : more[m].op \notin {"force", "apply"}
        /\ act[a].todo[1].op \notin {"force", "apply"} =>
              Leaving(act[a].todo, {"force", "apply"})
    <3> DEFINE K == {"force", "apply"}
               q == act[a].todo
               r == act'[a].todo
               old == act[a].stamp
    <3>1. /\ q \in Seq(Steps) /\ q # <<>> /\ more \in Seq(Steps) /\ r = more \o Tail(q)
          /\ ListOK(q, old) /\ Allowed(q[1], more, stamp) /\ Leaving(r, K)
      BY <1>1, <1>2, <1>4 DEF Lists
    <3> HIDE DEF K, q, r, old
    <3>2. /\ \A m \in 1 .. Len(more) : more[m].op \notin K
          /\ q[1].op \notin K => Leaving(q, K)
      BY <3>1, LeavingBack
    <3> QED
      BY <3>2 DEF K, q
  <2> QED
    <3>1. CASE act[a].todo[1].op \in {"force", "apply"}
      BY <1>4, <2>1, <2>2, <3>1
    <3>2. CASE act[a].todo[1].op \notin {"force", "apply"}
      BY <1>4, <2>1, <2>2, <3>2, Zenon DEF Settled
    <3> QED
      BY <3>1, <3>2
<1> QED
  BY <1>3, <1>4

\* A thread that will apply the votes of the session still will, unless it is
\* the one that just did or its session got settled.
LEMMA RefresherKept ==
    ASSUME TypeOK, Lists, NEW a \in Threads, NEW more, NEW stamp,
           Stepping(a, more, stamp), NEW b \in Threads, NEW t, NEW s, s = act[b].sid,
           Refresher(b, t), b # a \/ ~Applies(act[a].todo[1]),
           linkedTasks'[s][t] > 0, Settled(s)' => Settled(s)
    PROVE  Refresher(b, t)'
<1>1. /\ \A d \in Threads : d # a => act'[d] = act[d]
      /\ act[a].todo \in Seq(Steps) /\ act[a].todo # <<>> /\ more \in Seq(Steps)
      /\ act'[a].todo = more \o Tail(act[a].todo)
      /\ act'[a].sid = IF act'[a].todo = <<>> THEN None ELSE act[a].sid
      /\ Allowed(act[a].todo[1], more, stamp)
  BY ActFields DEF Stepping, Moved, TypeOK
<1>2. act'[b].sid = act[b].sid /\ WillApply(act'[b].todo)
  <2>1. CASE b # a
    BY <1>1, <2>1 DEF Refresher
  <2>2. CASE b = a
    <3>1. WillApply(act'[b].todo)
      BY <1>1, <2>2, WillApplyKept DEF Refresher
    <3>2. act'[b].todo # <<>>
      BY <3>1 DEF WillApply
    <3> QED
      BY <1>1, <2>2, <3>1, <3>2
  <2> QED
    BY <2>1, <2>2
<1> QED
  BY <1>2 DEF Refresher, Settled

-----------------------------------------------------------------------------
(* What applying the votes computes.                                       *)

\* There are finitely many CPU votes, so the highest of them exists.
LEMMA FiniteVoteIds == IsFiniteSet(CpuVoteIds)
<1>1. IsFiniteSet({"CPU_VOTE_DEFAULT"})
  BY FS_Singleton
<1>2. IsFiniteSet({"CPU_VOTE_DEFAULT"} \cup {"CPU_LOAD_UP"})
  BY <1>1, FS_AddElement
<1>3. IsFiniteSet(({"CPU_VOTE_DEFAULT"} \cup {"CPU_LOAD_UP"}) \cup {"CPU_LOAD_RESET"})
  BY <1>2, FS_AddElement
<1>4. IsFiniteSet((({"CPU_VOTE_DEFAULT"} \cup {"CPU_LOAD_UP"}) \cup {"CPU_LOAD_RESET"})
                  \cup {"CPU_LOAD_RESUME"})
  BY <1>3, FS_AddElement
<1>5. CpuVoteIds = (({"CPU_VOTE_DEFAULT"} \cup {"CPU_LOAD_UP"}) \cup {"CPU_LOAD_RESET"})
                   \cup {"CPU_LOAD_RESUME"}
  BY DEF CpuVoteIds
<1> QED
  BY <1>4, <1>5

\* The uclamp.min of a session is zero or the value of one of its active votes.
LEMMA UclampMinValue ==
    ASSUME NEW sv \in [VoteIds -> VoteRange], NEW time
    PROVE  /\ getUclampMin(sv, time) \in Nat
           /\ \/ getUclampMin(sv, time) = 0
              \/ \E v \in CpuVoteIds : sv[v].active /\ sv[v].val = getUclampMin(sv, time)
<1> DEFINE S == {w \in CpuVoteIds : isTimeInRange(sv[w], time)}
           f == [v \in S |-> sv[v].val]
           V == {0} \cup {sv[v].val : v \in S}
<1>1. IsFiniteSet(S)
  BY FiniteVoteIds, FS_Subset
<1>2. \A v \in S : v \in CpuVoteIds /\ sv[v].active
  BY DEF isTimeInRange
<1>3. getUclampMin(sv, time) = Max(V)
  BY DEF getUclampMin
<1>4. \A v \in S : sv[v].val \in Nat
  BY DEF VoteRange, VoteIds
<1> HIDE DEF S
<1>5. ImageOf(V, S, f)
  BY <1>1, <1>4 DEF ImageOf
<1> HIDE DEF f, V
<1>6. Max(V) \in V /\ Max(V) \in Nat
  BY <1>5, MaxOfImage
<1>7. Max(V) = 0 \/ \E v \in S : sv[v].val = Max(V)
  BY <1>6 DEF V
<1> QED
  BY <1>2, <1>3, <1>6, <1>7

\* The range of a thread is zero or the value of an active vote of an active
\* session that contains it.
LEMMA TaskVoteRangeValue ==
    ASSUME NEW sv \in [Sessions -> [VoteIds -> VoteRange]], NEW t, NEW time
    PROVE  LET range == getTaskVoteRange(sv, t, time)
           IN  /\ range \in Nat
               /\ \/ range = 0
                  \/ \E x \in Sessions, v \in CpuVoteIds :
                        /\ mTasks[t][x] > 0 /\ isActive[x]
                        /\ sv[x][v].active /\ sv[x][v].val = range
<1> DEFINE S == {x \in Sessions : mTasks[t][x] > 0 /\ isActive[x]}
           f == [x \in S |-> getUclampMin(sv[x], time)]
           V == {0} \cup {getUclampMin(sv[x], time) : x \in S}
<1>1. IsFiniteSet(S)
  BY PowerSessionAssumption, FS_Subset
<1>2. \A x \in S : x \in Sessions /\ mTasks[t][x] > 0 /\ isActive[x]
  OBVIOUS
<1>3. getTaskVoteRange(sv, t, time) = Max(V)
  BY DEF getTaskVoteRange
<1> HIDE DEF S
<1>4. \A x \in S : getUclampMin(sv[x], time) \in Nat
  BY <1>2, UclampMinValue
<1>5. ImageOf(V, S, f)
  BY <1>1, <1>4 DEF ImageOf
<1> HIDE DEF f, V
<1>6. Max(V) \in V /\ Max(V) \in Nat
  BY <1>5, MaxOfImage
<1>7. Max(V) = 0 \/ \E x \in S : getUclampMin(sv[x], time) = Max(V)
  BY <1>6 DEF V
<1>8. ASSUME NEW x \in S, getUclampMin(sv[x], time) = Max(V), Max(V) # 0
      PROVE  \E v \in CpuVoteIds : sv[x][v].active /\ sv[x][v].val = Max(V)
  BY <1>2, <1>8, UclampMinValue
<1>9. ASSUME Max(V) # 0
      PROVE  \E x \in Sessions, v \in CpuVoteIds :
                /\ mTasks[t][x] > 0 /\ isActive[x]
                /\ sv[x][v].active /\ sv[x][v].val = Max(V)
  <2>1. PICK x \in S : getUclampMin(sv[x], time) = Max(V)
    BY <1>7, <1>9
  <2>2. PICK v \in CpuVoteIds : sv[x][v].active /\ sv[x][v].val = Max(V)
    BY <1>8, <1>9, <2>1
  <2>3. x \in Sessions /\ mTasks[t][x] > 0 /\ isActive[x]
    BY <1>2
  <2> QED
    BY <2>2, <2>3
<1> QED
  BY <1>3, <1>6, <1>9

\* The GPU capacity is a number.
LEMMA GpuCapacityType ==
    ASSUME NEW sv \in [Sessions -> [VoteIds -> VoteRange]], NEW time, mSessions \subseteq Sessions,
           applyGpuVotesLocked(sv, time)
    PROVE  gpuCapacity' \in Nat
<1> DEFINE f == [x \in mSessions |-> getGpuCapacityRequest(sv[x], time)]
           V == {0} \cup {getGpuCapacityRequest(sv[x], time) : x \in mSessions}
<1>1. IsFiniteSet(mSessions)
  BY PowerSessionAssumption, FS_Subset
<1>2. gpuCapacity' = Max(V)
  BY DEF applyGpuVotesLocked
<1>3. ASSUME NEW x \in mSessions PROVE getGpuCapacityRequest(sv[x], time) \in Nat
  <2>1. sv[x]["GPU_CAPACITY"].val \in Nat /\ sv[x]["GPU_LOAD_UP"].val \in Nat
    BY DEF VoteIds, GpuVoteIds, VoteRange
  <2> QED
    BY <2>1 DEF getGpuCapacityRequest, InRangeOrZero
<1>4. ImageOf(V, mSessions, f)
  BY <1>1, <1>3 DEF ImageOf
<1> HIDE DEF f, V
<1> QED
  BY <1>2, <1>4, MaxOfImage

\* Justified is an upper bound of the active votes on t, and a number.
LEMMA JustifiedBound ==
    ASSUME NEW t, mSessions \subseteq Sessions, votes \in [Sessions -> [VoteIds -> VoteRange]]
    PROVE  /\ Justified(t) \in Nat
           /\ \A x \in mSessions, v \in CpuVoteIds :
                 mTasks[t][x] > 0 /\ isActive[x] /\ votes[x][v].active
                    => votes[x][v].val <= Justified(t)
<1> DEFINE P == mSessions \X CpuVoteIds
           S == {q \in P : /\ mTasks[t][q[1]] > 0 /\ isActive[q[1]]
                           /\ votes[q[1]][q[2]].active}
           f == [p \in S |-> votes[p[1]][p[2]].val]
           V == {0} \cup {votes[p[1]][p[2]].val : p \in S}
<1>1. IsFiniteSet(S)
  <2>1. IsFiniteSet(mSessions)
    BY PowerSessionAssumption, FS_Subset
  <2>2. IsFiniteSet(P)
    BY <2>1, FiniteVoteIds, FS_Product
  <2> QED
    BY <2>2, FS_Subset
<1>2. Justified(t) = Max(V)
  BY DEF Justified
<1>3. ASSUME NEW x \in mSessions, NEW v \in CpuVoteIds,
             mTasks[t][x] > 0, isActive[x], votes[x][v].active
      PROVE  <<x, v>> \in S
  BY <1>3
<1>4. \A p \in S : votes[p[1]][p[2]].val \in Nat
  <2> SUFFICES ASSUME NEW p \in S PROVE votes[p[1]][p[2]].val \in Nat
    OBVIOUS
  <2>1. p[1] \in Sessions /\ p[2] \in VoteIds
    BY DEF VoteIds
  <2> QED
    BY <2>1 DEF VoteRange
<1> HIDE DEF S
<1>5. ImageOf(V, S, f)
  BY <1>1, <1>4 DEF ImageOf
<1>6. \A p \in S : f[p] = votes[p[1]][p[2]].val
  OBVIOUS
<1> HIDE DEF f, V
<1>7. Max(V) \in Nat /\ \A p \in S : f[p] <= Max(V)
  BY <1>5, MaxOfImage
<1>8. ASSUME NEW x \in mSessions, NEW v \in CpuVoteIds,
             mTasks[t][x] > 0, isActive[x], votes[x][v].active
      PROVE  votes[x][v].val <= Max(V)
  <2>1. <<x, v>> \in S
    BY <1>3, <1>8
  <2>2. f[<<x, v>>] = votes[x][v].val
    BY <1>6, <2>1
  <2> QED
    BY <1>7, <2>1, <2>2
<1> QED
  BY <1>2, <1>7, <1>8

-----------------------------------------------------------------------------
(* Applying the votes.                                                     *)

\* The two directions of the map change together.
LEMMA SameLinks ==
    ASSUME MapInv, MapInv', NEW t \in Tids,
           \A x \in Sessions : linkedTasks'[x][t] = linkedTasks[x][t]
    PROVE  /\ \A x \in Sessions : mTasks'[t][x] = mTasks[t][x]
           /\ t \in taskKeys' <=> t \in taskKeys
<1>1. \A x \in Sessions : mTasks'[t][x] = mTasks[t][x]
  BY DEF MapInv, Consistent, LinksAgree
<1>2. /\ t \in taskKeys <=> \E x \in Sessions : mTasks[t][x] > 0
      /\ t \in taskKeys' <=> \E x \in Sessions : mTasks'[t][x] > 0
  BY DEF MapInv, Consistent, NoEmptyEntry
<1> QED
  BY <1>1, <1>2

\* A task is listed by the sessions that list it, all of them in the map.
LEMMA LinksKnown ==
    ASSUME MapInv, NEW t \in Tids
    PROVE  /\ \A x \in Sessions : /\ linkedTasks[x][t] = mTasks[t][x] /\ linkedTasks[x][t] \in Nat
                                  /\ linkedTasks[x][t] > 0 => x \in mSessions
           /\ t \in taskKeys <=> \E x \in Sessions : linkedTasks[x][t] > 0
<1>1. \A x \in Sessions : linkedTasks[x] \in TaskBag
  BY DEF MapInv, MapTypeOK
<1>2. \A x \in Sessions : linkedTasks[x][t] \in Nat
  BY <1>1 DEF TaskBag
<1>3. \A x \in Sessions : linkedTasks[x][t] = mTasks[t][x]
  BY DEF MapInv, Consistent, LinksAgree
<1>4. \A x \in Sessions : x \notin mSessions => linkedTasks[x][t] = 0
  BY DEF MapInv, Consistent, LinksAgree
<1>5. \A x \in Sessions : linkedTasks[x][t] > 0 => x \in mSessions
  BY <1>4
<1>6. t \in taskKeys <=> \E x \in Sessions : linkedTasks[x][t] > 0
  BY <1>3 DEF MapInv, Consistent, NoEmptyEntry
<1> QED
  BY <1>2, <1>3, <1>5, <1>6

\* An active vote of a session of t accounts for its uclamp.
Accounted(t, sv, level) ==
    \E x \in Sessions, v \in CpuVoteIds :
        linkedTasks[x][t] > 0 /\ isActive[x] /\ sv[x][v].active /\ sv[x][v].val = level

\* Dead threads leave the session's list, on both sides; nothing else changes.
LEMMA DropDeadFrame ==
    ASSUME MapInv, NEW s \in Sessions, NEW dead \in SUBSET Tids, dropDeadThreads(s, dead)
    PROVE  /\ MapInv' /\ mSessions' = mSessions
           /\ \A x \in Sessions, t \in Tids \ dead : linkedTasks'[x][t] = linkedTasks[x][t]
<1>1. MapInv'
  BY DropDeadConsistent
<1>2. /\ linkedTasks' = [linkedTasks EXCEPT ![s] =
                            [t \in Tids |-> IF t \in dead THEN 0 ELSE linkedTasks[s][t]]]
      /\ linkedTasks \in [Sessions -> TaskBag] /\ mSessions' = mSessions
  BY DEF dropDeadThreads, MapInv, MapTypeOK
<1> QED
  BY <1>1, <1>2

\* Applying the votes accounts for the uclamp of every thread of the session
\* that is alive, changes no other, and forgets dead threads only.
LEMMA ApplyUclamp ==
    ASSUME TypeOK, Consistent, NEW s \in Sessions, NEW time,
           NEW sv \in [Sessions -> [VoteIds -> VoteRange]],
           \A x \in Sessions, v \in VoteIds : sv[x][v].val \in Levels \cup {0},
           applyUclampLocked(s, sv, time)
    PROVE  /\ uclamp' \in [Tids -> Levels \cup {0}]
           /\ MapInv' /\ mSessions' = mSessions
           /\ \A x \in Sessions, t \in alive : linkedTasks'[x][t] = linkedTasks[x][t]
           /\ \A t \in alive : linkedTasks[s][t] > 0 =>
                 uclamp'[t] = 0 \/ Accounted(t, sv, uclamp'[t])
           /\ \A t \in alive : ~(linkedTasks[s][t] > 0) => uclamp'[t] = uclamp[t]
<1> DEFINE linked == {t \in Tids : linkedTasks[s][t] > 0}
           range(t) == getTaskVoteRange(sv, t, time)
<1>1. /\ uclamp' = [t \in Tids |-> IF t \in linked \cap alive THEN range(t) ELSE uclamp[t]]
      /\ IF linked \subseteq alive THEN UNCHANGED mapVars ELSE dropDeadThreads(s, linked \ alive)
  BY DEF applyUclampLocked
<1>2. MapInv /\ alive \subseteq Tids /\ uclamp \in [Tids -> Levels \cup {0}]
  BY DEF TypeOK, MapInv
<1>3. linked \subseteq Tids /\ \A t \in Tids : t \in linked <=> linkedTasks[s][t] > 0
  OBVIOUS
<1>4. ASSUME NEW t \in Tids
      PROVE  range(t) = 0 \/ Accounted(t, sv, range(t))
  <2>1. \/ range(t) = 0
        \/ \E x \in Sessions, v \in CpuVoteIds :
              /\ mTasks[t][x] > 0 /\ isActive[x]
              /\ sv[x][v].active /\ sv[x][v].val = range(t)
    BY TaskVoteRangeValue
  <2> HIDE DEF range
  <2>2. \A x \in Sessions : linkedTasks[x][t] = mTasks[t][x]
    BY <1>2, LinksKnown
  <2> QED
    BY <2>1, <2>2 DEF Accounted
<1> HIDE DEF linked, range
<1>5. ASSUME NEW t \in Tids PROVE range(t) \in Levels \cup {0}
  <2>1. range(t) = 0 \/ Accounted(t, sv, range(t))
    BY <1>4
  <2> QED
    BY <2>1 DEF Accounted, VoteIds
<1>6. uclamp' \in [Tids -> Levels \cup {0}]
  <2>1. \A t \in Tids : uclamp[t] \in Levels \cup {0}
    BY <1>2
  <2> QED
    BY <1>1, <1>5, <2>1
<1>7. /\ MapInv' /\ mSessions' = mSessions
      /\ \A x \in Sessions, t \in alive : linkedTasks'[x][t] = linkedTasks[x][t]
  <2>1. CASE linked \subseteq alive
    <3>1. UNCHANGED mapVars
      BY <1>1, <2>1
    <3> QED
      BY <1>2, <3>1 DEF mapVars, MapInv, MapTypeOK, Consistent, LinksAgree, NoEmptyEntry
  <2>2. CASE ~(linked \subseteq alive)
    <3> DEFINE dead == linked \ alive
    <3>1. dead \in SUBSET Tids /\ dropDeadThreads(s, dead)
      BY <1>1, <1>3, <2>2
    <3>2. \A t \in alive : t \in Tids \ dead
      BY <1>2
    <3> HIDE DEF dead
    <3>3. /\ MapInv' /\ mSessions' = mSessions
          /\ \A x \in Sessions, t \in Tids \ dead : linkedTasks'[x][t] = linkedTasks[x][t]
      BY <1>2, <3>1, DropDeadFrame
    <3> QED
      BY <3>2, <3>3
  <2> QED
    BY <2>1, <2>2
<1>8. ASSUME NEW t \in alive
      PROVE  /\ linkedTasks[s][t] > 0 => uclamp'[t] = 0 \/ Accounted(t, sv, uclamp'[t])
             /\ ~(linkedTasks[s][t] > 0) => uclamp'[t] = uclamp[t]
  <2>1. uclamp'[t] = IF linkedTasks[s][t] > 0 THEN range(t) ELSE uclamp[t]
    BY <1>1, <1>2, <1>3
  <2>2. range(t) = 0 \/ Accounted(t, sv, range(t))
    BY <1>2, <1>4
  <2> QED
    BY <2>1, <2>2
<1> QED
  BY <1>6, <1>7, <1>8

-----------------------------------------------------------------------------
(* How one step preserves Refreshed.                                       *)

\* A session whose call has yet to switch it off, to apply, or does not change
\* its threads any more, is not settled.
LEMMA NotSettled ==
    ASSUME TypeOK, Locks, Lists, NEW a \in Callers, act[a].todo # <<>>,
           NEW k, k = act[a].todo[1],
           k.op \in {"force", "apply"} \/ (~Quiet(k) /\ k.op \notin Leaves)
    PROVE  ~Settled(act[a].sid)
<1> SUFFICES ASSUME NEW c \in Callers, act[c].sid = act[a].sid,
                    Leaving(act[c].todo, {"force", "apply"})
             PROVE  FALSE
  BY DEF Settled
<1>1. act[a].sid # None
  BY ThreadKinds DEF Locks
<1>2. c = a
  BY <1>1 DEF Locks
<1>3. PICK r \in 1 .. Len(act[a].todo) :
         /\ act[a].todo[r].op \in Leaves
         /\ \A j \in 1 .. r - 1 : act[a].todo[j].op \notin {"force", "apply"}
  BY <1>2 DEF Leaving
<1>4. \A j \in 1 .. r - 1 : Quiet(act[a].todo[j])
  BY <1>3 DEF Lists, ListOK
<1>5. k.op \notin Leaves
  BY DEF Leaves
<1>6. r # 1
  BY <1>3, <1>5
<1>7. Len(act[a].todo) \in Nat
  BY ActFields, ThreadKinds DEF TypeOK
<1>8. 1 \in 1 .. r - 1
  BY <1>6, <1>7
<1> QED
  BY <1>3, <1>4, <1>8

\* A settled session is inactive.
LEMMA SettledInactive ==
    ASSUME Inactive, NEW s, Settled(s)
    PROVE  ~isActive[s]
<1>1. PICK c \in Callers : act[c].sid = s /\ Leaving(act[c].todo, {"force", "apply"})
  BY DEF Settled
<1>2. Leaving(act[c].todo, {"force"})
  BY <1>1 DEF Leaving
<1> QED
  BY <1>1, <1>2 DEF Inactive

\* The session of a call that changes its threads next is settled.
LEMMA LeavesSettled ==
    ASSUME TypeOK, NEW a \in Callers, act[a].todo # <<>>, act[a].todo[1].op \in Leaves
    PROVE  Settled(act[a].sid)
<1>1. 1 \in 1 .. Len(act[a].todo)
  BY ActFields, ThreadKinds DEF TypeOK
<1>2. Leaving(act[a].todo, {"force", "apply"})
  <2>1. \A j \in 1 .. 1 - 1 : act[a].todo[j].op \notin {"force", "apply"}
    OBVIOUS
  <2> QED
    BY <1>1, <2>1 DEF Leaving
<1> QED
  BY <1>2 DEF Settled

\* While the active votes on t stay, so does what accounts for its uclamp.
LEMMA UnjustifiedBack ==
    ASSUME MapInv, MapInv', NEW t \in Tids, uclamp'[t] = uclamp[t], Unjustified(t)',
           \A x \in Sessions, v \in CpuVoteIds :
              linkedTasks[x][t] > 0 /\ isActive[x] /\ votes[x][v].active =>
                 /\ linkedTasks'[x][t] > 0 /\ isActive'[x]
                 /\ votes'[x][v].active /\ votes'[x][v].val = votes[x][v].val
    PROVE  Unjustified(t)
<1>1. mSessions \subseteq Sessions
  BY DEF MapInv, MapTypeOK
<1>2. \A x \in Sessions : linkedTasks[x][t] = mTasks[t][x]
  BY LinksKnown
<1>3. \A x \in Sessions : linkedTasks'[x][t] = mTasks'[t][x]
  BY DEF MapInv, Consistent, LinksAgree
<1>4. \A x \in Sessions : linkedTasks'[x][t] > 0 => x \in mSessions'
  BY DEF MapInv, Consistent, LinksAgree
<1> SUFFICES ASSUME NEW x \in mSessions, NEW v \in CpuVoteIds,
                    mTasks[t][x] > 0, isActive[x], votes[x][v].active
             PROVE  uclamp[t] > 0 /\ votes[x][v].val < uclamp[t]
  BY DEF Unjustified
<1>5. /\ mTasks'[t][x] > 0 /\ isActive'[x] /\ x \in mSessions'
      /\ votes'[x][v].active /\ votes'[x][v].val = votes[x][v].val
  BY <1>1, <1>2, <1>3, <1>4
<1> QED
  BY <1>5 DEF Unjustified

\* One step of thread a preserves Refreshed when it justifies the uclamp it
\* leaves, or leaves a thread that will set it anew.
LEMMA RefreshedStep ==
    ASSUME TypeOK, Lists, Refreshed, NEW a \in Threads, NEW more, NEW stamp,
           Stepping(a, more, stamp), UNCHANGED alive, NEW s, s = act[a].sid,
           \A t \in alive : Unjustified(t)' =>
              \/ Refresher(a, t)'
              \/ /\ Unjustified(t)
                 /\ \A x \in Sessions : x # s => linkedTasks'[x][t] = linkedTasks[x][t]
                 /\ \/ ~(linkedTasks[s][t] > 0)
                    \/ Settled(s)
                    \/ /\ ~Applies(act[a].todo[1]) /\ (Settled(s)' => Settled(s))
                       /\ linkedTasks'[s][t] = linkedTasks[s][t]
    PROVE  Refreshed'
<1> SUFFICES ASSUME NEW t \in alive, Unjustified(t)', ~Refresher(a, t)'
             PROVE  \E b \in Threads : Refresher(b, t)'
  BY DEF Refreshed
<1>1. /\ Unjustified(t)
      /\ \A x \in Sessions : x # s => linkedTasks'[x][t] = linkedTasks[x][t]
      /\ \/ ~(linkedTasks[s][t] > 0)
         \/ Settled(s)
         \/ /\ ~Applies(act[a].todo[1]) /\ (Settled(s)' => Settled(s))
            /\ linkedTasks'[s][t] = linkedTasks[s][t]
  OBVIOUS
<1>2. PICK b \in Threads : Refresher(b, t)
  BY <1>1 DEF Refreshed
<1>3. act[b].sid \in Sessions /\ linkedTasks[act[b].sid][t] > 0 /\ ~Settled(act[b].sid)
  BY <1>2 DEF Refresher
<1>4. PICK u \in Sessions : u = act[b].sid /\ linkedTasks[u][t] > 0 /\ ~Settled(u)
  BY <1>3
<1>5. CASE u = s
  <2>1. ~Applies(act[a].todo[1]) /\ (Settled(s)' => Settled(s)) /\ linkedTasks'[u][t] > 0
    BY <1>1, <1>4, <1>5
  <2>2. Settled(u)' => Settled(u)
    BY <1>5, <2>1
  <2>3. Refresher(b, t)'
    BY <1>2, <1>4, <2>1, <2>2, RefresherKept
  <2> QED
    BY <2>3
<1>6. CASE u # s
  <2>1. linkedTasks'[u][t] > 0 /\ b # a
    BY <1>1, <1>4, <1>6
  <2>2. Settled(u)' => Settled(u)
    BY <1>4, <1>6, SettledBack
  <2>3. Refresher(b, t)'
    BY <1>2, <1>4, <2>1, <2>2, RefresherKept
  <2> QED
    BY <2>3
<1> QED
  BY <1>5, <1>6

-----------------------------------------------------------------------------
(* The steps, one lemma each.                                              *)

\* What every step of a thread has in common.
LEMMA StepBasics ==
    ASSUME PSInv, NEW a \in Threads, NEW more, NEW stamp, Stepping(a, more, stamp)
    PROVE  /\ TypeOK /\ Consistent /\ Locks /\ Lists /\ Membership /\ VoteLevels
           /\ Inactive /\ Refreshed /\ Profiles /\ MapInv
           /\ Locks' /\ Lists'
           /\ act \in [Threads -> Activity] /\ act' \in [Threads -> Activity]
           /\ act[a].sid \in Sessions /\ act[a].todo # <<>>
           /\ act[a].todo \in Seq(Steps) /\ act[a].todo[1] \in Steps
           /\ 1 \in 1 .. Len(act[a].todo) /\ Len(act[a].todo) \in Nat
           /\ more \in Seq(Steps)
           /\ \A b \in Threads : b # a => act'[b] = act[b]
           /\ act'[a].todo = more \o Tail(act[a].todo)
           /\ act'[a].todo # <<>> => act'[a].sid = act[a].sid
           /\ Allowed(act[a].todo[1], more, stamp)
<1>1. /\ TypeOK /\ Consistent /\ Locks /\ Lists /\ Membership /\ VoteLevels
      /\ Inactive /\ Refreshed /\ Profiles /\ MapInv
  BY DEF PSInv, MapInv, TypeOK
<1>2. act \in [Threads -> Activity]
  BY <1>1 DEF TypeOK
<1>3. Locks' /\ Lists'
  BY <1>1, <1>2, LocksStep, ListsStep
<1>4. /\ act[a].todo # <<>> /\ more \in Seq(Steps) /\ act' \in [Threads -> Activity]
      /\ \A b \in Threads : b # a => act'[b] = act[b]
      /\ act'[a].todo = more \o Tail(act[a].todo)
      /\ act'[a].todo # <<>> => act'[a].sid = act[a].sid
      /\ Allowed(act[a].todo[1], more, stamp)
  BY DEF Stepping, Moved
<1>5. /\ act[a].sid \in Sessions /\ act[a].todo \in Seq(Steps) /\ act[a].todo[1] \in Steps
      /\ 1 \in 1 .. Len(act[a].todo) /\ Len(act[a].todo) \in Nat
  BY <1>1, <1>2, <1>4, OnSession, ActFields
<1> QED
  BY <1>1, <1>2, <1>3, <1>4, <1>5

\* A call on a session that is not there any more, and a step that changes
\* neither the map nor which votes count.
LEMMA QuietStep ==
    ASSUME PSInv, NEW a \in Threads, NEW more, NEW stamp, Stepping(a, more, stamp), TypeOK',
           UNCHANGED <<mSessions, linkedTasks, mTasks, taskKeys, state, targetNs, isActive,
                       uclamp, alive, qos>>,
           NEW k, k = act[a].todo[1], k.op \notin {"add", "clearProfile"},
           \A m \in 1 .. Len(more) : more[m].op # "setProfile",
           \A x \in Sessions, v \in CpuVoteIds :
              votes'[x][v].active = votes[x][v].active /\ votes'[x][v].val = votes[x][v].val,
           \A x \in Sessions : x \notin mSessions => votes'[x] = votes[x], VoteLevels',
           act[a].sid \notin mSessions \/ (~Applies(k) /\ k.op # "force")
    PROVE  PSInv'
<1>1. /\ TypeOK /\ Consistent /\ Locks /\ Lists /\ Membership /\ VoteLevels
      /\ Inactive /\ Refreshed /\ Profiles /\ MapInv
      /\ Locks' /\ Lists' /\ act[a].sid \in Sessions /\ act[a].todo # <<>>
      /\ act'[a].todo # <<>> => act'[a].sid = act[a].sid
      /\ \A b \in Threads : b # a => act'[b] = act[b]
  BY StepBasics
<1>2. Consistent' /\ MapInv'
  BY <1>1 DEF MapInv, MapTypeOK, Consistent, LinksAgree, NoEmptyEntry
<1>3. Membership'
  BY <1>1, MembershipKept
<1>4. VoteLevels'
  OBVIOUS
<1>5. Inactive'
  <2>1. CASE act[a].sid \in mSessions
    BY <1>1, <2>1, InactiveKept
  <2>2. CASE act[a].sid \notin mSessions
    <3> SUFFICES ASSUME NEW c \in Callers, Leaving(act'[c].todo, {"force"})
                 PROVE  ~isActive'[act'[c].sid]
      BY DEF Inactive
    <3>1. CASE c # a
      BY <1>1, <3>1, ThreadKinds DEF Inactive
    <3>2. CASE c = a
      <4>1. act'[c].todo # <<>>
        BY DEF Leaving
      <4>2. ~isActive[act[a].sid]
        BY <1>1, <2>2 DEF Membership, SessionMembership
      <4> QED
        BY <1>1, <3>2, <4>1, <4>2
    <3> QED
      BY <3>1, <3>2
  <2> QED
    BY <2>1, <2>2
<1>6. Refreshed'
  <2>1. PICK s \in Sessions : s = act[a].sid
    BY <1>1
  <2> SUFFICES ASSUME NEW t \in alive, Unjustified(t)'
               PROVE  /\ Unjustified(t)
                      /\ \/ ~(linkedTasks[s][t] > 0)
                         \/ ~Applies(act[a].todo[1]) /\ (Settled(s)' => Settled(s))
    BY <1>1, <2>1, RefreshedStep
  <2>2. t \in Tids
    BY <1>1 DEF TypeOK
  <2>3. Unjustified(t)
    BY <1>1, <1>2, <2>2, UnjustifiedBack
  <2>4. CASE s \notin mSessions
    BY <1>1, <2>2, <2>3, <2>4, LinksKnown
  <2>5. CASE s \in mSessions
    <3>1. ~Applies(k) /\ k.op # "force"
      BY <2>1, <2>5
    <3>2. k.op # "apply"
      BY <3>1 DEF Applies
    <3>3. Settled(s)' => Settled(s)
      BY <1>1, <2>1, <3>1, <3>2, SettledBack
    <3> QED
      BY <2>3, <3>1, <3>3
  <2> QED
    BY <2>4, <2>5
<1>7. Profiles'
  BY <1>1, ProfilesKept DEF TypeOK
<1> QED
  BY <1>1, <1>2, <1>3, <1>4, <1>5, <1>6, <1>7 DEF PSInv

\* A session is switched on or off, and its votes will be applied.
LEMMA SwitchStep ==
    ASSUME PSInv, NEW a \in Threads, Stepping(a, Refresh, NoStamp), TypeOK',
           NEW k, k = act[a].todo[1], k.op \in {"force", "setActive"},
           NEW s \in Sessions, s = act[a].sid, s \in mSessions,
           isActive' = [isActive EXCEPT ![s] = k.flag],
           UNCHANGED <<mSessions, linkedTasks, mTasks, taskKeys, state, targetNs, votes,
                       uclamp, alive, qos>>
    PROVE  PSInv'
<1>1. /\ TypeOK /\ Consistent /\ Locks /\ Lists /\ Membership /\ VoteLevels
      /\ Inactive /\ Refreshed /\ Profiles /\ MapInv
      /\ Locks' /\ Lists' /\ act[a].todo # <<>>
      /\ act'[a].todo # <<>> => act'[a].sid = act[a].sid
      /\ act[a].todo \in Seq(Steps) /\ Refresh \in Seq(Steps)
      /\ act'[a].todo = Refresh \o Tail(act[a].todo)
      /\ \A b \in Threads : b # a => act'[b] = act[b]
      /\ Allowed(act[a].todo[1], Refresh, NoStamp)
      /\ 1 \in 1 .. Len(act[a].todo)
  BY StepBasics
<1>2. Consistent' /\ MapInv'
  BY <1>1 DEF MapInv, MapTypeOK, Consistent, LinksAgree, NoEmptyEntry
<1>3. a \in Callers
  <2>1. HandlerListOK(act[Handler].todo, act[Handler].stamp)
    BY <1>1 DEF Lists
  <2>2. a = Handler => k.op \in {"timeout", "apply", "ubRead", "ubDo"}
    BY <1>1, <2>1 DEF HandlerListOK
  <2> QED
    BY <2>2, ThreadKinds
<1>4. \A x \in Sessions : x # s => isActive'[x] = isActive[x]
  BY <1>1 DEF TypeOK
<1>5. Membership'
  BY <1>1, <1>4, MembershipKept
<1>6. VoteLevels'
  BY <1>1 DEF VoteLevels
<1>7. Inactive'
  <2> SUFFICES ASSUME NEW c \in Callers, Leaving(act'[c].todo, {"force"})
               PROVE  ~isActive'[act'[c].sid]
    BY DEF Inactive
  <2>1. act'[c].todo # <<>>
    BY DEF Leaving
  <2>2. CASE c # a
    <3>1. act'[c] = act[c] /\ act[c].todo # <<>>
      BY <1>1, <2>1, <2>2, ThreadKinds
    <3>2. act[c].sid \in Sessions
      BY <1>1, <3>1, OnSession, ThreadKinds DEF TypeOK
    <3>3. act[c].sid # s
      BY <1>1, <1>3, <2>2, <3>2, ThreadKinds DEF Locks
    <3>4. ~isActive[act[c].sid]
      BY <1>1, <3>1 DEF Inactive
    <3> QED
      BY <1>4, <3>1, <3>2, <3>3, <3>4
  <2>3. CASE c = a
    <3> DEFINE q == act[a].todo
               r == act'[a].todo
               old == act[a].stamp
               K == {"force"}
    <3>1. /\ q \in Seq(Steps) /\ q # <<>> /\ Refresh \in Seq(Steps) /\ r = Refresh \o Tail(q)
          /\ ListOK(q, old) /\ Allowed(q[1], Refresh, NoStamp) /\ Leaving(r, K)
      BY <1>1, <1>3, <2>3 DEF Lists
    <3> HIDE DEF q, r, old, K
    <3>2. Quiet(q[1])
      BY <3>1, LeavingBack
    <3>3. k.flag = FALSE
      BY <3>2 DEF q, Quiet
    <3>4. isActive'[s] = FALSE
      BY <1>1, <3>3 DEF TypeOK
    <3> QED
      BY <1>1, <2>1, <2>3, <3>4
  <2> QED
    BY <2>2, <2>3
<1>8. Refreshed'
  <2> SUFFICES ASSUME NEW t \in alive, Unjustified(t)'
               PROVE  Refresher(a, t)' \/ (Unjustified(t) /\ ~(linkedTasks[s][t] > 0))
    BY <1>1, RefreshedStep
  <2>1. t \in Tids
    BY <1>1 DEF TypeOK
  <2>2. CASE linkedTasks[s][t] > 0
    <3>1. ~Settled(s)
      BY <1>1, <1>3, NotSettled DEF Quiet, Leaves
    <3>2. ~Settled(s)'
      BY <1>1, <3>1, SettledBack, RefreshList
    <3>3. WillApply(act'[a].todo) /\ act'[a].sid = s
      <4> DEFINE q == act[a].todo
                 r == act'[a].todo
      <4>1. q \in Seq(Steps) /\ q # <<>> /\ Refresh \in Seq(Steps) /\ r = Refresh \o Tail(q)
        BY <1>1
      <4> HIDE DEF q, r
      <4>2. 1 \in 1 .. Len(r) /\ r[1] = Refresh[1]
        BY <4>1, Spliced, RefreshList
      <4>3. WillApply(r)
        BY <4>2, RefreshList DEF WillApply, Applies
      <4>4. r # <<>>
        BY <4>2
      <4> QED
        BY <1>1, <4>3, <4>4 DEF r
    <3>4. Refresher(a, t)'
      BY <2>2, <3>2, <3>3 DEF Refresher, Settled
    <3> QED
      BY <3>4
  <2>3. CASE ~(linkedTasks[s][t] > 0)
    <3>1. Unjustified(t)
      BY <1>1, <1>2, <1>4, <2>1, <2>3, UnjustifiedBack
    <3> QED
      BY <2>3, <3>1
  <2> QED
    BY <2>2, <2>3
<1>9. Profiles'
  <2>1. \A m \in 1 .. Len(Refresh) : Refresh[m].op # "setProfile"
    <3>1. \A m \in 1 .. Len(Refresh) : m = 1 \/ m = 2 \/ m = 3
      BY RefreshList
    <3> QED
      BY <3>1, RefreshList
  <2> QED
    BY <1>1, <2>1, ProfilesKept DEF TypeOK
<1> QED
  BY <1>1, <1>2, <1>5, <1>6, <1>7, <1>8, <1>9 DEF PSInv

\* Only callers change sessions; the worker's thread handles timeouts.
LEMMA OnlyCallers ==
    ASSUME TypeOK, Locks, Lists, NEW a \in Threads, act[a].todo # <<>>,
           act[a].todo[1].op \notin {"timeout", "apply", "ubRead", "ubDo"}
    PROVE  a \in Callers /\ \A c \in Callers : c # a => act[c].sid # act[a].sid
<1>1. 1 \in 1 .. Len(act[a].todo)
  BY ActFields DEF TypeOK
<1>2. HandlerListOK(act[Handler].todo, act[Handler].stamp)
  BY DEF Lists
<1>3. a # Handler
  BY <1>1, <1>2 DEF HandlerListOK
<1>4. a \in Callers
  BY <1>3, ThreadKinds
<1>5. act[a].sid # None
  BY DEF Locks
<1> QED
  BY <1>4, <1>5 DEF Locks

\* A step that changes whether its own session is active.
LEMMA InactiveStep ==
    ASSUME TypeOK, Locks, Lists, Inactive, NEW a \in Threads, NEW more, NEW stamp,
           Stepping(a, more, stamp),
           act[a].todo[1].op \notin {"timeout", "apply", "ubRead", "ubDo"},
           NEW s \in Sessions, s = act[a].sid,
           \A x \in Sessions : x # s => isActive'[x] = isActive[x],
           Leaving(act'[a].todo, {"force"}) => ~isActive'[s]
    PROVE  Inactive'
<1>1. /\ \A b \in Threads : b # a => act'[b] = act[b]
      /\ act[a].todo # <<>>
      /\ act'[a].todo # <<>> => act'[a].sid = act[a].sid
  BY DEF Stepping, Moved
<1>2. a \in Callers /\ \A c \in Callers : c # a => act[c].sid # s
  BY <1>1, OnlyCallers
<1> SUFFICES ASSUME NEW c \in Callers, Leaving(act'[c].todo, {"force"})
             PROVE  ~isActive'[act'[c].sid]
  BY DEF Inactive
<1>3. act'[c].todo # <<>>
  BY DEF Leaving
<1>4. CASE c # a
  <2>1. act'[c] = act[c] /\ act[c].todo # <<>>
    BY <1>1, <1>3, <1>4, ThreadKinds
  <2>2. act[c].sid \in Sessions
    BY <2>1, OnSession, ThreadKinds DEF TypeOK
  <2>3. ~isActive[act[c].sid]
    BY <2>1 DEF Inactive
  <2> QED
    BY <1>2, <1>4, <2>1, <2>2, <2>3
<1>5. CASE c = a
  BY <1>1, <1>3, <1>5
<1> QED
  BY <1>4, <1>5

\* A session is added, active and without threads.
LEMMA AddStep ==
    ASSUME PSInv, NEW a \in Threads, AddSession(a)
    PROVE  PSInv'
<1>0. act \in [Threads -> Activity] /\ Busy(a)
  BY DEF PSInv, TypeOK, AddSession, At
<1>s. Stepping(a, <<>>, NoStamp)
  BY <1>0, DoneSteps DEF AddSession
<1>1. /\ TypeOK /\ Consistent /\ Locks /\ Lists /\ Membership /\ VoteLevels
      /\ Inactive /\ Refreshed /\ Profiles /\ MapInv
      /\ Locks' /\ Lists' /\ act[a].todo # <<>> /\ act[a].sid \in Sessions
      /\ act'[a].todo # <<>> => act'[a].sid = act[a].sid
      /\ act[a].todo \in Seq(Steps)
      /\ \A b \in Threads : b # a => act'[b] = act[b]
      /\ 1 \in 1 .. Len(act[a].todo) /\ act' \in [Threads -> Activity]
      /\ act'[a].todo = <<>> \o Tail(act[a].todo)
  BY <1>s, StepBasics
<1>2. act[a].todo[1].op = "add"
  BY <1>0, <1>1, ActFields DEF AddSession, At
<1>3. PICK s \in Sessions : s = act[a].sid
  BY <1>1
<1>4. a \in Callers /\ \A c \in Callers : c # a => act[c].sid # s
  BY <1>1, <1>2, <1>3, OnlyCallers
<1>5. /\ add(s, NoTasks) /\ isActive' = [isActive EXCEPT ![s] = TRUE]
      /\ votes' = [votes EXCEPT ![s] = [NoVotes EXCEPT !["CPU_VOTE_DEFAULT"] =
                                          NewVote(FALSE, now, targetNs[s], 0)]]
      /\ UNCHANGED <<state, isActiveDesc, threadIds, targetNs, uclamp, qos, gpuCapacity,
                     taBoostOff, now, events, alive, calls, stalls>>
  BY <1>3 DEF AddSession, descVars, kernelVars, bounds
<1>6. NoTasks \in TaskBag /\ \A t \in Tids : NoTasks[t] = 0
  BY DEF NoTasks, TaskBag
<1>7. MapInv'
  BY <1>1, <1>5, <1>6, AddConsistent
<1>8. /\ s \notin mSessions /\ mSessions' = mSessions \cup {s}
      /\ \A x \in Sessions, t \in Tids : linkedTasks'[x][t] = linkedTasks[x][t]
      /\ \A t \in Tids : linkedTasks[s][t] = 0
      /\ taskKeys \subseteq taskKeys'
  BY <1>1, <1>5, <1>6 DEF add, MapInv, MapTypeOK, Consistent, LinksAgree
<1>9. /\ \A x \in Sessions : x # s => votes'[x] = votes[x] /\ isActive'[x] = isActive[x]
      /\ votes' \in [Sessions -> [VoteIds -> VoteRange]]
      /\ \A v \in VoteIds : votes'[s][v].val = 0
      /\ isActive' \in [Sessions -> BOOLEAN]
  <2>0. targetNs[s] \in Targets \cup {0} /\ now \in 0 .. MaxTime
    BY <1>1 DEF TypeOK
  <2>a. now \in Nat
    BY <2>0, Numbers
  <2>b. targetNs[s] \in Nat
    BY <2>0, Numbers
  <2>c. votes \in [Sessions -> [VoteIds -> VoteRange]] /\ isActive \in [Sessions -> BOOLEAN]
    BY <1>1 DEF TypeOK
  <2>1. /\ now \in Nat /\ targetNs[s] \in Nat /\ votes \in [Sessions -> [VoteIds -> VoteRange]]
        /\ isActive \in [Sessions -> BOOLEAN]
    BY <2>a, <2>b, <2>c
  <2> DEFINE n == NewVote(FALSE, now, targetNs[s], 0)
             sv == [NoVotes EXCEPT !["CPU_VOTE_DEFAULT"] = n]
  <2>2. n \in VoteRange /\ n.val = 0
    BY <2>1 DEF NewVote, VoteRange
  <2>3. NoVotes \in [VoteIds -> VoteRange] /\ \A v \in VoteIds : NoVotes[v].val = 0
    BY DEF NoVotes, NoVote, VoteRange
  <2> HIDE DEF n
  <2>4. sv \in [VoteIds -> VoteRange] /\ \A v \in VoteIds : sv[v].val = 0
    BY <2>2, <2>3
  <2>5. votes' = [votes EXCEPT ![s] = sv]
    BY <1>5 DEF n
  <2> HIDE DEF sv
  <2> QED
    BY <1>5, <2>1, <2>4, <2>5
<1>10. TypeOK'
  BY <1>1, <1>5, <1>7, <1>9 DEF TypeOK, MapInv
<1>11. Membership'
  <2>0. CallMembership(s, act[a].todo)
    BY <1>1, <1>3, <1>4 DEF Membership
  <2>1. state[s] = "open"
    BY <1>1, <1>2, <2>0 DEF CallMembership
  <2>2. ASSUME NEW c \in Callers PROVE CallMembership(act[c].sid, act[c].todo)'
    <3>1. CASE c # a
      <4>1. act'[c] = act[c] /\ CallMembership(act[c].sid, act[c].todo) /\ act[c].sid # s
        BY <1>1, <1>4, <3>1, ThreadKinds DEF Membership
      <4> QED
        BY <1>5, <1>8, <4>1 DEF CallMembership
    <3>2. CASE c = a
      <4> SUFFICES ASSUME NEW i \in 1 .. Len(act'[a].todo)
                   PROVE  act'[a].todo[i].op \notin {"add", "remove"} /\ act'[a].sid \in mSessions'
        BY <3>2 DEF CallMembership
      <4>1. act'[a].todo # <<>>
        OBVIOUS
      <4>2. act'[a].sid \in mSessions'
        BY <1>1, <1>3, <1>8, <4>1
      <4>3. PICK j \in 2 .. Len(act[a].todo) : act'[a].todo[i] = act[a].todo[j]
        BY <1>0, <1>s, Origin, RefreshList
      <4>4. j \in 1 .. Len(act[a].todo) /\ j # 1
        BY <1>1
      <4>5. act[a].todo[j].op # "add"
        BY <1>1, <1>4, <4>4 DEF Lists, ListOK
      <4>6. act[a].todo[j].op # "remove"
        BY <1>8, <2>0, <4>4 DEF CallMembership
      <4> QED
        BY <4>2, <4>3, <4>5, <4>6
    <3> QED
      BY <3>1, <3>2
  <2>3. ASSUME NEW x \in Sessions PROVE SessionMembership(x)'
    <3>1. SessionMembership(x)
      BY <1>1 DEF Membership
    <3>2. CASE x = s
      BY <1>5, <1>8, <2>1, <3>1, <3>2 DEF SessionMembership
    <3>3. CASE x # s
      <4>1. \A c \in Callers : act[c].sid = x => act'[c] = act[c]
        BY <1>1, <1>3, <3>3, ThreadKinds
      <4> QED
        BY <1>5, <1>8, <1>9, <3>1, <3>3, <4>1 DEF SessionMembership
    <3> QED
      BY <3>2, <3>3
  <2> QED
    BY <2>2, <2>3 DEF Membership
<1>12. VoteLevels'
  BY <1>1, <1>9 DEF VoteLevels
<1>13. Inactive'
  <2>1. ~Leaving(act'[a].todo, {"force"})
    <3> DEFINE q == act[a].todo
               r == act'[a].todo
    <3>1. q \in Seq(Steps) /\ q # <<>> /\ <<>> \in Seq(Steps) /\ r = <<>> \o Tail(q)
      BY <1>1, RefreshList
    <3>2. 2 <= Len(q) /\ q[2].op = "force"
      BY <1>1, <1>2, <1>4 DEF Lists, ListOK
    <3> HIDE DEF q, r
    <3>3. \A i \in 2 .. Len(q) : r[i + Len(<<>>) - 1] = q[i]
      BY <3>1, Spliced
    <3>4. Len(q) \in Nat /\ Len(<<>>) = 0
      BY <3>1, Spliced, RefreshList
    <3>5. 2 \in 2 .. Len(q) /\ 2 + Len(<<>>) - 1 = 1
      BY <3>2, <3>4
    <3>6. r[1].op = "force"
      BY <3>2, <3>3, <3>5
    <3>7. ASSUME NEW n \in 1 .. Len(r), r[n].op \in Leaves,
                 \A j \in 1 .. n - 1 : r[j].op \notin {"force"}
          PROVE  FALSE
      <4>1. n # 1
        BY <3>6, <3>7 DEF Leaves
      <4>2. Len(r) \in Nat
        BY <3>1, Spliced
      <4>3. 1 \in 1 .. n - 1
        BY <4>1, <4>2
      <4> QED
        BY <3>6, <3>7, <4>3
    <3> QED
      BY <3>7 DEF Leaving, r
  <2> QED
    BY <1>1, <1>s, <1>2, <1>3, <1>9, <2>1, InactiveStep
<1>14. Refreshed'
  <2> SUFFICES ASSUME NEW t \in alive, Unjustified(t)'
               PROVE  Unjustified(t)
    <3>1. alive \subseteq Tids
      BY <1>1 DEF TypeOK
    <3> QED
      BY <1>1, <1>s, <1>3, <1>5, <1>8, <3>1, RefreshedStep
  <2>1. t \in Tids
    BY <1>1 DEF TypeOK
  <2>2. ASSUME NEW x \in Sessions, NEW v \in CpuVoteIds, linkedTasks[x][t] > 0
        PROVE  linkedTasks'[x][t] > 0 /\ votes'[x] = votes[x] /\ isActive'[x] = isActive[x]
    <3>1. x # s
      BY <1>8, <2>1, <2>2
    <3> QED
      BY <1>8, <1>9, <2>1, <2>2, <3>1
  <2>3. uclamp'[t] = uclamp[t]
    BY <1>5
  <2> QED
    BY <1>1, <1>7, <2>1, <2>2, <2>3, UnjustifiedBack
<1>15. Profiles'
  <2>1. \A x \in Sessions, t \in alive : linkedTasks'[x][t] = linkedTasks[x][t]
    BY <1>1, <1>8 DEF TypeOK
  <2>2. \A m \in 1 .. Len(<<>>) : <<>>[m].op # "setProfile"
    BY RefreshList
  <2>3. UNCHANGED <<alive, qos>> /\ \A t \in alive : t \in taskKeys => t \in taskKeys'
    BY <1>5, <1>8
  <2>4. act[a].todo[1].op # "clearProfile"
    BY <1>2
  <2> QED
    BY <1>1, <1>s, <2>1, <2>2, <2>3, <2>4, ProfilesKept
<1> QED
  BY <1>1, <1>7, <1>10, <1>11, <1>12, <1>13, <1>14, <1>15 DEF PSInv, MapInv

\* The threads of a settled session change: no uclamp they have is one of its
\* votes, and the threads no session contains any more lose their profile next.
LEMMA ChangeThreads ==
    ASSUME PSInv, NEW a \in Threads, NEW more, Stepping(a, more, NoStamp),
           act[a].todo[1].op \in Leaves, MapInv', NEW s \in Sessions, s = act[a].sid,
           NEW k, k.op = "clearProfile",
           k.tids = {t \in Tids : linkedTasks[s][t] > 0 /\ t \notin taskKeys'},
           \E m \in 1 .. Len(more) : more[m] = k,
           \A m \in 1 .. Len(more) : more[m].op = "setProfile" =>
              \A t \in more[m].tids : linkedTasks'[s][t] > 0,
           \A x \in Sessions : x # s =>
              linkedTasks'[x] = linkedTasks[x] /\ votes'[x] = votes[x] /\ isActive'[x] = isActive[x],
           isActive'[s] => isActive[s],
           UNCHANGED <<uclamp, alive, qos>>
    PROVE  Inactive' /\ Refreshed' /\ Profiles'
<1>1. /\ TypeOK /\ Locks /\ Lists /\ Inactive /\ Refreshed /\ Profiles /\ MapInv
      /\ act[a].todo # <<>> /\ act[a].todo \in Seq(Steps) /\ more \in Seq(Steps)
      /\ act \in [Threads -> Activity] /\ act' \in [Threads -> Activity]
      /\ act'[a].todo # <<>> => act'[a].sid = act[a].sid
      /\ act'[a].todo = more \o Tail(act[a].todo)
      /\ \A b \in Threads : b # a => act'[b] = act[b]
      /\ Allowed(act[a].todo[1], more, NoStamp)
      /\ 1 \in 1 .. Len(act[a].todo)
  BY StepBasics
<1>o. \A i \in 1 .. Len(act'[a].todo) :
         \/ \E m \in 1 .. Len(more) : act'[a].todo[i] = more[m]
         \/ \E j \in 2 .. Len(act[a].todo) : act'[a].todo[i] = act[a].todo[j]
  BY <1>1, Origin
<1>2. act[a].todo[1].op \notin {"timeout", "apply", "ubRead", "ubDo"}
  BY DEF Leaves
<1>3. a \in Callers /\ \A c \in Callers : c # a => act[c].sid # s
  BY <1>1, <1>2, OnlyCallers
<1>4. Settled(s) /\ ~isActive[s]
  BY <1>1, <1>3, LeavesSettled, SettledInactive
<1>5. Inactive'
  BY <1>1, <1>2, <1>4, InactiveStep
<1>6. Refreshed'
  <2> SUFFICES ASSUME NEW t \in alive, Unjustified(t)' PROVE Unjustified(t)
    BY <1>1, <1>4, RefreshedStep
  <2>1. t \in Tids
    BY <1>1 DEF TypeOK
  <2>2. ASSUME NEW x \in Sessions, isActive[x]
        PROVE  linkedTasks'[x] = linkedTasks[x] /\ votes'[x] = votes[x] /\ isActive'[x] = isActive[x]
    BY <1>4, <2>2
  <2>3. uclamp'[t] = uclamp[t]
    OBVIOUS
  <2> QED
    BY <1>1, <2>1, <2>2, <2>3, UnjustifiedBack
<1>7. ASSUME NEW c \in Callers, NEW i \in 1 .. Len(act'[c].todo),
             act'[c].todo[i].op = "setProfile", NEW t \in act'[c].todo[i].tids \cap alive
      PROVE  linkedTasks'[act'[c].sid][t] > 0
  <2>1. act'[c].todo # <<>>
    BY <1>7
  <2>2. CASE c # a
    <3>1. act'[c] = act[c] /\ act[c].sid # s /\ act[c].todo # <<>>
      BY <1>1, <1>3, <2>1, <2>2, ThreadKinds
    <3>2. act[c].sid \in Sessions
      BY <1>1, <3>1, OnSession, ThreadKinds
    <3>3. linkedTasks[act[c].sid][t] > 0
      BY <1>1, <1>7, <3>1 DEF Profiles
    <3> QED
      BY <3>1, <3>2, <3>3
  <2>3. CASE c = a
    <3>1. act'[c].sid = s
      BY <1>1, <2>1, <2>3
    <3>2. CASE \E m \in 1 .. Len(more) : act'[a].todo[i] = more[m]
      BY <1>7, <2>3, <3>1, <3>2
    <3>3. ASSUME NEW j \in 2 .. Len(act[a].todo), act'[a].todo[i] = act[a].todo[j]
          PROVE  FALSE
      <4>0. Len(act[a].todo) \in Nat
        BY <1>1, Origin
      <4>1. j \in 1 .. Len(act[a].todo) /\ j # 1
        BY <4>0
      <4>2. act[a].todo[j].op = "setProfile"
        BY <1>7, <2>3, <3>3
      <4> QED
        BY <1>1, <1>3, <4>1, <4>2 DEF Lists, ListOK
    <3>4. i \in 1 .. Len(act'[a].todo)
      BY <2>3
    <3>5. \/ \E m \in 1 .. Len(more) : act'[a].todo[i] = more[m]
          \/ \E j \in 2 .. Len(act[a].todo) : act'[a].todo[i] = act[a].todo[j]
      BY <1>o, <3>4
    <3>6. ~\E j \in 2 .. Len(act[a].todo) : act'[a].todo[i] = act[a].todo[j]
      BY <3>3
    <3>7. \E m \in 1 .. Len(more) : act'[a].todo[i] = more[m]
      BY <3>5, <3>6, Zenon
    <3> QED
      BY <3>2, <3>7, Zenon
  <2> QED
    BY <2>2, <2>3
<1>8. ASSUME NEW t \in (alive \cap qos) \ taskKeys' PROVE ProfileClearPending(t)'
  <2>0. t \in Tids
    BY <1>1 DEF TypeOK
  <2>1. CASE t \notin taskKeys
    <3>1. ProfileClearPending(t)
      BY <1>1, <1>8, <2>1 DEF Profiles
    <3>2. act[a].todo[1].op # "clearProfile"
      BY DEF Leaves
    <3> QED
      BY <1>1, <3>1, <3>2, PendingKept
  <2>2. CASE t \in taskKeys
    <3>1. PICK x \in Sessions : linkedTasks[x][t] > 0
      BY <1>1, <2>0, <2>2, LinksKnown
    <3>2. ~(linkedTasks'[x][t] > 0)
      <4>1. t \in taskKeys' <=> \E y \in Sessions : mTasks'[t][y] > 0
        BY <2>0 DEF MapInv, Consistent, NoEmptyEntry
      <4>2. linkedTasks'[x][t] = mTasks'[t][x]
        BY <2>0 DEF MapInv, Consistent, LinksAgree
      <4> QED
        BY <1>8, <4>1, <4>2
    <3>3. x = s
      BY <3>1, <3>2
    <3>4. t \in k.tids
      BY <1>8, <2>0, <3>1, <3>3
    <3>5. PICK m \in 1 .. Len(more) : more[m] = k
      OBVIOUS
    <3>6. PICK i \in 1 .. Len(act'[a].todo) : act'[a].todo[i] = k
      BY <1>1, <3>5, Origin
    <3>7. DOMAIN act'[a].todo = 1 .. Len(act'[a].todo)
      BY <1>1, Origin, LenProperties
    <3> QED
      BY <3>4, <3>6, <3>7 DEF ProfileClearPending
  <2> QED
    BY <2>1, <2>2
<1>9. Profiles'
  BY <1>7, <1>8 DEF Profiles
<1> QED
  BY <1>5, <1>6, <1>9

\* setThreadsFromPowerSession changes the threads of a session it switched off.
LEMMA ReplaceStep ==
    ASSUME PSInv, NEW a \in Threads, ReplaceThreads(a)
    PROVE  PSInv'
<1>0. act \in [Threads -> Activity] /\ Busy(a)
  BY DEF PSInv, TypeOK, ReplaceThreads, At
<1>1. Next1(a) = act[a].todo[1] /\ Next1(a).op = "replace" /\ Next1(a) \in Steps
  BY <1>0, ActFields DEF ReplaceThreads, At, Busy
<1>2. PICK s \in Sessions : s = act[a].sid
  BY <1>0, OnSession DEF Busy, PSInv
<1>3. PICK tids \in TaskBag : tids = Next1(a).tids
  BY <1>1, StepFields
<1>4. PICK added \in SUBSET Tids : added = addedThreads(tids)
  BY DEF addedThreads
<1>5. PICK removed \in SUBSET Tids :
         removed = {t \in Tids : linkedTasks[s][t] > 0 /\ t \notin taskKeys'}
  OBVIOUS
<1>6. PICK k : k = [op |-> "clearProfile", tids |-> removed]
  OBVIOUS
<1>7. PICK more : more = <<[op |-> "setProfile", tids |-> added], k>>
  OBVIOUS
<1>8. /\ replace(s, tids) /\ Continue(a, more)
      /\ UNCHANGED <<state, isActiveDesc, threadIds, targetNs, isActive, votes, uclamp, qos,
                     gpuCapacity, taBoostOff, now, events, alive, calls, stalls>>
  <2>1. removedThreads(s) = removed
    BY <1>5 DEF removedThreads
  <2> QED
    BY <1>2, <1>3, <1>4, <1>6, <1>7, <2>1
    DEF ReplaceThreads, descVars, sveVars, kernelVars, bounds
<1>s. Stepping(a, more, NoStamp)
  BY <1>0, <1>1, <1>6, <1>7, <1>8, ProfileSteps DEF Leaves
<1>9. /\ TypeOK /\ Consistent /\ Locks /\ Lists /\ Membership /\ VoteLevels /\ MapInv
      /\ Locks' /\ Lists' /\ act' \in [Threads -> Activity]
  BY <1>s, StepBasics
<1>10. MapInv'
  BY <1>8, <1>9, ReplaceConsistent
<1>11. /\ mSessions' = mSessions /\ linkedTasks'[s] = tids
       /\ \A x \in Sessions : x # s => linkedTasks'[x] = linkedTasks[x]
  BY <1>8, <1>9 DEF replace, MapInv, MapTypeOK
<1>12. TypeOK'
  BY <1>8, <1>9, <1>10 DEF TypeOK, MapInv
<1>13. Membership'
  BY <1>1, <1>s, <1>8, <1>9, <1>11, MembershipKept
<1>14. VoteLevels'
  BY <1>8, <1>9 DEF VoteLevels
<1>15. Inactive' /\ Refreshed' /\ Profiles'
  <2>1. Len(more) = 2 /\ more[1] = [op |-> "setProfile", tids |-> added] /\ more[2] = k
    BY <1>7
  <2>2. k.op = "clearProfile" /\ k.tids = removed
    BY <1>6
  <2>3. \E m \in 1 .. Len(more) : more[m] = k
    BY <2>1
  <2>4. ASSUME NEW m \in 1 .. Len(more), more[m].op = "setProfile", NEW t \in more[m].tids
        PROVE  linkedTasks'[s][t] > 0
    <3>1. m = 1
      BY <2>1, <2>2, <2>4
    <3>2. t \in added
      BY <2>1, <2>4, <3>1
    <3> QED
      BY <1>4, <1>11, <3>2 DEF addedThreads
  <2>5. act[a].todo[1].op \in Leaves
    BY <1>1 DEF Leaves
  <2> QED
    BY <1>2, <1>5, <1>s, <1>8, <1>10, <1>11, <2>2, <2>3, <2>4, <2>5, ChangeThreads
<1> QED
  BY <1>9, <1>10, <1>12, <1>13, <1>14, <1>15 DEF PSInv, MapInv

\* removePowerSession removes a session it switched off.
LEMMA RemoveStep ==
    ASSUME PSInv, NEW a \in Threads, RemoveSession(a)
    PROVE  PSInv'
<1>0. act \in [Threads -> Activity] /\ Busy(a)
  BY DEF PSInv, TypeOK, RemoveSession, At
<1>1. Next1(a) = act[a].todo[1] /\ Next1(a).op = "remove" /\ Next1(a) \in Steps
  BY <1>0, ActFields DEF RemoveSession, At, Busy
<1>2. PICK s \in Sessions : s = act[a].sid
  BY <1>0, OnSession DEF Busy, PSInv
<1>3. PICK removed \in SUBSET Tids :
         removed = {t \in Tids : linkedTasks[s][t] > 0 /\ t \notin taskKeys'}
  OBVIOUS
<1>4. PICK k : k = [op |-> "clearProfile", tids |-> removed]
  OBVIOUS
<1>5. PICK more : more = <<k>>
  OBVIOUS
<1>6. /\ remove(s) /\ Continue(a, more)
      /\ isActive' = [isActive EXCEPT ![s] = FALSE] /\ votes' = [votes EXCEPT ![s] = NoVotes]
      /\ UNCHANGED <<state, isActiveDesc, threadIds, targetNs, uclamp, qos,
                     gpuCapacity, taBoostOff, now, events, alive, calls, stalls>>
  <2>1. removedThreads(s) = removed
    BY <1>3 DEF removedThreads
  <2> QED
    BY <1>2, <1>4, <1>5, <2>1 DEF RemoveSession, descVars, kernelVars, bounds
<1>s. Stepping(a, more, NoStamp)
  BY <1>0, <1>1, <1>4, <1>5, <1>6, ProfileSteps DEF Leaves
<1>o. \A i \in 1 .. Len(act'[a].todo) :
         \/ \E m \in 1 .. Len(more) : act'[a].todo[i] = more[m]
         \/ \E j \in 2 .. Len(act[a].todo) : act'[a].todo[i] = act[a].todo[j]
  BY <1>0, <1>s, Origin
<1>7. /\ TypeOK /\ Consistent /\ Locks /\ Lists /\ Membership /\ VoteLevels /\ MapInv
      /\ Locks' /\ Lists' /\ act' \in [Threads -> Activity] /\ act[a].todo # <<>>
      /\ \A b \in Threads : b # a => act'[b] = act[b]
      /\ 1 \in 1 .. Len(act[a].todo) /\ Len(act[a].todo) \in Nat
  BY <1>s, StepBasics
<1>8. a \in Callers /\ \A c \in Callers : c # a => act[c].sid # s
  BY <1>1, <1>2, <1>7, OnlyCallers
<1>9. MapInv'
  BY <1>6, <1>7, RemoveConsistent
<1>10. /\ mSessions' = mSessions \ {s}
       /\ \A x \in Sessions : x # s => linkedTasks'[x] = linkedTasks[x]
  BY <1>6, <1>7 DEF remove, MapInv, MapTypeOK
<1>11. /\ \A x \in Sessions : x # s => votes'[x] = votes[x] /\ isActive'[x] = isActive[x]
       /\ votes'[s] = NoVotes /\ isActive'[s] = FALSE
       /\ votes' \in [Sessions -> [VoteIds -> VoteRange]] /\ isActive' \in [Sessions -> BOOLEAN]
  <2>1. NoVotes \in [VoteIds -> VoteRange]
    BY DEF NoVotes, NoVote, VoteRange
  <2>2. votes \in [Sessions -> [VoteIds -> VoteRange]] /\ isActive \in [Sessions -> BOOLEAN]
    BY <1>7 DEF TypeOK
  <2> QED
    BY <1>6, <2>1, <2>2
<1>12. TypeOK'
  BY <1>6, <1>7, <1>9, <1>11 DEF TypeOK, MapInv
<1>13. Membership'
  <2>1. CallMembership(s, act[a].todo)
    BY <1>2, <1>7, <1>8 DEF Membership
  <2>2. state[s] = "closed"
    BY <1>1, <1>7, <2>1 DEF CallMembership
  <2>3. Len(act[a].todo) = 1
    <3>1. ListOK(act[a].todo, act[a].stamp)
      BY <1>7, <1>8 DEF Lists
    <3>2. act[a].todo[1].op = "remove" => 1 = Len(act[a].todo)
      BY <1>7, <3>1 DEF ListOK
    <3> QED
      BY <1>1, <3>2
  <2>4. ASSUME NEW c \in Callers PROVE CallMembership(act[c].sid, act[c].todo)'
    <3>1. CASE c # a
      <4>1. act'[c] = act[c] /\ CallMembership(act[c].sid, act[c].todo) /\ act[c].sid # s
        BY <1>7, <1>8, <3>1, ThreadKinds DEF Membership
      <4> QED
        BY <1>6, <1>10, <4>1 DEF CallMembership
    <3>2. CASE c = a
      <4>1. \A j \in 2 .. Len(act[a].todo) : FALSE
        BY <2>3
      <4>3. \A m \in 1 .. Len(more) : more[m].op = "clearProfile"
        BY <1>4, <1>5
      <4>4. \A i \in 1 .. Len(act'[a].todo) : act'[a].todo[i].op = "clearProfile"
        BY <1>o, <4>1, <4>3
      <4> QED
        BY <3>2, <4>4 DEF CallMembership
    <3> QED
      BY <3>1, <3>2
  <2>5. ASSUME NEW x \in Sessions PROVE SessionMembership(x)'
    <3>1. SessionMembership(x)
      BY <1>7 DEF Membership
    <3>2. CASE x = s
      BY <1>6, <1>10, <1>11, <2>2, <3>1, <3>2 DEF SessionMembership
    <3>3. CASE x # s
      <4>1. \A c \in Callers : act[c].sid = x => act'[c] = act[c]
        BY <1>2, <1>7, <3>3, ThreadKinds
      <4> QED
        BY <1>6, <1>10, <1>11, <3>1, <3>3, <4>1 DEF SessionMembership
    <3> QED
      BY <3>2, <3>3
  <2> QED
    BY <2>4, <2>5 DEF Membership
<1>14. VoteLevels'
  <2>1. \A v \in VoteIds : NoVotes[v].val = 0
    BY DEF NoVotes, NoVote
  <2> QED
    BY <1>7, <1>11, <2>1 DEF VoteLevels
<1>15. Inactive' /\ Refreshed' /\ Profiles'
  <2>1. Len(more) = 1 /\ more[1] = k
    BY <1>5
  <2>2. k.op = "clearProfile" /\ k.tids = removed
    BY <1>4
  <2>3. \E m \in 1 .. Len(more) : more[m] = k
    BY <2>1
  <2>4. \A m \in 1 .. Len(more) : more[m].op # "setProfile"
    BY <2>1, <2>2
  <2>5. act[a].todo[1].op \in Leaves
    BY <1>1 DEF Leaves
  <2>6. UNCHANGED <<uclamp, alive, qos>>
    BY <1>6
  <2>7. isActive'[s] => isActive[s]
    BY <1>11
  <2>8. \A x \in Sessions : x # s =>
           linkedTasks'[x] = linkedTasks[x] /\ votes'[x] = votes[x] /\ isActive'[x] = isActive[x]
    BY <1>10, <1>11
  <2> QED
    BY <1>2, <1>3, <1>s, <1>9, <2>2, <2>3, <2>4, <2>5, <2>6, <2>7, <2>8, ChangeThreads
<1> QED
  BY <1>7, <1>9, <1>12, <1>13, <1>14, <1>15 DEF PSInv, MapInv

\* Profiles are set on threads of the session, and cleared.
LEMMA ProfileStep ==
    ASSUME PSInv, NEW a \in Threads, SetTaskProfiles(a)
    PROVE  PSInv'
<1>0. act \in [Threads -> Activity] /\ Busy(a)
  BY DEF PSInv, TypeOK, SetTaskProfiles, At
<1>1. Next1(a) = act[a].todo[1] /\ Next1(a) \in Steps /\ act[a].todo # <<>>
  BY <1>0, ActFields DEF Busy
<1>2. PICK k \in Steps : k = act[a].todo[1]
  BY <1>1
<1>3. /\ \/ k.op = "setProfile" /\ qos' = qos \cup (k.tids \cap alive)
         \/ k.op = "clearProfile" /\ qos' = qos \ k.tids
      /\ Done(a)
      /\ UNCHANGED <<mSessions, linkedTasks, mTasks, taskKeys, state, isActiveDesc, threadIds,
                     targetNs, isActive, votes, uclamp, gpuCapacity, taBoostOff, now, events,
                     alive, calls, stalls>>
  BY <1>1, <1>2 DEF SetTaskProfiles, At, mapVars, descVars, sveVars, bounds
<1>s. Stepping(a, <<>>, NoStamp)
  BY <1>0, <1>3, DoneSteps
<1>4. /\ TypeOK /\ Consistent /\ Locks /\ Lists /\ Membership /\ VoteLevels
      /\ Inactive /\ Refreshed /\ Profiles /\ MapInv
      /\ Locks' /\ Lists' /\ act[a].sid \in Sessions /\ act[a].todo # <<>>
      /\ act'[a].todo # <<>> => act'[a].sid = act[a].sid
      /\ \A b \in Threads : b # a => act'[b] = act[b]
      /\ act' \in [Threads -> Activity]
  BY <1>s, StepBasics
<1>5. Consistent' /\ MapInv'
  BY <1>3, <1>4 DEF MapInv, MapTypeOK, Consistent, LinksAgree, NoEmptyEntry
<1>6. TypeOK'
  <2>1. k.tids \in SUBSET Tids
    BY <1>3, StepFields
  <2>2. qos' \subseteq Tids
    BY <1>3, <1>4, <2>1 DEF TypeOK
  <2> QED
    BY <1>3, <1>4, <1>5, <2>2 DEF TypeOK, MapInv
<1>7. Membership'
  BY <1>s, <1>2, <1>3, <1>4, MembershipKept
<1>8. VoteLevels'
  BY <1>3, <1>4 DEF VoteLevels
<1>9. Inactive'
  BY <1>s, <1>2, <1>3, <1>4, InactiveKept
<1>10. Refreshed'
  <2>1. PICK s \in Sessions : s = act[a].sid
    BY <1>4
  <2>2. ~Applies(k) /\ k.op \notin {"force", "apply"}
    BY <1>3 DEF Applies
  <2>3. Settled(s)' => Settled(s)
    BY <1>s, <1>2, <1>4, <2>1, <2>2, SettledBack
  <2>4. ASSUME NEW t \in alive, Unjustified(t)' PROVE Unjustified(t)
    BY <1>3, <2>4 DEF Unjustified
  <2> QED
    BY <1>s, <1>2, <1>3, <1>4, <2>1, <2>2, <2>3, <2>4, RefreshedStep
<1>11. ASSUME NEW c \in Callers, NEW i \in 1 .. Len(act'[c].todo),
              act'[c].todo[i].op = "setProfile", NEW t \in act'[c].todo[i].tids \cap alive
       PROVE  linkedTasks'[act'[c].sid][t] > 0
  <2>1. \A n \in 1 .. Len(act'[a].todo) :
           \E j \in 2 .. Len(act[a].todo) : act'[a].todo[n] = act[a].todo[j]
    <3>1. \A m \in 1 .. Len(<<>>) : FALSE
      BY RefreshList
    <3>2. \A n \in 1 .. Len(act'[a].todo) :
             \/ \E m \in 1 .. Len(<<>>) : act'[a].todo[n] = <<>>[m]
             \/ \E j \in 2 .. Len(act[a].todo) : act'[a].todo[n] = act[a].todo[j]
      BY <1>0, <1>s, Origin
    <3> QED
      BY <3>1, <3>2
  <2>2. \E j \in 1 .. Len(act[c].todo) : act'[c].todo[i] = act[c].todo[j]
    <3>1. CASE c # a
      BY <1>4, <3>1, ThreadKinds
    <3>2. CASE c = a
      <4>1. PICK j \in 2 .. Len(act[a].todo) : act'[a].todo[i] = act[a].todo[j]
        BY <2>1, <3>2
      <4> QED
        BY <3>2, <4>1
    <3> QED
      BY <3>1, <3>2
  <2>3. PICK j \in 1 .. Len(act[c].todo) : act'[c].todo[i] = act[c].todo[j]
    BY <2>2
  <2>4. act'[c].sid = act[c].sid
    <3>1. act'[c].todo # <<>>
      BY <1>11
    <3> QED
      BY <1>4, <3>1, ThreadKinds
  <2>5. linkedTasks[act[c].sid][t] > 0
    BY <1>4, <1>11, <2>3 DEF Profiles
  <2> QED
    BY <1>3, <2>4, <2>5
<1>12. ASSUME NEW t \in (alive \cap qos') \ taskKeys PROVE ProfileClearPending(t)'
  <2>0. t \in Tids
    BY <1>4 DEF TypeOK
  <2>1. t \in qos /\ ~(k.op = "clearProfile" /\ t \in k.tids)
    <3>1. CASE k.op = "clearProfile"
      BY <1>3, <1>12, <3>1
    <3>2. CASE k.op = "setProfile"
      <4>1. a \in Callers /\ 1 \in 1 .. Len(act[a].todo)
        BY <1>0, <1>1, <1>2, <1>4, <3>2, OnlyCallers, ActFields
      <4>2. \A u \in k.tids \cap alive : linkedTasks[act[a].sid][u] > 0
        BY <1>2, <1>4, <3>2, <4>1 DEF Profiles
      <4>3. \A u \in k.tids \cap alive : u \in Tids
        BY <1>4 DEF TypeOK
      <4>4. \A u \in k.tids \cap alive : u \in taskKeys
        BY <1>4, <4>2, <4>3, LinksKnown
      <4> QED
        BY <1>3, <1>12, <3>2, <4>4
    <3> QED
      BY <1>3, <3>1, <3>2
  <2>2. ProfileClearPending(t)
    BY <1>4, <1>12, <2>1 DEF Profiles
  <2> QED
    BY <1>0, <1>s, <1>2, <2>1, <2>2, PendingKept
<1>13. Profiles'
  BY <1>3, <1>11, <1>12 DEF Profiles
<1> QED
  BY <1>4, <1>5, <1>6, <1>7, <1>8, <1>9, <1>10, <1>13 DEF PSInv

\* The votes are those of sv, and s has been applied with them.
Reapplied(s, sv, time) ==
    /\ sv \in [Sessions -> [VoteIds -> VoteRange]]
    /\ \A x \in Sessions, v \in VoteIds : sv[x][v].val \in Levels \cup {0}
    /\ \A x \in Sessions : x # s => sv[x] = votes[x]
    /\ votes' = sv /\ applyUclampLocked(s, sv, time)

\* The votes of a session are applied to its threads.
LEMMA ApplyStep ==
    ASSUME PSInv, NEW a \in Threads, NEW more, NEW stamp, Stepping(a, more, stamp),
           NEW s \in Sessions, s = act[a].sid, s \in mSessions,
           act[a].todo[1].op \notin {"add", "force", "clearProfile"},
           \A m \in 1 .. Len(more) : more[m].op # "setProfile",
           \E sv, time : Reapplied(s, sv, time), gpuCapacity' \in Nat,
           UNCHANGED <<state, isActiveDesc, threadIds, targetNs, isActive, qos, taBoostOff,
                       now, events, alive, calls, stalls>>
    PROVE  PSInv'
<1>0. PICK sv, time : Reapplied(s, sv, time)
  OBVIOUS
<1>a. /\ sv \in [Sessions -> [VoteIds -> VoteRange]]
      /\ \A x \in Sessions, v \in VoteIds : sv[x][v].val \in Levels \cup {0}
      /\ \A x \in Sessions : x # s => sv[x] = votes[x]
      /\ votes' = sv /\ applyUclampLocked(s, sv, time)
  BY <1>0 DEF Reapplied
<1>1. /\ TypeOK /\ Consistent /\ Locks /\ Lists /\ Membership /\ VoteLevels
      /\ Inactive /\ Refreshed /\ Profiles /\ MapInv
      /\ Locks' /\ Lists' /\ act' \in [Threads -> Activity]
  BY StepBasics
<1>2. /\ uclamp' \in [Tids -> Levels \cup {0}]
      /\ MapInv' /\ mSessions' = mSessions
      /\ \A x \in Sessions, t \in alive : linkedTasks'[x][t] = linkedTasks[x][t]
      /\ \A t \in alive : linkedTasks[s][t] > 0 =>
            uclamp'[t] = 0 \/ Accounted(t, sv, uclamp'[t])
      /\ \A t \in alive : ~(linkedTasks[s][t] > 0) => uclamp'[t] = uclamp[t]
  BY <1>a, <1>1, ApplyUclamp
<1>3. TypeOK'
  BY <1>a, <1>1, <1>2 DEF TypeOK, MapInv
<1>4. Membership'
  BY <1>a, <1>1, <1>2, MembershipKept
<1>5. VoteLevels'
  BY <1>a DEF VoteLevels
<1>6. Inactive'
  BY <1>1, InactiveKept
<1>7. Refreshed'
  <2> SUFFICES ASSUME NEW t \in alive, Unjustified(t)'
               PROVE  Unjustified(t) /\ ~(linkedTasks[s][t] > 0)
    BY <1>1, <1>2, RefreshedStep
  <2>1. t \in Tids
    BY <1>1 DEF TypeOK
  <2>2. \A x \in Sessions : mTasks'[t][x] = mTasks[t][x]
    BY <1>1, <1>2, <2>1, SameLinks
  <2>3. ~(linkedTasks[s][t] > 0)
    <3> SUFFICES ASSUME linkedTasks[s][t] > 0 PROVE FALSE
      OBVIOUS
    <3>1. uclamp'[t] > 0
      BY DEF Unjustified
    <3>2. Accounted(t, sv, uclamp'[t])
      BY <1>2, <3>1
    <3>3. PICK x \in Sessions, v \in CpuVoteIds :
             /\ linkedTasks[x][t] > 0 /\ isActive[x]
             /\ sv[x][v].active /\ sv[x][v].val = uclamp'[t]
      BY <3>2 DEF Accounted
    <3>4. x \in mSessions /\ mTasks[t][x] > 0
      BY <1>1, <2>1, <3>3, LinksKnown
    <3>5. sv[x][v].val < uclamp'[t]
      BY <1>a, <1>2, <2>2, <3>3, <3>4 DEF Unjustified
    <3>6. sv[x][v].val \in Nat
      BY <1>a DEF VoteRange, VoteIds
    <3> QED
      BY <3>3, <3>5, <3>6
  <2>4. uclamp'[t] = uclamp[t]
    BY <1>2, <2>3
  <2>5. ASSUME NEW x \in Sessions, linkedTasks[x][t] > 0
        PROVE  linkedTasks'[x][t] > 0 /\ votes'[x] = votes[x]
    BY <1>a, <1>2, <2>3, <2>5
  <2>6. Unjustified(t)
    BY <1>1, <1>2, <2>1, <2>4, <2>5, UnjustifiedBack
  <2> QED
    BY <2>3, <2>6
<1>8. Profiles'
  <2>1. \A t \in alive : t \in taskKeys => t \in taskKeys'
    BY <1>1, <1>2, SameLinks DEF TypeOK
  <2> QED
    BY <1>1, <1>2, <2>1, ProfilesKept
<1> QED
  BY <1>1, <1>2, <1>3, <1>4, <1>5, <1>6, <1>7, <1>8 DEF PSInv, MapInv

\* No profile is set by what a step puts in its place when that is nothing, the
\* refresh or the rest of voteSet.
LEMMA NoProfiles ==
    /\ \A m \in 1 .. Len(<<>>) : <<>>[m].op # "setProfile"
    /\ \A m \in 1 .. Len(Refresh) : Refresh[m].op # "setProfile"
    /\ \A k : k.op = "schedule" => \A m \in 1 .. Len(<<k>>) : <<k>>[m].op # "setProfile"
<1>1. \A m \in 1 .. Len(Refresh) : m = 1 \/ m = 2 \/ m = 3
  BY RefreshList
<1>2. \A m \in 1 .. Len(Refresh) : Refresh[m].op # "setProfile"
  BY <1>1, RefreshList
<1> QED
  BY <1>2, RefreshList

\* applyCpuAndGpuVotes, on a session that is there or gone.
LEMMA ApplyVotesStep ==
    ASSUME PSInv, NEW a \in Threads, applyCpuAndGpuVotes(a)
    PROVE  PSInv'
<1>0. act \in [Threads -> Activity] /\ Busy(a)
  BY DEF PSInv, TypeOK, applyCpuAndGpuVotes, Stamped, At
<1>1. act[a].todo[1].op = "apply"
  BY <1>0, ActFields DEF applyCpuAndGpuVotes, Stamped, At, Busy
<1>2. PICK s \in Sessions : s = act[a].sid
  BY <1>0, OnSession DEF Busy, PSInv
<1>3. /\ Done(a)
      /\ UNCHANGED <<state, isActiveDesc, threadIds, targetNs, isActive, votes, qos, taBoostOff,
                     now, events, alive, calls, stalls>>
      /\ IF s \in mSessions
         THEN applyUclampLocked(s, votes, act[a].stamp) /\ applyGpuVotesLocked(votes, act[a].stamp)
         ELSE UNCHANGED <<mapVars, uclamp, gpuCapacity>>
  BY <1>2 DEF applyCpuAndGpuVotes, descVars, sveVars, bounds
<1>s. Stepping(a, <<>>, NoStamp)
  BY <1>0, <1>3, DoneSteps
<1>4. TypeOK /\ VoteLevels /\ act' \in [Threads -> Activity]
  BY <1>s, StepBasics
<1>5. CASE s \in mSessions
  <2>1. PICK sv \in [Sessions -> [VoteIds -> VoteRange]] : sv = votes
    BY <1>4 DEF TypeOK
  <2>2. PICK time : time = act[a].stamp
    OBVIOUS
  <2>3. applyUclampLocked(s, sv, time) /\ applyGpuVotesLocked(sv, time)
    BY <1>3, <1>5, <2>1, <2>2
  <2>4. gpuCapacity' \in Nat
    BY <1>4, <2>3, GpuCapacityType DEF TypeOK, MapTypeOK
  <2>5. \A x \in Sessions, v \in VoteIds : sv[x][v].val \in Levels \cup {0}
    BY <1>4, <2>1 DEF VoteLevels
  <2>6. Reapplied(s, sv, time)
    BY <1>3, <2>1, <2>3, <2>5 DEF Reapplied
  <2> QED
    BY <1>1, <1>2, <1>3, <1>s, <1>5, <2>4, <2>6, ApplyStep, NoProfiles
<1>6. CASE s \notin mSessions
  <2>1. UNCHANGED <<mSessions, linkedTasks, mTasks, taskKeys, uclamp, gpuCapacity>>
    BY <1>3, <1>6 DEF mapVars
  <2>2. TypeOK'
    BY <1>3, <1>4, <2>1 DEF TypeOK, MapTypeOK
  <2>3. VoteLevels'
    BY <1>3, <1>4 DEF VoteLevels
  <2>4. votes' = votes /\ UNCHANGED <<state, targetNs, isActive, alive, qos>>
    BY <1>3
  <2> QED
    BY <1>1, <1>2, <1>s, <1>6, <2>1, <2>2, <2>3, <2>4, QuietStep, NoProfiles
<1> QED
  BY <1>5, <1>6

\* forceSessionActive, and the manager's pause and resume.
LEMMA ForceStep ==
    ASSUME PSInv, NEW a \in Threads, ForceActive(a) \/ SetActive(a)
    PROVE  PSInv'
<1>0. act \in [Threads -> Activity] /\ Busy(a)
  BY DEF PSInv, TypeOK, ForceActive, SetActive, At
<1>1. PICK k \in Steps : k = act[a].todo[1] /\ k = Next1(a)
  BY <1>0, ActFields DEF Busy
<1>2. PICK s \in Sessions : s = act[a].sid
  BY <1>0, OnSession DEF Busy, PSInv
<1>3. /\ k.op \in {"force", "setActive"}
      /\ \/ /\ s \in mSessions /\ isActive' = [isActive EXCEPT ![s] = k.flag]
            /\ Continue(a, Refresh)
         \/ /\ s \notin mSessions \/ k.op = "setActive"
            /\ Done(a) /\ isActive' = isActive
  BY <1>1, <1>2 DEF ForceActive, SetActive, At
<1>4. UNCHANGED <<mSessions, linkedTasks, mTasks, taskKeys, state, isActiveDesc, threadIds,
                  targetNs, votes, uclamp, qos, gpuCapacity, taBoostOff, now, events, alive,
                  calls, stalls>>
  BY DEF ForceActive, SetActive, mapVars, descVars, kernelVars, bounds
<1>5. TypeOK /\ VoteLevels
  BY DEF PSInv
<1>6. VoteLevels'
  BY <1>4, <1>5 DEF VoteLevels
<1>7. CASE /\ s \in mSessions /\ isActive' = [isActive EXCEPT ![s] = k.flag]
           /\ Continue(a, Refresh)
  <2>1. Stepping(a, Refresh, NoStamp)
    BY <1>0, <1>7, RefreshSteps
  <2>2. act' \in [Threads -> Activity]
    BY <2>1 DEF Stepping
  <2>3. k.flag \in BOOLEAN
    BY <1>3, StepFields
  <2>4. isActive' \in [Sessions -> BOOLEAN]
    BY <1>5, <1>7, <2>3 DEF TypeOK
  <2>5. TypeOK'
    BY <1>4, <1>5, <2>2, <2>4 DEF TypeOK, MapTypeOK
  <2> QED
    BY <1>1, <1>2, <1>3, <1>4, <1>7, <2>1, <2>5, SwitchStep
<1>8. CASE /\ s \notin mSessions \/ k.op = "setActive"
           /\ Done(a) /\ isActive' = isActive
  <2>1. Stepping(a, <<>>, NoStamp)
    BY <1>0, <1>8, DoneSteps
  <2>2. act' \in [Threads -> Activity]
    BY <2>1 DEF Stepping
  <2>3. TypeOK'
    BY <1>4, <1>5, <1>8, <2>2 DEF TypeOK, MapTypeOK
  <2>4. act[a].sid \notin mSessions \/ (~Applies(k) /\ k.op # "force")
    BY <1>2, <1>8 DEF Applies
  <2> QED
    BY <1>1, <1>3, <1>4, <1>6, <1>8, <2>1, <2>3, <2>4, QuietStep, NoProfiles
<1> QED
  BY <1>3, <1>7, <1>8

\* The universal boost and the queueing of a timeout touch neither the map nor
\* the votes.
LEMMA BoostModeStep ==
    ASSUME PSInv, NEW a \in Threads,
           UniversalBoostRead(a) \/ UniversalBoostDo(a) \/ ScheduleTimeout(a)
    PROVE  PSInv'
<1>0. act \in [Threads -> Activity] /\ Busy(a)
  BY DEF PSInv, TypeOK, UniversalBoostRead, UniversalBoostDo, ScheduleTimeout, At
<1>1. PICK k \in Steps : k = act[a].todo[1] /\ k = Next1(a)
  BY <1>0, ActFields DEF Busy
<1>2. k.op \in {"ubRead", "ubDo", "schedule"}
  BY <1>1 DEF UniversalBoostRead, UniversalBoostDo, ScheduleTimeout, At
<1>3. UNCHANGED <<mSessions, linkedTasks, mTasks, taskKeys, state, isActiveDesc, threadIds,
                  targetNs, isActive, votes, uclamp, qos, gpuCapacity, now, alive, calls, stalls>>
  BY DEF UniversalBoostRead, UniversalBoostDo, ScheduleTimeout, mapVars, descVars, sveVars,
         kernelVars, bounds
<1>4. TypeOK /\ VoteLevels /\ Locks /\ Lists
  BY DEF PSInv
<1>5. VoteLevels'
  BY <1>3, <1>4 DEF VoteLevels
<1>6. Stepping(a, <<>>, NoStamp)
  <2>1. CASE Done(a)
    BY <1>0, <2>1, DoneSteps
  <2>2. CASE UniversalBoostRead(a)
    <3>1. PICK seen \in BOOLEAN : seen = AnySessionActive
      BY DEF AnySessionActive
    <3>2. PICK next \in Activity :
             /\ next = Step(a, <<>>)
             /\ next.todo = <<>> \o Tail(act[a].todo)
             /\ next.stamp = NoStamp
             /\ next.sid = IF <<>> \o Tail(act[a].todo) = <<>> THEN None ELSE act[a].sid
      BY <1>0, StepActivity, RefreshList DEF Busy
    <3>3. act' = [act EXCEPT ![a] = [next EXCEPT !.seen = seen]]
      BY <2>2, <3>1, <3>2 DEF UniversalBoostRead
    <3>4. /\ [next EXCEPT !.seen = seen] \in Activity
          /\ [next EXCEPT !.seen = seen].todo = next.todo
          /\ [next EXCEPT !.seen = seen].stamp = next.stamp
          /\ [next EXCEPT !.seen = seen].sid = next.sid
      BY DEF Activity
    <3>5. /\ act' \in [Threads -> Activity] /\ act'[a] = [next EXCEPT !.seen = seen]
          /\ \A b \in Threads : b # a => act'[b] = act[b]
      BY <1>0, <3>3, <3>4
    <3>6. Moved(a, <<>>, NoStamp)
      BY <3>2, <3>4, <3>5 DEF Moved
    <3>7. Allowed(act[a].todo[1], <<>>, NoStamp) /\ <<>> \in Seq(Steps)
      BY RefreshList DEF Allowed
    <3> QED
      BY <1>0, <3>5, <3>6, <3>7 DEF Stepping, Busy
  <2> QED
    BY <2>1, <2>2 DEF UniversalBoostDo, ScheduleTimeout
<1>7. act' \in [Threads -> Activity]
  BY <1>6 DEF Stepping
<1>8. taBoostOff' \in BOOLEAN
  <2>1. act[a].seen \in BOOLEAN
    BY <1>0, ActFields
  <2> QED
    BY <1>4, <2>1 DEF UniversalBoostRead, UniversalBoostDo, ScheduleTimeout, kernelVars, TypeOK
<1>9. DOMAIN events' \subseteq [sid : Sessions, vid : VoteIds, deadline : Nat]
  <2>1. CASE UNCHANGED events
    BY <1>4, <2>1 DEF TypeOK
  <2>2. CASE ScheduleTimeout(a)
    <3>1. k.op = "schedule" /\ k.vid \in VoteIds /\ k.dur \in Durations
      BY <1>1, <2>2, StepFields DEF ScheduleTimeout, At
    <3>2. act[a].sid \in Sessions
      BY <1>0, <1>4, OnSession DEF Busy
    <3>3. a \in Callers /\ 1 \in 1 .. Len(act[a].todo)
      BY <1>0, <1>1, <1>4, <3>1, OnlyCallers, ActFields DEF Busy
    <3>4. act[a].stamp # NoStamp
      BY <1>1, <1>4, <3>1, <3>3 DEF Lists, ListOK
    <3>5. act[a].stamp \in Nat
      BY <1>0, <3>4, ActFields
    <3>6. act[a].stamp + k.dur \in Nat
      BY <3>1, <3>5, Numbers
    <3> DEFINE e == [sid |-> act[a].sid, vid |-> k.vid, deadline |-> act[a].stamp + k.dur]
    <3>7. e \in [sid : Sessions, vid : VoteIds, deadline : Nat]
      BY <3>1, <3>2, <3>6
    <3>8. events' = Queue!BagAdd(events, e)
      BY <1>1, <2>2 DEF ScheduleTimeout
    <3> HIDE DEF e
    <3>9. DOMAIN events' \subseteq DOMAIN events \cup {e}
      BY <3>8 DEF Queue!BagAdd
    <3> QED
      BY <1>4, <3>7, <3>9 DEF TypeOK
  <2> QED
    BY <2>1, <2>2 DEF UniversalBoostRead, UniversalBoostDo
<1>10. TypeOK'
  BY <1>3, <1>4, <1>7, <1>8, <1>9 DEF TypeOK, MapTypeOK
<1>11. ~Applies(k)
  BY <1>2 DEF Applies
<1> QED
  BY <1>1, <1>2, <1>3, <1>5, <1>6, <1>10, <1>11, QuietStep, NoProfiles

\* The rest of voteSet is put in the place of the vote.
LEMMA ScheduleSteps ==
    ASSUME act \in [Threads -> Activity], NEW a \in Threads, Busy(a), NEW k \in Steps,
           k = act[a].todo[1], k.op = "vote", act[a].stamp # NoStamp, NEW n \in Steps,
           n.op = "schedule", act' = [act EXCEPT ![a].todo = <<n>> \o Tail(@)]
    PROVE  Stepping(a, <<n>>, act[a].stamp)
<1> DEFINE q == act[a].todo
           more == <<n>>
           r == more \o Tail(q)
<1>1. q \in Seq(Steps) /\ q # <<>> /\ act[a] \in Activity
  BY ActFields DEF Busy
<1>2. more \in Seq(Steps) /\ Len(more) = 1 /\ more[1] = n
  OBVIOUS
<1>3. act' = [act EXCEPT ![a] = [act[a] EXCEPT !.todo = r]]
  OBVIOUS
<1> HIDE DEF q, more, r
<1>4. r \in Seq(Steps) /\ r # <<>>
  <2>1. r = more \o Tail(q)
    BY DEF r
  <2>0. q \in Seq(Steps) /\ q # <<>> /\ more \in Seq(Steps)
    BY <1>1, <1>2
  <2>2. r \in Seq(Steps) /\ Len(r) = Len(more) + Len(q) - 1 /\ Len(q) \in Nat /\ Len(q) >= 1
    BY <2>0, <2>1, Spliced
  <2>3. Len(r) # 0
    BY <1>2, <2>2
  <2> QED
    BY <2>2, <2>3, RefreshList
<1>5. /\ [act[a] EXCEPT !.todo = r] \in Activity
      /\ [act[a] EXCEPT !.todo = r].todo = r
      /\ [act[a] EXCEPT !.todo = r].stamp = act[a].stamp
      /\ [act[a] EXCEPT !.todo = r].sid = act[a].sid
  BY <1>1, <1>4 DEF Activity
<1>6. /\ act' \in [Threads -> Activity] /\ act'[a] = [act[a] EXCEPT !.todo = r]
      /\ \A b \in Threads : b # a => act'[b] = act[b]
  BY <1>3, <1>5
<1>7. Moved(a, more, act[a].stamp)
  BY <1>4, <1>5, <1>6 DEF Moved, r, q
<1>8. Allowed(k, more, act[a].stamp)
  BY <1>2 DEF Allowed, Quiet
<1> QED
  BY <1>1, <1>2, <1>6, <1>7, <1>8 DEF Stepping, q, more

\* A vote is set and applied.
LEMMA VoteStep ==
    ASSUME PSInv, NEW a \in Threads, VoteSet(a)
    PROVE  PSInv'
<1>0. act \in [Threads -> Activity] /\ Busy(a) /\ act[a].stamp # NoStamp
  BY DEF PSInv, TypeOK, VoteSet, Stamped, At
<1>1. PICK k \in Steps : k = act[a].todo[1] /\ k = Next1(a)
  BY <1>0, ActFields DEF Busy
<1>2. k.op = "vote" /\ k.vid \in VoteIds /\ k.val \in Levels /\ k.dur \in Durations
  BY <1>1, StepFields DEF VoteSet, Stamped, At
<1>3. PICK s \in Sessions : s = act[a].sid
  BY <1>0, OnSession DEF Busy, PSInv
<1>4. PICK start \in Nat : start = act[a].stamp
  BY <1>0, ActFields
<1>5. TypeOK /\ VoteLevels
  BY DEF PSInv
<1> DEFINE vote == NewVote(TRUE, start, k.dur, k.val)
           set == [votes EXCEPT ![s][k.vid] = vote]
<1>6. vote \in VoteRange /\ vote.val \in Levels
  BY <1>2, Numbers DEF NewVote, VoteRange
<1>7. PICK sv \in [Sessions -> [VoteIds -> VoteRange]] :
         /\ sv = set
         /\ \A x \in Sessions : x # s => sv[x] = votes[x]
         /\ \A v \in VoteIds : v # k.vid => sv[s][v] = votes[s][v]
         /\ sv[s][k.vid] = vote
  <2>1. votes \in [Sessions -> [VoteIds -> VoteRange]]
    BY <1>5 DEF TypeOK
  <2> HIDE DEF vote
  <2>a. votes[s] \in [VoteIds -> VoteRange]
    BY <2>1
  <2>b. PICK vs : vs = [votes[s] EXCEPT ![k.vid] = vote]
    OBVIOUS
  <2>2. /\ vs \in [VoteIds -> VoteRange]
        /\ vs[k.vid] = vote /\ \A v \in VoteIds : v # k.vid => vs[v] = votes[s][v]
    BY <1>2, <1>6, <2>a, <2>b
  <2>3. set = [votes EXCEPT ![s] = vs]
    BY <2>b
  <2> HIDE DEF set
  <2>4. /\ set \in [Sessions -> [VoteIds -> VoteRange]] /\ set[s] = vs
        /\ \A x \in Sessions : x # s => set[x] = votes[x]
    BY <2>1, <2>2, <2>3
  <2> QED
    BY <2>2, <2>4
<1>8. /\ UNCHANGED <<state, isActiveDesc, threadIds, targetNs, isActive, qos, taBoostOff,
                     now, events, alive, calls, stalls>>
      /\ \/ /\ s \notin mSessions
            /\ Done(a) /\ UNCHANGED <<mapVars, votes, uclamp, gpuCapacity>>
         \/ /\ s \in mSessions /\ votes' = sv
            /\ \/ /\ k.vid \in CpuVoteIds
                  /\ applyUclampLocked(s, sv, start) /\ UNCHANGED gpuCapacity
               \/ /\ k.vid \notin CpuVoteIds
                  /\ applyGpuVotesLocked(sv, start) /\ UNCHANGED <<mapVars, uclamp>>
            /\ \/ act' = [act EXCEPT ![a].todo = <<[k EXCEPT !.op = "schedule"]>> \o Tail(@)]
               \/ Done(a)
  BY <1>1, <1>3, <1>4, <1>7 DEF VoteSet, descVars, bounds
<1> HIDE DEF vote, set
<1>9. CASE /\ s \notin mSessions
           /\ Done(a) /\ UNCHANGED <<mapVars, votes, uclamp, gpuCapacity>>
  <2>1. Stepping(a, <<>>, NoStamp)
    BY <1>0, <1>9, DoneSteps
  <2>2. act' \in [Threads -> Activity]
    BY <2>1 DEF Stepping
  <2>3. UNCHANGED <<mSessions, linkedTasks, mTasks, taskKeys, uclamp, gpuCapacity, votes>>
    BY <1>9 DEF mapVars
  <2>4. TypeOK' /\ VoteLevels'
    BY <1>5, <1>8, <2>2, <2>3 DEF TypeOK, MapTypeOK, VoteLevels
  <2>5. UNCHANGED <<state, targetNs, isActive, alive, qos>>
    BY <1>8
  <2> QED
    BY <1>1, <1>2, <1>3, <1>9, <2>1, <2>3, <2>4, <2>5, QuietStep, NoProfiles
<1>10. CASE s \in mSessions
  <2>1. PICK more, stamp : /\ Stepping(a, more, stamp)
                           /\ \A m \in 1 .. Len(more) : more[m].op # "setProfile"
    <3>1. CASE Done(a)
      <4>1. Stepping(a, <<>>, NoStamp)
        BY <1>0, <3>1, DoneSteps
      <4> QED
        BY <4>1, NoProfiles
    <3>2. CASE act' = [act EXCEPT ![a].todo = <<[k EXCEPT !.op = "schedule"]>> \o Tail(@)]
      <4>1. PICK n \in Steps : n = [k EXCEPT !.op = "schedule"] /\ n.op = "schedule"
        BY <1>2, StepsWritten
      <4>2. Stepping(a, <<n>>, act[a].stamp)
        BY <1>0, <1>1, <1>2, <3>2, <4>1, ScheduleSteps
      <4> QED
        BY <4>1, <4>2, NoProfiles
    <3> QED
      BY <1>8, <1>10, <3>1, <3>2
  <2>2. act' \in [Threads -> Activity]
    BY <2>1 DEF Stepping
  <2>3. \A x \in Sessions, v \in VoteIds : sv[x][v].val \in Levels \cup {0}
    BY <1>5, <1>6, <1>7 DEF VoteLevels
  <2>4. votes' = sv
    BY <1>8, <1>10
  <2>5. CASE k.vid \in CpuVoteIds
    <3>1. applyUclampLocked(s, sv, start) /\ gpuCapacity' \in Nat
      BY <1>5, <1>8, <1>10, <2>5 DEF TypeOK
    <3>2. act[a].todo[1].op \notin {"add", "force", "clearProfile"}
      BY <1>1, <1>2
    <3>3. UNCHANGED <<state, isActiveDesc, threadIds, targetNs, isActive, qos, taBoostOff,
                      now, events, alive, calls, stalls>>
      BY <1>8
    <3>4. \A x \in Sessions : x # s => sv[x] = votes[x]
      BY <1>7
    <3>5. Reapplied(s, sv, start)
      BY <2>3, <2>4, <3>1, <3>4 DEF Reapplied
    <3>6. gpuCapacity' \in Nat /\ s = act[a].sid
      BY <1>3, <3>1
    <3> QED
      BY <1>10, <2>1, <3>2, <3>3, <3>5, <3>6, ApplyStep
  <2>6. CASE k.vid \notin CpuVoteIds
    <3>1. applyGpuVotesLocked(sv, start)
      BY <1>8, <1>10, <2>6
    <3>2. UNCHANGED <<mSessions, linkedTasks, mTasks, taskKeys, uclamp>>
      BY <1>8, <1>10, <2>6 DEF mapVars
    <3>3. gpuCapacity' \in Nat
      BY <1>5, <3>1, GpuCapacityType DEF TypeOK, MapTypeOK
    <3>4. TypeOK' /\ VoteLevels'
      BY <1>5, <1>8, <2>2, <2>3, <2>4, <3>2, <3>3 DEF TypeOK, MapTypeOK, VoteLevels
    <3>5. ~Applies(k) /\ k.op \notin {"add", "clearProfile", "force"}
      BY <1>2, <2>6 DEF Applies
    <3>6. \A x \in Sessions, v \in CpuVoteIds :
             votes'[x][v].active = votes[x][v].active /\ votes'[x][v].val = votes[x][v].val
      BY <1>7, <2>4, <2>6 DEF VoteIds
    <3>7. \A x \in Sessions : x \notin mSessions => votes'[x] = votes[x]
      BY <1>7, <1>10, <2>4
    <3>8. UNCHANGED <<state, targetNs, isActive, alive, qos>>
      BY <1>8
    <3> QED
      <4>1. UNCHANGED <<mSessions, linkedTasks, mTasks, taskKeys, state, targetNs, isActive,
                        uclamp, alive, qos>>
        BY <3>2, <3>8
      <4>2. k = act[a].todo[1] /\ k.op \notin {"add", "clearProfile"}
        BY <1>1, <3>5
      <4>3. act[a].sid \notin mSessions \/ (~Applies(k) /\ k.op # "force")
        BY <3>5
      <4> QED
        BY <2>1, <3>4, <3>6, <3>7, <4>1, <4>2, <4>3, QuietStep
  <2> QED
    BY <2>5, <2>6
<1> QED
  BY <1>8, <1>9, <1>10

\* The target duration changes how long the default vote lasts.
LEMMA DurationStep ==
    ASSUME PSInv, NEW a \in Threads, UpdateVoteDuration(a)
    PROVE  PSInv'
<1>0. act \in [Threads -> Activity] /\ Busy(a) /\ Done(a)
  BY DEF PSInv, TypeOK, UpdateVoteDuration, At
<1>1. PICK k \in Steps : k = act[a].todo[1] /\ k = Next1(a)
  BY <1>0, ActFields DEF Busy
<1>2. k.op = "target" /\ k.dur \in Durations
  BY <1>1, StepFields DEF UpdateVoteDuration, At
<1>s. Stepping(a, <<>>, NoStamp)
  BY <1>0, DoneSteps
<1>3. /\ TypeOK /\ VoteLevels /\ Membership /\ Locks /\ Lists
      /\ act' \in [Threads -> Activity] /\ act[a].sid \in Sessions
      /\ 1 \in 1 .. Len(act[a].todo) /\ act[a].todo # <<>>
  BY <1>s, StepBasics
<1>4. PICK s \in Sessions : s = act[a].sid
  BY <1>3
<1>5. s \in mSessions
  <2>1. a \in Callers
    BY <1>1, <1>2, <1>3, OnlyCallers
  <2> QED
    BY <1>1, <1>2, <1>3, <1>4, <2>1 DEF Membership, CallMembership
<1> DEFINE old == votes[s]["CPU_VOTE_DEFAULT"]
           vs == [votes[s] EXCEPT !["CPU_VOTE_DEFAULT"] = updateDuration(old, k.dur)]
<1>6. votes \in [Sessions -> [VoteIds -> VoteRange]] /\ votes[s] \in [VoteIds -> VoteRange]
  BY <1>3 DEF TypeOK
<1>7. /\ updateDuration(old, k.dur) \in VoteRange
      /\ updateDuration(old, k.dur).active = old.active
      /\ updateDuration(old, k.dur).val = old.val
  <2>1. old \in VoteRange /\ k.dur \in Nat
    BY <1>2, <1>6, Numbers DEF VoteIds, CpuVoteIds
  <2> HIDE DEF old
  <2> QED
    BY <2>1 DEF updateDuration, VoteRange
<1>8. votes' = [votes EXCEPT ![s] = vs]
  BY <1>1, <1>4 DEF UpdateVoteDuration
<1>9. /\ vs \in [VoteIds -> VoteRange]
      /\ \A v \in VoteIds : vs[v].active = votes[s][v].active /\ vs[v].val = votes[s][v].val
  BY <1>6, <1>7
<1> HIDE DEF vs
<1>10. /\ votes' \in [Sessions -> [VoteIds -> VoteRange]] /\ votes'[s] = vs
       /\ \A x \in Sessions : x # s => votes'[x] = votes[x]
  BY <1>6, <1>8, <1>9
<1>11. UNCHANGED <<mSessions, linkedTasks, mTasks, taskKeys, state, isActiveDesc, threadIds,
                   targetNs, isActive, uclamp, qos, gpuCapacity, taBoostOff, now, events, alive,
                   calls, stalls>>
  BY DEF UpdateVoteDuration, mapVars, descVars, kernelVars, bounds
<1>12. TypeOK'
  BY <1>3, <1>10, <1>11 DEF TypeOK, MapTypeOK
<1>13. \A x \in Sessions, v \in VoteIds :
          votes'[x][v].active = votes[x][v].active /\ votes'[x][v].val = votes[x][v].val
  BY <1>9, <1>10
<1>14. VoteLevels'
  BY <1>3, <1>13 DEF VoteLevels
<1>15. \A x \in Sessions, v \in CpuVoteIds :
          votes'[x][v].active = votes[x][v].active /\ votes'[x][v].val = votes[x][v].val
  BY <1>13 DEF VoteIds
<1>16. \A x \in Sessions : x \notin mSessions => votes'[x] = votes[x]
  BY <1>5, <1>10
<1>17. ~Applies(k) /\ k.op # "force" /\ k.op \notin {"add", "clearProfile"}
  BY <1>2 DEF Applies
<1>18. UNCHANGED <<mSessions, linkedTasks, mTasks, taskKeys, state, targetNs, isActive,
                   uclamp, alive, qos>>
  BY <1>11
<1> QED
  BY <1>1, <1>s, <1>12, <1>14, <1>15, <1>16, <1>17, <1>18, QuietStep, NoProfiles

\* Votes of one session end, without a change in its threads; when it is neither
\* settled nor without threads, the thread that ends them will apply the rest.
LEMMA EndVotesStep ==
    ASSUME PSInv, NEW a \in Threads, NEW more, NEW stamp, Stepping(a, more, stamp),
           NEW s \in Sessions, s = act[a].sid, s \in mSessions,
           NEW k, k = act[a].todo[1], k.op \in {"disableBoosts", "timeout"},
           \A m \in 1 .. Len(more) : more[m].op # "setProfile",
           votes' \in [Sessions -> [VoteIds -> VoteRange]],
           \A x \in Sessions : x # s => votes'[x] = votes[x],
           \A v \in VoteIds : votes'[s][v].val = votes[s][v].val,
           WillApply(act'[a].todo),
           UNCHANGED <<mSessions, linkedTasks, mTasks, taskKeys, state, isActiveDesc, threadIds,
                       targetNs, isActive, uclamp, qos, gpuCapacity, taBoostOff, now, events,
                       alive, calls, stalls>>
    PROVE  PSInv'
<1>1. /\ TypeOK /\ Consistent /\ Locks /\ Lists /\ Membership /\ VoteLevels
      /\ Inactive /\ Refreshed /\ Profiles /\ MapInv
      /\ Locks' /\ Lists' /\ act' \in [Threads -> Activity]
      /\ act'[a].todo # <<>> => act'[a].sid = act[a].sid
  BY StepBasics
<1>2. Consistent' /\ MapInv'
  BY <1>1 DEF MapInv, MapTypeOK, Consistent, LinksAgree, NoEmptyEntry
<1>3. TypeOK'
  BY <1>1 DEF TypeOK, MapTypeOK
<1>4. Membership'
  BY <1>1, MembershipKept
<1>5. VoteLevels'
  BY <1>1 DEF VoteLevels
<1>6. Inactive'
  BY <1>1, InactiveKept
<1>7. Refreshed'
  <2> SUFFICES ASSUME NEW t \in alive, Unjustified(t)'
               PROVE  \/ Refresher(a, t)'
                      \/ Unjustified(t) /\ (~(linkedTasks[s][t] > 0) \/ Settled(s))
    BY <1>1, RefreshedStep
  <2>1. t \in Tids
    BY <1>1 DEF TypeOK
  <2>2. uclamp'[t] = uclamp[t]
    OBVIOUS
  <2>3. CASE ~(linkedTasks[s][t] > 0)
    <3>1. ASSUME NEW x \in Sessions, linkedTasks[x][t] > 0
          PROVE  linkedTasks'[x][t] > 0 /\ votes'[x] = votes[x]
      BY <2>3, <3>1
    <3>2. Unjustified(t)
      BY <1>1, <1>2, <2>1, <2>2, <3>1, UnjustifiedBack
    <3> QED
      BY <2>3, <3>2
  <2>4. CASE Settled(s)
    <3>1. ~isActive[s]
      BY <1>1, <2>4, SettledInactive
    <3>2. ASSUME NEW x \in Sessions, isActive[x] PROVE votes'[x] = votes[x]
      BY <3>1, <3>2
    <3>3. Unjustified(t)
      BY <1>1, <1>2, <2>1, <2>2, <3>2, UnjustifiedBack
    <3> QED
      BY <2>4, <3>3
  <2>5. CASE linkedTasks[s][t] > 0 /\ ~Settled(s)
    <3>1. ~Settled(s)'
      BY <1>1, <2>5, SettledBack
    <3>2. act'[a].todo # <<>>
      BY DEF WillApply
    <3>3. Refresher(a, t)'
      BY <1>1, <2>5, <3>1, <3>2 DEF Refresher, Settled
    <3> QED
      BY <3>3
  <2> QED
    BY <2>3, <2>4, <2>5
<1>8. Profiles'
  BY <1>1, ProfilesKept
<1> QED
  BY <1>1, <1>2, <1>3, <1>4, <1>5, <1>6, <1>7, <1>8 DEF PSInv

\* disableBoosts ends votes; the vote that follows it in the call applies.
LEMMA DisableBoostsStep ==
    ASSUME PSInv, NEW a \in Threads, disableBoosts(a)
    PROVE  PSInv'
<1>0. act \in [Threads -> Activity] /\ Busy(a) /\ Done(a)
  BY DEF PSInv, TypeOK, disableBoosts, At
<1>1. PICK k \in Steps : k = act[a].todo[1] /\ k = Next1(a)
  BY <1>0, ActFields DEF Busy
<1>2. k.op = "disableBoosts"
  BY <1>1 DEF disableBoosts, At
<1>s. Stepping(a, <<>>, NoStamp)
  BY <1>0, DoneSteps
<1>3. /\ TypeOK /\ Membership /\ Locks /\ Lists /\ act[a].sid \in Sessions
      /\ 1 \in 1 .. Len(act[a].todo) /\ act[a].todo # <<>> /\ act[a].todo \in Seq(Steps)
      /\ act'[a].todo = <<>> \o Tail(act[a].todo)
  BY <1>s, StepBasics
<1>4. PICK s \in Sessions : s = act[a].sid
  BY <1>3
<1>5. a \in Callers
  BY <1>1, <1>2, <1>3, OnlyCallers
<1>6. s \in mSessions
  BY <1>1, <1>2, <1>3, <1>4, <1>5 DEF Membership, CallMembership
<1>7. votes \in [Sessions -> [VoteIds -> VoteRange]] /\ votes[s] \in [VoteIds -> VoteRange]
  BY <1>3 DEF TypeOK
<1> DEFINE vs == WithoutBoosts(votes[s])
<1>8. vs \in [VoteIds -> VoteRange] /\ \A v \in VoteIds : vs[v].val = votes[s][v].val
  <2>1. \A vote \in VoteRange : /\ setUseVote(vote, FALSE) \in VoteRange
                                /\ setUseVote(vote, FALSE).val = vote.val
    BY DEF setUseVote, VoteRange
  <2>2. \A v \in VoteIds : votes[s][v] \in VoteRange
    BY <1>7
  <2>3. \A v \in VoteIds : vs[v] = IF v \in Boosts THEN setUseVote(votes[s][v], FALSE)
                                                   ELSE votes[s][v]
    BY DEF WithoutBoosts
  <2>4. vs = [v \in VoteIds |-> vs[v]]
    BY DEF WithoutBoosts
  <2> HIDE DEF vs
  <2> QED
    BY <2>1, <2>2, <2>3, <2>4
<1>9. votes' = [votes EXCEPT ![s] = vs]
  BY <1>4 DEF disableBoosts
<1> HIDE DEF vs
<1>10. /\ votes' \in [Sessions -> [VoteIds -> VoteRange]] /\ votes'[s] = vs
       /\ \A x \in Sessions : x # s => votes'[x] = votes[x]
  BY <1>7, <1>8, <1>9
<1>11. UNCHANGED <<mSessions, linkedTasks, mTasks, taskKeys, state, isActiveDesc, threadIds,
                   targetNs, isActive, uclamp, qos, gpuCapacity, taBoostOff, now, events, alive,
                   calls, stalls>>
  BY DEF disableBoosts, mapVars, descVars, kernelVars, bounds
<1>12. WillApply(act'[a].todo)
  <2> DEFINE q == act[a].todo
             r == act'[a].todo
             old == act[a].stamp
             none == <<>>
  <2>1. ListOK(q, old) /\ q \in Seq(Steps) /\ q # <<>> /\ q[1].op = "disableBoosts"
    BY <1>1, <1>2, <1>3, <1>5 DEF Lists
  <2>2. none \in Seq(Steps) /\ r = none \o Tail(q) /\ Len(none) = 0
    BY <1>3, RefreshList
  <2> HIDE DEF q, r, old, none
  <2>3. /\ Len(r) = Len(none) + Len(q) - 1 /\ Len(q) \in Nat /\ Len(q) >= 1
        /\ \A i \in Len(none) + 1 .. Len(r) : r[i] = q[i - Len(none) + 1]
    BY <2>1, <2>2, Spliced
  <2>4. Len(r) = Len(q) - 1 /\ \A i \in 1 .. Len(r) : r[i] = q[i + 1]
    <3>1. Len(r) = Len(q) - 1
      BY <2>2, <2>3
    <3>2. ASSUME NEW i \in 1 .. Len(r) PROVE r[i] = q[i + 1]
      <4>1. i \in Len(none) + 1 .. Len(r) /\ i - Len(none) + 1 = i + 1
        BY <2>2, <2>3
      <4> QED
        BY <2>3, <4>1
    <3> QED
      BY <3>1, <3>2
  <2>5. 1 \in 1 .. Len(q)
    BY <2>3
  <2>6. PICK j \in 2 .. Len(q) : q[j].op = "vote" /\ q[j].vid = "CPU_VOTE_DEFAULT"
    BY <2>1, <2>5 DEF ListOK
  <2>7. ASSUME NEW i \in 2 .. Len(q) PROVE q[i].op \notin Leaves
    <3>1. i \in 1 .. Len(q) /\ 1 \in 1 .. i - 1
      BY <2>3
    <3>2. ~Quiet(q[1])
      BY <2>1 DEF Quiet
    <3> QED
      BY <2>1, <3>1, <3>2 DEF ListOK
  <2>8. j - 1 \in 1 .. Len(r) /\ r[j - 1] = q[j]
    <3>1. j - 1 \in 1 .. Len(r) /\ j - 1 + 1 = j
      BY <2>3, <2>4
    <3> QED
      BY <2>4, <3>1
  <2>9. ASSUME NEW i \in 1 .. (j - 1) - 1 PROVE r[i].op \notin Leaves
    <3>1. i \in 1 .. Len(r) /\ i + 1 \in 2 .. Len(q)
      BY <2>3, <2>4
    <3> QED
      BY <2>4, <2>7, <3>1
  <2>10. Applies(r[j - 1])
    BY <2>6, <2>8 DEF Applies, CpuVoteIds
  <2>11. WillApply(r)
    BY <2>8, <2>9, <2>10 DEF WillApply
  <2> QED
    BY <2>11 DEF r
<1>13. \A v \in VoteIds : votes'[s][v].val = votes[s][v].val
  BY <1>8, <1>10
<1>14. \A x \in Sessions : x # s => votes'[x] = votes[x]
  BY <1>10
<1>15. k.op \in {"disableBoosts", "timeout"} /\ k = act[a].todo[1]
  BY <1>1, <1>2
<1>16. \A m \in 1 .. Len(<<>>) : <<>>[m].op # "setProfile"
  BY NoProfiles
<1>17. votes' \in [Sessions -> [VoteIds -> VoteRange]]
  BY <1>10
<1> QED
  BY <1>4, <1>6, <1>s, <1>11, <1>12, <1>13, <1>14, <1>15, <1>16, <1>17, EndVotesStep

\* handleEvent ends the vote and applies, queues the event again, or does nothing.
LEMMA HandleStep ==
    ASSUME PSInv, HandleEvent
    PROVE  PSInv'
<1>0. act \in [Threads -> Activity] /\ Busy(Handler) /\ Handler \in Threads
  BY ThreadKinds DEF PSInv, TypeOK, HandleEvent, At
<1>1. PICK k \in Steps : k = act[Handler].todo[1] /\ k = Next1(Handler)
  BY <1>0, ActFields DEF Busy
<1>2. k.op = "timeout" /\ k.vid \in VoteIds
  BY <1>1, StepFields DEF HandleEvent, At
<1>3. TypeOK /\ VoteLevels /\ Lists /\ Locks
  BY DEF PSInv
<1>4. PICK s \in Sessions : s = act[Handler].sid
  BY <1>0, <1>3, OnSession DEF Busy
<1>5. 1 \in 1 .. Len(act[Handler].todo) /\ act[Handler].todo # <<>> /\ act[Handler].todo \in Seq(Steps)
  BY <1>0, ActFields DEF Busy
<1>6. Len(act[Handler].todo) = 1
  <2>1. HandlerListOK(act[Handler].todo, act[Handler].stamp)
    BY <1>3 DEF Lists
  <2> QED
    BY <1>1, <1>2, <1>5, <2>1 DEF HandlerListOK
<1> DEFINE vote == votes[s][k.vid]
           vs == [votes[s] EXCEPT ![k.vid] = setUseVote(vote, FALSE)]
<1>7. /\ UNCHANGED <<mSessions, linkedTasks, mTasks, taskKeys, state, isActiveDesc, threadIds,
                     targetNs, isActive, uclamp, qos, gpuCapacity, taBoostOff, now, alive,
                     calls, stalls>>
      /\ \/ /\ s \in mSessions /\ votes' = [votes EXCEPT ![s] = vs]
            /\ act' = [act EXCEPT ![Handler].todo = Refresh] /\ UNCHANGED events
         \/ /\ events' = Queue!BagAdd(events, [sid |-> s, vid |-> k.vid,
                                               deadline |-> voteTimeout(vote)])
            /\ Done(Handler) /\ UNCHANGED votes
         \/ Done(Handler) /\ UNCHANGED <<votes, events>>
  BY <1>1, <1>4 DEF HandleEvent, mapVars, descVars, kernelVars, bounds
<1>8. votes \in [Sessions -> [VoteIds -> VoteRange]] /\ votes[s] \in [VoteIds -> VoteRange]
  BY <1>3 DEF TypeOK
<1>9. vote \in VoteRange
  BY <1>2, <1>8
<1> HIDE DEF vote
<1>10. CASE /\ s \in mSessions /\ votes' = [votes EXCEPT ![s] = vs]
            /\ act' = [act EXCEPT ![Handler].todo = Refresh] /\ UNCHANGED events
  <2>1. setUseVote(vote, FALSE) \in VoteRange /\ setUseVote(vote, FALSE).val = vote.val
    BY <1>9 DEF setUseVote, VoteRange
  <2>2. vs \in [VoteIds -> VoteRange] /\ \A v \in VoteIds : vs[v].val = votes[s][v].val
    BY <1>8, <2>1 DEF vote
  <2> HIDE DEF vs
  <2>3. /\ votes' \in [Sessions -> [VoteIds -> VoteRange]] /\ votes'[s] = vs
        /\ \A x \in Sessions : x # s => votes'[x] = votes[x]
    BY <1>8, <1>10, <2>2
  <2>4. act[Handler] \in Activity /\ Refresh \in Seq(Steps) /\ Refresh # <<>>
    BY <1>0, ActFields, RefreshList
  <2>5. /\ [act[Handler] EXCEPT !.todo = Refresh] \in Activity
        /\ [act[Handler] EXCEPT !.todo = Refresh].todo = Refresh
        /\ [act[Handler] EXCEPT !.todo = Refresh].sid = act[Handler].sid
        /\ [act[Handler] EXCEPT !.todo = Refresh].stamp = act[Handler].stamp
    BY <2>4 DEF Activity
  <2>6. act' = [act EXCEPT ![Handler] = [act[Handler] EXCEPT !.todo = Refresh]]
    BY <1>10
  <2>7. /\ act' \in [Threads -> Activity]
        /\ act'[Handler] = [act[Handler] EXCEPT !.todo = Refresh]
        /\ \A b \in Threads : b # Handler => act'[b] = act[b]
    BY <1>0, <2>5, <2>6
  <2>8. Refresh \o Tail(act[Handler].todo) = Refresh
    <3>1. Tail(act[Handler].todo) \in Seq(Steps) /\ Len(Tail(act[Handler].todo)) = 0
      BY <1>5, <1>6, HeadTailProperties
    <3>2. Tail(act[Handler].todo) = <<>>
      BY <3>1, EmptySeq
    <3> QED
      BY <2>4, <3>2, ConcatEmptySeq
  <2>9. Moved(Handler, Refresh, act[Handler].stamp)
    BY <2>4, <2>5, <2>7, <2>8 DEF Moved
  <2>10. \A i \in 1 .. Len(Refresh) : Refresh[i].op \in {"apply", "ubRead", "ubDo"}
    <3>1. \A i \in 1 .. Len(Refresh) : i = 1 \/ i = 2 \/ i = 3
      BY RefreshList
    <3> QED
      BY <3>1, RefreshList
  <2>11. Allowed(act[Handler].todo[1], Refresh, act[Handler].stamp)
    BY <2>10 DEF Allowed, Quiet
  <2>12. Stepping(Handler, Refresh, act[Handler].stamp)
    BY <1>5, <2>4, <2>7, <2>9, <2>11 DEF Stepping
  <2>13. WillApply(act'[Handler].todo)
    <3>1. WillApply(Refresh)
      <4>1. 1 \in 1 .. Len(Refresh) /\ Applies(Refresh[1])
        BY RefreshList DEF Applies
      <4>2. \A j \in 1 .. 1 - 1 : Refresh[j].op \notin Leaves
        OBVIOUS
      <4> QED
        BY <4>1, <4>2 DEF WillApply
    <3> QED
      BY <2>5, <2>7, <3>1
  <2>14. UNCHANGED <<mSessions, linkedTasks, mTasks, taskKeys, state, isActiveDesc, threadIds,
                     targetNs, isActive, uclamp, qos, gpuCapacity, taBoostOff, now, events,
                     alive, calls, stalls>>
    BY <1>7, <1>10
  <2>15. k.op \in {"disableBoosts", "timeout"} /\ k = act[Handler].todo[1]
    BY <1>1, <1>2
  <2>16. \A m \in 1 .. Len(Refresh) : Refresh[m].op # "setProfile"
    BY NoProfiles
  <2>17. votes' \in [Sessions -> [VoteIds -> VoteRange]]
    BY <2>3
  <2>18. \A x \in Sessions : x # s => votes'[x] = votes[x]
    BY <2>3
  <2>19. \A v \in VoteIds : votes'[s][v].val = votes[s][v].val
    BY <2>2, <2>3
  <2>20. s \in mSessions
    BY <1>10
  <2> QED
    BY <1>0, <1>4, <2>12, <2>13, <2>14, <2>15, <2>16, <2>17, <2>18, <2>19, <2>20, EndVotesStep
<1>11. CASE /\ Done(Handler) /\ UNCHANGED votes
            /\ \/ events' = Queue!BagAdd(events, [sid |-> s, vid |-> k.vid,
                                                  deadline |-> voteTimeout(vote)])
               \/ UNCHANGED events
  <2>1. Stepping(Handler, <<>>, NoStamp)
    BY <1>0, <1>11, DoneSteps
  <2>2. act' \in [Threads -> Activity]
    BY <2>1 DEF Stepping
  <2>3. voteTimeout(vote) \in Nat
    BY <1>9 DEF voteTimeout, VoteRange
  <2> DEFINE e == [sid |-> s, vid |-> k.vid, deadline |-> voteTimeout(vote)]
  <2>4. e \in [sid : Sessions, vid : VoteIds, deadline : Nat]
    BY <1>2, <2>3
  <2>5. events' = Queue!BagAdd(events, e) \/ UNCHANGED events
    BY <1>11
  <2> HIDE DEF e
  <2>6. DOMAIN events' \subseteq DOMAIN events \cup {e}
    BY <2>5 DEF Queue!BagAdd
  <2>7. DOMAIN events' \subseteq [sid : Sessions, vid : VoteIds, deadline : Nat]
    BY <1>3, <2>4, <2>6 DEF TypeOK
  <2>8. TypeOK'
    BY <1>3, <1>7, <1>11, <2>2, <2>7 DEF TypeOK, MapTypeOK
  <2>9. VoteLevels'
    BY <1>3, <1>11 DEF VoteLevels
  <2>10. UNCHANGED <<mSessions, linkedTasks, mTasks, taskKeys, state, targetNs, isActive,
                     uclamp, alive, qos, votes>>
    BY <1>7, <1>11
  <2>11. ~Applies(k) /\ k.op # "force" /\ k.op \notin {"add", "clearProfile"}
    BY <1>2 DEF Applies
  <2> QED
    BY <1>0, <1>1, <2>1, <2>8, <2>9, <2>10, <2>11, QuietStep, NoProfiles
<1> QED
  BY <1>7, <1>10, <1>11

\* A step that leaves every thread at the work it was at.
LEMMA SameWork ==
    ASSUME PSInv, TypeOK',
           \A b \in Threads : /\ act'[b].todo = act[b].todo /\ act'[b].sid = act[b].sid
                              /\ act'[b].stamp = act[b].stamp \/ act'[b].stamp # NoStamp,
           UNCHANGED <<mSessions, linkedTasks, mTasks, taskKeys, state, targetNs, isActive,
                       votes, uclamp>>,
           alive' \subseteq alive, qos' \subseteq qos
    PROVE  PSInv'
<1>1. /\ TypeOK /\ Consistent /\ Locks /\ Lists /\ Membership /\ VoteLevels
      /\ Inactive /\ Refreshed /\ Profiles
  BY DEF PSInv
<1>2. \A c \in Callers : act'[c].todo = act[c].todo /\ act'[c].sid = act[c].sid
  BY ThreadKinds
<1>3. Consistent' /\ VoteLevels'
  BY <1>1 DEF Consistent, LinksAgree, NoEmptyEntry, VoteLevels
<1>4. Locks'
  BY <1>1, <1>2 DEF Locks
<1>5. Lists'
  <2>1. ASSUME NEW c \in Callers PROVE ListOK(act'[c].todo, act'[c].stamp)
    <3>1. act'[c].todo = act[c].todo /\ (act'[c].stamp = act[c].stamp \/ act'[c].stamp # NoStamp)
      BY ThreadKinds
    <3> QED
      BY <1>1, <3>1 DEF Lists, ListOK
  <2>2. HandlerListOK(act'[Handler].todo, act'[Handler].stamp)
    <3>1. /\ act'[Handler].todo = act[Handler].todo
          /\ act'[Handler].stamp = act[Handler].stamp \/ act'[Handler].stamp # NoStamp
      BY ThreadKinds
    <3> QED
      BY <1>1, <3>1 DEF Lists, HandlerListOK
  <2> QED
    BY <2>1, <2>2 DEF Lists
<1>6. Membership'
  BY <1>1, <1>2 DEF Membership, CallMembership, SessionMembership
<1>7. Inactive'
  BY <1>1, <1>2 DEF Inactive
<1>8. Refreshed'
  <2> SUFFICES ASSUME NEW t \in alive', Unjustified(t)'
               PROVE  \E b \in Threads : Refresher(b, t)'
    BY DEF Refreshed
  <2>1. Unjustified(t) /\ t \in alive
    BY DEF Unjustified
  <2>2. PICK b \in Threads : Refresher(b, t)
    BY <1>1, <2>1 DEF Refreshed
  <2>3. \A s : Settled(s)' => Settled(s)
    BY <1>2 DEF Settled
  <2>4. Refresher(b, t)'
    BY <1>2, <2>2 DEF Refresher, Settled
  <2> QED
    BY <2>4
<1>9. Profiles'
  <2>1. \A t : ProfileClearPending(t) => ProfileClearPending(t)'
    BY DEF ProfileClearPending
  <2> QED
    BY <1>1, <1>2, <2>1 DEF Profiles
<1> QED
  BY <1>3, <1>4, <1>5, <1>6, <1>7, <1>8, <1>9 DEF PSInv

\* Reading the clock, the death of a client's thread and the passing of time.
LEMMA StampStep ==
    ASSUME PSInv, NEW a \in Threads, Stamp(a)
    PROVE  PSInv'
<1>1. TypeOK /\ act \in [Threads -> Activity] /\ now \in Nat
  BY Numbers DEF PSInv, TypeOK
<1>2. act[a] \in Activity
  BY <1>1, ActFields
<1>3. /\ [act[a] EXCEPT !.stamp = now] \in Activity
      /\ [act[a] EXCEPT !.stamp = now].todo = act[a].todo
      /\ [act[a] EXCEPT !.stamp = now].sid = act[a].sid
      /\ [act[a] EXCEPT !.stamp = now].stamp = now
  BY <1>1, <1>2 DEF Activity
<1>4. /\ act' = [act EXCEPT ![a] = [act[a] EXCEPT !.stamp = now]]
      /\ UNCHANGED <<mSessions, linkedTasks, mTasks, taskKeys, state, isActiveDesc, threadIds,
                     targetNs, isActive, votes, uclamp, qos, gpuCapacity, taBoostOff, now,
                     events, alive, calls, stalls>>
  BY DEF Stamp, mapVars, descVars, sveVars, kernelVars, bounds
<1>5. /\ act' \in [Threads -> Activity] /\ act'[a] = [act[a] EXCEPT !.stamp = now]
      /\ \A b \in Threads : b # a => act'[b] = act[b]
  BY <1>1, <1>3, <1>4
<1>6. now # NoStamp
  BY <1>1 DEF NoStamp
<1>7. \A b \in Threads : /\ act'[b].todo = act[b].todo /\ act'[b].sid = act[b].sid
                         /\ act'[b].stamp = act[b].stamp \/ act'[b].stamp # NoStamp
  BY <1>3, <1>5, <1>6
<1>8. TypeOK'
  BY <1>1, <1>4, <1>5 DEF TypeOK, MapTypeOK
<1> QED
  BY <1>4, <1>7, <1>8, SameWork

\* A thread that dies takes its uclamp and its profile with it.
LEMMA ThreadDiesStep ==
    ASSUME PSInv, NEW t \in Tids, ThreadDies(t)
    PROVE  PSInv'
<1>1. /\ UNCHANGED <<mSessions, linkedTasks, mTasks, taskKeys, state, isActiveDesc, threadIds,
                     targetNs, isActive, votes, uclamp, gpuCapacity, taBoostOff, now,
                     events, act, calls, stalls>>
      /\ alive' \subseteq alive /\ qos' \subseteq qos
  BY DEF ThreadDies, mapVars, descVars, sveVars, bounds
<1>2. TypeOK'
  BY <1>1 DEF PSInv, TypeOK, MapTypeOK
<1> QED
  BY <1>1, <1>2, SameWork

\* Time passes.
LEMMA TickStep ==
    ASSUME PSInv, Tick
    PROVE  PSInv'
<1>1. /\ UNCHANGED <<mSessions, linkedTasks, mTasks, taskKeys, state, isActiveDesc, threadIds,
                     targetNs, isActive, votes, uclamp, qos, gpuCapacity, taBoostOff,
                     events, act, alive, calls>>
  BY DEF Tick, mapVars, descVars, sveVars, kernelVars
<1>2. now' \in 0 .. MaxTime /\ stalls' \in 0 .. MaxStalls
  BY Numbers DEF PSInv, TypeOK, Tick
<1>3. TypeOK'
  BY <1>1, <1>2 DEF PSInv, TypeOK, MapTypeOK
<1> QED
  BY <1>1, <1>3, SameWork

-----------------------------------------------------------------------------
(* The beginning of a call and of an event.                                *)

\* An idle thread begins the steps q on session s.
Begun(a, s, q, stamp) ==
    /\ act[a].todo = <<>> /\ q \in Seq(Steps) /\ q # <<>>
    /\ act'[a].sid = s /\ act'[a].todo = q /\ act'[a].stamp = stamp
    /\ \A b \in Threads : b # a => act'[b] = act[b]

\* The order of the steps a call begins with.
CallList(q) ==
    /\ ListOK(q, NoStamp) /\ ~Leaving(q, {"force"})
    /\ \A i \in 1 .. Len(q) : q[i].op # "setProfile"

\* A call that has the lock, or an event, begins.
LEMMA BeginWork ==
    ASSUME PSInv, TypeOK', NEW a \in Threads, NEW s \in Sessions, NEW q, NEW stamp,
           Begun(a, s, q, stamp),
           a \in Callers => /\ stamp = NoStamp /\ CallList(q) /\ Unlocked(s)
                            /\ CallMembership(s, q)' /\ SessionMembership(s)',
           a = Handler => HandlerListOK(q, stamp) /\ UNCHANGED <<state, targetNs>>,
           \A x \in Sessions : x # s => state'[x] = state[x] /\ targetNs'[x] = targetNs[x],
           UNCHANGED <<mSessions, linkedTasks, mTasks, taskKeys, isActive, votes, uclamp,
                       alive, qos>>
    PROVE  PSInv'
<1>1. /\ TypeOK /\ Consistent /\ Locks /\ Lists /\ Membership /\ VoteLevels
      /\ Inactive /\ Refreshed /\ Profiles
  BY DEF PSInv
<1>2. /\ act[a].todo = <<>> /\ act[a].sid = None /\ q # <<>>
      /\ act'[a].sid = s /\ act'[a].todo = q /\ act'[a].stamp = stamp
      /\ \A b \in Threads : b # a => act'[b] = act[b]
      /\ s # None /\ Len(act[a].todo) = 0
  BY <1>1, ThreadKinds, RefreshList DEF Begun, Locks
<1>3. Consistent' /\ VoteLevels'
  BY <1>1 DEF Consistent, LinksAgree, NoEmptyEntry, VoteLevels
<1>4. Locks'
  <2>1. \A b \in Threads : act'[b].todo = <<>> <=> act'[b].sid = None
    BY <1>1, <1>2 DEF Locks
  <2>2. \A c, d \in Callers : act'[c].sid = act'[d].sid => c = d \/ act'[c].sid = None
    BY <1>1, <1>2, ThreadKinds DEF Locks, Unlocked
  <2> QED
    BY <2>1, <2>2 DEF Locks
<1>5. Lists'
  <2>1. ASSUME NEW c \in Callers PROVE ListOK(act'[c].todo, act'[c].stamp)
    BY <1>1, <1>2, ThreadKinds DEF Lists, CallList
  <2>2. HandlerListOK(act'[Handler].todo, act'[Handler].stamp)
    BY <1>1, <1>2, ThreadKinds DEF Lists
  <2> QED
    BY <2>1, <2>2 DEF Lists
<1>6. Membership'
  <2>1. ASSUME NEW c \in Callers PROVE CallMembership(act[c].sid, act[c].todo)'
    <3>1. CASE c = a
      BY <1>2, <3>1 DEF CallMembership
    <3>2. CASE c # a
      <4>1. act'[c] = act[c] /\ CallMembership(act[c].sid, act[c].todo)
        BY <1>1, <1>2, <3>2, ThreadKinds DEF Membership
      <4>2. CASE act[c].todo = <<>>
        <5>1. Len(act'[c].todo) = 0
          BY <4>1, <4>2, RefreshList
        <5> QED
          BY <5>1 DEF CallMembership
      <4>3. CASE act[c].todo # <<>>
        <5>1. act[c].sid \in Sessions
          BY <1>1, <4>3, OnSession, ThreadKinds DEF TypeOK
        <5>2. state'[act[c].sid] = state[act[c].sid]
          BY <5>1, ThreadKinds DEF Unlocked
        <5> QED
          BY <4>1, <5>2 DEF CallMembership
      <4> QED
        BY <4>2, <4>3
    <3> QED
      BY <3>1, <3>2
  <2>2. ASSUME NEW x \in Sessions PROVE SessionMembership(x)'
    <3>1. SessionMembership(x)
      BY <1>1 DEF Membership
    <3>2. CASE x = s /\ a \in Callers
      BY <3>2
    <3>3. CASE ~(x = s /\ a \in Callers)
      <4>1. state'[x] = state[x] /\ targetNs'[x] = targetNs[x]
        BY <3>3, ThreadKinds
      <4>2. \A c \in Callers : act[c].sid = x => act'[c] = act[c]
        BY <1>2, ThreadKinds
      <4> QED
        BY <3>1, <4>1, <4>2 DEF SessionMembership
    <3> QED
      BY <3>2, <3>3
  <2> QED
    BY <2>1, <2>2 DEF Membership
<1>7. Inactive'
  <2> SUFFICES ASSUME NEW c \in Callers, Leaving(act'[c].todo, {"force"})
               PROVE  ~isActive'[act'[c].sid]
    BY DEF Inactive
  <2>1. c # a
    BY <1>2 DEF CallList
  <2> QED
    BY <1>1, <1>2, <2>1, ThreadKinds DEF Inactive
<1>8. Refreshed'
  <2> SUFFICES ASSUME NEW t \in alive', Unjustified(t)'
               PROVE  \E b \in Threads : Refresher(b, t)'
    BY DEF Refreshed
  <2>1. Unjustified(t) /\ t \in alive
    BY DEF Unjustified
  <2>2. PICK b \in Threads : Refresher(b, t)
    BY <1>1, <2>1 DEF Refreshed
  <2>3. b # a
    BY <1>2, <2>2 DEF Refresher, WillApply
  <2>4. ASSUME NEW u, Settled(u)' PROVE Settled(u)
    <3>1. PICK c \in Callers : act'[c].sid = u /\ Leaving(act'[c].todo, {"force", "apply"})
      BY <2>4 DEF Settled
    <3>2. c # a
      <4>1. Leaving(act'[c].todo, {"force"})
        BY <3>1 DEF Leaving
      <4> QED
        BY <1>2, <4>1 DEF CallList
    <3> QED
      BY <1>2, <3>1, <3>2, ThreadKinds DEF Settled
  <2>5. PICK u : u = act[b].sid
    OBVIOUS
  <2>6. act'[b] = act[b] /\ u = act'[b].sid
    BY <1>2, <2>3, <2>5
  <2>7. Refresher(b, t)'
    BY <2>2, <2>4, <2>5, <2>6 DEF Refresher, Settled
  <2> QED
    BY <2>7
<1>9. Profiles'
  <2>1. ASSUME NEW t, ProfileClearPending(t) PROVE ProfileClearPending(t)'
    <3>1. PICK b \in Threads : \E i \in DOMAIN act[b].todo :
             act[b].todo[i].op = "clearProfile" /\ t \in act[b].todo[i].tids
      BY <2>1 DEF ProfileClearPending
    <3>2. b # a
      <4>1. DOMAIN <<>> = {}
        OBVIOUS
      <4> QED
        BY <1>2, <3>1, <4>1
    <3> QED
      BY <1>2, <3>1, <3>2 DEF ProfileClearPending
  <2>2. ASSUME NEW c \in Callers, NEW i \in 1 .. Len(act'[c].todo),
               act'[c].todo[i].op = "setProfile"
        PROVE  act'[c] = act[c]
    <3>1. c # a
      BY <1>2, <2>2 DEF CallList
    <3> QED
      BY <1>2, <3>1, ThreadKinds
  <2> QED
    BY <1>1, <2>1, <2>2 DEF Profiles
<1> QED
  BY <1>3, <1>4, <1>5, <1>6, <1>7, <1>8, <1>9 DEF PSInv

\* The worker begins with an event.
LEMMA TakeStep ==
    ASSUME PSInv, TakeEvent
    PROVE  PSInv'
<1>1. TypeOK /\ act \in [Threads -> Activity] /\ now \in Nat /\ now # NoStamp
  BY Numbers DEF PSInv, TypeOK, NoStamp
<1>2. PICK e \in DOMAIN events :
         /\ events' = Queue!BagRemove(events, e)
         /\ act' = [act EXCEPT ![Handler] =
                      [sid |-> e.sid, stamp |-> now, seen |-> FALSE,
                       todo |-> <<[op |-> "timeout", vid |-> e.vid, deadline |-> e.deadline]>>]]
  BY DEF TakeEvent
<1>3. e.sid \in Sessions /\ e.vid \in VoteIds /\ e.deadline \in Nat
  BY <1>1 DEF TypeOK
<1> DEFINE k == [op |-> "timeout", vid |-> e.vid, deadline |-> e.deadline]
           q == <<k>>
<1>4. k \in Steps /\ k.op = "timeout"
  BY <1>3, StepsWritten
<1> HIDE DEF k
<1>5. q \in Seq(Steps) /\ Len(q) = 1 /\ q[1].op = "timeout" /\ q # <<>>
  BY <1>4
<1>6. act' = [act EXCEPT ![Handler] = [sid |-> e.sid, stamp |-> now, seen |-> FALSE, todo |-> q]]
  BY <1>2 DEF k
<1> HIDE DEF q
<1>7. [sid |-> e.sid, stamp |-> now, seen |-> FALSE, todo |-> q] \in Activity
  BY <1>1, <1>3, <1>5 DEF Activity
<1>8. act' \in [Threads -> Activity]
  BY <1>1, <1>6, <1>7
<1>9. Begun(Handler, e.sid, q, now)
  BY <1>1, <1>5, <1>6, ThreadKinds DEF Begun, TakeEvent, Busy
<1>10. HandlerListOK(q, now)
  <2>1. \A i \in 1 .. Len(q) : i = 1
    BY <1>5
  <2> QED
    BY <1>1, <1>5, <2>1 DEF HandlerListOK
<1>11. UNCHANGED <<mSessions, linkedTasks, mTasks, taskKeys, state, isActiveDesc, threadIds,
                   targetNs, isActive, votes, uclamp, qos, gpuCapacity, taBoostOff, now,
                   alive, calls, stalls>>
  BY DEF TakeEvent, mapVars, descVars, sveVars, kernelVars, bounds
<1>12. DOMAIN events' \subseteq DOMAIN events
  BY <1>2 DEF Queue!BagRemove
<1>13. TypeOK'
  BY <1>1, <1>8, <1>11, <1>12 DEF TypeOK, MapTypeOK
<1>14. Handler \notin Callers
  BY ThreadKinds
<1> QED
  BY <1>3, <1>9, <1>10, <1>11, <1>13, <1>14, ThreadKinds, BeginWork

\* What the fields of a call are when it begins.
LEMMA BeginCall ==
    ASSUME PSInv, NEW c \in Callers, NEW s \in Sessions, NEW q \in Seq(Steps), q # <<>>,
           Call(c, s, q), CallList(q),
           state' \in [Sessions -> {"new", "open", "closed"}],
           isActiveDesc' \in [Sessions -> BOOLEAN], threadIds' \in [Sessions -> TaskBag],
           targetNs' \in [Sessions -> Targets \cup {0}],
           \A x \in Sessions : x # s => state'[x] = state[x] /\ targetNs'[x] = targetNs[x],
           CallMembership(s, q)',
           act'[c].sid = s /\ act'[c].todo = q => SessionMembership(s)'
    PROVE  PSInv'
<1>1. TypeOK /\ act \in [Threads -> Activity] /\ c \in Threads /\ c # Handler
  BY ThreadKinds DEF PSInv, TypeOK
<1> DEFINE r == [sid |-> s, todo |-> q, stamp |-> NoStamp, seen |-> FALSE]
<1>2. r \in Activity /\ r.sid = s /\ r.todo = q /\ r.stamp = NoStamp
  BY DEF Activity
<1>3. act' = [act EXCEPT ![c] = r]
  BY DEF Call
<1> HIDE DEF r
<1>4. /\ act' \in [Threads -> Activity] /\ act'[c] = r
      /\ \A b \in Threads : b # c => act'[b] = act[b]
  BY <1>1, <1>2, <1>3
<1>5. Begun(c, s, q, NoStamp)
  BY <1>2, <1>4 DEF Begun, Call, Busy
<1>6. UNCHANGED <<mSessions, linkedTasks, mTasks, taskKeys, isActive, votes, uclamp, qos,
                  gpuCapacity, taBoostOff, now, events, alive, stalls>>
  BY DEF Call, mapVars, sveVars, kernelVars
<1>7. calls' \in 0 .. MaxCalls
  BY <1>1, Numbers DEF Call, TypeOK
<1>8. TypeOK'
  BY <1>1, <1>4, <1>6, <1>7 DEF TypeOK, MapTypeOK
<1>9. SessionMembership(s)'
  BY <1>2, <1>4
<1>10. Unlocked(s)
  BY DEF Call
<1> QED
  BY <1>1, <1>5, <1>6, <1>8, <1>9, <1>10, BeginWork

\* A session that is open and unlocked has its entry.
LEMMA OpenListed ==
    ASSUME PSInv, NEW s \in Sessions, state[s] = "open", Unlocked(s)
    PROVE  s \in mSessions /\ targetNs[s] \in Targets
<1>1. SessionMembership(s)
  BY DEF PSInv, Membership
<1> QED
  BY <1>1 DEF SessionMembership, Unlocked

\* A call on an open session.
LEMMA LaterCall ==
    ASSUME PSInv, NEW c \in Callers, NEW s \in Sessions, NEW q \in Seq(Steps), q # <<>>,
           Call(c, s, q), CallList(q), state[s] = "open",
           state' \in [Sessions -> {"new", "open", "closed"}],
           isActiveDesc' \in [Sessions -> BOOLEAN], threadIds' \in [Sessions -> TaskBag],
           targetNs' \in [Sessions -> Targets \cup {0}], targetNs'[s] \in Targets,
           \A x \in Sessions : x # s => state'[x] = state[x] /\ targetNs'[x] = targetNs[x],
           state'[s] # "new",
           \A i \in 1 .. Len(q) : /\ q[i].op # "add"
                                  /\ q[i].op = "remove" => state'[s] = "closed"
    PROVE  PSInv'
<1>1. Unlocked(s) /\ UNCHANGED mSessions
  BY DEF Call, mapVars
<1>2. s \in mSessions
  BY <1>1, OpenListed
<1>3. CallMembership(s, q)'
  BY <1>1, <1>2 DEF CallMembership
<1>4. SessionMembership(s)'
  BY <1>1, <1>2 DEF SessionMembership
<1> QED
  BY <1>3, <1>4, BeginCall

-----------------------------------------------------------------------------
(* The lists of steps the calls begin with.                                *)

\* Two lists of steps one after the other.
LEMMA Joined ==
    ASSUME NEW p \in Seq(Steps), NEW q \in Seq(Steps), NEW r, r = p \o q
    PROVE  /\ r \in Seq(Steps) /\ Len(r) = Len(p) + Len(q)
           /\ Len(p) \in Nat /\ Len(q) \in Nat
           /\ \A i \in 1 .. Len(p) : r[i] = p[i]
           /\ \A i \in 1 .. Len(q) : r[Len(p) + i] = q[i]
           /\ \A i \in 1 .. Len(r) : \/ \E j \in 1 .. Len(p) : r[i] = p[j]
                                     \/ \E j \in 1 .. Len(q) : r[i] = q[j]
<1>1. /\ r \in Seq(Steps) /\ Len(r) = Len(p) + Len(q)
      /\ Len(p) \in Nat /\ Len(q) \in Nat
      /\ \A i \in 1 .. Len(r) : r[i] = IF i <= Len(p) THEN p[i] ELSE q[i - Len(p)]
  BY ConcatProperties, LenProperties
<1>2. ASSUME NEW i \in 1 .. Len(r)
      PROVE  (\E j \in 1 .. Len(p) : r[i] = p[j]) \/ \E j \in 1 .. Len(q) : r[i] = q[j]
  <2>1. CASE i <= Len(p)
    BY <1>1, <2>1
  <2>2. CASE ~(i <= Len(p))
    <3>1. i - Len(p) \in 1 .. Len(q) /\ r[i] = q[i - Len(p)]
      BY <1>1, <2>2
    <3> QED
      BY <3>1
  <2> QED
    BY <2>1, <2>2
<1>3. \A i \in 1 .. Len(p) : r[i] = p[i]
  BY <1>1
<1>4. ASSUME NEW i \in 1 .. Len(q) PROVE r[Len(p) + i] = q[i]
  <2>1. Len(p) + i \in 1 .. Len(r) /\ ~(Len(p) + i <= Len(p)) /\ Len(p) + i - Len(p) = i
    BY <1>1
  <2> QED
    BY <1>1, <2>1
<1> QED
  BY <1>1, <1>2, <1>3, <1>4

\* A list with a length is not empty.
LEMMA NotEmpty ==
    ASSUME NEW q, Len(q) # 0
    PROVE  q # <<>>
<1>1. Len(<<>>) = 0
  OBVIOUS
<1> QED
  BY <1>1

\* One more step at the end of a list.
LEMMA Longer ==
    ASSUME NEW p \in Seq(Steps), NEW k \in Steps, NEW r, r = p \o <<k>>
    PROVE  /\ r \in Seq(Steps) /\ Len(r) = Len(p) + 1 /\ Len(p) \in Nat
           /\ r[Len(p) + 1] = k /\ \A i \in 1 .. Len(p) : r[i] = p[i]
<1> DEFINE q == <<k>>
<1>1. q \in Seq(Steps) /\ Len(q) = 1 /\ q[1] = k
  OBVIOUS
<1> HIDE DEF q
<1>2. /\ r \in Seq(Steps) /\ Len(r) = Len(p) + Len(q) /\ Len(p) \in Nat
      /\ \A i \in 1 .. Len(p) : r[i] = p[i]
      /\ \A i \in 1 .. Len(q) : r[Len(p) + i] = q[i]
  BY <1>1, Joined DEF q
<1>3. r[Len(p) + 1] = q[1]
  BY <1>1, <1>2
<1> QED
  BY <1>1, <1>2, <1>3

\* A call that leaves the threads of the session alone.
LEMMA CalmCall ==
    ASSUME NEW q \in Seq(Steps),
           \A i \in 1 .. Len(q) :
              /\ q[i].op \in {"ubRead", "ubDo", "disableBoosts", "vote", "target"}
              /\ q[i].op = "disableBoosts" => \E j \in i + 1 .. Len(q) :
                    q[j].op = "vote" /\ q[j].vid = "CPU_VOTE_DEFAULT"
    PROVE  CallList(q)
  BY DEF CallList, ListOK, Leaving, Leaves

\* A call that changes the threads of the session, which createHintSession
\* adds first.
LEMMA ThreadCall ==
    ASSUME NEW q \in Seq(Steps), NEW n \in {0, 1}, Len(q) >= n + 3,
           n = 1 => q[1].op = "add",
           q[n + 1].op = "force", q[n + 1].flag = FALSE,
           q[n + 2].op = "replace", q[n + 3].op = "force",
           \A i \in n + 4 .. Len(q) : q[i].op \in {"vote", "setActive"}
    PROVE  CallList(q)
<1>1. Len(q) \in Nat
  BY LenProperties
<1>2. \A i \in 1 .. Len(q) : i <= n \/ i = n + 1 \/ i = n + 2 \/ i = n + 3 \/ i \in n + 4 .. Len(q)
  BY <1>1
<1>3. \A i \in 1 .. Len(q) : i <= n => n = 1 /\ i = 1
  BY <1>1
<1>4. ASSUME NEW i \in 1 .. Len(q)
      PROVE  /\ q[i].op \in {"add", "force", "replace", "vote", "setActive"}
             /\ q[i].op = "add" => i = 1 /\ n = 1
             /\ q[i].op \in Leaves => i = n + 2
  BY <1>2, <1>3 DEF Leaves
<1>5. \A j \in 1 .. n + 2 - 1 : Quiet(q[j])
  <2>1. \A j \in 1 .. n + 2 - 1 : j = n + 1 \/ (n = 1 /\ j = 1)
    OBVIOUS
  <2> QED
    BY <2>1 DEF Quiet
<1>6. ~Leaving(q, {"force"})
  <2>1. n + 1 \in 1 .. (n + 2) - 1
    OBVIOUS
  <2> QED
    BY <1>4, <2>1 DEF Leaving
<1>7. n = 1 => 2 <= Len(q) /\ q[2].op = "force"
  BY <1>1
<1>8. ListOK(q, NoStamp)
  BY <1>4, <1>5, <1>7 DEF ListOK
<1> QED
  BY <1>4, <1>6, <1>8 DEF CallList

\* The list of setThreadsFromPowerSession.
LEMMA ThreadSteps ==
    ASSUME NEW tids \in TaskBag, NEW q, q = setThreadsFromPowerSession(tids)
    PROVE  /\ q \in Seq(Steps) /\ Len(q) = 3
           /\ q[1].op = "force" /\ q[1].flag = FALSE /\ q[2].op = "replace" /\ q[3].op = "force"
<1> DEFINE f == [op |-> "force", flag |-> FALSE]
           k == [op |-> "replace", tids |-> tids]
           g == [op |-> "force", flag |-> TRUE]
           p == <<f>> \o <<k>>
<1>1. /\ f \in Steps /\ k \in Steps /\ g \in Steps
      /\ f.op = "force" /\ f.flag = FALSE /\ k.op = "replace" /\ g.op = "force"
  BY StepsWritten
<1>2. q = p \o <<g>>
  BY DEF setThreadsFromPowerSession, forceSessionActive
<1> HIDE DEF f, k, g
<1>3. <<f>> \in Seq(Steps) /\ Len(<<f>>) = 1 /\ <<f>>[1] = f
  BY <1>1
<1>4. p \in Seq(Steps) /\ Len(p) = 2 /\ p[1] = f /\ p[2] = k
  <2> DEFINE h == <<f>>
  <2>1. h \in Seq(Steps) /\ Len(h) = 1 /\ h[1] = f /\ p = h \o <<k>>
    BY <1>3
  <2> HIDE DEF h, p
  <2> QED
    BY <1>1, <2>1, Longer
<1> HIDE DEF p
<1>5. q \in Seq(Steps) /\ Len(q) = 3 /\ q[1] = f /\ q[2] = k /\ q[3] = g
  BY <1>1, <1>2, <1>4, Longer
<1> QED
  BY <1>1, <1>5

\* The durations computed from a target.
LEMMA TargetDurations ==
    ASSUME NEW d \in Targets
    PROVE  /\ d \in Durations /\ d * 2 \in Durations /\ d * StaleTimeFactor \in Durations
           /\ (d * StaleTimeFactor) \div 2 \in Durations
           /\ Max({d * StaleTimeFactor, ReportingRateLimit * 2}) \in Durations
<1>1. {d * 2, d * StaleTimeFactor, (d * StaleTimeFactor) \div 2,
       Max({d * StaleTimeFactor, ReportingRateLimit * 2})} \subseteq Durations
  BY PowerSessionAssumption
<1>2. d \in Durations
  BY PowerSessionAssumption
<1> QED
  BY <1>1, <1>2, Zenon

\* The list of voteSet.
LEMMA VotePiece ==
    ASSUME NEW v \in VoteIds, NEW val \in Levels, NEW dur \in Durations,
           NEW p, p = voteSet(v, val, dur)
    PROVE  p \in Seq(Steps) /\ Len(p) = 1 /\ p[1].op = "vote" /\ p[1].vid = v
<1> DEFINE k == [op |-> "vote", vid |-> v, val |-> val, dur |-> dur]
<1>1. k \in Steps /\ k.op = "vote" /\ k.vid = v
  BY StepsWritten
<1>2. p = <<k>>
  BY DEF voteSet
<1> HIDE DEF k
<1>3. <<k>> \in Seq(Steps) /\ Len(<<k>>) = 1 /\ <<k>>[1] = k
  BY <1>1
<1> QED
  BY <1>1, <1>2, <1>3

\* The list of updatePidControlVariable.
LEMMA PidPiece ==
    ASSUME NEW s, targetNs[s] \in Targets, NEW val \in Levels,
           NEW p, p = updatePidControlVariable(s, val)
    PROVE  p \in Seq(Steps) /\ Len(p) = 1 /\ p[1].op = "vote" /\ p[1].vid = "CPU_VOTE_DEFAULT"
<1> DEFINE dur == Max({targetNs[s] * StaleTimeFactor, ReportingRateLimit * 2})
<1>1. dur \in Durations
  BY TargetDurations
<1>2. p = voteSet("CPU_VOTE_DEFAULT", val, dur)
  BY DEF updatePidControlVariable
<1>3. "CPU_VOTE_DEFAULT" \in VoteIds
  BY DEF VoteIds, CpuVoteIds
<1> HIDE DEF dur
<1> QED
  BY <1>1, <1>2, <1>3, VotePiece

\* The types of what the calls write.
LEMMA CallTypes ==
    ASSUME PSInv
    PROVE  /\ state \in [Sessions -> {"new", "open", "closed"}]
           /\ isActiveDesc \in [Sessions -> BOOLEAN] /\ threadIds \in [Sessions -> TaskBag]
           /\ targetNs \in [Sessions -> Targets \cup {0}]
           /\ ThreadList \subseteq TaskBag /\ NoTasks \in TaskBag
<1>1. TypeOK
  BY DEF PSInv
<1>2. ThreadList \subseteq TaskBag /\ NoTasks \in TaskBag
  BY DEF ThreadList, TaskBag, NoTasks
<1> QED
  BY <1>1, <1>2 DEF TypeOK

\* createHintSession: the session is open from here on and will be added.
LEMMA CreateCall ==
    ASSUME PSInv, NEW s \in Sessions, createHintSession(s)
    PROVE  PSInv'
<1>1. PICK taskIds \in ThreadList, target \in Targets, min \in Levels :
         /\ state' = [state EXCEPT ![s] = "open"]
         /\ threadIds' = [threadIds EXCEPT ![s] = taskIds]
         /\ targetNs' = [targetNs EXCEPT ![s] = target]
         /\ Call(Binder, s,
                 <<[op |-> "add"]>> \o setThreadsFromPowerSession(taskIds)
                 \o voteSet("CPU_LOAD_RESET", min, (target * StaleTimeFactor) \div 2)
                 \o voteSet("CPU_VOTE_DEFAULT", min, target))
  BY DEF createHintSession
<1> DEFINE k == [op |-> "add"]
           p1 == <<k>>
           p2 == setThreadsFromPowerSession(taskIds)
           p3 == voteSet("CPU_LOAD_RESET", min, (target * StaleTimeFactor) \div 2)
           p4 == voteSet("CPU_VOTE_DEFAULT", min, target)
           q2 == p1 \o p2
           q3 == q2 \o p3
           q == q3 \o p4
<1>2. Call(Binder, s, q)
  BY <1>1
<1>3. k \in Steps /\ k.op = "add"
  BY StepsWritten
<1> HIDE DEF k
<1>4. p1 \in Seq(Steps) /\ Len(p1) = 1 /\ p1[1] = k
  BY <1>3
<1>5. /\ p2 \in Seq(Steps) /\ Len(p2) = 3
      /\ p2[1].op = "force" /\ p2[1].flag = FALSE /\ p2[2].op = "replace" /\ p2[3].op = "force"
  BY CallTypes, ThreadSteps
<1>6. /\ "CPU_LOAD_RESET" \in VoteIds /\ "CPU_VOTE_DEFAULT" \in VoteIds
      /\ target \in Durations /\ (target * StaleTimeFactor) \div 2 \in Durations
  BY TargetDurations DEF VoteIds, CpuVoteIds
<1>7. p3 \in Seq(Steps) /\ Len(p3) = 1 /\ p3[1].op = "vote"
  BY <1>6, VotePiece
<1>8. p4 \in Seq(Steps) /\ Len(p4) = 1 /\ p4[1].op = "vote"
  BY <1>6, VotePiece
<1> HIDE DEF p1, p2, p3, p4
<1>j. q2 = p1 \o p2
  OBVIOUS
<1>k. q3 = q2 \o p3
  OBVIOUS
<1>l. q = q3 \o p4
  OBVIOUS
<1> HIDE DEF q2, q3, q
<1>9. /\ q2 \in Seq(Steps) /\ Len(q2) = 4 /\ q2[1] = p1[1]
      /\ q2[2] = p2[1] /\ q2[3] = p2[2] /\ q2[4] = p2[3]
  <2>0. p1 \in Seq(Steps) /\ p2 \in Seq(Steps)
    BY <1>4, <1>5
  <2>1. /\ q2 \in Seq(Steps) /\ Len(q2) = Len(p1) + Len(p2)
        /\ \A i \in 1 .. Len(p1) : q2[i] = p1[i]
        /\ \A i \in 1 .. Len(p2) : q2[Len(p1) + i] = p2[i]
    BY <1>j, <2>0, Joined
  <2>2. q2[1 + 1] = p2[1] /\ q2[1 + 2] = p2[2] /\ q2[1 + 3] = p2[3]
    BY <1>4, <1>5, <2>1
  <2> QED
    BY <1>4, <1>5, <2>1, <2>2
<1>10. /\ q3 \in Seq(Steps) /\ Len(q3) = 5 /\ q3[5] = p3[1]
       /\ q3[1] = q2[1] /\ q3[2] = q2[2] /\ q3[3] = q2[3] /\ q3[4] = q2[4]
  <2>0. q2 \in Seq(Steps) /\ p3 \in Seq(Steps)
    BY <1>7, <1>9
  <2>1. /\ q3 \in Seq(Steps) /\ Len(q3) = Len(q2) + Len(p3)
        /\ \A i \in 1 .. Len(q2) : q3[i] = q2[i]
        /\ \A i \in 1 .. Len(p3) : q3[Len(q2) + i] = p3[i]
    BY <1>k, <2>0, Joined
  <2>2. q3[4 + 1] = p3[1]
    BY <1>7, <1>9, <2>1
  <2> QED
    BY <1>7, <1>9, <2>1, <2>2
<1>11. /\ q \in Seq(Steps) /\ Len(q) = 6 /\ q[5] = q3[5] /\ q[6] = p4[1]
       /\ q[1] = q3[1] /\ q[2] = q3[2] /\ q[3] = q3[3] /\ q[4] = q3[4]
  <2>0. q3 \in Seq(Steps) /\ p4 \in Seq(Steps)
    BY <1>8, <1>10
  <2>1. /\ q \in Seq(Steps) /\ Len(q) = Len(q3) + Len(p4)
        /\ \A i \in 1 .. Len(q3) : q[i] = q3[i]
        /\ \A i \in 1 .. Len(p4) : q[Len(q3) + i] = p4[i]
    BY <1>l, <2>0, Joined
  <2>2. q[5 + 1] = p4[1]
    BY <1>8, <1>10, <2>1
  <2> QED
    BY <1>8, <1>10, <2>1, <2>2
<1>12. /\ q[1].op = "add" /\ q[2].op = "force" /\ q[2].flag = FALSE /\ q[3].op = "replace"
       /\ q[4].op = "force" /\ q[5].op = "vote" /\ q[6].op = "vote"
  BY <1>3, <1>4, <1>5, <1>7, <1>8, <1>9, <1>10, <1>11
<1>13. CallList(q)
  <2>1. /\ 1 \in {0, 1} /\ Len(q) >= 1 + 3 /\ q[1 + 1].op = "force" /\ q[1 + 1].flag = FALSE
        /\ q[1 + 2].op = "replace" /\ q[1 + 3].op = "force"
    BY <1>11, <1>12
  <2>2. \A i \in 1 + 4 .. Len(q) : q[i].op \in {"vote", "setActive"}
    <3>1. \A i \in 1 + 4 .. Len(q) : i = 5 \/ i = 6
      BY <1>11
    <3> QED
      BY <1>12, <3>1
  <2> QED
    BY <1>11, <1>12, <2>1, <2>2, ThreadCall
<1>14. /\ state' \in [Sessions -> {"new", "open", "closed"}] /\ state'[s] = "open"
       /\ isActiveDesc' \in [Sessions -> BOOLEAN] /\ threadIds' \in [Sessions -> TaskBag]
       /\ targetNs' \in [Sessions -> Targets \cup {0}] /\ targetNs'[s] = target
       /\ \A x \in Sessions : x # s => state'[x] = state[x] /\ targetNs'[x] = targetNs[x]
  BY <1>1, CallTypes DEF createHintSession
<1>15. s \notin mSessions' /\ votes'[s] = NoVotes /\ ~isActive'[s]
  <2>1. SessionMembership(s) /\ state[s] = "new"
    BY DEF PSInv, Membership, createHintSession
  <2>2. UNCHANGED <<mSessions, votes, isActive>>
    BY <1>2 DEF Call, mapVars, sveVars
  <2> QED
    BY <2>1, <2>2 DEF SessionMembership
<1>16. CallMembership(s, q)'
  <2>1. \A i \in 1 .. Len(q) : i = 1 \/ i = 2 \/ i = 3 \/ i = 4 \/ i = 5 \/ i = 6
    BY <1>11
  <2>2. \A i \in 1 .. Len(q) : q[i].op \notin {"remove", "target", "disableBoosts"}
    BY <1>12, <2>1
  <2> QED
    BY <1>14, <1>15, <2>2 DEF CallMembership
<1>17. ASSUME act'[Binder].sid = s, act'[Binder].todo = q PROVE SessionMembership(s)'
  <2>1. 1 \in 1 .. Len(q)
    BY <1>11
  <2>2. WillAdd(act'[Binder].todo)
    BY <1>12, <1>17, <2>1 DEF WillAdd
  <2> QED
    BY <1>14, <1>15, <1>17, <2>2, ThreadKinds DEF SessionMembership
<1>18. q # <<>>
  BY <1>11, RefreshList
<1> QED
  BY <1>2, <1>11, <1>13, <1>14, <1>16, <1>17, <1>18, ThreadKinds, BeginCall

\* setThreadsFromPowerSession and one more step.
LEMMA ThreadsAndOne ==
    ASSUME NEW tids \in TaskBag, NEW p \in Seq(Steps), Len(p) = 1,
           p[1].op \in {"vote", "setActive"},
           NEW q, q = setThreadsFromPowerSession(tids) \o p
    PROVE  /\ q \in Seq(Steps) /\ q # <<>> /\ CallList(q)
           /\ \A i \in 1 .. Len(q) : q[i].op # "add" /\ q[i].op # "remove"
<1> DEFINE h == setThreadsFromPowerSession(tids)
<1>1. /\ h \in Seq(Steps) /\ Len(h) = 3
      /\ h[1].op = "force" /\ h[1].flag = FALSE /\ h[2].op = "replace" /\ h[3].op = "force"
  BY ThreadSteps
<1>2. q = h \o p
  OBVIOUS
<1> HIDE DEF h
<1>3. /\ q \in Seq(Steps) /\ Len(q) = 4
      /\ q[1] = h[1] /\ q[2] = h[2] /\ q[3] = h[3] /\ q[4] = p[1]
  <2>1. /\ q \in Seq(Steps) /\ Len(q) = Len(h) + Len(p)
        /\ \A i \in 1 .. Len(h) : q[i] = h[i]
        /\ \A i \in 1 .. Len(p) : q[Len(h) + i] = p[i]
    BY <1>1, <1>2, Joined
  <2>2. q[3 + 1] = p[1]
    BY <1>1, <2>1
  <2> QED
    BY <1>1, <2>1, <2>2
<1>4. /\ 0 \in {0, 1} /\ Len(q) >= 0 + 3 /\ q[0 + 1].op = "force" /\ q[0 + 1].flag = FALSE
      /\ q[0 + 2].op = "replace" /\ q[0 + 3].op = "force" /\ q[4].op \in {"vote", "setActive"}
  BY <1>1, <1>3
<1>5. \A i \in 0 + 4 .. Len(q) : q[i].op \in {"vote", "setActive"}
  <2>1. \A i \in 0 + 4 .. Len(q) : i = 4
    BY <1>3
  <2> QED
    BY <1>4, <2>1
<1>6. CallList(q)
  BY <1>3, <1>4, <1>5, ThreadCall
<1>7. \A i \in 1 .. Len(q) : q[i].op # "add" /\ q[i].op # "remove"
  <2>1. \A i \in 1 .. Len(q) : i = 1 \/ i = 2 \/ i = 3 \/ i = 4
    BY <1>3
  <2> QED
    BY <1>1, <1>3, <2>1
<1> QED
  BY <1>3, <1>6, <1>7, RefreshList

\* pause and resume.
LEMMA PauseCall ==
    ASSUME PSInv, NEW s \in Sessions, pause(s) \/ resume(s)
    PROVE  PSInv'
<1>1. PICK tids \in TaskBag, flag \in BOOLEAN :
         /\ isActiveDesc' = [isActiveDesc EXCEPT ![s] = flag]
         /\ Call(Binder, s, setThreadsFromPowerSession(tids)
                            \o <<[op |-> "setActive", flag |-> flag]>>)
  <2>1. NoTasks \in TaskBag /\ threadIds[s] \in TaskBag
    BY CallTypes
  <2>2. CASE pause(s)
    BY <2>1, <2>2 DEF pause
  <2>3. CASE resume(s)
    BY <2>1, <2>3 DEF resume
  <2> QED
    BY <2>2, <2>3
<1>2. state[s] = "open" /\ UNCHANGED <<state, threadIds, targetNs>>
  BY DEF pause, resume
<1> DEFINE k == [op |-> "setActive", flag |-> flag]
           p == <<k>>
           q == setThreadsFromPowerSession(tids) \o p
<1>3. k \in Steps /\ k.op = "setActive"
  BY StepsWritten
<1>4. Call(Binder, s, q)
  BY <1>1
<1> HIDE DEF k
<1>5. p \in Seq(Steps) /\ Len(p) = 1 /\ p[1].op = "setActive"
  BY <1>3
<1> HIDE DEF p
<1>6. /\ q \in Seq(Steps) /\ q # <<>> /\ CallList(q)
      /\ \A i \in 1 .. Len(q) : q[i].op # "add" /\ q[i].op # "remove"
  BY <1>5, ThreadsAndOne
<1> HIDE DEF q
<1>7. /\ state' \in [Sessions -> {"new", "open", "closed"}] /\ state'[s] = "open"
      /\ isActiveDesc' \in [Sessions -> BOOLEAN] /\ threadIds' \in [Sessions -> TaskBag]
      /\ targetNs' \in [Sessions -> Targets \cup {0}] /\ targetNs'[s] = targetNs[s]
      /\ \A x \in Sessions : x # s => state'[x] = state[x] /\ targetNs'[x] = targetNs[x]
  BY <1>1, <1>2, CallTypes
<1>8. targetNs'[s] \in Targets
  BY <1>2, <1>4, <1>7, OpenListed DEF Call
<1> QED
  BY <1>2, <1>4, <1>6, <1>7, <1>8, ThreadKinds, LaterCall

\* setThreads.
LEMMA SetThreadsCall ==
    ASSUME PSInv, NEW s \in Sessions, setThreads(s)
    PROVE  PSInv'
<1>1. PICK taskIds \in ThreadList, min \in Levels :
         /\ threadIds' = [threadIds EXCEPT ![s] = taskIds]
         /\ Call(Binder, s, setThreadsFromPowerSession(taskIds)
                            \o updatePidControlVariable(s, min))
  BY DEF setThreads
<1>2. state[s] = "open" /\ UNCHANGED <<state, isActiveDesc, targetNs>>
  BY DEF setThreads
<1>3. targetNs[s] \in Targets
  BY <1>1, <1>2, OpenListed DEF Call
<1>4. PICK p : p = updatePidControlVariable(s, min)
  OBVIOUS
<1>5. p \in Seq(Steps) /\ Len(p) = 1 /\ p[1].op = "vote"
  BY <1>3, <1>4, PidPiece
<1>6. PICK q : q = setThreadsFromPowerSession(taskIds) \o p
  OBVIOUS
<1>7. Call(Binder, s, q)
  BY <1>1, <1>4, <1>6
<1>8. taskIds \in TaskBag
  BY CallTypes
<1>9. /\ q \in Seq(Steps) /\ q # <<>> /\ CallList(q)
      /\ \A i \in 1 .. Len(q) : q[i].op # "add" /\ q[i].op # "remove"
  BY <1>5, <1>6, <1>8, ThreadsAndOne
<1>10. /\ state' \in [Sessions -> {"new", "open", "closed"}] /\ state'[s] = "open"
       /\ isActiveDesc' \in [Sessions -> BOOLEAN] /\ threadIds' \in [Sessions -> TaskBag]
       /\ targetNs' \in [Sessions -> Targets \cup {0}] /\ targetNs'[s] = targetNs[s]
       /\ \A x \in Sessions : x # s => state'[x] = state[x] /\ targetNs'[x] = targetNs[x]
  BY <1>1, <1>2, <1>8, CallTypes
<1> QED
  BY <1>2, <1>3, <1>7, <1>9, <1>10, ThreadKinds, LaterCall

\* close: the session is switched off and removed.
LEMMA CloseCall ==
    ASSUME PSInv, NEW c \in Callers, NEW s \in Sessions, close(c, s)
    PROVE  PSInv'
<1>1. /\ state[s] = "open" /\ state' = [state EXCEPT ![s] = "closed"]
      /\ isActiveDesc' = [isActiveDesc EXCEPT ![s] = FALSE]
      /\ Call(c, s, removePowerSession) /\ UNCHANGED <<threadIds, targetNs>>
  BY DEF close
<1> DEFINE f == [op |-> "force", flag |-> FALSE]
           k == [op |-> "remove"]
           p == <<f>>
           q == p \o <<k>>
<1>2. /\ f \in Steps /\ k \in Steps
      /\ f.op = "force" /\ f.flag = FALSE /\ k.op = "remove"
  BY StepsWritten
<1>3. Call(c, s, q)
  BY <1>1 DEF removePowerSession, forceSessionActive
<1> HIDE DEF f, k
<1>4. p \in Seq(Steps) /\ Len(p) = 1 /\ p[1] = f
  BY <1>2
<1>j. q = p \o <<k>>
  OBVIOUS
<1> HIDE DEF p, q
<1>5. /\ q \in Seq(Steps) /\ Len(q) = Len(p) + 1
      /\ q[Len(p) + 1] = k /\ \A i \in 1 .. Len(p) : q[i] = p[i]
  BY <1>2, <1>4, <1>j, Longer
<1>6. q[1] = f /\ q[2] = k /\ Len(q) = 2 /\ \A i \in 1 .. Len(q) : i = 1 \/ i = 2
  BY <1>4, <1>5
<1>7. CallList(q)
  <2>1. \A j \in 1 .. 2 - 1 : j = 1
    OBVIOUS
  <2>2. ListOK(q, NoStamp)
    BY <1>2, <1>6, <2>1 DEF ListOK, Leaves, Quiet
  <2>3. ~Leaving(q, {"force"})
    <3>1. 1 \in 1 .. 2 - 1
      OBVIOUS
    <3> QED
      BY <1>2, <1>6, <3>1 DEF Leaving, Leaves
  <2> QED
    BY <1>2, <1>6, <2>2, <2>3 DEF CallList
<1>8. /\ state' \in [Sessions -> {"new", "open", "closed"}] /\ state'[s] = "closed"
      /\ isActiveDesc' \in [Sessions -> BOOLEAN] /\ threadIds' \in [Sessions -> TaskBag]
      /\ targetNs' \in [Sessions -> Targets \cup {0}] /\ targetNs'[s] = targetNs[s]
      /\ \A x \in Sessions : x # s => state'[x] = state[x] /\ targetNs'[x] = targetNs[x]
  BY <1>1, CallTypes
<1>9. targetNs'[s] \in Targets
  BY <1>1, <1>8, OpenListed DEF Call
<1>10. q # <<>> /\ \A i \in 1 .. Len(q) : q[i].op # "add"
  BY <1>2, <1>6, RefreshList
<1> QED
  BY <1>1, <1>3, <1>5, <1>7, <1>8, <1>9, <1>10, LaterCall

\* A call that leaves the descriptor alone, but for the target.
LEMMA CalmStart ==
    ASSUME PSInv, NEW c \in Callers, NEW s \in Sessions, state[s] = "open",
           NEW q \in Seq(Steps), q # <<>>, Call(c, s, q), CallList(q),
           \A i \in 1 .. Len(q) : q[i].op # "add" /\ q[i].op # "remove",
           UNCHANGED <<state, isActiveDesc, threadIds>>,
           \/ UNCHANGED targetNs
           \/ \E target \in Targets : targetNs' = [targetNs EXCEPT ![s] = target]
    PROVE  PSInv'
<1>1. Unlocked(s)
  BY DEF Call
<1>2. targetNs[s] \in Targets
  BY <1>1, OpenListed
<1>3. /\ state' \in [Sessions -> {"new", "open", "closed"}] /\ state'[s] = "open"
      /\ isActiveDesc' \in [Sessions -> BOOLEAN] /\ threadIds' \in [Sessions -> TaskBag]
      /\ targetNs' \in [Sessions -> Targets \cup {0}] /\ targetNs'[s] \in Targets
      /\ \A x \in Sessions : x # s => state'[x] = state[x] /\ targetNs'[x] = targetNs[x]
  BY <1>2, CallTypes
<1> QED
  BY <1>3, LaterCall

\* updateTargetWorkDuration.
LEMMA TargetCall ==
    ASSUME PSInv, NEW c \in Callers, NEW s \in Sessions, updateTargetWorkDuration(c, s)
    PROVE  PSInv'
<1>1. PICK target \in Targets \ {0} :
         /\ targetNs' = [targetNs EXCEPT ![s] = target]
         /\ Call(c, s, <<[op |-> "target", dur |-> target]>>)
  BY DEF updateTargetWorkDuration
<1>2. state[s] = "open" /\ UNCHANGED <<state, isActiveDesc, threadIds>>
  BY DEF updateTargetWorkDuration
<1> DEFINE k == [op |-> "target", dur |-> target]
           q == <<k>>
<1>3. k \in Steps /\ k.op = "target"
  BY StepsWritten, TargetDurations
<1>4. Call(c, s, q)
  BY <1>1
<1> HIDE DEF k
<1>5. q \in Seq(Steps) /\ Len(q) = 1 /\ q[1].op = "target" /\ q # <<>>
  BY <1>3
<1> HIDE DEF q
<1>6. \A i \in 1 .. Len(q) : q[i].op = "target"
  BY <1>5
<1>7. CallList(q)
  BY <1>5, <1>6, CalmCall
<1> QED
  BY <1>1, <1>2, <1>4, <1>5, <1>6, <1>7, CalmStart

\* sendHint, for each hint that votes.
LEMMA HintCall ==
    ASSUME PSInv, NEW c \in Callers, NEW s \in Sessions, sendHint(c, s)
    PROVE  PSInv'
<1>1. PICK hint \in Hints, min \in Levels : Call(c, s, HintSteps(s, hint, min))
  BY DEF sendHint
<1>2. state[s] = "open" /\ UNCHANGED <<state, isActiveDesc, threadIds, targetNs>>
  BY DEF sendHint, descVars
<1>3. targetNs[s] \in Targets
  BY <1>1, <1>2, OpenListed DEF Call
<1>4. PICK d \in Targets : d = targetNs[s]
  BY <1>3
<1>5. /\ d \in Durations /\ d * 2 \in Durations /\ (d * StaleTimeFactor) \div 2 \in Durations
      /\ "CPU_LOAD_UP" \in VoteIds /\ "CPU_LOAD_RESET" \in VoteIds
      /\ "CPU_LOAD_RESUME" \in VoteIds /\ "GPU_LOAD_UP" \in VoteIds
  BY TargetDurations DEF VoteIds, CpuVoteIds, GpuVoteIds
<1>6. PICK p : p = updatePidControlVariable(s, min)
  OBVIOUS
<1>7. p \in Seq(Steps) /\ Len(p) = 1 /\ p[1].op = "vote"
  BY <1>3, <1>6, PidPiece
<1>8. PICK q : q = HintSteps(s, hint, min)
  OBVIOUS
<1>9. hint \in {"CPU_LOAD_UP", "CPU_LOAD_DOWN", "CPU_LOAD_RESET", "CPU_LOAD_RESUME",
                "GPU_LOAD_UP"}
  BY PowerSessionAssumption
<1>10. q \in Seq(Steps) /\ q # <<>> /\ \A i \in 1 .. Len(q) : q[i].op = "vote"
  <2>1. ASSUME NEW r \in Seq(Steps), Len(r) = 1, r[1].op = "vote"
        PROVE  r # <<>> /\ \A i \in 1 .. Len(r) : r[i].op = "vote"
    <3>1. \A i \in 1 .. Len(r) : i = 1
      BY <2>1
    <3> QED
      BY <2>1, <3>1, NotEmpty
  <2>2. CASE hint = "CPU_LOAD_UP"
    <3>1. PICK v : v = voteSet("CPU_LOAD_UP", min, d * 2)
      OBVIOUS
    <3>2. v \in Seq(Steps) /\ Len(v) = 1 /\ v[1].op = "vote"
      BY <1>5, <3>1, VotePiece
    <3>3. q = p \o v
      BY <1>4, <1>6, <1>8, <2>2, <3>1 DEF HintSteps
    <3>4. /\ q \in Seq(Steps) /\ Len(q) = Len(p) + Len(v)
          /\ \A i \in 1 .. Len(q) : \/ \E j \in 1 .. Len(p) : q[i] = p[j]
                                    \/ \E j \in 1 .. Len(v) : q[i] = v[j]
      <4>1. p \in Seq(Steps) /\ v \in Seq(Steps)
        BY <1>7, <3>2
      <4> QED
        BY <3>3, <4>1, Joined
    <3>5. q # <<>>
      BY <1>7, <3>2, <3>4, NotEmpty
    <3>6. \A i \in 1 .. Len(q) : q[i].op = "vote"
      BY <1>7, <2>1, <3>2, <3>4
    <3> QED
      BY <3>4, <3>5, <3>6
  <2>3. CASE hint = "CPU_LOAD_DOWN"
    <3>1. q = p
      BY <1>6, <1>8, <2>3 DEF HintSteps
    <3> QED
      BY <1>7, <2>1, <3>1
  <2>4. CASE hint = "CPU_LOAD_RESET"
    <3>1. q = voteSet("CPU_LOAD_RESET", min, (d * StaleTimeFactor) \div 2)
      BY <1>4, <1>8, <2>4 DEF HintSteps
    <3>2. q \in Seq(Steps) /\ Len(q) = 1 /\ q[1].op = "vote"
      BY <1>5, <3>1, VotePiece
    <3> QED
      BY <2>1, <3>2
  <2>5. CASE hint = "CPU_LOAD_RESUME"
    <3>1. q = voteSet("CPU_LOAD_RESUME", min, (d * StaleTimeFactor) \div 2)
      BY <1>4, <1>8, <2>5 DEF HintSteps
    <3>2. q \in Seq(Steps) /\ Len(q) = 1 /\ q[1].op = "vote"
      BY <1>5, <3>1, VotePiece
    <3> QED
      BY <2>1, <3>2
  <2>6. CASE hint = "GPU_LOAD_UP"
    <3>1. q = voteSet("GPU_LOAD_UP", min, d)
      BY <1>4, <1>8, <2>6 DEF HintSteps
    <3>2. q \in Seq(Steps) /\ Len(q) = 1 /\ q[1].op = "vote"
      BY <1>5, <3>1, VotePiece
    <3> QED
      BY <2>1, <3>2
  <2> QED
    BY <1>9, <2>2, <2>3, <2>4, <2>5, <2>6
<1>11. CallList(q)
  BY <1>10, CalmCall
<1>12. Call(c, s, q)
  BY <1>1, <1>8
<1>13. \A i \in 1 .. Len(q) : q[i].op # "add" /\ q[i].op # "remove"
  BY <1>10
<1> QED
  BY <1>2, <1>10, <1>11, <1>12, <1>13, CalmStart

\* reportActualWorkDuration: the boosts end before the vote that applies.
LEMMA ReportCall ==
    ASSUME PSInv, NEW c \in Callers, NEW s \in Sessions, reportActualWorkDuration(c, s)
    PROVE  PSInv'
<1>1. PICK firstFrame \in BOOLEAN, gpu \in BOOLEAN, min \in Levels, capacity \in Levels :
         Call(c, s, (IF firstFrame THEN Tail(Refresh) ELSE <<>>)
                    \o <<[op |-> "disableBoosts"]>>
                    \o updatePidControlVariable(s, min)
                    \o (IF gpu THEN voteSet("GPU_CAPACITY", capacity,
                                            targetNs[s] * StaleTimeFactor)
                        ELSE <<>>))
  BY DEF reportActualWorkDuration
<1>2. state[s] = "open" /\ UNCHANGED <<state, isActiveDesc, threadIds, targetNs>>
  BY DEF reportActualWorkDuration, descVars
<1>3. targetNs[s] \in Targets
  BY <1>1, <1>2, OpenListed DEF Call
<1>4. PICK p1 : p1 = IF firstFrame THEN Tail(Refresh) ELSE <<>>
  OBVIOUS
<1>5. PICK k : k = [op |-> "disableBoosts"]
  OBVIOUS
<1>6. PICK p3 : p3 = updatePidControlVariable(s, min)
  OBVIOUS
<1>7. PICK p4 : p4 = IF gpu THEN voteSet("GPU_CAPACITY", capacity, targetNs[s] * StaleTimeFactor)
                            ELSE <<>>
  OBVIOUS
<1>8. PICK q2 : q2 = p1 \o <<k>>
  OBVIOUS
<1>9. PICK q3 : q3 = q2 \o p3
  OBVIOUS
<1>10. PICK q : q = q3 \o p4
  OBVIOUS
<1>11. Call(c, s, q)
  BY <1>1, <1>4, <1>5, <1>6, <1>7, <1>8, <1>9, <1>10
<1>12. p1 \in Seq(Steps) /\ \A i \in 1 .. Len(p1) : p1[i].op \in {"ubRead", "ubDo"}
  <2>1. CASE ~firstFrame
    <3>1. p1 \in Seq(Steps) /\ Len(p1) = 0
      BY <1>4, <2>1, RefreshList
    <3> QED
      BY <3>1
  <2>2. CASE firstFrame
    <3>1. p1 = Tail(Refresh)
      BY <1>4, <2>2
    <3>2. /\ p1 \in Seq(Steps) /\ Len(p1) = Len(Refresh) - 1
          /\ \A i \in 1 .. Len(p1) : p1[i] = Refresh[i + 1]
      BY <3>1, RefreshList, HeadTailProperties
    <3>3. \A i \in 1 .. Len(p1) : i = 1 \/ i = 2
      BY <3>2, RefreshList
    <3>4. ASSUME NEW i \in 1 .. Len(p1) PROVE p1[i].op \in {"ubRead", "ubDo"}
      <4>1. CASE i = 1
        BY <3>2, <4>1, RefreshList
      <4>2. CASE i = 2
        BY <3>2, <4>2, RefreshList
      <4> QED
        BY <3>3, <4>1, <4>2
    <3> QED
      BY <3>2, <3>4
  <2> QED
    BY <2>1, <2>2
<1>13. k \in Steps /\ k.op = "disableBoosts"
  BY <1>5, StepsWritten
<1>14. p3 \in Seq(Steps) /\ Len(p3) = 1 /\ p3[1].op = "vote" /\ p3[1].vid = "CPU_VOTE_DEFAULT"
  BY <1>3, <1>6, PidPiece
<1>15. p4 \in Seq(Steps) /\ \A i \in 1 .. Len(p4) : p4[i].op = "vote"
  <2>1. CASE ~gpu
    <3>1. p4 \in Seq(Steps) /\ Len(p4) = 0
      BY <1>7, <2>1, RefreshList
    <3> QED
      BY <3>1
  <2>2. CASE gpu
    <3>1. PICK d \in Durations : d = targetNs[s] * StaleTimeFactor
      BY <1>3, TargetDurations
    <3>2. p4 = voteSet("GPU_CAPACITY", capacity, d)
      BY <1>7, <2>2, <3>1
    <3>3. "GPU_CAPACITY" \in VoteIds
      BY DEF VoteIds, GpuVoteIds
    <3>4. p4 \in Seq(Steps) /\ Len(p4) = 1 /\ p4[1].op = "vote"
      BY <3>2, <3>3, VotePiece
    <3> QED
      BY <3>4
  <2> QED
    BY <2>1, <2>2
<1>16. PICK n \in Nat : n = Len(p1)
  BY <1>12, LenProperties
<1>17. /\ q2 \in Seq(Steps) /\ Len(q2) = n + 1 /\ q2[n + 1] = k
       /\ \A i \in 1 .. n : q2[i] = p1[i]
  <2>1. p1 \in Seq(Steps) /\ k \in Steps
    BY <1>12, <1>13
  <2> QED
    BY <1>8, <1>16, <2>1, Longer
<1>18. /\ q3 \in Seq(Steps) /\ Len(q3) = n + 2 /\ q3[n + 2] = p3[1]
       /\ \A i \in 1 .. n + 1 : q3[i] = q2[i]
  <2>1. p3 \in Seq(Steps) /\ q2 \in Seq(Steps)
    BY <1>14, <1>17
  <2>2. /\ q3 \in Seq(Steps) /\ Len(q3) = Len(q2) + Len(p3)
        /\ \A i \in 1 .. Len(q2) : q3[i] = q2[i]
        /\ \A i \in 1 .. Len(p3) : q3[Len(q2) + i] = p3[i]
    BY <1>9, <2>1, Joined
  <2>3. q3[Len(q2) + 1] = p3[1] /\ Len(q2) + 1 = n + 2 /\ Len(q3) = n + 2
    BY <1>14, <1>17, <2>2
  <2> QED
    BY <1>17, <2>2, <2>3
<1>19. /\ q \in Seq(Steps) /\ Len(q) >= n + 2 /\ Len(q) \in Nat
       /\ \A i \in 1 .. n + 2 : q[i] = q3[i]
       /\ \A i \in 1 .. Len(q) : i > n + 2 => q[i].op = "vote"
  <2>1. q3 \in Seq(Steps) /\ p4 \in Seq(Steps)
    BY <1>15, <1>18
  <2>2. /\ q \in Seq(Steps) /\ Len(q) = Len(q3) + Len(p4) /\ Len(q3) \in Nat /\ Len(p4) \in Nat
        /\ \A i \in 1 .. Len(q3) : q[i] = q3[i]
        /\ \A i \in 1 .. Len(p4) : q[Len(q3) + i] = p4[i]
    BY <1>10, <2>1, Joined
  <2>3. ASSUME NEW i \in 1 .. Len(q), i > n + 2 PROVE q[i].op = "vote"
    <3>1. i - (n + 2) \in 1 .. Len(p4) /\ Len(q3) + (i - (n + 2)) = i
      <4>1. Len(q) = n + 2 + Len(p4) /\ Len(q3) = n + 2 /\ Len(p4) \in Nat
        BY <1>18, <2>2
      <4> QED
        BY <2>3, <4>1
    <3>2. q[i] = p4[i - (n + 2)]
      BY <2>2, <3>1
    <3> QED
      BY <1>15, <3>1, <3>2
  <2> QED
    BY <1>18, <2>2, <2>3
<1>20. /\ \A i \in 1 .. n : q[i] = p1[i]
       /\ q[n + 1] = k /\ q[n + 2] = p3[1]
  BY <1>16, <1>17, <1>18, <1>19
<1>21. ASSUME NEW i \in 1 .. Len(q)
       PROVE  /\ q[i].op \in {"ubRead", "ubDo", "disableBoosts", "vote"}
              /\ q[i].op = "disableBoosts" => i = n + 1
  <2>1. i \in 1 .. n \/ i = n + 1 \/ i = n + 2 \/ i > n + 2
    BY <1>19
  <2>2. CASE i \in 1 .. n
    BY <1>12, <1>16, <1>20, <2>2
  <2>3. CASE i = n + 1 \/ i = n + 2
    BY <1>13, <1>14, <1>20, <2>3
  <2>4. CASE i > n + 2
    BY <1>19, <2>4
  <2> QED
    BY <2>1, <2>2, <2>3, <2>4
<1>22. CallList(q)
  <2>1. n + 2 \in n + 1 + 1 .. Len(q) /\ q[n + 2].op = "vote" /\ q[n + 2].vid = "CPU_VOTE_DEFAULT"
    BY <1>14, <1>19, <1>20
  <2> QED
    BY <1>19, <1>21, <2>1, CalmCall
<1>23. q # <<>> /\ \A i \in 1 .. Len(q) : q[i].op # "add" /\ q[i].op # "remove"
  BY <1>19, <1>21, RefreshList
<1> QED
  BY <1>2, <1>11, <1>19, <1>22, <1>23, CalmStart

-----------------------------------------------------------------------------
(* The invariant holds initially and every step preserves it.              *)

\* The invariant holds before the first call.
LEMMA InitInv == Init => PSInv
<1> SUFFICES ASSUME Init PROVE PSInv
  OBVIOUS
<1>1. MapTypeOK /\ Consistent
  BY InitConsistent DEF Init, MapInv
<1>2. /\ act = [a \in Threads |-> Idle] /\ Idle.todo = <<>> /\ Idle.sid = None
      /\ Idle.stamp = NoStamp /\ Len(Idle.todo) = 0
  BY RefreshList DEF Init, Idle
<1>3. Idle \in Activity
  BY RefreshList DEF Idle, Activity
<1>4. NoVotes \in [VoteIds -> VoteRange] /\ \A v \in VoteIds : NoVotes[v].val = 0
  BY DEF NoVotes, NoVote, VoteRange
<1>5. NoTasks \in TaskBag
  BY DEF NoTasks, TaskBag
<1>6. \A a \in Threads : act[a] = Idle
  BY <1>2
<1>7. TypeOK
  <2>1. act \in [Threads -> Activity]
    BY <1>2, <1>3
  <2>2. /\ now \in 0 .. MaxTime /\ calls \in 0 .. MaxCalls /\ stalls \in 0 .. MaxStalls
    BY Numbers DEF Init
  <2>3. DOMAIN events \subseteq [sid : Sessions, vid : VoteIds, deadline : Nat]
    BY DEF Init
  <2>4. /\ state \in [Sessions -> {"new", "open", "closed"}]
        /\ isActiveDesc \in [Sessions -> BOOLEAN] /\ isActive \in [Sessions -> BOOLEAN]
        /\ threadIds \in [Sessions -> TaskBag] /\ targetNs \in [Sessions -> Targets \cup {0}]
    BY <1>5 DEF Init
  <2>5. votes \in [Sessions -> [VoteIds -> VoteRange]]
    BY <1>4 DEF Init
  <2>6. /\ alive \subseteq Tids /\ qos \subseteq Tids
        /\ uclamp \in [Tids -> Levels \cup {0}] /\ gpuCapacity \in Nat
        /\ taBoostOff \in BOOLEAN
    BY DEF Init
  <2> QED
    BY <1>1, <2>1, <2>2, <2>3, <2>4, <2>5, <2>6 DEF TypeOK
<1>8. Locks
  BY <1>2, <1>6, ThreadKinds DEF Locks
<1>9. Lists
  BY <1>2, <1>6, ThreadKinds DEF Lists, ListOK, HandlerListOK
<1>10. Membership
  <2>1. \A c \in Callers : Len(act[c].todo) = 0
    BY <1>2, <1>6, ThreadKinds
  <2>2. \A s \in Sessions : s \notin mSessions /\ state[s] = "new" /\ votes[s] = NoVotes /\ ~isActive[s]
    BY DEF Init, MapInit
  <2> QED
    BY <2>1, <2>2 DEF Membership, CallMembership, SessionMembership
<1>11. VoteLevels
  BY <1>4 DEF VoteLevels, Init
<1>12. Inactive
  BY <1>2, <1>6, ThreadKinds DEF Inactive, Leaving
<1>13. Refreshed
  <2>1. \A t \in Tids : uclamp[t] = 0
    BY DEF Init
  <2> QED
    BY <1>7, <2>1 DEF Refreshed, Unjustified, TypeOK
<1>14. Profiles
  BY <1>2, <1>6, ThreadKinds DEF Profiles, Init
<1> QED
  BY <1>1, <1>7, <1>8, <1>9, <1>10, <1>11, <1>12, <1>13, <1>14 DEF PSInv

\* The steps of callers and of the worker's thread.
LEMMA ThreadStepInv ==
    ASSUME PSInv, NEW a \in Threads, ThreadStep(a)
    PROVE  PSInv'
<1>1. CASE Stamp(a)
  BY <1>1, StampStep
<1>2. CASE AddSession(a)
  BY <1>2, AddStep
<1>3. CASE ForceActive(a) \/ SetActive(a)
  BY <1>3, ForceStep
<1>4. CASE ReplaceThreads(a)
  BY <1>4, ReplaceStep
<1>5. CASE RemoveSession(a)
  BY <1>5, RemoveStep
<1>6. CASE SetTaskProfiles(a)
  BY <1>6, ProfileStep
<1>7. CASE applyCpuAndGpuVotes(a)
  BY <1>7, ApplyVotesStep
<1>8. CASE UniversalBoostRead(a) \/ UniversalBoostDo(a) \/ ScheduleTimeout(a)
  BY <1>8, BoostModeStep
<1>9. CASE VoteSet(a)
  BY <1>9, VoteStep
<1>10. CASE disableBoosts(a)
  BY <1>10, DisableBoostsStep
<1>11. CASE UpdateVoteDuration(a)
  BY <1>11, DurationStep
<1> QED
  BY <1>1, <1>2, <1>3, <1>4, <1>5, <1>6, <1>7, <1>8, <1>9, <1>10, <1>11 DEF ThreadStep

\* The calls of clients.
LEMMA ClientCallInv ==
    ASSUME PSInv, ClientCall
    PROVE  PSInv'
<1>1. PICK s \in Sessions :
         \/ createHintSession(s) \/ pause(s) \/ resume(s) \/ setThreads(s)
         \/ \E c \in Callers : \/ close(c, s) \/ updateTargetWorkDuration(c, s)
                               \/ reportActualWorkDuration(c, s) \/ sendHint(c, s)
  BY DEF ClientCall
<1>2. CASE createHintSession(s)
  BY <1>2, CreateCall
<1>3. CASE pause(s) \/ resume(s)
  BY <1>3, PauseCall
<1>4. CASE setThreads(s)
  BY <1>4, SetThreadsCall
<1>5. ASSUME NEW c \in Callers,
             \/ close(c, s) \/ updateTargetWorkDuration(c, s)
             \/ reportActualWorkDuration(c, s) \/ sendHint(c, s)
      PROVE  PSInv'
  <2>1. CASE close(c, s)
    BY <2>1, CloseCall
  <2>2. CASE updateTargetWorkDuration(c, s)
    BY <2>2, TargetCall
  <2>3. CASE reportActualWorkDuration(c, s)
    BY <2>3, ReportCall
  <2>4. CASE sendHint(c, s)
    BY <2>4, HintCall
  <2> QED
    BY <1>5, <2>1, <2>2, <2>3, <2>4
<1> QED
  BY <1>1, <1>2, <1>3, <1>4, <1>5

\* A step in which nothing of the model changes.
LEMMA Stutter ==
    ASSUME PSInv, UNCHANGED vars
    PROVE  PSInv'
<1>1. UNCHANGED <<mSessions, linkedTasks, mTasks, taskKeys, state, isActiveDesc, threadIds,
                  targetNs, isActive, votes, uclamp, qos, gpuCapacity, taBoostOff, now,
                  events, act, alive, calls, stalls>>
  BY DEF vars, mapVars, descVars, sveVars, kernelVars, bounds
<1>2. TypeOK'
  BY <1>1 DEF PSInv, TypeOK, MapTypeOK
<1> QED
  BY <1>1, <1>2, SameWork

\* Every step preserves the invariant.
LEMMA NextInv == PSInv /\ [Next]_vars => PSInv'
<1> SUFFICES ASSUME PSInv, [Next]_vars PROVE PSInv'
  OBVIOUS
<1>1. CASE ClientCall
  BY <1>1, ClientCallInv
<1>2. CASE \E a \in Threads : ThreadStep(a)
  BY <1>2, ThreadStepInv
<1>3. CASE TakeEvent
  BY <1>3, TakeStep
<1>4. CASE HandleEvent
  BY <1>4, HandleStep
<1>5. CASE \E t \in Tids : ThreadDies(t)
  BY <1>5, ThreadDiesStep
<1>6. CASE Tick
  BY <1>6, TickStep
<1>7. CASE UNCHANGED vars
  BY <1>7, Stutter
<1>8. (\E c \in Callers : ThreadStep(c)) \/ ThreadStep(Handler) => \E a \in Threads : ThreadStep(a)
  BY ThreadKinds
<1> QED
  BY <1>1, <1>2, <1>3, <1>4, <1>5, <1>6, <1>7, <1>8 DEF Next, HandlerStep

\* The inductive invariant holds in every state of every behaviour: locks, the
\* order of the steps of each call, which sessions have entries, and that what a
\* step leaves undone some thread will still do.
THEOREM PSInvariant == Spec => []PSInv
  BY InitInv, NextInv, PTL DEF Spec

\* Every variable of the session model keeps its type, the steps that each
\* thread of the HAL still has to take included.
THEOREM SessionTypeCorrect == Spec => []TypeOK
<1>1. PSInv => TypeOK
  BY DEF PSInv
<1> QED
  BY <1>1, PSInvariant, PTL

\* The two directions of the map agree under every interleaving of the calls,
\* the worker and the threads that die while their session is applied.
THEOREM SessionsConsistent == Spec => []Consistent
<1>1. PSInv => Consistent
  BY DEF PSInv
<1> QED
  BY <1>1, PSInvariant, PTL

\* pause, setThreads and close leave no uclamp and no task profile behind on a
\* thread that no session contains any more.
THEOREM ThreadsAreReleased == Spec => []ThreadsReleased
<1>1. PSInv => ThreadsReleased
  <2> SUFFICES ASSUME PSInv, NEW t \in alive \ taskKeys
               PROVE  uclamp[t] = 0 /\ (t \in qos => ProfileClearPending(t))
    BY DEF ThreadsReleased
  <2>1. /\ TypeOK /\ Consistent /\ Refreshed /\ Profiles /\ MapInv /\ t \in Tids
    BY DEF PSInv, MapInv, TypeOK
  <2>2. t \in qos => ProfileClearPending(t)
    BY <2>1 DEF Profiles
  <2>3. \A s \in Sessions : linkedTasks[s][t] = 0 /\ mTasks[t][s] = 0
    <3>1. /\ \A x \in Sessions : linkedTasks[x][t] = mTasks[t][x] /\ linkedTasks[x][t] \in Nat
          /\ t \in taskKeys <=> \E x \in Sessions : linkedTasks[x][t] > 0
      BY <2>1, LinksKnown
    <3> QED
      BY <3>1
  <2>4. ~Unjustified(t)
    BY <2>1, <2>3 DEF Refreshed, Refresher
  <2>5. mSessions \subseteq Sessions
    BY <2>1 DEF MapInv, MapTypeOK
  <2>6. ~(uclamp[t] > 0)
    BY <2>3, <2>4, <2>5 DEF Unjustified
  <2>7. uclamp[t] \in Nat
    BY <2>1, Numbers DEF TypeOK
  <2> QED
    BY <2>2, <2>6, <2>7
<1> QED
  BY <1>1, PSInvariant, PTL

\* No path that ends, replaces or times out a vote, switches a session or
\* changes its threads leaves a boost nobody votes for, unless a thread of the
\* HAL is on a session of that thread and about to apply anew.
THEOREM NoBoostStuck == Spec => []NoStuckBoost
<1>1. PSInv => NoStuckBoost
  <2> SUFFICES ASSUME PSInv, NEW t \in alive, uclamp[t] > Justified(t)
               PROVE  \E a \in Threads : Busy(a) /\ linkedTasks[act[a].sid][t] > 0
    BY DEF NoStuckBoost
  <2>1. TypeOK /\ Refreshed /\ MapInv /\ t \in Tids
    BY DEF PSInv, MapInv, TypeOK
  <2>2. Unjustified(t)
    <3>1. /\ mSessions \subseteq Sessions
          /\ votes \in [Sessions -> [VoteIds -> VoteRange]] /\ uclamp[t] \in Nat
      BY <2>1, Numbers DEF TypeOK, MapTypeOK
    <3>2. /\ Justified(t) \in Nat
          /\ \A x \in mSessions, v \in CpuVoteIds :
                mTasks[t][x] > 0 /\ isActive[x] /\ votes[x][v].active
                   => votes[x][v].val <= Justified(t)
      BY <3>1, JustifiedBound
    <3>3. \A x \in mSessions, v \in CpuVoteIds : votes[x][v].val \in Nat
      <4>1. \A x \in mSessions, v \in VoteIds : votes[x][v] \in VoteRange
        BY <3>1
      <4> QED
        BY <4>1 DEF VoteRange, VoteIds
    <3> QED
      BY <3>1, <3>2, <3>3 DEF Unjustified
  <2>3. PICK a \in Threads : Refresher(a, t)
    BY <2>1, <2>2 DEF Refreshed
  <2>4. act[a].todo # <<>>
    BY <2>3, RefreshList DEF Refresher, WillApply
  <2> QED
    BY <2>3, <2>4 DEF Refresher, Busy
<1> QED
  BY <1>1, PSInvariant, PTL

-----------------------------------------------------------------------------
(* PowerSession implements VoteTimeouts: what a thread does, seen as a     *)
(* caller or as the handler of the timeout protocol.                       *)

ViewOf(r) ==
    IF r.todo # <<>> /\ \/ Head(r.todo).op = "vote" /\ r.stamp # NoStamp
                        \/ Head(r.todo).op = "schedule"
    THEN [pc |-> Head(r.todo).op, sid |-> r.sid, vid |-> Head(r.todo).vid,
          val |-> Head(r.todo).val, start |-> r.stamp, dur |-> Head(r.todo).dur]
    ELSE [pc |-> "idle"]

HandlerOf(r) ==
    IF r.todo # <<>> /\ Head(r.todo).op = "timeout"
    THEN [pc |-> "timeout", tNow |-> r.stamp,
          ev |-> [sid |-> r.sid, vid |-> Head(r.todo).vid,
                  deadline |-> Head(r.todo).deadline]]
    ELSE [pc |-> "idle"]

\* The views depend on nothing but the activity of the thread.
LEMMA Views ==
    /\ \A c \in Callers : CallerView(c) = ViewOf(act[c]) /\ CallerView(c)' = ViewOf(act'[c])
    /\ HandlerView = HandlerOf(act[Handler]) /\ HandlerView' = HandlerOf(act'[Handler])
  BY DEF CallerView, HandlerView, ViewOf, HandlerOf, Stamped, At, Busy, Next1

\* The operators of Votes mean the same in both specifications.
LEMMA SameNames ==
    /\ VT!VoteIds = VoteIds /\ VT!NoVotes = NoVotes
    /\ \A w, x, y, z : VT!NewVote(w, x, y, z) = NewVote(w, x, y, z)
    /\ \A vote : VT!voteTimeout(vote) = voteTimeout(vote)
    /\ \A vote, x : /\ VT!shouldScheduleTimeout(vote, x) = shouldScheduleTimeout(vote, x)
                    /\ VT!setUseVote(vote, x) = setUseVote(vote, x)
                    /\ VT!updateDuration(vote, x) = updateDuration(vote, x)
    /\ \A sv : VT!WithoutBoosts(sv) = WithoutBoosts(sv)
    /\ \A B, x : VT!Queue!BagAdd(B, x) = Queue!BagAdd(B, x)
    /\ \A B, x : VT!Queue!BagRemove(B, x) = Queue!BagRemove(B, x)
    /\ VT!IdleCaller = [pc |-> "idle"] /\ VT!IdleHandler = [pc |-> "idle"]
<1>1. VT!VoteIds = VoteIds
  BY DEF VT!VoteIds, VoteIds, VT!CpuVoteIds, CpuVoteIds, VT!GpuVoteIds, GpuVoteIds
<1>2. VT!NoVotes = NoVotes
  BY <1>1 DEF VT!NoVotes, NoVotes, VT!NoVote, NoVote
<1>3. \A w, x, y, z : VT!NewVote(w, x, y, z) = NewVote(w, x, y, z)
  BY DEF VT!NewVote, NewVote
<1>4. \A vote : VT!voteTimeout(vote) = voteTimeout(vote)
  BY DEF VT!voteTimeout, voteTimeout
<1>5. \A vote, x : /\ VT!shouldScheduleTimeout(vote, x) = shouldScheduleTimeout(vote, x)
                   /\ VT!setUseVote(vote, x) = setUseVote(vote, x)
                   /\ VT!updateDuration(vote, x) = updateDuration(vote, x)
  BY <1>4 DEF VT!shouldScheduleTimeout, shouldScheduleTimeout, VT!setUseVote, setUseVote,
              VT!updateDuration, updateDuration
<1>6. \A sv : VT!WithoutBoosts(sv) = WithoutBoosts(sv)
  BY <1>1, <1>5 DEF VT!WithoutBoosts, WithoutBoosts, VT!Boosts, Boosts
<1>7. \A B, x : VT!Queue!BagAdd(B, x) = Queue!BagAdd(B, x)
  BY DEF VT!Queue!BagAdd, Queue!BagAdd
<1>8. \A B, x : VT!Queue!BagRemove(B, x) = Queue!BagRemove(B, x)
  BY DEF VT!Queue!BagRemove, Queue!BagRemove
<1>9. VT!IdleCaller = [pc |-> "idle"] /\ VT!IdleHandler = [pc |-> "idle"]
  BY DEF VT!IdleCaller, VT!IdleHandler
<1> QED
  BY <1>1, <1>2, <1>3, <1>4, <1>5, <1>6, <1>7, <1>8, <1>9

\* Before the clock is read for a vote a thread is idle in the protocol.
LEMMA IdleView ==
    ASSUME NEW r \in Activity, ListOK(r.todo, r.stamp), r.stamp = NoStamp
    PROVE  ViewOf(r) = [pc |-> "idle"]
<1>1. CASE r.todo # <<>>
  <2>1. r.todo \in Seq(Steps)
    BY DEF Activity
  <2>2. PICK q \in Seq(Steps) : q = r.todo /\ q # <<>>
    BY <1>1, <2>1
  <2>3. Head(q) = q[1] /\ 1 \in 1 .. Len(q)
    BY <2>2, HeadTailProperties, EmptySeq, LenProperties
  <2>4. q[1].op # "schedule"
    BY <2>2, <2>3 DEF ListOK
  <2> QED
    BY <2>2, <2>3, <2>4 DEF ViewOf
<1> QED
  BY <1>1 DEF ViewOf

\* The worker is idle in the protocol while it applies votes.
LEMMA IdleHandlerView ==
    ASSUME NEW r \in Activity, HandlerListOK(r.todo, r.stamp), r.stamp = NoStamp
    PROVE  HandlerOf(r) = [pc |-> "idle"]
<1>1. CASE r.todo # <<>>
  <2>1. r.todo \in Seq(Steps)
    BY DEF Activity
  <2>2. PICK q \in Seq(Steps) : q = r.todo /\ q # <<>>
    BY <1>1, <2>1
  <2>3. Head(q) = q[1] /\ 1 \in 1 .. Len(q)
    BY <2>2, HeadTailProperties, EmptySeq, LenProperties
  <2>4. q[1].op # "timeout"
    BY <2>2, <2>3 DEF HandlerListOK
  <2> QED
    BY <2>2, <2>3, <2>4 DEF HandlerOf
<1> QED
  BY <1>1 DEF HandlerOf

\* The clock has to be read again for the next section.
LEMMA StampGone ==
    ASSUME PSInv, NEW a \in Threads, NEW more
    PROVE  Step(a, more).stamp = NoStamp
<1>1. act[a] \in Activity
  BY ActFields DEF PSInv, TypeOK
<1>2. PICK r : r = more \o Tail(act[a].todo)
  OBVIOUS
<1>3. Step(a, more) = IF r = <<>> THEN Idle ELSE [act[a] EXCEPT !.todo = r, !.stamp = NoStamp]
  BY <1>2 DEF Step
<1>4. [act[a] EXCEPT !.todo = r, !.stamp = NoStamp].stamp = NoStamp
  BY <1>1 DEF Activity
<1> QED
  BY <1>3, <1>4 DEF Idle

\* The views of the threads stay when the view of the thread that moves does.
LEMMA SameViews ==
    ASSUME NEW a \in Threads, \A b \in Threads : b # a => act'[b] = act[b],
           a \in Callers => ViewOf(act'[a]) = ViewOf(act[a]),
           a = Handler => HandlerOf(act'[a]) = HandlerOf(act[a])
    PROVE  UNCHANGED <<[c \in Callers |-> CallerView(c)], HandlerView>>
<1>1. \A c \in Callers : CallerView(c)' = CallerView(c)
  BY Views, ThreadKinds
<1>2. HandlerView' = HandlerView
  BY Views, ThreadKinds
<1>3. [c \in Callers |-> CallerView(c)]' = [c \in Callers |-> CallerView(c)]
  BY <1>1
<1> QED
  BY <1>2, <1>3

\* A step that is none of the protocol's.
LEMMA OtherStep ==
    ASSUME PSInv, PSInv', NEW a \in Threads,
           act[a].todo = <<>> \/ Next1(a).op \notin {"vote", "schedule", "timeout"},
           act'[a].stamp = NoStamp, \A b \in Threads : b # a => act'[b] = act[b]
    PROVE  UNCHANGED <<[c \in Callers |-> CallerView(c)], HandlerView>>
<1>1. Lists' /\ act'[a] \in Activity
  <2>1. act' \in [Threads -> Activity]
    BY DEF PSInv, TypeOK
  <2> QED
    BY <2>1 DEF PSInv
<1>2. ViewOf(act[a]) = [pc |-> "idle"] /\ HandlerOf(act[a]) = [pc |-> "idle"]
  BY DEF ViewOf, HandlerOf, Next1
<1>3. a \in Callers => ViewOf(act'[a]) = [pc |-> "idle"]
  BY <1>1, IdleView DEF Lists
<1>4. a = Handler => HandlerOf(act'[a]) = [pc |-> "idle"]
  BY <1>1, IdleHandlerView DEF Lists
<1> QED
  BY <1>2, <1>3, <1>4, SameViews

\* A step of the protocol or of nothing it sees.
Protocol == VT!VTNext \/ UNCHANGED VT!vtVars

\* After a step the clock has not been read and no other thread has moved.
LEMMA Advanced ==
    ASSUME PSInv, NEW a \in Threads, Done(a) \/ \E more : Continue(a, more)
    PROVE  act'[a].stamp = NoStamp /\ \A b \in Threads : b # a => act'[b] = act[b]
<1>1. act \in [Threads -> Activity]
  BY DEF PSInv, TypeOK
<1>2. PICK m : act' = [act EXCEPT ![a] = Step(a, m)]
  BY DEF Continue, Done
<1>3. act'[a] = Step(a, m) /\ \A b \in Threads : b # a => act'[b] = act[b]
  BY <1>1, <1>2
<1> QED
  BY <1>3, StampGone

\* The steps the protocol does not see.
LEMMA HiddenStep ==
    ASSUME PSInv, PSInv', NEW a \in Threads,
           \/ ForceActive(a) \/ SetActive(a) \/ ReplaceThreads(a) \/ SetTaskProfiles(a)
           \/ applyCpuAndGpuVotes(a) \/ UniversalBoostRead(a) \/ UniversalBoostDo(a)
    PROVE  UNCHANGED VT!vtVars
<1>1. Next1(a).op \notin {"vote", "schedule", "timeout"}
  BY DEF ForceActive, SetActive, ReplaceThreads, SetTaskProfiles, applyCpuAndGpuVotes,
         UniversalBoostRead, UniversalBoostDo, Stamped, At
<1>2. UNCHANGED <<now, mSessions, votes, events>>
  <2>1. CASE ForceActive(a) \/ SetActive(a)
    BY <2>1 DEF ForceActive, SetActive, mapVars
  <2>2. CASE ReplaceThreads(a)
    BY <2>2 DEF ReplaceThreads, replace, sveVars
  <2>3. CASE SetTaskProfiles(a) \/ UniversalBoostRead(a) \/ UniversalBoostDo(a)
    BY <2>3 DEF SetTaskProfiles, UniversalBoostRead, UniversalBoostDo, mapVars, sveVars
  <2>4. CASE applyCpuAndGpuVotes(a)
    BY <2>4 DEF applyCpuAndGpuVotes, applyUclampLocked, dropDeadThreads, mapVars, sveVars
  <2> QED
    BY <2>1, <2>2, <2>3, <2>4
<1>3. act'[a].stamp = NoStamp /\ \A b \in Threads : b # a => act'[b] = act[b]
  <2>1. CASE Done(a) \/ \E more : Continue(a, more)
    BY <2>1, Advanced
  <2>2. CASE UniversalBoostRead(a)
    <3>1. act' = [act EXCEPT ![a] = [Step(a, <<>>) EXCEPT !.seen = AnySessionActive]]
      BY <2>2 DEF UniversalBoostRead
    <3>2. act \in [Threads -> Activity] /\ act[a].todo # <<>>
      BY <2>2 DEF PSInv, TypeOK, UniversalBoostRead, At, Busy
    <3>3. Step(a, <<>>) \in Activity /\ Step(a, <<>>).stamp = NoStamp
      BY <3>2, RefreshList, StepActivity
    <3>4. [Step(a, <<>>) EXCEPT !.seen = AnySessionActive].stamp = NoStamp
      BY <3>3 DEF Activity
    <3> QED
      BY <3>1, <3>2, <3>4
  <2>3. UniversalBoostRead(a) \/ Done(a) \/ \E more : Continue(a, more)
    BY DEF ForceActive, SetActive, ReplaceThreads, SetTaskProfiles, applyCpuAndGpuVotes,
           UniversalBoostDo
  <2> QED
    BY <2>1, <2>2, <2>3
<1>4. UNCHANGED <<[c \in Callers |-> CallerView(c)], HandlerView>>
  BY <1>1, <1>3, OtherStep
<1> QED
  BY <1>2, <1>4 DEF VT!vtVars

\* A call on a session and its step: the caller is at step k of session s.
LEMMA AtStep ==
    ASSUME PSInv, NEW a \in Threads, act[a].todo # <<>>,
           Next1(a).op \notin {"timeout", "apply", "ubRead", "ubDo"}
    PROVE  /\ a \in Callers /\ act[a].sid \in Sessions /\ Next1(a) \in Steps
           /\ Next1(a) = act[a].todo[1] /\ 1 \in 1 .. Len(act[a].todo)
           /\ CallMembership(act[a].sid, act[a].todo)
<1>1. TypeOK /\ Locks /\ Lists /\ Membership /\ act \in [Threads -> Activity]
  BY DEF PSInv, TypeOK
<1>2. /\ Next1(a) \in Steps /\ Next1(a) = act[a].todo[1] /\ 1 \in 1 .. Len(act[a].todo)
      /\ act[a].sid \in Sessions
  BY <1>1, ActFields, OnSession
<1>3. a \in Callers
  BY <1>1, <1>2, OnlyCallers
<1> QED
  BY <1>1, <1>2, <1>3 DEF Membership

\* addPowerSession.
LEMMA AddRefines ==
    ASSUME PSInv, PSInv', NEW a \in Threads, AddSession(a)
    PROVE  \E s \in Sessions : VT!VTAdd(s)
<1>1. act[a].todo # <<>> /\ Next1(a).op = "add"
  BY DEF AddSession, At, Busy
<1>2. /\ a \in Callers /\ act[a].sid \in Sessions /\ Next1(a) = act[a].todo[1]
      /\ 1 \in 1 .. Len(act[a].todo) /\ CallMembership(act[a].sid, act[a].todo)
  BY <1>1, AtStep
<1>3. PICK s \in Sessions : s = act[a].sid
  BY <1>2
<1>4. state[s] = "open"
  BY <1>1, <1>2, <1>3 DEF CallMembership
<1>5. targetNs[s] \in Durations
  <2>1. SessionMembership(s)
    BY DEF PSInv, Membership
  <2>2. targetNs[s] \in Targets
    BY <1>4, <2>1 DEF SessionMembership
  <2> QED
    BY <2>2, Numbers
<1>6. /\ s \notin mSessions /\ mSessions' = mSessions \cup {s}
      /\ votes' = [votes EXCEPT ![s] = [NoVotes EXCEPT !["CPU_VOTE_DEFAULT"] =
                                          NewVote(FALSE, now, targetNs[s], 0)]]
      /\ Done(a) /\ UNCHANGED <<now, events>>
  BY <1>3 DEF AddSession, add
<1>7. UNCHANGED <<[c \in Callers |-> CallerView(c)], HandlerView>>
  <2>1. act'[a].stamp = NoStamp /\ \A b \in Threads : b # a => act'[b] = act[b]
    BY <1>6, Advanced
  <2> QED
    BY <1>1, <2>1, OtherStep
<1>8. \E dur \in Durations :
         votes' = [votes EXCEPT ![s] = [VT!NoVotes EXCEPT !["CPU_VOTE_DEFAULT"] =
                                          VT!NewVote(FALSE, now, dur, 0)]]
  BY <1>5, <1>6, SameNames
<1>9. VT!VTAdd(s)
  BY <1>6, <1>7, <1>8 DEF VT!VTAdd
<1> QED
  BY <1>9

\* removePowerSession.
LEMMA RemoveRefines ==
    ASSUME PSInv, PSInv', NEW a \in Threads, RemoveSession(a)
    PROVE  \E s \in Sessions : VT!VTRemove(s)
<1>1. act[a].todo # <<>> /\ Next1(a).op = "remove"
  BY DEF RemoveSession, At, Busy
<1>2. PICK s \in Sessions : s = act[a].sid
  BY <1>1, AtStep
<1>3. /\ s \in mSessions /\ mSessions' = mSessions \ {s}
      /\ votes' = [votes EXCEPT ![s] = NoVotes] /\ UNCHANGED <<now, events>>
      /\ \E more : Continue(a, more)
  BY <1>2 DEF RemoveSession, remove
<1>4. UNCHANGED <<[c \in Callers |-> CallerView(c)], HandlerView>>
  <2>1. act'[a].stamp = NoStamp /\ \A b \in Threads : b # a => act'[b] = act[b]
    BY <1>3, Advanced
  <2> QED
    BY <1>1, <2>1, OtherStep
<1>5. VT!VTRemove(s)
  BY <1>3, <1>4, SameNames DEF VT!VTRemove
<1> QED
  BY <1>5

\* disableBoosts.
LEMMA DisableRefines ==
    ASSUME PSInv, PSInv', NEW a \in Threads, disableBoosts(a)
    PROVE  \E s \in Sessions : VT!VTDisableBoosts(s)
<1>1. act[a].todo # <<>> /\ Next1(a).op = "disableBoosts"
  BY DEF disableBoosts, At, Busy
<1>2. /\ act[a].sid \in Sessions /\ Next1(a) = act[a].todo[1]
      /\ 1 \in 1 .. Len(act[a].todo) /\ CallMembership(act[a].sid, act[a].todo)
  BY <1>1, AtStep
<1>3. PICK s \in Sessions : s = act[a].sid
  BY <1>2
<1>4. s \in mSessions
  BY <1>1, <1>2, <1>3 DEF CallMembership
<1>5. /\ votes' = [votes EXCEPT ![s] = WithoutBoosts(@)] /\ UNCHANGED <<now, mSessions, events>>
      /\ Done(a)
  BY <1>3 DEF disableBoosts, mapVars
<1>6. UNCHANGED <<[c \in Callers |-> CallerView(c)], HandlerView>>
  <2>1. act'[a].stamp = NoStamp /\ \A b \in Threads : b # a => act'[b] = act[b]
    BY <1>5, Advanced
  <2> QED
    BY <1>1, <2>1, OtherStep
<1>7. VT!VTDisableBoosts(s)
  BY <1>4, <1>5, <1>6, SameNames DEF VT!VTDisableBoosts
<1> QED
  BY <1>7

\* updateTargetWorkDuration.
LEMMA DurationRefines ==
    ASSUME PSInv, PSInv', NEW a \in Threads, UpdateVoteDuration(a)
    PROVE  \E s \in Sessions : VT!VTUpdateTarget(s)
<1>1. act[a].todo # <<>> /\ Next1(a).op = "target"
  BY DEF UpdateVoteDuration, At, Busy
<1>2. /\ act[a].sid \in Sessions /\ Next1(a) = act[a].todo[1] /\ Next1(a) \in Steps
      /\ 1 \in 1 .. Len(act[a].todo) /\ CallMembership(act[a].sid, act[a].todo)
  BY <1>1, AtStep
<1>3. PICK s \in Sessions : s = act[a].sid
  BY <1>2
<1>4. s \in mSessions
  BY <1>1, <1>2, <1>3 DEF CallMembership
<1>5. PICK dur \in Durations : dur = Next1(a).dur
  BY <1>1, <1>2, StepFields
<1>6. /\ votes' = [votes EXCEPT ![s]["CPU_VOTE_DEFAULT"] = updateDuration(@, dur)]
      /\ UNCHANGED <<now, mSessions, events>> /\ Done(a)
  BY <1>3, <1>5 DEF UpdateVoteDuration, mapVars
<1>7. UNCHANGED <<[c \in Callers |-> CallerView(c)], HandlerView>>
  <2>1. act'[a].stamp = NoStamp /\ \A b \in Threads : b # a => act'[b] = act[b]
    BY <1>6, Advanced
  <2> QED
    BY <1>1, <2>1, OtherStep
<1>8. VT!VTUpdateTarget(s)
  BY <1>4, <1>6, <1>7, SameNames DEF VT!VTUpdateTarget
<1> QED
  BY <1>8

\* A caller moves in the protocol.
LEMMA CallerMoved ==
    ASSUME NEW a \in Callers, \A b \in Threads : b # a => act'[b] = act[b]
    PROVE  /\ HandlerView' = HandlerView
           /\ [c \in Callers |-> CallerView(c)]' =
                 [[c \in Callers |-> CallerView(c)] EXCEPT ![a] = ViewOf(act'[a])]
           /\ \A d \in Callers : [c \in Callers |-> CallerView(c)][d] = ViewOf(act[d])
<1>1. HandlerView' = HandlerView
  BY Views, ThreadKinds
<1>2. \A d \in Callers : CallerView(d)' = IF d = a THEN ViewOf(act'[a]) ELSE CallerView(d)
  BY Views, ThreadKinds
<1>3. \A d \in Callers : [c \in Callers |-> CallerView(c)][d] = ViewOf(act[d])
  BY Views
<1>4. [c \in Callers |-> CallerView(c)]' =
         [[c \in Callers |-> CallerView(c)] EXCEPT ![a] = ViewOf(act'[a])]
  BY <1>2
<1> QED
  BY <1>1, <1>3, <1>4

\* Reading the clock for a vote is the protocol's call of voteSet.
LEMMA StampRefines ==
    ASSUME PSInv, PSInv', NEW a \in Threads, Stamp(a)
    PROVE  Protocol
<1>1. /\ act[a].todo # <<>> /\ Next1(a).op \in {"apply", "vote"} /\ act[a].stamp = NoStamp
      /\ UNCHANGED <<now, mSessions, votes, events>>
      /\ act' = [act EXCEPT ![a] = [act[a] EXCEPT !.stamp = now]]
  BY DEF Stamp, At, Busy, mapVars, sveVars
<1>2. act \in [Threads -> Activity] /\ act[a] \in Activity /\ now \in Nat /\ now # NoStamp
  BY ActFields, Numbers DEF PSInv, TypeOK, NoStamp
<1>3. /\ act'[a].todo = act[a].todo /\ act'[a].sid = act[a].sid /\ act'[a].stamp = now
      /\ \A b \in Threads : b # a => act'[b] = act[b]
  <2>1. /\ [act[a] EXCEPT !.stamp = now].todo = act[a].todo
        /\ [act[a] EXCEPT !.stamp = now].sid = act[a].sid
        /\ [act[a] EXCEPT !.stamp = now].stamp = now
    BY <1>2 DEF Activity
  <2>2. /\ act'[a] = [act[a] EXCEPT !.stamp = now]
        /\ \A b \in Threads : b # a => act'[b] = act[b]
    BY <1>1, <1>2
  <2> QED
    BY <2>1, <2>2
<1>4. CASE Next1(a).op = "apply"
  <2>1. /\ ViewOf(act[a]) = [pc |-> "idle"] /\ HandlerOf(act[a]) = [pc |-> "idle"]
        /\ ViewOf(act'[a]) = [pc |-> "idle"] /\ HandlerOf(act'[a]) = [pc |-> "idle"]
    BY <1>3, <1>4 DEF ViewOf, HandlerOf, Next1
  <2>2. UNCHANGED <<[c \in Callers |-> CallerView(c)], HandlerView>>
    BY <1>3, <2>1, SameViews
  <2> QED
    BY <1>1, <2>2 DEF Protocol, VT!vtVars
<1>5. CASE Next1(a).op = "vote"
  <2>1. a \in Callers /\ act[a].sid \in Sessions /\ Next1(a) \in Steps
    BY <1>1, <1>5, AtStep
  <2>2. PICK s \in Sessions : s = act[a].sid
    BY <2>1
  <2>3. PICK k \in Steps : k = Next1(a) /\ k = Head(act[a].todo)
    BY <2>1 DEF Next1
  <2>4. k.vid \in VoteIds /\ k.val \in Levels /\ k.dur \in Durations /\ k.op = "vote"
    BY <1>5, <2>3, StepFields
  <2>5. ViewOf(act[a]) = [pc |-> "idle"]
    BY <1>1, <2>3, <2>4 DEF ViewOf
  <2>6. ViewOf(act'[a]) = [pc |-> "vote", sid |-> s, vid |-> k.vid, val |-> k.val,
                           start |-> now, dur |-> k.dur]
    BY <1>1, <1>2, <1>3, <2>2, <2>3, <2>4 DEF ViewOf
  <2>7. /\ HandlerView' = HandlerView
        /\ [c \in Callers |-> CallerView(c)]' =
              [[c \in Callers |-> CallerView(c)] EXCEPT ![a] = ViewOf(act'[a])]
        /\ \A d \in Callers : [c \in Callers |-> CallerView(c)][d] = ViewOf(act[d])
    BY <1>3, <2>1, CallerMoved
  <2>8. \A d \in Callers : d # a => act[d].sid # s
    <3>1. TypeOK /\ Locks /\ Lists /\ act[a].todo[1].op = "vote"
      BY <1>1, <1>2, <1>5, ActFields DEF PSInv
    <3> QED
      BY <1>1, <2>2, <3>1, OnlyCallers
  <2>9. \A d \in Callers : ViewOf(act[d]).pc = "idle" \/ ViewOf(act[d]).sid # s
    BY <2>5, <2>8 DEF ViewOf
  <2>10. VT!VTCall(a, s)
    <3>1. [c \in Callers |-> CallerView(c)][a].pc = "idle"
      BY <2>1, <2>5, <2>7
    <3>2. \A d \in Callers : \/ [c \in Callers |-> CallerView(c)][d].pc = "idle"
                             \/ [c \in Callers |-> CallerView(c)][d].sid # s
      BY <2>7, <2>9
    <3>3. \E v \in VT!VoteIds, val \in Levels, dur \in Durations :
             [c \in Callers |-> CallerView(c)]' =
                [[c \in Callers |-> CallerView(c)] EXCEPT ![a] =
                   [pc |-> "vote", sid |-> s, vid |-> v, val |-> val,
                    start |-> now, dur |-> dur]]
      <4>1. [c \in Callers |-> CallerView(c)]' =
               [[c \in Callers |-> CallerView(c)] EXCEPT ![a] =
                  [pc |-> "vote", sid |-> s, vid |-> k.vid, val |-> k.val,
                   start |-> now, dur |-> k.dur]]
        BY <2>6, <2>7
      <4>2. k.vid \in VT!VoteIds /\ k.val \in Levels /\ k.dur \in Durations
        BY <2>4, SameNames
      <4> QED
        BY <4>1, <4>2, Zenon
    <3> QED
      BY <1>1, <2>7, <3>1, <3>2, <3>3 DEF VT!VTCall
  <2> QED
    BY <2>1, <2>10 DEF Protocol, VT!VTNext
<1> QED
  BY <1>1, <1>4, <1>5

\* The locked part of voteSet.
LEMMA VoteRefines ==
    ASSUME PSInv, PSInv', NEW a \in Threads, VoteSet(a)
    PROVE  a \in Callers /\ VT!VTVote(a)
<1>1. /\ act[a].todo # <<>> /\ Next1(a).op = "vote" /\ act[a].stamp # NoStamp
      /\ UNCHANGED <<now, events>>
  BY DEF VoteSet, Stamped, At, Busy
<1>2. a \in Callers /\ act[a].sid \in Sessions /\ Next1(a) \in Steps
  BY <1>1, AtStep
<1>3. PICK s \in Sessions : s = act[a].sid
  BY <1>2
<1>4. PICK k \in Steps : k = Next1(a) /\ k = Head(act[a].todo) /\ k.op = "vote"
  BY <1>1, <1>2 DEF Next1
<1>5. PICK start : start = act[a].stamp
  OBVIOUS
<1>6. /\ mSessions' = mSessions
      /\ \/ s \notin mSessions /\ UNCHANGED votes /\ Done(a)
         \/ /\ s \in mSessions
            /\ votes' = [votes EXCEPT ![s][k.vid] = NewVote(TRUE, start, k.dur, k.val)]
            /\ \/ /\ shouldScheduleTimeout(votes[s][k.vid], start + k.dur)
                  /\ act' = [act EXCEPT ![a].todo = <<[k EXCEPT !.op = "schedule"]>> \o Tail(@)]
               \/ /\ ~shouldScheduleTimeout(votes[s][k.vid], start + k.dur)
                  /\ Done(a)
  <2>1. ASSUME NEW sv, applyUclampLocked(s, sv, start) PROVE mSessions' = mSessions
    BY <2>1 DEF applyUclampLocked, dropDeadThreads, mapVars
  <2> QED
    BY <1>3, <1>4, <1>5, <2>1 DEF VoteSet, mapVars
<1> DEFINE r == [pc |-> "vote", sid |-> s, vid |-> k.vid, val |-> k.val,
                 start |-> start, dur |-> k.dur]
<1>7. ViewOf(act[a]) = r
  BY <1>1, <1>3, <1>4, <1>5 DEF ViewOf
<1>8. act \in [Threads -> Activity] /\ act[a] \in Activity /\ a \in Threads
  BY ActFields DEF PSInv, TypeOK
<1>9. \A b \in Threads : b # a => act'[b] = act[b]
  <2>1. CASE Done(a)
    BY <2>1, Advanced
  <2>2. CASE act' = [act EXCEPT ![a].todo = <<[k EXCEPT !.op = "schedule"]>> \o Tail(@)]
    BY <1>8, <2>2
  <2> QED
    BY <1>6, <2>1, <2>2
<1>10. Done(a) => ViewOf(act'[a]) = [pc |-> "idle"]
  <2> SUFFICES ASSUME Done(a) PROVE ViewOf(act'[a]) = [pc |-> "idle"]
    OBVIOUS
  <2>1. act'[a].stamp = NoStamp
    BY Advanced
  <2>2. Lists' /\ act' \in [Threads -> Activity]
    BY DEF PSInv, TypeOK
  <2>3. act'[a] \in Activity /\ ListOK(act'[a].todo, act'[a].stamp)
    BY <1>2, <2>2 DEF Lists
  <2> QED
    BY <2>1, <2>3, IdleView
<1>11. ASSUME act' = [act EXCEPT ![a].todo = <<[k EXCEPT !.op = "schedule"]>> \o Tail(@)]
       PROVE  ViewOf(act'[a]) = [r EXCEPT !.pc = "schedule"]
  <2>1. PICK g \in Steps : /\ g = [k EXCEPT !.op = "schedule"] /\ g.op = "schedule"
                           /\ g.vid = k.vid /\ g.val = k.val /\ g.dur = k.dur
    BY <1>4, StepsWritten
  <2>2. PICK q : q = <<g>> \o Tail(act[a].todo)
    OBVIOUS
  <2>3. q # <<>> /\ Head(q) = g
    <3>1. PICK p : p = Tail(act[a].todo)
      OBVIOUS
    <3>2. p \in Seq(Steps)
      BY <1>1, <1>8, <3>1, ActFields, HeadTailProperties
    <3>3. PICK h : h = <<g>>
      OBVIOUS
    <3>4. h \in Seq(Steps) /\ Len(h) = 1 /\ h[1] = g
      BY <3>3
    <3>5. q = h \o p
      BY <2>2, <3>1, <3>3
    <3>6. q \in Seq(Steps) /\ Len(q) = Len(h) + Len(p) /\ Len(p) \in Nat
          /\ \A i \in 1 .. Len(h) : q[i] = h[i]
      <4>1. h \in Seq(Steps) /\ p \in Seq(Steps)
        BY <3>2, <3>4
      <4> QED
        BY <3>5, <4>1, Joined
    <3>7. q # <<>> /\ q[1] = g
      BY <3>4, <3>6, NotEmpty
    <3> QED
      BY <3>6, <3>7, HeadTailProperties
  <2>4. act' = [act EXCEPT ![a] = [act[a] EXCEPT !.todo = q]]
    BY <1>11, <2>1, <2>2
  <2>5. act'[a] = [act[a] EXCEPT !.todo = q]
    BY <1>8, <2>4
  <2>6. act'[a].todo = q /\ act'[a].sid = s /\ act'[a].stamp = start
    BY <1>3, <1>5, <1>8, <2>5 DEF Activity
  <2>7. ViewOf(act'[a]) = [pc |-> "schedule", sid |-> s, vid |-> k.vid, val |-> k.val,
                           start |-> start, dur |-> k.dur]
    BY <2>1, <2>3, <2>6 DEF ViewOf
  <2> QED
    BY <2>7
<1>12. /\ HandlerView' = HandlerView
       /\ [c \in Callers |-> CallerView(c)]' =
             [[c \in Callers |-> CallerView(c)] EXCEPT ![a] = ViewOf(act'[a])]
       /\ \A d \in Callers : [c \in Callers |-> CallerView(c)][d] = ViewOf(act[d])
  BY <1>2, <1>9, CallerMoved
<1>13. [c \in Callers |-> CallerView(c)][a] = r
  BY <1>2, <1>7, <1>12
<1>14. r.pc = "vote" /\ r.sid = s /\ r.vid = k.vid /\ r.start = start /\ r.dur = k.dur /\ r.val = k.val
  OBVIOUS
<1> HIDE DEF r
<1>15. CASE s \notin mSessions /\ UNCHANGED votes /\ Done(a)
  <2>1. [c \in Callers |-> CallerView(c)]' =
             [[c \in Callers |-> CallerView(c)] EXCEPT ![a] = VT!IdleCaller]
    BY <1>10, <1>12, <1>15, SameNames
  <2> QED
    BY <1>1, <1>2, <1>6, <1>12, <1>13, <1>14, <1>15, <2>1 DEF VT!VTVote
<1>16. CASE /\ s \in mSessions
            /\ votes' = [votes EXCEPT ![s][k.vid] = NewVote(TRUE, start, k.dur, k.val)]
  <2>1. [c \in Callers |-> CallerView(c)]' =
             [[c \in Callers |-> CallerView(c)] EXCEPT ![a] =
                IF VT!shouldScheduleTimeout(votes[s][k.vid], start + k.dur)
                THEN [r EXCEPT !.pc = "schedule"] ELSE VT!IdleCaller]
    BY <1>6, <1>10, <1>11, <1>12, <1>16, SameNames
  <2>2. votes' = [votes EXCEPT ![s][k.vid] = VT!NewVote(TRUE, start, k.dur, k.val)]
    BY <1>16, SameNames
  <2> QED
    BY <1>1, <1>2, <1>6, <1>12, <1>13, <1>14, <1>16, <2>1, <2>2 DEF VT!VTVote
<1> QED
  BY <1>6, <1>15, <1>16

\* The rest of voteSet, after the mutex is released.
LEMMA ScheduleRefines ==
    ASSUME PSInv, PSInv', NEW a \in Threads, ScheduleTimeout(a)
    PROVE  a \in Callers /\ VT!VTSchedule(a)
<1>1. /\ act[a].todo # <<>> /\ Next1(a).op = "schedule"
      /\ UNCHANGED <<now, mSessions, votes>> /\ Done(a)
  BY DEF ScheduleTimeout, At, Busy, mapVars, sveVars
<1>2. a \in Callers /\ act[a].sid \in Sessions /\ Next1(a) \in Steps
  BY <1>1, AtStep
<1>3. PICK s \in Sessions : s = act[a].sid
  BY <1>2
<1>4. PICK k \in Steps : k = Next1(a) /\ k = Head(act[a].todo) /\ k.op = "schedule"
  BY <1>1, <1>2 DEF Next1
<1>5. PICK start : start = act[a].stamp
  OBVIOUS
<1>6. PICK r : r = [pc |-> "schedule", sid |-> s, vid |-> k.vid, val |-> k.val,
                    start |-> start, dur |-> k.dur]
  OBVIOUS
<1>7. ViewOf(act[a]) = r
  BY <1>1, <1>3, <1>4, <1>5, <1>6 DEF ViewOf
<1>8. act'[a].stamp = NoStamp /\ \A b \in Threads : b # a => act'[b] = act[b]
  BY <1>1, Advanced
<1>9. ViewOf(act'[a]) = [pc |-> "idle"]
  <2>1. Lists' /\ act' \in [Threads -> Activity]
    BY DEF PSInv, TypeOK
  <2>2. act'[a] \in Activity /\ ListOK(act'[a].todo, act'[a].stamp)
    BY <1>2, <2>1 DEF Lists
  <2> QED
    BY <1>8, <2>2, IdleView
<1>10. /\ HandlerView' = HandlerView
       /\ [c \in Callers |-> CallerView(c)]' =
             [[c \in Callers |-> CallerView(c)] EXCEPT ![a] = ViewOf(act'[a])]
       /\ \A d \in Callers : [c \in Callers |-> CallerView(c)][d] = ViewOf(act[d])
  BY <1>2, <1>8, CallerMoved
<1>11. [c \in Callers |-> CallerView(c)][a] = r
  BY <1>2, <1>7, <1>10
<1>12. r.pc = "schedule" /\ r.sid = s /\ r.vid = k.vid /\ r.start = start /\ r.dur = k.dur
  BY <1>6
<1>13. events' = VT!Queue!BagAdd(events, [sid |-> s, vid |-> k.vid, deadline |-> start + k.dur])
  BY <1>3, <1>4, <1>5, SameNames DEF ScheduleTimeout
<1>14. [c \in Callers |-> CallerView(c)]' =
          [[c \in Callers |-> CallerView(c)] EXCEPT ![a] = VT!IdleCaller]
  BY <1>9, <1>10, SameNames
<1> QED
  BY <1>1, <1>2, <1>10, <1>11, <1>12, <1>13, <1>14 DEF VT!VTSchedule

\* The worker moves in the protocol.
LEMMA HandlerMoved ==
    ASSUME \A b \in Threads : b # Handler => act'[b] = act[b]
    PROVE  UNCHANGED [c \in Callers |-> CallerView(c)]
<1>1. \A c \in Callers : CallerView(c)' = CallerView(c)
  BY Views, ThreadKinds
<1> QED
  BY <1>1

\* The worker takes a due event.
LEMMA TakeRefines ==
    ASSUME PSInv, PSInv', TakeEvent
    PROVE  VT!VTTake
<1>1. PICK e \in DOMAIN events :
         /\ e.deadline <= now
         /\ events' = Queue!BagRemove(events, e)
         /\ act' = [act EXCEPT ![Handler] =
                      [sid |-> e.sid, stamp |-> now, seen |-> FALSE,
                       todo |-> <<[op |-> "timeout", vid |-> e.vid, deadline |-> e.deadline]>>]]
  BY DEF TakeEvent
<1>2. /\ act[Handler].todo = <<>> /\ UNCHANGED <<now, mSessions, votes>>
      /\ act \in [Threads -> Activity] /\ Handler \in Threads
      /\ e \in [sid : Sessions, vid : VoteIds, deadline : Nat]
  BY ThreadKinds DEF TakeEvent, Busy, mapVars, sveVars, PSInv, TypeOK
<1>3. PICK k : k = [op |-> "timeout", vid |-> e.vid, deadline |-> e.deadline]
  OBVIOUS
<1>4. PICK q : q = <<k>>
  OBVIOUS
<1>5. q # <<>> /\ Head(q) = k
  BY <1>4
<1>6. /\ act'[Handler].todo = q /\ act'[Handler].sid = e.sid /\ act'[Handler].stamp = now
      /\ \A b \in Threads : b # Handler => act'[b] = act[b]
  <2>1. act' = [act EXCEPT ![Handler] = [sid |-> e.sid, stamp |-> now, seen |-> FALSE, todo |-> q]]
    BY <1>1, <1>3, <1>4
  <2> QED
    BY <1>2, <2>1
<1>7. e = [sid |-> e.sid, vid |-> e.vid, deadline |-> e.deadline]
  BY <1>2
<1>8. HandlerOf(act'[Handler]) = [pc |-> "timeout", ev |-> e, tNow |-> now]
  <2>1. HandlerOf(act'[Handler]) =
           [pc |-> "timeout", tNow |-> now,
            ev |-> [sid |-> e.sid, vid |-> e.vid, deadline |-> e.deadline]]
    BY <1>3, <1>5, <1>6 DEF HandlerOf
  <2> QED
    BY <1>7, <2>1
<1>9. HandlerView.pc = "idle"
  BY <1>2, Views DEF HandlerOf
<1>10. HandlerView' = [pc |-> "timeout", ev |-> e, tNow |-> now]
  BY <1>8, Views
<1>11. UNCHANGED [c \in Callers |-> CallerView(c)]
  BY <1>6, HandlerMoved
<1>12. events' = VT!Queue!BagRemove(events, e)
  BY <1>1, SameNames
<1> QED
  BY <1>1, <1>2, <1>9, <1>10, <1>11, <1>12 DEF VT!VTTake

\* The locked part of handleEvent.
LEMMA HandleRefines ==
    ASSUME PSInv, PSInv', HandleEvent
    PROVE  VT!VTTimeout
<1>1. /\ act[Handler].todo # <<>> /\ Next1(Handler).op = "timeout"
      /\ UNCHANGED <<now, mSessions>>
  BY DEF HandleEvent, At, Busy, mapVars
<1>2. /\ Handler \in Threads /\ act \in [Threads -> Activity] /\ act[Handler] \in Activity
      /\ Lists' /\ act' \in [Threads -> Activity]
  BY ThreadKinds, ActFields DEF PSInv, TypeOK
<1>3. PICK k : k = Next1(Handler) /\ k = Head(act[Handler].todo) /\ k.op = "timeout"
  BY <1>1 DEF Next1
<1>4. PICK s : s = act[Handler].sid
  OBVIOUS
<1>5. PICK tNow : tNow = act[Handler].stamp
  OBVIOUS
<1>6. PICK e : e = [sid |-> s, vid |-> k.vid, deadline |-> k.deadline]
  OBVIOUS
<1>7. PICK vote : vote = votes[s][k.vid]
  OBVIOUS
<1>8. HandlerView = [pc |-> "timeout", tNow |-> tNow, ev |-> e]
  BY <1>1, <1>3, <1>4, <1>5, <1>6, Views DEF HandlerOf
<1>9. HandlerView.pc = "timeout" /\ HandlerView.tNow = tNow /\ HandlerView.ev = e
  BY <1>8
<1>10. /\ e.sid = s /\ e.vid = k.vid
       /\ \A d : [e EXCEPT !.deadline = d] = [sid |-> s, vid |-> k.vid, deadline |-> d]
  BY <1>6
<1>11. \/ /\ s \in mSessions /\ vote.active /\ voteTimeout(vote) <= tNow
          /\ votes' = [votes EXCEPT ![s][k.vid] = setUseVote(@, FALSE)]
          /\ act' = [act EXCEPT ![Handler].todo = Refresh]
          /\ UNCHANGED events
       \/ /\ s \in mSessions /\ vote.active /\ tNow < voteTimeout(vote)
          /\ events' = Queue!BagAdd(events, [sid |-> s, vid |-> k.vid,
                                             deadline |-> voteTimeout(vote)])
          /\ Done(Handler) /\ UNCHANGED votes
       \/ /\ s \notin mSessions \/ ~vote.active
          /\ Done(Handler) /\ UNCHANGED <<votes, events>>
  BY <1>3, <1>4, <1>5, <1>7 DEF HandleEvent
<1>12. /\ HandlerOf(act'[Handler]) = [pc |-> "idle"]
       /\ \A b \in Threads : b # Handler => act'[b] = act[b]
  <2>1. CASE Done(Handler)
    <3>1. /\ act'[Handler].stamp = NoStamp
          /\ \A b \in Threads : b # Handler => act'[b] = act[b]
      BY <1>2, <2>1, Advanced
    <3>2. /\ act'[Handler] \in Activity
          /\ HandlerListOK(act'[Handler].todo, act'[Handler].stamp)
      BY <1>2 DEF Lists
    <3> QED
      BY <3>1, <3>2, IdleHandlerView
  <2>2. CASE act' = [act EXCEPT ![Handler].todo = Refresh]
    <3>1. act' = [act EXCEPT ![Handler] = [act[Handler] EXCEPT !.todo = Refresh]]
      BY <2>2
    <3>2. act'[Handler] = [act[Handler] EXCEPT !.todo = Refresh]
      BY <1>2, <3>1
    <3>3. act'[Handler].todo = Refresh
      BY <1>2, <3>2 DEF Activity
    <3>4. Head(Refresh) = Refresh[1]
      BY RefreshList, HeadTailProperties
    <3>5. HandlerOf(act'[Handler]) = [pc |-> "idle"]
      BY <3>3, <3>4, RefreshList DEF HandlerOf
    <3>6. \A b \in Threads : b # Handler => act'[b] = act[b]
      BY <1>2, <3>1
    <3> QED
      BY <3>5, <3>6
  <2> QED
    BY <1>11, <2>1, <2>2
<1>13. HandlerView' = VT!IdleHandler
  BY <1>12, Views, SameNames
<1>14. UNCHANGED [c \in Callers |-> CallerView(c)]
  BY <1>12, HandlerMoved
<1>15. LET ev == HandlerView.ev
           vt == votes[ev.sid][ev.vid]
       IN  \/ /\ ev.sid \in mSessions /\ vt.active /\ VT!voteTimeout(vt) <= HandlerView.tNow
              /\ votes' = [votes EXCEPT ![ev.sid][ev.vid] = VT!setUseVote(@, FALSE)]
              /\ UNCHANGED events
           \/ /\ ev.sid \in mSessions /\ vt.active /\ HandlerView.tNow < VT!voteTimeout(vt)
              /\ events' = VT!Queue!BagAdd(events, [ev EXCEPT !.deadline = VT!voteTimeout(vt)])
              /\ UNCHANGED votes
           \/ /\ ev.sid \notin mSessions \/ ~vt.active
              /\ UNCHANGED <<votes, events>>
  BY <1>7, <1>9, <1>10, <1>11, SameNames
<1> QED
  BY <1>1, <1>9, <1>13, <1>14, <1>15 DEF VT!VTTimeout

\* The calls begin and threads die unseen, and time passes.
LEMMA CallRefines ==
    ASSUME PSInv, PSInv', NEW c \in Callers, NEW s, NEW q, Call(c, s, q)
    PROVE  UNCHANGED VT!vtVars
<1>1. /\ act[c].todo = <<>> /\ UNCHANGED <<now, mSessions, votes, events>>
      /\ act' = [act EXCEPT ![c] = [sid |-> s, todo |-> q, stamp |-> NoStamp, seen |-> FALSE]]
      /\ act \in [Threads -> Activity] /\ c \in Threads
  BY ThreadKinds DEF Call, Busy, mapVars, sveVars, PSInv, TypeOK
<1>2. act'[c].stamp = NoStamp /\ \A b \in Threads : b # c => act'[b] = act[b]
  BY <1>1
<1>3. UNCHANGED <<[d \in Callers |-> CallerView(d)], HandlerView>>
  BY <1>1, <1>2, OtherStep
<1> QED
  BY <1>1, <1>3 DEF VT!vtVars

\* While no thread moves the views stay.
LEMMA SameActRefines ==
    ASSUME UNCHANGED act
    PROVE  UNCHANGED <<[c \in Callers |-> CallerView(c)], HandlerView>>
<1>1. \A c \in Callers : CallerView(c)' = CallerView(c)
  BY Views
<1>2. [c \in Callers |-> CallerView(c)]' = [c \in Callers |-> CallerView(c)]
  BY <1>1
<1>3. HandlerView' = HandlerView
  BY Views
<1> QED
  BY <1>2, <1>3

\* Every step of a thread is a step of the protocol, or unseen by it.
LEMMA ThreadRefines ==
    ASSUME PSInv, PSInv', NEW a \in Threads, ThreadStep(a)
    PROVE  Protocol
<1>1. CASE Stamp(a)
  BY <1>1, StampRefines
<1>2. CASE AddSession(a) \/ RemoveSession(a) \/ disableBoosts(a) \/ UpdateVoteDuration(a)
  BY <1>2, AddRefines, RemoveRefines, DisableRefines, DurationRefines DEF Protocol, VT!VTNext
<1>3. CASE \/ ForceActive(a) \/ SetActive(a) \/ ReplaceThreads(a) \/ SetTaskProfiles(a)
           \/ applyCpuAndGpuVotes(a) \/ UniversalBoostRead(a) \/ UniversalBoostDo(a)
  BY <1>3, HiddenStep DEF Protocol
<1>4. CASE VoteSet(a) \/ ScheduleTimeout(a)
  BY <1>4, VoteRefines, ScheduleRefines DEF Protocol, VT!VTNext
<1> QED
  BY <1>1, <1>2, <1>3, <1>4 DEF ThreadStep

\* Every step is a step of the protocol, or unseen by it.
LEMMA NextRefines ==
    ASSUME PSInv, PSInv', [Next]_vars
    PROVE  Protocol
<1>1. CASE ClientCall
  <2>1. PICK c \in Callers, s \in Sessions : \E q : Call(c, s, q)
    <3>1. PICK s \in Sessions :
             \/ createHintSession(s) \/ pause(s) \/ resume(s) \/ setThreads(s)
             \/ \E c \in Callers : \/ close(c, s) \/ updateTargetWorkDuration(c, s)
                                   \/ reportActualWorkDuration(c, s) \/ sendHint(c, s)
      BY <1>1 DEF ClientCall
    <3>2. CASE createHintSession(s) \/ pause(s) \/ resume(s) \/ setThreads(s)
      <4>1. \E q : Call(Binder, s, q)
        BY <3>2 DEF createHintSession, pause, resume, setThreads
      <4> QED
        BY <4>1, ThreadKinds
    <3>3. ASSUME NEW c \in Callers,
                 \/ close(c, s) \/ updateTargetWorkDuration(c, s)
                 \/ reportActualWorkDuration(c, s) \/ sendHint(c, s)
          PROVE  \E q : Call(c, s, q)
      BY <3>3 DEF close, updateTargetWorkDuration, reportActualWorkDuration, sendHint
    <3> QED
      BY <3>1, <3>2, <3>3
  <2> QED
    BY <2>1, CallRefines DEF Protocol
<1>2. CASE \E a \in Threads : ThreadStep(a)
  BY <1>2, ThreadRefines
<1>3. CASE TakeEvent \/ HandleEvent
  BY <1>3, TakeRefines, HandleRefines DEF Protocol, VT!VTNext
<1>4. CASE \E t \in Tids : ThreadDies(t)
  <2>1. UNCHANGED <<now, mSessions, votes, events, act>>
    BY <1>4 DEF ThreadDies, mapVars, sveVars
  <2> QED
    BY <2>1, SameActRefines DEF Protocol, VT!vtVars
<1>5. CASE Tick
  <2>1. now' = now + 1 /\ UNCHANGED <<mSessions, votes, events, act>>
    BY <1>5 DEF Tick, mapVars, sveVars
  <2>2. VT!VTTick
    BY <2>1, SameActRefines DEF VT!VTTick
  <2> QED
    BY <2>2 DEF Protocol, VT!VTNext
<1>6. CASE UNCHANGED vars
  <2>1. UNCHANGED <<now, mSessions, votes, events, act>>
    BY <1>6 DEF vars, mapVars, sveVars
  <2> QED
    BY <2>1, SameActRefines DEF Protocol, VT!vtVars
<1>7. (\E c \in Callers : ThreadStep(c)) \/ ThreadStep(Handler) => \E a \in Threads : ThreadStep(a)
  BY ThreadKinds
<1> QED
  BY <1>1, <1>2, <1>3, <1>4, <1>5, <1>6, <1>7 DEF Next, HandlerStep

\* The initial state is one of the protocol.
LEMMA InitRefines == Init => VT!VTInit
<1> SUFFICES ASSUME Init PROVE VT!VTInit
  OBVIOUS
<1>1. /\ now = 0 /\ mSessions = {} /\ events = <<>> /\ votes = [s \in Sessions |-> NoVotes]
      /\ \A a \in Threads : act[a].todo = <<>>
  BY DEF Init, MapInit, Idle
<1>2. \A c \in Callers : CallerView(c) = VT!IdleCaller
  BY <1>1, Views, ThreadKinds, SameNames DEF ViewOf
<1>3. HandlerView = VT!IdleHandler
  BY <1>1, Views, ThreadKinds, SameNames DEF HandlerOf
<1>4. [c \in Callers |-> CallerView(c)] = [c \in Callers |-> VT!IdleCaller]
  BY <1>2
<1>5. votes = [s \in Sessions |-> VT!NoVotes]
  BY <1>1, SameNames
<1> QED
  BY <1>1, <1>3, <1>4, <1>5 DEF VT!VTInit

\* Every call on a session, cut at the manager's mutex and interleaved with the
\* other callers, the worker and the clock, is a run of the timeout protocol.
THEOREM SessionsImplementTimeouts == Spec => ImplementsVoteTimeouts
<1>1. PSInv /\ PSInv' /\ [Next]_vars => [VT!VTNext]_VT!vtVars
  BY NextRefines DEF Protocol
<1> QED
  BY <1>1, InitRefines, PSInvariant, PTL DEF Spec, ImplementsVoteTimeouts, VT!VTSpec

-----------------------------------------------------------------------------
(* What is proved of VoteTimeouts therefore holds of PowerSession.         *)

VTP == INSTANCE VoteTimeoutsProofs WITH live <- mSessions,
                                        caller <- [c \in Callers |-> CallerView(c)],
                                        handler <- HandlerView

\* The protocol's assumption holds of the levels and durations here.
LEMMA TimeoutAssumption == VTP!VotesAssumption
  BY VotesAssumption DEF VTP!VotesAssumption

\* The specification that is implemented is the one the theorems are about.
LEMMA SameProtocol ==
    /\ VT!VTInit <=> VTP!VTInit
    /\ VT!VTNext <=> VTP!VTNext
    /\ VT!vtVars = VTP!vtVars /\ VT!vtVars' = VTP!vtVars'
<1>1. VT!VTInit <=> VTP!VTInit
  BY DEF VT!VTInit, VTP!VTInit, VT!NoVotes, VTP!NoVotes, VT!VoteIds, VTP!VoteIds,
         VT!CpuVoteIds, VTP!CpuVoteIds, VT!GpuVoteIds, VTP!GpuVoteIds, VT!NoVote, VTP!NoVote,
         VT!IdleCaller, VTP!IdleCaller, VT!IdleHandler, VTP!IdleHandler
<1>2. VT!VTTick <=> VTP!VTTick
  BY DEF VT!VTTick, VTP!VTTick
<1>3. VT!VTTake <=> VTP!VTTake
  BY DEF VT!VTTake, VTP!VTTake, VT!Queue!BagRemove, VTP!Queue!BagRemove
<1>4. VT!VTTimeout <=> VTP!VTTimeout
  BY DEF VT!VTTimeout, VTP!VTTimeout, VT!Queue!BagAdd, VTP!Queue!BagAdd, VT!voteTimeout,
         VTP!voteTimeout, VT!setUseVote, VTP!setUseVote, VT!IdleHandler, VTP!IdleHandler
<1>5. \A s \in Sessions : /\ VT!VTAdd(s) <=> VTP!VTAdd(s)
                          /\ VT!VTRemove(s) <=> VTP!VTRemove(s)
                          /\ VT!VTDisableBoosts(s) <=> VTP!VTDisableBoosts(s)
                          /\ VT!VTUpdateTarget(s) <=> VTP!VTUpdateTarget(s)
                          /\ \A c \in Callers : VT!VTCall(c, s) <=> VTP!VTCall(c, s)
  BY DEF VT!VTAdd, VTP!VTAdd, VT!VTRemove, VTP!VTRemove, VT!VTDisableBoosts,
         VTP!VTDisableBoosts, VT!VTUpdateTarget, VTP!VTUpdateTarget, VT!VTCall, VTP!VTCall,
         VT!NoVotes, VTP!NoVotes, VT!VoteIds, VTP!VoteIds, VT!CpuVoteIds, VTP!CpuVoteIds,
         VT!GpuVoteIds, VTP!GpuVoteIds, VT!NoVote, VTP!NoVote, VT!NewVote, VTP!NewVote,
         VT!WithoutBoosts, VTP!WithoutBoosts, VT!Boosts, VTP!Boosts, VT!setUseVote,
         VTP!setUseVote, VT!updateDuration, VTP!updateDuration
<1>6. \A c \in Callers : VT!VTVote(c) <=> VTP!VTVote(c)
  BY DEF VT!VTVote, VTP!VTVote, VT!NewVote, VTP!NewVote, VT!IdleCaller, VTP!IdleCaller,
         VT!shouldScheduleTimeout, VTP!shouldScheduleTimeout, VT!voteTimeout, VTP!voteTimeout
<1>7. \A c \in Callers : VT!VTSchedule(c) <=> VTP!VTSchedule(c)
  BY DEF VT!VTSchedule, VTP!VTSchedule, VT!Queue!BagAdd, VTP!Queue!BagAdd,
         VT!IdleCaller, VTP!IdleCaller
<1>8. VT!VTNext <=> VTP!VTNext
  BY <1>2, <1>3, <1>4, <1>5, <1>6, <1>7 DEF VT!VTNext, VTP!VTNext
<1>9. VT!vtVars = VTP!vtVars /\ VT!vtVars' = VTP!vtVars'
  BY DEF VT!vtVars, VTP!vtVars
<1> QED
  BY <1>1, <1>8, <1>9

\* PowerSession implements the specification the theorems are about.
LEMMA TimeoutsHold == Spec => VTP!VTSpec
<1>1. VT!VTInit => VTP!VTInit
  BY SameProtocol
<1>2. [VT!VTNext]_VT!vtVars => [VTP!VTNext]_VTP!vtVars
  BY SameProtocol
<1> QED
  BY <1>1, <1>2, SessionsImplementTimeouts, PTL DEF ImplementsVoteTimeouts, VT!VTSpec, VTP!VTSpec

\* Their conclusions are the properties stated here.
LEMMA SameCoverage ==
    /\ VTP!ActiveVoteHasEvent => ActiveVoteHasEvent
    /\ VTP!BoostEventInTime => BoostEventInTime
<1>1. \A s, v, limits : VTP!EventComes(s, v, limits) <=> VT!EventComes(s, v, limits)
  BY DEF VTP!EventComes, VT!EventComes
<1>2. VTP!VoteIds = VT!VoteIds /\ \A vote : VTP!voteTimeout(vote) = VT!voteTimeout(vote)
  BY DEF VTP!VoteIds, VT!VoteIds, VTP!CpuVoteIds, VT!CpuVoteIds, VTP!GpuVoteIds, VT!GpuVoteIds,
         VTP!voteTimeout, VT!voteTimeout
<1>3. VTP!ActiveVoteHasEvent => ActiveVoteHasEvent
  BY <1>1, <1>2 DEF ActiveVoteHasEvent, VTP!ActiveVoteHasEvent, VT!ActiveVoteHasEvent
<1>4. VTP!BoostEventInTime => BoostEventInTime
  BY <1>1, <1>2 DEF BoostEventInTime, VTP!BoostEventInTime, VT!BoostEventInTime
<1> QED
  BY <1>3, <1>4

\* No boost of a session is without a timeout event on its way: queued, in the
\* hands of the worker, or about to be queued by the voteSet that set it.
THEOREM EveryBoostHasEvent == Spec => []ActiveVoteHasEvent
<1>1. VTP!VTSpec => []VTP!ActiveVoteHasEvent
  BY VTP!EveryActiveVoteHasEvent, TimeoutAssumption
<1> QED
  BY <1>1, TimeoutsHold, SameCoverage, PTL

\* The event of a boost comes by the end of the boost, however voteSet, the
\* worker and disableBoosts interleave.
THEOREM EveryBoostEnds == Spec => []BoostEventInTime
<1>1. VTP!VTSpec => []VTP!BoostEventInTime
  BY VTP!EveryBoostEventInTime, TimeoutAssumption
<1> QED
  BY <1>1, TimeoutsHold, SameCoverage, PTL

=============================================================================
