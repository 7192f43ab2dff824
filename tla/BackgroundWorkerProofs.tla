----------------------- MODULE BackgroundWorkerProofs -----------------------
(***************************************************************************)
(* Proofs about BackgroundWorker, for all packages, callers, deadlines and *)
(* times.  Calls of schedule may overlap in any way.                       *)
(*                                                                         *)
(* An entry on its way to a package (queued, popped or about to be pushed) *)
(* knows the deadline of the package it was made for, and leads to that    *)
(* package, to none, or to one whose call overlapped (EntriesRight); a     *)
(* call that is about to read the counter will read the id of its own      *)
(* package or has overlapped (ReadersRight); and every package stored has  *)
(* an entry or such a call (PackagesReached).                              *)
(*                                                                         *)
(* When packages come in time also depends on the pool.  With one thread,  *)
(* which is how PowerSessionManager builds it, a waiting thread is bound   *)
(* to an entry that is due when the wait ends (Timing); with two a thread  *)
(* may time out on an entry another one took.                              *)
(***************************************************************************)
EXTENDS BackgroundWorker, FiniteSetTheorems, TLAPS

OneThread == \A v, w \in Pool : v = w

ReadingCaller == [pc : {"read"}, deadline : Deadlines, meant : Packages]
PushingCaller == [pc : {"push"}, entry : Entry]
ThreadState == {AtTop, [pc |-> "done"]} \cup [pc : {"waiting"}, until : Nat]
                 \cup [pc : {"popped"}, entry : Entry]

Scheduled == {p \in Packages : deadlineOf[p] # Forever}

\* The types, and the counter: one id for each package scheduled so far.
WorkerTypes ==
    /\ TypeOK
    /\ caller \in [Callers -> {IdleCaller} \cup ReadingCaller \cup PushingCaller]
    /\ thread \in [Pool -> ThreadState]
    /\ mPackageIdCounter = Cardinality(Scheduled)
    /\ Readers # {} => mPackageIdCounter \in Ids

Popped(e) == \E w \in Pool : thread[w].pc = "popped" /\ thread[w].entry = e
Pushing(e) == \E c \in Callers : caller[c].pc = "push" /\ caller[c].entry = e
OnItsWay(e) == e \in mPackageQueue \/ Popped(e) \/ Pushing(e)

EntriesRight ==
    /\ \A e \in Entry : OnItsWay(e) =>
          /\ e.packageId <= mPackageIdCounter /\ deadlineOf[e.meant] = e.deadline
          /\ mPackages[e.packageId] \in {NoPackage, e.meant} \cup overlapped
    /\ \A e, f \in Entry : OnItsWay(e) /\ OnItsWay(f) /\ e.meant = f.meant => e = f

ReadersRight ==
    /\ \A c \in Readers :
          /\ deadlineOf[caller[c].meant] = caller[c].deadline
          /\ mPackages[mPackageIdCounter] \in {NoPackage, caller[c].meant} \cup overlapped
          /\ \A e \in Entry : OnItsWay(e) => e.meant # caller[c].meant
          /\ \A d \in Readers : caller[c].meant = caller[d].meant => c = d
          /\ caller[c].meant \notin overlapped =>
                \A id \in Ids : mPackages[id] = caller[c].meant => id = mPackageIdCounter

PackagesReached ==
    /\ \A id \in Ids : mPackages[id] # NoPackage => deadlineOf[mPackages[id]] # Forever
    /\ callback =>
          \A id \in Ids : mPackages[id] \notin overlapped \cup {NoPackage} =>
              \/ \E e \in Entry : OnItsWay(e) /\ e.packageId = id
              \/ \E c \in Readers : caller[c].meant = mPackages[id]

WorkerInv == WorkerTypes /\ EntriesRight /\ ReadersRight /\ PackagesReached

Timing ==
    \A w \in Pool :
        /\ thread[w].pc = "waiting" =>
              thread[w].until = Forever \/ \E e \in mPackageQueue : e.deadline <= thread[w].until
        /\ thread[w].pc = "popped" => thread[w].entry.deadline <= now

-----------------------------------------------------------------------------
(* Typing facts.                                                           *)

\* The packages can be counted, so the id counter has a bound.
LEMMA PackagesCounted == Cardinality(Packages) \in Nat
  BY FS_CardinalityType, BackgroundWorkerAssumption

\* The fields of a queue entry; its deadline is a time that comes.
LEMMA EntryFields ==
    ASSUME NEW e \in Entry
    PROVE  /\ e.deadline \in Deadlines /\ e.deadline \in Nat /\ e.deadline # Forever
           /\ e.packageId \in Ids /\ e.packageId \in Nat /\ e.meant \in Packages
<1>1. e.deadline \in Deadlines /\ e.packageId \in Ids /\ e.meant \in Packages
  BY DEF Entry
<1>2. e.packageId \in Nat
  BY <1>1, PackagesCounted DEF Ids
<1> QED
  BY <1>1, <1>2, BackgroundWorkerAssumption

\* A thread that has popped holds a queue entry.
LEMMA PoppedEntry ==
    ASSUME WorkerTypes, NEW w \in Pool, thread[w].pc = "popped"
    PROVE  thread[w].entry \in Entry
<1>1. thread[w] \in ThreadState
  BY DEF WorkerTypes
<1> QED
  BY <1>1 DEF ThreadState, AtTop

\* A waiting thread waits for a time or for ever.
LEMMA WaitingUntil ==
    ASSUME WorkerTypes, NEW w \in Pool, thread[w].pc = "waiting"
    PROVE  thread[w].until \in Nat
<1>1. thread[w] \in ThreadState
  BY DEF WorkerTypes
<1> QED
  BY <1>1 DEF ThreadState, AtTop

\* What a call of schedule knows before it reads the counter.
LEMMA ReaderFields ==
    ASSUME WorkerTypes, NEW c \in Callers, caller[c].pc = "read"
    PROVE  caller[c].deadline \in Deadlines /\ caller[c].meant \in Packages
<1>1. caller[c] \in {IdleCaller} \cup ReadingCaller \cup PushingCaller
  BY DEF WorkerTypes
<1> QED
  BY <1>1 DEF IdleCaller, ReadingCaller, PushingCaller

\* What a call of schedule is about to push is an entry.
LEMMA PushingEntry ==
    ASSUME WorkerTypes, NEW c \in Callers, caller[c].pc = "push"
    PROVE  caller[c].entry \in Entry
<1>1. caller[c] \in {IdleCaller} \cup ReadingCaller \cup PushingCaller
  BY DEF WorkerTypes
<1> QED
  BY <1>1 DEF IdleCaller, ReadingCaller, PushingCaller

\* An id is left for every package that is not scheduled yet.
LEMMA IdLeft ==
    ASSUME WorkerTypes, NEW p \in Packages, deadlineOf[p] = Forever
    PROVE  /\ mPackageIdCounter + 1 \in Ids
           /\ mPackageIdCounter + 1 = Cardinality(Scheduled \cup {p})
<1>1. Scheduled \cup {p} \subseteq Packages /\ p \notin Scheduled
  BY DEF Scheduled
<1>2. IsFiniteSet(Scheduled) /\ IsFiniteSet(Scheduled \cup {p})
  BY <1>1, FS_Subset, BackgroundWorkerAssumption
<1>3. Cardinality(Scheduled \cup {p}) = Cardinality(Scheduled) + 1
  BY <1>1, <1>2, FS_AddElement
<1>4. Cardinality(Scheduled \cup {p}) <= Cardinality(Packages)
  BY <1>1, FS_Subset, BackgroundWorkerAssumption
<1>5. Cardinality(Scheduled) \in Nat
  BY <1>2, FS_CardinalityType
<1> QED
  BY <1>3, <1>4, <1>5, PackagesCounted DEF WorkerTypes, Ids

\* An empty queue and an idle pool satisfy the invariants.
LEMMA InvInit == Init => WorkerInv /\ Timing /\ NeverEarly
<1> SUFFICES ASSUME Init PROVE WorkerInv /\ Timing /\ NeverEarly
  OBVIOUS
<1> USE DEF Init
<1>1. Scheduled = {}
  BY DEF Scheduled
<1>2. \A w \in Pool : thread[w].pc = "top"
  BY DEF AtTop
<1>3. \A c \in Callers : caller[c].pc = "idle"
  BY DEF IdleCaller
<1>4. Readers = {}
  BY <1>3 DEF Readers
<1>5. WorkerTypes
  <2>1. Cardinality(Scheduled) = 0
    BY <1>1, FS_EmptySet
  <2>2. TypeOK
    BY PackagesCounted, BackgroundWorkerAssumption DEF TypeOK, Forever
  <2> QED
    BY <1>4, <2>1, <2>2 DEF WorkerTypes, ThreadState
<1>6. \A e : ~OnItsWay(e)
  BY <1>2, <1>3 DEF OnItsWay, Popped, Pushing
<1>7. EntriesRight /\ ReadersRight
  BY <1>4, <1>6 DEF EntriesRight, ReadersRight
<1>8. PackagesReached
  BY DEF PackagesReached
<1>9. Timing /\ NeverEarly
  BY <1>2 DEF Timing, NeverEarly
<1> QED
  BY <1>5, <1>7, <1>8, <1>9 DEF WorkerInv

-----------------------------------------------------------------------------
(* schedule.                                                               *)

\* A package is stored: the new id is above all ids under way, and the calls
\* about to read the counter have overlapped with this one.
LEMMA StoreKeeps ==
    ASSUME WorkerInv, NEW c \in Callers, NEW p \in Packages, StorePackage(c, p)
    PROVE  WorkerInv'
<1> USE DEF WorkerInv
<1>1. PICK t \in Deadlines :
         /\ caller' = [caller EXCEPT ![c] = [pc |-> "read", deadline |-> t, meant |-> p]]
         /\ deadlineOf' = [deadlineOf EXCEPT ![p] = t]
  BY DEF StorePackage
<1>2. /\ caller[c].pc = "idle" /\ deadlineOf[p] = Forever
      /\ mPackageIdCounter' = mPackageIdCounter + 1
      /\ mPackages' = [mPackages EXCEPT ![mPackageIdCounter + 1] = p]
      /\ UNCHANGED <<now, mPackageQueue, mRunning, callback, thread, woken, deliveredAt>>
  BY DEF StorePackage
<1>3. overlapped' = IF Readers = {} THEN overlapped
                    ELSE overlapped \cup {p} \cup {caller[d].meant : d \in Readers}
  BY DEF StorePackage
<1>4. /\ mPackageIdCounter + 1 \in Ids
      /\ mPackageIdCounter + 1 = Cardinality(Scheduled \cup {p}) /\ mPackageIdCounter \in Nat
  <2>1. mPackageIdCounter \in Nat
    BY PackagesCounted DEF WorkerTypes, TypeOK
  <2> QED
    BY <1>2, <2>1, IdLeft
<1>5. deadlineOf \in [Packages -> Deadlines \cup {Forever}] /\ t # Forever
  BY BackgroundWorkerAssumption DEF WorkerTypes, TypeOK
<1>6. /\ deadlineOf' \in [Packages -> Deadlines \cup {Forever}] /\ deadlineOf'[p] = t
      /\ \A q \in Packages : q # p => deadlineOf'[q] = deadlineOf[q]
  BY <1>1, <1>5
<1>7. mPackages \in [Ids -> Packages \cup {NoPackage}]
  BY DEF WorkerTypes, TypeOK
<1>8. /\ mPackages' \in [Ids -> Packages \cup {NoPackage}]
      /\ mPackages'[mPackageIdCounter + 1] = p
      /\ \A id \in Ids : id # mPackageIdCounter + 1 => mPackages'[id] = mPackages[id]
  BY <1>2, <1>4, <1>7
<1>9. Scheduled' = Scheduled \cup {p}
  BY <1>5, <1>6 DEF Scheduled
<1>10. /\ caller' \in [Callers -> {IdleCaller} \cup ReadingCaller \cup PushingCaller]
       /\ caller'[c].pc = "read" /\ caller'[c].deadline = t /\ caller'[c].meant = p
       /\ \A d \in Callers : d # c => caller'[d] = caller[d]
  BY <1>1 DEF WorkerTypes, ReadingCaller
<1>11. Readers' = Readers \cup {c} /\ c \notin Readers
  BY <1>2, <1>10 DEF Readers
<1>12. \A d \in Readers : caller[d].meant \in Packages /\ caller'[d] = caller[d]
  BY <1>10, <1>11, ReaderFields DEF Readers
<1>13. /\ overlapped \subseteq overlapped' /\ overlapped' \subseteq Packages
       /\ Readers # {} => p \in overlapped' /\ \A d \in Readers : caller[d].meant \in overlapped'
  <2>1. overlapped \subseteq Packages
    BY DEF WorkerTypes, TypeOK
  <2>2. CASE Readers = {}
    BY <1>3, <2>1, <2>2
  <2>3. CASE Readers # {}
    BY <1>3, <1>12, <2>1, <2>3
  <2> QED
    BY <2>2, <2>3
<1>14. WorkerTypes'
  <2>1. mPackageIdCounter' \in 0 .. Cardinality(Packages)
    BY <1>2, <1>4, PackagesCounted DEF Ids
  <2>2. TypeOK'
    BY <1>2, <1>6, <1>8, <1>13, <2>1 DEF WorkerTypes, TypeOK, Waiting
  <2> QED
    BY <1>2, <1>4, <1>9, <1>10, <2>2 DEF WorkerTypes
<1>15. \A e : OnItsWay(e)' <=> OnItsWay(e)
  <2>1. \A e : Pushing(e)' <=> Pushing(e)
    BY <1>2, <1>10 DEF Pushing
  <2> QED
    BY <1>2, <2>1 DEF OnItsWay, Popped
<1>16. \A e \in Entry : OnItsWay(e) =>
          /\ e.meant # p /\ e.meant \in Packages /\ e.packageId \in Ids
          /\ e.packageId # mPackageIdCounter + 1 /\ e.packageId <= mPackageIdCounter + 1
  BY <1>2, <1>4, EntryFields DEF EntriesRight
<1>17. \A d \in Readers : caller[d].meant # p
  <2>1. \A d \in Readers : caller[d].deadline # Forever
    BY ReaderFields, BackgroundWorkerAssumption DEF Readers
  <2> QED
    BY <1>2, <2>1 DEF ReadersRight
<1>18. EntriesRight'
  <2>1. ASSUME NEW e \in Entry, OnItsWay(e)
        PROVE  /\ e.packageId <= mPackageIdCounter' /\ deadlineOf'[e.meant] = e.deadline
               /\ mPackages'[e.packageId] \in {NoPackage, e.meant} \cup overlapped'
    <3>1. /\ deadlineOf[e.meant] = e.deadline
          /\ mPackages[e.packageId] \in {NoPackage, e.meant} \cup overlapped
      BY <2>1 DEF EntriesRight
    <3> QED
      BY <1>2, <1>6, <1>8, <1>13, <1>16, <2>1, <3>1
  <2>2. \A e, f \in Entry : OnItsWay(e) /\ OnItsWay(f) /\ e.meant = f.meant => e = f
    BY DEF EntriesRight
  <2> QED
    BY <1>15, <2>1, <2>2 DEF EntriesRight
<1>19. \A id \in Ids : mPackages[id] # p
  BY <1>2, BackgroundWorkerAssumption DEF PackagesReached
<1>20. ReadersRight'
  <2> SUFFICES ASSUME NEW d \in Readers'
               PROVE  /\ deadlineOf'[caller'[d].meant] = caller'[d].deadline
                      /\ mPackages'[mPackageIdCounter'] \in {NoPackage, caller'[d].meant} \cup overlapped'
                      /\ \A e \in Entry : OnItsWay(e)' => e.meant # caller'[d].meant
                      /\ \A x \in Readers' : caller'[d].meant = caller'[x].meant => d = x
                      /\ caller'[d].meant \notin overlapped' =>
                            \A id \in Ids : mPackages'[id] = caller'[d].meant => id = mPackageIdCounter'
    BY DEF ReadersRight
  <2>1. CASE d = c
    <3>1. \A x \in Readers' : caller'[d].meant = caller'[x].meant => d = x
      BY <1>10, <1>11, <1>12, <1>17, <2>1
    <3>2. \A id \in Ids : mPackages'[id] = p => id = mPackageIdCounter + 1
      BY <1>8, <1>19
    <3> QED
      BY <1>2, <1>6, <1>8, <1>10, <1>15, <1>16, <2>1, <3>1, <3>2
  <2>2. CASE d # c
    <3>1. d \in Readers /\ caller'[d] = caller[d] /\ caller[d].meant \in Packages
      BY <1>11, <1>12, <2>2
    <3>2. caller[d].meant # p /\ deadlineOf[caller[d].meant] = caller[d].deadline
      BY <1>17, <3>1 DEF ReadersRight
    <3>3. \A e \in Entry : OnItsWay(e) => e.meant # caller[d].meant
      BY <3>1 DEF ReadersRight
    <3>4. \A x \in Readers' : caller'[d].meant = caller'[x].meant => d = x
      <4>1. \A x \in Readers : caller[d].meant = caller[x].meant => d = x
        BY <3>1 DEF ReadersRight
      <4> QED
        BY <1>10, <1>11, <1>12, <3>1, <3>2, <4>1
    <3>5. caller[d].meant \in overlapped' /\ p \in overlapped'
      BY <1>13, <3>1
    <3> QED
      BY <1>2, <1>6, <1>8, <1>15, <3>1, <3>2, <3>3, <3>4, <3>5
  <2> QED
    BY <2>1, <2>2
<1>21. PackagesReached'
  <2>1. ASSUME NEW id \in Ids, mPackages'[id] # NoPackage
        PROVE  deadlineOf'[mPackages'[id]] # Forever
    <3>1. CASE id = mPackageIdCounter + 1
      BY <1>5, <1>6, <1>8, <3>1
    <3>2. CASE id # mPackageIdCounter + 1
      <4>1. mPackages'[id] = mPackages[id] /\ mPackages[id] \in Packages
        BY <1>7, <1>8, <2>1, <3>2
      <4> QED
        BY <1>6, <1>19, <2>1, <4>1 DEF PackagesReached
    <3> QED
      BY <3>1, <3>2
  <2>2. ASSUME callback, NEW id \in Ids, mPackages'[id] \notin overlapped' \cup {NoPackage}
        PROVE  \/ \E e \in Entry : OnItsWay(e)' /\ e.packageId = id
               \/ \E d \in Readers' : caller'[d].meant = mPackages'[id]
    <3>1. CASE id = mPackageIdCounter + 1
      BY <1>8, <1>10, <1>11, <3>1
    <3>2. CASE id # mPackageIdCounter + 1
      <4>1. mPackages'[id] = mPackages[id] /\ mPackages[id] \notin overlapped \cup {NoPackage}
        BY <1>8, <1>13, <2>2, <3>2
      <4> QED
        BY <1>11, <1>12, <1>15, <2>2, <4>1 DEF PackagesReached
    <3> QED
      BY <3>1, <3>2
  <2> QED
    BY <1>2, <2>1, <2>2 DEF PackagesReached
<1> QED
  BY <1>14, <1>18, <1>20, <1>21

\* The counter is read: it is the id of the package, or the call overlapped.
LEMMA ReadKeeps ==
    ASSUME WorkerInv, NEW c \in Callers, ReadCounter(c)
    PROVE  WorkerInv'
<1> USE DEF WorkerInv
<1> DEFINE new == [deadline |-> caller[c].deadline, packageId |-> mPackageIdCounter,
                   meant |-> caller[c].meant]
<1>1. /\ caller[c].pc = "read" /\ c \in Readers
      /\ caller' = [caller EXCEPT ![c] = [pc |-> "push", entry |-> new]]
  BY DEF ReadCounter, Readers
<1>2. UNCHANGED <<now, mPackageIdCounter, mPackages, mPackageQueue, mRunning, callback,
                  thread, woken, deadlineOf, deliveredAt, overlapped>>
  BY DEF ReadCounter, queueVars, ghostVars
<1>3. /\ caller[c].deadline \in Deadlines /\ caller[c].meant \in Packages
      /\ mPackageIdCounter \in Ids /\ mPackageIdCounter \in Nat
      /\ deadlineOf[caller[c].meant] = caller[c].deadline
      /\ mPackages[mPackageIdCounter] \in {NoPackage, caller[c].meant} \cup overlapped
  BY <1>1, ReaderFields, PackagesCounted DEF ReadersRight, WorkerTypes, Ids
<1>4. /\ new \in Entry /\ new.packageId = mPackageIdCounter
      /\ new.meant = caller[c].meant /\ new.deadline = caller[c].deadline
  BY <1>3 DEF Entry
<1> HIDE DEF new
<1>5. /\ caller' \in [Callers -> {IdleCaller} \cup ReadingCaller \cup PushingCaller]
      /\ caller'[c].pc = "push" /\ caller'[c].entry = new
      /\ \A d \in Callers : d # c => caller'[d] = caller[d]
  BY <1>1, <1>4 DEF WorkerTypes, PushingCaller
<1>6. Readers' = Readers \ {c} /\ \A d \in Readers' : caller'[d] = caller[d]
  BY <1>5 DEF Readers
<1>7. \A e : OnItsWay(e)' <=> OnItsWay(e) \/ e = new
  <2>1. \A e : Pushing(e)' <=> Pushing(e) \/ e = new
    BY <1>1, <1>5 DEF Pushing
  <2> QED
    BY <1>2, <2>1 DEF OnItsWay, Popped
<1>8. WorkerTypes'
  <2>1. TypeOK' /\ Scheduled' = Scheduled
    BY <1>2 DEF WorkerTypes, TypeOK, Waiting, Scheduled
  <2> QED
    BY <1>2, <1>3, <1>5, <2>1 DEF WorkerTypes
<1>9. EntriesRight'
  <2>1. ASSUME NEW e \in Entry, OnItsWay(e)'
        PROVE  /\ e.packageId <= mPackageIdCounter /\ deadlineOf[e.meant] = e.deadline
               /\ mPackages[e.packageId] \in {NoPackage, e.meant} \cup overlapped
    <3>1. CASE OnItsWay(e)
      BY <3>1 DEF EntriesRight
    <3>2. CASE e = new
      BY <1>3, <1>4, <3>2
    <3> QED
      BY <1>7, <2>1, <3>1, <3>2
  <2>2. \A e, f \in Entry : OnItsWay(e)' /\ OnItsWay(f)' /\ e.meant = f.meant => e = f
    <3>1. \A e \in Entry : OnItsWay(e) => e.meant # new.meant
      BY <1>1, <1>4 DEF ReadersRight
    <3> QED
      BY <1>7, <3>1 DEF EntriesRight
  <2> QED
    BY <1>2, <2>1, <2>2 DEF EntriesRight
<1>10. ReadersRight'
  <2>1. \A d \in Readers' : d \in Readers /\ caller[d].meant # new.meant
    BY <1>1, <1>4, <1>6 DEF ReadersRight
  <2> QED
    BY <1>2, <1>6, <1>7, <2>1 DEF ReadersRight
<1>11. PackagesReached'
  <2>1. ASSUME callback, NEW id \in Ids, mPackages[id] \notin overlapped \cup {NoPackage}
        PROVE  \/ \E e \in Entry : OnItsWay(e)' /\ e.packageId = id
               \/ \E d \in Readers' : caller'[d].meant = mPackages[id]
    <3>1. CASE \E e \in Entry : OnItsWay(e) /\ e.packageId = id
      BY <1>7, <3>1
    <3>2. ASSUME NEW d \in Readers, caller[d].meant = mPackages[id], d # c
          PROVE  \E x \in Readers' : caller'[x].meant = mPackages[id]
      BY <1>6, <3>2
    <3>3. ASSUME caller[c].meant = mPackages[id]
          PROVE  new.packageId = id
      BY <1>1, <1>4, <2>1, <3>3 DEF ReadersRight
    <3> QED
      BY <1>4, <1>7, <2>1, <3>1, <3>2, <3>3 DEF PackagesReached
  <2> QED
    BY <1>2, <2>1 DEF PackagesReached
<1> QED
  BY <1>8, <1>9, <1>10, <1>11

\* The entry is pushed.
LEMMA PushKeeps ==
    ASSUME WorkerInv, NEW c \in Callers, PushEntry(c)
    PROVE  WorkerInv'
<1> USE DEF WorkerInv
<1>0. PICK new : new = caller[c].entry
  OBVIOUS
<1>1. /\ caller[c].pc = "push" /\ mPackageQueue' = mPackageQueue \cup {new}
      /\ woken' = woken \cup Waiting /\ caller' = [caller EXCEPT ![c] = IdleCaller]
  BY <1>0 DEF PushEntry
<1>2. UNCHANGED <<now, mPackageIdCounter, mPackages, mRunning, callback, thread,
                  deadlineOf, deliveredAt, overlapped>>
  BY DEF PushEntry, ghostVars
<1>3. new \in Entry
  BY <1>0, <1>1, PushingEntry
<1>4. /\ caller' \in [Callers -> {IdleCaller} \cup ReadingCaller \cup PushingCaller]
      /\ caller'[c].pc = "idle" /\ \A d \in Callers : d # c => caller'[d] = caller[d]
  BY <1>1 DEF WorkerTypes, IdleCaller
<1>5. Readers' = Readers /\ \A d \in Readers : caller'[d] = caller[d]
  BY <1>1, <1>4 DEF Readers
<1>6. \A e : OnItsWay(e)' <=> OnItsWay(e)
  <2>1. \A e : e = new \/ (Pushing(e)' <=> Pushing(e))
    BY <1>0, <1>1, <1>4 DEF Pushing
  <2>2. OnItsWay(new) /\ OnItsWay(new)'
    BY <1>0, <1>1 DEF OnItsWay, Pushing
  <2>3. \A e : e = new \/ (e \in mPackageQueue' <=> e \in mPackageQueue)
    BY <1>1
  <2>4. \A e : Popped(e)' <=> Popped(e)
    BY <1>2 DEF Popped
  <2>5. ASSUME NEW e PROVE OnItsWay(e)' <=> OnItsWay(e)
    <3>1. CASE e = new
      BY <2>2, <3>1
    <3>2. CASE e # new
      BY <2>1, <2>3, <2>4, <3>2 DEF OnItsWay
    <3> QED
      BY <3>1, <3>2
  <2> QED
    BY <2>5
<1>7. WorkerTypes'
  <2>1. TypeOK' /\ Scheduled' = Scheduled
    BY <1>1, <1>2, <1>3 DEF WorkerTypes, TypeOK, Waiting, Scheduled
  <2> QED
    BY <1>2, <1>4, <1>5, <2>1 DEF WorkerTypes
<1>8. EntriesRight'
  BY <1>2, <1>6 DEF EntriesRight
<1>9. ReadersRight'
  BY <1>2, <1>5, <1>6 DEF ReadersRight
<1>10. PackagesReached'
  BY <1>2, <1>5, <1>6 DEF PackagesReached
<1> QED
  BY <1>7, <1>8, <1>9, <1>10

-----------------------------------------------------------------------------
(* loop.                                                                   *)

\* What a round of the loop changes: the thread waits, ends, goes back to the
\* top, or takes over an entry from the queue.
LEMMA LoopStep ==
    ASSUME WorkerTypes, NEW w \in Pool, EnterLoop(w) \/ WakeUp(w) \/ TimeOut(w)
    PROVE  /\ thread[w].pc # "popped" /\ woken' = woken \ {w}
           /\ UNCHANGED <<now, mPackageIdCounter, mPackages, mRunning, callback, caller,
                          deadlineOf, deliveredAt, overlapped>>
           /\ \E r \in ThreadState :
                 /\ thread' = [thread EXCEPT ![w] = r]
                 /\ \/ r.pc # "popped" /\ mPackageQueue' = mPackageQueue
                    \/ /\ r.pc = "popped" /\ r.entry \in mPackageQueue
                       /\ mPackageQueue' = mPackageQueue \ {r.entry}
<1>1. thread[w].pc # "popped" /\ (AfterWait(w) \/ WaitOn(w))
  BY DEF EnterLoop, WakeUp, TimeOut
<1>2. mPackageQueue \subseteq Entry
  BY DEF WorkerTypes, TypeOK
<1>3. CASE WaitOn(w)
  <2>1. PICK t \in nextDeadline : thread' = [thread EXCEPT ![w] = [pc |-> "waiting", until |-> t]]
    BY <1>3 DEF WaitOn
  <2>2. t \in Nat
    <3>1. CASE mPackageQueue = {}
      BY <3>1, BackgroundWorkerAssumption DEF nextDeadline, Forever
    <3>2. CASE mPackageQueue # {}
      <4>1. PICK e \in mPackageQueue : t = e.deadline
        BY <3>2 DEF nextDeadline
      <4> QED
        BY <1>2, <4>1, EntryFields
    <3> QED
      BY <3>1, <3>2
  <2>3. [pc |-> "waiting", until |-> t] \in ThreadState
    BY <2>2 DEF ThreadState
  <2>4. mPackageQueue' = mPackageQueue /\ woken' = woken \ {w}
        /\ UNCHANGED <<now, mPackageIdCounter, mPackages, mRunning, callback, caller,
                       deadlineOf, deliveredAt, overlapped>>
    BY <1>3 DEF WaitOn, queueVars, ghostVars
  <2> QED
    BY <1>1, <2>1, <2>3, <2>4
<1>4. CASE AfterWait(w)
  <2>1. woken' = woken \ {w} /\ UNCHANGED <<now, mPackageIdCounter, mPackages, mRunning,
                                            callback, caller, deadlineOf, deliveredAt, overlapped>>
    BY <1>4 DEF AfterWait, ghostVars
  <2>2. [pc |-> "done"] \in ThreadState /\ AtTop \in ThreadState /\ AtTop.pc # "popped"
    BY DEF ThreadState, AtTop
  <2>3. CASE \E e \in mPackageQueue :
                /\ mPackageQueue' = mPackageQueue \ {e}
                /\ thread' = [thread EXCEPT ![w] = [pc |-> "popped", entry |-> e]]
    <3>1. PICK e \in mPackageQueue :
             /\ mPackageQueue' = mPackageQueue \ {e}
             /\ thread' = [thread EXCEPT ![w] = [pc |-> "popped", entry |-> e]]
      BY <2>3
    <3>2. [pc |-> "popped", entry |-> e] \in ThreadState
      BY <1>2 DEF ThreadState
    <3> QED
      BY <1>1, <2>1, <3>1, <3>2
  <2>4. CASE thread' = [thread EXCEPT ![w] = [pc |-> "done"]] /\ UNCHANGED mPackageQueue
    BY <1>1, <2>1, <2>2, <2>4
  <2>5. CASE thread' = [thread EXCEPT ![w] = AtTop] /\ UNCHANGED mPackageQueue
    BY <1>1, <2>1, <2>2, <2>5
  <2> QED
    BY <1>4, <2>3, <2>4, <2>5 DEF AfterWait
<1> QED
  BY <1>1, <1>3, <1>4

\* A round of the loop keeps every entry on its way.
LEMMA LoopKeeps ==
    ASSUME WorkerInv, NEW w \in Pool, EnterLoop(w) \/ WakeUp(w) \/ TimeOut(w)
    PROVE  WorkerInv'
<1> USE DEF WorkerInv
<1>1. /\ thread[w].pc # "popped" /\ woken' = woken \ {w}
      /\ UNCHANGED <<now, mPackageIdCounter, mPackages, mRunning, callback, caller,
                     deadlineOf, deliveredAt, overlapped>>
  BY LoopStep
<1>2. PICK r \in ThreadState :
         /\ thread' = [thread EXCEPT ![w] = r]
         /\ \/ r.pc # "popped" /\ mPackageQueue' = mPackageQueue
            \/ /\ r.pc = "popped" /\ r.entry \in mPackageQueue
               /\ mPackageQueue' = mPackageQueue \ {r.entry}
  BY LoopStep
<1>3. /\ thread' \in [Pool -> ThreadState] /\ thread'[w] = r
      /\ \A v \in Pool : v # w => thread'[v] = thread[v]
  BY <1>2 DEF WorkerTypes
<1>4. Readers' = Readers /\ \A e : Pushing(e)' <=> Pushing(e)
  BY <1>1 DEF Readers, Pushing
<1>5. \A e : OnItsWay(e)' <=> OnItsWay(e)
  <2>1. CASE r.pc # "popped" /\ mPackageQueue' = mPackageQueue
    <3>1. \A e : Popped(e)' <=> Popped(e)
      BY <1>1, <1>3, <2>1 DEF Popped
    <3> QED
      BY <1>4, <2>1, <3>1 DEF OnItsWay
  <2>2. CASE /\ r.pc = "popped" /\ r.entry \in mPackageQueue
             /\ mPackageQueue' = mPackageQueue \ {r.entry}
    <3>1. \A e : Popped(e)' <=> Popped(e) \/ e = r.entry
      BY <1>1, <1>3, <2>2 DEF Popped
    <3> QED
      BY <1>4, <2>2, <3>1 DEF OnItsWay
  <2> QED
    BY <1>2, <2>1, <2>2
<1>6. WorkerTypes'
  <2>1. woken' \subseteq Waiting'
    BY <1>1, <1>3 DEF WorkerTypes, TypeOK, Waiting
  <2>2. mPackageQueue' \subseteq Entry
    BY <1>2 DEF WorkerTypes, TypeOK
  <2>3. TypeOK' /\ Scheduled' = Scheduled
    BY <1>1, <2>1, <2>2 DEF WorkerTypes, TypeOK, Scheduled
  <2> QED
    BY <1>1, <1>3, <1>4, <2>3 DEF WorkerTypes
<1>7. EntriesRight'
  BY <1>1, <1>5 DEF EntriesRight
<1>8. ReadersRight'
  BY <1>1, <1>4, <1>5 DEF ReadersRight
<1>9. PackagesReached'
  BY <1>1, <1>4, <1>5 DEF PackagesReached
<1> QED
  BY <1>6, <1>7, <1>8, <1>9

\* What process does: the entry leads to no package, or that package leaves the
\* map and is delivered now.
LEMMA ProcessStep ==
    ASSUME WorkerTypes, NEW w \in Pool, Process(w), NEW e, e = thread[w].entry
    PROVE  /\ e \in Entry /\ Popped(e) /\ thread[w].pc = "popped"
           /\ thread' \in [Pool -> ThreadState] /\ thread'[w].pc = "top"
           /\ \A v \in Pool : v # w => thread'[v] = thread[v]
           /\ UNCHANGED <<now, mPackageIdCounter, mPackageQueue, mRunning, callback, caller,
                          woken, deadlineOf, overlapped>>
           /\ mPackages' \in [Ids -> Packages \cup {NoPackage}]
           /\ \A k \in Ids : mPackages'[k] # mPackages[k] => mPackages'[k] = NoPackage
           /\ callback => mPackages'[e.packageId] = NoPackage
           /\ deliveredAt' \in [Packages -> 0 .. Forever]
           /\ \A q \in Packages : deliveredAt'[q] # deliveredAt[q] =>
                 q = mPackages[e.packageId] /\ deliveredAt'[q] = now
<1> DEFINE id == e.packageId
           p == mPackages[id]
<1>1. /\ thread[w].pc = "popped" /\ thread' = [thread EXCEPT ![w] = AtTop]
      /\ UNCHANGED <<now, mPackageIdCounter, mPackageQueue, mRunning, callback, caller,
                     woken, deadlineOf, overlapped>>
  BY DEF Process
<1>2. \/ /\ callback /\ p # NoPackage
         /\ mPackages' = [mPackages EXCEPT ![id] = NoPackage]
         /\ deliveredAt' = [deliveredAt EXCEPT ![p] = now]
      \/ /\ ~(callback /\ p # NoPackage)
         /\ mPackages' = mPackages /\ deliveredAt' = deliveredAt
  BY DEF Process
<1>3. e \in Entry /\ Popped(e) /\ id \in Ids
  BY <1>1, PoppedEntry, EntryFields DEF Popped
<1>4. /\ now \in 0 .. Forever /\ mPackages \in [Ids -> Packages \cup {NoPackage}]
      /\ deliveredAt \in [Packages -> 0 .. Forever]
  BY BackgroundWorkerAssumption DEF WorkerTypes, TypeOK, Forever
<1> HIDE DEF id
<1>5. /\ mPackages' \in [Ids -> Packages \cup {NoPackage}]
      /\ \A k \in Ids : mPackages'[k] # mPackages[k] => mPackages'[k] = NoPackage
      /\ callback => mPackages'[id] = NoPackage
  BY <1>2, <1>3, <1>4
<1>6. /\ deliveredAt' \in [Packages -> 0 .. Forever]
      /\ \A q \in Packages : deliveredAt'[q] # deliveredAt[q] => q = p /\ deliveredAt'[q] = now
  BY <1>2, <1>3, <1>4
<1>7. /\ thread' \in [Pool -> ThreadState] /\ thread'[w].pc = "top"
      /\ \A v \in Pool : v # w => thread'[v] = thread[v]
  BY <1>1 DEF WorkerTypes, ThreadState, AtTop
<1> QED
  BY <1>1, <1>3, <1>5, <1>6, <1>7 DEF id

\* The entry processed is gone, and so is the package it led to.
LEMMA ProcessKeeps ==
    ASSUME WorkerInv, NEW w \in Pool, Process(w)
    PROVE  WorkerInv'
<1> USE DEF WorkerInv
<1>1. PICK e : e = thread[w].entry
  OBVIOUS
<1>2. /\ e \in Entry /\ Popped(e) /\ thread[w].pc = "popped"
      /\ thread' \in [Pool -> ThreadState] /\ thread'[w].pc = "top"
      /\ \A v \in Pool : v # w => thread'[v] = thread[v]
      /\ UNCHANGED <<now, mPackageIdCounter, mPackageQueue, mRunning, callback, caller,
                     woken, deadlineOf, overlapped>>
  BY <1>1, ProcessStep
<1>3. /\ mPackages' \in [Ids -> Packages \cup {NoPackage}]
      /\ \A k \in Ids : mPackages'[k] # mPackages[k] => mPackages'[k] = NoPackage
      /\ callback => mPackages'[e.packageId] = NoPackage
      /\ deliveredAt' \in [Packages -> 0 .. Forever]
  BY <1>1, ProcessStep
<1>4. Readers' = Readers /\ \A f : Pushing(f)' <=> Pushing(f)
  BY <1>2 DEF Readers, Pushing
<1>5. \A f : (OnItsWay(f)' => OnItsWay(f)) /\ (OnItsWay(f) => OnItsWay(f)' \/ f = e)
  <2>1. \A f : (Popped(f)' => Popped(f)) /\ (Popped(f) => Popped(f)' \/ f = e)
    BY <1>1, <1>2 DEF Popped
  <2> QED
    BY <1>2, <1>4, <2>1 DEF OnItsWay
<1>6. WorkerTypes'
  <2>1. woken' \subseteq Waiting'
    BY <1>2 DEF WorkerTypes, TypeOK, Waiting
  <2>2. TypeOK' /\ Scheduled' = Scheduled
    BY <1>2, <1>3, <2>1 DEF WorkerTypes, TypeOK, Scheduled
  <2> QED
    BY <1>2, <1>4, <2>2 DEF WorkerTypes
<1>7. EntriesRight'
  <2>1. ASSUME NEW f \in Entry, OnItsWay(f)'
        PROVE  mPackages'[f.packageId] \in {NoPackage, f.meant} \cup overlapped
    BY <1>3, <1>5, <2>1, EntryFields DEF EntriesRight
  <2> QED
    BY <1>2, <1>5, <2>1 DEF EntriesRight
<1>8. ReadersRight'
  <2>1. Readers # {} => mPackageIdCounter \in Ids
    BY DEF WorkerTypes
  <2>2. \A c \in Readers : mPackages'[mPackageIdCounter] \in {NoPackage, caller[c].meant} \cup overlapped
    BY <1>3, <2>1 DEF ReadersRight
  <2>3. ASSUME NEW c \in Readers, caller[c].meant \notin overlapped,
               NEW id \in Ids, mPackages'[id] = caller[c].meant
        PROVE  id = mPackageIdCounter
    <3>1. caller[c].meant # NoPackage
      BY ReaderFields, BackgroundWorkerAssumption DEF Readers
    <3>2. mPackages[id] = caller[c].meant
      BY <1>3, <2>3, <3>1
    <3> QED
      BY <2>3, <3>2 DEF ReadersRight
  <2> QED
    BY <1>2, <1>4, <1>5, <2>2, <2>3 DEF ReadersRight
<1>9. PackagesReached'
  <2>1. \A k \in Ids : mPackages'[k] # NoPackage => mPackages'[k] = mPackages[k]
    BY <1>3
  <2>2. ASSUME callback, NEW k \in Ids, mPackages'[k] \notin overlapped \cup {NoPackage}
        PROVE  \/ \E f \in Entry : OnItsWay(f)' /\ f.packageId = k
               \/ \E c \in Readers : caller[c].meant = mPackages'[k]
    <3>1. k # e.packageId /\ mPackages'[k] = mPackages[k]
      BY <1>3, <2>1, <2>2
    <3> QED
      BY <1>5, <2>2, <3>1 DEF PackagesReached
  <2> QED
    BY <1>2, <1>4, <2>1, <2>2 DEF PackagesReached
<1> QED
  BY <1>6, <1>7, <1>8, <1>9

-----------------------------------------------------------------------------

\* What the destructors and the clock may change.
LEMMA OthersStep ==
    ASSUME WorkerTypes, RemoveCallback \/ Shutdown \/ Tick \/ UNCHANGED vars
    PROVE  /\ UNCHANGED <<mPackageIdCounter, mPackages, mPackageQueue, caller, thread,
                          deadlineOf, deliveredAt, overlapped>>
           /\ callback' = callback \/ callback' = FALSE
           /\ mRunning' = mRunning \/ mRunning' = FALSE
           /\ woken' = woken \/ woken' = woken \cup Waiting
           /\ now \in 0 .. MaxTime /\ now' \in 0 .. MaxTime /\ now <= now'
<1>1. now \in 0 .. MaxTime
  BY DEF WorkerTypes, TypeOK
<1>2. now' = now \/ (now < MaxTime /\ now' = now + 1)
  BY DEF RemoveCallback, Shutdown, Tick, vars
<1>3. now' \in 0 .. MaxTime /\ now <= now'
  BY <1>1, <1>2, BackgroundWorkerAssumption
<1>4. UNCHANGED <<mPackageIdCounter, mPackages, mPackageQueue, caller, thread,
                  deadlineOf, deliveredAt, overlapped>>
  BY DEF RemoveCallback, Shutdown, Tick, vars, queueVars, ghostVars
<1>5. /\ callback' = callback \/ callback' = FALSE
      /\ mRunning' = mRunning \/ mRunning' = FALSE
      /\ woken' = woken \/ woken' = woken \cup Waiting
  BY DEF RemoveCallback, Shutdown, Tick, vars
<1> QED
  BY <1>1, <1>3, <1>4, <1>5

\* Removing the callback, shutting down and time passing move no entry.
LEMMA OthersKeep ==
    ASSUME WorkerInv, RemoveCallback \/ Shutdown \/ Tick \/ UNCHANGED vars
    PROVE  WorkerInv'
<1> USE DEF WorkerInv
<1>1. /\ UNCHANGED <<mPackageIdCounter, mPackages, mPackageQueue, caller, thread,
                     deadlineOf, deliveredAt, overlapped>>
      /\ callback' = callback \/ callback' = FALSE
      /\ mRunning' = mRunning \/ mRunning' = FALSE
      /\ woken' = woken \/ woken' = woken \cup Waiting
      /\ now' \in 0 .. MaxTime
  BY OthersStep
<1>2. WorkerTypes'
  <2>1. callback' \in BOOLEAN /\ mRunning' \in BOOLEAN
    BY <1>1 DEF WorkerTypes, TypeOK
  <2>2. woken' \subseteq Waiting'
    BY <1>1 DEF WorkerTypes, TypeOK, Waiting
  <2>3. Scheduled' = Scheduled /\ Readers' = Readers
    BY <1>1 DEF Scheduled, Readers
  <2>4. TypeOK'
    BY <1>1, <2>1, <2>2 DEF WorkerTypes, TypeOK
  <2> QED
    BY <1>1, <2>3, <2>4 DEF WorkerTypes
<1>3. Readers' = Readers /\ \A e : OnItsWay(e)' <=> OnItsWay(e)
  BY <1>1 DEF Readers, Popped, Pushing, OnItsWay
<1>4. EntriesRight'
  BY <1>1, <1>3 DEF EntriesRight
<1>5. ReadersRight'
  BY <1>1, <1>3 DEF ReadersRight
<1>6. PackagesReached'
  BY <1>1, <1>3 DEF PackagesReached
<1> QED
  BY <1>2, <1>4, <1>5, <1>6

\* The invariant holds throughout, whatever the callers and the pool.
LEMMA WorkerAlways == Spec => []WorkerInv
<1>1. WorkerInv /\ [Next]_vars => WorkerInv'
  BY StoreKeeps, ReadKeeps, PushKeeps, LoopKeeps, ProcessKeeps, OthersKeep DEF Next
<1> QED
  BY <1>1, InvInit, PTL DEF Spec

-----------------------------------------------------------------------------
(* Deadlines, with one thread in the pool.                                 *)

\* wait_until has returned: whatever made it return, the first entry is due.
LEMMA AfterWaitTimed ==
    ASSUME OneThread, WorkerTypes, Timing, NEW w \in Pool, AfterWait(w),
           mRunning => \E e \in mPackageQueue : e.deadline <= now
    PROVE  Timing'
<1>1. now' = now /\ \A v \in Pool : v = w
  BY DEF AfterWait, OneThread
<1>2. thread \in [Pool -> ThreadState] /\ mPackageQueue \subseteq Entry /\ now \in Nat
  BY BackgroundWorkerAssumption DEF WorkerTypes, TypeOK
<1>3. CASE ~mRunning
  <2>1. thread' = [thread EXCEPT ![w] = [pc |-> "done"]]
    BY <1>3 DEF AfterWait
  <2>2. thread'[w].pc = "done"
    BY <1>2, <2>1
  <2> QED
    BY <1>1, <2>2 DEF Timing
<1>4. CASE mRunning
  <2>1. PICK e \in mPackageQueue :
           isTop(e) /\ thread' = [thread EXCEPT ![w] = [pc |-> "popped", entry |-> e]]
    BY <1>4 DEF AfterWait
  <2>2. PICK f \in mPackageQueue : f.deadline <= now
    BY <1>4
  <2>3. e.deadline <= f.deadline
    BY <2>1 DEF isTop
  <2>4. e.deadline \in Nat /\ f.deadline \in Nat
    BY <1>2, EntryFields
  <2>5. thread'[w].pc = "popped" /\ thread'[w].entry = e /\ e.deadline <= now
    BY <1>2, <2>1, <2>2, <2>3, <2>4
  <2> QED
    BY <1>1, <2>5 DEF Timing
<1> QED
  BY <1>3, <1>4

\* Entering the loop, being notified and timing out end in a wait for the first
\* entry, or pop an entry that is due, or end the thread.
LEMMA LoopTimed ==
    ASSUME OneThread, WorkerTypes, Timing, NEW w \in Pool,
           EnterLoop(w) \/ WakeUp(w) \/ TimeOut(w)
    PROVE  Timing'
<1>1. CASE WaitOn(w)
  <2>1. PICK t \in nextDeadline : thread' = [thread EXCEPT ![w] = [pc |-> "waiting", until |-> t]]
    BY <1>1 DEF WaitOn
  <2>2. mPackageQueue' = mPackageQueue /\ mPackageQueue \subseteq Entry /\ \A v \in Pool : v = w
    BY <1>1 DEF WaitOn, queueVars, WorkerTypes, TypeOK, OneThread
  <2>3. t = Forever \/ \E e \in mPackageQueue : e.deadline <= t
    <3>1. CASE mPackageQueue = {}
      BY <3>1 DEF nextDeadline
    <3>2. CASE mPackageQueue # {}
      <4>1. PICK e \in mPackageQueue : t = e.deadline
        BY <3>2 DEF nextDeadline
      <4>2. e.deadline \in Nat
        BY <2>2, EntryFields
      <4> QED
        BY <4>1, <4>2
    <3> QED
      BY <3>1, <3>2
  <2>4. thread'[w].pc = "waiting" /\ thread'[w].until = t
    BY <2>1 DEF WorkerTypes
  <2> QED
    BY <2>2, <2>3, <2>4 DEF Timing
<1>2. CASE AfterWait(w) /\ readyToWork
  BY <1>2, AfterWaitTimed DEF readyToWork
<1>3. CASE AfterWait(w) /\ thread[w].pc = "waiting" /\ thread[w].until <= now
  <2>1. thread[w].until \in Nat /\ now \in 0 .. MaxTime
    BY <1>3, WaitingUntil DEF WorkerTypes, TypeOK
  <2>2. thread[w].until # Forever
    BY <1>3, <2>1, BackgroundWorkerAssumption DEF Forever
  <2>3. PICK e \in mPackageQueue : e.deadline <= thread[w].until
    BY <1>3, <2>2 DEF Timing
  <2>4. e.deadline \in Nat
    BY EntryFields DEF WorkerTypes, TypeOK
  <2>5. e.deadline <= now
    BY <1>3, <2>1, <2>3, <2>4, BackgroundWorkerAssumption
  <2> QED
    BY <1>3, <2>5, AfterWaitTimed
<1> QED
  BY <1>1, <1>2, <1>3 DEF EnterLoop, WakeUp, TimeOut

\* A thread works on due entries only.
LEMMA TimingKept ==
    ASSUME OneThread, WorkerInv, Timing, [Next]_vars
    PROVE  Timing'
<1> USE DEF WorkerInv
<1>1. ASSUME NEW c \in Callers, NEW p \in Packages, StorePackage(c, p)
      PROVE  Timing'
  BY <1>1 DEF StorePackage, Timing
<1>2. ASSUME NEW c \in Callers, ReadCounter(c)
      PROVE  Timing'
  BY <1>2 DEF ReadCounter, queueVars, Timing
<1>3. ASSUME NEW c \in Callers, PushEntry(c)
      PROVE  Timing'
  BY <1>3 DEF PushEntry, Timing
<1>4. ASSUME NEW w \in Pool, Process(w)
      PROVE  Timing'
  <2>1. thread'[w].pc = "top" /\ \A v \in Pool : v = w
    BY <1>4, ProcessStep DEF OneThread
  <2> QED
    BY <2>1 DEF Timing
<1>5. CASE RemoveCallback \/ Shutdown \/ Tick \/ UNCHANGED vars
  <2>1. /\ UNCHANGED <<mPackageQueue, thread>>
        /\ now \in 0 .. MaxTime /\ now' \in 0 .. MaxTime /\ now <= now'
    BY <1>5, OthersStep
  <2>2. \A w \in Pool : thread[w].pc = "popped" => thread[w].entry.deadline \in Nat
    BY PoppedEntry, EntryFields
  <2> QED
    BY <2>1, <2>2, BackgroundWorkerAssumption DEF Timing
<1> QED
  BY <1>1, <1>2, <1>3, <1>4, <1>5, LoopTimed DEF Next

\* Only process delivers: the package its entry was made for, which is due, or
\* one whose call overlapped.
LEMMA NeverEarlyKept ==
    ASSUME WorkerInv, Timing, NeverEarly, [Next]_vars
    PROVE  NeverEarly'
<1> USE DEF WorkerInv
<1>1. ASSUME NEW c \in Callers, NEW p \in Packages, StorePackage(c, p)
      PROVE  NeverEarly'
  <2>1. /\ deadlineOf[p] = Forever /\ deliveredAt' = deliveredAt
        /\ \A q \in Packages : q # p => deadlineOf'[q] = deadlineOf[q]
    BY <1>1 DEF StorePackage, WorkerTypes, TypeOK
  <2>2. overlapped \subseteq overlapped'
    BY <1>1 DEF StorePackage
  <2> SUFFICES ASSUME NEW q \in Packages, q \notin overlapped', deliveredAt[q] # Forever
               PROVE  deadlineOf'[q] <= deliveredAt[q]
    BY <2>1 DEF NeverEarly
  <2>3. deadlineOf[q] <= deliveredAt[q] /\ deliveredAt[q] \in 0 .. Forever
    BY <2>2 DEF NeverEarly, WorkerTypes, TypeOK
  <2>4. deadlineOf[q] # Forever
    BY <2>3, BackgroundWorkerAssumption DEF Forever
  <2> QED
    BY <2>1, <2>3, <2>4
<1>2. ASSUME NEW w \in Pool, Process(w)
      PROVE  NeverEarly'
  <2>1. PICK e : e = thread[w].entry
    OBVIOUS
  <2>2. /\ e \in Entry /\ Popped(e) /\ thread[w].pc = "popped" /\ overlapped' = overlapped
        /\ deadlineOf' = deadlineOf
        /\ \A q \in Packages : deliveredAt'[q] # deliveredAt[q] =>
              q = mPackages[e.packageId] /\ deliveredAt'[q] = now
    BY <1>2, <2>1, ProcessStep
  <2>3. /\ deadlineOf[e.meant] = e.deadline /\ e.deadline <= now
        /\ mPackages[e.packageId] \in {NoPackage, e.meant} \cup overlapped
    BY <2>1, <2>2 DEF EntriesRight, OnItsWay, Timing
  <2> SUFFICES ASSUME NEW q \in Packages, q \notin overlapped, deliveredAt'[q] # Forever
               PROVE  deadlineOf[q] <= deliveredAt'[q]
    BY <2>2 DEF NeverEarly
  <2>4. CASE deliveredAt'[q] = deliveredAt[q]
    BY <2>4 DEF NeverEarly
  <2>5. CASE deliveredAt'[q] # deliveredAt[q]
    <3>1. q = e.meant /\ deliveredAt'[q] = now
      BY <2>2, <2>3, <2>5, BackgroundWorkerAssumption
    <3> QED
      BY <2>3, <3>1
  <2> QED
    BY <2>4, <2>5
<1>3. CASE UNCHANGED ghostVars
  BY <1>3 DEF NeverEarly, ghostVars
<1>4. ASSUME NEW w \in Pool, EnterLoop(w) \/ WakeUp(w) \/ TimeOut(w)
      PROVE  UNCHANGED ghostVars
  BY <1>4, LoopStep DEF ghostVars
<1>5. ASSUME NEW c \in Callers, ReadCounter(c) \/ PushEntry(c)
      PROVE  UNCHANGED ghostVars
  BY <1>5 DEF ReadCounter, PushEntry
<1>6. ASSUME RemoveCallback \/ Shutdown \/ Tick \/ UNCHANGED vars
      PROVE  UNCHANGED ghostVars
  BY <1>6, OthersStep DEF ghostVars
<1> QED
  BY <1>1, <1>2, <1>3, <1>4, <1>5, <1>6 DEF Next

-----------------------------------------------------------------------------

\* The variables of the deadline worker keep their types, however many threads
\* schedule at once and however large the pool: no id is used beyond the number
\* of packages, and only waiting threads are ever marked as notified.
THEOREM WorkerTypeCorrect == Spec => []TypeOK
<1>1. WorkerInv => TypeOK
  BY DEF WorkerInv, WorkerTypes
<1> QED
  BY <1>1, WorkerAlways, PTL

\* With the one pool thread of PowerSessionManager, and however calls of schedule
\* overlap, no package reaches the callback before its deadline unless its own
\* call overlapped with another.
THEOREM PackagesNeverEarly ==
    ASSUME OneThread
    PROVE  Spec => []NeverEarly
<1>1. WorkerInv /\ Timing /\ NeverEarly /\ [Next]_vars => Timing' /\ NeverEarly'
  BY TimingKept, NeverEarlyKept
<1> QED
  BY <1>1, InvInit, WorkerAlways, PTL DEF Spec

\* However calls of schedule overlap, every package stored by a call that did not
\* is led to by exactly one entry, made for it, or by its call about to make one.
THEOREM PackagesHaveOneEntry == Spec => []OneEntryEach
<1>1. WorkerInv => OneEntryEach
  <2> SUFFICES ASSUME WorkerInv, callback, NEW id \in Ids,
                      mPackages[id] \notin overlapped \cup {NoPackage}
               PROVE  \/ \E e \in EntriesFor(id) : EntriesFor(id) = {e} /\ e.meant = mPackages[id]
                      \/ EntriesFor(id) = {} /\ \E c \in Readers : caller[c].meant = mPackages[id]
    BY DEF OneEntryEach
  <2>1. \A e : e \in EntriesFor(id) <=> e \in Entry /\ OnItsWay(e) /\ e.packageId = id
    <3>1. mPackageQueue \subseteq Entry
      BY DEF WorkerInv, WorkerTypes, TypeOK
    <3>2. /\ \A w \in Pool : thread[w].pc = "popped" => thread[w].entry \in Entry
          /\ \A c \in Callers : caller[c].pc = "push" => caller[c].entry \in Entry
      BY PoppedEntry, PushingEntry DEF WorkerInv
    <3> QED
      BY <3>1, <3>2 DEF EntriesFor, OnItsWay, Popped, Pushing
  <2>2. \A e \in EntriesFor(id) : e.meant = mPackages[id]
    BY <2>1 DEF WorkerInv, EntriesRight
  <2>3. ASSUME NEW e \in EntriesFor(id)
        PROVE  EntriesFor(id) = {e} /\ e.meant = mPackages[id]
    <3>1. \A f \in EntriesFor(id) : f = e
      BY <2>1, <2>2 DEF WorkerInv, EntriesRight
    <3> QED
      BY <2>2, <3>1
  <2>4. ASSUME NEW c \in Readers, caller[c].meant = mPackages[id]
        PROVE  EntriesFor(id) = {}
    BY <2>1, <2>2, <2>4 DEF WorkerInv, ReadersRight
  <2> QED
    BY <2>1, <2>3, <2>4 DEF WorkerInv, PackagesReached
<1> QED
  BY <1>1, WorkerAlways, PTL

=============================================================================
