-------------------------- MODULE BackgroundWorker --------------------------
(***************************************************************************)
(* The deadline queue that carries the session timeouts                    *)
(* (BackgroundWorker.h and .cpp): TemplatePriorityQueueWorker keeps the    *)
(* packages under ids it counts, PriorityQueueWorkerPool keeps (deadline,  *)
(* id) entries and a pool of threads that wait for the earliest one.       *)
(*                                                                         *)
(* schedule is three steps: the package is stored under the worker's       *)
(* mutex; the counter is read anew, after that mutex has been released;    *)
(* and the entry is pushed under the pool's mutex.  A call that stores its *)
(* package while another is about to read the counter overlaps with it:    *)
(* the other then pushes the id of the wrong package.                      *)
(***************************************************************************)
EXTENDS Naturals, FiniteSets

CONSTANTS Packages,   \* packages, each scheduled at most once
          Callers,    \* threads that call schedule
          Pool,       \* threads of the pool
          Deadlines,  \* deadlines packages are scheduled for
          MaxTime,    \* bound on time
          NoPackage

Forever == MaxTime + 1    \* steady_clock::time_point::max()

ASSUME BackgroundWorkerAssumption ==
    /\ IsFiniteSet(Packages) /\ NoPackage \notin Packages
    /\ MaxTime \in Nat /\ Deadlines \subseteq Nat \ {Forever}

VARIABLES now,
          mPackageIdCounter,
          mPackages,      \* mPackages[id]: the package stored under id, or NoPackage
          mPackageQueue,  \* entries of the pool's priority queue
          mRunning,
          callback,       \* the worker's callback is in mCallbackMap
          caller,         \* what each caller is doing
          thread,         \* what each thread of the pool is doing
          woken,          \* the waiting threads that were notified
          deadlineOf,     \* the deadline each package was scheduled for
          deliveredAt,    \* when the callback got each package
          overlapped      \* the packages of calls that overlapped

queueVars == <<mPackageIdCounter, mPackages, mPackageQueue>>
ghostVars == <<deadlineOf, deliveredAt, overlapped>>
vars == <<now, queueVars, mRunning, callback, caller, thread, woken, ghostVars>>

Ids == 1 .. Cardinality(Packages)
Entry == [deadline : Deadlines, packageId : Ids, meant : Packages]

IdleCaller == [pc |-> "idle"]
AtTop == [pc |-> "top"]

Init ==
    /\ now = 0
    /\ mPackageIdCounter = 0
    /\ mPackages = [id \in Ids |-> NoPackage]
    /\ mPackageQueue = {}
    /\ mRunning = TRUE
    /\ callback = TRUE
    /\ caller = [c \in Callers |-> IdleCaller]
    /\ thread = [w \in Pool |-> AtTop]
    /\ woken = {}
    /\ deadlineOf = [p \in Packages |-> Forever]
    /\ deliveredAt = [p \in Packages |-> Forever]
    /\ overlapped = {}

Waiting == {w \in Pool : thread[w].pc = "waiting"}

-----------------------------------------------------------------------------
(* TemplatePriorityQueueWorker::schedule                                   *)

\* The callers that have stored a package and not yet read the counter.
Readers == {c \in Callers : caller[c].pc = "read"}

StorePackage(c, p) ==
    /\ caller[c].pc = "idle" /\ deadlineOf[p] = Forever
    /\ \E t \in Deadlines :
          /\ caller' = [caller EXCEPT ![c] = [pc |-> "read", deadline |-> t, meant |-> p]]
          /\ deadlineOf' = [deadlineOf EXCEPT ![p] = t]
    /\ mPackageIdCounter' = mPackageIdCounter + 1
    /\ mPackages' = [mPackages EXCEPT ![mPackageIdCounter + 1] = p]
    /\ overlapped' = IF Readers = {} THEN overlapped
                     ELSE overlapped \cup {p} \cup {caller[d].meant : d \in Readers}
    /\ UNCHANGED <<now, mPackageQueue, mRunning, callback, thread, woken, deliveredAt>>

\* The argument of the pool's schedule: mPackageIdCounter as it is now.
ReadCounter(c) ==
    /\ caller[c].pc = "read"
    /\ caller' = [caller EXCEPT ![c] =
          [pc |-> "push", entry |-> [deadline |-> caller[c].deadline,
                                     packageId |-> mPackageIdCounter,
                                     meant |-> caller[c].meant]]]
    /\ UNCHANGED <<now, queueVars, mRunning, callback, thread, woken, ghostVars>>

\* Mutant: the waiting threads are not notified.
PushEntry_NoNotify(c) ==
    /\ caller[c].pc = "push"
    /\ mPackageQueue' = mPackageQueue \cup {caller[c].entry}
    /\ caller' = [caller EXCEPT ![c] = IdleCaller]
    /\ UNCHANGED <<now, mPackageIdCounter, mPackages, mRunning, callback, thread, woken, ghostVars>>

\* PriorityQueueWorkerPool::schedule
PushEntry(c) ==
    /\ caller[c].pc = "push"
    /\ mPackageQueue' = mPackageQueue \cup {caller[c].entry}
    /\ woken' = woken \cup Waiting
    /\ caller' = [caller EXCEPT ![c] = IdleCaller]
    /\ UNCHANGED <<now, mPackageIdCounter, mPackages, mRunning, callback, thread, ghostVars>>

-----------------------------------------------------------------------------
(* PriorityQueueWorkerPool::loop                                           *)

isTop(e) == \A f \in mPackageQueue : e.deadline <= f.deadline

\* Mutant: a thread that is woken works on whatever is queued.
readyToWork_Any == ~mRunning \/ mPackageQueue # {}

\* The predicate of wait_until.
readyToWork ==
    ~mRunning \/ \E e \in mPackageQueue : isTop(e) /\ e.deadline <= now

\* The time the thread waits for after the predicate failed: the deadline of
\* the first entry.
nextDeadline ==
    IF mPackageQueue = {} THEN {Forever}
    ELSE {e.deadline : e \in {f \in mPackageQueue : isTop(f)}}

\* wait_until has returned, with the lock held: stop, try again, or take the
\* first entry, whatever its deadline.
AfterWait(w) ==
    /\ \/ ~mRunning /\ thread' = [thread EXCEPT ![w] = [pc |-> "done"]] /\ UNCHANGED mPackageQueue
       \/ mRunning /\ mPackageQueue = {} /\ thread' = [thread EXCEPT ![w] = AtTop]
          /\ UNCHANGED mPackageQueue
       \/ /\ mRunning
          /\ \E e \in mPackageQueue :
                /\ isTop(e)
                /\ mPackageQueue' = mPackageQueue \ {e}
                /\ thread' = [thread EXCEPT ![w] = [pc |-> "popped", entry |-> e]]
    /\ woken' = woken \ {w}
    /\ UNCHANGED <<now, mPackageIdCounter, mPackages, mRunning, callback, caller, ghostVars>>

WaitOn(w) ==
    /\ \E t \in nextDeadline : thread' = [thread EXCEPT ![w] = [pc |-> "waiting", until |-> t]]
    /\ woken' = woken \ {w}
    /\ UNCHANGED <<now, queueVars, mRunning, callback, caller, ghostVars>>

\* The head of the loop up to the first evaluation of the predicate.
EnterLoop(w) ==
    /\ thread[w].pc = "top"
    /\ \/ readyToWork /\ AfterWait(w)
       \/ ~readyToWork /\ WaitOn(w)

\* A waiting thread wakes up, notified or not, before its deadline.
WakeUp(w) ==
    /\ thread[w].pc = "waiting"
    /\ \/ readyToWork /\ AfterWait(w)
       \/ ~readyToWork /\ WaitOn(w)

\* The wait timed out: wait_until returns whatever the predicate says.
TimeOut(w) ==
    /\ thread[w].pc = "waiting" /\ thread[w].until <= now
    /\ AfterWait(w)

\* Mutant: process leaves the package in the map.
Process_NoErase(w) ==
    /\ thread[w].pc = "popped"
    /\ deliveredAt' = [deliveredAt EXCEPT ![thread[w].entry.meant] = now]
    /\ thread' = [thread EXCEPT ![w] = AtTop]
    /\ UNCHANGED <<now, queueVars, mRunning, callback, caller, woken, deadlineOf, overlapped>>

\* The callback is looked up under the shared lock and process takes the
\* package out of the map; without a callback or a package the entry is dropped.
Process(w) ==
    /\ thread[w].pc = "popped"
    /\ LET id == thread[w].entry.packageId
           p == mPackages[id]
       IN  IF callback /\ p # NoPackage
           THEN /\ mPackages' = [mPackages EXCEPT ![id] = NoPackage]
                /\ deliveredAt' = [deliveredAt EXCEPT ![p] = now]
           ELSE UNCHANGED <<mPackages, deliveredAt>>
    /\ thread' = [thread EXCEPT ![w] = AtTop]
    /\ UNCHANGED <<now, mPackageIdCounter, mPackageQueue, mRunning, callback, caller,
                   woken, deadlineOf, overlapped>>

-----------------------------------------------------------------------------

\* The destructor of TemplatePriorityQueueWorker.
RemoveCallback ==
    /\ callback
    /\ callback' = FALSE
    /\ UNCHANGED <<now, queueVars, mRunning, caller, thread, woken, ghostVars>>

\* Mutant: the threads are joined without having been woken.
Shutdown_NoNotify ==
    /\ mRunning
    /\ mRunning' = FALSE
    /\ UNCHANGED <<now, queueVars, callback, caller, thread, woken, ghostVars>>

\* The destructor of the pool, which then joins the threads.
Shutdown ==
    /\ mRunning
    /\ mRunning' = FALSE
    /\ woken' = woken \cup Waiting
    /\ UNCHANGED <<now, queueVars, callback, caller, thread, ghostVars>>

Tick ==
    /\ now < MaxTime
    /\ now' = now + 1
    /\ UNCHANGED <<queueVars, mRunning, callback, caller, thread, woken, ghostVars>>

\* What a thread does without being spuriously woken.
ThreadStep(w) ==
    EnterLoop(w) \/ TimeOut(w) \/ Process(w) \/ (w \in woken /\ WakeUp(w))

Next ==
    \/ \E c \in Callers : \/ \E p \in Packages : StorePackage(c, p)
                          \/ ReadCounter(c) \/ PushEntry(c)
    \/ \E w \in Pool : EnterLoop(w) \/ WakeUp(w) \/ TimeOut(w) \/ Process(w)
    \/ RemoveCallback \/ Shutdown \/ Tick

Spec == Init /\ [][Next]_vars

\* Callers finish schedule, threads run, time passes; nobody has to schedule
\* or to shut down.
FairSpec ==
    /\ Spec
    /\ \A c \in Callers : WF_vars(ReadCounter(c) \/ PushEntry(c))
    /\ \A w \in Pool : WF_vars(ThreadStep(w))
    /\ WF_vars(Tick)

-----------------------------------------------------------------------------
(* Properties.                                                             *)

TypeOK ==
    /\ now \in 0 .. MaxTime
    /\ mPackageIdCounter \in 0 .. Cardinality(Packages)
    /\ mPackages \in [Ids -> Packages \cup {NoPackage}]
    /\ mPackageQueue \subseteq Entry
    /\ mRunning \in BOOLEAN /\ callback \in BOOLEAN
    /\ woken \subseteq Waiting
    /\ deadlineOf \in [Packages -> Deadlines \cup {Forever}]
    /\ deliveredAt \in [Packages -> 0 .. Forever]
    /\ overlapped \subseteq Packages

\* No package reaches the callback before its deadline, however late packages
\* with earlier deadlines come in and however the waiting thread is woken; but
\* a package whose call overlapped may be led to by an entry made for another.
NeverEarly ==
    \A p \in Packages \ overlapped :
        deliveredAt[p] # Forever => deadlineOf[p] <= deliveredAt[p]

\* The entries that will lead a thread to the package stored under id: queued,
\* taken from the queue, or about to be pushed.
EntriesFor(id) ==
    {e \in mPackageQueue \cup
           {thread[w].entry : w \in {x \in Pool : thread[x].pc = "popped"}} \cup
           {caller[c].entry : c \in {x \in Callers : caller[x].pc = "push"}} :
     e.packageId = id}

\* Every package stored by a call that overlapped with no other is led to by
\* exactly one entry, there or about to be made, and that entry was made for
\* it: none is lost, none is taken for another.
OneEntryEach ==
    callback =>
        \A id \in Ids : mPackages[id] \notin overlapped \cup {NoPackage} =>
            \/ \E e \in EntriesFor(id) : EntriesFor(id) = {e} /\ e.meant = mPackages[id]
            \/ EntriesFor(id) = {} /\ \E c \in Readers : caller[c].meant = mPackages[id]

\* A package scheduled by a call that overlapped with no other is delivered,
\* unless the worker is taken down first.
AllDelivered ==
    \A p \in Packages :
        deadlineOf[p] # Forever ~>
            (deliveredAt[p] # Forever \/ p \in overlapped \/ ~mRunning \/ ~callback)

\* The destructor of the pool returns: every thread leaves its loop.
ShutdownEnds == ~mRunning ~> (\A w \in Pool : thread[w].pc = "done")

\* "Counter is used as a unique identifier for work packages": no two queued
\* entries carry the same id.
IdsUnique ==
    \A e, f \in mPackageQueue : e.packageId = f.packageId => e = f

=============================================================================
