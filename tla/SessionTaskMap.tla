--------------------------- MODULE SessionTaskMap ---------------------------
(***************************************************************************)
(* The two-way map between hint sessions and the threads they boost        *)
(* (SessionTaskMap.cpp): mSessions maps a session to its value and its     *)
(* linkedTasks, mTasks maps a task to the sessions that contain it.  Both  *)
(* sides are vectors in which a client may repeat a thread id; their order *)
(* never matters, so each is kept as a bag, a function to multiplicities.  *)
(* All operations run under mSessionTaskMapMutex, one atomic step each.    *)
(***************************************************************************)
EXTENDS Naturals

CONSTANTS Sessions,   \* session ids
          Tids        \* thread ids

VARIABLES mSessions,    \* the sessions that have an entry
          linkedTasks,  \* linkedTasks[s][t]: how often t occurs in s's list
          mTasks,       \* mTasks[t][s]: how often s occurs in t's list
          taskKeys      \* the tasks that have an entry in mTasks

mapVars == <<mSessions, linkedTasks, mTasks, taskKeys>>

TaskBag == [Tids -> Nat]
NoTasks == [t \in Tids |-> 0]
Monus(m, n) == IF n <= m THEN m - n ELSE 0

MapInit ==
    /\ mSessions = {}
    /\ linkedTasks = [s \in Sessions |-> NoTasks]
    /\ mTasks = [t \in Tids |-> [s \in Sessions |-> 0]]
    /\ taskKeys = {}

(***************************************************************************)
(* The loop that remove and the dead-thread branch share: for every        *)
(* occurrence in the bag gone, find the task's entry, find the session in  *)
(* its list, erase it, and erase the task's entry when its list is empty.  *)
(***************************************************************************)
TasksWithout(s, gone) ==
    [t \in Tids |-> [mTasks[t] EXCEPT ![s] = Monus(@, gone[t])]]

KeysWithout(s, gone) ==
    {t \in taskKeys : \/ gone[t] = 0
                      \/ mTasks[t][s] = 0
                      \/ \E x \in Sessions : TasksWithout(s, gone)[t][x] > 0}

add(s, taskIds) ==
    /\ s \notin mSessions
    /\ mSessions' = mSessions \cup {s}
    /\ linkedTasks' = [linkedTasks EXCEPT ![s] = taskIds]
    /\ mTasks' = [t \in Tids |-> [mTasks[t] EXCEPT ![s] = @ + taskIds[t]]]
    /\ taskKeys' = taskKeys \cup {t \in Tids : taskIds[t] > 0}

remove(s) ==
    /\ s \in mSessions
    /\ mSessions' = mSessions \ {s}
    /\ linkedTasks' = [linkedTasks EXCEPT ![s] = NoTasks]
    /\ mTasks' = TasksWithout(s, linkedTasks[s])
    /\ taskKeys' = KeysWithout(s, linkedTasks[s])

\* The threads of taskIds that no session contained before the replace.
addedThreads(taskIds) == {t \in Tids : taskIds[t] > 0 /\ t \notin taskKeys}

\* replace is remove followed by add of the same value under one lock.
replace(s, taskIds) ==
    /\ s \in mSessions
    /\ linkedTasks' = [linkedTasks EXCEPT ![s] = taskIds]
    /\ mTasks' = [t \in Tids |->
                    [TasksWithout(s, linkedTasks[s])[t] EXCEPT ![s] = @ + taskIds[t]]]
    /\ taskKeys' = KeysWithout(s, linkedTasks[s]) \cup {t \in Tids : taskIds[t] > 0}
    /\ UNCHANGED mSessions

\* The previous threads of s that no session contains after the replace.
removedThreads(s) == {t \in Tids : linkedTasks[s][t] > 0 /\ t \notin taskKeys'}

\* The occurrences of the dead threads in the list of s.
DeadLinks(s, dead) == [t \in Tids |-> IF t \in dead THEN linkedTasks[s][t] ELSE 0]

\* Mutant: the thread is erased from the session's list only.
dropDeadThreads_ListOnly(s, dead) ==
    /\ s \in mSessions
    /\ linkedTasks' = [linkedTasks EXCEPT ![s] =
                         [t \in Tids |-> IF t \in dead THEN 0 ELSE @[t]]]
    /\ UNCHANGED <<mSessions, mTasks, taskKeys>>

\* sched_setattr reported ESRCH for the threads in dead: applyUclampLocked
\* calls removeDeadTaskSessionMap and erases them from the session's list.
dropDeadThreads(s, dead) ==
    /\ s \in mSessions
    /\ linkedTasks' = [linkedTasks EXCEPT ![s] =
                         [t \in Tids |-> IF t \in dead THEN 0 ELSE @[t]]]
    /\ mTasks' = TasksWithout(s, DeadLinks(s, dead))
    /\ taskKeys' = KeysWithout(s, DeadLinks(s, dead))
    /\ UNCHANGED mSessions

MapNext ==
    \E s \in Sessions :
        \/ remove(s)
        \/ \E taskIds \in TaskBag : add(s, taskIds) \/ replace(s, taskIds)
        \/ \E dead \in SUBSET Tids : dropDeadThreads(s, dead)

MapSpec == MapInit /\ [][MapNext]_mapVars

-----------------------------------------------------------------------------

MapTypeOK ==
    /\ mSessions \subseteq Sessions
    /\ linkedTasks \in [Sessions -> TaskBag]
    /\ mTasks \in [Tids -> [Sessions -> Nat]]
    /\ taskKeys \subseteq Tids

\* Both directions of the map agree occurrence by occurrence: a session lists
\* a task as often as the task lists the session, and a session that is gone
\* is listed nowhere, so no uclamp of a removed session is ever aggregated.
LinksAgree ==
    \A s \in Sessions, t \in Tids :
        /\ linkedTasks[s][t] = mTasks[t][s]
        /\ s \notin mSessions => linkedTasks[s][t] = 0

\* A task has an entry in mTasks exactly when some session contains it; the
\* added and removed threads of replace are computed from these keys.
NoEmptyEntry ==
    \A t \in Tids : t \in taskKeys <=> \E s \in Sessions : mTasks[t][s] > 0

\* SessionTaskMap.h promises to maintain consistency between the mappings.
Consistent == LinksAgree /\ NoEmptyEntry

=============================================================================
