------------------------- MODULE VoteTimeoutsProofs -------------------------
(***************************************************************************)
(* The timeout protocol keeps its promise for all sessions, callers,       *)
(* levels and durations: every active vote has a timeout event on its way, *)
(* and the event of a boost comes by the end of the boost.  Both follow    *)
(* from one inductive invariant, AllCovered.                               *)
(***************************************************************************)
EXTENDS VoteTimeouts, TLAPS

\* The deadlines that are early enough for vote v of session s.
Limits(s, v) ==
    IF v = "CPU_VOTE_DEFAULT" THEN Nat ELSE 0 .. voteTimeout(votes[s][v])

Covered(s, v) == votes[s][v].active => EventComes(s, v, Limits(s, v))

AllCovered == \A s \in live, v \in VoteIds : Covered(s, v)

VTInv == VTTypeOK /\ AllCovered

-----------------------------------------------------------------------------
(* Bags and records.                                                       *)

\* Queueing an event adds that event only.
LEMMA BagAddDomain ==
    ASSUME NEW B, NEW x
    PROVE  \A e : e \in DOMAIN Queue!BagAdd(B, x) <=> e \in DOMAIN B \/ e = x
  BY DEF Queue!BagAdd

\* Taking one occurrence of an event leaves all other events queued.
LEMMA BagRemoveDomain ==
    ASSUME NEW B, NEW x
    PROVE  /\ DOMAIN Queue!BagRemove(B, x) \subseteq DOMAIN B
           /\ \A e \in DOMAIN B : e = x \/ e \in DOMAIN Queue!BagRemove(B, x)
  BY DEF Queue!BagRemove

\* Votes stay votes; switching one on or off does not move its timeout.
LEMMA VoteTypes ==
    /\ NoVotes \in [VoteIds -> VoteRange]
    /\ \A active \in BOOLEAN, start \in Nat, dur \in Nat, val \in Nat :
          /\ NewVote(active, start, dur, val) \in VoteRange
          /\ voteTimeout(NewVote(active, start, dur, val)) = start + dur
    /\ \A vote \in VoteRange :
          /\ voteTimeout(vote) \in Nat
          /\ \A dur \in Nat : updateDuration(vote, dur) \in VoteRange
          /\ \A active \in BOOLEAN : /\ setUseVote(vote, active) \in VoteRange
                                     /\ setUseVote(vote, active).active = active
                                     /\ voteTimeout(setUseVote(vote, active)) = voteTimeout(vote)
  BY DEF NoVotes, NoVote, VoteRange, NewVote, voteTimeout, updateDuration, setUseVote

\* A caller that is not idle has all the fields of a call of voteSet.
LEMMA BusyCallerFields ==
    ASSUME VTTypeOK, NEW c \in Callers, caller[c].pc \in {"vote", "schedule"}
    PROVE  /\ caller[c] \in BusyCaller
           /\ caller[c].sid \in Sessions /\ caller[c].vid \in VoteIds
           /\ caller[c].val \in Nat /\ caller[c].start \in Nat /\ caller[c].dur \in Nat
<1>1. caller[c] \in {IdleCaller} \cup BusyCaller
  BY DEF VTTypeOK
<1>2. caller[c] # IdleCaller
  BY DEF IdleCaller
<1> QED
  BY <1>1, <1>2 DEF BusyCaller

\* What the worker holds while it handles an event.
LEMMA BusyHandlerFields ==
    ASSUME VTTypeOK, handler.pc = "timeout"
    PROVE  handler \in BusyHandler /\ handler.ev \in Event /\ handler.tNow \in Nat
<1>1. handler # IdleHandler
  BY DEF IdleHandler
<1> QED
  BY <1>1 DEF VTTypeOK, BusyHandler

-----------------------------------------------------------------------------
(* Type correctness.                                                       *)

\* Every step keeps the types.
LEMMA TypeStep == VTTypeOK /\ [VTNext]_vtVars => VTTypeOK'
<1> SUFFICES ASSUME VTTypeOK, [VTNext]_vtVars PROVE VTTypeOK'
  OBVIOUS
<1> USE VotesAssumption
<1>1. ASSUME NEW s \in Sessions, VTAdd(s) PROVE VTTypeOK'
  <2>1. PICK dur \in Durations :
           votes' = [votes EXCEPT ![s] = [NoVotes EXCEPT !["CPU_VOTE_DEFAULT"] =
                                            NewVote(FALSE, now, dur, 0)]]
    BY <1>1 DEF VTAdd
  <2>2. [NoVotes EXCEPT !["CPU_VOTE_DEFAULT"] = NewVote(FALSE, now, dur, 0)]
           \in [VoteIds -> VoteRange]
    BY VoteTypes DEF VTTypeOK
  <2>3. votes' \in [Sessions -> [VoteIds -> VoteRange]]
    BY <2>1, <2>2 DEF VTTypeOK
  <2> QED
    BY <1>1, <2>3 DEF VTAdd, VTTypeOK
<1>2. ASSUME NEW s \in Sessions, VTRemove(s) PROVE VTTypeOK'
  BY <1>2, VoteTypes DEF VTRemove, VTTypeOK
<1>3. ASSUME NEW s \in Sessions, VTDisableBoosts(s) PROVE VTTypeOK'
  <2>1. votes[s] \in [VoteIds -> VoteRange]
    BY DEF VTTypeOK
  <2>2. WithoutBoosts(votes[s]) \in [VoteIds -> VoteRange]
    BY <2>1, VoteTypes DEF WithoutBoosts
  <2>3. votes' \in [Sessions -> [VoteIds -> VoteRange]]
    BY <1>3, <2>2 DEF VTDisableBoosts, VTTypeOK
  <2> QED
    BY <1>3, <2>3 DEF VTDisableBoosts, VTTypeOK
<1>4. ASSUME NEW s \in Sessions, VTUpdateTarget(s) PROVE VTTypeOK'
  <2>1. PICK dur \in Durations :
           votes' = [votes EXCEPT ![s]["CPU_VOTE_DEFAULT"] = updateDuration(@, dur)]
    BY <1>4 DEF VTUpdateTarget
  <2>2. "CPU_VOTE_DEFAULT" \in VoteIds
    BY DEF VoteIds, CpuVoteIds
  <2>3. updateDuration(votes[s]["CPU_VOTE_DEFAULT"], dur) \in VoteRange
    BY <2>2, VoteTypes DEF VTTypeOK
  <2>4. votes' \in [Sessions -> [VoteIds -> VoteRange]]
    BY <2>1, <2>3 DEF VTTypeOK
  <2> QED
    BY <1>4, <2>4 DEF VTUpdateTarget, VTTypeOK
<1>5. ASSUME NEW c \in Callers, NEW s \in Sessions, VTCall(c, s) PROVE VTTypeOK'
  BY <1>5 DEF VTCall, VTTypeOK, BusyCaller
<1>6. ASSUME NEW c \in Callers, VTVote(c) PROVE VTTypeOK'
  <2> DEFINE k == caller[c]
  <2>1. /\ k \in BusyCaller /\ k.sid \in Sessions /\ k.vid \in VoteIds
        /\ k.val \in Nat /\ k.start \in Nat /\ k.dur \in Nat
    BY <1>6, BusyCallerFields DEF VTVote
  <2>2. votes' \in [Sessions -> [VoteIds -> VoteRange]]
    <3>1. NewVote(TRUE, k.start, k.dur, k.val) \in VoteRange
      BY <2>1, VoteTypes
    <3>2. \/ votes' = votes
          \/ \E s \in Sessions, v \in VoteIds, vote \in VoteRange :
                votes' = [votes EXCEPT ![s][v] = vote]
      BY <1>6, <2>1, <3>1 DEF VTVote
    <3> QED
      BY <3>2 DEF VTTypeOK
  <2>3. [k EXCEPT !.pc = "schedule"] \in BusyCaller
    BY <2>1 DEF BusyCaller
  <2>4. caller' \in [Callers -> {IdleCaller} \cup BusyCaller]
    BY <1>6, <2>3 DEF VTVote, VTTypeOK
  <2> QED
    BY <1>6, <2>2, <2>4 DEF VTVote, VTTypeOK
<1>7. ASSUME NEW c \in Callers, VTSchedule(c) PROVE VTTypeOK'
  <2> DEFINE e == [sid |-> caller[c].sid, vid |-> caller[c].vid,
                   deadline |-> caller[c].start + caller[c].dur]
  <2>1. e \in Event
    BY <1>7, BusyCallerFields DEF VTSchedule, Event
  <2>2. \E f \in Event : events' = Queue!BagAdd(events, f)
    BY <1>7, <2>1 DEF VTSchedule
  <2>3. DOMAIN events' \subseteq Event
    BY <2>2, BagAddDomain DEF VTTypeOK
  <2> QED
    BY <1>7, <2>3 DEF VTSchedule, VTTypeOK
<1>8. ASSUME VTTake PROVE VTTypeOK'
  <2>1. PICK e \in DOMAIN events :
           /\ events' = Queue!BagRemove(events, e)
           /\ handler' = [pc |-> "timeout", ev |-> e, tNow |-> now]
    BY <1>8 DEF VTTake
  <2>2. DOMAIN events' \subseteq Event
    BY <2>1, BagRemoveDomain DEF VTTypeOK
  <2>3. handler' \in BusyHandler
    BY <2>1 DEF VTTypeOK, BusyHandler
  <2> QED
    BY <1>8, <2>2, <2>3 DEF VTTake, VTTypeOK
<1>9. ASSUME VTTimeout PROVE VTTypeOK'
  <2> DEFINE e == handler.ev
             vote == votes[e.sid][e.vid]
  <2>1. e \in Event /\ e.sid \in Sessions /\ e.vid \in VoteIds
    BY <1>9, BusyHandlerFields DEF VTTimeout, Event
  <2>2. vote \in VoteRange /\ voteTimeout(vote) \in Nat /\ setUseVote(vote, FALSE) \in VoteRange
    BY <2>1, VoteTypes DEF VTTypeOK
  <2>3. [e EXCEPT !.deadline = voteTimeout(vote)] \in Event
    BY <2>1, <2>2 DEF Event
  <2>4. \/ votes' = votes
        \/ \E s \in Sessions, v \in VoteIds, w \in VoteRange :
              votes' = [votes EXCEPT ![s][v] = w]
    BY <1>9, <2>1, <2>2 DEF VTTimeout
  <2>5. events' = events \/ \E f \in Event : events' = Queue!BagAdd(events, f)
    BY <1>9, <2>3 DEF VTTimeout
  <2>6. DOMAIN events' \subseteq Event
    BY <2>5, BagAddDomain DEF VTTypeOK
  <2>7. votes' \in [Sessions -> [VoteIds -> VoteRange]]
    BY <2>4 DEF VTTypeOK
  <2> QED
    BY <1>9, <2>6, <2>7 DEF VTTimeout, VTTypeOK
<1>10. ASSUME VTTick PROVE VTTypeOK'
  BY <1>10 DEF VTTick, VTTypeOK
<1>11. CASE UNCHANGED vtVars
  BY <1>11 DEF vtVars, VTTypeOK
<1> QED
  BY <1>1, <1>2, <1>3, <1>4, <1>5, <1>6, <1>7, <1>8, <1>9, <1>10, <1>11 DEF VTNext

\* The initial state is of its type.
LEMMA TypeInit == VTInit => VTTypeOK
<1> SUFFICES ASSUME VTInit PROVE VTTypeOK
  OBVIOUS
<1>1. DOMAIN events = {}
  BY DEF VTInit
<1> QED
  BY <1>1, VoteTypes DEF VTInit, VTTypeOK

\* The variables of the timeout protocol keep their types.
THEOREM VTTypeCorrect == VTSpec => []VTTypeOK
  BY TypeInit, TypeStep, PTL DEF VTSpec

-----------------------------------------------------------------------------
(* Coverage.                                                               *)

\* Where the events, the callers and the worker stay as they are, it is enough
\* that no vote becomes active and no boost changes its timeout.
LEMMA CoverageKept ==
    ASSUME VTInv, UNCHANGED <<events, caller, handler>>, live' \subseteq Sessions,
           \A s \in live', v \in VoteIds :
              votes'[s][v].active =>
                 /\ s \in live /\ votes[s][v].active
                 /\ v = "CPU_VOTE_DEFAULT" \/ votes'[s][v] = votes[s][v]
    PROVE  AllCovered'
<1> SUFFICES ASSUME NEW s \in live', NEW v \in VoteIds, votes'[s][v].active
             PROVE  EventComes(s, v, Limits(s, v))'
  BY DEF AllCovered, Covered
<1>1. EventComes(s, v, Limits(s, v))
  BY DEF VTInv, AllCovered, Covered
<1>2. v = "CPU_VOTE_DEFAULT" \/ votes'[s][v] = votes[s][v]
  OBVIOUS
<1>3. Limits(s, v)' = Limits(s, v)
  BY <1>2 DEF Limits
<1> QED
  BY <1>1, <1>3 DEF EventComes

\* The locked part of voteSet: either a new event is now in the caller's hands,
\* or the event the vote already has comes early enough for the new timeout.
LEMMA CoveredByVote ==
    ASSUME VTInv, NEW c \in Callers, VTVote(c)
    PROVE  AllCovered'
<1> DEFINE k == caller[c]
           vote == votes[k.sid][k.vid]
<1>1. /\ k.sid \in Sessions /\ k.vid \in VoteIds /\ k.pc = "vote"
      /\ k.val \in Nat /\ k.start \in Nat /\ k.dur \in Nat /\ k \in BusyCaller
  BY BusyCallerFields DEF VTVote, VTInv
<1>2. \A d \in Callers : d # c => caller'[d] = caller[d]
  BY DEF VTVote, VTInv, VTTypeOK
<1>3. live' = live /\ events' = events /\ handler' = handler
  BY DEF VTVote
<1>4. SUFFICES ASSUME NEW s \in live, NEW v \in VoteIds, votes'[s][v].active
               PROVE  EventComes(s, v, Limits(s, v))'
  BY <1>3 DEF AllCovered, Covered
<1>5. CASE votes'[s][v] = votes[s][v] /\ votes[s][v].active
  <2>1. EventComes(s, v, Limits(s, v))
    BY <1>5 DEF VTInv, AllCovered, Covered
  <2>2. Limits(s, v)' = Limits(s, v)
    BY <1>5 DEF Limits
  <2> QED
    BY <1>1, <1>2, <1>3, <2>1, <2>2 DEF EventComes
<1>6. CASE k.sid \in live /\ s = k.sid /\ v = k.vid
  <2>1. votes'[s][v].start = k.start /\ votes'[s][v].dur = k.dur
    <3>1. PICK nv : /\ nv.start = k.start /\ nv.dur = k.dur
                    /\ votes' = [votes EXCEPT ![k.sid][k.vid] = nv]
      BY <1>6 DEF VTVote, NewVote
    <3>2. votes'[s][v] = nv
      BY <1>1, <1>6, <3>1 DEF VTInv, VTTypeOK
    <3> QED
      BY <3>1, <3>2
  <2>2. voteTimeout(votes'[s][v]) = k.start + k.dur
    BY <2>1 DEF voteTimeout
  <2>3. votes[s][v] \in VoteRange /\ voteTimeout(votes[s][v]) \in Nat
    BY <1>4, VoteTypes DEF VTInv, VTTypeOK
  <2>4. CASE shouldScheduleTimeout(vote, k.start + k.dur)
    <3>1. caller'[c] = [k EXCEPT !.pc = "schedule"]
      BY <1>6, <2>4 DEF VTVote, VTInv, VTTypeOK
    <3>2. /\ caller'[c].pc = "schedule" /\ caller'[c].sid = s /\ caller'[c].vid = v
          /\ caller'[c].start = k.start /\ caller'[c].dur = k.dur
      BY <1>1, <1>6, <3>1 DEF BusyCaller
    <3>3. k.start + k.dur \in Limits(s, v)'
      BY <1>1, <2>2 DEF Limits
    <3> QED
      BY <3>2, <3>3 DEF EventComes
  <2>5. CASE ~shouldScheduleTimeout(vote, k.start + k.dur)
    <3>1. votes[s][v].active /\ voteTimeout(votes[s][v]) <= k.start + k.dur
      BY <1>1, <1>6, <2>3, <2>5 DEF shouldScheduleTimeout
    <3>2. EventComes(s, v, Limits(s, v))
      BY <3>1 DEF VTInv, AllCovered, Covered
    <3>3. \A n \in Limits(s, v) : n \in Limits(s, v)'
      BY <1>1, <2>2, <2>3, <3>1 DEF Limits
    <3> QED
      BY <1>1, <1>2, <1>3, <3>2, <3>3 DEF EventComes
  <2> QED
    BY <2>4, <2>5
<1>7. votes'[s][v] # votes[s][v] => k.sid \in live /\ s = k.sid /\ v = k.vid
  BY <1>1, <1>4 DEF VTVote, VTInv, VTTypeOK
<1> QED
  BY <1>4, <1>5, <1>6, <1>7

\* The rest of voteSet: the event moves from the caller to the queue.
LEMMA CoveredBySchedule ==
    ASSUME VTInv, NEW c \in Callers, VTSchedule(c)
    PROVE  AllCovered'
<1>1. PICK e : /\ events' = Queue!BagAdd(events, e)
               /\ e.sid = caller[c].sid /\ e.vid = caller[c].vid
               /\ e.deadline = caller[c].start + caller[c].dur
  BY DEF VTSchedule
<1>2. \A f : f \in DOMAIN events' <=> f \in DOMAIN events \/ f = e
  BY <1>1, BagAddDomain
<1>3. /\ live' = live /\ votes' = votes /\ handler' = handler
      /\ \A d \in Callers : d # c => caller'[d] = caller[d]
  BY DEF VTSchedule, VTInv, VTTypeOK
<1> SUFFICES ASSUME NEW s \in live, NEW v \in VoteIds, votes[s][v].active
             PROVE  EventComes(s, v, Limits(s, v))'
  BY <1>3 DEF AllCovered, Covered
<1>4. EventComes(s, v, Limits(s, v)) /\ Limits(s, v)' = Limits(s, v)
  BY <1>3 DEF VTInv, AllCovered, Covered, Limits
<1> QED
  BY <1>1, <1>2, <1>3, <1>4 DEF EventComes

\* The event moves from the queue to the worker.
LEMMA CoveredByTake ==
    ASSUME VTInv, VTTake
    PROVE  AllCovered'
<1>1. PICK e \in DOMAIN events :
         /\ events' = Queue!BagRemove(events, e)
         /\ handler' = [pc |-> "timeout", ev |-> e, tNow |-> now]
  BY DEF VTTake
<1>2. \A f \in DOMAIN events : f = e \/ f \in DOMAIN events'
  BY <1>1, BagRemoveDomain
<1>3. live' = live /\ votes' = votes /\ caller' = caller /\ handler.pc = "idle"
  BY DEF VTTake
<1> SUFFICES ASSUME NEW s \in live, NEW v \in VoteIds, votes[s][v].active
             PROVE  EventComes(s, v, Limits(s, v))'
  BY <1>3 DEF AllCovered, Covered
<1>4. EventComes(s, v, Limits(s, v)) /\ Limits(s, v)' = Limits(s, v)
  BY <1>3 DEF VTInv, AllCovered, Covered, Limits
<1> QED
  BY <1>1, <1>2, <1>3, <1>4 DEF EventComes

\* The worker consumes the event: the vote ends, or gets the event back for its
\* present timeout, or was not active.
LEMMA CoveredByTimeout ==
    ASSUME VTInv, VTTimeout
    PROVE  AllCovered'
<1> DEFINE e == handler.ev
           vote == votes[e.sid][e.vid]
<1>1. e \in Event /\ e.sid \in Sessions /\ e.vid \in VoteIds
  BY BusyHandlerFields DEF VTTimeout, VTInv, Event
<1>2. vote \in VoteRange /\ voteTimeout(vote) \in Nat
  BY <1>1, VoteTypes DEF VTInv, VTTypeOK
<1>3. live' = live /\ caller' = caller
  BY DEF VTTimeout
<1> SUFFICES ASSUME NEW s \in live, NEW v \in VoteIds, votes'[s][v].active
             PROVE  EventComes(s, v, Limits(s, v))'
  BY <1>3 DEF AllCovered, Covered
<1>4. s \in Sessions
  BY DEF VTInv, VTTypeOK
<1>5. CASE ~(s = e.sid /\ v = e.vid)
  <2>1. votes'[s][v] = votes[s][v]
    BY <1>1, <1>4, <1>5 DEF VTTimeout, VTInv, VTTypeOK
  <2>2. EventComes(s, v, Limits(s, v)) /\ Limits(s, v)' = Limits(s, v)
    BY <2>1 DEF VTInv, AllCovered, Covered, Limits
  <2>3. \A f \in DOMAIN events : f \in DOMAIN events'
    <3>1. events' = events \/ \E f : events' = Queue!BagAdd(events, f)
      BY DEF VTTimeout
    <3> QED
      BY <3>1, BagAddDomain
  <2> QED
    BY <1>3, <1>5, <2>2, <2>3 DEF EventComes
<1>6. CASE s = e.sid /\ v = e.vid
  <2>1. setUseVote(vote, FALSE).active = FALSE
    BY <1>2, VoteTypes
  <2>2. votes' # [votes EXCEPT ![e.sid][e.vid] = setUseVote(vote, FALSE)]
    <3>1. ASSUME NEW w, votes' = [votes EXCEPT ![e.sid][e.vid] = w] PROVE w.active
      BY <1>1, <1>6, <3>1 DEF VTInv, VTTypeOK
    <3> QED
      BY <2>1, <3>1
  <2>3. /\ events' = Queue!BagAdd(events, [e EXCEPT !.deadline = voteTimeout(vote)])
        /\ votes' = votes
    BY <1>6, <2>2 DEF VTTimeout
  <2>4. PICK f : /\ events' = Queue!BagAdd(events, f)
                 /\ f.sid = s /\ f.vid = v /\ f.deadline = voteTimeout(vote)
    BY <1>1, <1>6, <2>3 DEF Event
  <2>5. f \in DOMAIN events'
    BY <2>4, BagAddDomain
  <2>6. voteTimeout(vote) \in Limits(s, v)'
    BY <1>2, <1>6, <2>3 DEF Limits
  <2> QED
    BY <2>4, <2>5, <2>6 DEF EventComes
<1> QED
  BY <1>5, <1>6

\* Every step leaves every active vote covered.
LEMMA CoverageStep == VTInv /\ [VTNext]_vtVars => AllCovered'
<1> SUFFICES ASSUME VTInv, [VTNext]_vtVars PROVE AllCovered'
  OBVIOUS
<1>0. live \in SUBSET Sessions /\ votes \in [Sessions -> [VoteIds -> VoteRange]]
  BY DEF VTInv, VTTypeOK
<1>1. ASSUME NEW s \in Sessions, VTAdd(s) PROVE AllCovered'
  <2>1. \A v \in VoteIds : ~votes'[s][v].active
    BY <1>0, <1>1 DEF VTAdd, NoVotes, NoVote, NewVote
  <2>2. \A x \in Sessions : x # s => votes'[x] = votes[x]
    BY <1>0, <1>1 DEF VTAdd
  <2> QED
    BY <1>0, <1>1, <2>1, <2>2, CoverageKept DEF VTAdd
<1>2. ASSUME NEW s \in Sessions, VTRemove(s) PROVE AllCovered'
  <2>1. \A x \in live' : x \in live /\ votes'[x] = votes[x]
    BY <1>0, <1>2 DEF VTRemove
  <2> QED
    BY <1>0, <1>2, <2>1, CoverageKept DEF VTRemove
<1>3. ASSUME NEW s \in Sessions, VTDisableBoosts(s) PROVE AllCovered'
  <2>1. \A v \in VoteIds : ~votes'[s][v].active \/ votes'[s][v] = votes[s][v]
    <3> SUFFICES ASSUME NEW v \in VoteIds
                 PROVE  ~votes'[s][v].active \/ votes'[s][v] = votes[s][v]
      OBVIOUS
    <3>1. votes'[s][v] = IF v \in Boosts THEN setUseVote(votes[s][v], FALSE) ELSE votes[s][v]
      BY <1>0, <1>3 DEF VTDisableBoosts, WithoutBoosts
    <3> QED
      BY <1>0, <3>1, VoteTypes
  <2>2. \A x \in Sessions : x # s => votes'[x] = votes[x]
    BY <1>0, <1>3 DEF VTDisableBoosts
  <2> QED
    BY <1>0, <1>3, <2>1, <2>2, CoverageKept DEF VTDisableBoosts
<1>4. ASSUME NEW s \in Sessions, VTUpdateTarget(s) PROVE AllCovered'
  <2>1. "CPU_VOTE_DEFAULT" \in VoteIds
    BY DEF VoteIds, CpuVoteIds
  <2>2. \A x \in Sessions, v \in VoteIds :
           (x = s /\ v = "CPU_VOTE_DEFAULT") \/ votes'[x][v] = votes[x][v]
    BY <1>0, <1>4 DEF VTUpdateTarget
  <2>3. votes'[s]["CPU_VOTE_DEFAULT"].active = votes[s]["CPU_VOTE_DEFAULT"].active
    BY <1>0, <1>4, <2>1 DEF VTUpdateTarget, updateDuration, VoteRange
  <2> QED
    BY <1>0, <1>4, <2>2, <2>3, CoverageKept DEF VTUpdateTarget
<1>5. ASSUME NEW c \in Callers, NEW s \in Sessions, VTCall(c, s) PROVE AllCovered'
  <2>1. /\ live' = live /\ votes' = votes /\ events' = events /\ handler' = handler
        /\ \A d \in Callers : caller[d].pc = "schedule" => caller'[d] = caller[d]
    BY <1>5 DEF VTCall, VTInv, VTTypeOK
  <2> SUFFICES ASSUME NEW x \in live, NEW v \in VoteIds, votes[x][v].active
               PROVE  EventComes(x, v, Limits(x, v))'
    BY <2>1 DEF AllCovered, Covered
  <2>2. EventComes(x, v, Limits(x, v)) /\ Limits(x, v)' = Limits(x, v)
    BY <2>1 DEF VTInv, AllCovered, Covered, Limits
  <2> QED
    BY <2>1, <2>2 DEF EventComes
<1>6. CASE VTTick \/ UNCHANGED vtVars
  BY <1>0, <1>6, CoverageKept DEF VTTick, vtVars
<1> QED
  BY <1>1, <1>2, <1>3, <1>4, <1>5, <1>6, CoveredByVote, CoveredBySchedule,
     CoveredByTake, CoveredByTimeout DEF VTNext

\* The inductive invariant holds throughout.
LEMMA CoverageAlways == VTSpec => []VTInv
<1>1. VTInit => VTInv
  BY TypeInit DEF VTInit, VTInv, AllCovered
<1>2. VTInv /\ [VTNext]_vtVars => VTInv'
  BY TypeStep, CoverageStep DEF VTInv
<1> QED
  BY <1>1, <1>2, PTL DEF VTSpec

\* Every active vote of a session has a timeout event on its way, whatever the
\* callers of voteSet, disableBoosts, updateTargetWorkDuration and close do
\* while handleEvent runs.
THEOREM EveryActiveVoteHasEvent == VTSpec => []ActiveVoteHasEvent
<1>1. VTInv => ActiveVoteHasEvent
  <2> SUFFICES ASSUME VTInv, NEW s \in live, NEW v \in VoteIds, votes[s][v].active
               PROVE  EventComes(s, v, Nat)
    BY DEF ActiveVoteHasEvent
  <2>1. EventComes(s, v, Limits(s, v))
    BY DEF VTInv, AllCovered, Covered
  <2>2. \A n \in Limits(s, v) : n \in Nat
    BY DEF Limits
  <2> QED
    BY <2>1, <2>2 DEF EventComes
<1> QED
  BY <1>1, CoverageAlways, PTL

\* The event of an active boost is queued for the end of the boost at the
\* latest, although voteSet queues none when it extends a boost.
THEOREM EveryBoostEventInTime == VTSpec => []BoostEventInTime
<1>1. VTInv => BoostEventInTime
  BY DEF VTInv, AllCovered, Covered, Limits, BoostEventInTime
<1> QED
  BY <1>1, CoverageAlways, PTL

=============================================================================
