------------------------------- MODULE Votes --------------------------------
(***************************************************************************)
(* The votes of one hint session (UClampVoter.cpp): per vote type an       *)
(* active flag, a start time, a duration and a value, the uclamp.min of a  *)
(* CPU vote or the capacity of a GPU vote.  Time is a natural number.      *)
(***************************************************************************)
EXTENDS Naturals, FiniteSetsExt

CONSTANTS Levels,     \* uclamp.min values and GPU capacities voted for
          Durations   \* vote durations

ASSUME VotesAssumption == Levels \subseteq Nat /\ Durations \subseteq Nat

CpuVoteIds == {"CPU_VOTE_DEFAULT", "CPU_LOAD_UP", "CPU_LOAD_RESET", "CPU_LOAD_RESUME"}
GpuVoteIds == {"GPU_CAPACITY", "GPU_LOAD_UP"}
VoteIds == CpuVoteIds \cup GpuVoteIds

\* The votes disableBoosts deactivates, of those that are ever voted.
Boosts == {"CPU_LOAD_UP", "CPU_LOAD_RESET", "CPU_LOAD_RESUME", "GPU_LOAD_UP"}

VoteRange == [active : BOOLEAN, start : Nat, dur : Nat, val : Nat]

\* A vote that was never added: voteIsActive answers false for it and
\* voteTimeout the epoch, as for an inactive vote without a duration.
NoVote == [active |-> FALSE, start |-> 0, dur |-> 0, val |-> 0]
NoVotes == [v \in VoteIds |-> NoVote]

NewVote(active, start, dur, val) ==
    [active |-> active, start |-> start, dur |-> dur, val |-> val]

voteTimeout(vote) == vote.start + vote.dur

isTimeInRange(vote, t) == vote.active /\ vote.start <= t /\ t <= voteTimeout(vote)

\* Mutants: one of the two reasons to queue a timeout is forgotten.
shouldScheduleTimeout_OnlyIfSooner(vote, deadline) == deadline < voteTimeout(vote)
shouldScheduleTimeout_OnlyIfInactive(vote, deadline) == ~vote.active

\* voteSet queues a timeout unless the vote's event comes by the deadline.
shouldScheduleTimeout(vote, deadline) ==
    ~vote.active \/ deadline < voteTimeout(vote)

setUseVote(vote, active) == [vote EXCEPT !.active = active]

updateDuration(vote, dur) == [vote EXCEPT !.dur = dur]

\* disableBoosts on all votes of a session.
WithoutBoosts(sv) ==
    [v \in VoteIds |-> IF v \in Boosts THEN setUseVote(sv[v], FALSE) ELSE sv[v]]

allTimedOut(sv, t) == \A v \in VoteIds : ~isTimeInRange(sv[v], t)

\* Mutant: the votes add up.
getUclampMin_Sum(sv, t) ==
    MapThenSumSet(LAMBDA v : sv[v].val, {v \in CpuVoteIds : isTimeInRange(sv[v], t)})

\* uclampMin after confine has been applied with every CPU vote, from kUclampMin.
getUclampMin(sv, t) ==
    Max({0} \cup {sv[v].val : v \in {w \in CpuVoteIds : isTimeInRange(sv[w], t)}})

\* The GPU votes in range add up.
InRangeOrZero(vote, t) == IF isTimeInRange(vote, t) THEN vote.val ELSE 0
getGpuCapacityRequest(sv, t) ==
    InRangeOrZero(sv["GPU_CAPACITY"], t) + InRangeOrZero(sv["GPU_LOAD_UP"], t)

=============================================================================
