--------------------------- MODULE ChannelManager ---------------------------
(***************************************************************************)
(* ChannelManager.cpp with the bookkeeping of ChannelGroup.cpp: which      *)
(* client process has which slot of which channel group.  Every operation  *)
(* runs under mChannelManagerMutex from beginning to end, one step each.   *)
(* A channel is known by its key; what the group's thread does with it is  *)
(* module ChannelGroup.                                                    *)
(***************************************************************************)
EXTENDS Naturals, FiniteSets

CONSTANTS Keys,          \* client processes, (tgid, uid)
          KMaxChannels,  \* kMaxChannels, slots of a group
          MaxGroupId,    \* bound on group ids, which only grow
          NoKey,         \* an empty slot
          NoChannel      \* no entry in mChannelMap

Slots == 0 .. KMaxChannels - 1
GroupIds == 0 .. MaxGroupId

\* ChannelMapValue
ChannelIds == [groupId : GroupIds, offset : Slots]

ASSUME ChannelManagerAssumption ==
    /\ KMaxChannels \in Nat \ {0} /\ MaxGroupId \in Nat
    /\ NoKey \notin Keys /\ NoChannel \notin ChannelIds

VARIABLES mChannelMap,    \* the channel id of each client
          mChannelGroups, \* the ids of the groups that exist
          mChannels,      \* mChannels[g][slot], a client or NoKey
          mLiveChannels,  \* mLiveChannels[g], the group's own count
          invalid,        \* the clients whose channel has no usable queue
          config          \* the channel each client was told of and did not close

vars == <<mChannelMap, mChannelGroups, mChannels, mLiveChannels, invalid, config>>

NoSlots == [slot \in Slots |-> NoKey]

Init ==
    /\ mChannelMap = [k \in Keys |-> NoChannel]
    /\ mChannelGroups = {}
    /\ mChannels = [g \in GroupIds |-> NoSlots]
    /\ mLiveChannels = [g \in GroupIds |-> 0]
    /\ invalid = {}
    /\ config = [k \in Keys |-> NoChannel]

Occupied(slots) == {slot \in Slots : slots[slot] # NoKey}

\* Mutant: the new channel takes the slot its group's count points at.
firstFree_Count(slots, slot) == slot = Cardinality(Occupied(slots))

\* slot is the first empty one, which the loop in createChannel finds.
firstFree(slots, slot) ==
    slots[slot] = NoKey /\ \A r \in Slots : r < slot => slots[r] # NoKey

\* Mutant: the group's count is not raised.
createChannel_NoCount(k, g, slots, live) ==
    \E slot \in Slots :
        /\ firstFree(slots, slot)
        /\ mChannels' = [mChannels EXCEPT ![g] = [slots EXCEPT ![slot] = k]]
        /\ mLiveChannels' = [mLiveChannels EXCEPT ![g] = live]
        /\ mChannelMap' = [mChannelMap EXCEPT ![k] = [groupId |-> g, offset |-> slot]]
        /\ UNCHANGED <<invalid, config>>

\* createChannel in group g that holds slots and counts live of them, and the
\* entry in mChannelMap.  A channel whose queue could not be made keeps its
\* slot and its entry, but its client is refused.
createChannel(k, g, slots, live) ==
    \E slot \in Slots, valid \in BOOLEAN :
        /\ firstFree(slots, slot)
        /\ mChannels' = [mChannels EXCEPT ![g] = [slots EXCEPT ![slot] = k]]
        /\ mLiveChannels' = [mLiveChannels EXCEPT ![g] = live + 1]
        /\ mChannelMap' = [mChannelMap EXCEPT ![k] = [groupId |-> g, offset |-> slot]]
        /\ invalid' = IF valid THEN invalid ELSE invalid \cup {k}
        /\ config' = IF valid THEN [config EXCEPT ![k] = [groupId |-> g, offset |-> slot]]
                              ELSE config

\* getChannelConfig for a client that has a channel.
getExisting(k) ==
    /\ mChannelMap[k] # NoChannel /\ k \notin invalid
    /\ config' = [config EXCEPT ![k] = mChannelMap[k]]
    /\ UNCHANGED <<mChannelMap, mChannelGroups, mChannels, mLiveChannels, invalid>>

HasRoom(g) == mLiveChannels[g] < KMaxChannels

\* The first group with room, in the order of the ids.
createInGroup(k) ==
    /\ mChannelMap[k] = NoChannel
    /\ \E g \in mChannelGroups :
          /\ HasRoom(g) /\ \A h \in mChannelGroups : h < g => ~HasRoom(h)
          /\ createChannel(k, g, mChannels[g], mLiveChannels[g])
    /\ UNCHANGED mChannelGroups

\* Mutant: ids are handed out by the number of groups.
nextGroupId_Count(g) == g = Cardinality(mChannelGroups)

\* The id of a new group follows the highest one in use.
nextGroupId(g) ==
    \/ mChannelGroups = {} /\ g = 0
    \/ \E m \in mChannelGroups : g = m + 1 /\ \A h \in mChannelGroups : h <= m

createInNewGroup(k) ==
    /\ mChannelMap[k] = NoChannel
    /\ \A g \in mChannelGroups : ~HasRoom(g)
    /\ \E g \in GroupIds :
          /\ nextGroupId(g)
          /\ mChannelGroups' = mChannelGroups \cup {g}
          /\ createChannel(k, g, NoSlots, 0)

\* closeChannel; without an entry, a group or a channel it changes nothing.
\* The group goes with its last channel.
closeChannel(k) ==
    /\ mChannelMap[k] # NoChannel
    /\ LET id == mChannelMap[k]
       IN  /\ id.groupId \in mChannelGroups /\ mChannels[id.groupId][id.offset] # NoKey
           /\ mChannels' = [mChannels EXCEPT ![id.groupId] = [@ EXCEPT ![id.offset] = NoKey]]
           /\ mLiveChannels' = [mLiveChannels EXCEPT ![id.groupId] = @ - 1]
           /\ mChannelGroups' = IF mLiveChannels[id.groupId] = 1
                                THEN mChannelGroups \ {id.groupId} ELSE mChannelGroups
    /\ mChannelMap' = [mChannelMap EXCEPT ![k] = NoChannel]
    /\ invalid' = invalid \ {k}
    /\ config' = [config EXCEPT ![k] = NoChannel]

Next ==
    \E k \in Keys : getExisting(k) \/ createInGroup(k) \/ createInNewGroup(k) \/ closeChannel(k)

Spec == Init /\ [][Next]_vars

-----------------------------------------------------------------------------
(* Properties.                                                             *)

TypeOK ==
    /\ mChannelMap \in [Keys -> ChannelIds \cup {NoChannel}]
    /\ mChannelGroups \subseteq GroupIds
    /\ mChannels \in [GroupIds -> [Slots -> Keys \cup {NoKey}]]
    /\ mLiveChannels \in [GroupIds -> Nat]
    /\ invalid \subseteq Keys
    /\ config \in [Keys -> ChannelIds \cup {NoChannel}]

\* Each group's count is the number of its channels, and a group without
\* channels, whose thread would wait for ever, does not exist.
CountsRight ==
    \A g \in mChannelGroups :
        mLiveChannels[g] = Cardinality(Occupied(mChannels[g])) /\ mLiveChannels[g] > 0

\* The entry of a client and the slot of its channel name each other.
EntriesMatch ==
    /\ \A k \in Keys : mChannelMap[k] # NoChannel =>
          /\ mChannelMap[k].groupId \in mChannelGroups
          /\ mChannels[mChannelMap[k].groupId][mChannelMap[k].offset] = k
    /\ \A g \in mChannelGroups, slot \in Slots : mChannels[g][slot] # NoKey =>
          mChannelMap[mChannels[g][slot]] = [groupId |-> g, offset |-> slot]

\* No FATAL check and no at() of getOrCreateChannel, createChannel and
\* getChannel can fail: an entry leads to a live channel ("Requesting a dead
\* channel!"), and a group that was picked for its count has an empty slot
\* ("Failed to create channel!"), however channels were opened and closed before.
NoFatal ==
    /\ \A k \in Keys : mChannelMap[k] # NoChannel =>
          /\ mChannelMap[k].groupId \in mChannelGroups
          /\ mChannels[mChannelMap[k].groupId][mChannelMap[k].offset] # NoKey
    /\ \A g \in mChannelGroups : HasRoom(g) => Occupied(mChannels[g]) # Slots

\* A client that was told of a channel and has not closed it writes into its
\* own channel and no other, whoever closed and opened channels since.
ConfigCurrent ==
    \A k \in Keys : config[k] # NoChannel =>
        /\ config[k].groupId \in mChannelGroups
        /\ mChannels[config[k].groupId][config[k].offset] = k

Dir == INSTANCE ChannelDirectory WITH assigned <- mChannelMap

\* The manager implements the directory: at most one channel per client, never
\* shared, never moved while it is open.
ImplementsDirectory == Dir!DirSpec

=============================================================================
