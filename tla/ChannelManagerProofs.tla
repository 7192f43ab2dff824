------------------------ MODULE ChannelManagerProofs ------------------------
(***************************************************************************)
(* For any number of clients, slots and group ids: no FATAL check of the   *)
(* channel bookkeeping fails, a client's configuration always leads to its *)
(* own channel, and the manager implements ChannelDirectory.  The          *)
(* inductive invariant adds to the entries and slots naming each other     *)
(* that the separately kept counts are right: without them nothing says    *)
(* that a group chosen for its count has an empty slot.                    *)
(***************************************************************************)
EXTENDS ChannelManager, FiniteSetTheorems, TLAPS

\* What a client was told is what the map says.
ConfigIsEntry ==
    \A k \in Keys : config[k] # NoChannel => config[k] = mChannelMap[k]

ManagerInv == TypeOK /\ CountsRight /\ EntriesMatch /\ ConfigIsEntry

-----------------------------------------------------------------------------
(* Counting slots.                                                         *)

\* A group has KMaxChannels slots.
LEMMA SlotsFinite == IsFiniteSet(Slots) /\ Cardinality(Slots) = KMaxChannels
<1>1. 0 \in Int /\ KMaxChannels - 1 \in Int /\ KMaxChannels \in Nat \ {0}
  BY ChannelManagerAssumption
<1>2. /\ IsFiniteSet(0 .. KMaxChannels - 1)
      /\ Cardinality(0 .. KMaxChannels - 1) =
            IF 0 > KMaxChannels - 1 THEN 0 ELSE (KMaxChannels - 1) - 0 + 1
  BY <1>1, FS_Interval
<1> QED
  BY <1>1, <1>2 DEF Slots

\* The occupied slots of a group can be counted.
LEMMA OccupiedFinite ==
    ASSUME NEW slots
    PROVE  IsFiniteSet(Occupied(slots)) /\ Cardinality(Occupied(slots)) \in Nat
<1>1. Occupied(slots) \subseteq Slots
  BY DEF Occupied
<1> QED
  BY <1>1, SlotsFinite, FS_Subset, FS_CardinalityType

\* A client in a free slot makes one occupied slot more.
LEMMA OccupySlot ==
    ASSUME NEW slots \in [Slots -> Keys \cup {NoKey}], NEW slot \in Slots,
           slots[slot] = NoKey, NEW k \in Keys
    PROVE  Cardinality(Occupied([slots EXCEPT ![slot] = k])) = Cardinality(Occupied(slots)) + 1
<1>1. Occupied([slots EXCEPT ![slot] = k]) = Occupied(slots) \cup {slot}
  BY ChannelManagerAssumption DEF Occupied
<1>2. slot \notin Occupied(slots)
  BY DEF Occupied
<1> QED
  BY <1>1, <1>2, OccupiedFinite, FS_AddElement

\* Emptying an occupied slot makes one less.
LEMMA FreeSlot ==
    ASSUME NEW slots \in [Slots -> Keys \cup {NoKey}], NEW slot \in Slots,
           slots[slot] # NoKey
    PROVE  Cardinality(Occupied([slots EXCEPT ![slot] = NoKey])) =
           Cardinality(Occupied(slots)) - 1
<1>1. Occupied([slots EXCEPT ![slot] = NoKey]) = Occupied(slots) \ {slot}
  BY DEF Occupied
<1>2. slot \in Occupied(slots)
  BY DEF Occupied
<1> QED
  BY <1>1, <1>2, OccupiedFinite, FS_RemoveElement

\* A new group has no occupied slot.
LEMMA NoSlotsEmpty ==
    NoSlots \in [Slots -> Keys \cup {NoKey}] /\ Cardinality(Occupied(NoSlots)) = 0
<1>1. Occupied(NoSlots) = {}
  BY DEF Occupied, NoSlots
<1> QED
  BY <1>1, FS_EmptySet DEF NoSlots

-----------------------------------------------------------------------------
(* The operations.                                                         *)

\* createChannel in a group that is new and empty or that has the slots and
\* the count it is given.
LEMMA CreateKeepsInv ==
    ASSUME ManagerInv, NEW k \in Keys, NEW g \in GroupIds,
           NEW slots \in [Slots -> Keys \cup {NoKey}], NEW live \in Nat,
           mChannelMap[k] = NoChannel,
           live = Cardinality(Occupied(slots)),
           \/ g \in mChannelGroups /\ slots = mChannels[g]
           \/ g \notin mChannelGroups /\ slots = NoSlots,
           mChannelGroups' = mChannelGroups \cup {g},
           createChannel(k, g, slots, live)
    PROVE  ManagerInv' /\ Dir!DirOpen(k)
<1>1. PICK slot \in Slots, valid \in BOOLEAN :
         /\ slots[slot] = NoKey
         /\ mChannels' = [mChannels EXCEPT ![g] = [slots EXCEPT ![slot] = k]]
         /\ mLiveChannels' = [mLiveChannels EXCEPT ![g] = live + 1]
         /\ mChannelMap' = [mChannelMap EXCEPT ![k] = [groupId |-> g, offset |-> slot]]
         /\ invalid' = IF valid THEN invalid ELSE invalid \cup {k}
         /\ config' = IF valid THEN [config EXCEPT ![k] = [groupId |-> g, offset |-> slot]]
                               ELSE config
  BY DEF createChannel, firstFree
<1> DEFINE id == [groupId |-> g, offset |-> slot]
<1>2. id \in ChannelIds /\ id # NoChannel /\ id.groupId = g /\ id.offset = slot
  BY ChannelManagerAssumption DEF ChannelIds
<1>3. /\ \A j \in Keys : mChannelMap'[j] = IF j = k THEN id ELSE mChannelMap[j]
      /\ \A h \in GroupIds : mChannels'[h] = IF h = g THEN [slots EXCEPT ![slot] = k]
                                                      ELSE mChannels[h]
      /\ \A h \in GroupIds : mLiveChannels'[h] = IF h = g THEN live + 1 ELSE mLiveChannels[h]
  BY <1>1 DEF ManagerInv, TypeOK
<1>30. \A h \in GroupIds, r \in Slots :
          mChannels'[h][r] = IF h = g THEN IF r = slot THEN k ELSE slots[r]
                                      ELSE mChannels[h][r]
  BY <1>3
<1>4. TypeOK'
  BY <1>1, <1>2 DEF ManagerInv, TypeOK
<1>5. CountsRight'
  <2> SUFFICES ASSUME NEW h \in mChannelGroups'
               PROVE  /\ mLiveChannels'[h] = Cardinality(Occupied(mChannels'[h]))
                      /\ mLiveChannels'[h] > 0
    BY DEF CountsRight, Occupied
  <2>1. CASE h = g
    <3>1. mChannels'[g] = [slots EXCEPT ![slot] = k] /\ mLiveChannels'[g] = live + 1
      BY <1>3
    <3>2. Cardinality(Occupied([slots EXCEPT ![slot] = k])) = live + 1
      BY <1>1, OccupySlot
    <3> QED
      BY <2>1, <3>1, <3>2
  <2>2. CASE h # g
    BY <1>3, <2>2 DEF ManagerInv, CountsRight, TypeOK
  <2> QED
    BY <2>1, <2>2
<1>6. \A j \in Keys : mChannelMap[j] # id
  <2> SUFFICES ASSUME NEW j \in Keys, mChannelMap[j] = id PROVE FALSE
    OBVIOUS
  <2>1. g \in mChannelGroups /\ mChannels[g][slot] = j
    BY <1>2 DEF ManagerInv, EntriesMatch
  <2> QED
    BY <1>1, <2>1, ChannelManagerAssumption
<1>7. EntriesMatch'
  <2>1. ASSUME NEW j \in Keys, mChannelMap'[j] # NoChannel
        PROVE  /\ mChannelMap'[j].groupId \in mChannelGroups'
               /\ mChannels'[mChannelMap'[j].groupId][mChannelMap'[j].offset] = j
    <3>1. CASE j = k
      <4>1. mChannelMap'[j].groupId = g /\ mChannelMap'[j].offset = slot
        BY <1>2, <1>3, <3>1
      <4> QED
        BY <1>30, <3>1, <4>1
    <3>2. CASE j # k
      <4>1. /\ mChannelMap'[j] = mChannelMap[j] /\ mChannelMap[j] \in ChannelIds
            /\ mChannelMap[j] # id
        BY <1>3, <1>6, <2>1, <3>2 DEF ManagerInv, TypeOK
      <4>2. /\ mChannelMap[j].groupId \in mChannelGroups
            /\ mChannels[mChannelMap[j].groupId][mChannelMap[j].offset] = j
        BY <2>1, <4>1 DEF ManagerInv, EntriesMatch
      <4>3. PICK h \in GroupIds, r \in Slots : mChannelMap[j] = [groupId |-> h, offset |-> r]
        BY <4>1 DEF ChannelIds
      <4>4. h \in mChannelGroups /\ mChannels[h][r] = j /\ ~(h = g /\ r = slot)
        BY <4>1, <4>2, <4>3
      <4>5. mChannels'[h][r] = j
        BY <1>30, <4>4
      <4> QED
        BY <4>1, <4>3, <4>4, <4>5
    <3> QED
      BY <3>1, <3>2
  <2>2. ASSUME NEW h \in mChannelGroups', NEW r \in Slots, mChannels'[h][r] # NoKey
        PROVE  mChannelMap'[mChannels'[h][r]] = [groupId |-> h, offset |-> r]
    <3>1. CASE h = g /\ r = slot
      BY <1>3, <3>1
    <3>2. CASE ~(h = g /\ r = slot)
      <4>1. h \in mChannelGroups /\ mChannels'[h][r] = mChannels[h][r]
        <5>1. h \in GroupIds
          BY DEF ManagerInv, TypeOK
        <5>2. CASE h = g
          <6>1. mChannels'[h][r] = slots[r]
            BY <1>30, <3>2, <5>1, <5>2
          <6>2. slots # NoSlots
            BY <2>2, <6>1 DEF NoSlots
          <6> QED
            BY <5>2, <6>1, <6>2
        <5>3. CASE h # g
          BY <1>30, <5>1, <5>3
        <5> QED
          BY <5>2, <5>3
      <4>2. /\ mChannels[h][r] \in Keys
            /\ mChannelMap[mChannels[h][r]] = [groupId |-> h, offset |-> r]
        BY <2>2, <4>1 DEF ManagerInv, EntriesMatch, TypeOK
      <4>3. [groupId |-> h, offset |-> r] # NoChannel
        BY <4>1, ChannelManagerAssumption DEF ChannelIds, ManagerInv, TypeOK
      <4> QED
        BY <1>3, <4>1, <4>2, <4>3
    <3> QED
      BY <3>1, <3>2
  <2> QED
    BY <2>1, <2>2 DEF EntriesMatch
<1>8. ConfigIsEntry'
  BY <1>1, <1>3 DEF ManagerInv, ConfigIsEntry, TypeOK
<1>9. Dir!DirOpen(k)
  BY <1>1, <1>2, <1>6 DEF Dir!DirOpen
<1> QED
  BY <1>4, <1>5, <1>7, <1>8, <1>9 DEF ManagerInv

\* getOrCreateChannel that finds room opens a channel of the directory.
LEMMA CreateInGroup ==
    ASSUME ManagerInv, NEW k \in Keys, createInGroup(k)
    PROVE  ManagerInv' /\ Dir!DirOpen(k)
<1>1. PICK g \in mChannelGroups : createChannel(k, g, mChannels[g], mLiveChannels[g])
  BY DEF createInGroup
<1>2. /\ g \in GroupIds /\ mChannels[g] \in [Slots -> Keys \cup {NoKey}]
      /\ mLiveChannels[g] \in Nat
      /\ mLiveChannels[g] = Cardinality(Occupied(mChannels[g]))
  BY DEF ManagerInv, TypeOK, CountsRight
<1>3. mChannelGroups' = mChannelGroups \cup {g} /\ mChannelMap[k] = NoChannel
  BY DEF createInGroup
<1> QED
  BY <1>1, <1>2, <1>3, CreateKeepsInv

\* So does the one that has to make a group.
LEMMA CreateInNewGroup ==
    ASSUME ManagerInv, NEW k \in Keys, createInNewGroup(k)
    PROVE  ManagerInv' /\ Dir!DirOpen(k)
<1>1. PICK g \in GroupIds : /\ nextGroupId(g)
                            /\ mChannelGroups' = mChannelGroups \cup {g}
                            /\ createChannel(k, g, NoSlots, 0)
  BY DEF createInNewGroup
<1>2. g \notin mChannelGroups
  BY <1>1 DEF nextGroupId, ManagerInv, TypeOK, GroupIds
<1>3. mChannelMap[k] = NoChannel
  BY DEF createInNewGroup
<1> QED
  BY <1>1, <1>2, <1>3, NoSlotsEmpty, CreateKeepsInv

\* closeChannel closes the client's channel in the directory, group and all.
LEMMA CloseChannel ==
    ASSUME ManagerInv, NEW k \in Keys, closeChannel(k)
    PROVE  ManagerInv' /\ Dir!DirClose(k)
<1>1. mChannelMap[k] \in ChannelIds
  BY DEF closeChannel, ManagerInv, TypeOK
<1>2. PICK g \in GroupIds, slot \in Slots : mChannelMap[k] = [groupId |-> g, offset |-> slot]
  BY <1>1 DEF ChannelIds
<1>3. /\ g \in mChannelGroups /\ mChannels[g][slot] # NoKey
      /\ mChannels' = [mChannels EXCEPT ![g] = [mChannels[g] EXCEPT ![slot] = NoKey]]
      /\ mLiveChannels' = [mLiveChannels EXCEPT ![g] = mLiveChannels[g] - 1]
      /\ mChannelGroups' = IF mLiveChannels[g] = 1 THEN mChannelGroups \ {g}
                                                   ELSE mChannelGroups
      /\ mChannelMap' = [mChannelMap EXCEPT ![k] = NoChannel]
      /\ invalid' = invalid \ {k}
      /\ config' = [config EXCEPT ![k] = NoChannel]
  BY <1>2 DEF closeChannel
<1>4. /\ mLiveChannels[g] = Cardinality(Occupied(mChannels[g]))
      /\ mLiveChannels[g] > 0 /\ mLiveChannels[g] \in Nat
      /\ mChannels[g] \in [Slots -> Keys \cup {NoKey}]
  BY <1>3 DEF ManagerInv, CountsRight, TypeOK
<1>5. /\ \A j \in Keys : mChannelMap'[j] = IF j = k THEN NoChannel ELSE mChannelMap[j]
      /\ \A h \in GroupIds : mChannels'[h] = IF h = g THEN [mChannels[g] EXCEPT ![slot] = NoKey]
                                                      ELSE mChannels[h]
      /\ \A h \in GroupIds : mLiveChannels'[h] = IF h = g THEN mLiveChannels[g] - 1
                                                          ELSE mLiveChannels[h]
  BY <1>3 DEF ManagerInv, TypeOK
<1>6. TypeOK'
  BY <1>3, <1>4 DEF ManagerInv, TypeOK
<1>7. CountsRight'
  <2> SUFFICES ASSUME NEW h \in mChannelGroups'
               PROVE  /\ mLiveChannels'[h] = Cardinality(Occupied(mChannels'[h]))
                      /\ mLiveChannels'[h] > 0
    BY DEF CountsRight, Occupied
  <2>1. h \in mChannelGroups /\ h \in GroupIds
    BY <1>3 DEF ManagerInv, TypeOK
  <2>2. CASE h = g
    <3>1. mLiveChannels[g] # 1
      BY <1>3, <2>2
    <3>2. Cardinality(Occupied(mChannels'[g])) = Cardinality(Occupied(mChannels[g])) - 1
      BY <1>3, <1>4, <1>5, FreeSlot
    <3> QED
      BY <1>4, <1>5, <2>2, <3>1, <3>2
  <2>3. CASE h # g
    BY <1>5, <2>1, <2>3 DEF ManagerInv, CountsRight
  <2> QED
    BY <2>2, <2>3
<1>8. EntriesMatch'
  <2>0. mChannels[g][slot] = k
    BY <1>2, <1>1, ChannelManagerAssumption DEF ManagerInv, EntriesMatch
  <2>1. ASSUME NEW j \in Keys, mChannelMap'[j] # NoChannel
        PROVE  /\ mChannelMap'[j].groupId \in mChannelGroups'
               /\ mChannels'[mChannelMap'[j].groupId][mChannelMap'[j].offset] = j
    <3>1. j # k /\ mChannelMap'[j] = mChannelMap[j] /\ mChannelMap[j] \in ChannelIds
      BY <1>5, <2>1 DEF ManagerInv, TypeOK
    <3>2. PICK h \in GroupIds, r \in Slots : mChannelMap[j] = [groupId |-> h, offset |-> r]
      BY <3>1 DEF ChannelIds
    <3>3. h \in mChannelGroups /\ mChannels[h][r] = j
      BY <2>1, <3>1, <3>2 DEF ManagerInv, EntriesMatch
    <3>4. ~(h = g /\ r = slot)
      BY <2>0, <3>1, <3>3
    <3>5. mChannels'[h][r] = j
      BY <1>4, <1>5, <3>3, <3>4
    <3>6. h \in mChannelGroups'
      <4>1. CASE h = g
        <5>1. {slot, r} \subseteq Occupied(mChannels[g]) /\ slot # r
          BY <1>3, <3>3, <3>4, <4>1, ChannelManagerAssumption DEF Occupied
        <5>2. mLiveChannels[g] # 1
          <6> SUFFICES ASSUME Cardinality(Occupied(mChannels[g])) = 1 PROVE FALSE
            BY <1>4
          <6>1. \E x : Occupied(mChannels[g]) = {x}
            BY OccupiedFinite, FS_Singleton
          <6> QED
            BY <5>1, <6>1
        <5> QED
          BY <1>3, <3>3, <5>2
      <4>2. CASE h # g
        BY <1>3, <3>3, <4>2
      <4> QED
        BY <4>1, <4>2
    <3> QED
      BY <3>1, <3>2, <3>5, <3>6
  <2>2. ASSUME NEW h \in mChannelGroups', NEW r \in Slots, mChannels'[h][r] # NoKey
        PROVE  mChannelMap'[mChannels'[h][r]] = [groupId |-> h, offset |-> r]
    <3>1. h \in mChannelGroups /\ h \in GroupIds
      BY <1>3 DEF ManagerInv, TypeOK
    <3>2. ~(h = g /\ r = slot) /\ mChannels'[h][r] = mChannels[h][r]
      BY <1>4, <1>5, <2>2, <3>1
    <3>3. /\ mChannels[h][r] \in Keys
          /\ mChannelMap[mChannels[h][r]] = [groupId |-> h, offset |-> r]
      BY <2>2, <3>1, <3>2 DEF ManagerInv, EntriesMatch, TypeOK
    <3>4. mChannels[h][r] # k
      BY <1>2, <3>2, <3>3
    <3> QED
      BY <1>5, <3>2, <3>3, <3>4
  <2> QED
    BY <2>1, <2>2 DEF EntriesMatch
<1>9. ConfigIsEntry'
  BY <1>3, <1>5 DEF ManagerInv, ConfigIsEntry, TypeOK
<1>10. Dir!DirClose(k)
  BY <1>3 DEF closeChannel, Dir!DirClose
<1> QED
  BY <1>6, <1>7, <1>8, <1>9, <1>10 DEF ManagerInv

\* A client that has a channel is told of it and nothing changes.
LEMMA GetExisting ==
    ASSUME ManagerInv, NEW k \in Keys, getExisting(k)
    PROVE  ManagerInv' /\ UNCHANGED mChannelMap
<1>1. TypeOK'
  BY DEF getExisting, ManagerInv, TypeOK
<1>2. CountsRight' /\ EntriesMatch'
  BY DEF getExisting, ManagerInv, CountsRight, EntriesMatch
<1>3. ConfigIsEntry'
  BY DEF getExisting, ManagerInv, ConfigIsEntry, TypeOK
<1> QED
  BY <1>1, <1>2, <1>3 DEF ManagerInv, getExisting

-----------------------------------------------------------------------------
(* The theorems.                                                           *)

\* A manager without groups satisfies the invariant.
LEMMA InitInv == Init => ManagerInv
  BY NoSlotsEmpty DEF Init, ManagerInv, TypeOK, CountsRight, EntriesMatch, ConfigIsEntry

\* Every step keeps the invariant and is one of the directory or leaves it alone.
LEMMA StepInv == ManagerInv /\ [Next]_vars => ManagerInv' /\ [Dir!DirNext]_mChannelMap
<1> SUFFICES ASSUME ManagerInv, [Next]_vars
             PROVE  ManagerInv' /\ [Dir!DirNext]_mChannelMap
  OBVIOUS
<1>1. CASE UNCHANGED vars
  BY <1>1 DEF vars, ManagerInv, TypeOK, CountsRight, EntriesMatch, ConfigIsEntry
<1>2. CASE Next
  BY <1>2, GetExisting, CreateInGroup, CreateInNewGroup, CloseChannel DEF Next, Dir!DirNext
<1> QED
  BY <1>1, <1>2

\* The invariant holds throughout.
LEMMA ManagerInvAlways == Spec => []ManagerInv
  BY InitInv, StepInv, PTL DEF Spec

\* No FATAL check or at() of the channel bookkeeping can fail.
THEOREM ChannelChecksHold == Spec => []NoFatal
<1>1. ManagerInv => NoFatal
  <2> SUFFICES ASSUME ManagerInv PROVE NoFatal
    OBVIOUS
  <2>1. ASSUME NEW g \in mChannelGroups, HasRoom(g) PROVE Occupied(mChannels[g]) # Slots
    BY <2>1, SlotsFinite, ChannelManagerAssumption DEF ManagerInv, CountsRight, HasRoom
  <2>2. ASSUME NEW k \in Keys, mChannelMap[k] # NoChannel
        PROVE  /\ mChannelMap[k].groupId \in mChannelGroups
               /\ mChannels[mChannelMap[k].groupId][mChannelMap[k].offset] # NoKey
    BY <2>2, ChannelManagerAssumption DEF ManagerInv, EntriesMatch
  <2> QED
    BY <2>1, <2>2 DEF NoFatal
<1> QED
  BY <1>1, ManagerInvAlways, PTL

\* The channel a client was told of and has not closed is its own.
THEOREM ClientsUseOwnChannel == Spec => []ConfigCurrent
<1>1. ManagerInv => ConfigCurrent
  BY DEF ManagerInv, ConfigIsEntry, EntriesMatch, ConfigCurrent
<1> QED
  BY <1>1, ManagerInvAlways, PTL

\* The manager implements the directory of channels: every operation opens one
\* unshared channel, closes one, or changes nothing a client can see.
THEOREM ManagerImplementsDirectory == Spec => ImplementsDirectory
<1>1. Init => Dir!DirInit
  BY DEF Init, Dir!DirInit
<1> QED
  BY <1>1, StepInv, ManagerInvAlways, PTL DEF Spec, ImplementsDirectory, Dir!DirSpec

=============================================================================
