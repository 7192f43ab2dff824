------------------------- MODULE ChannelGroupProofs -------------------------
(***************************************************************************)
(* Proofs about ChannelGroup, for any number of channels, clients,         *)
(* sessions and messages.                                                  *)
(*                                                                         *)
(* A bit that stands for unread messages is nowhere lost (WakeupKept): the *)
(* client is about to set it, it is set, or the thread has taken it and    *)
(* not yet come to it.  The messages of a channel lie in three places, in  *)
(* the order of their stamps: with the sessions, with the thread and in    *)
(* the queue (StampsInOrder).                                              *)
(***************************************************************************)
EXTENDS ChannelGroup, SequenceTheorems, FiniteSetTheorems, TLAPS

\* The bits the thread has taken and still has to look at.
Taken == IF thread.pc \in {"woken", "scan", "dispatch"} THEN thread.flagState ELSE {}

WakeupKept ==
    \A slot \in Slots :
        (queue[slot] # <<>> /\ mChannels[slot] \notin blocklist)
            => slot \in flag \cup toWake \cup Taken

\* An empty slot has no messages, the destructor runs when all slots are
\* empty, and the thread has messages only while it hands them over.
Lifecycle ==
    /\ \A slot \in Slots : mChannels[slot] = NoUid => queue[slot] = <<>>
    /\ binder # "idle" => \A slot \in Slots : mChannels[slot] = NoUid
    /\ mDestructing => binder # "idle"
    /\ thread.pc = "dispatch" => thread.slot \in Slots
    /\ thread.pc # "dispatch" => thread.messages = <<>>

Rising(q) == \A i, j \in 1 .. Len(q) : i < j => q[i].stamp < q[j].stamp
Precedes(p, q) == \A i \in 1 .. Len(p), j \in 1 .. Len(q) : p[i].stamp < q[j].stamp
UpTo(q, n) == \A i \in 1 .. Len(q) : q[i].stamp <= n

StampsInOrder ==
    /\ \A slot \in Slots :
          /\ Rising(handled[slot]) /\ Rising(queue[slot])
          /\ Precedes(handled[slot], queue[slot])
          /\ UpTo(handled[slot], written) /\ UpTo(queue[slot], written)
    /\ Rising(thread.messages) /\ UpTo(thread.messages, written)
    /\ thread.pc = "dispatch" => /\ Precedes(handled[thread.slot], thread.messages)
                                 /\ Precedes(thread.messages, queue[thread.slot])

GroupInv == TypeOK /\ Lifecycle /\ WakeupKept /\ StampsInOrder

-----------------------------------------------------------------------------
(* The dispatch loop.                                                      *)

\* A batch is part of the messages that were read.
LEMMA BatchSizeBound ==
    ASSUME NEW msgs \in Seq(Message)
    PROVE  BatchSize(msgs) \in 0 .. Len(msgs)
<1> DEFINE S == {i \in DOMAIN msgs : \A j \in 1 .. i :
                    msgs[j].kind = "work" /\ msgs[j].session = msgs[1].session}
<1>1. Len(msgs) \in Nat /\ DOMAIN msgs = 1 .. Len(msgs)
  BY LenProperties
<1>2. S \in SUBSET (1 .. Len(msgs))
  BY <1>1
<1>3. IsFiniteSet(1 .. Len(msgs)) /\ Cardinality(1 .. Len(msgs)) <= Len(msgs)
  BY <1>1, FS_Interval
<1> HIDE DEF S
<1>4. IsFiniteSet(S) /\ Cardinality(S) <= Cardinality(1 .. Len(msgs))
  BY <1>2, <1>3, FS_Subset
<1>5. Cardinality(S) \in Nat /\ Cardinality(1 .. Len(msgs)) \in Nat
  BY <1>3, <1>4, FS_CardinalityType
<1>6. Cardinality(S) \in 0 .. Len(msgs)
  BY <1>1, <1>3, <1>4, <1>5
<1>7. QED
  BY <1>6 DEF BatchSize, S

\* One turn consumes at least what it hands over, which is a prefix of the
\* messages, and leaves a suffix.
LEMMA DispatchSplits ==
    ASSUME NEW msgs \in Seq(Message), msgs # <<>>
    PROVE  \E k \in 0 .. Len(msgs), n \in 1 .. Len(msgs) :
              k <= n /\ n = Consumed(msgs) /\ Batch(msgs) = SubSeq(msgs, 1, k)
<1>1. Len(msgs) \in Nat \ {0}
  BY EmptySeq
<1>2. PICK b \in 0 .. Len(msgs) : b = BatchSize(msgs)
  BY BatchSizeBound
<1>3. SubSeq(msgs, 1, 0) = <<>>
  BY <1>1, SubSeqEmpty
<1>4. CASE Head(msgs).session \notin sessions
  <2>1. Batch(msgs) = SubSeq(msgs, 1, 0)
    BY <1>3, <1>4, Zenon DEF Batch
  <2>2. Consumed(msgs) = 1
    BY <1>4, Zenon DEF Consumed
  <2>3. QED
    BY <1>1, <2>1, <2>2
<1>5. CASE Head(msgs).session \in sessions /\ Head(msgs).kind # "work"
  <2>1. Batch(msgs) = SubSeq(msgs, 1, 1)
    BY <1>5, Zenon DEF Batch
  <2>2. Consumed(msgs) = 1
    BY <1>5, Zenon DEF Consumed
  <2>3. QED
    BY <1>1, <2>1, <2>2
<1>6. CASE Head(msgs).session \in sessions /\ Head(msgs).kind = "work"
  <2>1. Batch(msgs) = SubSeq(msgs, 1, b)
    BY <1>2, <1>6, Zenon DEF Batch
  <2>2. Consumed(msgs) = IF b < Len(msgs) THEN b + 1 ELSE Len(msgs)
    BY <1>2, <1>6, Zenon DEF Consumed
  <2>3. Consumed(msgs) \in 1 .. Len(msgs) /\ b <= Consumed(msgs)
    BY <1>1, <2>2
  <2>4. QED
    BY <2>1, <2>3
<1>7. QED
  BY <1>4, <1>5, <1>6

-----------------------------------------------------------------------------
(* Sequences of stamped messages.                                          *)

\* Messages are numbered.
LEMMA StampIsNat == \A m \in Message : m.stamp \in Nat
  BY ChannelGroupAssumption DEF Message

\* An empty queue is in order with everything.
LEMMA EmptyInOrder ==
    /\ Rising(<<>>) /\ \A n \in Nat : UpTo(<<>>, n)
    /\ \A q \in Seq(Message) : Precedes(<<>>, q) /\ Precedes(q, <<>>)
  BY EmptySeq DEF Rising, UpTo, Precedes

\* Writing another message leaves the older ones below the newest number.
LEMMA UpToGrows ==
    ASSUME NEW q \in Seq(Message), NEW n \in Nat, UpTo(q, n)
    PROVE  UpTo(q, n + 1)
  BY StampIsNat, LenProperties, ElementOfSeq DEF UpTo

\* A message with the next stamp goes to the end of a queue.
LEMMA AppendInOrder ==
    ASSUME NEW p \in Seq(Message), NEW q \in Seq(Message), NEW n \in Nat,
           NEW m \in Message, m.stamp = n + 1,
           Rising(q), UpTo(q, n), UpTo(p, n), Precedes(p, q)
    PROVE  /\ Rising(Append(q, m)) /\ UpTo(Append(q, m), n + 1)
           /\ Precedes(p, Append(q, m))
<1> DEFINE r == Append(q, m)
<1>1. /\ Len(q) \in Nat /\ Len(p) \in Nat /\ Len(r) = Len(q) + 1
      /\ \A i \in 1 .. Len(q) : r[i] = q[i]
      /\ r[Len(q) + 1] = m
  BY AppendProperties, LenProperties
<1>2. /\ \A i \in 1 .. Len(q) : q[i].stamp \in Nat
      /\ \A i \in 1 .. Len(p) : p[i].stamp \in Nat
  BY StampIsNat, ElementOfSeq
<1> HIDE DEF r
<1>3. \A i \in 1 .. Len(r) : i \in 1 .. Len(q) \/ i = Len(q) + 1
  BY <1>1
<1>4. Rising(r)
  <2>1. SUFFICES ASSUME NEW i \in 1 .. Len(r), NEW j \in 1 .. Len(r), i < j
                 PROVE  r[i].stamp < r[j].stamp
    BY DEF Rising
  <2>2. i \in 1 .. Len(q)
    BY <1>1, <2>1
  <2>3. CASE j \in 1 .. Len(q)
    BY <1>1, <2>1, <2>2, <2>3 DEF Rising
  <2>4. CASE j = Len(q) + 1
    BY <1>1, <1>2, <2>2, <2>4 DEF UpTo
  <2>5. QED
    BY <1>3, <2>3, <2>4
<1>5. UpTo(r, n + 1)
  BY <1>1, <1>2, <1>3 DEF UpTo
<1>6. Precedes(p, r)
  BY <1>1, <1>2, <1>3 DEF UpTo, Precedes
<1>7. QED
  BY <1>4, <1>5, <1>6 DEF r

\* A prefix of the messages is handed over, a suffix is kept.
LEMMA SplitInOrder ==
    ASSUME NEW h \in Seq(Message), NEW q \in Seq(Message), NEW r \in Seq(Message),
           NEW w \in Nat, NEW k \in 0 .. Len(q), NEW n \in 1 .. Len(q), k <= n,
           Rising(h), Rising(q), Precedes(h, q), Precedes(h, r), Precedes(q, r),
           UpTo(h, w), UpTo(q, w)
    PROVE  LET g == h \o SubSeq(q, 1, k)
               t == SubSeq(q, n + 1, Len(q))
           IN  /\ g \in Seq(Message) /\ t \in Seq(Message)
               /\ Rising(g) /\ Rising(t) /\ Precedes(g, t)
               /\ Precedes(g, r) /\ Precedes(t, r)
               /\ UpTo(g, w) /\ UpTo(t, w)
<1> DEFINE b == SubSeq(q, 1, k)
           g == h \o b
           t == SubSeq(q, n + 1, Len(q))
<1>1. Len(q) \in Nat /\ Len(h) \in Nat /\ k \in Int /\ n \in Int /\ Len(r) \in Nat
  BY LenProperties
<1>2. \A i \in 1 .. Len(q) : q[i] \in Message
  BY ElementOfSeq
<1>3. /\ b \in Seq(Message) /\ Len(b) = k
      /\ \A i \in 1 .. k : b[i] = q[i]
  <2>1. \A i \in 1 .. k : q[i] \in Message
    BY <1>1, <1>2
  <2>2. /\ b \in Seq(Message) /\ Len(b) = IF 1 <= k THEN k - 1 + 1 ELSE 0
        /\ \A i \in 1 .. k - 1 + 1 : b[i] = q[1 + i - 1]
    BY <1>1, <2>1, SubSeqProperties
  <2>3. QED
    BY <1>1, <2>2
<1>4. /\ t \in Seq(Message) /\ Len(t) = Len(q) - n
      /\ \A i \in 1 .. Len(q) - n : t[i] = q[n + i]
  <2>1. \A i \in n + 1 .. Len(q) : q[i] \in Message
    BY <1>1, <1>2
  <2>2. /\ t \in Seq(Message)
        /\ Len(t) = IF n + 1 <= Len(q) THEN Len(q) - (n + 1) + 1 ELSE 0
        /\ \A i \in 1 .. Len(q) - (n + 1) + 1 : t[i] = q[n + 1 + i - 1]
    BY <1>1, <2>1, SubSeqProperties
  <2>3. QED
    BY <1>1, <2>2
<1> HIDE DEF b, t
<1>5. /\ g \in Seq(Message) /\ Len(g) = Len(h) + k
      /\ \A i \in 1 .. Len(h) : g[i] = h[i]
      /\ \A i \in Len(h) + 1 .. Len(h) + k : i - Len(h) \in 1 .. k /\ g[i] = q[i - Len(h)]
  <2>1. /\ g \in Seq(Message) /\ Len(g) = Len(h) + Len(b)
        /\ \A i \in 1 .. Len(h) + Len(b) :
              g[i] = IF i <= Len(h) THEN h[i] ELSE b[i - Len(h)]
    BY <1>3, ConcatProperties
  <2>2. QED
    BY <1>1, <1>3, <2>1
<1> HIDE DEF g
<1>6. \A i \in 1 .. Len(g) : i \in 1 .. Len(h) \/ i \in Len(h) + 1 .. Len(h) + k
  BY <1>1, <1>5
<1>7. \A i \in 1 .. k : i \in 1 .. Len(q)
  BY <1>1
<1>8. \A i \in 1 .. Len(t) : n + i \in 1 .. Len(q) /\ t[i] = q[n + i]
  BY <1>1, <1>4
<1>9. Rising(g)
  <2>1. SUFFICES ASSUME NEW i \in 1 .. Len(g), NEW j \in 1 .. Len(g), i < j
                 PROVE  g[i].stamp < g[j].stamp
    BY DEF Rising
  <2>2. CASE i \in 1 .. Len(h) /\ j \in 1 .. Len(h)
    BY <1>5, <2>1, <2>2 DEF Rising
  <2>3. CASE i \in 1 .. Len(h) /\ j \in Len(h) + 1 .. Len(h) + k
    BY <1>5, <1>7, <2>3 DEF Precedes
  <2>4. CASE i \in Len(h) + 1 .. Len(h) + k /\ j \in Len(h) + 1 .. Len(h) + k
    <3>1. i - Len(h) \in 1 .. Len(q) /\ j - Len(h) \in 1 .. Len(q) /\ i - Len(h) < j - Len(h)
      BY <1>1, <1>5, <1>7, <2>1, <2>4
    <3>2. QED
      BY <1>5, <2>4, <3>1 DEF Rising
  <2>5. QED
    BY <1>1, <1>6, <2>1, <2>2, <2>3, <2>4
<1>10. Rising(t)
  <2>1. SUFFICES ASSUME NEW i \in 1 .. Len(t), NEW j \in 1 .. Len(t), i < j
                 PROVE  t[i].stamp < t[j].stamp
    BY DEF Rising
  <2>2. n + i < n + j
    BY <1>1, <1>4, <2>1
  <2>3. QED
    BY <1>8, <2>2 DEF Rising
<1>11. Precedes(g, t)
  <2>1. SUFFICES ASSUME NEW i \in 1 .. Len(g), NEW j \in 1 .. Len(t)
                 PROVE  g[i].stamp < t[j].stamp
    BY DEF Precedes
  <2>2. CASE i \in 1 .. Len(h)
    BY <1>5, <1>8, <2>2 DEF Precedes
  <2>3. CASE i \in Len(h) + 1 .. Len(h) + k
    <3>1. i - Len(h) \in 1 .. Len(q) /\ i - Len(h) < n + j
      BY <1>1, <1>4, <1>5, <1>7, <2>3
    <3>2. QED
      BY <1>5, <1>8, <2>3, <3>1 DEF Rising
  <2>4. QED
    BY <1>6, <2>2, <2>3
<1>12. Precedes(g, r)
  <2>1. SUFFICES ASSUME NEW i \in 1 .. Len(g), NEW j \in 1 .. Len(r)
                 PROVE  g[i].stamp < r[j].stamp
    BY DEF Precedes
  <2>2. QED
    BY <1>5, <1>6, <1>7 DEF Precedes
<1>13. Precedes(t, r)
  BY <1>8 DEF Precedes
<1>14. UpTo(g, w) /\ UpTo(t, w)
  BY <1>5, <1>6, <1>7, <1>8 DEF UpTo
<1>15. QED
  BY <1>4, <1>5, <1>9, <1>10, <1>11, <1>12, <1>13, <1>14 DEF g, t, b

-----------------------------------------------------------------------------
(* The invariant.                                                          *)

\* A group without channels satisfies the invariant.
LEMMA GroupInvInit == Init => GroupInv
<1> SUFFICES ASSUME Init PROVE GroupInv
  OBVIOUS
<1> USE ChannelGroupAssumption
<1>1. <<>> \in Seq(Message) /\ Len(<<>>) = 0
  BY EmptySeq
<1>2. TypeOK
  <2>1. mChannels \in [Slots -> Uids \cup {NoUid}]
    BY DEF Init
  <2>2. /\ queue \in [Slots -> Seq(Message)] /\ handled \in [Slots -> Seq(Message)]
        /\ \A slot \in Slots : Len(queue[slot]) <= KFMQQueueSize
    BY <1>1 DEF Init
  <2>3. thread \in ThreadState
    BY <1>1 DEF Init, NoThread, ThreadState
  <2>4. written \in 0 .. MaxMessages
    BY DEF Init
  <2>5. QED
    BY <2>1, <2>2, <2>3, <2>4, Zenon DEF Init, TypeOK
<1>3. Lifecycle
  BY DEF Init, Lifecycle, NoThread
<1>4. WakeupKept
  BY DEF Init, WakeupKept
<1>5. \A slot \in Slots : queue[slot] = <<>> /\ handled[slot] = <<>>
  BY DEF Init
<1>6. StampsInOrder
  BY <1>1, <1>5, EmptyInOrder DEF Init, StampsInOrder, NoThread
<1>7. QED
  BY <1>2, <1>3, <1>4, <1>6 DEF GroupInv

\* What ScanSlot does with the bit it drops.
Served(slot) == mChannels[slot] # NoUid /\ mChannels[slot] \notin blocklist /\ queue[slot] # <<>>
Passed(slot) == /\ ~Served(slot)
                /\ thread' = [thread EXCEPT !.flagState = @ \ {slot}]
                /\ UNCHANGED <<queue, blocklist>>
Drained(slot) == /\ queue' = [queue EXCEPT ![slot] = <<>>]
                 /\ thread' = [thread EXCEPT !.flagState = @ \ {slot}, !.slot = slot,
                                             !.pc = "dispatch", !.messages = queue[slot]]
                 /\ UNCHANGED blocklist
Blocked(slot) == /\ mChannels[slot] \in BadUids
                 /\ blocklist' = blocklist \cup {mChannels[slot]}
                 /\ thread' = [thread EXCEPT !.flagState = @ \ {slot}]
                 /\ UNCHANGED queue

\* A step of the scan passes over a slot, drains its queue or blocks its client.
LEMMA ScanCases ==
    ASSUME TypeOK, ScanSlot
    PROVE  /\ thread.pc = "scan"
           /\ UNCHANGED <<mChannels, toWake, written, sessions, mDestructing, binder, flag,
                          handled, skipped>>
           /\ \E slot \in Slots : Passed(slot) \/ Drained(slot) \/ Blocked(slot)
<1>1. PICK slot \in thread.flagState : Passed(slot) \/ Drained(slot) \/ Blocked(slot)
  BY Zenon DEF ScanSlot, Served, Passed, Drained, Blocked
<1>2. slot \in Slots
  BY DEF TypeOK, ThreadState
<1>3. QED
  BY <1>1, <1>2, Zenon DEF ScanSlot, ThreadOnly, clientVars, ghostVars

\* Every step of clients, binder thread and group thread keeps the types.
LEMMA TypesStep == TypeOK /\ Lifecycle /\ [Next]_vars => TypeOK'
<1> SUFFICES ASSUME TypeOK, Lifecycle, [Next]_vars PROVE TypeOK'
  OBVIOUS
<1> USE ChannelGroupAssumption
<1>0. <<>> \in Seq(Message) /\ Len(<<>>) = 0
  BY EmptySeq
<1>1. ASSUME NEW slot \in Slots, Write(slot)
      PROVE  TypeOK'
  <2>1. PICK s \in SessionIds, kind \in Kinds :
           queue' = [queue EXCEPT ![slot] =
                      Append(@, [stamp |-> written + 1, session |-> s, kind |-> kind])]
    BY <1>1 DEF Write
  <2> DEFINE m == [stamp |-> written + 1, session |-> s, kind |-> kind]
  <2>2. written \in 0 .. MaxMessages /\ written < MaxMessages /\ written' = written + 1
    BY <1>1 DEF Write, TypeOK
  <2>3. m \in Message
    BY <2>2 DEF Message
  <2> HIDE DEF m
  <2>4. queue[slot] \in Seq(Message) /\ Len(queue[slot]) \in Nat
    BY LenProperties DEF TypeOK
  <2>5. Append(queue[slot], m) \in Seq(Message) /\ Len(Append(queue[slot], m)) = Len(queue[slot]) + 1
    BY <2>3, <2>4, AppendProperties
  <2>6. queue' = [queue EXCEPT ![slot] = Append(queue[slot], m)]
    BY <2>1 DEF m
  <2>7. Len(Append(queue[slot], m)) <= KFMQQueueSize
    BY <1>1, <2>4, <2>5 DEF Write
  <2>8. queue' \in [Slots -> Seq(Message)] /\ \A r \in Slots : Len(queue'[r]) <= KFMQQueueSize
    BY <2>5, <2>6, <2>7 DEF TypeOK
  <2>9. QED
    BY <1>1, <2>2, <2>8 DEF Write, TypeOK, ghostVars
<1>2. ASSUME NEW slot \in Slots, SetBit(slot)
      PROVE  TypeOK'
  BY <1>2 DEF SetBit, TypeOK, ghostVars
<1>3. ASSUME NEW slot \in Slots, createChannel(slot)
      PROVE  TypeOK'
  BY <1>0, <1>3 DEF createChannel, NewQueue, TypeOK, clientVars
<1>4. ASSUME NEW slot \in Slots, removeChannel(slot)
      PROVE  TypeOK'
  BY <1>0, <1>4 DEF removeChannel, NewQueue, TypeOK, clientVars
<1>5. ASSUME NEW s \in SessionIds, SessionCloses(s)
      PROVE  TypeOK'
  BY <1>5 DEF SessionCloses, TypeOK, clientVars, ghostVars
<1>6. CASE SetDestructing
  BY <1>6 DEF SetDestructing, TypeOK, clientVars, ghostVars
<1>7. CASE WakeAll
  BY <1>7 DEF WakeAll, TypeOK, clientVars, ghostVars
<1>8. CASE Loop
  BY <1>8 DEF Loop, ThreadGoes, ThreadOnly, TypeOK, ThreadState, clientVars, ghostVars
<1>9. CASE WaitForBits
  BY <1>9 DEF WaitForBits, ThreadOnly, TypeOK, ThreadState, clientVars, ghostVars
<1>10. CASE AfterWait
  BY <1>10 DEF AfterWait, ThreadGoes, ThreadOnly, TypeOK, ThreadState, clientVars, ghostVars
<1>11. CASE ScanSlot
  <2>1. PICK slot \in Slots : Passed(slot) \/ Drained(slot) \/ Blocked(slot)
    BY <1>11, ScanCases
  <2>2. queue[slot] \in Seq(Message)
    BY DEF TypeOK
  <2>3. thread' \in ThreadState
    BY <2>1, <2>2 DEF TypeOK, ThreadState, Passed, Drained, Blocked
  <2>4. queue' = queue \/ queue' = [queue EXCEPT ![slot] = <<>>]
    BY <2>1 DEF Passed, Drained, Blocked
  <2>5. /\ queue' \in [Slots -> Seq(Message)]
        /\ \A r \in Slots : Len(queue'[r]) <= KFMQQueueSize
    <3>1. CASE queue' = queue
      BY <3>1, Zenon DEF TypeOK
    <3>2. CASE queue' = [queue EXCEPT ![slot] = <<>>]
      BY <1>0, <3>2 DEF TypeOK
    <3>3. QED
      BY <2>4, <3>1, <3>2
  <2>6. blocklist' \subseteq BadUids
    BY <2>1 DEF TypeOK, Passed, Drained, Blocked
  <2>7. UNCHANGED <<mChannels, toWake, written, sessions, mDestructing, binder, flag,
                    handled, skipped>>
    BY <1>11, ScanCases
  <2>8. QED
    BY <2>3, <2>5, <2>6, <2>7, Zenon DEF TypeOK
<1>12. CASE EndScan
  BY <1>12 DEF EndScan, ThreadGoes, ThreadOnly, TypeOK, ThreadState, clientVars, ghostVars
<1>13. CASE Dispatch
  <2> DEFINE msgs == thread.messages
  <2>1. msgs \in Seq(Message) /\ msgs # <<>> /\ thread.slot \in Slots
    BY <1>13 DEF Dispatch, TypeOK, ThreadState, Lifecycle
  <2>2. PICK k \in 0 .. Len(msgs), n \in 1 .. Len(msgs) :
           k <= n /\ n = Consumed(msgs) /\ Batch(msgs) = SubSeq(msgs, 1, k)
    BY <2>1, DispatchSplits
  <2>3. Len(msgs) \in Nat /\ \A i \in 1 .. Len(msgs) : msgs[i] \in Message
    BY <2>1, LenProperties, ElementOfSeq
  <2>4. Batch(msgs) \in Seq(Message) /\ Len(Batch(msgs)) = k
    <3>1. \A i \in 1 .. k : msgs[i] \in Message
      BY <2>3
    <3>2. /\ SubSeq(msgs, 1, k) \in Seq(Message)
          /\ Len(SubSeq(msgs, 1, k)) = IF 1 <= k THEN k - 1 + 1 ELSE 0
      BY <2>3, <3>1, SubSeqProperties
    <3>3. QED
      BY <2>2, <2>3, <3>2
  <2>5. SubSeq(msgs, n + 1, Len(msgs)) \in Seq(Message)
    <3>1. \A i \in n + 1 .. Len(msgs) : msgs[i] \in Message
      BY <2>3
    <3>2. QED
      BY <2>3, <3>1, SubSeqProperties
  <2>6. handled[thread.slot] \o Batch(msgs) \in Seq(Message)
    BY <2>1, <2>4, ConcatProperties DEF TypeOK
  <2>7. /\ handled' = [handled EXCEPT ![thread.slot] = handled[thread.slot] \o Batch(msgs)]
        /\ skipped' = skipped \cup {msgs[i] : i \in {j \in Len(Batch(msgs)) + 1 .. Consumed(msgs) :
                                                        msgs[j].session \in sessions}}
        /\ thread' = [thread EXCEPT !.messages = SubSeq(msgs, Consumed(msgs) + 1, Len(msgs))]
    BY <1>13 DEF Dispatch
  <2>8. skipped' \subseteq Message
    <3>1. \A i \in k + 1 .. n : msgs[i] \in Message
      BY <2>3
    <3>2. skipped \subseteq Message
      BY DEF TypeOK
    <3>3. QED
      BY <2>2, <2>4, <2>7, <3>1, <3>2
  <2>9. thread' = [thread EXCEPT !.messages = SubSeq(msgs, n + 1, Len(msgs))]
    BY <2>2, <2>7
  <2> HIDE DEF msgs
  <2>10. handled' \in [Slots -> Seq(Message)]
    BY <2>1, <2>6, <2>7 DEF TypeOK
  <2>11. thread' \in ThreadState
    BY <2>5, <2>9 DEF TypeOK, ThreadState
  <2>12. QED
    BY <1>13, <2>8, <2>10, <2>11 DEF Dispatch, ThreadOnly, TypeOK, clientVars
<1>14. CASE EndDispatch
  BY <1>0, <1>14 DEF EndDispatch, ThreadOnly, TypeOK, ThreadState, clientVars, ghostVars
<1>15. CASE UNCHANGED vars
  BY <1>15 DEF vars, TypeOK, clientVars, ghostVars
<1>16. QED
  BY <1>1, <1>2, <1>3, <1>4, <1>5, <1>6, <1>7, <1>8, <1>9, <1>10, <1>11, <1>12, <1>13,
     <1>14, <1>15
  DEF Next, Destructor, GroupThread

\* Channels come and go, and the destructor runs, only as Lifecycle says.
LEMMA LifecycleStep == TypeOK /\ Lifecycle /\ [Next]_vars => Lifecycle'
<1> SUFFICES ASSUME TypeOK, Lifecycle, [Next]_vars PROVE Lifecycle'
  OBVIOUS
<1> USE ChannelGroupAssumption
<1>1. ASSUME NEW slot \in Slots, Write(slot)
      PROVE  Lifecycle'
  BY <1>1 DEF Write, TypeOK, Lifecycle
<1>2. ASSUME NEW slot \in Slots, SetBit(slot)
      PROVE  Lifecycle'
  BY <1>2 DEF SetBit, Lifecycle
<1>3. ASSUME NEW slot \in Slots, createChannel(slot)
      PROVE  Lifecycle'
  BY <1>3 DEF createChannel, NewQueue, TypeOK, Lifecycle
<1>4. ASSUME NEW slot \in Slots, removeChannel(slot)
      PROVE  Lifecycle'
  BY <1>4 DEF removeChannel, NewQueue, TypeOK, Lifecycle
<1>5. ASSUME NEW s \in SessionIds, SessionCloses(s)
      PROVE  Lifecycle'
  BY <1>5 DEF SessionCloses, Lifecycle
<1>6. CASE SetDestructing
  BY <1>6 DEF SetDestructing, Lifecycle
<1>7. CASE WakeAll
  BY <1>7 DEF WakeAll, Lifecycle
<1>8. CASE Loop
  BY <1>8 DEF Loop, ThreadGoes, ThreadOnly, TypeOK, ThreadState, Lifecycle
<1>9. CASE WaitForBits
  BY <1>9 DEF WaitForBits, ThreadOnly, TypeOK, ThreadState, Lifecycle
<1>10. CASE AfterWait
  BY <1>10 DEF AfterWait, ThreadGoes, ThreadOnly, TypeOK, ThreadState, Lifecycle
<1>11. CASE ScanSlot
  <2>1. PICK slot \in Slots : Passed(slot) \/ Drained(slot) \/ Blocked(slot)
    BY <1>11, ScanCases
  <2>2. UNCHANGED <<mChannels, mDestructing, binder>> /\ thread.pc = "scan"
    BY <1>11, ScanCases
  <2>3. queue' = queue \/ queue' = [queue EXCEPT ![slot] = <<>>]
    BY <2>1 DEF Passed, Drained, Blocked
  <2>4. \A r \in Slots : queue[r] = <<>> => queue'[r] = <<>>
    BY <2>3 DEF TypeOK
  <2>5. /\ thread'.pc = "dispatch" => thread'.slot \in Slots
        /\ thread'.pc # "dispatch" => thread'.messages = <<>>
    BY <2>1, <2>2 DEF TypeOK, ThreadState, Lifecycle, Passed, Drained, Blocked
  <2>6. QED
    BY <2>2, <2>4, <2>5, Zenon DEF Lifecycle
<1>12. CASE EndScan
  BY <1>12 DEF EndScan, ThreadGoes, ThreadOnly, TypeOK, ThreadState, Lifecycle
<1>13. CASE Dispatch
  BY <1>13 DEF Dispatch, ThreadOnly, TypeOK, ThreadState, Lifecycle
<1>14. CASE EndDispatch
  BY <1>14 DEF EndDispatch, ThreadOnly, TypeOK, ThreadState, Lifecycle
<1>15. CASE UNCHANGED vars
  BY <1>15 DEF vars, Lifecycle
<1>16. QED
  BY <1>1, <1>2, <1>3, <1>4, <1>5, <1>6, <1>7, <1>8, <1>9, <1>10, <1>11, <1>12, <1>13,
     <1>14, <1>15
  DEF Next, Destructor, GroupThread

\* No step loses a bit that stands for unread messages.
LEMMA WakeupStep == TypeOK /\ Lifecycle /\ WakeupKept /\ [Next]_vars => WakeupKept'
<1> SUFFICES ASSUME TypeOK, Lifecycle, WakeupKept, [Next]_vars PROVE WakeupKept'
  OBVIOUS
<1> USE ChannelGroupAssumption
<1>1. ASSUME NEW slot \in Slots, Write(slot)
      PROVE  WakeupKept'
  BY <1>1 DEF Write, TypeOK, WakeupKept, Taken
<1>2. ASSUME NEW slot \in Slots, SetBit(slot)
      PROVE  WakeupKept'
  BY <1>2 DEF SetBit, WakeupKept, Taken
<1>3. ASSUME NEW slot \in Slots, createChannel(slot)
      PROVE  WakeupKept'
  BY <1>3 DEF createChannel, NewQueue, TypeOK, WakeupKept, Taken, clientVars
<1>4. ASSUME NEW slot \in Slots, removeChannel(slot)
      PROVE  WakeupKept'
  BY <1>4 DEF removeChannel, NewQueue, TypeOK, WakeupKept, Taken, clientVars
<1>5. ASSUME NEW s \in SessionIds, SessionCloses(s)
      PROVE  WakeupKept'
  BY <1>5 DEF SessionCloses, WakeupKept, Taken, clientVars
<1>6. CASE SetDestructing
  BY <1>6 DEF SetDestructing, WakeupKept, Taken, clientVars
<1>7. CASE WakeAll
  BY <1>7 DEF WakeAll, WakeupKept, Taken, clientVars
<1>8. CASE Loop
  BY <1>8 DEF Loop, ThreadGoes, ThreadOnly, TypeOK, ThreadState, WakeupKept, Taken, clientVars
<1>9. CASE WaitForBits
  BY <1>9 DEF WaitForBits, ThreadOnly, TypeOK, ThreadState, WakeupKept, Taken, clientVars
\* With mDestructing there is no channel left that has messages.
<1>10. CASE AfterWait
  BY <1>10 DEF AfterWait, ThreadGoes, ThreadOnly, TypeOK, ThreadState, WakeupKept, Taken,
               Lifecycle, clientVars
<1>11. CASE ScanSlot
  <2>1. PICK slot \in Slots : Passed(slot) \/ Drained(slot) \/ Blocked(slot)
    BY <1>11, ScanCases
  <2>2. UNCHANGED <<mChannels, toWake, flag>> /\ thread.pc = "scan"
    BY <1>11, ScanCases
  <2>3. CASE Passed(slot)
    BY <2>2, <2>3 DEF TypeOK, ThreadState, Lifecycle, WakeupKept, Taken, Passed, Served
  <2>4. CASE Drained(slot)
    BY <2>2, <2>4 DEF TypeOK, ThreadState, WakeupKept, Taken, Drained
  <2>5. CASE Blocked(slot)
    BY <2>2, <2>5 DEF TypeOK, ThreadState, WakeupKept, Taken, Blocked
  <2>6. QED
    BY <2>1, <2>3, <2>4, <2>5
<1>12. CASE EndScan
  BY <1>12 DEF EndScan, ThreadGoes, ThreadOnly, TypeOK, ThreadState, WakeupKept, Taken,
               Lifecycle, clientVars
<1>13. CASE Dispatch
  BY <1>13 DEF Dispatch, ThreadOnly, TypeOK, ThreadState, WakeupKept, Taken, clientVars
<1>14. CASE EndDispatch
  BY <1>14 DEF EndDispatch, ThreadOnly, TypeOK, ThreadState, WakeupKept, Taken, clientVars
<1>15. CASE UNCHANGED vars
  BY <1>15 DEF vars, WakeupKept, Taken, clientVars
<1>16. QED
  BY <1>1, <1>2, <1>3, <1>4, <1>5, <1>6, <1>7, <1>8, <1>9, <1>10, <1>11, <1>12, <1>13,
     <1>14, <1>15
  DEF Next, Destructor, GroupThread

\* No step lets a message overtake another of its channel.
LEMMA StampsStep ==
    TypeOK /\ TypeOK' /\ Lifecycle /\ StampsInOrder /\ [Next]_vars => StampsInOrder'
<1> SUFFICES ASSUME TypeOK, TypeOK', Lifecycle, StampsInOrder, [Next]_vars
             PROVE  StampsInOrder'
  OBVIOUS
<1> USE ChannelGroupAssumption
<1>0. /\ written \in Nat
      /\ \A slot \in Slots : queue[slot] \in Seq(Message) /\ handled[slot] \in Seq(Message)
      /\ thread.messages \in Seq(Message)
  BY DEF TypeOK, ThreadState
<1>1. ASSUME NEW slot \in Slots, Write(slot)
      PROVE  StampsInOrder'
  <2>1. PICK s \in SessionIds, kind \in Kinds :
           queue' = [queue EXCEPT ![slot] =
                      Append(@, [stamp |-> written + 1, session |-> s, kind |-> kind])]
    BY <1>1 DEF Write
  <2> DEFINE m == [stamp |-> written + 1, session |-> s, kind |-> kind]
             q == Append(queue[slot], m)
  <2>2. /\ written' = written + 1 /\ written < MaxMessages /\ written \in 0 .. MaxMessages
        /\ UNCHANGED <<thread, handled>>
    BY <1>1 DEF Write, ghostVars, TypeOK
  <2>3. m \in Message /\ m.stamp = written + 1
    BY <2>2 DEF Message
  <2>4. queue' = [queue EXCEPT ![slot] = q]
    BY <2>1
  <2> HIDE DEF m
  <2>5. /\ Rising(handled[slot]) /\ Rising(queue[slot]) /\ Precedes(handled[slot], queue[slot])
        /\ UpTo(handled[slot], written) /\ UpTo(queue[slot], written)
    BY DEF StampsInOrder
  <2>6. Rising(q) /\ UpTo(q, written + 1) /\ Precedes(handled[slot], q)
    BY <1>0, <2>3, <2>5, AppendInOrder
  <2>7. ASSUME thread.pc = "dispatch", thread.slot = slot
        PROVE  Precedes(thread.messages, q)
    BY <1>0, <2>3, <2>5, <2>7, AppendInOrder DEF StampsInOrder
  <2>8. /\ \A r \in Slots : UpTo(handled[r], written + 1) /\ UpTo(queue[r], written + 1)
        /\ UpTo(thread.messages, written + 1)
    BY <1>0, UpToGrows DEF StampsInOrder
  <2> HIDE DEF q
  <2>9. queue'[slot] = q /\ \A r \in Slots \ {slot} : queue'[r] = queue[r]
    BY <2>4 DEF TypeOK
  <2>10. \A r \in Slots : /\ Rising(queue'[r]) /\ Precedes(handled[r], queue'[r])
                          /\ UpTo(queue'[r], written + 1)
    BY <2>6, <2>8, <2>9 DEF StampsInOrder
  <2>11. thread.pc = "dispatch" => Precedes(thread.messages, queue'[thread.slot])
    BY <2>7, <2>9 DEF StampsInOrder, Lifecycle
  <2>12. QED
    BY <2>2, <2>8, <2>10, <2>11, Zenon DEF StampsInOrder
<1>2. ASSUME NEW slot \in Slots, SetBit(slot)
      PROVE  StampsInOrder'
  BY <1>2, Zenon DEF SetBit, StampsInOrder, ghostVars
\* A channel is made or removed while the thread has no messages of any.
<1>3. ASSUME NEW slot \in Slots, NewQueue(slot), UNCHANGED <<thread, written>>,
             thread.pc # "dispatch"
      PROVE  StampsInOrder'
  <2>1. /\ queue'[slot] = <<>> /\ handled'[slot] = <<>>
        /\ \A r \in Slots \ {slot} : queue'[r] = queue[r] /\ handled'[r] = handled[r]
    BY <1>3 DEF NewQueue, TypeOK
  <2>2. <<>> \in Seq(Message)
    BY EmptySeq
  <2>3. \A r \in Slots :
          /\ Rising(handled'[r]) /\ Rising(queue'[r])
          /\ Precedes(handled'[r], queue'[r])
          /\ UpTo(handled'[r], written) /\ UpTo(queue'[r], written)
    BY <1>0, <2>1, <2>2, EmptyInOrder DEF StampsInOrder
  <2>4. QED
    BY <1>3, <2>3, Zenon DEF StampsInOrder
<1>4. ASSUME NEW slot \in Slots, createChannel(slot) \/ removeChannel(slot)
      PROVE  StampsInOrder'
  BY <1>3, <1>4 DEF createChannel, removeChannel, HoldsMutex, clientVars
<1>5. ASSUME NEW s \in SessionIds, SessionCloses(s)
      PROVE  StampsInOrder'
  BY <1>5, Zenon DEF SessionCloses, StampsInOrder, clientVars, ghostVars
<1>6. CASE SetDestructing \/ WakeAll
  BY <1>6, Zenon DEF SetDestructing, WakeAll, StampsInOrder, clientVars, ghostVars
\* Steps of the thread that touch no message.
<1>7. CASE Loop \/ WaitForBits \/ AfterWait \/ EndScan
  <2>1. UNCHANGED <<queue, handled, written>>
    BY <1>7 DEF Loop, WaitForBits, AfterWait, EndScan, ThreadOnly, clientVars, ghostVars
  <2>2. thread'.messages = thread.messages /\ thread'.pc # "dispatch"
    BY <1>7 DEF Loop, WaitForBits, AfterWait, EndScan, ThreadGoes, TypeOK, ThreadState
  <2>3. QED
    BY <2>1, <2>2, Zenon DEF StampsInOrder
<1>8. CASE ScanSlot
  <2>1. PICK slot \in Slots : Passed(slot) \/ Drained(slot) \/ Blocked(slot)
    BY <1>8, ScanCases
  <2>2. UNCHANGED <<handled, written>> /\ thread.pc = "scan"
    BY <1>8, ScanCases
  <2>3. CASE Passed(slot) \/ Blocked(slot)
    <3>1. UNCHANGED queue /\ thread'.messages = thread.messages /\ thread'.pc # "dispatch"
      BY <2>2, <2>3 DEF Passed, Blocked, TypeOK, ThreadState
    <3>2. QED
      BY <2>2, <3>1, Zenon DEF StampsInOrder
  <2>4. CASE Drained(slot)
    <3>1. /\ thread'.messages = queue[slot] /\ thread'.slot = slot
          /\ queue'[slot] = <<>> /\ \A r \in Slots \ {slot} : queue'[r] = queue[r]
      BY <2>4 DEF Drained, TypeOK, ThreadState
    <3>2. /\ Precedes(handled[slot], queue[slot]) /\ Rising(queue[slot])
          /\ UpTo(queue[slot], written)
      BY DEF StampsInOrder
    <3>3. \A r \in Slots : /\ Rising(queue'[r]) /\ UpTo(queue'[r], written)
                           /\ Precedes(handled[r], queue'[r])
      BY <1>0, <3>1, EmptyInOrder DEF StampsInOrder
    <3>4. Precedes(queue[slot], queue'[slot])
      BY <1>0, <3>1, EmptyInOrder
    <3>5. QED
      BY <2>2, <3>1, <3>2, <3>3, <3>4, Zenon DEF StampsInOrder
  <2>5. QED
    BY <2>1, <2>3, <2>4
<1>9. CASE Dispatch
  <2> DEFINE msgs == thread.messages
             at == thread.slot
  <2>1. /\ msgs # <<>> /\ at \in Slots /\ thread.pc = "dispatch"
        /\ UNCHANGED <<queue, written>>
    BY <1>9 DEF Dispatch, ThreadOnly, clientVars, Lifecycle
  <2>2. PICK k \in 0 .. Len(msgs), n \in 1 .. Len(msgs) :
           k <= n /\ n = Consumed(msgs) /\ Batch(msgs) = SubSeq(msgs, 1, k)
    BY <1>0, <2>1, DispatchSplits
  <2> DEFINE g == handled[at] \o SubSeq(msgs, 1, k)
             t == SubSeq(msgs, n + 1, Len(msgs))
  <2>3. handled' = [handled EXCEPT ![at] = g] /\ thread' = [thread EXCEPT !.messages = t]
    BY <1>9, <2>2 DEF Dispatch
  <2>4. /\ Rising(handled[at]) /\ Rising(msgs) /\ Precedes(handled[at], msgs)
        /\ Precedes(handled[at], queue[at]) /\ Precedes(msgs, queue[at])
        /\ UpTo(handled[at], written) /\ UpTo(msgs, written)
    BY <2>1 DEF StampsInOrder
  <2>5. /\ Rising(g) /\ Rising(t) /\ Precedes(g, t)
        /\ Precedes(g, queue[at]) /\ Precedes(t, queue[at])
        /\ UpTo(g, written) /\ UpTo(t, written)
    <3> HIDE DEF msgs, at
    <3>1. msgs \in Seq(Message) /\ handled[at] \in Seq(Message) /\ queue[at] \in Seq(Message)
      BY <1>0, <2>1 DEF msgs
    <3>2. QED
      BY <1>0, <2>2, <2>4, <3>1, SplitInOrder
  <2> HIDE DEF g, t
  <2>6. /\ thread'.messages = t /\ thread'.slot = at /\ thread'.pc = "dispatch"
        /\ handled'[at] = g /\ \A r \in Slots \ {at} : handled'[r] = handled[r]
    BY <2>1, <2>3 DEF TypeOK, ThreadState
  <2>7. \A r \in Slots : /\ Rising(handled'[r]) /\ UpTo(handled'[r], written)
                         /\ Precedes(handled'[r], queue[r])
    BY <2>5, <2>6 DEF StampsInOrder
  <2>8. QED
    BY <2>1, <2>5, <2>6, <2>7, Zenon DEF StampsInOrder
<1>10. CASE EndDispatch
  <2>1. UNCHANGED <<queue, handled, written>>
    BY <1>10 DEF EndDispatch, ThreadOnly, clientVars, ghostVars
  <2>2. thread'.messages = <<>> /\ thread'.pc # "dispatch"
    BY <1>10 DEF EndDispatch, TypeOK, ThreadState
  <2>3. Rising(<<>>) /\ UpTo(<<>>, written)
    BY <1>0, EmptyInOrder
  <2>4. QED
    BY <2>1, <2>2, <2>3, Zenon DEF StampsInOrder
<1>11. CASE UNCHANGED vars
  BY <1>11, Zenon DEF vars, StampsInOrder, clientVars, ghostVars
<1>12. QED
  BY <1>1, <1>2, <1>4, <1>5, <1>6, <1>7, <1>8, <1>9, <1>10, <1>11
  DEF Next, Destructor, GroupThread

\* The invariant holds throughout.
LEMMA GroupAlways == Spec => []GroupInv
<1>1. GroupInv /\ [Next]_vars => GroupInv'
  BY TypesStep, LifecycleStep, WakeupStep, StampsStep DEF GroupInv
<1>2. QED
  BY <1>1, GroupInvInit, PTL DEF Spec

-----------------------------------------------------------------------------
(* Theorems.                                                               *)

\* Every variable keeps its type, and no client's queue exceeds its size.
THEOREM GroupTypeCorrect == Spec => []TypeOK
<1>1. GroupInv => TypeOK
  BY DEF GroupInv
<1>2. QED
  BY <1>1, GroupAlways, PTL

\* The group's thread never sleeps over unread messages of a client it
\* serves: the bit is set, or the client is about to set it.
THEOREM WakeupsAreKept == Spec => []NoLostWakeup
<1>1. GroupInv => NoLostWakeup
  BY DEF GroupInv, WakeupKept, Taken, NoLostWakeup
<1>2. QED
  BY <1>1, GroupAlways, PTL

\* Sessions get the messages of a channel in the order they were written and
\* none twice, whatever batches runChannelThread makes of them.
THEOREM MessagesInOrder == Spec => []InOrder
<1>1. GroupInv => InOrder
  <2>1. SUFFICES ASSUME GroupInv, NEW slot \in Slots PROVE
                 \A i, j \in DOMAIN handled[slot] :
                    i < j => handled[slot][i].stamp < handled[slot][j].stamp
    BY DEF InOrder
  <2>2. handled[slot] \in Seq(Message) /\ Rising(handled[slot])
    BY <2>1 DEF GroupInv, TypeOK, StampsInOrder
  <2>3. DOMAIN handled[slot] = 1 .. Len(handled[slot])
    BY <2>2, LenProperties
  <2>4. QED
    BY <2>2, <2>3 DEF Rising
<1>2. QED
  BY <1>1, GroupAlways, PTL

=============================================================================
