---------------------------- MODULE ChannelGroup ----------------------------
(***************************************************************************)
(* One channel group (ChannelGroup.cpp): clients write messages into the   *)
(* queues of their channels and set their bit of the group's event flag;   *)
(* the group's thread waits for the bits, drains the queues under          *)
(* mGroupMutex and calls the sessions.  The binder thread adds and removes *)
(* channels under the same mutex and destroys the group with its last      *)
(* channel.  EventFlag and the message queues are libfmq's, modelled by    *)
(* how they are used: wait takes and clears the write bits in one step.    *)
(***************************************************************************)
EXTENDS Naturals, SequencesExt

CONSTANTS Slots,          \* slots of the group, a subset of Nat
          Uids,           \* uids of clients
          BadUids,        \* clients whose queue may refuse to be read
          SessionIds,
          KFMQQueueSize,  \* kFMQQueueSize
          MaxMessages,    \* bound on the messages clients write
          NoUid           \* an empty slot

ASSUME ChannelGroupAssumption ==
    /\ Slots \subseteq Nat /\ BadUids \subseteq Uids /\ NoUid \notin Uids
    /\ {KFMQQueueSize, MaxMessages} \subseteq Nat

VARIABLES mChannels,     \* the uid of the channel in each slot, or NoUid
          queue,         \* the unread messages of each channel
          toWake,        \* slots whose client has written and not yet set its bit
          flag,          \* the write bits that are set
          sessions,      \* the sessions getSession finds
          blocklist,     \* uids that are no longer served
          mDestructing,
          binder,        \* where the binder thread is in ~ChannelGroup
          thread,        \* where the group's thread is, and its local variables
          written,       \* number of messages written, the next message's stamp
          handled,       \* the messages each channel's sessions got, in order
          skipped        \* messages that were read for a session and not handed over

clientVars == <<toWake, written>>
ghostVars == <<handled, skipped>>
vars == <<mChannels, queue, clientVars, flag, sessions, blocklist, mDestructing,
          binder, thread, ghostVars>>

Kinds == {"work", "hint"}   \* hint stands for hint, targetDuration and mode
Message == [stamp : 1 .. MaxMessages, session : SessionIds, kind : Kinds]

ThreadState == [pc : {"loop", "wait", "woken", "scan", "dispatch", "done"},
                flagState : SUBSET Slots, slot : Slots \cup {0}, messages : Seq(Message)]
NoThread == [pc |-> "loop", flagState |-> {}, slot |-> 0, messages |-> <<>>]
HoldsMutex == thread.pc \in {"scan", "dispatch"}

\* A group is made for its first channel.
Init ==
    /\ \E slot \in Slots, uid \in Uids :
          /\ \A r \in Slots : slot <= r
          /\ mChannels = [s \in Slots |-> IF s = slot THEN uid ELSE NoUid]
    /\ queue = [s \in Slots |-> <<>>]
    /\ toWake = {} /\ flag = {}
    /\ sessions = SessionIds
    /\ blocklist = {}
    /\ mDestructing = FALSE
    /\ binder = "idle"
    /\ thread = NoThread
    /\ written = 0
    /\ handled = [s \in Slots |-> <<>>]
    /\ skipped = {}

-----------------------------------------------------------------------------
(* Clients.                                                                *)

Write(slot) ==
    /\ mChannels[slot] # NoUid
    /\ written < MaxMessages /\ Len(queue[slot]) < KFMQQueueSize
    /\ written' = written + 1
    /\ \E s \in SessionIds, kind \in Kinds :
          queue' = [queue EXCEPT ![slot] =
                      Append(@, [stamp |-> written + 1, session |-> s, kind |-> kind])]
    /\ toWake' = toWake \cup {slot}
    /\ UNCHANGED <<mChannels, flag, sessions, blocklist, mDestructing, binder, thread, ghostVars>>

SetBit(slot) ==
    /\ slot \in toWake
    /\ toWake' = toWake \ {slot}
    /\ flag' = flag \cup {slot}
    /\ UNCHANGED <<mChannels, queue, written, sessions, blocklist, mDestructing, binder,
                   thread, ghostVars>>

\* A session is closed and unregistered.
SessionCloses(s) ==
    /\ s \in sessions
    /\ sessions' = sessions \ {s}
    /\ UNCHANGED <<mChannels, queue, clientVars, flag, blocklist, mDestructing, binder,
                   thread, ghostVars>>

-----------------------------------------------------------------------------
(* The binder thread.                                                      *)

NewQueue(slot) ==
    /\ queue' = [queue EXCEPT ![slot] = <<>>]
    /\ handled' = [handled EXCEPT ![slot] = <<>>]

createChannel(slot) ==
    /\ binder = "idle" /\ ~HoldsMutex
    /\ mChannels[slot] = NoUid /\ \A r \in Slots : r < slot => mChannels[r] # NoUid
    /\ \E uid \in Uids : mChannels' = [mChannels EXCEPT ![slot] = uid]
    /\ NewQueue(slot)
    /\ UNCHANGED <<clientVars, flag, sessions, blocklist, mDestructing, binder, thread, skipped>>

\* removeChannel; the manager destroys the group when it was the last one.
removeChannel(slot) ==
    /\ binder = "idle" /\ ~HoldsMutex
    /\ mChannels[slot] # NoUid
    /\ mChannels' = [mChannels EXCEPT ![slot] = NoUid]
    /\ NewQueue(slot)
    /\ binder' = IF \A r \in Slots \ {slot} : mChannels[r] = NoUid THEN "destruct" ELSE "idle"
    /\ UNCHANGED <<clientVars, flag, sessions, blocklist, mDestructing, thread, skipped>>

SetDestructing ==
    /\ binder = "destruct"
    /\ mDestructing' = TRUE
    /\ binder' = "wake"
    /\ UNCHANGED <<mChannels, queue, clientVars, flag, sessions, blocklist, thread, ghostVars>>

\* Mutant: only the bits of channels that still exist are set: none.
WakeAll_LiveBits ==
    /\ binder = "wake"
    /\ flag' = flag \cup {slot \in Slots : mChannels[slot] # NoUid}
    /\ binder' = "join"
    /\ UNCHANGED <<mChannels, queue, clientVars, sessions, blocklist, mDestructing, thread,
                   ghostVars>>

\* wake(0xffffffff), after which the destructor joins the thread.
WakeAll ==
    /\ binder = "wake"
    /\ flag' = Slots
    /\ binder' = "join"
    /\ UNCHANGED <<mChannels, queue, clientVars, sessions, blocklist, mDestructing, thread,
                   ghostVars>>

-----------------------------------------------------------------------------
(* The group's thread.                                                     *)

ThreadGoes(pc) == thread' = [thread EXCEPT !.pc = pc]
ThreadOnly == UNCHANGED <<mChannels, clientVars, sessions, mDestructing, binder>>

\* The head of the loop.
Loop ==
    /\ thread.pc = "loop"
    /\ ThreadGoes(IF mDestructing THEN "done" ELSE "wait")
    /\ ThreadOnly /\ UNCHANGED <<queue, flag, blocklist, ghostVars>>

\* flag->wait returns with the bits it has cleared.
WaitForBits ==
    /\ thread.pc = "wait" /\ flag # {}
    /\ thread' = [thread EXCEPT !.pc = "woken", !.flagState = flag]
    /\ flag' = {}
    /\ ThreadOnly /\ UNCHANGED <<queue, blocklist, ghostVars>>

\* After the wait: stop, or take mGroupMutex.
AfterWait ==
    /\ thread.pc = "woken"
    /\ ThreadGoes(IF mDestructing THEN "done" ELSE "scan")
    /\ ThreadOnly /\ UNCHANGED <<queue, flag, blocklist, ghostVars>>

NextSlot(slot) == slot \in thread.flagState /\ \A r \in thread.flagState : slot <= r

\* Mutant: one message is read per wake-up.
ScanSlot_ReadOne ==
    /\ thread.pc = "scan" /\ ~mDestructing
    /\ \E slot \in thread.flagState :
          /\ NextSlot(slot) /\ mChannels[slot] # NoUid /\ queue[slot] # <<>>
          /\ queue' = [queue EXCEPT ![slot] = Tail(@)]
          /\ thread' = [thread EXCEPT !.flagState = @ \ {slot}, !.slot = slot, !.pc = "dispatch",
                                      !.messages = <<Head(queue[slot])>>]
    /\ ThreadOnly /\ UNCHANGED <<flag, blocklist, ghostVars>>

\* Mutant: the lowest bit ends the scan.
ScanSlot_FirstOnly ==
    /\ thread.pc = "scan" /\ ~mDestructing
    /\ \E slot \in thread.flagState :
          /\ NextSlot(slot)
          /\ queue' = [queue EXCEPT ![slot] = <<>>]
          /\ thread' = [thread EXCEPT !.flagState = {}, !.slot = slot, !.pc = "dispatch",
                                      !.messages = queue[slot]]
    /\ ThreadOnly /\ UNCHANGED <<flag, blocklist, ghostVars>>

\* The next set bit is dropped; a channel that is there, served and not empty
\* is drained, or its client is put on the blocklist.
ScanSlot ==
    /\ thread.pc = "scan" /\ ~mDestructing
    /\ \E slot \in thread.flagState :
          /\ NextSlot(slot)
          /\ LET uid == mChannels[slot]
                 serve == uid # NoUid /\ uid \notin blocklist /\ queue[slot] # <<>>
             IN  \/ /\ ~serve
                    /\ thread' = [thread EXCEPT !.flagState = @ \ {slot}]
                    /\ UNCHANGED <<queue, blocklist>>
                 \/ /\ serve
                    /\ queue' = [queue EXCEPT ![slot] = <<>>]
                    /\ thread' = [thread EXCEPT !.flagState = @ \ {slot}, !.slot = slot,
                                                !.pc = "dispatch", !.messages = queue[slot]]
                    /\ UNCHANGED blocklist
                 \/ /\ serve /\ uid \in BadUids
                    /\ blocklist' = blocklist \cup {uid}
                    /\ thread' = [thread EXCEPT !.flagState = @ \ {slot}]
                    /\ UNCHANGED queue
    /\ ThreadOnly /\ UNCHANGED <<flag, ghostVars>>

\* The scan ends and the mutex is released.
EndScan ==
    /\ thread.pc = "scan" /\ (mDestructing \/ thread.flagState = {})
    /\ ThreadGoes("loop")
    /\ ThreadOnly /\ UNCHANGED <<queue, flag, blocklist, ghostVars>>

\* How many messages from the first on belong to one report.
BatchSize(msgs) ==
    Cardinality({i \in DOMAIN msgs : \A j \in 1 .. i :
                    msgs[j].kind = "work" /\ msgs[j].session = msgs[1].session})

\* The messages handed over in one call, and the messages consumed by it: the
\* loop over a batch of durations leaves the index at the first message after
\* the batch, and the enclosing loop then steps over that one.
Batch(msgs) ==
    IF Head(msgs).session \notin sessions THEN <<>>
    ELSE SubSeq(msgs, 1, IF Head(msgs).kind = "work" THEN BatchSize(msgs) ELSE 1)

\* Mutant: the batch is not consumed beyond its first message.
Consumed_One(msgs) == 1

Consumed(msgs) ==
    IF Head(msgs).session \in sessions /\ Head(msgs).kind = "work"
    THEN IF BatchSize(msgs) < Len(msgs) THEN BatchSize(msgs) + 1 ELSE Len(msgs)
    ELSE 1

\* One turn of the loop over the messages that were read.
Dispatch ==
    /\ thread.pc = "dispatch" /\ ~mDestructing /\ thread.messages # <<>>
    /\ LET msgs == thread.messages
           n == Consumed(msgs)
       IN  /\ handled' = [handled EXCEPT ![thread.slot] = @ \o Batch(msgs)]
           /\ skipped' = skipped \cup {msgs[i] : i \in {j \in Len(Batch(msgs)) + 1 .. n :
                                                          msgs[j].session \in sessions}}
           /\ thread' = [thread EXCEPT !.messages = SubSeq(msgs, n + 1, Len(msgs))]
    /\ ThreadOnly /\ UNCHANGED <<queue, flag, blocklist>>

EndDispatch ==
    /\ thread.pc = "dispatch" /\ (mDestructing \/ thread.messages = <<>>)
    /\ thread' = [thread EXCEPT !.pc = "scan", !.messages = <<>>]
    /\ ThreadOnly /\ UNCHANGED <<queue, flag, blocklist, ghostVars>>

GroupThread ==
    \/ Loop \/ WaitForBits \/ AfterWait \/ ScanSlot \/ EndScan \/ Dispatch \/ EndDispatch

Destructor == SetDestructing \/ WakeAll

Next ==
    \/ \E slot \in Slots : \/ Write(slot) \/ SetBit(slot)
                           \/ createChannel(slot) \/ removeChannel(slot)
    \/ \E s \in SessionIds : SessionCloses(s)
    \/ Destructor
    \/ GroupThread

Spec == Init /\ [][Next]_vars

\* The threads of the HAL run, and a client that wrote sets its bit.
FairSpec ==
    /\ Spec
    /\ WF_vars(GroupThread) /\ WF_vars(Destructor)
    /\ \A slot \in Slots : WF_vars(SetBit(slot))

-----------------------------------------------------------------------------
(* Properties.                                                             *)

\* Every variable has its type, and no queue exceeds its size.
TypeOK ==
    /\ mChannels \in [Slots -> Uids \cup {NoUid}]
    /\ queue \in [Slots -> Seq(Message)] /\ handled \in [Slots -> Seq(Message)]
    /\ \A slot \in Slots : Len(queue[slot]) <= KFMQQueueSize
    /\ toWake \subseteq Slots /\ flag \subseteq Slots
    /\ sessions \subseteq SessionIds /\ blocklist \subseteq BadUids
    /\ mDestructing \in BOOLEAN
    /\ binder \in {"idle", "destruct", "wake", "join"}
    /\ thread \in ThreadState
    /\ written \in 0 .. MaxMessages
    /\ skipped \subseteq Message

\* While the thread sleeps, a channel with unread messages has its bit set or
\* its client is about to set it: a message written between the thread's last
\* look at the queue and its next wait is not left behind.
NoLostWakeup ==
    thread.pc = "wait" =>
        \A slot \in Slots :
            (queue[slot] # <<>> /\ mChannels[slot] \notin blocklist) => slot \in flag \cup toWake

\* The sessions get the messages of a channel in the order they were written,
\* and none of them twice.
InOrder ==
    \A slot \in Slots : \A i, j \in DOMAIN handled[slot] :
        i < j => handled[slot][i].stamp < handled[slot][j].stamp

\* Every message that is written is read, unless its client is blocked or its
\* channel goes away.
AllRead ==
    \A slot \in Slots :
        queue[slot] # <<>> ~> (queue[slot] = <<>> \/ mChannels[slot] \in blocklist)

\* The destructor returns: the thread stops wherever the request finds it.
DestructorReturns == (binder = "destruct") ~> (thread.pc = "done")

\* "there is not a real risk of data loss" (AdpfTypes.h): a message that was
\* read for a session that exists reaches it.
NoDataLoss == skipped = {}

=============================================================================
