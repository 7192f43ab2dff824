-------------------------- MODULE ChannelDirectory --------------------------
(***************************************************************************)
(* What ChannelManager promises its clients: a process has at most one     *)
(* channel, no two processes share one, and an open channel stays where it *)
(* is until it is closed.  Groups, slots, counts and threads do not exist  *)
(* here; ChannelManager is shown to implement this specification.          *)
(***************************************************************************)
CONSTANTS Keys,        \* client processes, (tgid, uid)
          ChannelIds,  \* places for channels
          NoChannel

VARIABLE assigned      \* the channel of each process

DirInit == assigned = [k \in Keys |-> NoChannel]

DirOpen(k) ==
    /\ assigned[k] = NoChannel
    /\ \E id \in ChannelIds :
          /\ \A j \in Keys : assigned[j] # id
          /\ assigned' = [assigned EXCEPT ![k] = id]

DirClose(k) ==
    /\ assigned[k] # NoChannel
    /\ assigned' = [assigned EXCEPT ![k] = NoChannel]

DirNext == \E k \in Keys : DirOpen(k) \/ DirClose(k)

DirSpec == DirInit /\ [][DirNext]_assigned

=============================================================================
