SPECIFICATION Spec
CONSTANTS
  Callers <- MCCallers
  CallsOf <- MCCallsOf
  Settings <- MCSettings
  MaxUnread = 1
  MaxEvents = 1
CHECK_DEADLOCK FALSE
INVARIANT StreamsMatchState
INVARIANT LiveSnapshotEnds
INVARIANT NobodyForgotten
INVARIANT NoForeignAnswer
INVARIANT SyncAnswered
