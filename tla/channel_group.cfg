SPECIFICATION FairSpec
CONSTANTS
    Slots = {0, 1}
    Uids = {u1, u2}
    BadUids = {u2}
    SessionIds = {s1}
    KFMQQueueSize = 2
    MaxMessages = 3
    NoUid = NoUid
INVARIANTS NoLostWakeup InOrder
PROPERTIES AllRead DestructorReturns
CHECK_DEADLOCK FALSE
