SPECIFICATION Spec
CONSTANTS
    Slots = {0}
    Uids = {u1}
    BadUids = {}
    SessionIds = {s1}
    KFMQQueueSize = 2
    MaxMessages = 2
    NoUid = NoUid
INVARIANT NoDataLoss
CHECK_DEADLOCK FALSE
