SPECIFICATION Spec
CONSTANTS
    Keys = {k1, k2, k3, k4}
    KMaxChannels = 2
    MaxGroupId = 3
    NoKey = NoKey
    NoChannel = NoChannel
INVARIANTS NoFatal ConfigCurrent
PROPERTY ImplementsDirectory
