SPECIFICATION LightsFairSpec
CONSTANTS
    NumChannels = 2
    LightStates <- MCLightStates
INVARIANTS StaticShown
PROPERTIES BlinkShows DestructorReturns
CHECK_DEADLOCK FALSE
