SPECIFICATION LinkLiveSpec
CONSTANTS
    Wants2M = TRUE
    SkipsApple = TRUE
    Supports2M = TRUE
    Answers <- Old
    Unprompted <- AllButVersion
    MaxDrops = 2
    MaxAsked = 2
    NONE = NONE
INVARIANT PendingHasTimer
INVARIANT PhyUpdateAgreed
 
