SPECIFICATION FairSpec
CONSTANTS
    Size = 6
    MaxCommands = 2
    MaxFrames = 2
    NONE = NONE
INVARIANTS
    MessagesInOrder
    HostKnowsState
PROPERTIES
    OverrunByCommandOnly
    
    
    RadioCatchesUp
