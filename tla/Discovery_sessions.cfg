SPECIFICATION FairSpec
CONSTANTS
    Client = {a, b}
    Filter = {f}
    NONE = NONE
    MaxCount = 4
CHECK_DEADLOCK FALSE
INVARIANTS
    
    
    ClientIsListed
PROPERTIES
    AnswersInKind
    CallsAreAnswered
