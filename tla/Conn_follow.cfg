SPECIFICATION FairSpec
CONSTANTS
    Wrap = 6
    QueueSize = 2
    Leads = {2}
    GuessedLead = 2
    Timeout = 1
    MaxCopies = 2
    Maps = {m1, m2}
    Phys = {oneM, twoM}
    Intervals = {1}
    Offsets = {0, 1}
    PreloadedPhy = twoM
    NONE = NONE

    
PROPERTIES
    LostIsNoticed
