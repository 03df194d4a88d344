SPECIFICATION FairSpec
CONSTANTS
    Fragment = 14
    CharSigned = TRUE
    NameLengths <- Names
    LastPages <- Pages
    MaxOthers = 6
INVARIANTS
    NamesAreWhole
    ExitHasAllPages
    
PROPERTY ExitsIfAnswered
