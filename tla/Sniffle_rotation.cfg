SPECIFICATION Spec
CONSTANTS
    Ports = {s1, s2}
    FirstPort = s1
    Pids = {q1, q2, q3, q4}
    MaxFaults = 1
    Prompt = FALSE
    NONE = NONE
SYMMETRY PidSymmetry
INVARIANTS
    AtMostOneFollower
    ResetsOwnPort
