SPECIFICATION Spec
CONSTANTS
    Requests = {r1, r2, r3}
    Ip = {i1, i2}
    User = {u1, u2}
    Hash = {h1, h2}
    i1 = i1
    i2 = i2
    u1 = u1
    u2 = u2
    h1 = h1
    h2 = h2
    MaxSimultaneous = 2
    MaxPerDay = 2
    Menu <- AllMenu
    MaxRestarts = 1
    NONE = NONE
SYMMETRY RequestSymmetry
 
INVARIANT KnownIsStored
 
INVARIANT StoredIsKnown
 
 
