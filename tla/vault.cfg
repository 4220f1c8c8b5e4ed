SPECIFICATION Spec
CHECK_DEADLOCK FALSE
SYMMETRY VaultSymmetry
CONSTANTS
    NumFiles = 2
    Procs = {p1, p2}
    Passwords = {w1, w2}
    NoOne = nobody
    MaxCommands = 3
    MaxFaults = 1
INVARIANTS
    TypeOK
    KeyKept
    OnePassword
    PageUnderItsPassword
PROPERTY
    ImplementsStore
