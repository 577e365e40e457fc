\* Moves, undos of moves, recovery, crashes, faults and other programs.
SPECIFICATION Spec
CONSTANTS
    m1 = m1
    m2 = m2
    u1 = u1
    o1 = o1
    o2 = o2
    x1 = x1
    Paths = {1, 2, 3}
    InDir = {3}
    Calls = {m1, m2, u1}
    Files = {o1, o2}
    Foreign = {x1}
    None = None
    Recovery = Recovery
    Workloads <- MCWorkloads
INVARIANTS
    NoFileLost
    RecordsAgree
    RecoveredBeforeMove
PROPERTIES
    EndsWhole
    AllEnd
\* When every call is answered and no run is under way, nothing is left to do.
CHECK_DEADLOCK FALSE
