\* A rolled-back transaction and a later one on the same file.
SPECIFICATION Spec
CONSTANTS
    t1 = t1
    t2 = t2
    s1 = s1
    s2 = s2
    Path = {1, 2}
    InDir = {2}
    Tx = {t1, t2}
    Kind <- RivalKinds
    Server = {s1}
    Home <- SameHome
    Part = {1}
    Unprobeable = {}
    Ext = {}
    Original = original
    Absent = absent
    MaxCrash = 1
    MaxFault = 0
INVARIANTS
    LaterCommitDoesNotBlock
CHECK_DEADLOCK FALSE
