\* Two servers whose requests want the same file.
SPECIFICATION Spec
CONSTANTS
    t1 = t1
    t2 = t2
    s1 = s1
    s2 = s2
    Path = {1, 2}
    InDir = {2}
    Tx = {t1, t2}
    Kind <- RivalKinds
    Server = {s1, s2}
    Home <- TwoHomes
    Part = {1}
    Unprobeable = {}
    Ext = {}
    Original = original
    Absent = absent
    MaxCrash = 1
    MaxFault = 1
PROPERTIES
    RecoveredBeforeMutation
    NoLostUpdate
    KeepsItsPromise
CHECK_DEADLOCK FALSE
