\* One request, two crashes, one failing call, one external change, and a
\* participant that recovery cannot probe.
SPECIFICATION Spec
CONSTANTS
    t1 = t1
    t2 = t2
    s1 = s1
    s2 = s2
    Path = {1, 2, 3}
    InDir = {2}
    Tx = {t1}
    Kind <- OneKind
    Server = {s1}
    Home <- OneHome
    Part = {1, 2}
    Unprobeable = {2}
    Ext = {e1}
    Original = original
    Absent = absent
    MaxCrash = 2
    MaxFault = 1
INVARIANTS
    EvidenceKept
    AllOrNothing
    AcknowledgedIsDurable
    IInv
PROPERTIES
    RecoveryRestoresOnlyItsOwn
    CallsEnd
CHECK_DEADLOCK FALSE
