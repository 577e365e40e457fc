\* One crashed holder and two contenders: the lock is lost.
SPECIFICATION Spec
CONSTANTS
    Proc = {p1, p2, p3}
    Crashable = {p3}
    Unowned = Unowned
    Missing = Missing
    MaxAttempts = 4
INVARIANTS
    MutualExclusion
