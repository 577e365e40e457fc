\* Four process instances, two of which may crash in any state.  Two rounds of
\* the loop, so that it can be exhausted.
SPECIFICATION Spec
CONSTANTS
    Proc = {p1, p2, p3, p4}
    Crashable = {p3, p4}
    Unowned = Unowned
    Missing = Missing
    MaxAttempts = 2
INVARIANTS
    ExclusiveUnlessRaced
PROPERTIES
    AcquireEnds
