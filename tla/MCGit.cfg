\* Two servers that mutate one repository; the participants of one of the two
\* mutations can be told by a probe.
SPECIFICATION Spec
CONSTANTS
    a = a
    b = b
    s1 = s1
    s2 = s2
    r1 = r1
    r2 = r2
    Op = {a, b}
    Server = {s1, s2}
    Repository = {r1}
    Home <- TwoServers
    In <- OneRepository
    Provable = {a}
    MaxTrouble = 2
INVARIANTS
    UnprovedIsFrozen
    ReadyMeansSettled
PROPERTIES
    EffectsAreSerialized
    EverythingEnds
CHECK_DEADLOCK FALSE
