\* Two mutations on one server, nothing fails: neither is reported as done.
SPECIFICATION Spec
CONSTANTS
    a = a
    b = b
    s1 = s1
    s2 = s2
    r1 = r1
    r2 = r2
    Op = {a, b}
    Server = {s1}
    Repository = {r1}
    Home <- OneServer
    In <- OneRepository
    Provable = {}
    MaxTrouble = 0
PROPERTIES
    ObservedIsCompleted
CHECK_DEADLOCK FALSE
