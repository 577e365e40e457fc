\* Six small sets of calls of at most two servers; a tick, a failing write of the
\* log or a shutdown where the set is about it.
SPECIFICATION Spec
CONSTANTS
    c1 = c1
    c2 = c2
    c3 = c3
    s1 = s1
    s2 = s2
    read = read
    close = close
    edit = edit
    run = run
    Calls = {c1, c2, c3}
    Servers = {s1, s2}
    Bindings = {read, close, edit, run}
    Risk <- MCRisk
    SessionOf <- OneSession
    Ttl <- OneTick
    MaxPending = 2
    MaxSession = 1
    MaxNew = 2
    MaxFaults = 1
    Workloads <- MCWorkloads
    Closing = {close}
INVARIANTS
    CallsInv
    ExecutionBacked
    DedupeExact
    NoOrphanReservation
PROPERTIES
    ImplementsGate
    ComesToRest
\* Calls are made once each, and a server that is disposed of does nothing more.
CHECK_DEADLOCK FALSE
