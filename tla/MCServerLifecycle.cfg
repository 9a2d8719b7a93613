SPECIFICATION Spec
CONSTANTS
    Sockets = {s1, s2}
    Requests = {r1, r2}
    s1 = s1 s2 = s2 r1 = r1 r2 = r2
INVARIANTS TypeOK RefCounts ConfirmedIsQuiet
PROPERTIES KeepsPromise ShutdownReturns
CHECK_DEADLOCK FALSE
