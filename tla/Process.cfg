\* Two requests at a time, one analysis, the maximum of one stream.
CONSTANTS
    None = None
    Requests = {r1, r2}
    Analyses = {a1}
    Streams = {s1, s2}
    MaxStreams = 1
    Threshold = 2
    Base = 2
    Cap = 3
    MaxLockouts = 2
SPECIFICATION Spec
INVARIANTS
    DrainIsTrue
    NoRequestCut
PROPERTIES
    LockHolds
    StreamEnds
    ShutdownEnds
\* The process may be stopped.
CHECK_DEADLOCK FALSE
