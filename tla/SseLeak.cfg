\* A stream that has ended still counts against the maximum of one.
CONSTANTS
    None = None
    Requests = {r1, r2}
    Analyses = {a1}
    Streams = {s1, s2}
    MaxStreams = 1
    Threshold = 2
    Base = 2
    Cap = 3
    MaxLockouts = 2
SPECIFICATION Spec
PROPERTIES
    RefusedOnlyWhenFull
CHECK_DEADLOCK FALSE
