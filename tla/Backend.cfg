\* Three concurrent requests of any kind around one analysis.
CONSTANTS
    TheResume = TheResume
    None = None
    Requests = {r1, r2, r3}
    Analyses = {a1}
    Resumes <- MCResumes
    ResumeOf <- MCResumeOf
    RetryLimit = 1
    MaxConcurrent = 1
    Offered <- Operations
SPECIFICATION Spec
SYMMETRY MCSymmetry
INVARIANTS
    CompletedIsWhole
    NoSilentAbandon
    CompletionBellIsTrue
    CascadeInOrder
    OneRunner
    StepsInOrder
    AppliedOncePerRun
PROPERTIES
    NoLostResumeWrite
    FollowsLifecycle
\* Every request may have been answered.
CHECK_DEADLOCK FALSE
