\* Two requests, two analyses of one resume, a server that keeps running.
CONSTANTS
    TheResume = TheResume
    None = None
    Requests = {r1, r2}
    Analyses = {a1, a2}
    Resumes <- MCResumes
    ResumeOf <- MCResumeOf
    RetryLimit = 1
    MaxConcurrent = 2
    Offered <- Operations
SPECIFICATION RunningSpec
INVARIANT RollupHasOwner
PROPERTIES
    PipelineSettles
    ProgressBellSettles
\* Every request may have been answered.
CHECK_DEADLOCK FALSE
