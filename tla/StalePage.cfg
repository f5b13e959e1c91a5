\* Two requests of any kind.
CONSTANTS
    TheResume = TheResume
    None = None
    Requests = {r1, r2}
    Analyses = {a1}
    Resumes <- MCResumes
    ResumeOf <- MCResumeOf
    RetryLimit = 1
    MaxConcurrent = 1
    Offered <- Operations
SPECIFICATION Spec
SYMMETRY MCSymmetry
PROPERTY EditsOfOldVersionsConflict
\* Every request may have been answered.
CHECK_DEADLOCK FALSE
