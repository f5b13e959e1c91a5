\* Three requests of the candidate and of admins around two resumes.
CONSTANTS
    None = None
    Requests = {r1, r2, r3}
    Files = {f1, f2}
SPECIFICATION Spec
SYMMETRY MCSymmetry
INVARIANTS
    OneParser
    ParseHasOwner
PROPERTIES
    DeactivationSticks
    ParseFollowsLifecycle
\* Every request may have been answered.
CHECK_DEADLOCK FALSE
