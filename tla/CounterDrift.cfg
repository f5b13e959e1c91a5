\* A create, a profile update and a deletion of one resume.
CONSTANTS
    None = None
    Requests = {r1, r2, r3}
    Files = {f1}
SPECIFICATION Spec
INVARIANT CounterStaysReadable
CHECK_DEADLOCK FALSE
