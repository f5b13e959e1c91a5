\* Three requests, two emails, two identities, one account at first.
CONSTANTS
    None = None
    Seed = Seed
    Requests = {q1, q2, q3}
    Emails = {e1, e2}
    SeedEmail = e1
    Identities = {i1, i2}
SPECIFICATION Spec
SYMMETRY MCSymmetry
INVARIANTS
    IdentityStays
    ReplacedStaysOut
    ResetConsumesItsToken
    TokensAreSpent
\* Every request may have been answered.
CHECK_DEADLOCK FALSE
