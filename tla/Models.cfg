\* Two admin requests on up to two models, for analyses and for parsing; one run
\* of two calls.
CONSTANTS
    None = None
    Seed = Seed
    Requests = {q1, q2}
    Models = {1, 2}
    Names = {n1, n2}
    Usages = {"analysis", "resume_parsing"}
    Masters = {k1}
    Runs = {x1}
    UsageOf <- MCUsageOf
    Calls = 2
SPECIFICATION Spec
SYMMETRY MCSymmetry
INVARIANTS
    StoredKeysWerePinged
    NoMixedRun
PROPERTY LoneDeleteKeepsServed
CHECK_DEADLOCK FALSE
