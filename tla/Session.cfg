\* One browser that signed in earlier: two tabs, two calls, three more requests.
CONSTANTS
    None = None
    Requests = {r1, r2, r3, r4}
    Tabs = {t1, t2}
    Calls = {c1, c2}
SPECIFICATION Spec
SYMMETRY MCSymmetry
INVARIANTS
    RevocationHolds
    QuietLogout
    WaitersAreServed
    RotationConsumes
    RefreshConsumesItsToken
    NoFalseAlarm
    CookieIsGood
CHECK_DEADLOCK FALSE
