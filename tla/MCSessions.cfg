SPECIFICATION Spec
SYMMETRY Interchangeable
CONSTANTS
    Tokens = {t1, t2, t3}
    NoToken = NoToken
    Refreshers = {r1, r2}
    Setters = {s1}
    TokenTTL = 1
    RefreshGrace = 1
    MaxLatency = 1
    MaxLogins = 1
    MaxTime = 3
INVARIANTS
    RotatedOnce
    NoTokenDoubling
    RevokedStaysDead
CHECK_DEADLOCK FALSE
