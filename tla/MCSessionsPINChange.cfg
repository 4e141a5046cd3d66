SPECIFICATION Spec
CONSTANTS
    Tokens = {t1, t2, t3}
    NoToken = NoToken
    Refreshers = {r1, r2}
    Setters = {s1, s2}
    TokenTTL = 1
    RefreshGrace = 2
    MaxLatency = 1
    MaxLogins = 1
    MaxTime = 4
INVARIANTS
    NoSessionSurvivesPINChange
CHECK_DEADLOCK FALSE
