SPECIFICATION Spec
CONSTANTS
    Requests = {q1, q2}
    NoRequest = NoRequest
    Routes = {"override", "unfreeze", "order", "upi_set", "upi_reset", "sip", "nominee"}
    Codes = {d1, d2}
    NoCode = NoCode
    Challenges = {h1}
    NoChallenge = NoChallenge
    MaxAttempts = 2
    Enforced = FALSE
SYMMETRY Symmetry
INVARIANTS
    CodeAcceptedOnce
    ChallengeConsumedOnce
    TriesBounded
    NoDeadlock
