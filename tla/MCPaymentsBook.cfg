SPECIFICATION Spec
CONSTANTS
    Clients = {c1}
    Keys = {k1}
    NoKey = NoKey
    Amounts = {2}
    Openings = {3}
    OtherOpenings = {2}
    Targets = {2}
    MaxTxns = 2
    MaxGoals = 0
    MaxReviews = 1
INVARIANTS
    BookIsSourceOfTruth
