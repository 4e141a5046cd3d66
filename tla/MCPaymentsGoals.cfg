SPECIFICATION Spec
CONSTANTS
    Clients = {c1}
    Keys = {k1}
    NoKey = NoKey
    Amounts = {1, 2}
    Openings = {2}
    OtherOpenings = {1}
    Targets = {2}
    MaxTxns = 1
    MaxGoals = 1
    MaxReviews = 0
INVARIANTS
    MoneyConserved
PROPERTIES
    MoneyMovesOnce
