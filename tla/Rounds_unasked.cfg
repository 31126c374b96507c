CONSTANTS
    Users <- Two
    Blocks <- Two
    Coins = {7}
    Work <- OneWork
    FeePlans <- NoFees
    CoinKinds = {TRUE}
    NoRound = NoRound
    MaxCrashes = 0
SPECIFICATION Spec
INVARIANTS PaidOnlyMature
