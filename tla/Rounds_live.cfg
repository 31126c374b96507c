CONSTANTS
    Users <- Two
    Blocks <- Two
    Coins = {7}
    Work <- OneWork
    FeePlans <- NoFees
    CoinKinds = {TRUE, FALSE}
    NoRound = NoRound
    MaxCrashes = 1
SPECIFICATION FairSpec
PROPERTIES RoundsSettle
