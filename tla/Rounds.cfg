CONSTANTS
    Users <- Two
    Blocks <- Two
    Coins = {7, 12}
    Work <- SomeWork
    FeePlans <- SomePlans
    CoinKinds = {TRUE, FALSE}
    NoRound = NoRound
    MaxCrashes = 1
SPECIFICATION Spec
INVARIANTS TypeOK CoinsConserved RewardIsSplitExactly
PROPERTIES SettledByChain
