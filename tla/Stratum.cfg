CONSTANTS
    n1 = n1
    n2 = n2
    NoShare = NoShare
    NoBlock = NoBlock
    Coins = {1, 2}
    Instances <- Passing
    ChainId <- DogeChainId
    WorksetSizeLimit = 2
    Threads = {t1}
    Blocks = {b1, b2}
    Versions = {1}
    Nonces = {x1, x2}
    MaxTasks = 1
    MaxShares = 2
    MaxTemplates = 3
    MaxEvents = 4
SPECIFICATION Spec
SYMMETRY Symmetric
INVARIANTS NoDanglingWork NewestIsWhole CreditedForItsBlock SharesCountOnce RoundHasItsWork OneRoundPerBlock MergedBlocksLinked
CHECK_DEADLOCK FALSE
