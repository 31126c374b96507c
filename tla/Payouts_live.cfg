CONSTANTS
    t1 = t1
    t2 = t2
    t3 = t3
    NoTx = NoTx
    NoWrite = NoWrite
    Users <- OneUser
    TxIds <- ThreeTxs
    Rewards <- RoundAndPps
    BackendSettings <- AlwaysOn
    UserSettings <- Auto
    Corrections = {0}
    TxFees = {0}
    MaxMoney = 6
    MaxRestarts = 0
SPECIFICATION FairSpec
PROPERTIES QueueDrains
