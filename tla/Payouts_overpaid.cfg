CONSTANTS
    t1 = t1
    t2 = t2
    t3 = t3
    NoTx = NoTx
    NoWrite = NoWrite
    Users <- OneUser
    TxIds <- TwoTxs
    Rewards <- LargeRound
    BackendSettings <- Raising
    UserSettings <- Manual
    Corrections = {0, 1}
    TxFees = {0}
    MaxMoney = 6
    MaxRestarts = 1
SPECIFICATION Spec
SYMMETRY TxSymmetry
INVARIANTS NeverOverpaid
