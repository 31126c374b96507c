CONSTANTS
    t1 = t1
    t2 = t2
    t3 = t3
    NoTx = NoTx
    NoWrite = NoWrite
    Users <- TwoUsers
    TxIds <- TwoTxs
    Rewards <- Mixed
    BackendSettings <- Raising
    UserSettings <- FromThree
    Corrections = {0, 1}
    TxFees = {1}
    MaxMoney = 6
    MaxRestarts = 0
SPECIFICATION Spec
SYMMETRY TxSymmetry
INVARIANTS RequestedMatchesQueue NeverOverpaid
