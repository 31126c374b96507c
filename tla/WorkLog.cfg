CONSTANTS
    MaxMessages = 3
    MaxCrashes = 2
    MaxSwitches = 1
    TornWrites = FALSE
    StatsExpire = FALSE
SPECIFICATION Spec
INVARIANTS TypeOK CountedOnce WrittenIsCounted PaidOneWay PaymentsAreListed
PROPERTIES NewWorkIsCounted ImplementsAccount
