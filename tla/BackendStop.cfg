CONSTANTS
    InstantPayoutsEnabled = TRUE
    MaxTasks = 2
SPECIFICATION FairSpec
INVARIANTS TypeOK NothingCutShort HandedOverIsRun CleanStopSaves
PROPERTY StopCompletes
