SPECIFICATION Spec
CONSTANTS
    Calls = {c1, c2, c3}
    Closers = {k1}
    QueueCapacity = 1
    BatchCapacity = 2
    Word = 256
SYMMETRY Symmetry
INVARIANTS
    TypeOK
    FinalReportBalances
    CleanCloseLosesNothing
    NoReplay
PROPERTIES
    NoArrivalWhileDraining
    LossRecordsAdvance
    ImplementsLedger
CHECK_DEADLOCK FALSE
