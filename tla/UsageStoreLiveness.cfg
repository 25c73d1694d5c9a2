SPECIFICATION FairSpec
CONSTANTS
    Calls = {c1}
    Closers = {k1, k2}
    QueueCapacity = 1
    BatchCapacity = 2
    Word = 256
PROPERTIES
    CloseReturns
    TurnsSettle
CHECK_DEADLOCK FALSE
