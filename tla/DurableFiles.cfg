SPECIFICATION FilesSpec
CONSTANTS
    Openers = {old, current}
    Readers = {reporter}
    old = old
    current = current
    reporter = reporter
    Supports <- Builds
    Newest = 3
    MaxBatches = 1
    MaxCrashes = 1
    Logins = {first, second}
    NamedIntervals = {0, 3}
    MaxInterval = 4
CHECK_DEADLOCK FALSE
INVARIANTS OpenedOnSchema ReportIsOneSnapshot TokenFileIsWhole
PROPERTIES OpeningEnds
