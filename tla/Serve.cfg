SPECIFICATION ServeSpec
CONSTANTS
    HttpRequests = {h1, h2}
    WsRequests = {w1}
    session = session
    Commands <- Verbs
    Row <- Rows
    Number <- Numbers
    Switch <- Switches
    Segments <- Parts
    Port <- Ports
    Versions = {"1.2.3", "2.0.0"}
    Directories = {"d/"}
    Allowed <- Levels
    Garbled = {"?"}
    Invocations <- CommandLines
    Directions = {client, server}
    Callbacks = {c1, c2}
    Threshold = 1
    MaxInvocations = 2
INVARIANTS
    CleanStopIsNeverLate
    HighestLayerWins
    RecordsAreTrue
PROPERTIES
    EveryStopEnds
    StuckHookIsReported
\* The lifecycle returns, a drain ends, a configuration is accepted or not, and
\* a handler returns or its goroutines are gone.
CHECK_DEADLOCK FALSE
