SPECIFICATION Spec
CONSTANTS
    Callers = {a, b}
    Boot = boot
    StartupRetries = 1
    Lifetimes = {1, 2}
    SafetyMargin = 1
    MaxTime = 1
INVARIANTS
    NoNeedlessExchange
    LeavingPoisonsNobody
PROPERTIES
    CallsReturn
CHECK_DEADLOCK FALSE
