SPECIFICATION Spec
CONSTANTS
    Callers = {a, b}
    Boot = boot
    StartupRetries = 1
    Lifetimes = {1, 2}
    SafetyMargin = 1
    MaxTime = 1

PROPERTY NoDyingTokenHandedOut
CHECK_DEADLOCK FALSE
