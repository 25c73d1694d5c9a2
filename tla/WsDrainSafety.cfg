SPECIFICATION SessionSpec
CONSTANTS
    Handlers = {a, b}
    Indices = {0, 1}
    Ids = {"i", "j", "k"}
SYMMETRY Symmetry
INVARIANTS
    DrainIsHonest
    OwnCutsBlameNobody
PROPERTIES
    IdsArePinned
\* Everything has drained.
CHECK_DEADLOCK FALSE
