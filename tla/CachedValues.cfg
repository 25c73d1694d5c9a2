SPECIFICATION ValuesSpec
CONSTANTS
    value = value
    pin = pin
    malformed = malformed
    Values = {value, pin}
    Releases = {"floor", "refloor", "next", "broken"}
    Content <- Contents
    Floor = "floor"
    Valid = {"b"}
    Tags = {"t1", "t2"}
    Other = "other"
    Revisions = {"c1", "c2", "c3"}
    Document <- Documents
    FirstCommit <- FirstCommits
    Embedded <- EmbeddedModels
    Lists <- Answers
    Configs <- RenderSettings
    Dashed <- Dashes
    Invalid = malformed
    MaxMoves = 1
INVARIANTS
    ServedIsPublished
    CatalogStandsAlone
PROPERTIES
    SuccessIsCurrent
    ValuesEnd
\* Every goroutine ends.
CHECK_DEADLOCK FALSE
