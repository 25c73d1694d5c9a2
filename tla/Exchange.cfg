SPECIFICATION ExchangeSpec
CONSTANTS
    MaxFrames = 2
    Registry <- MCRegistry
    Configs <- MCConfigs
    Rules <- MCRules
    Replaced <- MCReplaced
    Exchanges <- MCExchanges
    HopByHop <- MCHopByHop
    Inbound <- MCInbound
    Credentials <- MCCredentials
    MaxArrivals = 2
INVARIANTS
    OutcomeHonest
    AnswerIsTrue
    EveryFrameCompletesTheOnion
    SentIsAttributed
PROPERTIES
    NoFalseStall
    StreamIsOver
    RequestEnds
\* A stream, a request and an exchange end.
CHECK_DEADLOCK FALSE
