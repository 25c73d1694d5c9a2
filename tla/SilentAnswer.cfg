SPECIFICATION ExchangeSpec
CONSTANTS
    MaxFrames = 2
    Registry <- MCRegistry
    Configs <- MCConfigs
    Rules <- MCRules
    Replaced <- MCReplaced
    Exchanges <- MCExchanges
    HopByHop <- MCHopByHop
    Inbound <- MCInbound
    Credentials <- MCCredentials
    MaxArrivals = 2
INVARIANT
    SilenceMeansGone
\* A stream, a request and an exchange end.
CHECK_DEADLOCK FALSE
