\* One turn and one handshake of a conversation, on both platforms.
CONSTANTS
    Turns = {t1}
    Handshakes = {h1}
    Ends = {"quiet", "holds"}
SPECIFICATION FairSpec
INVARIANTS
    AcpTypeOK
    NothingLeftBehind
PROPERTIES
    ExchangeEnds
    ImplementsTurnPort
CHECK_DEADLOCK FALSE
