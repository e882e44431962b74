CONSTANTS
    Texts <- MCTexts
    StmtNames <- MCStmtNames
    ArgLists <- MCArgLists
    Unnamed = ""
    Portals = {""}
    Cap = 1
    MaxMsgs = 3
    AuthModes = {"trust", "password", "reject"}
    Hangups = {"client", "server"}
    MaxSent = 3

SPECIFICATION ConnSpec

INVARIANTS
    ConnTypeOK
    RelayInOrder
    CaptureAhead

PROPERTIES
    RelayEnds
    Delivery

\* A relayed connection ends: once relay has returned and both sockets are
\* closed no step is enabled.
CHECK_DEADLOCK FALSE
