\* ctx is cancelled while the client is connected and idle; neither peer
\* hangs up on its own.
CONSTANTS
    Texts <- MCTexts
    StmtNames <- MCStmtNames
    ArgLists <- MCArgLists
    Unnamed = ""
    Portals = {""}
    Cap = 1
    MaxMsgs = 3
    AuthModes = {"trust"}
    Hangups = {}
    MaxSent = 3

SPECIFICATION ConnSpec

PROPERTY ShutdownEndsRelay

CHECK_DEADLOCK FALSE
