\* The server asks for a password; neither peer hangs up on its own.
CONSTANTS
    Texts <- MCTexts
    StmtNames <- MCStmtNames
    ArgLists <- MCArgLists
    Unnamed = ""
    Portals = {""}
    Cap = 1
    MaxMsgs = 3
    AuthModes = {"password"}
    Hangups = {}
    MaxSent = 3

SPECIFICATION ConnSpec

PROPERTY PasswordDelivered

CHECK_DEADLOCK FALSE
