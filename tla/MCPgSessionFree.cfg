CONSTANTS
    Texts <- MCTexts
    StmtNames <- MCStmtNames
    ArgLists <- MCArgLists
    Unnamed = ""
    Portals = {"", "p1"}
    Cap = 1
    MaxMsgs = 5
    ClientMode = "free"
SPECIFICATION SessionSpec
CHECK_DEADLOCK FALSE
INVARIANT ExecuteMatchesServer
