CONSTANTS
    Texts <- MCTexts
    StmtNames <- MCStmtNames
    ArgLists <- MCArgLists
    Unnamed = ""
    Portals = {""}
    Cap = 1
    MaxMsgs = 7
    ClientMode = "driver"
SPECIFICATION SessionSpec
INVARIANT SessionTypeOK
INVARIANT TxStatusAgrees
INVARIANT ExecuteMatchesServer
CHECK_DEADLOCK FALSE
