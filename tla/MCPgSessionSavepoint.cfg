CONSTANTS
    Texts <- MCSpTexts
    StmtNames <- MCStmtNames
    ArgLists <- MCArgLists
    Unnamed = ""
    Portals = {""}
    Cap = 1
    MaxMsgs = 6
    ClientMode = "driver"
SPECIFICATION SessionSpec
CHECK_DEADLOCK FALSE
INVARIANT TxStatusAgrees
