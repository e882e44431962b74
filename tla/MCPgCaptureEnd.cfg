CONSTANTS
    Texts <- MCTexts
    StmtNames <- MCStmtNames
    ArgLists <- MCArgLists
    Unnamed = ""
    Portals = {""}
    Cap = 2
    MaxMsgs = 3
SPECIFICATION Spec
INVARIANT EndCarriesTx
CHECK_DEADLOCK FALSE
