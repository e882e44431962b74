CONSTANTS
    Texts <- MCTexts
    StmtNames <- MCStmtNames
    ArgLists <- MCArgLists
    Unnamed = ""
    Portals = {""}
    Cap = 2
    MaxMsgs = 4
SPECIFICATION Spec
 
INVARIANT EventsInEmissionOrder
INVARIANT TxCorrelation
INVARIANT ExecuteResolution
CHECK_DEADLOCK FALSE
PROPERTY ImplementsEventStream
