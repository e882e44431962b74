CONSTANTS
    Conns <- MCConns
    CloseAfterCancel = TRUE
SPECIFICATION ProxySpec
PROPERTY ServeReturns
 
 
CHECK_DEADLOCK FALSE
