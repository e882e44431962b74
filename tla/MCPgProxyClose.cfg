CONSTANTS
    Conns <- MCConns
    CloseAfterCancel = TRUE
SPECIFICATION ProxySpec
CHECK_DEADLOCK FALSE
INVARIANT CloseShutsDown
