CONSTANTS
    Conns <- MCConns
    CloseAfterCancel = FALSE
SPECIFICATION ProxySpec
INVARIANT ProxyTypeOK
INVARIANT WaitGroupCount
CHECK_DEADLOCK FALSE
