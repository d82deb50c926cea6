SPECIFICATION NetFairSpec
CONSTANTS
    Requests <- AllRequests
    Faults = {"invalid", "resolve", "socket", "unixsocket", "fcntl", "bind", "refused", "unreachable", "signal", "timeout", "poll", "late", "nodelay", "notavail", "reuseaddr", "timeo"}
    Retries = 2
    Timeout = 3
    MaxReconnects = 2
INVARIANTS FdsOwned OkMeansConnected KnownEndpointKept WaitBounded FailureReportedWithoutReuse
PROPERTIES ConnectReturns
CHECK_DEADLOCK FALSE
