SPECIFICATION NetFairSpec
CONSTANTS
    Requests <- AllRequests
    Faults = {"invalid", "resolve", "socket", "unixsocket", "fcntl", "bind", "refused", "unreachable", "signal", "timeout", "poll", "late", "nodelay", "notavail", "reuseaddr", "timeo", "oom"}
    Retries = 2
    Timeout = 3
    MaxReconnects = 1
INVARIANTS NetTypeOK FdsOwned OkMeansConnected WaitBounded FailureReportedWithoutReuse
PROPERTIES ConnectReturns
CHECK_DEADLOCK FALSE
