\* Searches and the map over nine spans, four logs and five events of two tenants,
\* their times finer than a second; a workload seen by two proxies, and the
\* readings of a pod.
SPECIFICATION MCTelemetrySpec
CONSTANTS
    Second = 2
    None = None
    Ztunnel = {}
    Waypoint = {}
    SpanPool <- MCSpans
    LogPool <- MCLogs
    EventPool <- MCEvents
    FlowPool <- MCPoints
    Transport = {3, 4}
    Cluster = {1, 2}
    Asks <- MCAsks
    Reporters = {"source", "destination"}
    Destination = 2
    MaxNow = 3
    MaxCalls = 2
CHECK_DEADLOCK FALSE
INVARIANTS
    ScrollAccounted
    TenantsIsolated
    MapSound
    ResolvedMeansQuiet
    NoPhantomTraffic
