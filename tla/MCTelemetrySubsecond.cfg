\* Searches from their beginning, over timestamps finer than a second and records
\* that their cursors tell apart.
SPECIFICATION MCTelemetrySpec
CONSTANTS
    Second = 2
    None = None
    Ztunnel = {}
    Waypoint = {}
    SpanPool <- MCSpans
    LogPool <- MCLogsApart
    EventPool <- MCEvents
    FlowPool <- MCPoints
    Transport = {3, 4}
    Cluster = {1, 2}
    Asks <- MCFirstAsks
    Reporters = {"source", "destination"}
    Destination = 2
    MaxNow = 2
    MaxCalls = 2
CHECK_DEADLOCK FALSE
INVARIANT
    ScrollComplete
