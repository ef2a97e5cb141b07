\* Two configurations, and no traffic at all.
SPECIFICATION SilentSpec
CONSTANTS
    Configs <- MCConfigs
    Services = {"db", "api", "web"}
    LabelOf <- MCLabelOf
    Traffic <- MCTraffic
    EdgeLists <- MCEdgeLists
    MaxRound = 2
CHECK_DEADLOCK FALSE
INVARIANTS
    SilentFailureIsDown
