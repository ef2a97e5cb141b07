\* A rule and a budget of a pinned tenant; two requests at a time on one group
\* name, with failing queries and writes; two checks, and every board of three
\* services.
SPECIFICATION HealthSpec
CONSTANTS
    h1 = h1
    g1 = g1
    r1 = r1
    t1 = t1
    bg = bg
    HealthKeys = {h1}
    BudgetKeys = {g1}
    Rules = {r1}
    Targets = {t1}
    Budgets = {bg}
    BudgetModules = {"green"}
    RuleOf <- MCRuleOf
    TargetOf <- MCTargetOf
    BudgetOf <- MCBudgetOf
    LevelOf <- MCLevelOf
    ModuleOf <- MCModuleOf
    WhenOf <- MCWhenOf
    ForOf <- MCForOf
    Pinned = TRUE
    CheckInterval = 1
    MaxAge = 2
    Clients = {p1, p2}
    Names = {"n"}
    Values = {"x"}
    NoGroup = "-"
    TTL = 2
    MaxWrites = 2
    Configs <- MCConfigs
    Services = {"db", "api", "web"}
    LabelOf <- MCLabelOf
    Traffic <- MCTraffic
    EdgeLists <- MCEdgeLists
    MaxRound = 2
CHECK_DEADLOCK FALSE
INVARIANTS
    StaleOnlyByOverlap
    DecidesOnLiveView
    BoardSound
    GoldenRule
PROPERTIES
    EventuallyFresh
    EventuallyRight
    ProbesPaced
