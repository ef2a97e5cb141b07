\* A rule and a budget in one alert_state, with failed writes, crashes and reloads.
SPECIFICATION Spec
CONSTANTS
    h1 = h1
    g1 = g1
    r1 = r1
    t1 = t1
    bg = bg
    HealthKeys = {h1}
    BudgetKeys = {g1}
    Rules = {r1}
    Targets = {t1}
    Budgets = {bg}
    BudgetModules = {"green"}
    RuleOf <- MCRuleOf
    TargetOf <- MCTargetOf
    BudgetOf <- MCBudgetOf
    LevelOf <- MCLevelOf
    ModuleOf <- MCModuleOf
    WhenOf <- MCWhenOf
    ForOf <- MCShortForOf
    Pinned = FALSE
    CheckInterval = 1
    MaxAge = 1
INVARIANTS
    FiresOnlyAfterFor
    NotificationsAlternate
    RecordsAgree
PROPERTIES
    ClearsAnnounced
