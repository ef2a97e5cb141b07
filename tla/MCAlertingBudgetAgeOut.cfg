\* One budget of a tenant that may stop sending.
SPECIFICATION CalmSpec
CONSTANTS
    h1 = h1
    g1 = g1
    r1 = r1
    t1 = t1
    bg = bg
    HealthKeys = {}
    BudgetKeys = {g1}
    Rules = {}
    Targets = {}
    Budgets = {bg}
    BudgetModules = {"green"}
    RuleOf <- MCNone
    TargetOf <- MCNone
    BudgetOf <- MCBudgetOf
    LevelOf <- MCLevelOf
    ModuleOf <- MCModuleOf
    WhenOf <- MCNone
    ForOf <- MCNone
    Pinned = FALSE
    CheckInterval = 1
    MaxAge = 1
PROPERTIES
    BudgetResolves
