------------------------------- MODULE Alerting -------------------------------
(***************************************************************************)
(* The hub's alerting tick (hub/cmd/hub/alerting.go) for one tenant: the   *)
(* rule evaluator (internal/alerting), the green and AI budget evaluators  *)
(* that share its alert_state, delivery, and the two writes at the end of  *)
(* a tick, each of which can fail and between which the hub can crash.     *)
(*                                                                         *)
(* A StateKey is an opaque member of HealthKeys or BudgetKeys.  A time is  *)
(* kept as the AGE it has now, up to MaxAge: the code only ever compares   *)
(* now.Sub(t) with a configured duration.  A firing row's Since is never   *)
(* read again, so it is not kept.                                          *)
(***************************************************************************)
EXTENDS Naturals

CONSTANTS
    HealthKeys, BudgetKeys,   \* the StateKeys of rules and of budgets
    Rules, Targets, Budgets, BudgetModules,
    RuleOf, TargetOf,         \* the rule and the target of a health key
    BudgetOf, LevelOf,        \* the budget of a budget key; 1 = warn, 2 = over
    ModuleOf,                 \* the budget module ("green", "ai") owning a budget
    WhenOf, ForOf,            \* rule.When and rule.For
    Pinned,                   \* the tenant is the default one or a config project
    CheckInterval,            \* BudgetCheckInterval()
    MaxAge                    \* the bound on ages

Keys == HealthKeys \cup BudgetKeys
Statuses == {"healthy", "degraded", "down", "idle", "absent"}
Whens == {"down", "degraded", "not_healthy"}
Ages == 0..MaxAge
Fresh == [status |-> "ok", age |-> 0]
States == [status : {"ok", "pending", "firing"}, age : Ages]

ASSUME AlertingAssumption ==
    /\ HealthKeys \cap BudgetKeys = {}
    /\ RuleOf \in [HealthKeys -> Rules] /\ TargetOf \in [HealthKeys -> Targets]
    /\ BudgetOf \in [BudgetKeys -> Budgets] /\ LevelOf \in [BudgetKeys -> 1..2]
    /\ ModuleOf \in [Budgets -> BudgetModules]
    /\ WhenOf \in [Rules -> Whens] /\ ForOf \in [Rules -> Ages]
    /\ Pinned \in BOOLEAN
    /\ MaxAge \in Nat /\ CheckInterval \in Ages

VARIABLES
    health,     \* the report: status per target, "absent" when not in it
    usage,      \* month-to-date use per budget: 0 below warn, 1 warn, 2 over
    listed,     \* tenantsToEvaluate includes the tenant
    rules,      \* alertsCfg().Rules and the budgets configured, hot-reloaded
    budgets,
    selected,   \* the health keys whose rule's selector matches their target
    store,      \* alert_state FINAL, per key; status "ok" also when no row
    cached,     \* usageCache: per module, what the last recompute saw
    pc,         \* where the evaluator is in evaluateOnce
    prev, next, notes, matched, tickAge,    \* its locals
    recorded,   \* alert_history: kind of the newest entry per key
    emitted,    \* history: kind of the last notification handed to a channel
    run,        \* history: age of the current run of saved matching ticks
    blamed      \* history: keys a write was lost for, or whose rule or budget
                \* was removed while it was not ok

config == <<rules, budgets, selected>>
world == <<health, usage, listed>>
locals == <<prev, next, notes, matched, tickAge>>
vars == <<health, usage, listed, rules, budgets, selected, store, cached, pc, prev, next,
          notes, matched, tickAge, recorded, emitted, run, blamed>>

\* evaluateOnce has returned (or died): its locals are gone.
EndTick ==
    /\ pc' = "idle"
    /\ prev' = [k \in Keys |-> Fresh] /\ next' = [k \in Keys |-> Fresh]
    /\ notes' = [k \in Keys |-> "none"] /\ matched' = {} /\ tickAge' = 0

NoRun == MaxAge + 1
NoUsage == [age |-> 0, used |-> [b \in Budgets |-> 3]]
NoState == [k \in Keys |-> Fresh]

Init ==
    /\ health = [t \in Targets |-> "healthy"]
    /\ usage = [b \in Budgets |-> 0]
    /\ listed = TRUE
    /\ rules = Rules /\ budgets = Budgets /\ selected = HealthKeys
    /\ store = NoState
    /\ cached = [m \in BudgetModules |-> NoUsage]
    /\ pc = "idle"
    /\ prev = NoState /\ next = NoState /\ notes = [k \in Keys |-> "none"]
    /\ matched = {} /\ tickAge = 0
    /\ recorded = [k \in Keys |-> "none"]
    /\ emitted = [k \in Keys |-> "none"]
    /\ run = [k \in HealthKeys |-> NoRun]
    /\ blamed = {}

-----------------------------------------------------------------------------
(* Evaluate, for one StateKey.                                             *)

ConditionMatches(when, status) ==
    CASE when = "down"        -> status = "down"
      [] when = "degraded"    -> status = "degraded"
      [] when = "not_healthy" -> status \in {"down", "degraded"}

\* match, for a key of a configured rule: the target is in the report, the
\* selector takes it and its status meets the condition.
Matches(k) ==
    /\ RuleOf[k] \in rules
    /\ health[TargetOf[k]] # "absent"
    /\ k \in selected
    /\ ConditionMatches(WhenOf[RuleOf[k]], health[TargetOf[k]])

\* Evaluate's switch: the next state of a key, "ok" standing for no key.
NextHealth(k, st) ==
    IF ~Matches(k) THEN Fresh
    ELSE CASE st.status = "ok"      -> [status |-> "pending", age |-> 0]
           [] st.status = "pending" -> IF st.age >= ForOf[RuleOf[k]]
                                       THEN [status |-> "firing", age |-> 0] ELSE st
           [] st.status = "firing"  -> st

\* The notification Evaluate emits for a key of a configured rule.
NoteHealth(k, st) ==
    CASE st.status = "pending" /\ Matches(k) /\ st.age >= ForOf[RuleOf[k]] -> "fired"
      [] st.status = "firing" /\ ~Matches(k) /\ RuleOf[k] \in rules        -> "resolved"
      [] OTHER                                                             -> "none"

-----------------------------------------------------------------------------
(* EvaluateBudgets, for one StateKey of a configured budget.               *)

Crossed(k, used) == used[BudgetOf[k]] >= LevelOf[k]

NextBudget(k, st, used) ==
    IF ~Crossed(k, used) THEN Fresh
    ELSE IF st.status = "firing" THEN st ELSE [status |-> "firing", age |-> 0]

\* Mutant of NoteBudget: no dedup while firing.
NoteBudgetEveryTick(k, st, used) ==
    CASE Crossed(k, used)                          -> "fired"
      [] ~Crossed(k, used) /\ st.status = "firing" -> "resolved"
      [] OTHER                                     -> "none"

NoteBudget(k, st, used) ==
    CASE Crossed(k, used) /\ st.status # "firing"  -> "fired"
      [] ~Crossed(k, used) /\ st.status = "firing" -> "resolved"
      [] OTHER                                     -> "none"

ModuleOn(m) == \E b \in budgets : ModuleOf[b] = m

\* Mutant of CacheHit: an entry never expires.
CacheHitForever(m) == cached[m] # NoUsage

\* usageCache.get: the entry is younger than the check interval.
CacheHit(m) == cached[m] # NoUsage /\ CheckInterval > 0 /\ cached[m].age < CheckInterval

\* What a recompute for module m returns: the use of its own budgets.
UsageOf(m) == [b \in Budgets |-> IF ModuleOf[b] = m THEN usage[b] ELSE 3]

\* The usage the tick sees for module m when its recompute does not fail.
UsageSeen(m) == IF CacheHit(m) THEN cached[m].used ELSE UsageOf(m)

\* Mutant of NextOfBudget: nothing is carried forward when a recompute fails.
NextOfBudgetClobbering(k, failing) ==
    LET b == BudgetOf[k]
        m == ModuleOf[b] IN
    IF b \in budgets /\ m \notin failing
    THEN NextBudget(k, store[k], UsageSeen(m)) ELSE Fresh

\* evalGreenBudgets / evalAIBudgets for one key: no budget configured in its
\* module, recompute failed (rows of the module are carried forward), or
\* evaluated.  A removed budget's row is not carried by an evaluation.
NextOfBudget(k, failing) ==
    LET b == BudgetOf[k]
        m == ModuleOf[b] IN
    IF ~ModuleOn(m) THEN Fresh
    ELSE IF m \in failing THEN store[k]
    ELSE IF b \in budgets THEN NextBudget(k, store[k], UsageSeen(m)) ELSE Fresh

NoteOfBudget(k, failing) ==
    LET b == BudgetOf[k]
        m == ModuleOf[b] IN
    IF b \in budgets /\ m \notin failing
    THEN NoteBudget(k, store[k], UsageSeen(m)) ELSE "none"

-----------------------------------------------------------------------------
(* The tick.                                                               *)

\* evaluateOnce up to deliver: load the state, evaluate rules and budgets.
\* failing: the modules whose usage recompute fails.  (A failed health
\* computation or load leaves everything as it is until the next tick.)
Evaluate(failing) ==
    /\ pc = "idle" /\ listed
    /\ \A m \in failing : ModuleOn(m) /\ ~CacheHit(m)
    /\ prev' = store
    /\ next' = [k \in Keys |-> IF k \in HealthKeys THEN NextHealth(k, store[k])
                                                   ELSE NextOfBudget(k, failing)]
    /\ notes' = [k \in Keys |-> IF k \in HealthKeys THEN NoteHealth(k, store[k])
                                                    ELSE NoteOfBudget(k, failing)]
    /\ matched' = {k \in HealthKeys : Matches(k)}
    /\ cached' = [m \in BudgetModules |->
                    IF ModuleOn(m) /\ m \notin failing /\ ~CacheHit(m)
                    THEN [age |-> 0, used |-> UsageOf(m)] ELSE cached[m]]
    /\ tickAge' = 0
    /\ blamed' = blamed \cup
                   {k \in Keys : store[k].status # "ok" /\
                      IF k \in HealthKeys THEN RuleOf[k] \notin rules
                                          ELSE BudgetOf[k] \notin budgets}
    /\ pc' = "deliver"
    /\ UNCHANGED <<world, config, store, recorded, emitted, run>>

\* deliver: one Send per note; a failed one is logged and not queued.
Deliver ==
    /\ pc = "deliver"
    /\ emitted' = [k \in Keys |-> IF notes[k] # "none" THEN notes[k] ELSE emitted[k]]
    /\ pc' = "save"
    /\ UNCHANGED <<world, config, store, cached, locals, recorded, run, blamed>>

\* Mutant of Saved: no explicit ok row for a key that is gone.
SavedNextOnly == {k \in Keys : next[k].status # "ok"}

\* The rows diffToSave writes: every key of next, and ok for what was active.
Saved == {k \in Keys : next[k].status # "ok" \/ prev[k].status # "ok"}

SaveAlertStates ==
    /\ pc = "save"
    /\ store' = [k \in Keys |-> IF k \in Saved THEN next[k] ELSE store[k]]
    /\ run' = [k \in HealthKeys |-> IF k \notin matched THEN NoRun
                                    ELSE IF run[k] = NoRun THEN tickAge ELSE run[k]]
    /\ pc' = "history"
    /\ UNCHANGED <<world, config, cached, locals, recorded, emitted, blamed>>

\* The keys that a write of this tick says something new about.
Changed == {k \in Keys : next[k].status # prev[k].status \/ notes[k] # "none"}

\* SaveAlertStates failed: logged, and the tick goes on to the history.
SaveFails ==
    /\ pc = "save"
    /\ blamed' = blamed \cup Changed
    /\ pc' = "history"
    /\ UNCHANGED <<world, config, store, cached, locals, recorded, emitted, run>>

\* Mutant of AppendAlertHistory: resolutions are not recorded.
AppendFiredOnly ==
    /\ pc = "history"
    /\ recorded' = [k \in Keys |-> IF notes[k] = "fired" THEN "fired" ELSE recorded[k]]
    /\ EndTick
    /\ UNCHANGED <<world, config, store, cached, emitted, run, blamed>>

AppendAlertHistory ==
    /\ pc = "history"
    /\ recorded' = [k \in Keys |-> IF notes[k] # "none" THEN notes[k] ELSE recorded[k]]
    /\ EndTick
    /\ UNCHANGED <<world, config, store, cached, emitted, run, blamed>>

AppendFails ==
    /\ pc = "history"
    /\ \E k \in Keys : notes[k] # "none"
    /\ blamed' = blamed \cup {k \in Keys : notes[k] # "none"}
    /\ EndTick
    /\ UNCHANGED <<world, config, store, cached, recorded, emitted, run>>

\* The hub crashes, or is rolled, anywhere in a tick: the usage caches and
\* the rest of the tick are gone.  A crash inside deliver may have sent some.
Crash ==
    /\ \E sent \in SUBSET {k \in Keys : pc = "deliver" /\ notes[k] # "none"} :
          emitted' = [k \in Keys |-> IF k \in sent THEN notes[k] ELSE emitted[k]]
    /\ blamed' = IF pc = "idle" THEN blamed ELSE blamed \cup Changed
    /\ cached' = [m \in BudgetModules |-> NoUsage]
    /\ EndTick
    /\ UNCHANGED <<world, config, store, recorded, run>>

-----------------------------------------------------------------------------
(* What happens around the evaluator.  Evaluate alone reads the report, the *)
(* usage and the configuration, so a change during a tick is one after it. *)

Older(a) == IF a < MaxAge THEN a + 1 ELSE a
OlderState(st) == IF st.status = "pending" THEN [st EXCEPT !.age = Older(st.age)] ELSE st

TimePasses ==
    /\ store' = [k \in Keys |-> OlderState(store[k])]
    /\ next' = [k \in Keys |-> OlderState(next[k])]
    /\ cached' = [m \in BudgetModules |-> IF cached[m] = NoUsage THEN NoUsage
                                          ELSE [cached[m] EXCEPT !.age = Older(cached[m].age)]]
    /\ run' = [k \in HealthKeys |-> IF run[k] = NoRun THEN NoRun ELSE Older(run[k])]
    /\ tickAge' = IF pc = "idle" THEN 0 ELSE Older(tickAge)
    /\ UNCHANGED <<world, config, pc, prev, notes, matched, recorded, emitted, blamed>>

\* A target only shows up in the report of a tenant with recent data.
HealthChanges(t, s) ==
    /\ pc = "idle" /\ listed /\ health[t] # s
    /\ health' = [health EXCEPT ![t] = s]
    /\ UNCHANGED <<usage, listed, config, store, cached, pc, locals, recorded, emitted, run, blamed>>

\* Use accrues with data, and drops back (a new month) with or without.
UsageChanges(b, n) ==
    /\ pc = "idle" /\ usage[b] # n /\ (listed \/ n < usage[b])
    /\ usage' = [usage EXCEPT ![b] = n]
    /\ UNCHANGED <<health, listed, config, store, cached, pc, locals, recorded, emitted, run, blamed>>

\* The condition a key is about holds now.
Wanted(k) ==
    IF k \in HealthKeys THEN Matches(k)
    ELSE BudgetOf[k] \in budgets /\ Crossed(k, usage)

\* ListTenants looks back tenantLookback (7 days): a tenant that is not pinned
\* and stopped sending is not evaluated any more.  That is thousands of ticks
\* after its targets left the report, so the stored state has caught up;
\* month-to-date budgets outlast the look-back.
TenantAgesOut ==
    /\ pc = "idle" /\ listed /\ ~Pinned
    /\ \A t \in Targets : health[t] = "absent"
    /\ \A k \in Keys : (store[k].status = "firing") = Wanted(k)
    /\ listed' = FALSE
    /\ UNCHANGED <<health, usage, config, store, cached, pc, locals, recorded, emitted, run, blamed>>

TenantReturns ==
    /\ ~listed
    /\ listed' = TRUE
    /\ UNCHANGED <<health, usage, config, store, cached, pc, locals, recorded, emitted, run, blamed>>

\* A hot reload of the rules, their selectors or the budgets.
Reload ==
    /\ pc = "idle"
    /\ \/ \E r \in Rules : rules' = (rules \ {r}) \cup ({r} \ rules)
                           /\ UNCHANGED <<budgets, selected>>
       \/ \E b \in Budgets : budgets' = (budgets \ {b}) \cup ({b} \ budgets)
                             /\ UNCHANGED <<rules, selected>>
       \/ \E k \in HealthKeys : selected' = (selected \ {k}) \cup ({k} \ selected)
                                /\ UNCHANGED <<rules, budgets>>
    /\ UNCHANGED <<world, store, cached, pc, locals, recorded, emitted, run, blamed>>

Next ==
    \/ \E failing \in SUBSET BudgetModules : Evaluate(failing)
    \/ Deliver
    \/ SaveAlertStates
    \/ SaveFails
    \/ AppendAlertHistory
    \/ AppendFails
    \/ Crash
    \/ TimePasses
    \/ \E t \in Targets, s \in Statuses : HealthChanges(t, s)
    \/ \E b \in Budgets, n \in 0..2 : UsageChanges(b, n)
    \/ TenantAgesOut
    \/ TenantReturns
    \/ Reload

Spec == Init /\ [][Next]_vars

\* runAlertingEvaluator ticks for ever.  A hub that crash-loops, or a store
\* or a usage query that fails, at every single tick is excluded; any of
\* them may fail again and again, though.
Fairness ==
    /\ SF_vars(Evaluate({})) /\ SF_vars(Deliver) /\ SF_vars(SaveAlertStates)
    /\ WF_vars(AppendAlertHistory \/ AppendFails)
    /\ WF_vars(TimePasses)

FairSpec == Spec /\ Fairness

\* The stronger assumption budgets need, which take a recompute and a save
\* that succeed in the SAME tick: failures and crashes end at some point.
Fault == SaveFails \/ Crash \/ \E failing \in (SUBSET BudgetModules) \ {{}} : Evaluate(failing)

CalmSpec == FairSpec /\ <>[][~Fault]_vars

-----------------------------------------------------------------------------
(* Properties.                                                             *)

AlertTypeOK ==
    /\ health \in [Targets -> Statuses] /\ usage \in [Budgets -> 0..2]
    /\ listed \in BOOLEAN
    /\ rules \subseteq Rules /\ budgets \subseteq Budgets /\ selected \subseteq HealthKeys
    /\ store \in [Keys -> States] /\ prev \in [Keys -> States] /\ next \in [Keys -> States]
    /\ cached \in [BudgetModules -> [age : Ages, used : [Budgets -> 0..3]]]
    /\ pc \in {"idle", "deliver", "save", "history"}
    /\ notes \in [Keys -> {"none", "fired", "resolved"}]
    /\ matched \subseteq HealthKeys /\ tickAge \in Ages
    /\ recorded \in [Keys -> {"none", "fired", "resolved"}]
    /\ emitted \in [Keys -> {"none", "fired", "resolved"}]
    /\ run \in [HealthKeys -> 0..NoRun]
    /\ blamed \subseteq Keys

\* A rule fires only after its condition held at every saved evaluation for
\* at least rule.For, through crashes, failed saves, reloads and skipped
\* ticks (evaluator.go:73-82).
FiresOnlyAfterFor ==
    \A k \in HealthKeys :
        pc = "deliver" /\ notes[k] = "fired" => run[k] # NoRun /\ run[k] >= ForOf[RuleOf[k]]

\* No alert is sent twice in a row: a key whose last notification said
\* "fired" is not announced as fired again before it was resolved (and the
\* other way round), unless a write about it was lost or its rule or budget
\* was taken out of the configuration (evaluator.go:83-87, budgets.go:87-99).
NotificationsAlternate ==
    \A k \in Keys \ blamed :
        pc = "deliver" => /\ notes[k] = "fired" => emitted[k] # "fired"
                          /\ notes[k] = "resolved" => emitted[k] = "fired"

\* Between ticks the stored state, the history and what the channels were
\* told agree about every key, with the same exceptions (alerting.go:113-120).
RecordsAgree ==
    \A k \in Keys \ blamed :
        pc = "idle" => /\ (store[k].status = "firing") = (recorded[k] = "fired")
                       /\ (store[k].status = "firing") = (emitted[k] = "fired")

\* The tick never clears a firing row without announcing it, unless its rule
\* or its budget is no longer configured: a failed usage recompute preserves
\* the budgets' rows (green_budgets.go:105-115, ai_budgets.go:106-116).
ClearsAnnounced ==
    [][ \A k \in Keys : store[k].status = "firing" /\ store'[k].status # "firing"
          => notes[k] = "resolved" \/ k \in blamed ]_vars

\* An alert whose condition stays up ends up firing, and one whose condition
\* stays away - the target recovers or vanishes, the usage drops, the rule,
\* its selector or the budget is edited away - ends up cleared, through any
\* number of failed writes, failed recomputes and crashes (evaluator.go:114-116).
EventuallyRight ==
    \A k \in Keys :
        /\ <>[]Wanted(k) => <>[](store[k].status = "firing")
        /\ <>[]~Wanted(k) => <>[](store[k].status # "firing")

\* internal/green/budgets.go:50-53: a budget rule "resolves (firing->ok) on
\* drop-back or month rollover".
BudgetResolves ==
    \A k \in BudgetKeys :
        <>[](usage[BudgetOf[k]] < LevelOf[k]) => <>[](store[k].status # "firing")
===============================================================================
