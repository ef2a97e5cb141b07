---------------------------- MODULE Alerting_proofs ----------------------------
(***************************************************************************)
(* Proofs about Alerting for every set of rules, targets and budgets.      *)
(***************************************************************************)
EXTENDS Alerting, TLAPS

Firing(st) == st.status = "firing"

\* A stored health row and the run of matching ticks it stands for.
RunInv ==
    \A k \in HealthKeys :
        /\ store[k].status = "ok" <=> run[k] = NoRun
        /\ store[k].status = "pending" => run[k] = store[k].age

\* What a tick has computed from the store, until it saves.
TickInv ==
    pc \in {"deliver", "save"} =>
        /\ \A k \in Keys : prev[k].status = store[k].status
        /\ \A k \in HealthKeys :
             /\ k \in matched <=> next[k].status # "ok"
             /\ store[k].status = "ok" /\ k \in matched
                  => next[k].status = "pending" /\ next[k].age = tickAge
             /\ store[k].status = "pending" /\ next[k].status = "pending"
                  => next[k].age = store[k].age
             /\ Firing(store[k]) /\ k \in matched => Firing(next[k])
             /\ notes[k] = "fired"
                  => store[k].status = "pending" /\ store[k].age >= ForOf[RuleOf[k]]

\* A note tells exactly the firing transitions of the keys nothing was lost for.
NoteInv ==
    pc # "idle" =>
        \A k \in Keys \ blamed :
            /\ notes[k] = "fired" => ~Firing(prev[k]) /\ Firing(next[k])
            /\ notes[k] = "resolved" => Firing(prev[k]) /\ ~Firing(next[k])
            /\ notes[k] = "none" => (Firing(prev[k]) <=> Firing(next[k]))

\* Store, channels and history at every point of the tick.
AgreeInv ==
    \A k \in Keys \ blamed :
        /\ pc \in {"idle", "deliver"} =>
             /\ Firing(store[k]) <=> emitted[k] = "fired"
             /\ Firing(store[k]) <=> recorded[k] = "fired"
        /\ pc \in {"save", "history"} =>
             /\ emitted[k] = "fired" <=> Firing(next[k])
             /\ recorded[k] = "fired" <=> Firing(prev[k])
        /\ pc = "history" => (Firing(store[k]) <=> Firing(next[k]))

AlertInv == AlertTypeOK /\ RunInv /\ TickInv /\ NoteInv /\ AgreeInv

-----------------------------------------------------------------------------
(* What the evaluators compute for one key.                                *)

\* A key nobody evaluated yet is in a state of its own.
LEMMA FreshIsState == Fresh \in States /\ Fresh.status = "ok"
BY AlertingAssumption DEF Fresh, States, Ages

\* A key that starts to fire without a hold is in a state.
LEMMA FiringIsState == [status |-> "firing", age |-> 0] \in States
BY AlertingAssumption DEF States, Ages

\* A key that starts to hold is in a state.
LEMMA PendingIsState == [status |-> "pending", age |-> 0] \in States
BY AlertingAssumption DEF States, Ages

\* Evaluate's switch, case by case.
LEMMA HealthTransition ==
    ASSUME NEW k \in HealthKeys, NEW st \in States
    PROVE  /\ NextHealth(k, st) \in States
           /\ NoteHealth(k, st) \in {"none", "fired", "resolved"}
           /\ Matches(k) <=> NextHealth(k, st).status # "ok"
           /\ st.status = "ok" /\ Matches(k)
                => NextHealth(k, st) = [status |-> "pending", age |-> 0]
           /\ st.status = "pending" /\ NextHealth(k, st).status = "pending"
                => NextHealth(k, st) = st
           /\ Firing(st) /\ Matches(k) => Firing(NextHealth(k, st))
           /\ NoteHealth(k, st) = "fired" => st.status = "pending" /\ st.age >= ForOf[RuleOf[k]]
           /\ NoteHealth(k, st) = "fired" => ~Firing(st) /\ Firing(NextHealth(k, st))
           /\ NoteHealth(k, st) = "resolved" => Firing(st) /\ ~Firing(NextHealth(k, st))
           /\ NoteHealth(k, st) = "none" /\ (st.status = "ok" \/ RuleOf[k] \in rules)
                => (Firing(st) <=> Firing(NextHealth(k, st)))
<1>1. st.status \in {"ok", "pending", "firing"} /\ st.age \in Ages BY DEF States
<1>2. CASE ~Matches(k)
  BY <1>1, <1>2, FreshIsState DEF NextHealth, NoteHealth, Firing
<1>3. CASE Matches(k) /\ st.status = "ok"
  BY <1>3, PendingIsState DEF NextHealth, NoteHealth, Firing
<1>4. CASE Matches(k) /\ st.status = "pending"
  BY <1>4, FiringIsState DEF NextHealth, NoteHealth, Firing
<1>5. CASE Matches(k) /\ st.status = "firing"
  BY <1>5 DEF NextHealth, NoteHealth, Firing
<1>6. QED BY <1>1, <1>2, <1>3, <1>4, <1>5

\* evalGreenBudgets and evalAIBudgets, case by case.
LEMMA BudgetTransition ==
    ASSUME AlertTypeOK, NEW k \in BudgetKeys, NEW failing
    PROVE  /\ NextOfBudget(k, failing) \in States
           /\ NoteOfBudget(k, failing) \in {"none", "fired", "resolved"}
           /\ NoteOfBudget(k, failing) = "fired"
                => ~Firing(store[k]) /\ Firing(NextOfBudget(k, failing))
           /\ NoteOfBudget(k, failing) = "resolved"
                => Firing(store[k]) /\ ~Firing(NextOfBudget(k, failing))
           /\ NoteOfBudget(k, failing) = "none"
                /\ (store[k].status = "ok" \/ BudgetOf[k] \in budgets)
                => (Firing(store[k]) <=> Firing(NextOfBudget(k, failing)))
<1> DEFINE b == BudgetOf[k]
           m == ModuleOf[b]
<1>1. store[k] \in States BY DEF AlertTypeOK, Keys
<1>2. b \in Budgets BY AlertingAssumption
<1>3. CASE b \notin budgets \/ m \in failing
  <2>1. NoteOfBudget(k, failing) = "none" BY <1>3 DEF NoteOfBudget
  <2>2. NextOfBudget(k, failing) \in {Fresh, store[k]} BY <1>3 DEF NextOfBudget
  <2>3. b \in budgets => NextOfBudget(k, failing) = store[k]
    BY <1>3 DEF NextOfBudget, ModuleOn
  <2>4. QED BY <1>1, <2>1, <2>2, <2>3, FreshIsState DEF Firing
<1>4. CASE b \in budgets /\ m \notin failing
  <2>1. NextOfBudget(k, failing) = NextBudget(k, store[k], UsageSeen(m))
    BY <1>4 DEF NextOfBudget, ModuleOn
  <2>2. NoteOfBudget(k, failing) = NoteBudget(k, store[k], UsageSeen(m))
    BY <1>4 DEF NoteOfBudget
  <2>3. CASE Crossed(k, UsageSeen(m))
    BY <1>1, <2>1, <2>2, <2>3, FiringIsState DEF NextBudget, NoteBudget, Firing
  <2>4. CASE ~Crossed(k, UsageSeen(m))
    BY <1>1, <2>1, <2>2, <2>4, FreshIsState DEF NextBudget, NoteBudget, Firing
  <2>5. QED BY <2>3, <2>4
<1>5. QED BY <1>3, <1>4

\* Ageing keeps a state's kind, and ages a pending one.
LEMMA Ageing ==
    ASSUME NEW st \in States
    PROVE  /\ OlderState(st) \in States /\ OlderState(st).status = st.status
           /\ st.status = "pending" => OlderState(st).age = Older(st.age)
           /\ st.status # "pending" => OlderState(st) = st
<1>1. st.age \in Ages => Older(st.age) \in Ages BY AlertingAssumption DEF Ages, Older
<1>2. QED BY <1>1 DEF OlderState, States

\* Ages grow to their bound and never start a run.
LEMMA OlderAge ==
    ASSUME NEW a \in Ages
    PROVE  Older(a) \in Ages /\ Older(a) >= a /\ Older(a) # NoRun
BY AlertingAssumption DEF Ages, Older, NoRun

-----------------------------------------------------------------------------
(* Type correctness.                                                       *)

Kinds == {"none", "fired", "resolved"}

\* The parts of the type invariant the tick works on.
TickTypes ==
    /\ store \in [Keys -> States] /\ prev \in [Keys -> States] /\ next \in [Keys -> States]
    /\ pc \in {"idle", "deliver", "save", "history"}
    /\ notes \in [Keys -> Kinds] /\ matched \subseteq HealthKeys /\ tickAge \in Ages
    /\ recorded \in [Keys -> Kinds] /\ emitted \in [Keys -> Kinds]
    /\ run \in [HealthKeys -> 0..NoRun] /\ blamed \subseteq Keys

\* The parts the tick only reads, and the usage caches.
WorldTypes ==
    /\ health \in [Targets -> Statuses] /\ usage \in [Budgets -> 0..2]
    /\ listed \in BOOLEAN
    /\ rules \subseteq Rules /\ budgets \subseteq Budgets /\ selected \subseteq HealthKeys

CacheType == cached \in [BudgetModules -> [age : Ages, used : [Budgets -> 0..3]]]

\* The type invariant by what changes together: the tick, the world, the cache.
LEMMA TypeParts == AlertTypeOK <=> TickTypes /\ WorldTypes /\ CacheType
BY DEF AlertTypeOK, TickTypes, WorldTypes, CacheType, Kinds

\* A tick that ends leaves nothing of itself behind.
LEMMA EndTickTypes ==
    ASSUME EndTick
    PROVE  /\ prev' \in [Keys -> States] /\ next' \in [Keys -> States] /\ pc' = "idle"
           /\ notes' \in [Keys -> Kinds] /\ matched' = {} /\ tickAge' \in Ages
BY FreshIsState, AlertingAssumption DEF EndTick, Kinds, Ages

\* An empty usage cache is a cache.
LEMMA NoUsageType == NoUsage \in [age : Ages, used : [Budgets -> 0..3]]
BY AlertingAssumption DEF NoUsage, Ages

\* The usage of a calendar month is what the cache holds.
LEMMA UsageOfType ==
    ASSUME WorldTypes, NEW m
    PROVE  [age |-> 0, used |-> UsageOf(m)] \in [age : Ages, used : [Budgets -> 0..3]]
<1>1. \A b \in Budgets : usage[b] \in 0..3 BY DEF WorldTypes
<1>2. UsageOf(m) \in [Budgets -> 0..3] BY <1>1 DEF UsageOf
<1>3. QED BY <1>2, AlertingAssumption DEF Ages

\* Steps of the world around the tick.
WorldStep ==
    \/ \E t \in Targets, h \in Statuses : HealthChanges(t, h)
    \/ \E b \in Budgets, n \in 0..2 : UsageChanges(b, n)
    \/ TenantAgesOut \/ TenantReturns \/ Reload

tick == <<store, pc, prev, next, notes, matched, tickAge, recorded, emitted, run, blamed>>

\* Nothing outside the evaluator moves its tick or its cache.
LEMMA WorldStepQuiet == ASSUME WorldStep PROVE UNCHANGED <<tick, cached>>
BY DEF WorldStep, HealthChanges, UsageChanges, TenantAgesOut, TenantReturns, Reload, locals, tick

\* Every step keeps the types of the world.
LEMMA WorldTypeStep ==
    ASSUME AlertTypeOK, [Next]_vars
    PROVE  WorldTypes'
<1>1. WorldTypes BY TypeParts
<1> USE <1>1 DEF WorldTypes, world, config
<1>2. ASSUME NEW t \in Targets, NEW h \in Statuses, HealthChanges(t, h) PROVE WorldTypes'
  BY <1>2 DEF HealthChanges
<1>3. ASSUME NEW b \in Budgets, NEW n \in 0..2, UsageChanges(b, n) PROVE WorldTypes'
  BY <1>3 DEF UsageChanges
<1>4. CASE TenantAgesOut BY <1>4 DEF TenantAgesOut
<1>5. CASE TenantReturns BY <1>5 DEF TenantReturns
<1>6. CASE Reload BY <1>6 DEF Reload
<1>7. ASSUME NEW failing \in SUBSET BudgetModules, Evaluate(failing) PROVE WorldTypes'
  BY <1>7 DEF Evaluate
<1>8. CASE Deliver \/ SaveAlertStates \/ SaveFails
  BY <1>8 DEF Deliver, SaveAlertStates, SaveFails
<1>9. CASE AppendAlertHistory \/ AppendFails \/ Crash \/ TimePasses
  BY <1>9 DEF AppendAlertHistory, AppendFails, Crash, TimePasses
<1>10. CASE UNCHANGED vars BY <1>10 DEF vars
<1>11. QED BY <1>2, <1>3, <1>4, <1>5, <1>6, <1>7, <1>8, <1>9, <1>10 DEF Next

\* Every step keeps the type of the usage cache.
LEMMA CacheTypeStep ==
    ASSUME AlertTypeOK, [Next]_vars
    PROVE  CacheType'
<1>1. CacheType /\ WorldTypes BY TypeParts
<1> USE <1>1 DEF CacheType
<1>2. ASSUME NEW failing \in SUBSET BudgetModules, Evaluate(failing) PROVE CacheType'
  <2>1. \A m \in BudgetModules : [age |-> 0, used |-> UsageOf(m)]
                                  \in [age : Ages, used : [Budgets -> 0..3]]
    BY UsageOfType
  <2>2. QED BY <1>2, <2>1 DEF Evaluate
<1>3. CASE Crash BY <1>3, NoUsageType DEF Crash
<1>4. CASE TimePasses
  <2>1. ASSUME NEW m \in BudgetModules
        PROVE  [cached[m] EXCEPT !.age = Older(cached[m].age)]
                 \in [age : Ages, used : [Budgets -> 0..3]]
    <3>1. Older(cached[m].age) \in Ages BY OlderAge
    <3>2. QED BY <3>1
  <2>2. QED BY <1>4, <2>1, NoUsageType DEF TimePasses
<1>5. CASE WorldStep BY <1>5, WorldStepQuiet
<1>6. CASE Deliver \/ SaveAlertStates \/ SaveFails \/ AppendAlertHistory \/ AppendFails
  BY <1>6 DEF Deliver, SaveAlertStates, SaveFails, AppendAlertHistory, AppendFails
<1>7. CASE UNCHANGED vars BY <1>7 DEF vars
<1>8. QED BY <1>2, <1>3, <1>4, <1>5, <1>6, <1>7 DEF Next, WorldStep

\* Every step keeps the types of the tick.
LEMMA TickTypeStep ==
    ASSUME AlertTypeOK, [Next]_vars
    PROVE  TickTypes'
<1>1. TickTypes BY TypeParts
<1> USE <1>1 DEF TickTypes
<1>2. ASSUME NEW failing \in SUBSET BudgetModules, Evaluate(failing) PROVE TickTypes'
  <2>1. next' \in [Keys -> States]
    <3>1. \A k \in HealthKeys : NextHealth(k, store[k]) \in States
      BY HealthTransition DEF Keys
    <3>2. \A k \in BudgetKeys : NextOfBudget(k, failing) \in States BY BudgetTransition
    <3>3. QED BY <1>2, <3>1, <3>2 DEF Evaluate, Keys
  <2>2. notes' \in [Keys -> Kinds]
    <3>1. \A k \in HealthKeys : NoteHealth(k, store[k]) \in Kinds
      BY HealthTransition DEF Keys, Kinds
    <3>2. \A k \in BudgetKeys : NoteOfBudget(k, failing) \in Kinds
      BY BudgetTransition DEF Kinds
    <3>3. QED BY <1>2, <3>1, <3>2 DEF Evaluate, Keys
  <2>3. blamed' \subseteq Keys /\ matched' \subseteq HealthKeys BY <1>2 DEF Evaluate
  <2>4. tickAge' \in Ages BY <1>2, AlertingAssumption DEF Evaluate, Ages
  <2>5. pc' = "deliver" /\ prev' = store /\ UNCHANGED <<store, recorded, emitted, run>>
    BY <1>2 DEF Evaluate
  <2>6. QED BY <2>1, <2>2, <2>3, <2>4, <2>5
<1>3. CASE Deliver BY <1>3 DEF Deliver, locals
<1>4. CASE SaveAlertStates
  <2>1. tickAge \in 0..NoRun /\ NoRun \in 0..NoRun
    BY AlertingAssumption DEF Ages, NoRun
  <2>2. run' \in [HealthKeys -> 0..NoRun] BY <1>4, <2>1 DEF SaveAlertStates
  <2>3. store' \in [Keys -> States] BY <1>4 DEF SaveAlertStates
  <2>4. QED BY <1>4, <2>2, <2>3 DEF SaveAlertStates, locals
<1>5. CASE SaveFails BY <1>5 DEF SaveFails, locals, Changed
<1>6. CASE AppendAlertHistory BY <1>6, EndTickTypes DEF AppendAlertHistory
<1>7. CASE AppendFails BY <1>7, EndTickTypes DEF AppendFails
<1>8. CASE Crash
  <2>1. emitted' \in [Keys -> Kinds] BY <1>8 DEF Crash
  <2>2. blamed' \subseteq Keys BY <1>8 DEF Crash, Changed
  <2>3. QED BY <1>8, <2>1, <2>2, EndTickTypes DEF Crash
<1>9. CASE TimePasses
  <2>1. store' \in [Keys -> States] /\ next' \in [Keys -> States]
    BY <1>9, Ageing DEF TimePasses
  <2>2. run' \in [HealthKeys -> 0..NoRun]
    <3>1. \A k \in HealthKeys : run[k] # NoRun => Older(run[k]) \in 0..NoRun
      BY AlertingAssumption DEF Older, NoRun
    <3>2. NoRun \in 0..NoRun BY AlertingAssumption DEF NoRun
    <3>3. QED BY <1>9, <3>1, <3>2 DEF TimePasses
  <2>3. tickAge' \in Ages
    <3>1. Older(tickAge) \in Ages /\ 0 \in Ages BY OlderAge, AlertingAssumption DEF Ages
    <3>2. QED BY <1>9, <3>1 DEF TimePasses
  <2>4. QED BY <1>9, <2>1, <2>2, <2>3 DEF TimePasses
<1>10. CASE WorldStep BY <1>10, WorldStepQuiet DEF tick
<1>11. CASE UNCHANGED vars BY <1>11 DEF vars
<1>12. QED BY <1>2, <1>3, <1>4, <1>5, <1>6, <1>7, <1>8, <1>9, <1>10, <1>11 DEF Next, WorldStep

\* The alerting state is well typed, for every set of rules and budgets.
THEOREM AlertTypeCorrect == Spec => []AlertTypeOK
<1>1. Init => AlertTypeOK
  <2> SUFFICES ASSUME Init PROVE AlertTypeOK
    OBVIOUS
  <2>1. WorldTypes BY DEF Init, WorldTypes, Statuses
  <2>2. CacheType BY NoUsageType DEF Init, CacheType
  <2>3. TickTypes
    <3>1. NoRun \in 0..NoRun /\ 0 \in Ages BY AlertingAssumption DEF NoRun, Ages
    <3>2. QED BY <3>1, FreshIsState DEF Init, TickTypes, NoState, Kinds
  <2>4. QED BY <2>1, <2>2, <2>3, TypeParts
<1>2. AlertTypeOK /\ [Next]_vars => AlertTypeOK'
  <2> SUFFICES ASSUME AlertTypeOK, [Next]_vars PROVE AlertTypeOK'
    OBVIOUS
  <2>1. TickTypes' /\ WorldTypes' /\ CacheType'
    BY TickTypeStep, WorldTypeStep, CacheTypeStep
  <2>2. QED BY <2>1 DEF AlertTypeOK, TickTypes, WorldTypes, CacheType, Kinds
<1>3. QED BY <1>1, <1>2, PTL DEF Spec

-----------------------------------------------------------------------------
(* The inductive invariant, action by action.                              *)

Rest == RunInv /\ TickInv /\ NoteInv /\ AgreeInv

\* evaluateOnce reads the store and starts a tick that has delivered nothing.
LEMMA EvaluateStep ==
    ASSUME AlertInv, NEW failing \in SUBSET BudgetModules, Evaluate(failing)
    PROVE  Rest'
<1>1. TickTypes /\ AlertTypeOK BY TypeParts DEF AlertInv
<1>2. /\ pc = "idle" /\ pc' = "deliver" /\ prev' = store /\ tickAge' = 0
      /\ UNCHANGED <<store, recorded, emitted, run>>
      /\ blamed \subseteq blamed' /\ matched' = {k \in HealthKeys : Matches(k)}
  BY DEF Evaluate
<1>3. /\ \A k \in HealthKeys : next'[k] = NextHealth(k, store[k]) /\ notes'[k] = NoteHealth(k, store[k])
      /\ \A k \in BudgetKeys : next'[k] = NextOfBudget(k, failing) /\ notes'[k] = NoteOfBudget(k, failing)
  BY AlertingAssumption DEF Evaluate, Keys
<1>4. RunInv' BY <1>2 DEF AlertInv, RunInv
<1>5. TickInv'
  <2>1. \A k \in Keys : prev'[k].status = store'[k].status BY <1>2
  <2>2. ASSUME NEW k \in HealthKeys
        PROVE  /\ k \in matched' <=> next'[k].status # "ok"
               /\ store'[k].status = "ok" /\ k \in matched'
                    => next'[k].status = "pending" /\ next'[k].age = tickAge'
               /\ store'[k].status = "pending" /\ next'[k].status = "pending"
                    => next'[k].age = store'[k].age
               /\ Firing(store'[k]) /\ k \in matched' => Firing(next'[k])
               /\ notes'[k] = "fired"
                    => store'[k].status = "pending" /\ store'[k].age >= ForOf[RuleOf[k]]
    <3>1. store[k] \in States BY <1>1 DEF TickTypes, Keys
    <3>2. QED BY <3>1, <1>2, <1>3, HealthTransition
  <2>3. QED BY <2>1, <2>2 DEF TickInv, Firing
<1>6. NoteInv'
  <2> SUFFICES ASSUME NEW k \in Keys, k \notin blamed'
               PROVE  /\ notes'[k] = "fired" => ~Firing(store[k]) /\ Firing(next'[k])
                      /\ notes'[k] = "resolved" => Firing(store[k]) /\ ~Firing(next'[k])
                      /\ notes'[k] = "none" => (Firing(store[k]) <=> Firing(next'[k]))
    BY <1>2 DEF NoteInv, Firing
  <2>1. CASE k \in HealthKeys
    <3>1. store[k] \in States BY <1>1 DEF TickTypes
    <3>2. store[k].status = "ok" \/ RuleOf[k] \in rules BY <2>1 DEF Evaluate
    <3>3. QED BY <2>1, <3>1, <3>2, <1>3, HealthTransition
  <2>2. CASE k \notin HealthKeys
    <3>1. k \in BudgetKeys BY <2>2 DEF Keys
    <3>2. store[k].status = "ok" \/ BudgetOf[k] \in budgets BY <2>2 DEF Evaluate
    <3>3. QED BY <3>1, <3>2, <1>1, <1>3, BudgetTransition
  <2>3. QED BY <2>1, <2>2
<1>7. AgreeInv' BY <1>2 DEF AlertInv, AgreeInv, Firing
<1>8. QED BY <1>4, <1>5, <1>6, <1>7 DEF Rest

\* Delivery emits each note of the tick once.
LEMMA DeliverStep ==
    ASSUME AlertInv, Deliver
    PROVE  Rest'
<1>1. TickTypes BY TypeParts DEF AlertInv
<1>2. /\ pc = "deliver" /\ pc' = "save"
      /\ UNCHANGED <<store, prev, next, notes, matched, tickAge, recorded, run, blamed>>
      /\ \A k \in Keys : emitted'[k] = IF notes[k] # "none" THEN notes[k] ELSE emitted[k]
  BY DEF Deliver, locals
<1>3. RunInv' BY <1>2 DEF AlertInv, RunInv
<1>4. TickInv' BY <1>2 DEF AlertInv, TickInv, Firing
<1>5. NoteInv' BY <1>2 DEF AlertInv, NoteInv, Firing
<1>6. AgreeInv'
  <2> SUFFICES ASSUME NEW k \in Keys, k \notin blamed
               PROVE  /\ emitted'[k] = "fired" <=> Firing(next[k])
                      /\ recorded[k] = "fired" <=> Firing(prev[k])
    BY <1>2 DEF AgreeInv, Firing
  <2>1. Firing(prev[k]) <=> Firing(store[k]) BY <1>2 DEF AlertInv, TickInv, Firing
  <2>2. /\ Firing(store[k]) <=> emitted[k] = "fired"
        /\ Firing(store[k]) <=> recorded[k] = "fired"
    BY <1>2 DEF AlertInv, AgreeInv
  <2>3. /\ notes[k] = "fired" => ~Firing(prev[k]) /\ Firing(next[k])
        /\ notes[k] = "resolved" => Firing(prev[k]) /\ ~Firing(next[k])
        /\ notes[k] = "none" => (Firing(prev[k]) <=> Firing(next[k]))
    BY <1>2 DEF AlertInv, NoteInv
  <2>4. notes[k] \in Kinds BY <1>1 DEF TickTypes
  <2>5. QED BY <1>2, <2>1, <2>2, <2>3, <2>4 DEF Kinds
<1>7. QED BY <1>3, <1>4, <1>5, <1>6 DEF Rest

\* SaveAlertStates puts the states the notes were made from in the store.
LEMMA SaveStep ==
    ASSUME AlertInv, SaveAlertStates
    PROVE  Rest'
<1>1. TickTypes BY TypeParts DEF AlertInv
<1>2. /\ pc = "save" /\ pc' = "history"
      /\ UNCHANGED <<prev, next, notes, matched, tickAge, recorded, emitted, blamed>>
      /\ \A k \in Keys : store'[k] = IF k \in Saved THEN next[k] ELSE store[k]
      /\ \A k \in HealthKeys : run'[k] = IF k \notin matched THEN NoRun
                                         ELSE IF run[k] = NoRun THEN tickAge ELSE run[k]
  BY DEF SaveAlertStates, locals
<1>3. \A k \in Keys : prev[k].status = store[k].status BY <1>2 DEF AlertInv, TickInv
<1>4. \A k \in Keys : store'[k].status = next[k].status BY <1>2, <1>3 DEF Saved
<1>5. RunInv'
  <2> SUFFICES ASSUME NEW k \in HealthKeys
               PROVE  /\ store'[k].status = "ok" <=> run'[k] = NoRun
                      /\ store'[k].status = "pending" => run'[k] = store'[k].age
    BY DEF RunInv
  <2>1. k \in Keys BY DEF Keys
  <2>2. /\ k \in matched <=> next[k].status # "ok"
        /\ store[k].status = "ok" /\ k \in matched
             => next[k].status = "pending" /\ next[k].age = tickAge
        /\ store[k].status = "pending" /\ next[k].status = "pending"
             => next[k].age = store[k].age
        /\ store[k].status = "firing" /\ k \in matched => next[k].status = "firing"
    BY <1>2 DEF AlertInv, TickInv, Firing
  <2>3. /\ store[k].status = "ok" <=> run[k] = NoRun
        /\ store[k].status = "pending" => run[k] = store[k].age
    BY DEF AlertInv, RunInv
  <2>4. store[k] \in States /\ store[k].status \in {"ok", "pending", "firing"}
    BY <1>1, <2>1 DEF TickTypes, States
  <2>5. tickAge # NoRun BY <1>1, AlertingAssumption DEF TickTypes, Ages, NoRun
  <2>6. CASE k \notin matched BY <2>1, <2>2, <2>6, <1>2, <1>4
  <2>7. CASE k \in matched
    <3>1. k \in Saved BY <2>1, <2>2, <2>7 DEF Saved
    <3>2. store'[k] = next[k] BY <3>1, <2>1, <1>2
    <3>3. run'[k] = IF run[k] = NoRun THEN tickAge ELSE run[k] BY <2>7, <1>2
    <3>4. QED BY <2>2, <2>3, <2>4, <2>5, <2>7, <3>2, <3>3
  <2>8. QED BY <2>6, <2>7
<1>6. TickInv' BY <1>2 DEF TickInv
<1>7. NoteInv' BY <1>2 DEF AlertInv, NoteInv, Firing
<1>8. AgreeInv' BY <1>2, <1>4 DEF AlertInv, AgreeInv, Firing
<1>9. QED BY <1>5, <1>6, <1>7, <1>8 DEF Rest

\* A failed save is to blame for what the store then misses.
LEMMA SaveFailsStep ==
    ASSUME AlertInv, SaveFails
    PROVE  Rest'
<1>1. /\ pc = "save" /\ pc' = "history" /\ blamed' = blamed \cup Changed
      /\ UNCHANGED <<store, prev, next, notes, matched, tickAge, recorded, emitted, run>>
  BY DEF SaveFails, locals
<1>2. RunInv' BY <1>1 DEF AlertInv, RunInv
<1>3. TickInv' BY <1>1 DEF TickInv
<1>4. NoteInv' BY <1>1 DEF AlertInv, NoteInv, Firing
<1>5. AgreeInv'
  <2> SUFFICES ASSUME NEW k \in Keys, k \notin blamed, k \notin Changed
               PROVE  /\ emitted[k] = "fired" <=> Firing(next[k])
                      /\ recorded[k] = "fired" <=> Firing(prev[k])
                      /\ Firing(store[k]) <=> Firing(next[k])
    BY <1>1 DEF AgreeInv, Firing
  <2>1. next[k].status = prev[k].status BY DEF Changed
  <2>2. prev[k].status = store[k].status BY <1>1 DEF AlertInv, TickInv
  <2>3. QED BY <1>1, <2>1, <2>2 DEF AlertInv, AgreeInv, Firing
<1>6. QED BY <1>2, <1>3, <1>4, <1>5 DEF Rest

\* AppendAlertHistory records what was emitted, and the tick ends.
LEMMA AppendStep ==
    ASSUME AlertInv, AppendAlertHistory
    PROVE  Rest'
<1>1. TickTypes BY TypeParts DEF AlertInv
<1>2. /\ pc = "history" /\ pc' = "idle" /\ UNCHANGED <<store, emitted, run, blamed>>
      /\ \A k \in Keys : recorded'[k] = IF notes[k] # "none" THEN notes[k] ELSE recorded[k]
  BY DEF AppendAlertHistory, EndTick
<1>3. RunInv' BY <1>2 DEF AlertInv, RunInv
<1>4. TickInv' /\ NoteInv' BY <1>2 DEF TickInv, NoteInv
<1>5. AgreeInv'
  <2> SUFFICES ASSUME NEW k \in Keys, k \notin blamed
               PROVE  /\ Firing(store[k]) <=> emitted[k] = "fired"
                      /\ Firing(store[k]) <=> recorded'[k] = "fired"
    BY <1>2 DEF AgreeInv, Firing
  <2>1. /\ emitted[k] = "fired" <=> Firing(next[k])
        /\ recorded[k] = "fired" <=> Firing(prev[k])
        /\ Firing(store[k]) <=> Firing(next[k])
    BY <1>2 DEF AlertInv, AgreeInv
  <2>2. /\ notes[k] = "fired" => ~Firing(prev[k]) /\ Firing(next[k])
        /\ notes[k] = "resolved" => Firing(prev[k]) /\ ~Firing(next[k])
        /\ notes[k] = "none" => (Firing(prev[k]) <=> Firing(next[k]))
    BY <1>2 DEF AlertInv, NoteInv
  <2>3. notes[k] \in Kinds BY <1>1 DEF TickTypes
  <2>4. QED BY <1>2, <2>1, <2>2, <2>3 DEF Kinds
<1>6. QED BY <1>3, <1>4, <1>5 DEF Rest

\* A failed append is to blame for what the history then misses.
LEMMA AppendFailsStep ==
    ASSUME AlertInv, AppendFails
    PROVE  Rest'
<1>1. /\ pc = "history" /\ pc' = "idle" /\ UNCHANGED <<store, recorded, emitted, run>>
      /\ blamed' = blamed \cup {k \in Keys : notes[k] # "none"}
  BY DEF AppendFails, EndTick
<1>2. RunInv' BY <1>1 DEF AlertInv, RunInv
<1>3. TickInv' /\ NoteInv' BY <1>1 DEF TickInv, NoteInv
<1>4. AgreeInv'
  <2> SUFFICES ASSUME NEW k \in Keys, k \notin blamed, notes[k] = "none"
               PROVE  /\ Firing(store[k]) <=> emitted[k] = "fired"
                      /\ Firing(store[k]) <=> recorded[k] = "fired"
    BY <1>1 DEF AgreeInv, Firing
  <2>1. Firing(prev[k]) <=> Firing(next[k]) BY <1>1 DEF AlertInv, NoteInv
  <2>2. QED BY <1>1, <2>1 DEF AlertInv, AgreeInv
<1>5. QED BY <1>2, <1>3, <1>4 DEF Rest

\* A crash forgets the tick and is to blame for its notes.
LEMMA CrashStep ==
    ASSUME AlertInv, Crash
    PROVE  Rest'
<1>1. TickTypes BY TypeParts DEF AlertInv
<1>2. pc' = "idle" /\ UNCHANGED <<store, recorded, run>> BY DEF Crash, EndTick
<1>3. RunInv' BY <1>2 DEF AlertInv, RunInv
<1>4. TickInv' /\ NoteInv' BY <1>2 DEF TickInv, NoteInv
<1>5. AgreeInv'
  <2> SUFFICES ASSUME NEW k \in Keys, k \notin blamed'
               PROVE  /\ Firing(store[k]) <=> emitted'[k] = "fired"
                      /\ Firing(store[k]) <=> recorded[k] = "fired"
    BY <1>2 DEF AgreeInv, Firing
  <2>1. k \notin blamed BY DEF Crash
  <2>2. pc # "idle" => notes[k] = "none" /\ next[k].status = prev[k].status
    BY DEF Crash, Changed
  <2>3. emitted'[k] = emitted[k]
    <3>1. PICK sent \in SUBSET {j \in Keys : pc = "deliver" /\ notes[j] # "none"} :
             emitted' = [j \in Keys |-> IF j \in sent THEN notes[j] ELSE emitted[j]]
      BY DEF Crash
    <3>2. k \notin sent BY <3>1, <2>2
    <3>3. QED BY <3>1, <3>2
  <2>4. pc \in {"idle", "deliver", "save", "history"} BY <1>1 DEF TickTypes
  <2>5. CASE pc \in {"idle", "deliver"} BY <2>1, <2>3, <2>5 DEF AlertInv, AgreeInv
  <2>6. CASE pc = "save"
    <3>1. prev[k].status = store[k].status BY <2>6 DEF AlertInv, TickInv
    <3>2. QED BY <2>1, <2>2, <2>3, <2>6, <3>1 DEF AlertInv, AgreeInv, Firing
  <2>7. CASE pc = "history"
    BY <2>1, <2>2, <2>3, <2>7 DEF AlertInv, AgreeInv, Firing
  <2>8. QED BY <2>4, <2>5, <2>6, <2>7
<1>6. QED BY <1>3, <1>4, <1>5 DEF Rest

\* Time ages the states of store and tick alike.
LEMMA TimeStep ==
    ASSUME AlertInv, TimePasses
    PROVE  Rest'
<1>1. TickTypes BY TypeParts DEF AlertInv
<1>2. /\ UNCHANGED <<pc, prev, notes, matched, recorded, emitted, blamed>>
      /\ \A k \in Keys : store'[k] = OlderState(store[k]) /\ next'[k] = OlderState(next[k])
      /\ \A k \in HealthKeys : run'[k] = IF run[k] = NoRun THEN NoRun ELSE Older(run[k])
      /\ tickAge' = IF pc = "idle" THEN 0 ELSE Older(tickAge)
  BY DEF TimePasses
<1>3. \A k \in Keys :
        /\ store[k] \in States /\ next[k] \in States
        /\ store'[k].status = store[k].status /\ next'[k].status = next[k].status
        /\ store[k].status = "pending" => store'[k].age = Older(store[k].age)
        /\ next[k].status = "pending" => next'[k].age = Older(next[k].age)
  BY <1>1, <1>2, Ageing DEF TickTypes
<1>4. \A k \in Keys : store[k].age \in Ages BY <1>3 DEF States
<1>5. RunInv'
  <2> SUFFICES ASSUME NEW k \in HealthKeys
               PROVE  /\ store'[k].status = "ok" <=> run'[k] = NoRun
                      /\ store'[k].status = "pending" => run'[k] = store'[k].age
    BY DEF RunInv
  <2>1. k \in Keys BY DEF Keys
  <2>2. run[k] # NoRun => Older(run[k]) # NoRun
    BY <1>1, AlertingAssumption DEF TickTypes, Older, NoRun
  <2>3. /\ store[k].status = "ok" <=> run[k] = NoRun
        /\ store[k].status = "pending" => run[k] = store[k].age
    BY DEF AlertInv, RunInv
  <2>4. QED BY <1>2, <1>3, <2>1, <2>2, <2>3
<1>6. TickInv'
  <2> SUFFICES ASSUME pc \in {"deliver", "save"} PROVE TickInv'
    BY <1>2 DEF TickInv
  <2>1. \A k \in Keys : prev'[k].status = store'[k].status
    BY <1>2, <1>3 DEF AlertInv, TickInv
  <2>2. ASSUME NEW k \in HealthKeys
        PROVE  /\ k \in matched' <=> next'[k].status # "ok"
               /\ store'[k].status = "ok" /\ k \in matched'
                    => next'[k].status = "pending" /\ next'[k].age = tickAge'
               /\ store'[k].status = "pending" /\ next'[k].status = "pending"
                    => next'[k].age = store'[k].age
               /\ store'[k].status = "firing" /\ k \in matched' => next'[k].status = "firing"
               /\ notes'[k] = "fired"
                    => store'[k].status = "pending" /\ store'[k].age >= ForOf[RuleOf[k]]
    <3>1. k \in Keys BY DEF Keys
    <3>2. /\ k \in matched <=> next[k].status # "ok"
          /\ store[k].status = "ok" /\ k \in matched
               => next[k].status = "pending" /\ next[k].age = tickAge
          /\ store[k].status = "pending" /\ next[k].status = "pending"
               => next[k].age = store[k].age
          /\ store[k].status = "firing" /\ k \in matched => next[k].status = "firing"
          /\ notes[k] = "fired"
               => store[k].status = "pending" /\ store[k].age >= ForOf[RuleOf[k]]
      BY DEF AlertInv, TickInv, Firing
    <3>3. store[k].age >= ForOf[RuleOf[k]] => Older(store[k].age) >= ForOf[RuleOf[k]]
      <4>1. store[k].age \in Ages /\ ForOf[RuleOf[k]] \in Ages
        BY <1>4, <3>1, AlertingAssumption
      <4>2. QED BY <4>1, AlertingAssumption DEF Older, Ages
    <3>4. QED BY <1>2, <1>3, <3>1, <3>2, <3>3
  <2>3. QED BY <2>1, <2>2 DEF TickInv, Firing
<1>7. NoteInv' BY <1>2, <1>3 DEF AlertInv, NoteInv, Firing
<1>8. AgreeInv' BY <1>2, <1>3 DEF AlertInv, AgreeInv, Firing
<1>9. QED BY <1>5, <1>6, <1>7, <1>8 DEF Rest

\* A step that leaves the tick alone keeps the invariant.
LEMMA QuietStep ==
    ASSUME AlertInv, UNCHANGED tick
    PROVE  Rest'
<1>1. RunInv' BY DEF tick, AlertInv, RunInv
<1>2. TickInv' BY DEF tick, AlertInv, TickInv, Firing
<1>3. NoteInv' BY DEF tick, AlertInv, NoteInv, Firing
<1>4. AgreeInv' BY DEF tick, AlertInv, AgreeInv, Firing
<1>5. QED BY <1>1, <1>2, <1>3, <1>4 DEF Rest

-----------------------------------------------------------------------------
\* The invariant behind the alerting properties: what the stored rows, the
\* tick's locals, the channels and the history say of each other.
THEOREM AlertInvHolds == Spec => []AlertInv
<1>1. Init => Rest
  <2> SUFFICES ASSUME Init PROVE Rest
    OBVIOUS
  <2>1. \A k \in Keys : store[k].status = "ok" BY DEF Init, NoState, Fresh
  <2>2. RunInv BY <2>1 DEF Init, RunInv, Keys
  <2>3. TickInv /\ NoteInv BY DEF Init, TickInv, NoteInv
  <2>4. AgreeInv BY <2>1 DEF Init, AgreeInv, Firing
  <2>5. QED BY <2>2, <2>3, <2>4 DEF Rest
<1>2. AlertInv /\ [Next]_vars => Rest'
  <2> SUFFICES ASSUME AlertInv, [Next]_vars PROVE Rest'
    OBVIOUS
  <2>1. ASSUME NEW failing \in SUBSET BudgetModules, Evaluate(failing) PROVE Rest'
    BY <2>1, EvaluateStep
  <2>2. CASE Deliver BY <2>2, DeliverStep
  <2>3. CASE SaveAlertStates BY <2>3, SaveStep
  <2>4. CASE SaveFails BY <2>4, SaveFailsStep
  <2>5. CASE AppendAlertHistory BY <2>5, AppendStep
  <2>6. CASE AppendFails BY <2>6, AppendFailsStep
  <2>7. CASE Crash BY <2>7, CrashStep
  <2>8. CASE TimePasses BY <2>8, TimeStep
  <2>9. CASE WorldStep BY <2>9, WorldStepQuiet, QuietStep
  <2>10. CASE UNCHANGED vars
    <3>1. UNCHANGED tick BY <2>10 DEF vars, tick
    <3>2. QED BY <3>1, QuietStep
  <2>11. QED BY <2>1, <2>2, <2>3, <2>4, <2>5, <2>6, <2>7, <2>8, <2>9, <2>10 DEF Next, WorldStep
<1>3. AlertInv <=> AlertTypeOK /\ Rest BY DEF AlertInv, Rest
<1>4. QED BY <1>1, <1>2, <1>3, AlertTypeCorrect, PTL DEF Spec

\* A rule fires only after its condition held at every saved evaluation for
\* at least its `for`.
THEOREM FiringIsEarned == Spec => []FiresOnlyAfterFor
<1>1. AlertInv => FiresOnlyAfterFor
  <2> SUFFICES ASSUME AlertInv, NEW k \in HealthKeys, pc = "deliver", notes[k] = "fired"
               PROVE  run[k] # NoRun /\ run[k] >= ForOf[RuleOf[k]]
    BY DEF FiresOnlyAfterFor
  <2>1. store[k].status = "pending" /\ store[k].age >= ForOf[RuleOf[k]]
    BY DEF AlertInv, TickInv
  <2>2. run[k] = store[k].age /\ run[k] # NoRun BY <2>1 DEF AlertInv, RunInv
  <2>3. QED BY <2>1, <2>2
<1>2. QED BY <1>1, AlertInvHolds, PTL

\* No notification repeats the one before it, for a key nothing was lost for.
THEOREM NoRepeatedNotification == Spec => []NotificationsAlternate
<1>1. AlertInv => NotificationsAlternate
  <2> SUFFICES ASSUME AlertInv, NEW k \in Keys \ blamed, pc = "deliver"
               PROVE  /\ notes[k] = "fired" => emitted[k] # "fired"
                      /\ notes[k] = "resolved" => emitted[k] = "fired"
    BY DEF NotificationsAlternate
  <2>1. Firing(prev[k]) <=> Firing(store[k]) BY DEF AlertInv, TickInv, Firing
  <2>2. /\ notes[k] = "fired" => ~Firing(prev[k])
        /\ notes[k] = "resolved" => Firing(prev[k])
    BY DEF AlertInv, NoteInv
  <2>3. QED BY <2>1, <2>2 DEF AlertInv, AgreeInv
<1>2. QED BY <1>1, AlertInvHolds, PTL

\* Between ticks the stored state, the history and the channels agree.
THEOREM RecordsAlwaysAgree == Spec => []RecordsAgree
<1>1. AlertInv => RecordsAgree BY DEF AlertInv, AgreeInv, RecordsAgree, Firing
<1>2. QED BY <1>1, AlertInvHolds, PTL

\* A firing row is only ever cleared by a tick that announced it.
THEOREM ClearingIsAnnounced == Spec => ClearsAnnounced
<1> DEFINE Cleared == \A k \in Keys : store[k].status = "firing" /\ store'[k].status # "firing"
                                       => notes[k] = "resolved" \/ k \in blamed
<1>1. AlertInv /\ [Next]_vars => [Cleared]_vars
  <2> SUFFICES ASSUME AlertInv, [Next]_vars, NEW k \in Keys,
                      store[k].status = "firing", store'[k].status # "firing"
               PROVE  notes[k] = "resolved" \/ k \in blamed
    OBVIOUS
  <2>1. TickTypes BY TypeParts DEF AlertInv
  <2>2. CASE SaveAlertStates
    <3>1. pc = "save" /\ store'[k] = IF k \in Saved THEN next[k] ELSE store[k]
      BY <2>2 DEF SaveAlertStates
    <3>2. ~Firing(next[k]) BY <3>1 DEF Firing
    <3>3. Firing(prev[k]) BY <3>1 DEF AlertInv, TickInv, Firing
    <3>4. notes[k] \in Kinds BY <2>1 DEF TickTypes
    <3>5. QED BY <3>1, <3>2, <3>3, <3>4 DEF AlertInv, NoteInv, Kinds
  <2>3. CASE TimePasses
    <3>1. store[k] \in States BY <2>1 DEF TickTypes
    <3>2. QED BY <2>3, <3>1, Ageing DEF TimePasses
  <2>4. CASE WorldStep BY <2>4, WorldStepQuiet DEF tick
  <2>5. CASE \E failing \in SUBSET BudgetModules : Evaluate(failing) BY <2>5 DEF Evaluate
  <2>6. CASE Deliver \/ SaveFails \/ AppendAlertHistory \/ AppendFails \/ Crash
    BY <2>6 DEF Deliver, SaveFails, AppendAlertHistory, AppendFails, Crash
  <2>7. CASE UNCHANGED vars BY <2>7 DEF vars
  <2>8. QED BY <2>2, <2>3, <2>4, <2>5, <2>6, <2>7 DEF Next, WorldStep
<1>2. QED BY <1>1, AlertInvHolds, PTL DEF Spec, ClearsAnnounced
===============================================================================
