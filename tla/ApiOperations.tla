---------------------------- MODULE ApiOperations ----------------------------
(***************************************************************************)
(* The handlers behind the operational views (hub/internal/api): health,   *)
(* service groups, checks, alerts, energy, cost, AI usage.                 *)
(***************************************************************************)
EXTENDS ApiSteps

\* router.go: the effective groups and rates never fail, they fall back to what
\* the resolver last saw.
groupsConfig == Soft(Maybe(Control("ListServiceGroups")))
ratesResolve == Soft(Maybe(Control("LoadRatesOverlay")))

\* The store answers, or the status says that it does not.
handleStatus == Soft(Control("Ping"))
handleCapabilities == <<>>

-----------------------------------------------------------------------------
\* health.go
buildHealthReport ==
    Telemetry(<<>>) \o Query("ListServices") \o Query("ServiceLabels") \o Query("ServiceEdges")
      \o groupsConfig \o Maybe(Soft(Query("LatestCheckStates")))

handleHealthGroups == buildHealthReport

handleHealthGroup == buildHealthReport \o Expect("group")

-----------------------------------------------------------------------------
\* service_groups.go.  What the writes do to the stored groups and to the
\* resolver is module GroupResolver.
handleServiceGroups == Soft(Control("ListServiceGroups"))

decodeServiceGroupInput == decodeJSON
validateServiceGroup == Param("group")
declaredServiceGroup == Expect("not declared")

saveServiceGroup == Save("SaveServiceGroup")

handleCreateServiceGroup ==
    store \o decodeServiceGroupInput \o validateServiceGroup \o declaredServiceGroup
      \o Control("ListServiceGroups") \o Expect("name free") \o saveServiceGroup

handleUpdateServiceGroup ==
    store \o decodeServiceGroupInput \o validateServiceGroup \o declaredServiceGroup
      \o Control("ListServiceGroups") \o Expect("stored") \o saveServiceGroup

handleDeleteServiceGroup == store \o declaredServiceGroup \o Save("DeleteServiceGroup")

-----------------------------------------------------------------------------
\* checks.go
handleChecks == groupsConfig

handleCheckResults ==
    store \o projectTenants("viewer") \o groupsConfig \o Expect("check") \o parseInt("limit")
      \o Query("CheckResults")

-----------------------------------------------------------------------------
\* alerts.go.  States are loaded tenant by tenant.
handleAlerts ==
    store \o projectTenants("viewer") \o Query("LoadAlertStates") \o Query("ListAlertHistory")

handleAlertRules == <<>>

decodeChannelInput == decodeJSON

handleListAlertChannels == store \o Control("ListAlertChannels")

handleCreateAlertChannel ==
    store \o decodeChannelInput \o Param("channel") \o Control("ListAlertChannels")
      \o Expect("name free") \o Save("SaveAlertChannel")

\* A channel is validated after the stored secret stood in for a missing one.
handleUpdateAlertChannel ==
    store \o decodeChannelInput \o Control("ListAlertChannels") \o Expect("stored")
      \o Param("channel") \o Save("SaveAlertChannel")

handleDeleteAlertChannel == store \o Save("DeleteAlertChannel")

handleTestAlertChannel ==
    Expect("notifier") \o store \o Control("ListAlertChannels") \o Expect("channel")
      \o project("viewer") \o Control("Notifier.Send")

-----------------------------------------------------------------------------
\* green.go, green_budgets.go, green_report.go
serviceRequests == Query("ListServices")

handleGreenSummary ==
    Telemetry(parseInt("topN")) \o Query("ServiceEnergy") \o serviceRequests
      \o Query("NodeCoverage") \o Query("NodeEnergy")

\* Channels matter only to a hub that sends.
budgetDelivery == With("alerting", store \o Control("ListAlertChannels"))

handleGreenBudgets ==
    store \o projectTenants("viewer") \o Query("ServiceEnergy") \o Query("ListServices")
      \o Query("ServiceLabels") \o budgetDelivery \o groupsConfig

handleGreenReport ==
    Param("format") \o Telemetry(<<>>) \o Query("ServiceEnergy") \o serviceRequests

-----------------------------------------------------------------------------
\* cost.go
costRates == ratesResolve

handleCostWorkloads ==
    Telemetry(<<>>) \o parseInt("limit") \o Query("WorkloadCosts") \o costRates

handleCostNodes == Telemetry(<<>>) \o Query("NodeCosts")

-----------------------------------------------------------------------------
\* ai.go
aiConfig == ratesResolve
aiQuery == parseTimeRange \o parseInt("limit") \o projectTenants("viewer")

handleAIModels == store \o aiQuery \o Query("AIModels") \o aiConfig

handleAISummary == store \o aiQuery \o Query("AIModels") \o aiConfig

handleAICallers == store \o aiQuery \o Query("AICallers") \o aiConfig

handleAITools == store \o aiQuery \o Query("AITools")
===============================================================================
