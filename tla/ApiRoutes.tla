------------------------------ MODULE ApiRoutes ------------------------------
(***************************************************************************)
(* The hub's route table (Register in hub/internal/api/router.go) and what *)
(* the permission matrix makes of it (permissions.go).                     *)
(***************************************************************************)
EXTENDS ApiSignals, ApiOperations, ApiAdmin, McpTools, FiniteSets

\* A route: its method, the area its path belongs to (areaOf: the segment after
\* /api/v1/, "" for a path elsewhere), the guard around its handler, the
\* modules it is registered with, and the handler.
R(method, area, guard, mods, steps) ==
    [method |-> method, area |-> area, guard |-> guard, mods |-> mods, steps |-> steps]

GET(area, guard, steps) == R("GET", area, guard, {}, steps)
POST(area, guard, steps) == R("POST", area, guard, {}, steps)
\* Registered only while a module (or a configuration switch) is on.
In(mods, routes) == [i \in DOMAIN routes |-> [routes[i] EXCEPT !.mods = @ \cup mods]]

\* Core, projects, keys, rates, collection, traces.
RegisterCore ==
    <<GET("", "public", handleHealthz), GET("status", "viewer", handleStatus),
     GET("capabilities", "viewer", handleCapabilities),
     GET("projects", "viewer", handleProjects),
     POST("projects", "admin", handleCreateProject),
     R("PUT", "projects", "admin", {}, handleUpdateProject),
     R("DELETE", "projects", "admin", {}, handleDeleteProject),
     GET("projects", "admin", handleListIngestKeys),
     POST("projects", "admin", handleCreateIngestKey),
     R("DELETE", "projects", "admin", {}, handleRevokeIngestKey),
     POST("", "public", handleValidateIngestKey),
     GET("collection", "admin", handleGetCollectionOverlay),
     R("PUT", "collection", "admin", {}, handlePutCollectionOverlay),
     R("DELETE", "collection", "admin", {}, handleDeleteCollectionOverlay),
     GET("rates", "admin", handleGetRates), R("PUT", "rates", "admin", {}, handlePutRates),
     R("DELETE", "rates", "admin", {}, handleDeleteRates),
     GET("system", "admin", handleSystemStatus),
     GET("services", "viewer", handleServices), GET("tags", "viewer", handleTags),
     GET("service-map", "viewer", handleServiceMap),
     GET("traces", "viewer", handleSearchTraces), GET("traces", "viewer", handleTraceOverview),
     GET("traces", "viewer", handleTraceBreakdown), GET("traces", "viewer", handleHeatmap),
     GET("traces", "viewer", handleGetTrace), GET("traces", "viewer", handleGetSpan),
     GET("metrics", "viewer", handleREDSeries),
     GET("auth", "public", handleAuthConfig), GET("auth", "authenticated", handlePermissions)>>

\* Sign-in, tokens and users exist only where there is an auth service.
RegisterAuth ==
    In({"auth"},
       <<POST("auth", "public", handleLogin), POST("auth", "authenticated", handleLogout),
        GET("auth", "authenticated", handleMe), POST("auth", "authenticated", handleChangePassword),
        GET("tokens", "authenticated", handleListAPITokens),
        POST("tokens", "authenticated", handleCreateAPIToken),
        R("DELETE", "tokens", "authenticated", {}, handleRevokeAPIToken),
        POST("auth", "public", handleDemoLogin),
        GET("auth", "public", handleOIDCStart), GET("auth", "public", handleOIDCCallback),
        GET("auth", "admin", handleOIDCMapping),
        R("PUT", "auth", "admin", {}, handleUpsertOIDCMapping),
        R("DELETE", "auth", "admin", {}, handleDeleteOIDCMapping),
        POST("auth", "admin", handleResetOIDCMapping),
        GET("users", "admin", handleListUsers), POST("users", "admin", handleCreateUser),
        R("PUT", "users", "admin", {}, handleUpdateUser),
        R("DELETE", "users", "admin", {}, handleDeleteUser)>>)

RegisterSignals ==
    In({"logs"},
       <<GET("logs", "viewer", handleSearchLogs), GET("logs", "viewer", handleLogServices),
        GET("services", "viewer", handleServiceLogs), GET("traces", "viewer", handleLogsForTrace)>>)
    \o In({"profiling"},
       <<GET("profiles", "viewer", handleProfiledServices), GET("profiles", "viewer", handleFlamegraph),
        POST("", "public", handleProfilesIngest)>>)
    \o In({"infra-metrics"},
       <<GET("infra", "viewer", handleInfraNodes), GET("infra", "viewer", handleInfraPods),
        GET("infra", "viewer", handlePodConnections), GET("agents", "viewer", handleAgents),
        GET("network", "viewer", handleZoneTraffic)>>)
    \o In({"error-tracking"},
       <<GET("errors", "viewer", handleSearchErrorIssues), GET("errors", "viewer", handleErrorStats),
        GET("errors", "viewer", handleGetErrorIssue), GET("errors", "viewer", handleListErrorEvents),
        GET("errors", "viewer", handleErrorIssueHistogram),
        POST("errors", "editor", handleSetErrorIssueStatus)>>)

RegisterOperations ==
    In({"service-health"},
       <<GET("health", "viewer", handleHealthGroups), GET("health", "viewer", handleHealthGroup),
        GET("service-groups", "viewer", handleServiceGroups),
        POST("service-groups", "admin", handleCreateServiceGroup),
        R("PUT", "service-groups", "admin", {}, handleUpdateServiceGroup),
        R("DELETE", "service-groups", "admin", {}, handleDeleteServiceGroup),
        GET("checks", "viewer", handleChecks), GET("checks", "viewer", handleCheckResults)>>)
    \o In({"alerting"},
       <<GET("alerts", "viewer", handleAlerts), GET("alerts", "viewer", handleAlertRules),
        GET("alerts", "viewer", handleListAlertChannels),
        POST("alerts", "admin", handleCreateAlertChannel),
        R("PUT", "alerts", "admin", {}, handleUpdateAlertChannel),
        R("DELETE", "alerts", "admin", {}, handleDeleteAlertChannel),
        POST("alerts", "admin", handleTestAlertChannel)>>)

RegisterMesh ==
    In({"mesh"},
       <<GET("mesh", "viewer", handleMeshProxies), GET("mesh", "viewer", handleMeshControlPlane),
        GET("mesh", "viewer", handleMeshSecurity), GET("mesh", "viewer", handleMeshWorkloadRequests)>>
       \o In({"logs"}, <<GET("mesh", "viewer", handleMeshWorkloadLogs)>>))
    \o In({"mesh-config"},
       <<GET("mesh", "viewer", handleMeshNamespaces), GET("mesh", "viewer", handleMeshConfig),
        GET("mesh", "viewer", handleMeshWorkloads), GET("mesh", "viewer", handleMeshWorkload),
        GET("mesh", "viewer", handleMeshWaypoint)>>)

\* The OAuth routes serve the MCP server; they take an auth service for granted.
RegisterModules ==
    In({"green"},
       <<GET("green", "viewer", handleGreenSummary), GET("green", "viewer", handleGreenBudgets),
        GET("green", "viewer", handleGreenReport)>>)
    \o In({"cost"},
       <<GET("cost", "viewer", handleCostWorkloads), GET("cost", "viewer", handleCostNodes)>>)
    \o In({"ai"},
       <<GET("ai", "viewer", handleAISummary), GET("ai", "viewer", handleAIModels),
        GET("ai", "viewer", handleAICallers), GET("ai", "viewer", handleAITools)>>)
    \o In({"mcp"}, <<POST("", "resource", handleMCP)>>)
    \o In({"mcp", "auth"},
       <<GET("", "public", handleProtectedResourceMetadata), POST("auth", "public", handleRegisterClient),
        GET("", "public", handleAuthorizationServerMetadata),
        GET("auth", "public", handleAuthorize), GET("auth", "authenticated", handleConsentView),
        POST("auth", "authenticated", handleConsentDecide),
        POST("auth", "public", handleToken), POST("auth", "public", handleRevoke),
        GET("auth", "authenticated", handleListGrants),
        R("DELETE", "auth", "authenticated", {}, handleRevokeGrant)>>)

Routes == RegisterCore \o RegisterAuth \o RegisterSignals \o RegisterOperations
            \o RegisterMesh \o RegisterModules

-----------------------------------------------------------------------------
roleRank(r) == CASE r = "admin" -> 3 [] r = "editor" -> 2 [] r = "viewer" -> 1 [] OTHER -> 0

\* record: the role a guard states, "" where it states none.
minRole(r) == CASE r.guard \in {"viewer", "editor", "admin"} -> r.guard
                [] r.guard = "resource" -> "viewer" [] OTHER -> ""

\* Mutant of matrix: the highest role of the area is shown, not the lowest.
matrixHighest(area, read) ==
    LET roles == {minRole(Routes[i]) : i \in {j \in DOMAIN Routes :
                   /\ Routes[j].area = area /\ minRole(Routes[j]) # ""
                   /\ (Routes[j].method = "GET") = read}}
    IN  IF roles = {} THEN "" ELSE CHOOSE x \in roles : \A y \in roles : roleRank(y) <= roleRank(x)

\* handlePermissions: the lowest role any of an area's routes asks for, apart
\* for reads and for writes.
matrix(area, read) ==
    LET roles == {minRole(Routes[i]) : i \in {j \in DOMAIN Routes :
                   /\ Routes[j].area = area /\ minRole(Routes[j]) # ""
                   /\ (Routes[j].method = "GET") = read}}
    IN  IF roles = {} THEN "" ELSE CHOOSE x \in roles : \A y \in roles : roleRank(x) <= roleRank(y)
===============================================================================
