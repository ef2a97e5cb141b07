------------------------------ MODULE ApiSignals ------------------------------
(***************************************************************************)
(* The handlers that read telemetry (hub/internal/api): traces, logs, RED, *)
(* tags, errors, profiles, infrastructure and the data plane of the mesh.  *)
(***************************************************************************)
EXTENDS ApiSteps

\* traces.go
handleServices == Telemetry(<<>>) \o Query("ListServices")

stampServiceEnergy == Soft(QueryOne("ServiceEnergy"))
stampEdgeSecurity == Soft(Query("MeshSecurity"))

\* The labels decide whether there are namespaces to key the mTLS share by.
handleServiceMap ==
    Telemetry(<<>>) \o Query("ListServices") \o Query("ServiceEdges") \o Query("CollapsedEdges")
      \o With("infra-metrics", Query("NetworkEdges") \o Query("NetworkEdgeHealth"))
      \o Query("VirtualTargets")
      \o With("green", stampServiceEnergy)
      \o Soft(Query("ServiceLabels") \o With("mesh", With("infra-metrics", stampEdgeSecurity)))

handleTraceOverview == Telemetry(<<>>) \o Query("TraceOverview")

handleSearchTraces ==
    Telemetry(parseInt("limit") \o parseDurationMs("minDurationMs")
                \o parseDurationMs("maxDurationMs") \o parseCursor
                \o Param("status") \o Param("order"))
      \o Query("SearchTraces")

handleGetTrace == store \o Param("traceId") \o projectTenants("viewer") \o Query("GetTrace")

handleGetSpan == store \o Param("spanId") \o projectTenants("viewer") \o Query("FindSpanTrace")

handleHeatmap ==
    Telemetry(parseInt("timeBuckets") \o parseInt("durationBuckets")) \o Query("TraceHeatmap")

handleREDSeries == Telemetry(parseInt("points") \o parseInt("top")) \o Query("REDSeries")

handleTags == Telemetry(<<>>) \o Query("TagKeys")

handleTraceBreakdown ==
    Telemetry(parseGroupBy \o parseScope \o parseInt("limit")
                \o parseDurationMs("minDurationMs") \o parseDurationMs("maxDurationMs")
                \o Param("status"))
      \o Query("TraceBreakdown")

-----------------------------------------------------------------------------
\* service_logs.go: the workload behind a service, from its spans or from the
\* cluster.
resolveServiceWorkload ==
    Soft(Query("ServiceWorkload")) \o Maybe(With("mesh-config", Soft(meshSnapshot)))

\* mesh_workload_logs.go: its pods, or its name where they are not known.
workloadLogSources == With("mesh-config", Soft(meshSnapshot))

\* logs.go.  A page of a composed selection carries its resolution along, which
\* the next page must present.
handleSearchLogs ==
    Telemetry(parseInt("limit") \o parseLogCursor)
      \o parseLogSources \o Param("resolution")
      \o Maybe(resolveServiceWorkload \o Maybe(workloadLogSources))
      \o Maybe(Param("workload") \o workloadLogSources)
      \o Maybe(Expect("token fits"))
      \o Query("SearchLogs")

handleLogsForTrace == store \o Param("traceId") \o projectTenants("viewer") \o Query("LogsForTrace")

handleLogServices ==
    Telemetry(<<>>) \o Query("ServicePresence") \o Maybe(resolveServiceWorkload)

handleServiceLogs ==
    Param("service") \o parseLogSources \o Telemetry(parseInt("limit") \o parseLogCursor)
      \o Maybe(resolveServiceWorkload) \o Maybe(workloadLogSources) \o Query("SearchLogs")

handleMeshWorkloadLogs ==
    parseLogSources \o Telemetry(parseInt("limit") \o parseLogCursor)
      \o workloadLogSources \o Query("SearchLogs")

-----------------------------------------------------------------------------
\* error_tracking.go
handleSearchErrorIssues == Telemetry(parseInt("limit")) \o Query("SearchErrorIssues")

handleErrorStats ==
    Telemetry(Param("status") \o parseInt("points") \o parseInt("top")) \o Query("ErrorStats")

handleGetErrorIssue ==
    store \o parseFingerprint \o projectTenants("viewer") \o Query("GetErrorIssue")

handleListErrorEvents ==
    store \o parseFingerprint \o parseInt("limit") \o parseErrorEventCursor
      \o projectTenants("viewer") \o Query("ListErrorEvents")

handleErrorIssueHistogram ==
    store \o parseFingerprint \o parseTimeRange \o parseInt("points")
      \o projectTenants("viewer") \o Query("ErrorIssueHistogram")

\* The status is set before the issue is read back: a 404 or 500 of the read
\* leaves it set.
handleSetErrorIssueStatus ==
    store \o parseFingerprint \o decodeJSON \o Param("status")
      \o project("editor") \o isAggregate
      \o Write("SetErrorIssueStatus") \o QueryOne("GetErrorIssue")

-----------------------------------------------------------------------------
\* profiles.go, profiles_ingest.go
handleProfiledServices == Telemetry(<<>>) \o Query("ListProfiledServices")

handleFlamegraph == Telemetry(Param("service")) \o Query("ProfileFlamegraph")

handleProfilesIngest ==
    store \o Param("Content-Type") \o Param("body") \o project("viewer") \o isAggregate
      \o Param("payload") \o Write("WriteProfileSamples")

-----------------------------------------------------------------------------
\* infra.go, pod_connections.go, agents.go, zones.go
handleInfraNodes == Telemetry(parseInt("points")) \o Query("ListNodeStats")

handleInfraPods == Telemetry(parseInt("limit")) \o Query("ListPodStats")

handlePodConnections == Telemetry(parseInt("limit")) \o Query("PodConnections")

handleAgents ==
    store \o parseInt("windowSec") \o projectTenants("viewer") \o Query("ListAgentNodes")

handleZoneTraffic == Telemetry(<<>>) \o Query("ZoneTraffic")

-----------------------------------------------------------------------------
\* mesh.go: the proxies, with what the data plane said of them where it can be
\* read.
meshProxySecurity == Soft(Query("MeshSecurity")) \o Soft(Query("MeshZtunnelHealth"))

handleMeshProxies ==
    Telemetry(<<>>) \o Query("ListServices") \o Query("ServiceEdges") \o Soft(Query("ServiceLabels"))
      \o With("infra-metrics",
              Query("NetworkEdges") \o Query("NetworkEdgeHealth") \o meshProxySecurity)

\* mesh_control_plane.go: without infra-metrics there is nothing to read, and
\* the answer says so.
handleMeshControlPlane ==
    Without("infra-metrics", Answer) \o Telemetry(<<>>) \o Query("MeshControlPlane")

\* mesh_security.go
declaredMTLS == With("mesh-config", Soft(meshSnapshot))

tracedWorkloads == Soft(Query("ListServices") \o Query("ServiceLabels"))

handleMeshSecurity ==
    Without("infra-metrics", Answer) \o Telemetry(<<>>) \o Query("MeshSecurity")
      \o Maybe(Answer) \o declaredMTLS \o tracedWorkloads

\* mesh_requests.go
handleMeshWorkloadRequests ==
    Without("infra-metrics", Answer) \o Telemetry(<<>>) \o Query("MeshRequestBreakdown")

-----------------------------------------------------------------------------
\* mesh_workloads.go: traffic per workload, or none.
workloadTraffic == Soft(Telemetry(<<>>) \o Query("ListServices") \o Query("ServiceLabels"))

\* mesh_join.go: what the data plane observed per workload, or nothing.
observedWorkloads == With("infra-metrics", Soft(Telemetry(<<>>) \o Query("MeshSecurity")))

\* mesh_namespaces.go: the namespaces are the cluster's, the counts the store's.
handleMeshNamespaces ==
    meshSnapshot \o Unread(Answer) \o Soft(Telemetry(<<>>) \o Query("ServiceLabels"))
      \o observedWorkloads \o workloadTraffic

\* mesh_config.go
handleMeshConfig == meshSnapshot

handleMeshWorkloads ==
    Param("mode") \o meshSnapshot \o Unread(Answer) \o Maybe(Answer)
      \o workloadTraffic \o observedWorkloads

\* mesh_workload_detail.go, mesh_waypoints.go: one that is not in the (narrowed)
\* snapshot is a 404.
handleMeshWorkload ==
    meshSnapshot \o Unread(Answer) \o Maybe(Answer) \o Expect("workload")
      \o workloadTraffic \o observedWorkloads

handleMeshWaypoint == meshSnapshot \o Unread(Answer) \o Expect("waypoint")
===============================================================================
