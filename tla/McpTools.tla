------------------------------- MODULE McpTools -------------------------------
(***************************************************************************)
(* The MCP server (hub/internal/mcp) behind POST /mcp: one JSON-RPC call   *)
(* per request, over the tenants the route resolved.                       *)
(*                                                                         *)
(* An error of a tool is an answer: the HTTP status is 200 whatever the    *)
(* tool meets, so the tool as a whole is Soft.                             *)
(***************************************************************************)
EXTENDS ApiSteps

\* args.go
timeRange == Param("window, start, end")
decodeArgs == Param("arguments")

\* The span-bearing services first; others only where no span matches.
resolveServiceStats ==
    Param("service") \o Query("ListServices") \o Maybe(Query("ServicePresence") \o Expect("service"))
resolveService == resolveServiceStats

-----------------------------------------------------------------------------
\* context.go
firingAlerts == Query("LoadAlertStates")

runServiceContext ==
    decodeArgs \o timeRange \o resolveServiceStats \o Query("ServiceEdges")
      \o Query("CollapsedEdges")
      \o With("error-tracking", Query("SearchErrorIssues"))
      \o With("alerting", firingAlerts)

\* signals.go
runListServices == decodeArgs \o timeRange \o Query("ListServices")

enumOr(name) == Param(name)

runSearchTraces ==
    decodeArgs \o timeRange \o enumOr("status") \o enumOr("order") \o Maybe(resolveService)
      \o Query("SearchTraces")

runGetTrace == decodeArgs \o Param("trace_id") \o Query("GetTrace")

\* By trace, whatever the other filters say; or by filter.
runSearchLogs ==
    decodeArgs \o Maybe(Query("LogsForTrace") \o Answer)
      \o timeRange \o Maybe(resolveService) \o Query("SearchLogs")

runListErrorIssues ==
    decodeArgs \o timeRange \o enumOr("status") \o enumOr("sort") \o Maybe(resolveService)
      \o Query("SearchErrorIssues")

-----------------------------------------------------------------------------
\* tools.go, protocol.go: one of the tools by name, if its module is on.
runTool(steps) == Soft(steps)

callTool ==
    Maybe(runTool(runServiceContext) \o Answer)
      \o Maybe(runTool(runListServices) \o Answer)
      \o Maybe(runTool(runSearchTraces) \o Answer)
      \o Maybe(runTool(runGetTrace) \o Answer)
      \o Maybe(With("logs", runTool(runSearchLogs) \o Answer))
      \o Maybe(With("error-tracking", runTool(runListErrorIssues) \o Answer))

\* Batches, malformed requests, unknown methods and notifications are answered
\* without touching the store.
dispatch == Maybe(Answer) \o callTool
Handle == Maybe(Answer) \o dispatch

\* mcp.go in hub/internal/api
handleMCP == store \o projectTenants("viewer") \o Param("body") \o Handle
===============================================================================
