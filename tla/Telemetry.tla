------------------------------- MODULE Telemetry -------------------------------
(***************************************************************************)
(* The tables of the telemetry store while rows keep arriving, late and in *)
(* any order, and what their readers conclude: a client paging through a   *)
(* search (hub/internal/api/traces.go, logs.go, errors.go), the status of  *)
(* an error issue, the edges of the service map, and the traffic of a      *)
(* workload, from the counters its proxies are scraped for.                *)
(***************************************************************************)
EXTENDS LogQueries, MetricQueries, MeshView

CONSTANTS
    SpanPool, LogPool, EventPool, FlowPool,   \* the rows that may arrive
    Transport,          \* topologyClassifier(): the services that are proxies
    Cluster,            \* every tenant
    Asks,               \* the queries a client pages through
    Reporters,          \* the proxies that count the calls to the workload
    Destination,        \* the workload
    MaxNow, MaxCalls    \* the bounds on time and on calls

\* What a client asks for.
AskFields == {"tenants", "tenant", "start", "end", "excludeAux", "service", "op", "status", "minDur", "maxDur",
              "tags", "order", "matchNone", "sources", "categories", "minSev", "text", "legacy", "ranged"}
Orders == {"newest", "oldest", "slowest"}

\* What a search lists, the last one of a page being the cursor of the next.
Listable(on) == CASE on = "traces" -> [trace : Int, start : Int, dur : Int, spans : Int, errors : Int, refused : Int]
                  [] on = "logs" -> LogPool
                  [] on = "events" -> EventPool

\* Tables are finite, the columns that order them are numbers, a query has its
\* fields, a cursor of the former order was handed out for a record, and the counters
\* of calls come from the proxies alone, which name themselves as Istio does.
ASSUME TelemetryAssumption ==
    /\ MaxNow \in Nat /\ Reporters \subseteq {"source", "destination", "waypoint"}
    /\ \A p \in FlowPool : p.metric \notin {"istio_requests", "istio_tcp"}
    /\ IsFiniteSet(SpanPool) /\ \A r \in SpanPool : {r.at, r.trace, r.span, r.dur} \subseteq Int
    /\ IsFiniteSet(LogPool)
    /\ \A r \in LogPool : {"at", "svc", "trace", "span"} \subseteq DOMAIN r
                          /\ {r.row, r.at, r.svc, r.trace, r.span} \subseteq Int
    /\ \A r, s \in LogPool : r.row = s.row => r = s
    /\ IsFiniteSet(EventPool)
    /\ \A e \in EventPool : {"at", "trace", "span"} \subseteq DOMAIN e
                            /\ {e.row, e.at, e.trace, e.span} \subseteq Int
    /\ \A e, f \in EventPool : e.row = f.row => e = f
    /\ Asks # {}
    /\ \A a \in Asks :
         /\ {"on", "fp", "q"} \subseteq DOMAIN a /\ a.on \in {"traces", "logs", "events"}
         /\ AskFields \cup {"cursor", "limit"} \subseteq DOMAIN a.q
         /\ a.q.limit \in Int /\ a.q.order \in Orders
         /\ a.q.cursor \in Seq(Listable(a.on)) /\ Len(a.q.cursor) <= 1
         /\ a.q.legacy = "yes" => a.q.cursor # <<>>

VARIABLES
    spans, logs, events, statuses, points,    \* the tables
    now,
    scroll,         \* the search a client pages through, with where its pages ended
    same,           \* history: what was there when it began, its key unchanged since
    counter,        \* per reporter and policy, what its process has counted
    calls, lost     \* history: calls per time and policy, counts lost to restarts

telemetryVars == <<spans, logs, events, statuses, points, now, scroll, same, counter, calls, lost>>

NoScroll == [state |-> "idle"]
Policies == {"mutual_tls", "none"}
Times == 0 .. MaxNow

TelemetryInit ==
    /\ spans = {} /\ logs = {} /\ events = {} /\ statuses = {} /\ points = {}
    /\ now = 0
    /\ scroll = NoScroll /\ same = {}
    /\ counter = [r \in Reporters |-> [p \in Policies |-> 0]]
    /\ calls = [t \in Times |-> [p \in Policies |-> 0]]
    /\ lost = [t \in Times |-> 0]

-----------------------------------------------------------------------------
(* Paging.                                                                 *)

\* All that a search is about, on however many pages, and its place in the order.
Matches(ask, ss, ls, es) == CASE ask.on = "traces" -> TracesFound(ss, ask.q)
                              [] ask.on = "logs" -> LogsFound(ls, ask.q)
                              [] ask.on = "events" -> EventsFound(es, ask.q, ask.fp)
Place(ask, r) == CASE ask.on = "traces" -> TraceKey(ask.q.order, r)
                   [] ask.on = "logs" -> LogPlace(ask.q, r)
                   [] ask.on = "events" -> EventPlace(r)
Found(ask, ss, ls, es) == {Place(ask, r) : r \in Matches(ask, ss, ls, es)}

\* One page: what it shows, and the cursor of the next one.
Page(ask) == CASE ask.on = "traces" -> SearchTraces(spans, ask.q)
               [] ask.on = "logs" -> SearchLogs(logs, ask.q)
               [] ask.on = "events" -> ListErrorEvents(events, ask.q, ask.fp)

\* The places of the rows of a page.
Places(ask, rows) == [i \in DOMAIN rows |-> Place(ask, rows[i])]

\* A client asks for the first page, or takes up a search where it once left it.
StartScroll(ask) ==
    /\ scroll = NoScroll
    /\ LET from == Range(Places(ask, ask.q.cursor)) IN
         /\ scroll' = [state |-> "open", ask |-> ask, got |-> <<>>, ends |-> from]
         /\ same' = {k \in Found(ask, spans, logs, events) : \A c \in from : Below(c, k)}
    /\ UNCHANGED <<spans, logs, events, statuses, points, now, counter, calls, lost>>

NextPage ==
    /\ scroll.state = "open"
    /\ LET p == Page(scroll.ask) IN
         scroll' = [state |-> IF p.next = <<>> THEN "done" ELSE "open",
                    ask |-> [scroll.ask EXCEPT !.q.cursor = p.next],
                    got |-> scroll.got \o Places(scroll.ask, p.rows),
                    ends |-> scroll.ends \cup Range(Places(scroll.ask, p.next))]
    /\ UNCHANGED <<spans, logs, events, statuses, points, now, same, counter, calls, lost>>

\* A row arrives: the exporter retries, so it may be late.
Arrive(ss, ls, es, ps) ==
    /\ <<ss, ls, es, ps>> # <<spans, logs, events, points>>
    /\ spans' = ss /\ logs' = ls /\ events' = es /\ points' = ps
    /\ same' = IF scroll.state = "open" THEN same \cap Found(scroll.ask, ss, ls, es) ELSE same
    /\ UNCHANGED <<statuses, now, scroll, counter, calls, lost>>
SpanArrives == \E r \in SpanPool : Arrive(spans \cup {r}, logs, events, points)
LogArrives == \E r \in LogPool : Arrive(spans, logs \cup {r}, events, points)
EventArrives == \E e \in EventPool : Arrive(spans, logs, events \cup {e}, points)
FlowArrives == \E p \in FlowPool : Arrive(spans, logs, events, points \cup {p})

-----------------------------------------------------------------------------
(* Issues.                                                                 *)

\* handleSetErrorIssueStatus, on a project of its own.
SetIssueStatus(tenant, fp, status) ==
    /\ \E e \in events : e.tenant = tenant /\ e.fp = fp
    /\ statuses' = SetErrorIssueStatus(statuses, tenant, fp, status, now)
    /\ UNCHANGED <<spans, logs, events, points, now, scroll, same, counter, calls, lost>>

-----------------------------------------------------------------------------
(* Counters.                                                               *)

\* Only the destination's own proxy knows the policy of a connection.
Label(r, p) == IF r = "destination" THEN p ELSE "unknown"

CallsIn(from, to, p) == MapThenSumSet(LAMBDA t : calls[t][p], from .. to)
LostIn(from, to) == MapThenSumSet(LAMBDA t : lost[t], from .. to)

MeshCall(p) ==
    /\ CallsIn(0, MaxNow, "mutual_tls") + CallsIn(0, MaxNow, "none") < MaxCalls
    /\ counter' = [r \in Reporters |-> [counter[r] EXCEPT ![p] = @ + 1]]
    /\ calls' = [calls EXCEPT ![now][p] = @ + 1]
    /\ UNCHANGED <<spans, logs, events, statuses, points, now, scroll, same, lost>>

\* The points of one scrape of a proxy: a series for each label it has counted.
Point == [row |-> 0, tenant |-> CHOOSE t \in Cluster : TRUE, metric |-> "", at |-> 0, value |-> 0,
          series |-> Empty, ns |-> Empty, pod |-> Empty, node |-> Empty, workload |-> Empty,
          job |-> Empty, src |-> Empty, dst |-> Empty, reporter |-> "", policy |-> "", code |-> 0,
          dir |-> "", iface |-> "", quality |-> ""]
Scraped(r) ==
    {[Point EXCEPT !.metric = "istio_requests", !.at = now, !.value = counter[r][p], !.series = <<r, p>>,
                   !.reporter = r, !.policy = Label(r, p), !.src = 1, !.dst = Destination, !.code = 200]
     : p \in {u \in Policies : counter[r][u] > 0}}

Scrape(r) ==
    /\ ~\E p \in points : p.at = now /\ p.reporter = r
    /\ points' = points \cup Scraped(r) /\ Scraped(r) # {}
    /\ UNCHANGED <<spans, logs, events, statuses, now, scroll, same, counter, calls, lost>>

\* A proxy restarts and counts from zero, in the same series.
ProxyRestarts(r) ==
    /\ counter[r]["mutual_tls"] + counter[r]["none"] > 0
    /\ lost' = [lost EXCEPT ![now] = @ + counter[r]["mutual_tls"] + counter[r]["none"]]
    /\ counter' = [counter EXCEPT ![r] = [p \in Policies |-> 0]]
    /\ UNCHANGED <<spans, logs, events, statuses, points, now, scroll, same, calls>>

Tick ==
    /\ now < MaxNow /\ now' = now + 1
    /\ UNCHANGED <<spans, logs, events, statuses, points, scroll, same, counter, calls, lost>>

PageNext == NextPage \/ (\E ask \in Asks : StartScroll(ask)) \/ SpanArrives \/ LogArrives \/ EventArrives
MapNext == SpanArrives \/ FlowArrives
IssueNext ==
    \/ Tick \/ EventArrives
    \/ \E e \in events, s \in {"unresolved", "resolved", "ignored"} : SetIssueStatus(e.tenant, e.fp, s)
MeshNext == Tick \/ (\E p \in Policies : MeshCall(p)) \/ \E r \in Reporters : Scrape(r) \/ ProxyRestarts(r)

TelemetryNext == PageNext \/ MapNext \/ IssueNext \/ MeshNext
TelemetrySpec == TelemetryInit /\ [][TelemetryNext]_telemetryVars

-----------------------------------------------------------------------------
(* Properties.                                                             *)

Ask(tenants) ==
    [(CHOOSE a \in Asks : TRUE).q EXCEPT !.tenants = tenants, !.cursor = <<>>, !.limit = 100, !.legacy = "no"]
Own(rows, tenants) == {r \in rows : r.tenant \in tenants}

\* What of a place reaches the next query as its cursor: the columns the cursor has,
\* the time in whole seconds (authtoken.go:22-27).
Columns(ask) == CASE ask.on = "traces" -> 2
                  [] ask.on = "logs" -> IF ask.q.legacy = "yes" THEN 3 ELSE 4
                  [] ask.on = "events" -> 3
CutTime(ask, t) == CASE ask.on = "traces" /\ ask.q.order = "oldest" -> Bound(t)
                     [] ask.on = "traces" /\ ask.q.order = "slowest" -> t
                     [] OTHER -> 0 - Bound(0 - t)
Cut(ask, c) == [i \in 1 .. Columns(ask) |-> IF i = 1 THEN CutTime(ask, c[1]) ELSE c[i]]
Past(ask, c, k) == Below(Cut(ask, c), k)

\* What comes after the end of a page and is dropped by its cursor, and what does not
\* and is taken in again.
Lost(ask, ends, k) == \E c \in ends : Below(c, k) /\ ~Past(ask, c, k)
Repeated(ask, ends, k) == \E c \in ends : ~Below(c, k) /\ Past(ask, c, k)

\* Whatever arrives between the pages, and wherever the client took up the search,
\* what a page shows again its cursor has taken in again, and a search that has come
\* to its end has shown all that was there when it began and kept its place, but for
\* what one of its cursors dropped: no row is missed or shown twice for any other
\* reason (params.go:105-107, logs.go:56-82).
ScrollAccounted ==
    scroll # NoScroll =>
        LET got == scroll.got IN
        /\ \A i, j \in DOMAIN got : i # j /\ got[i] = got[j] => Repeated(scroll.ask, scroll.ends, got[i])
        /\ scroll.state = "done" =>
             \A k \in same : k \in Range(got) \/ Lost(scroll.ask, scroll.ends, k)

\* Everything exactly once, which the cursor is there for ("to avoid skips/duplicates",
\* store.go:710-711).  ScrollAccounted comes to this where timestamps are whole
\* seconds and the columns of a cursor tell the rows apart: no cursor drops or repeats
\* anything then.
ScrollComplete ==
    scroll.state = "done" =>
        \A k \in same : Cardinality({i \in DOMAIN scroll.got : scroll.got[i] = k}) = 1

\* What every reader returns for the same query.
SpanReads(ss, q) ==
    <<ListServices(ss, q), ServiceEdges(ss, q), CollapsedEdges(ss, q, Transport), VirtualTargets(ss, q, {}),
      TraceOverview(ss, q), ServiceLabels(ss, q), {ServiceWorkload(ss, q, r.svc) : r \in Own(ss, q.tenants)},
      SearchTraces(ss, q), TraceBreakdown(ss, q), TraceHeatmap(ss, q, 2, 2), REDSeries(ss, q, 2, 2),
      TagKeys(ss, q), PodConnections(ss, q),
      {<<FindSpanTrace(ss, q.tenants, r.span), GetTrace(ss, q.tenants, r.trace, 1)>> : r \in SpanPool}>>
LogReads(ls, ss, es, sts, q) ==
    <<SearchLogs(ls, q), ServicePresence(ls, ss, q), {LogsForTrace(ls, q.tenants, r.trace) : r \in LogPool},
      SearchErrorIssues(es, sts, q), ErrorStats(es, sts, q, 2, 5),
      {<<GetErrorIssue(es, sts, q, q.tenants, e.fp), ListErrorEvents(es, q, e.fp),
         ErrorIssueHistogram(es, q, q.tenants, e.fp, 2)>> : e \in EventPool}>>
PointReads(ps, ss, q) ==
    <<ListNodeStats(ps, ps, q), ListPodStats(ps, q), WorkloadCosts(ps, q, 1), NodeCosts(ps, q, 1),
      ServiceEnergy(ps, ps, q, 1), NodeEnergy(ps, q, 1), NodeCoverage(ps, ps, q), NetworkEdges(ps, q),
      ZoneTraffic(ps, q), NetworkEdgeHealth(ps, q), ListAgentNodes(ps, ss, q),
      MeshControlPlane(ps, ps, q, 1), MeshSecurity(ps, ps, q, 1),
      MeshRequestBreakdown(ps, q, Destination), MeshZtunnelHealth(ps, ps, q)>>

\* No read sees a row of a tenant it was not asked about, not even as the other
\* end of a join, through the index of traces, which has no tenants, or as the
\* workload of a pod that has its name twice.  (Looked at where the clock and the
\* search, which no read depends on, have not moved yet.)
TenantsIsolated ==
    scroll = NoScroll /\ now = 0 => \A tenants \in (SUBSET Cluster) \ {{}} :
        LET q == Ask(tenants)
            ss == Own(spans, tenants)  ls == Own(logs, tenants)  es == Own(events, tenants)
        IN  /\ SpanReads(spans, q) = SpanReads(ss, q)
            /\ LogReads(logs, spans, events, statuses, q) = LogReads(ls, ss, es, Own(statuses, tenants), q)
            /\ PointReads(points, spans, q) = PointReads(Own(points, tenants), ss, q)

\* The edges of the service map, as handleServiceMap puts them together.
MapEdges(tenants) ==
    LET q == Ask(tenants)
        traced == SetToSeq({[src |-> e.src, dst |-> e.dst, calls |-> e.calls, bytes |-> 0, failed |-> 0,
                             via |-> {}, prov |-> ""] : e \in ServiceEdges(spans, q)})
        bytes == NetworkEdges(points, q)
        flows == SetToSeq({[src |-> k[1], dst |-> k[2], calls |-> 0, bytes |-> bytes[k], failed |-> 0,
                            via |-> {}, prov |-> ""] : k \in DOMAIN bytes})
        collapsed == SetToSeq(CollapsedEdges(spans, q, Transport))
    IN  applyEdgeHealth(MergeCollapsed(mergeEdges(traced, flows), collapsed),
                        SetToSeq(NetworkEdgeHealth(points, q)))

\* The map shows a pair of services once, whichever of its sources saw it; no
\* dependency that it reads through a proxy begins or ends at one; and it never
\* counts more calls into a service than the service has served.
MapSound ==
    \A tenants \in (SUBSET Cluster) \ {{}} :
        LET es == MapEdges(tenants) IN
        \A i \in DOMAIN es :
            /\ \A j \in (DOMAIN es) \ {i} : Pair(es[i]) # Pair(es[j])
            /\ es[i].via # {} => {es[i].src, es[i].dst} \cap Transport = {}
            /\ es[i].calls <= Count(Own(spans, tenants), LAMBDA r : r.kind = "Server" /\ r.svc = es[i].dst)

\* An issue is listed under exactly one status, whatever the window it is looked
\* at through, and under "resolved" only if somebody resolved it and nothing has
\* happened since; an event that arrives late does not count as new.
ResolvedMeansQuiet ==
    \A t \in {e.tenant : e \in events}, from \in Times : \A to \in from .. MaxNow :
        LET states == {"unresolved", "resolved", "ignored"}
            q == [Ask({t}) EXCEPT !.start = from, !.end = to + 1]
            listed == [s \in states \cup {"all"} |->
                         {i.fp : i \in matchingIssuesSQL(events, statuses, [q EXCEPT !.status = s])}]
        IN  /\ UNION {listed[s] : s \in states} = listed["all"]
            /\ \A s, u \in states : s # u => listed[s] \cap listed[u] = {}
            /\ \A fp \in listed["resolved"] :
                 \E st \in statuses :
                     /\ st.tenant = t /\ st.fp = fp /\ st.status = "resolved"
                     /\ \A e \in events : e.tenant = t /\ e.fp = fp => e.at <= st.at

\* However often the proxies are scraped, and however many of them saw a call,
\* no window shows a workload more calls than it got, but for what a restart
\* within the window hides (series.go:16-25); and a finding that plaintext
\* reaches it is only ever raised when plaintext did.  (Of every window that ends
\* now: a scrape never adds to one that has ended.  The query reads its bounds in
\* whole seconds, so the window is the one from the beginning of its first second.)
NoPhantomTraffic ==
    \A start \in 0 .. now :
        LET q == [Ask(Cluster) EXCEPT !.start = start, !.end = now + 1]
            from == Bound(start)
        IN
        \A w \in MeshSecurity({}, points, q, 0).workloads :
            /\ w.mtls + w.plain + w.unknown
                 <= CallsIn(from, now, "mutual_tls") + CallsIn(from, now, "none") + LostIn(from, now)
            /\ decorate([dataplane |-> "ambient", mode |-> "STRICT", traffic |-> "yes"],
                        [mtlsReq |-> w.mtls, plainReq |-> w.plain, unkReq |-> w.unknown,
                         mtlsConn |-> 0, plainConn |-> 0, unkConn |-> 0], "yes")[1]
                   = "declared-strict-observed-plaintext"
                 => CallsIn(0, now, "none") > 0
===============================================================================
