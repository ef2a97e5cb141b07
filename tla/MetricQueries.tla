---------------------------- MODULE MetricQueries ----------------------------
(***************************************************************************)
(* The reads of otel_metrics_* (hub/internal/storage/clickhouse: metrics,  *)
(* cost, green, zones, network health, agents, mesh).                      *)
(*                                                                         *)
(* A point of a metric: [row, tenant, metric, at, value, series, ns, pod,  *)
(* node, workload, job, src, dst, reporter, policy, code, dir, iface,      *)
(* quality], series standing for its attributes as a whole.  A counter's   *)
(* value is the running total since its process started.                   *)
(***************************************************************************)
EXTENDS TraceQueries

Of(points, q, metrics) == {p \in Scan(points, q) : p.metric \in metrics}

\* seriesDeltaExpr: a counter's rise, per series first and summed after.
seriesDeltaExpr(ps) == Max({p.value : p \in ps}) - Min({p.value : p \in ps})
Rise(ps) == LET g == GroupBy(ps, LAMBDA p : p.series)
            IN  MapThenSumSet(LAMBDA s : seriesDeltaExpr(g[s]), DOMAIN g)
SumValues(ps) == Total(ps, LAMBDA p : p.value)
Mean(S, value(_)) == IF S = {} THEN 0 ELSE MapThenSumSet(value, S) \div Cardinality(S)

-----------------------------------------------------------------------------
\* ListNodeStats, ListPodStats; the counters of a node's network rise by interface.
InterfaceRise(ps) == LET g == GroupBy(ps, LAMBDA p : p.iface)
                     IN  MapThenSumSet(LAMBDA i : seriesDeltaExpr(g[i]), DOMAIN g)
ListNodeStats(gauges, sums, q) ==
    LET Node(p) == p.node
        ofNode(ps) == {p \in ps : p.node # Empty}
        latest == ofNode(Of(gauges, q, {"node.cpu", "node.mem", "node.memAvail"}))
        net == ofNode(Of(sums, q, {"node.net"}))
        pods == ofNode(Of(gauges, q, {"pod.cpu"}))
    IN  {[node |-> n,
          cpu |-> LatestValue({p \in latest : p.node = n /\ p.metric = "node.cpu"}),
          mem |-> LatestValue({p \in latest : p.node = n /\ p.metric = "node.mem"}),
          rx |-> InterfaceRise({p \in net : p.node = n /\ p.dir = "receive"}),
          tx |-> InterfaceRise({p \in net : p.node = n /\ p.dir = "transmit"}),
          pods |-> Cardinality({p.pod : p \in {r \in pods : r.node = n}})]
         : n \in {p.node : p \in latest \cup net \cup pods}}

ListPodStats(gauges, q) ==
    LET g == GroupBy({p \in Of(gauges, q, {"pod.cpu", "pod.mem"}) : p.pod # Empty /\ Named(q.node, p.node)},
                     LAMBDA p : <<p.pod, p.ns>>)
    IN  Top(IF q.limit <= 0 THEN 200 ELSE q.limit,
            {[pod |-> k[1], ns |-> k[2],
              cpu |-> LatestValue({p \in g[k] : p.metric = "pod.cpu"}),
              mem |-> LatestValue({p \in g[k] : p.metric = "pod.mem"})] : k \in DOMAIN g},
            LAMBDA a, b : a.cpu > b.cpu)

\* WorkloadCosts, NodeCosts: by the minute, reserved on average and used at peak.
PerMinute(ps, metric, minute) ==
    LET g == GroupBy({p \in ps : p.metric = metric}, LAMBDA p : p.at \div minute)
    IN  {[t |-> t, sum |-> SumValues(g[t])] : t \in DOMAIN g}
Mean2(ps, metric, minute) == Mean(PerMinute(ps, metric, minute), LAMBDA b : b.sum)
Peak(ps, metric, minute) == Max({0} \cup {b.sum : b \in PerMinute(ps, metric, minute)})

WorkloadCosts(gauges, q, minute) ==
    LET ps == {p \in Of(gauges, q, {"cpu_request", "mem_request", "pod.cpu", "pod.mem"}) : p.workload # Empty}
        g == GroupBy(ps, LAMBDA p : <<p.workload, p.ns>>)
        Row(k) == [workload |-> k[1], ns |-> k[2], reserved |-> Mean2(g[k], "cpu_request", minute),
                   peak |-> Peak(g[k], "pod.cpu", minute), mean |-> Mean2(g[k], "pod.cpu", minute)]
        Idle(w) == Max({w.reserved - w.peak, 0})
    IN  Top(IF q.limit <= 0 THEN 200 ELSE q.limit, {Row(k) : k \in DOMAIN g},
            LAMBDA a, b : Idle(a) > Idle(b) \/ (Idle(a) = Idle(b) /\ a.workload < b.workload))

NodeCosts(gauges, q, minute) ==
    LET ps == {p \in Of(gauges, q, {"alloc.cpu", "cpu_request", "node.cpu"}) : p.node # Empty}
    IN  {[node |-> n, alloc |-> LatestValue({p \in ps : p.node = n /\ p.metric = "alloc.cpu"}),
          requested |-> Mean2({p \in ps : p.node = n}, "cpu_request", minute),
          used |-> LatestValue({p \in ps : p.node = n /\ p.metric = "node.cpu"})]
         : n \in {p.node : p \in {r \in ps : r.metric = "alloc.cpu"}}}

-----------------------------------------------------------------------------
\* ServiceEnergy: a pod's rise by bucket and quality, the pod's workload from
\* its own readings, nobody's where it has none.
Energy(ps, q, width) ==
    LET g == GroupBy(ps, LAMBDA p : <<p.at \div width, p.series>>)
    IN  MapThenSumSet(LAMBDA k : seriesDeltaExpr(g[k]), DOMAIN g)
ServiceEnergy(sums, gauges, q, width) ==
    LET es == Of(sums, q, q.energyMetrics)
        WorkloadsOf(p) == {w.workload : w \in {r \in Of(gauges, q, {"pod.cpu"}) :
                                                 r.pod # Empty /\ r.pod = p.pod /\ r.ns = p.ns}}
        Service(p) == IF WorkloadsOf(p) = {} THEN Empty ELSE Max(WorkloadsOf(p))
        g == GroupBy(es, LAMBDA p : <<Service(p), p.quality>>)
    IN  {[svc |-> k[1], quality |-> k[2], joules |-> Energy(g[k], q, width)] : k \in DOMAIN g}

NodeEnergy(sums, q, width) ==
    LET g == GroupBy({p \in Of(sums, q, q.energyMetrics) : p.node # Empty}, LAMBDA p : <<p.node, p.quality>>)
    IN  {[node |-> k[1], quality |-> k[2], joules |-> Energy(g[k], q, width)] : k \in DOMAIN g}

\* NodeCoverage: which of the known nodes have an energy reading, of which kind.
NodeCoverage(sums, gauges, q) ==
    LET es == {p \in Of(sums, q, q.energyMetrics) : p.node # Empty}
        known == {p.node : p \in {r \in Scan(gauges, q) : r.node # Empty}} \cup {p.node : p \in es}
        With(quality) == Cardinality({p.node : p \in {r \in es : r.quality = quality}})
    IN  [known |-> Cardinality(known), measured |-> With("measured"), estimated |-> With("estimated"),
         absent |-> Max({Cardinality(known) - With("measured") - With("estimated"), 0})]

-----------------------------------------------------------------------------
\* NetworkEdges, ZoneTraffic, sumEdgeCounter: by the two ends, which differ.
EdgeTotals(sums, q, metric) ==
    LET g == GroupBy({p \in Of(sums, q, {metric}) : p.src # Empty /\ p.dst # Empty /\ p.src # p.dst},
                     LAMBDA p : <<p.src, p.dst>>)
    IN  [k \in DOMAIN g |-> SumValues(g[k])]
NetworkEdges(sums, q) == EdgeTotals(sums, q, "flow.bytes")
sumEdgeCounter(sums, q, metric) == EdgeTotals(sums, q, metric)
ZoneTraffic(sums, q) ==
    LET g == GroupBy({p \in Of(sums, q, {"zone.bytes"}) : p.src # Empty /\ p.dst # Empty},
                     LAMBDA p : <<p.src, p.dst>>)
    IN  [k \in DOMAIN g |-> SumValues(g[k])]

\* NetworkEdgeHealth: whatever is known of an edge, zero for the rest of it.
At0(f, k) == IF k \in DOMAIN f THEN f[k] ELSE 0
NetworkEdgeHealth(sums, q) ==
    LET failed == sumEdgeCounter(sums, q, "tcp.failed")
        again == sumEdgeCounter(sums, q, "tcp.retransmits")
    IN  {[src |-> k[1], dst |-> k[2], failed |-> At0(failed, k), retransmits |-> At0(again, k)]
         : k \in DOMAIN failed \cup DOMAIN again}

\* ListAgentNodes: what each node last sent.
Newest(rows, n) == Max({0} \cup {r.at : r \in {s \in rows : s.node = n}})
ListAgentNodes(gauges, spans, q) ==
    LET ms == {p \in Of(gauges, q, {"node.cpu", "node.mem"}) : p.node # Empty}
        ts == {r \in Scan(spans, q) : r.node # Empty}
    IN  {[node |-> n, metrics |-> Newest(ms, n), traces |-> Newest(ts, n),
          seen |-> Max({Newest(ms, n), Newest(ts, n)})] : n \in {r.node : r \in ms \cup ts}}
-----------------------------------------------------------------------------
\* meshScrapeState: without a reading, is the scraper up?
meshScrapeState(gauges, q, job) ==
    LET ups == {p \in Of(gauges, q, {"up"}) : p.job = job}
    IN  CASE ups = {} -> "unconfigured"
          [] ups # {} /\ LatestValue(ups) = 0 -> "unreachable"
          [] ups # {} /\ LatestValue(ups) # 0 -> "unrecognised"

\* MeshControlPlane: numbers only where there is a reading of any of them.
MeshControlPlane(gauges, sums, q, job) ==
    LET proxies == Of(gauges, q, {"pilot_xds"})
        counters == Of(sums, q, {"xds_rejects", "xds_pushes", "xds_write_timeout", "cfg_events"})
        available == proxies # {} \/ counters # {}
    IN  [available |-> IF available THEN "yes" ELSE "no",
         state |-> IF available THEN "ok" ELSE meshScrapeState(gauges, q, job),
         proxies |-> LatestValue(proxies),
         rejects |-> SumValues({p \in counters : p.metric = "xds_rejects"}),
         pushes |-> SumValues({p \in counters : p.metric = "xds_pushes"})]

\* meshTrafficRows: the rise of every pair of workloads, as one reporter saw it.
meshTrafficRows(sums, q) ==
    LET g == GroupBy({p \in Of(sums, q, {"istio_requests", "istio_tcp"}) : p.dst # Empty},
                     LAMBDA p : [metric |-> p.metric, reporter |-> p.reporter, src |-> p.src, dst |-> p.dst,
                                 policy |-> p.policy])
    IN  {[k |-> k, n |-> Rise(g[k])] : k \in DOMAIN g}

reporterRank(r) == CASE r = "destination" -> 0 [] r = "waypoint" -> 1 [] r = "source" -> 2 [] OTHER -> 3

\* addCounts
addCounts(rows, policy) ==
    MapThenSumSet(LAMBDA r : r.n, {r \in rows : IF policy = "unknown" THEN r.k.policy \notin {"mutual_tls", "none"}
                                                ELSE r.k.policy = policy})

\* Mutant of preferReporter: both ends of a call are counted.
preferReporterBoth(rows) ==
    {[dst |-> d, mtls |-> addCounts({r \in rows : r.k.dst = d}, "mutual_tls"),
      plain |-> addCounts({r \in rows : r.k.dst = d}, "none"),
      unknown |-> addCounts({r \in rows : r.k.dst = d}, "unknown")] : d \in {r.k.dst : r \in rows}}

\* preferReporter: for each workload the reports of one kind of reporter alone,
\* the one nearest to it.
preferReporter(rows) ==
    LET Best(d) == Min({reporterRank(r.k.reporter) : r \in {s \in rows : s.k.dst = d}})
        Own(d) == {r \in rows : r.k.dst = d /\ reporterRank(r.k.reporter) = Best(d)}
    IN  {[dst |-> d, mtls |-> addCounts(Own(d), "mutual_tls"), plain |-> addCounts(Own(d), "none"),
          unknown |-> addCounts(Own(d), "unknown")] : d \in {r.k.dst : r \in rows}}

\* foldRequests, MeshRequestBreakdown: the same for one workload, by caller.
foldRequests(rows) ==
    LET best == Min({reporterRank(r.reporter) : r \in rows})
        own == {r \in rows : reporterRank(r.reporter) = best}
        g == GroupBy(own, LAMBDA r : r.src)
    IN  {[src |-> s, requests |-> Total(g[s], LAMBDA r : r.n),
          errors |-> MapThenSumSet(LAMBDA r : r.n, {r \in g[s] : r.code >= 500})] : s \in DOMAIN g}
MeshRequestBreakdown(sums, q, workload) ==
    LET g == GroupBy({p \in Of(sums, q, {"istio_requests"}) : p.dst = workload},
                     LAMBDA p : <<p.reporter, p.src, p.code>>)
    IN  IF DOMAIN g = {} THEN {}
        ELSE foldRequests({[reporter |-> k[1], src |-> k[2], code |-> k[3], n |-> Rise(g[k])] : k \in DOMAIN g})

\* meshTargets, MeshSecurity
meshTargets(gauges, q, job) ==
    LET g == GroupBy({p \in Of(gauges, q, {"up"}) : p.job = job}, LAMBDA p : p.series)
    IN  [total |-> Cardinality(DOMAIN g), up |-> Count(DOMAIN g, LAMBDA i : LatestValue(g[i]) > 0)]
MeshSecurity(gauges, sums, q, job) ==
    LET rows == meshTrafficRows(sums, q)
    IN  [state |-> IF rows # {} THEN "ok" ELSE meshScrapeState(gauges, q, job),
         workloads |-> preferReporter(rows), targets |-> meshTargets(gauges, q, job)]

\* meshLatestGauges, MeshZtunnelHealth
meshLatestGauges(gauges, q, metrics) ==
    LET g == GroupBy(Of(gauges, q, metrics), LAMBDA p : <<p.metric, p.series>>)
    IN  {[metric |-> k[1], instance |-> k[2], latest |-> LatestValue(g[k])] : k \in DOMAIN g}
MeshZtunnelHealth(gauges, sums, q) ==
    LET gs == meshLatestGauges(gauges, q, {"ztunnel.active", "ztunnel.pending"})
        ends == Of(sums, q, {"xds_terminations"})
        Sum(m) == MapThenSumSet(LAMBDA r : r.latest, {r \in gs : r.metric = m})
    IN  [measured |-> IF gs # {} \/ ends # {} THEN "yes" ELSE "no",
         active |-> Sum("ztunnel.active"), pending |-> Sum("ztunnel.pending"),
         pods |-> Cardinality({r.instance : r \in gs}), terminations |-> Rise(ends)]
===============================================================================
