----------------------------- MODULE TraceQueries -----------------------------
(***************************************************************************)
(* The reads of otel_traces (hub/internal/storage/clickhouse): services,   *)
(* edges, collapsed edges, virtual targets, search, breakdown, heatmap,    *)
(* RED series, tags and labels, each as what it returns for a table of     *)
(* spans.                                                                  *)
(*                                                                         *)
(* A span: [row, tenant, trace, span, parent, svc, op, kind, code, http,   *)
(* httpOld, at, dur, noise, check, res, attrs, ns, workload, node, pod,    *)
(* db, msg, peer].  res and attrs are sets of <<key, value>>.              *)
(***************************************************************************)
EXTENDS Tables

\* httpStatusExpr, errorSpanExpr, refusedSpanExpr
httpStatusExpr(r) == Max({r.http, r.httpOld})

errorSpanExpr(r) ==
    \/ r.code = "Error"
    \/ r.code # "Ok" /\ (httpStatusExpr(r) >= 500 \/ (r.kind = "Client" /\ httpStatusExpr(r) >= 400))

refusedSpanExpr(r) ==
    r.code \notin {"Error", "Ok"} /\ r.kind # "Client" /\ httpStatusExpr(r) \in 400..499

StatusIs(r, status) == CASE status = "error" -> errorSpanExpr(r)
                         [] status = "refused" -> refusedSpanExpr(r)
                         [] status = "ok" -> ~errorSpanExpr(r) /\ ~refusedSpanExpr(r)
                         [] OTHER -> TRUE

\* auxExclusion: the span's name, route or database command is one of a probe
\* or a keepalive (noise), or the platform's own endpoint check sent it.
auxExclusion(r) == ~(r.noise = "yes" \/ r.check # Empty)
Kept(q, r) == q.excludeAux = "yes" => auxExclusion(r)

\* isResourceTag, tagFilters: a tag is <<key, value>>, a key <<prefix, name>>; a
\* business tag is an attribute of the resource, any other of the span.
isResourceTag(t) == t[1][1] = "avuru.tag."
tagFilters(q, r) == \A t \in q.tags : t \in IF isResourceTag(t) THEN r.res ELSE r.attrs

Entry(r) == r.kind \in {"Server", "Consumer"}
WithinDuration(q, r) == r.dur >= q.minDur /\ (q.maxDur > 0 => r.dur <= q.maxDur)
Named(wanted, name) == wanted # Empty => name = wanted

-----------------------------------------------------------------------------
ListServices(spans, q) ==
    LET g == GroupBy({r \in Scan(spans, q) : Entry(r) /\ Kept(q, r)}, LAMBDA r : r.svc)
    IN  {[svc |-> s, spans |-> Cardinality(g[s]), errors |-> Count(g[s], errorSpanExpr)] : s \in DOMAIN g}

\* Mutant of ServiceEdges: only the callee's side is filtered by tenant.
ServiceEdgesOneSided(spans, q) ==
    LET pairs == {p \in spans \X Scan(spans, q) : LET c == p[1]  s == p[2] IN
                    /\ s.kind = "Server" /\ c.kind = "Client" /\ s.svc # c.svc
                    /\ s.trace = c.trace /\ s.parent = c.span /\ Kept(q, s)}
    IN  {[src |-> k[1], dst |-> k[2],
          calls |-> Count(pairs, LAMBDA p : <<p[1].svc, p[2].svc>> = k),
          errors |-> Count(pairs, LAMBDA p : <<p[1].svc, p[2].svc>> = k /\ errorSpanExpr(p[2]))]
         : k \in {<<p[1].svc, p[2].svc>> : p \in pairs}}

\* ServiceEdges: a server span whose parent is another service's client span.
ServiceEdges(spans, q) ==
    LET pairs == {p \in Scan(spans, q) \X Scan(spans, q) : LET c == p[1]  s == p[2] IN
                    /\ s.kind = "Server" /\ c.kind = "Client" /\ s.svc # c.svc
                    /\ s.trace = c.trace /\ s.parent = c.span /\ Kept(q, s)}
    IN  {[src |-> k[1], dst |-> k[2],
          calls |-> Count(pairs, LAMBDA p : <<p[1].svc, p[2].svc>> = k),
          errors |-> Count(pairs, LAMBDA p : <<p[1].svc, p[2].svc>> = k /\ errorSpanExpr(p[2]))]
         : k \in {<<p[1].svc, p[2].svc>> : p \in pairs}}

maxCollapseDepth == 3

\* The chains that go one span further up, in its trace.
Longer(chains, rows) ==
    UNION {{Append(c, r) : r \in {p \in rows : p.trace = Last(c).trace /\ p.span = Last(c).parent}}
           : c \in chains}

\* Chains of `depth` transport spans above a server span, and a client span.
Walks(depth, spans, q, transport) ==
    LET rows == Scan(spans, q)
        servers == {<<r>> : r \in {s \in rows : s.kind = "Server" /\ Kept(q, s)}}
        Up(cs, i) == {c \in Longer(cs, rows) : Last(c).svc \in transport}
    IN  {c \in Longer(FoldLeft(Up, servers, [i \in 1 .. depth |-> i]), rows) :
           Last(c).kind = "Client" /\ Last(c).svc # c[1].svc}

\* Mutant of collapseBranch: the ends of the chain may be transport themselves.
collapseBranchOpenEnds(depth, spans, q, transport) == Walks(depth, spans, q, transport)

\* collapseBranch: those between two applications.
collapseBranch(depth, spans, q, transport) ==
    {c \in Walks(depth, spans, q, transport) : {c[1].svc, Last(c).svc} \cap transport = {}}

\* CollapsedEdges: what a mesh hides, one call per chain of joined rows; nothing
\* without one.
Chains(spans, q, transport) == UNION {collapseBranch(d, spans, q, transport) : d \in 1..maxCollapseDepth}
Ends(c) == <<Last(c).svc, c[1].svc>>
Via(c) == {c[i].svc : i \in 2 .. (Len(c) - 1)}
CollapsedEdges(spans, q, transport) ==
    LET cs == IF transport = {} THEN {} ELSE Chains(spans, q, transport)
    IN  {[src |-> k[1], dst |-> k[2],
          calls |-> Count(cs, LAMBDA c : Ends(c) = k),
          errors |-> Count(cs, LAMBDA c : Ends(c) = k /\ errorSpanExpr(c[1])),
          via |-> UNION {Via(c) : c \in {d \in cs : Ends(d) = k}}]
         : k \in {Ends(c) : c \in cs}}

\* VirtualTargets: databases, caches and queues, by the spans that call them.
virtualTargetLimit == 200
VirtualTargets(spans, q, cacheSystems) ==
    LET rs == {r \in Scan(spans, q) :
                 /\ r.kind \in {"Client", "Producer", "Consumer"}
                 /\ Kept(q, r) /\ (r.db # Empty \/ r.msg # Empty)
                 /\ ~(r.kind = "Consumer" /\ r.msg = Empty)}
        Key(r) == [svc |-> r.svc, system |-> IF r.msg # Empty THEN r.msg ELSE r.db, peer |-> r.peer,
                   kind |-> CASE r.msg # Empty -> "queue" [] r.msg = Empty /\ r.db \in cacheSystems -> "cache"
                              [] OTHER -> "database",
                   dir |-> IF r.kind = "Consumer" THEN "in" ELSE "out"]
        g == GroupBy(rs, Key)
    IN  Top(virtualTargetLimit, {[target |-> k, calls |-> Cardinality(g[k])] : k \in DOMAIN g},
            LAMBDA a, b : a.calls > b.calls)

TraceOverview(spans, q) ==
    LET g == GroupBy({r \in Scan(spans, q) : Entry(r) /\ Named(q.service, r.svc) /\ Kept(q, r)},
                     LAMBDA r : <<r.svc, r.op>>)
    IN  {[svc |-> k[1], op |-> k[2], reqs |-> Cardinality(g[k]), errors |-> Count(g[k], errorSpanExpr),
          refused |-> Count(g[k], refusedSpanExpr)] : k \in DOMAIN g}

\* ServiceLabels, ServiceWorkload: the labels most of a service's spans carry.
Commonest(rows, label(_)) ==
    CHOOSE l \in {label(r) : r \in rows} :
        \A m \in {label(r) : r \in rows} :
            Count(rows, LAMBDA r : label(r) = m) <= Count(rows, LAMBDA r : label(r) = l)
ServiceLabels(spans, q) ==
    LET g == GroupBy({r \in Scan(spans, q) : Entry(r) /\ Kept(q, r)}, LAMBDA r : r.svc)
    IN  {[svc |-> s, ns |-> Commonest(g[s], LAMBDA r : r.ns)] : s \in DOMAIN g}
ServiceWorkload(spans, q, service) ==
    LET rs == {r \in Scan(spans, q) : Entry(r) /\ r.svc = service /\ r.workload # Empty}
    IN  IF rs = {} THEN <<Empty, Empty>> ELSE Commonest(rs, LAMBDA r : <<r.ns, r.workload>>)

-----------------------------------------------------------------------------
\* repTuple: a trace stands for its root, or else for its earliest span.
repTuple(r) == <<IF r.parent = Empty THEN 0 ELSE 1, r.at, r.span>>
Rep(rs) == CHOOSE r \in rs : \A s \in rs : ~Below(repTuple(s), repTuple(r))

\* auxExclusionRep, tagFiltersRep: the same rules for a whole trace.
auxExclusionRep(rs) == Rep(rs).noise = "no"
tagFiltersRep(q, rs) ==
    \A t \in q.tags : IF isResourceTag(t) THEN \E r \in rs : t \in r.res ELSE t \in Rep(rs).attrs

\* The HAVING of SearchTraces: with a service, the trace contains such a span;
\* without one, the representative is such a span.
TraceMatches(q, rs) ==
    /\ IF q.service # Empty
       THEN LET own == {r \in rs : r.svc = q.service} IN
            /\ \E r \in own : Named(q.op, r.op) /\ WithinDuration(q, r)
            /\ q.status \in {"error", "refused"} => \E r \in own : StatusIs(r, q.status)
            /\ q.status = "ok" => \A r \in own : StatusIs(r, "ok")
       ELSE Named(q.op, Rep(rs).op) /\ WithinDuration(q, Rep(rs)) /\ StatusIs(Rep(rs), q.status)
    /\ tagFiltersRep(q, rs)
    /\ q.excludeAux = "yes" => auxExclusionRep(rs)

Summary(rs) == [trace |-> Rep(rs).trace, start |-> Min({r.at : r \in rs}), dur |-> Rep(rs).dur,
                spans |-> Cardinality(rs), errors |-> Count(rs, errorSpanExpr),
                refused |-> Count(rs, refusedSpanExpr)]
\* The sort key of each order, ascending.
TraceKey(order, t) == CASE order = "oldest" -> <<t.start, t.trace>>
                        [] order = "slowest" -> <<0 - t.dur, 0 - t.trace>>
                        [] order = "newest" -> <<0 - t.start, 0 - t.trace>>

\* The cursor is the last summary of the page before, or <<>>.
CursorKey(q) == TraceKey(q.order, [q.cursor[1] EXCEPT !.start = Bound(@)])

\* Mutant of AfterCursor: the page starts at the cursor, not after it.
AtCursor(q, t) == q.cursor # <<>> => ~Below(TraceKey(q.order, t), CursorKey(q))

AfterCursor(q, t) == q.cursor # <<>> => Below(CursorKey(q), TraceKey(q.order, t))

\* One summary per trace that the search is about.
TracesFound(spans, q) ==
    LET g == GroupBy(Scan(spans, q), LAMBDA r : r.trace)
    IN  {Summary(g[t]) : t \in {u \in DOMAIN g : TraceMatches(q, g[u])}}

\* SearchTraces: a page of those after the cursor.
SearchTraces(spans, q) ==
    LET left == {t \in TracesFound(spans, q) : AfterCursor(q, t)}
    IN  PageBy([t \in left |-> TraceKey(q.order, t)], Limited(q.limit, 500, 50), left)

\* FindSpanTrace, GetTrace: by key, never for the empty set of tenants.  The
\* window of a trace is looked up over every tenant's spans, and widened by Hour.
NotFound == {}
FindSpanTrace(spans, tenants, span) ==
    IF requireTenants(tenants) THEN {r.trace : r \in {s \in spans : s.tenant \in tenants /\ s.span = span}}
    ELSE NotFound

GetTrace(spans, tenants, trace, Hour) ==
    LET known == {r \in spans : r.trace = trace} IN
    IF requireTenants(tenants) /\ known # {}
    THEN {r \in known : /\ r.tenant \in tenants
                        /\ r.at >= Min({s.at : s \in known}) - Hour
                        /\ r.at < Max({s.at : s \in known}) + Hour}
    ELSE NotFound

-----------------------------------------------------------------------------
\* breakdownDimExpr, breakdownScopeFilter, TraceBreakdown
breakdownDimExpr(q, r) ==
    CASE q.groupBy = "service" -> r.svc
      [] q.groupBy = "operation" -> r.op
      [] q.groupBy = "status" -> IF errorSpanExpr(r) THEN 2 ELSE IF refusedSpanExpr(r) THEN 1 ELSE 0
      [] q.groupBy = "resource" -> Max({0} \cup {t[2] : t \in {u \in r.res : u[1] = q.key}})
breakdownScopeFilter(q, r) == CASE q.scope = "entry" -> Entry(r)
                                [] q.scope = "root" -> r.parent = Empty
                                [] q.scope = "all" -> TRUE
TraceBreakdown(spans, q) ==
    LET rs == {r \in Scan(spans, q) :
                 /\ breakdownScopeFilter(q, r) /\ Named(q.service, r.svc) /\ Named(q.op, r.op)
                 /\ StatusIs(r, q.status) /\ WithinDuration(q, r) /\ tagFilters(q, r) /\ Kept(q, r)}
        g == GroupBy(rs, LAMBDA r : breakdownDimExpr(q, r))
        Row(k, s) == [key |-> k, count |-> Cardinality(s), errors |-> Count(s, errorSpanExpr),
                      refused |-> Count(s, refusedSpanExpr), dur |-> Total(s, LAMBDA r : r.dur)]
    IN  [groups |-> Top(Limited(q.limit, 200, 20), {Row(k, g[k]) : k \in DOMAIN g},
                        LAMBDA a, b : a.count > b.count \/ (a.count = b.count /\ a.key < b.key)),
         total |-> Row(Empty, rs), groupCount |-> Cardinality(DOMAIN g)]

\* TraceHeatmap: cells by time and by the power of two of the duration.
Log2Floor(n, max) == Max({i \in 0..max : 2^i <= Max({n, 1})})
TraceHeatmap(spans, q, timeBuckets, durBuckets) ==
    LET w == Bucket(q, timeBuckets)
        rs == {r \in Scan(spans, q) :
                 /\ IF q.service # Empty THEN r.svc = q.service /\ Entry(r) ELSE r.parent = Empty
                 /\ Named(q.op, r.op) /\ tagFilters(q, r) /\ Kept(q, r)}
        g == GroupBy(rs, LAMBDA r : <<Min({(r.at - q.start) \div w, timeBuckets - 1}),
                                      Log2Floor(r.dur, durBuckets - 1)>>)
    IN  [c \in DOMAIN g |-> <<Cardinality(g[c]), Count(g[c], errorSpanExpr)>>]

\* REDSeries: one service, or the busiest.
REDSeries(spans, q, points, topN) ==
    LET rs == {r \in Scan(spans, q) : Entry(r) /\ Kept(q, r)}
        bySvc == GroupBy(rs, LAMBDA r : r.svc)
        busiest == Top(topN, DOMAIN bySvc, LAMBDA a, b : Cardinality(bySvc[a]) > Cardinality(bySvc[b]))
        shown == {r \in rs : IF q.service # Empty THEN r.svc = q.service ELSE r.svc \in Range(busiest)}
        g == GroupBy(shown, LAMBDA r : <<r.svc, r.at \div Bucket(q, points)>>)
    IN  [k \in DOMAIN g |-> <<Cardinality(g[k]), Count(g[k], errorSpanExpr)>>]

\* TagKeys: the business tags in use.
TagKeys(spans, q) == {t \in UNION {r.res : r \in Scan(spans, q)} : isResourceTag(t)}

\* PodConnections: a pod's client spans, each counted once however often it was
\* stored, resolved to the one pod that served them, or to the peer they name.
PodConnections(spans, q) ==
    LET stored == GroupBy({r \in Scan(spans, q) : r.kind = "Client" /\ r.pod # Empty /\ auxExclusion(r)},
                          LAMBDA r : <<r.tenant, r.trace, r.span>>)
        callers == {Latest(stored[i]) : i \in DOMAIN stored}
        Children(c) == {s \in Scan(spans, q) : /\ s.kind = "Server" /\ s.pod # Empty /\ s.parent # Empty
                                               /\ s.tenant = c.tenant /\ s.trace = c.trace
                                               /\ s.parent = c.span}
        Pod(r) == <<r.pod, r.ns, r.node>>
        Served(c) == Cardinality({Pod(s) : s \in Children(c)}) = 1
        Dst(c) == IF Served(c) THEN LET s == CHOOSE s \in Children(c) : TRUE IN Append(Pod(s), s.svc)
                  ELSE <<Empty, Empty, Empty, Empty>>
        Key(c) == [src |-> Append(Pod(c), c.svc), dst |-> Dst(c), peer |-> IF Served(c) THEN Empty ELSE c.peer]
        seen == {c \in callers : /\ Served(c) \/ c.peer # Empty
                                 /\ q.node # Empty => q.node \in {c.node, Dst(c)[3]}}
        g == GroupBy(seen, Key)
    IN  Top(Limited(q.limit, 501, 201),
            {[edge |-> k, calls |-> Cardinality(g[k]), errors |-> Count(g[k], errorSpanExpr)] : k \in DOMAIN g},
            LAMBDA a, b : a.calls > b.calls)
===============================================================================
