------------------------------ MODULE LogQueries ------------------------------
(***************************************************************************)
(* The reads of otel_logs and error_events                                 *)
(* (hub/internal/storage/clickhouse: logs.go, errors.go).                  *)
(*                                                                         *)
(* A log record: [row, tenant, svc, sev, body, trace, span, at, res,       *)
(* attrs], body being the set of the needles found in it.  An error event: *)
(* [row, tenant, svc, fp, text, trace, span, at]; a status:                *)
(* [tenant, fp, status, at], the last one written for its issue.           *)
(***************************************************************************)
EXTENDS TraceQueries

CONSTANT Ztunnel, Waypoint    \* the service names of the mesh's own workloads

\* logCategoryFilter: by the name of the service.  (Names are
\* lower case, as the cluster has them.)
NameCategory(svc) == CASE svc = Empty -> "other" [] svc \in Ztunnel -> "ztunnel"
                       [] svc \in Waypoint -> "waypoint"
                       [] svc # Empty /\ svc \notin Ztunnel \cup Waypoint -> "application"
logCategoryFilter(cats, r) == cats # {} => NameCategory(r.svc) \in cats

\* The branch of logSourceFilter for a source, [category, services, all]: each list
\* of `all` that is not empty has a needle in the body.
sourceBranch(src, r) ==
    r.svc \in src.services /\ \A needles \in src.all : needles # {} => needles \cap r.body # {}

\* logSourceFilter: nothing, a composition of sources, a category, a service.
logSourceFilter(q, r) ==
    /\ q.matchNone = "no"
    /\ CASE q.sources # <<>> -> \E i \in DOMAIN q.sources : sourceBranch(q.sources[i], r)
         [] q.sources = <<>> /\ q.service # Empty -> r.svc = q.service
         [] q.sources = <<>> /\ q.service = Empty -> logCategoryFilter(q.categories, r)

\* sourceMatchesRecord, classifyLogSource: a record that was found is labelled by the
\* first source with a needle of every list in it, the empty lists included, or else
\* by its name.
sourceMatchesRecord(src, r) == r.svc \in src.services /\ \A needles \in src.all : needles \cap r.body # {}
classifyLogSource(q, r) ==
    LET of == {i \in DOMAIN q.sources : sourceMatchesRecord(q.sources[i], r)}
    IN  IF of # {} THEN q.sources[Min(of)].category ELSE NameCategory(r.svc)

\* logTagFilters
logTagFilters(q, r) == tagFilters(q, r)

\* The sort key, ascending; without the service where the cursor is one of the
\* former order (Legacy), which every later cursor of its scroll then is.
LogKey(q, r) == IF q.legacy = "yes" THEN <<0 - r.at, 0 - r.trace, 0 - r.span>>
                ELSE <<0 - r.at, 0 - r.svc, 0 - r.trace, 0 - r.span>>

\* The records a search is about, and those after its cursor.  Records equal in all
\* columns of the key come in the order in which the table yields them.
LogsFound(logs, q) ==
    {r \in Scan(logs, q) : /\ logSourceFilter(q, r) /\ r.sev >= q.minSev
                           /\ logTagFilters(q, r) /\ (q.text # Empty => q.text \in r.body)}
LogPlace(q, r) == Append(LogKey(q, r), r.row)
LogAfter(q, r) == q.cursor # <<>> => Below(LogKey(q, [q.cursor[1] EXCEPT !.at = Bound(@)]), LogKey(q, r))

\* SearchLogs: newest first, a page of those after the cursor.
SearchLogs(logs, q) ==
    LET left == {r \in LogsFound(logs, q) : LogAfter(q, r)}
        page == PageBy([r \in left |-> LogPlace(q, r)], Limited(q.limit, 500, 50), left)
    IN  [rows |-> page.rows, next |-> page.next,
         sources |-> [i \in DOMAIN page.rows |-> classifyLogSource(q, page.rows[i])]]

LogsForTrace(logs, tenants, trace) ==
    IF requireTenants(tenants) THEN {r \in logs : r.tenant \in tenants /\ r.trace = trace} ELSE NotFound

\* ServicePresence: who logs, and who has spans.
errorSeverity == 17
ServicePresence(logs, spans, q) ==
    LET ls == {r \in Scan(logs, q) : r.svc # Empty}
        ss == {r \in Scan(spans, q) : r.svc # Empty /\ Kept(q, r)}
    IN  {[svc |-> s, logs |-> Count(ls, LAMBDA r : r.svc = s),
          errorLogs |-> Count(ls, LAMBDA r : r.svc = s /\ r.sev >= errorSeverity),
          spans |-> Count(ss, LAMBDA r : r.svc = s),
          seen |-> Max({r.at : r \in {u \in ls \cup ss : u.svc = s}})]
         : s \in {r.svc : r \in ls \cup ss}}

-----------------------------------------------------------------------------
\* The effective status of an issue: resolved only while nothing newer came in.
Regressed(i) == i.raw = "resolved" /\ i.last > i.statusAt
EffectivelyIs(i, status) == CASE status = "unresolved" -> i.raw = "unresolved" \/ Regressed(i)
                              [] status = "resolved" -> i.raw = "resolved" /\ ~Regressed(i)
                              [] status = "ignored" -> i.raw = "ignored"
                              [] status \in {"", "all"} -> TRUE

\* What the join with the statuses gives a tenant's event, the default of both
\* columns if nobody gave the issue a status there.
StatusOf(statuses, tenant, fp) ==
    LET given == {s \in statuses : s.tenant = tenant /\ s.fp = fp}
    IN  IF given = {} THEN [status |-> "unresolved", at |-> 0]
        ELSE LET s == CHOOSE u \in given : TRUE IN [status |-> s.status, at |-> s.at]

\* Mutant of Issue: counts and times of the window only.
IssueInWindow(events, statuses, q, tenants, fp) ==
    LET es == {e \in Scan(events, q) : e.fp = fp}
        s == CHOOSE u \in {StatusOf(statuses, e.tenant, fp) : e \in es} : TRUE
    IN  [fp |-> fp, first |-> Min({e.at : e \in es}), last |-> Max({e.at : e \in es}),
         count |-> Cardinality(es), raw |-> s.status, statusAt |-> s.at]

\* An issue is all of its events, whenever they were, with the status of one of the
\* tenants they came from (any): the one tenant of a project of its own.
Issue(events, statuses, q, tenants, fp) ==
    LET es == {e \in events : e.tenant \in tenants /\ e.fp = fp}
        s == CHOOSE u \in {StatusOf(statuses, e.tenant, fp) : e \in es} : TRUE
    IN  [fp |-> fp, first |-> Min({e.at : e \in es}), last |-> Max({e.at : e \in es}),
         count |-> Cardinality(es), raw |-> s.status, statusAt |-> s.at]

\* matchingIssuesSQL: the window, the service and the text choose the issues.
matchingIssuesSQL(events, statuses, q) ==
    LET tenants == tenantsOrDefault(q.tenants, q.tenant)
        fps == {e.fp : e \in {d \in Scan(events, q) : Named(q.service, d.svc) /\ (q.text # Empty => q.text \in d.text)}}
    IN  {i \in {Issue(events, statuses, q, tenants, fp) : fp \in fps} : EffectivelyIs(i, q.status)}

SearchErrorIssues(events, statuses, q) ==
    Top(Limited(q.limit, 500, 100), matchingIssuesSQL(events, statuses, q),
        LAMBDA a, b : CASE q.order = "firstSeen" -> a.first > b.first
                        [] q.order = "count" -> a.count > b.count
                        [] OTHER -> a.last > b.last)

GetErrorIssue(events, statuses, q, tenants, fp) ==
    IF requireTenants(tenants) /\ \E e \in events : e.tenant \in tenants /\ e.fp = fp
    THEN {Issue(events, statuses, q, tenants, fp)} ELSE NotFound

EventKey(e) == <<0 - e.at, 0 - e.trace, 0 - e.span>>
EventPlace(e) == Append(EventKey(e), e.row)

\* An issue's events, of all times unless the query has a range.
EventsFound(events, q, fp) ==
    {e \in events : /\ e.tenant \in tenantsOrDefault(q.tenants, q.tenant) /\ e.fp = fp
                    /\ q.ranged = "yes" => e \in Scan(events, q)}
EventAfter(q, e) == q.cursor # <<>> => Below(EventKey([q.cursor[1] EXCEPT !.at = Bound(@)]), EventKey(e))

\* ListErrorEvents: newest first, a page of those after the cursor.
ListErrorEvents(events, q, fp) ==
    LET left == {e \in EventsFound(events, q, fp) : EventAfter(q, e)}
    IN  PageBy([e \in left |-> EventPlace(e)], Limited(q.limit, 500, 50), left)

\* ErrorIssueHistogram: an issue's events by bucket; not of an empty range.
ErrorIssueHistogram(events, q, tenants, fp, points) ==
    LET g == GroupBy({e \in Scan(events, [q EXCEPT !.tenants = tenants]) : e.fp = fp},
                     LAMBDA e : e.at \div Bucket(q, points))
    IN  IF requireTenants(tenants) /\ q.start < q.end THEN [b \in DOMAIN g |-> Cardinality(g[b])] ELSE NotFound

\* ErrorStats: the same issues, and the events of the window that belong to them;
\* not of an empty range.
ErrorStats(events, statuses, q, points, top) ==
    LET is == matchingIssuesSQL(events, statuses, q)
        es == {e \in Scan(events, q) : e.fp \in {i.fp : i \in is}}
        byBucket == GroupBy(es, LAMBDA e : e.at \div Bucket(q, points))
        bySvc == GroupBy(es, LAMBDA e : e.svc)
    IN  IF q.start >= q.end THEN NotFound
        ELSE [issues |-> Cardinality(is), new |-> Count(is, LAMBDA i : i.first >= Bound(q.start)),
              regressed |-> Count(is, Regressed), events |-> Cardinality(es),
              histogram |-> [b \in DOMAIN byBucket |-> Cardinality(byBucket[b])],
              top |-> Top(IF top <= 0 THEN 5 ELSE Min({top, 20}),
                          {[svc |-> s, n |-> Cardinality(bySvc[s])] : s \in DOMAIN bySvc},
                          LAMBDA a, b : a.n > b.n \/ (a.n = b.n /\ a.svc < b.svc))]

\* SetErrorIssueStatus: the row that replaces an earlier one (FINAL).
SetErrorIssueStatus(statuses, tenant, fp, status, now) ==
    {s \in statuses : <<s.tenant, s.fp>> # <<tenant, fp>>}
        \cup {[tenant |-> tenant, fp |-> fp, status |-> status, at |-> now]}
===============================================================================
