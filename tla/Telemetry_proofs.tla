--------------------------- MODULE Telemetry_proofs ---------------------------
(***************************************************************************)
(* Proofs about the readers of the telemetry store, for any rows, in any   *)
(* order of arrival: which rows a query depends on, what the status of an  *)
(* error issue says about its events, what the counters of a workload say  *)
(* about its calls, what a client gets that pages through a search, and    *)
(* which edges the service map is left with.                               *)
(***************************************************************************)
EXTENDS Telemetry, FiniteSetTheorems, WellFoundedInduction, TLAPS

-----------------------------------------------------------------------------
(* Operators.                                                              *)

\* Of finitely many rows one is the earliest and one the latest: otherwise a
\* smallest set of rows without such a pair would have a smaller one in it.
LEMMA FirstAndLast ==
    ASSUME NEW R, IsFiniteSet(R), R # {}, \A r \in R : r.at \in Int
    PROVE  \E lo, hi \in R : \A r \in R : lo.at <= r.at /\ r.at <= hi.at
<1> DEFINE Has(T) == \E lo, hi \in T : \A r \in T : lo.at <= r.at /\ r.at <= hi.at
           Bad == {T \in SUBSET R : T # {} /\ ~Has(T)}
           Sizes == {Cardinality(T) : T \in Bad}
<1>1. \A T \in SUBSET R : IsFiniteSet(T) /\ Cardinality(T) \in Nat
  BY FS_Subset, FS_CardinalityType
<1>2. SUFFICES ASSUME Bad # {} PROVE FALSE
  OBVIOUS
<1>3. PICK n \in Sizes : \A m \in Sizes : ~(m < n)
  <2>1. Sizes \subseteq Nat /\ Sizes # {} BY <1>1, <1>2
  <2> DEFINE L == OpToRel(<, Nat)
  <2>2. IsWellFoundedOn(L, Nat) BY NatLessThanWellFounded
  <2> HIDE DEF L, Sizes
  <2>3. PICK x \in Sizes : \A y \in Sizes : ~(<<y, x>> \in L) BY <2>1, <2>2, WFMin
  <2>4. \A y \in Sizes : <<y, x>> \in L <=> y < x BY <2>1, <2>3 DEF L, OpToRel
  <2> QED BY <2>3, <2>4, Zenon
<1>4. PICK T \in Bad : Cardinality(T) = n
  BY <1>3
<1>5. PICK x \in T : x \in R
  BY <1>4
<1>6. x.at \in Int /\ x.at <= x.at
  <2>1. x.at \in Int BY <1>5
  <2>2. \A i \in Int : i <= i OBVIOUS
  <2> QED BY <2>1, <2>2
<1>7. T \ {x} # {}
  <2>1. SUFFICES ASSUME T = {x} PROVE FALSE BY <1>5
  <2>2. Has(T) BY <2>1, <1>6
  <2> QED BY <2>2, <1>4
<1>8. IsFiniteSet(T \ {x}) /\ Cardinality(T \ {x}) < n
  <2>1. IsFiniteSet(T) /\ n \in Nat BY <1>1, <1>4
  <2>2. Cardinality(T \ {x}) = n - 1 BY <2>1, <1>4, <1>5, FS_RemoveElement
  <2> HIDE DEF Bad, Sizes
  <2>3. n - 1 < n BY <2>1
  <2> QED BY <2>1, <2>2, <2>3, FS_RemoveElement
<1>9. Has(T \ {x})
  <2>1. SUFFICES ASSUME ~Has(T \ {x}) PROVE FALSE OBVIOUS
  <2>2. T \ {x} \in Bad BY <1>4, <1>7, <2>1
  <2>3. Cardinality(T \ {x}) \in Sizes BY <2>2
  <2> QED BY <2>3, <1>3, <1>8
<1>10. PICK lo \in T \ {x}, hi \in T \ {x} : \A r \in T \ {x} : lo.at <= r.at /\ r.at <= hi.at
  BY <1>9
<1>11. \A r \in T : r.at \in Int
  BY <1>4
<1>12. ~Has(T)
  BY <1>4
<1> HIDE DEF Has, Bad, Sizes
<1>13. lo.at \in Int /\ hi.at \in Int
  BY <1>10, <1>11
<1>14. \E first \in T : \A r \in T : first.at <= r.at
  <2>1. ASSUME lo.at <= x.at PROVE \A r \in T : lo.at <= r.at BY <2>1, <1>10
  <2>2. ASSUME x.at < lo.at, NEW r \in T PROVE x.at <= r.at
    <3>1. CASE r = x BY <3>1, <1>6
    <3>2. CASE r # x
      <4>1. lo.at <= r.at /\ r.at \in Int BY <3>2, <2>2, <1>10, <1>11
      <4> QED BY <4>1, <2>2, <1>6, <1>13
    <3> QED BY <3>1, <3>2
  <2> QED BY <2>1, <2>2, <1>5, <1>6, <1>10, <1>13
<1>15. \E last \in T : \A r \in T : r.at <= last.at
  <2>1. ASSUME x.at <= hi.at PROVE \A r \in T : r.at <= hi.at BY <2>1, <1>10
  <2>2. ASSUME hi.at < x.at, NEW r \in T PROVE r.at <= x.at
    <3>1. CASE r = x BY <3>1, <1>6
    <3>2. CASE r # x
      <4>1. r.at <= hi.at /\ r.at \in Int BY <3>2, <2>2, <1>10, <1>11
      <4> QED BY <4>1, <2>2, <1>6, <1>13
    <3> QED BY <3>1, <3>2
  <2> QED BY <2>1, <2>2, <1>5, <1>6, <1>10, <1>13
<1>16. Has(T)
  BY <1>14, <1>15 DEF Has
<1> QED BY <1>12, <1>16

\* What min and max of a column return.
LEMMA MinMaxAt ==
    ASSUME NEW R, IsFiniteSet(R), R # {}, \A r \in R : r.at \in Int
    PROVE  /\ Min({r.at : r \in R}) \in Int /\ Max({r.at : r \in R}) \in Int
           /\ \A r \in R : Min({s.at : s \in R}) <= r.at /\ r.at <= Max({s.at : s \in R})
<1>1. PICK lo \in R, hi \in R : \A r \in R : lo.at <= r.at /\ r.at <= hi.at
  BY FirstAndLast
<1> DEFINE S == {r.at : r \in R}
<1>2. S \subseteq Int OBVIOUS
<1>3. lo.at \in S /\ \A y \in S : lo.at <= y BY <1>1
<1>4. hi.at \in S /\ \A y \in S : hi.at >= y BY <1>1
<1> HIDE DEF S
<1>5. Min(S) \in S /\ \A y \in S : Min(S) <= y BY <1>3 DEF Min
<1>6. Max(S) \in S /\ \A y \in S : Max(S) >= y BY <1>4 DEF Max
<1>7. \A y \in S : y <= Max(S) BY <1>2, <1>6
<1> QED BY <1>2, <1>5, <1>6, <1>7 DEF S

-----------------------------------------------------------------------------
(* What a read depends on: two tables with the same rows in the scope of a *)
(* query answer it the same.                                               *)

\* The scope of a query for a set of tenants is within these tenants' rows.
LEMMA ScanOwn ==
    ASSUME NEW rows, NEW q, q.tenants # {}
    PROVE  Scan(Own(rows, q.tenants), q) = Scan(rows, q)
BY DEF Scan, Own, tenantsOrDefault

\* The dependencies behind a proxy are chains of rows in the scope.
LEMMA CollapsedByScan ==
    ASSUME NEW A, NEW B, NEW q, NEW transport, Scan(A, q) = Scan(B, q)
    PROVE  CollapsedEdges(A, q, transport) = CollapsedEdges(B, q, transport)
<1>1. \A d : Walks(d, A, q, transport) = Walks(d, B, q, transport)
  BY DEF Walks, FoldLeft, MapThenFoldSet
<1>2. Chains(A, q, transport) = Chains(B, q, transport)
  BY <1>1 DEF Chains, collapseBranch
<1> QED BY <1>2 DEF CollapsedEdges

\* So are the services of a series, the busiest of them included.
LEMMA SeriesByScan ==
    ASSUME NEW A, NEW B, NEW q, NEW m, NEW n, Scan(A, q) = Scan(B, q)
    PROVE  REDSeries(A, q, m, n) = REDSeries(B, q, m, n)
<1> DEFINE Entries(X) == {r \in Scan(X, q) : Entry(r) /\ Kept(q, r)}
           Busiest(rs) == LET bySvc == GroupBy(rs, LAMBDA r : r.svc)
                          IN  Top(n, DOMAIN bySvc,
                                  LAMBDA a, b : Cardinality(bySvc[a]) > Cardinality(bySvc[b]))
<1>1. Entries(A) = Entries(B)
  OBVIOUS
<1>2. Busiest(Entries(A)) = Busiest(Entries(B))
  <2> HIDE DEF Entries, Busiest
  <2> QED BY <1>1
<1> QED BY <1>1, <1>2 DEF REDSeries

\* The reads of spans.
LEMMA SpansByScan ==
    ASSUME NEW A, NEW B, NEW q, Scan(A, q) = Scan(B, q)
    PROVE  /\ ListServices(A, q) = ListServices(B, q)
           /\ ServiceEdges(A, q) = ServiceEdges(B, q)
           /\ TraceOverview(A, q) = TraceOverview(B, q)
           /\ ServiceLabels(A, q) = ServiceLabels(B, q)
           /\ SearchTraces(A, q) = SearchTraces(B, q)
           /\ TraceBreakdown(A, q) = TraceBreakdown(B, q)
           /\ TagKeys(A, q) = TagKeys(B, q)
           /\ PodConnections(A, q) = PodConnections(B, q)
           /\ VirtualTargets(A, q, {}) = VirtualTargets(B, q, {})
           /\ TraceHeatmap(A, q, 2, 2) = TraceHeatmap(B, q, 2, 2)
           /\ \A s : ServiceWorkload(A, q, s) = ServiceWorkload(B, q, s)
<1>1. ListServices(A, q) = ListServices(B, q)
  BY DEF ListServices
<1>2. ServiceEdges(A, q) = ServiceEdges(B, q)
  BY DEF ServiceEdges
<1>3. TraceOverview(A, q) = TraceOverview(B, q)
  BY DEF TraceOverview
<1>4. ServiceLabels(A, q) = ServiceLabels(B, q)
  BY DEF ServiceLabels
<1>5. SearchTraces(A, q) = SearchTraces(B, q)
  <2>1. TracesFound(A, q) = TracesFound(B, q)
    BY DEF TracesFound
  <2> QED BY <2>1 DEF SearchTraces
<1>6. TraceBreakdown(A, q) = TraceBreakdown(B, q)
  BY DEF TraceBreakdown
<1>7. TagKeys(A, q) = TagKeys(B, q)
  BY DEF TagKeys
<1>8. PodConnections(A, q) = PodConnections(B, q)
  BY DEF PodConnections, GroupBy
<1>9. VirtualTargets(A, q, {}) = VirtualTargets(B, q, {})
  BY DEF VirtualTargets
<1>10. TraceHeatmap(A, q, 2, 2) = TraceHeatmap(B, q, 2, 2)
  BY DEF TraceHeatmap
<1>11. \A s : ServiceWorkload(A, q, s) = ServiceWorkload(B, q, s)
  BY DEF ServiceWorkload
<1> QED BY <1>1, <1>2, <1>3, <1>4, <1>5, <1>6, <1>7, <1>8, <1>9, <1>10, <1>11

\* The reads of log records.
LEMMA LogsByScan ==
    ASSUME NEW A, NEW B, NEW C, NEW D, NEW q, Scan(A, q) = Scan(B, q), Scan(C, q) = Scan(D, q)
    PROVE  /\ SearchLogs(A, q) = SearchLogs(B, q)
           /\ ServicePresence(A, C, q) = ServicePresence(B, D, q)
<1>1. SearchLogs(A, q) = SearchLogs(B, q)
  <2>1. LogsFound(A, q) = LogsFound(B, q)
    BY DEF LogsFound
  <2> QED BY <2>1 DEF SearchLogs
<1>2. ServicePresence(A, C, q) = ServicePresence(B, D, q)
  BY DEF ServicePresence
<1> QED BY <1>1, <1>2

\* The reads of metric points.
LEMMA PointsByScan ==
    ASSUME NEW A, NEW B, NEW C, NEW D, NEW q, Scan(A, q) = Scan(B, q), Scan(C, q) = Scan(D, q)
    PROVE  /\ ListNodeStats(A, A, q) = ListNodeStats(B, B, q)
           /\ ListPodStats(A, q) = ListPodStats(B, q)
           /\ WorkloadCosts(A, q, 1) = WorkloadCosts(B, q, 1)
           /\ NodeCosts(A, q, 1) = NodeCosts(B, q, 1)
           /\ ServiceEnergy(A, A, q, 1) = ServiceEnergy(B, B, q, 1)
           /\ NodeEnergy(A, q, 1) = NodeEnergy(B, q, 1)
           /\ NodeCoverage(A, A, q) = NodeCoverage(B, B, q)
           /\ NetworkEdges(A, q) = NetworkEdges(B, q)
           /\ ZoneTraffic(A, q) = ZoneTraffic(B, q)
           /\ NetworkEdgeHealth(A, q) = NetworkEdgeHealth(B, q)
           /\ ListAgentNodes(A, C, q) = ListAgentNodes(B, D, q)
<1>1. ListNodeStats(A, A, q) = ListNodeStats(B, B, q)
  BY DEF ListNodeStats, InterfaceRise, Of
<1>2. ListPodStats(A, q) = ListPodStats(B, q)
  BY DEF ListPodStats, Of
<1>3. WorkloadCosts(A, q, 1) = WorkloadCosts(B, q, 1)
  BY DEF WorkloadCosts, Of
<1>4. NodeCosts(A, q, 1) = NodeCosts(B, q, 1)
  BY DEF NodeCosts, Of
<1>5. ServiceEnergy(A, A, q, 1) = ServiceEnergy(B, B, q, 1)
  BY DEF ServiceEnergy, GroupBy, Of
<1>6. NodeEnergy(A, q, 1) = NodeEnergy(B, q, 1)
  BY DEF NodeEnergy, Of
<1>7. NodeCoverage(A, A, q) = NodeCoverage(B, B, q)
  BY DEF NodeCoverage, Of
<1>8. NetworkEdges(A, q) = NetworkEdges(B, q)
  BY DEF NetworkEdges, EdgeTotals, Of
<1>9. ZoneTraffic(A, q) = ZoneTraffic(B, q)
  BY DEF ZoneTraffic, Of
<1>10. NetworkEdgeHealth(A, q) = NetworkEdgeHealth(B, q)
  BY DEF NetworkEdgeHealth, sumEdgeCounter, EdgeTotals, Of
<1>11. ListAgentNodes(A, C, q) = ListAgentNodes(B, D, q)
  BY DEF ListAgentNodes, Of
<1> QED BY <1>1, <1>2, <1>3, <1>4, <1>5, <1>6, <1>7, <1>8, <1>9, <1>10, <1>11

\* The reads of the mesh's metrics.
LEMMA MeshByScan ==
    ASSUME NEW A, NEW B, NEW q, Scan(A, q) = Scan(B, q)
    PROVE  /\ MeshControlPlane(A, A, q, 1) = MeshControlPlane(B, B, q, 1)
           /\ MeshSecurity(A, A, q, 1) = MeshSecurity(B, B, q, 1)
           /\ MeshRequestBreakdown(A, q, Destination) = MeshRequestBreakdown(B, q, Destination)
           /\ MeshZtunnelHealth(A, A, q) = MeshZtunnelHealth(B, B, q)
<1>1. MeshControlPlane(A, A, q, 1) = MeshControlPlane(B, B, q, 1)
  BY DEF MeshControlPlane, meshScrapeState, Of
<1>2. MeshSecurity(A, A, q, 1) = MeshSecurity(B, B, q, 1)
  <2>1. meshTrafficRows(A, q) = meshTrafficRows(B, q)
    BY DEF meshTrafficRows, Of
  <2>2. meshScrapeState(A, q, 1) = meshScrapeState(B, q, 1)
    BY DEF meshScrapeState, Of
  <2>3. meshTargets(A, q, 1) = meshTargets(B, q, 1)
    BY DEF meshTargets, Of, Count
  <2> QED BY <2>1, <2>2, <2>3 DEF MeshSecurity
<1>3. MeshRequestBreakdown(A, q, Destination) = MeshRequestBreakdown(B, q, Destination)
  BY DEF MeshRequestBreakdown, Of
<1>4. MeshZtunnelHealth(A, A, q) = MeshZtunnelHealth(B, B, q)
  BY DEF MeshZtunnelHealth, meshLatestGauges, Of
<1> QED BY <1>1, <1>2, <1>3, <1>4

-----------------------------------------------------------------------------
(* The reads by key, which have no scope but a set of tenants.             *)

\* A set of tenants' own rows are the same taken twice.
LEMMA OwnOfOwn ==
    ASSUME NEW rows, NEW tenants
    PROVE  Own(Own(rows, tenants), tenants) = Own(rows, tenants)
BY DEF Own

\* The window that a trace is read in may come from another tenant's spans; it
\* can only be too wide for one's own, never too narrow.
LEMMA TraceOfOwn ==
    ASSUME NEW rows, IsFiniteSet(rows), \A r \in rows : r.at \in Int,
           NEW tenants, tenants # {}, NEW trace
    PROVE  GetTrace(rows, tenants, trace, 1) = GetTrace(Own(rows, tenants), tenants, trace, 1)
<1> DEFINE known == {r \in rows : r.trace = trace}
           own == {r \in Own(rows, tenants) : r.trace = trace}
           lo(R) == Min({r.at : r \in R})
           hi(R) == Max({r.at : r \in R})
<1>1. own = {r \in known : r.tenant \in tenants} /\ own \subseteq known
  BY DEF Own
<1>2. IsFiniteSet(known) /\ IsFiniteSet(own) /\ \A r \in known : r.at \in Int
  <2>1. known \subseteq rows /\ own \subseteq rows BY DEF Own
  <2> QED BY <2>1, FS_Subset
<1>3. GetTrace(rows, tenants, trace, 1) =
        IF known # {} THEN {r \in own : r.at >= lo(known) - 1 /\ r.at < hi(known) + 1} ELSE {}
  BY <1>1 DEF GetTrace, requireTenants, NotFound
<1>4. GetTrace(Own(rows, tenants), tenants, trace, 1) =
        IF own # {} THEN {r \in own : r.at >= lo(own) - 1 /\ r.at < hi(own) + 1} ELSE {}
  BY <1>1 DEF GetTrace, requireTenants, NotFound
<1> HIDE DEF known, own
<1>5. ASSUME NEW R, IsFiniteSet(R), R # {}, own \subseteq R, \A r \in R : r.at \in Int
      PROVE  {r \in own : r.at >= lo(R) - 1 /\ r.at < hi(R) + 1} = own
  <2>1. lo(R) \in Int /\ hi(R) \in Int /\ \A r \in R : lo(R) <= r.at /\ r.at <= hi(R)
    BY <1>5, MinMaxAt
  <2> HIDE DEF lo, hi
  <2>2. ASSUME NEW r \in own PROVE r.at >= lo(R) - 1 /\ r.at < hi(R) + 1
    <3>1. r.at \in Int /\ lo(R) <= r.at /\ r.at <= hi(R) BY <1>5, <2>1
    <3> QED BY <2>1, <3>1
  <2> QED BY <2>2
<1>6. \A r \in own : r.at \in Int
  BY <1>1, <1>2
<1>7. CASE own = {}
  BY <1>3, <1>4, <1>7
<1>8. CASE own # {}
  <2>1. known # {} BY <1>1, <1>8
  <2>2. {r \in own : r.at >= lo(own) - 1 /\ r.at < hi(own) + 1} = own
    BY <1>2, <1>5, <1>6, <1>8
  <2>3. {r \in own : r.at >= lo(known) - 1 /\ r.at < hi(known) + 1} = own
    BY <1>1, <1>2, <1>5, <2>1
  <2> QED BY <1>3, <1>4, <1>8, <2>1, <2>2, <2>3
<1> QED BY <1>7, <1>8

\* What a tenant gave an issue is among what was given by the tenants it is one of.
LEMMA StatusOfOwn ==
    ASSUME NEW sts, NEW tenants, NEW t \in tenants, NEW fp
    PROVE  StatusOf(sts, t, fp) = StatusOf(Own(sts, tenants), t, fp)
<1> DEFINE G == {s \in sts : s.tenant = t /\ s.fp = fp}
           H == {s \in Own(sts, tenants) : s.tenant = t /\ s.fp = fp}
           Given(X) == IF X = {} THEN [status |-> "unresolved", at |-> 0]
                       ELSE LET s == CHOOSE u \in X : TRUE IN [status |-> s.status, at |-> s.at]
<1>1. G = H
  BY DEF Own
<1>2. StatusOf(sts, t, fp) = Given(G) /\ StatusOf(Own(sts, tenants), t, fp) = Given(H)
  BY DEF StatusOf
<1> HIDE DEF G, H, Given
<1> QED BY <1>1, <1>2

\* An issue is the tenants' own events, with the status one of them was given.
LEMMA IssueOfOwn ==
    ASSUME NEW es, NEW sts, NEW q, q.tenants # {}, NEW fp
    PROVE  Issue(es, sts, q, q.tenants, fp)
             = Issue(Own(es, q.tenants), Own(sts, q.tenants), q, q.tenants, fp)
<1> DEFINE E == {e \in es : e.tenant \in q.tenants /\ e.fp = fp}
           F == {e \in Own(es, q.tenants) : e.tenant \in q.tenants /\ e.fp = fp}
           S == {StatusOf(sts, e.tenant, fp) : e \in E}
           U == {StatusOf(Own(sts, q.tenants), e.tenant, fp) : e \in F}
           Summed(X, Y) == LET s == CHOOSE u \in Y : TRUE
                        IN  [fp |-> fp, first |-> Min({e.at : e \in X}), last |-> Max({e.at : e \in X}),
                             count |-> Cardinality(X), raw |-> s.status, statusAt |-> s.at]
<1>1. E = F BY DEF Own
<1>2. S = U
  <2>1. \A e \in E : StatusOf(sts, e.tenant, fp) = StatusOf(Own(sts, q.tenants), e.tenant, fp)
    BY StatusOfOwn
  <2> QED BY <1>1, <2>1
<1>3. Issue(es, sts, q, q.tenants, fp) = Summed(E, S)
  BY DEF Issue
<1>4. Issue(Own(es, q.tenants), Own(sts, q.tenants), q, q.tenants, fp) = Summed(F, U)
  BY DEF Issue
<1> HIDE DEF E, F, S, U, Summed
<1> QED BY <1>1, <1>2, <1>3, <1>4

\* The events of an issue are the tenants' own, at all times as in a range.
LEMMA EventsOfOwn ==
    ASSUME NEW es, NEW q, q.tenants # {}, NEW fp
    PROVE  ListErrorEvents(es, q, fp) = ListErrorEvents(Own(es, q.tenants), q, fp)
<1>1. EventsFound(es, q, fp) = EventsFound(Own(es, q.tenants), q, fp)
  <2>1. Scan(Own(es, q.tenants), q) = Scan(es, q) BY ScanOwn
  <2> QED BY <2>1 DEF EventsFound, Own, tenantsOrDefault
<1> QED BY <1>1 DEF ListErrorEvents

\* The issues of a query are those of the tenants' own events.
LEMMA IssuesOfOwn ==
    ASSUME NEW es, NEW sts, NEW q, q.tenants # {}
    PROVE  matchingIssuesSQL(es, sts, q)
             = matchingIssuesSQL(Own(es, q.tenants), Own(sts, q.tenants), q)
BY ScanOwn, IssueOfOwn DEF matchingIssuesSQL, tenantsOrDefault

\* The histogram of an issue is asked for the tenants by name.
LEMMA HistogramOfOwn ==
    ASSUME NEW es, NEW q, "tenants" \in DOMAIN q, q.tenants # {}, NEW fp, NEW n
    PROVE  ErrorIssueHistogram(es, q, q.tenants, fp, n)
             = ErrorIssueHistogram(Own(es, q.tenants), q, q.tenants, fp, n)
<1> DEFINE p == [q EXCEPT !.tenants = q.tenants]
<1>1. p.tenants = q.tenants
  OBVIOUS
<1> HIDE DEF p
<1>2. Scan(Own(es, q.tenants), p) = Scan(es, p)
  BY <1>1 DEF Scan, Own, tenantsOrDefault
<1> QED BY <1>2 DEF ErrorIssueHistogram, p

-----------------------------------------------------------------------------
(* What the tables hold.                                                   *)

Statuses == {"unresolved", "resolved", "ignored"}

\* The spans and the events are among those that may arrive, and every status
\* was set by somebody, at a time.
StoreInv ==
    /\ spans \subseteq SpanPool /\ events \subseteq EventPool
    /\ now \in Int
    /\ \A st \in statuses : st.status \in Statuses /\ st.at \in Int

\* StoreInv is kept by every step: rows arrive one by one, and a status is set
\* to one of the three.
THEOREM StoreInvHolds == TelemetrySpec => []StoreInv
<1>1. TelemetryInit => StoreInv
  BY DEF TelemetryInit, StoreInv
<1>2. ASSUME StoreInv, [TelemetryNext]_telemetryVars PROVE StoreInv'
  <2> USE <1>2 DEF StoreInv
  <2>1. ASSUME NEW ask \in Asks, StartScroll(ask) PROVE StoreInv'
    BY <2>1 DEF StartScroll
  <2>2. CASE NextPage BY <2>2 DEF NextPage
  <2>3. CASE SpanArrives BY <2>3 DEF SpanArrives, Arrive
  <2>4. CASE LogArrives BY <2>4 DEF LogArrives, Arrive
  <2>5. CASE EventArrives BY <2>5 DEF EventArrives, Arrive
  <2>6. CASE FlowArrives BY <2>6 DEF FlowArrives, Arrive
  <2>7. CASE Tick BY <2>7 DEF Tick
  <2>8. ASSUME NEW e \in events, NEW s \in Statuses, SetIssueStatus(e.tenant, e.fp, s) PROVE StoreInv'
    BY <2>8 DEF SetIssueStatus, SetErrorIssueStatus
  <2>9. ASSUME NEW p \in Policies, MeshCall(p) PROVE StoreInv'
    BY <2>9 DEF MeshCall
  <2>10. ASSUME NEW r \in Reporters, Scrape(r) PROVE StoreInv'
    BY <2>10 DEF Scrape
  <2>11. ASSUME NEW r \in Reporters, ProxyRestarts(r) PROVE StoreInv'
    BY <2>11 DEF ProxyRestarts
  <2>12. CASE UNCHANGED telemetryVars BY <2>12 DEF telemetryVars
  <2>13. QED
    BY <1>2, <2>1, <2>2, <2>3, <2>4, <2>5, <2>6, <2>7, <2>8, <2>9, <2>10, <2>11, <2>12
    DEF TelemetryNext, PageNext, MapNext, IssueNext, MeshNext, Statuses
<1>3. QED BY <1>1, <1>2, PTL DEF TelemetrySpec

\* A query on behalf of tenants is for them, and for the status it asks for.
LEMMA AskFor ==
    ASSUME NEW tenants
    PROVE  /\ Ask(tenants).tenants = tenants
           /\ {"tenants", "status"} \subseteq DOMAIN Ask(tenants)
BY TelemetryAssumption DEF Ask, AskFields

-----------------------------------------------------------------------------
(* Tenants.                                                                *)

\* The reads of spans.
LEMMA SpansIsolated ==
    ASSUME NEW ss, IsFiniteSet(ss), \A r \in ss : r.at \in Int,
           NEW q, q.tenants # {}
    PROVE  SpanReads(ss, q) = SpanReads(Own(ss, q.tenants), q)
<1> DEFINE os == Own(ss, q.tenants)
<1>1. Scan(os, q) = Scan(ss, q)
  BY ScanOwn
<1>2. Own(os, q.tenants) = os
  BY OwnOfOwn
<1>3. \A r \in SpanPool : GetTrace(ss, q.tenants, r.trace, 1) = GetTrace(os, q.tenants, r.trace, 1)
  BY TraceOfOwn
<1>4. \A r \in SpanPool : FindSpanTrace(ss, q.tenants, r.span) = FindSpanTrace(os, q.tenants, r.span)
  BY DEF FindSpanTrace, Own
<1> HIDE DEF os
<1>5. /\ {ServiceWorkload(ss, q, r.svc) : r \in os} = {ServiceWorkload(os, q, r.svc) : r \in os}
      /\ {<<FindSpanTrace(ss, q.tenants, r.span), GetTrace(ss, q.tenants, r.trace, 1)>> : r \in SpanPool}
           = {<<FindSpanTrace(os, q.tenants, r.span), GetTrace(os, q.tenants, r.trace, 1)>> : r \in SpanPool}
  BY <1>1, <1>3, <1>4, SpansByScan
<1>6. SpanReads(ss, q) = SpanReads(os, q)
  BY <1>1, <1>2, <1>5, SpansByScan, CollapsedByScan, SeriesByScan DEF SpanReads, os
<1> QED BY <1>6 DEF os

\* The reads of log records and of error events.
LEMMA LogsIsolated ==
    ASSUME NEW ls, NEW ss, NEW es, NEW sts, NEW q, "tenants" \in DOMAIN q, q.tenants # {}
    PROVE  LogReads(ls, ss, es, sts, q)
             = LogReads(Own(ls, q.tenants), Own(ss, q.tenants), Own(es, q.tenants), Own(sts, q.tenants), q)
<1> DEFINE ol == Own(ls, q.tenants)
           os == Own(ss, q.tenants)
           oe == Own(es, q.tenants)
           ot == Own(sts, q.tenants)
<1>1. Scan(ol, q) = Scan(ls, q) /\ Scan(os, q) = Scan(ss, q) /\ Scan(oe, q) = Scan(es, q)
  BY ScanOwn
<1>2. \A r \in LogPool : LogsForTrace(ls, q.tenants, r.trace) = LogsForTrace(ol, q.tenants, r.trace)
  BY DEF LogsForTrace, Own
<1>3. matchingIssuesSQL(es, sts, q) = matchingIssuesSQL(oe, ot, q)
  BY IssuesOfOwn
<1>4. \A fp : GetErrorIssue(es, sts, q, q.tenants, fp) = GetErrorIssue(oe, ot, q, q.tenants, fp)
  <2> TAKE fp
  <2>1. Issue(es, sts, q, q.tenants, fp) = Issue(oe, ot, q, q.tenants, fp)
    <3>1. q.tenants # {} OBVIOUS
    <3>2. Issue(es, sts, q, q.tenants, fp)
            = Issue(Own(es, q.tenants), Own(sts, q.tenants), q, q.tenants, fp)
      BY <3>1, IssueOfOwn
    <3> QED BY <3>2
  <2>2. (\E e \in es : e.tenant \in q.tenants /\ e.fp = fp) <=> \E e \in oe : e.tenant \in q.tenants /\ e.fp = fp
    BY DEF Own
  <2> HIDE DEF oe, ot
  <2> QED BY <2>1, <2>2 DEF GetErrorIssue
<1>5. \A fp : ErrorIssueHistogram(es, q, q.tenants, fp, 2) = ErrorIssueHistogram(oe, q, q.tenants, fp, 2)
  BY HistogramOfOwn
<1> HIDE DEF ol, os, oe, ot
<1>6. \A fp : ListErrorEvents(es, q, fp) = ListErrorEvents(oe, q, fp)
  BY EventsOfOwn DEF oe
<1>7. SearchLogs(ls, q) = SearchLogs(ol, q) /\ ServicePresence(ls, ss, q) = ServicePresence(ol, os, q)
  BY <1>1, LogsByScan
<1>8. SearchErrorIssues(es, sts, q) = SearchErrorIssues(oe, ot, q)
  BY <1>3 DEF SearchErrorIssues
<1>9. ErrorStats(es, sts, q, 2, 5) = ErrorStats(oe, ot, q, 2, 5)
  BY <1>1, <1>3 DEF ErrorStats
<1>10. {LogsForTrace(ls, q.tenants, r.trace) : r \in LogPool} = {LogsForTrace(ol, q.tenants, r.trace) : r \in LogPool}
  BY <1>2
<1>11. {<<GetErrorIssue(es, sts, q, q.tenants, e.fp), ListErrorEvents(es, q, e.fp),
          ErrorIssueHistogram(es, q, q.tenants, e.fp, 2)>> : e \in EventPool}
         = {<<GetErrorIssue(oe, ot, q, q.tenants, e.fp), ListErrorEvents(oe, q, e.fp),
              ErrorIssueHistogram(oe, q, q.tenants, e.fp, 2)>> : e \in EventPool}
  BY <1>4, <1>5, <1>6
<1>12. LogReads(ls, ss, es, sts, q) = LogReads(ol, os, oe, ot, q)
  BY <1>7, <1>8, <1>9, <1>10, <1>11 DEF LogReads
<1> QED BY <1>12 DEF ol, os, oe, ot

\* The reads of metric points.
LEMMA PointsIsolated ==
    ASSUME NEW ps, NEW ss, NEW q, q.tenants # {}
    PROVE  PointReads(ps, ss, q) = PointReads(Own(ps, q.tenants), Own(ss, q.tenants), q)
<1> DEFINE op == Own(ps, q.tenants)
           os == Own(ss, q.tenants)
<1>1. Scan(op, q) = Scan(ps, q) /\ Scan(os, q) = Scan(ss, q)
  BY ScanOwn
<1> HIDE DEF op, os
<1>2. PointReads(ps, ss, q) = PointReads(op, os, q)
  BY <1>1, PointsByScan, MeshByScan DEF PointReads
<1> QED BY <1>2 DEF op, os

\* No read of the store depends on a row of a tenant it was not asked about,
\* whatever the rows are and in whatever order they came.
THEOREM TenantsIsolatedHolds == TelemetrySpec => []TenantsIsolated
<1>1. StoreInv => TenantsIsolated
  <2>1. SUFFICES ASSUME StoreInv, NEW tenants \in (SUBSET Cluster) \ {{}}
                 PROVE  /\ SpanReads(spans, Ask(tenants)) = SpanReads(Own(spans, tenants), Ask(tenants))
                        /\ LogReads(logs, spans, events, statuses, Ask(tenants))
                             = LogReads(Own(logs, tenants), Own(spans, tenants), Own(events, tenants),
                                        Own(statuses, tenants), Ask(tenants))
                        /\ PointReads(points, spans, Ask(tenants))
                             = PointReads(Own(points, tenants), Own(spans, tenants), Ask(tenants))
    BY DEF TenantsIsolated
  <2>2. IsFiniteSet(spans) /\ \A r \in spans : r.at \in Int
    BY <2>1, TelemetryAssumption, FS_Subset DEF StoreInv
  <2>3. /\ Ask(tenants).tenants = tenants /\ tenants # {}
        /\ "tenants" \in DOMAIN Ask(tenants)
    BY AskFor
  <2> DEFINE q == Ask(tenants)
  <2>4. q.tenants = tenants /\ q.tenants # {} /\ "tenants" \in DOMAIN q
    BY <2>3
  <2> HIDE DEF q
  <2>5. SpanReads(spans, q) = SpanReads(Own(spans, q.tenants), q)
    BY <2>2, <2>4, SpansIsolated
  <2>6. LogReads(logs, spans, events, statuses, q)
          = LogReads(Own(logs, q.tenants), Own(spans, q.tenants), Own(events, q.tenants), Own(statuses, q.tenants), q)
    BY <2>4, LogsIsolated
  <2>7. PointReads(points, spans, q) = PointReads(Own(points, q.tenants), Own(spans, q.tenants), q)
    BY <2>4, PointsIsolated
  <2> QED BY <2>4, <2>5, <2>6, <2>7 DEF q
<1>2. QED BY <1>1, StoreInvHolds, PTL

-----------------------------------------------------------------------------
(* Issues.                                                                 *)

\* The issues of a query with one status are those of the same query that have
\* this status: the window, the service and the text choose no others.
LEMMA IssuesByStatus ==
    ASSUME NEW es, NEW sts, NEW q, "status" \in DOMAIN q, NEW s
    PROVE  matchingIssuesSQL(es, sts, [q EXCEPT !.status = s])
             = {i \in matchingIssuesSQL(es, sts, [q EXCEPT !.status = "all"]) : EffectivelyIs(i, s)}
<1> DEFINE p == [q EXCEPT !.status = s]
           a == [q EXCEPT !.status = "all"]
           Chosen(x) == {Issue(es, sts, x, tenantsOrDefault(x.tenants, x.tenant), fp)
                         : fp \in {e.fp : e \in {d \in Scan(es, x) :
                                     Named(x.service, d.svc) /\ (x.text # Empty => x.text \in d.text)}}}
<1>1. /\ p.tenants = a.tenants /\ p.tenant = a.tenant /\ p.start = a.start /\ p.end = a.end
      /\ p.service = a.service /\ p.text = a.text /\ p.status = s /\ a.status = "all"
  OBVIOUS
<1> HIDE DEF p, a
<1>2. Scan(es, p) = Scan(es, a)
  BY <1>1 DEF Scan
<1>3. \A tenants, fp : Issue(es, sts, p, tenants, fp) = Issue(es, sts, a, tenants, fp)
  BY DEF Issue
<1>4. Chosen(p) = Chosen(a)
  BY <1>1, <1>2, <1>3
<1>5. \A x \in {p, a} : matchingIssuesSQL(es, sts, x) = {i \in Chosen(x) : EffectivelyIs(i, x.status)}
  BY DEF matchingIssuesSQL
<1> HIDE DEF Chosen
<1>6. \A i : EffectivelyIs(i, "all")
  BY DEF EffectivelyIs
<1> QED BY <1>1, <1>4, <1>5, <1>6 DEF p, a

\* An issue has exactly one of the three statuses.
LEMMA OneStatus ==
    ASSUME NEW i, i.raw \in Statuses
    PROVE  /\ \E s \in Statuses : EffectivelyIs(i, s)
           /\ \A s, u \in Statuses : EffectivelyIs(i, s) /\ EffectivelyIs(i, u) => s = u
BY DEF Statuses, EffectivelyIs, Regressed

\* What an issue of one tenant, with an event in the window, is made of.
LEMMA IssueOfEvents ==
    ASSUME StoreInv, NEW t, NEW q, NEW fp,
           \E e \in events : e.tenant = t /\ e.fp = fp,
           NEW i, i = Issue(events, statuses, q, {t}, fp)
    PROVE  /\ i.fp = fp /\ i.raw \in Statuses
           /\ i.last \in Int /\ \A e \in events : e.tenant = t /\ e.fp = fp => e.at <= i.last
           /\ i.raw = "resolved" =>
                \E st \in statuses : /\ st.tenant = t /\ st.fp = fp /\ st.status = "resolved"
                                     /\ i.statusAt = st.at
<1> DEFINE E == {e \in events : e.tenant \in {t} /\ e.fp = fp}
           G == {s \in statuses : s.tenant = t /\ s.fp = fp}
           st == StatusOf(statuses, t, fp)
<1>1. i.fp = fp /\ i.raw = st.status /\ i.statusAt = st.at /\ i.last = Max({e.at : e \in E})
  <2>1. {StatusOf(statuses, e.tenant, fp) : e \in E} = {st} OBVIOUS
  <2> HIDE DEF st
  <2>2. (CHOOSE u \in {st} : TRUE) = st OBVIOUS
  <2> QED BY <2>1, <2>2 DEF Issue
<1>2. IsFiniteSet(E) /\ E # {} /\ \A e \in E : e.at \in Int
  <2>1. E \subseteq EventPool BY DEF StoreInv
  <2> QED BY <2>1, TelemetryAssumption, FS_Subset
<1>3. \A s \in G : /\ s \in statuses /\ s.tenant = t /\ s.fp = fp /\ s.status \in Statuses
  BY DEF StoreInv
<1>4. G # {} => \E s \in G : st.status = s.status /\ st.at = s.at
  BY DEF StatusOf
<1>5. G = {} => st.status = "unresolved"
  BY DEF StatusOf
<1>6. \A e \in events : e.tenant = t /\ e.fp = fp => e \in E
  OBVIOUS
<1> HIDE DEF E, G, st
<1>7. i.last \in Int /\ \A e \in E : e.at <= i.last
  BY <1>1, <1>2, MinMaxAt
<1>8. st.status \in Statuses
  BY <1>3, <1>4, <1>5 DEF Statuses
<1>9. st.status = "resolved" => \E s \in G : st.status = s.status /\ st.at = s.at
  BY <1>4, <1>5
<1>10. st.status = "resolved" =>
         \E u \in statuses : u.tenant = t /\ u.fp = fp /\ u.status = "resolved" /\ i.statusAt = u.at
  BY <1>1, <1>3, <1>9
<1> QED BY <1>1, <1>6, <1>7, <1>8, <1>10

\* Whatever window it is looked at through, an issue is listed under one status,
\* and as resolved only if somebody resolved it after its last event.
THEOREM ResolvedMeansQuietHolds == TelemetrySpec => []ResolvedMeansQuiet
<1>1. StoreInv => ResolvedMeansQuiet
  <2> SUFFICES ASSUME StoreInv, NEW t, t \in {e.tenant : e \in events}, NEW from, NEW to
               PROVE  LET q == [Ask({t}) EXCEPT !.start = from, !.end = to + 1]
                          listed == [s \in Statuses \cup {"all"} |->
                             {i.fp : i \in matchingIssuesSQL(events, statuses, [q EXCEPT !.status = s])}]
                      IN  /\ UNION {listed[s] : s \in Statuses} = listed["all"]
                          /\ \A s, u \in Statuses : s # u => listed[s] \cap listed[u] = {}
                          /\ \A fp \in listed["resolved"] :
                               \E st \in statuses :
                                   /\ st.tenant = t /\ st.fp = fp /\ st.status = "resolved"
                                   /\ \A e \in events : e.tenant = t /\ e.fp = fp => e.at <= st.at
    BY DEF ResolvedMeansQuiet, Statuses
  <2> DEFINE q == [Ask({t}) EXCEPT !.start = from, !.end = to + 1]
             all == matchingIssuesSQL(events, statuses, [q EXCEPT !.status = "all"])
             listed == [s \in Statuses \cup {"all"} |->
                             {i.fp : i \in matchingIssuesSQL(events, statuses, [q EXCEPT !.status = s])}]
  <2>1. q.tenants = {t} /\ "status" \in DOMAIN q
    BY AskFor
  <2>2. \A i \in all : \E fp : /\ \E e \in events : e.tenant = t /\ e.fp = fp
                               /\ i = Issue(events, statuses, [q EXCEPT !.status = "all"], {t}, fp)
    <3> DEFINE a == [q EXCEPT !.status = "all"]
    <3>1. a.tenants = {t} BY <2>1
    <3> HIDE DEF q, a
    <3>2. \A e \in Scan(events, a) : e \in events /\ e.tenant = t
      BY <3>1 DEF Scan, tenantsOrDefault
    <3>3. tenantsOrDefault(a.tenants, a.tenant) = {t}
      BY <3>1 DEF tenantsOrDefault
    <3>4. \A i \in matchingIssuesSQL(events, statuses, a) :
            \E fp : (\E e \in events : e.tenant = t /\ e.fp = fp) /\ i = Issue(events, statuses, a, {t}, fp)
      BY <3>2, <3>3 DEF matchingIssuesSQL
    <3> QED BY <3>4 DEF a
  <2> HIDE DEF q
  <2>3. \A s : matchingIssuesSQL(events, statuses, [q EXCEPT !.status = s]) = {i \in all : EffectivelyIs(i, s)}
    BY <2>1, IssuesByStatus
  <2>4. \A s \in Statuses \cup {"all"} : listed[s] = {i.fp : i \in {j \in all : EffectivelyIs(j, s)}}
    BY <2>3
  <2> DEFINE OfFp(fp) == Issue(events, statuses, [q EXCEPT !.status = "all"], {t}, fp)
  <2>5. \A i \in all : /\ i.raw \in Statuses /\ i = OfFp(i.fp) /\ i.last \in Int
                       /\ \A e \in events : e.tenant = t /\ e.fp = i.fp => e.at <= i.last
                       /\ i.raw = "resolved" =>
                            \E st \in statuses : /\ st.tenant = t /\ st.fp = i.fp /\ st.status = "resolved"
                                                 /\ i.statusAt = st.at
    <3> TAKE i \in all
    <3>1. PICK fp : (\E e \in events : e.tenant = t /\ e.fp = fp) /\ i = OfFp(fp)
      BY <2>2
    <3> HIDE DEF all
    <3>2. /\ i.fp = fp /\ i.raw \in Statuses /\ i.last \in Int
          /\ \A e \in events : e.tenant = t /\ e.fp = fp => e.at <= i.last
          /\ i.raw = "resolved" =>
               \E st \in statuses : /\ st.tenant = t /\ st.fp = fp /\ st.status = "resolved"
                                    /\ i.statusAt = st.at
      BY <3>1, IssueOfEvents
    <3> HIDE DEF OfFp
    <3> QED BY <3>1, <3>2
  <2>6. \A i \in all : EffectivelyIs(i, "all")
    BY DEF EffectivelyIs
  <2> HIDE DEF all, listed, OfFp
  <2>7. UNION {listed[s] : s \in Statuses} = listed["all"]
    <3>1. \A i \in all : \E s \in Statuses : EffectivelyIs(i, s)
      BY <2>5, OneStatus
    <3>2. listed["all"] = {i.fp : i \in all}
      BY <2>4, <2>6
    <3>3. ASSUME NEW s \in Statuses PROVE listed[s] \subseteq listed["all"]
      BY <2>4, <3>2
    <3>4. ASSUME NEW i \in all PROVE \E s \in Statuses : i.fp \in listed[s]
      BY <2>4, <3>1
    <3> QED BY <3>2, <3>3, <3>4
  <2>8. ASSUME NEW s \in Statuses, NEW u \in Statuses, s # u PROVE listed[s] \cap listed[u] = {}
    <3>1. SUFFICES ASSUME NEW fp \in listed[s] \cap listed[u] PROVE FALSE
      OBVIOUS
    <3>2. PICK i \in all : EffectivelyIs(i, s) /\ i.fp = fp BY <2>4, <3>1
    <3>3. PICK j \in all : EffectivelyIs(j, u) /\ j.fp = fp BY <2>4, <3>1
    <3>4. i = j BY <2>5, <3>2, <3>3
    <3> QED BY <2>5, <2>8, <3>2, <3>3, <3>4, OneStatus
  <2>9. ASSUME NEW fp \in listed["resolved"]
        PROVE  \E st \in statuses :
                   /\ st.tenant = t /\ st.fp = fp /\ st.status = "resolved"
                   /\ \A e \in events : e.tenant = t /\ e.fp = fp => e.at <= st.at
    <3>1. PICK i \in all : EffectivelyIs(i, "resolved") /\ i.fp = fp
      BY <2>4, <2>9 DEF Statuses
    <3>2. i.raw = "resolved" /\ ~(i.last > i.statusAt)
      BY <3>1 DEF EffectivelyIs, Regressed
    <3>3. PICK st \in statuses : /\ st.tenant = t /\ st.fp = fp /\ st.status = "resolved"
                                 /\ i.statusAt = st.at
      BY <2>5, <3>1, <3>2
    <3>4. st.at \in Int /\ i.last \in Int /\ i.last <= st.at
      <4>1. st.at \in Int BY DEF StoreInv
      <4>2. i.last \in Int BY <2>5
      <4> QED BY <4>1, <4>2, <3>2, <3>3
    <3>5. ASSUME NEW e \in events, e.tenant = t, e.fp = fp PROVE e.at <= st.at
      <4>1. e.at \in Int BY TelemetryAssumption DEF StoreInv
      <4>2. e.at <= i.last BY <2>5, <3>1, <3>5
      <4> QED BY <4>1, <4>2, <3>4
    <3> QED BY <3>3, <3>5
  <2> QED BY <2>7, <2>8, <2>9 DEF listed, q
<1>2. QED BY <1>1, StoreInvHolds, PTL

-----------------------------------------------------------------------------
(* Sums.  A sum over a finite set is a recursive function on its subsets,  *)
(* which takes out one member after another.                               *)

\* A nonempty set of naturals has a least member.
LEMMA LeastNatural ==
    ASSUME NEW S, S \subseteq Nat, S # {}
    PROVE  \E x \in S : \A y \in S : x <= y
<1> DEFINE R == OpToRel(<, Nat)
<1>1. IsWellFoundedOn(R, Nat) BY NatLessThanWellFounded
<1> HIDE DEF R
<1>2. PICK x \in S : \A y \in S : ~ (<<y, x>> \in R) BY <1>1, WFMin
<1>3. \A y \in S : <<y, x>> \in R <=> y < x BY <1>2 DEF R, OpToRel
<1>4. \A y \in S : ~ (y < x) BY <1>2, <1>3, Zenon
<1>5. QED BY <1>2, <1>4

\* A family of sets that holds the empty set, and every subset of S all of whose
\* members can be taken out of it within the family, holds every subset of S.
LEMMA SubsetInduction ==
    ASSUME NEW S, IsFiniteSet(S), NEW Good, {} \in Good,
           \A T \in SUBSET S : T # {} /\ (\A x \in T : T \ {x} \in Good) => T \in Good
    PROVE  \A T \in SUBSET S : T \in Good
<1> DEFINE Bad == {T \in SUBSET S : T \notin Good}
           Sizes == {Cardinality(T) : T \in Bad}
<1>1. \A T \in SUBSET S : IsFiniteSet(T) /\ Cardinality(T) \in Nat
  BY FS_Subset, FS_CardinalityType
<1>2. SUFFICES ASSUME Bad # {} PROVE FALSE OBVIOUS
<1>3. Sizes \subseteq Nat /\ Sizes # {} BY <1>1, <1>2
<1>4. PICK c \in Sizes : \A d \in Sizes : c <= d BY <1>3, LeastNatural
<1>5. PICK T \in Bad : c = Cardinality(T) BY <1>4
<1>6. c \in Nat BY <1>1, <1>5
<1>7. ASSUME NEW x \in T PROVE T \ {x} \in Good
  <2>1. T \ {x} \in SUBSET S BY <1>5
  <2>2. Cardinality(T \ {x}) = c - 1 BY <1>1, <1>5, FS_RemoveElement
  <2>3. ASSUME T \ {x} \notin Good PROVE c <= c - 1 BY <1>4, <2>1, <2>2, <2>3
  <2>4. QED BY <1>6, <2>3
<1>8. QED BY <1>5, <1>7

\* ... and a set of naturals that holds 0 and with every number its successor
\* holds them all.
LEMMA NatSetInduction ==
    ASSUME NEW G, 0 \in G, \A n \in Nat : n \in G => n + 1 \in G
    PROVE  Nat \subseteq G
<1> DEFINE Bad == {n \in Nat : n \notin G}
<1>1. SUFFICES ASSUME Bad # {} PROVE FALSE OBVIOUS
<1>2. PICK n \in Bad : \A m \in Bad : n <= m BY <1>1, LeastNatural
<1>3. n \in Nat /\ n # 0 BY <1>2
<1>4. n - 1 \in Nat /\ (n - 1) + 1 = n /\ ~(n <= n - 1) BY <1>3
<1>5. n - 1 \in G BY <1>2, <1>4
<1>6. QED BY <1>2, <1>4, <1>5

\* The sum of F over S, and the function of subsets that defines it.
Adds(F, S, g) == [s \in SUBSET S |-> IF s = {} THEN 0
                                     ELSE F[CHOOSE x \in s : TRUE] + g[s \ {CHOOSE x \in s : TRUE}]]
SumOf(F, S) == (CHOOSE g : g = Adds(F, S, g))[S]

\* There is such a function: one for the subsets of n members gives one for n + 1.
LEMMA AddsExists ==
    ASSUME NEW F, NEW S, IsFiniteSet(S)
    PROVE  \E g : g = Adds(F, S, g)
<1> DEFINE D(n) == {s \in SUBSET S : Cardinality(s) <= n}
           On(n, g) == [s \in D(n) |-> IF s = {} THEN 0
                                       ELSE F[CHOOSE x \in s : TRUE] + g[s \ {CHOOSE x \in s : TRUE}]]
           G == {n \in Nat : \E g : g = On(n, g)}
<1>1. \A s \in SUBSET S : IsFiniteSet(s) /\ Cardinality(s) \in Nat
  BY FS_Subset, FS_CardinalityType
<1>2. 0 \in G
  <2>1. \A s \in D(0) : s = {}
    <3>1. SUFFICES ASSUME NEW s \in D(0) PROVE s = {} OBVIOUS
    <3>2. IsFiniteSet(s) /\ Cardinality(s) = 0 BY <1>1
    <3>3. QED BY <3>2, FS_EmptySet
  <2> DEFINE z == [s \in D(0) |-> 0]
  <2>2. z = On(0, z) BY <2>1
  <2>3. QED BY <2>2
<1>3. ASSUME NEW n \in Nat, n \in G PROVE n + 1 \in G
  <2>1. PICK g : g = On(n, g) BY <1>3
  <2> DEFINE h == On(n + 1, g)
  <2>2. \A s \in D(n + 1) : s # {} => h[s \ {CHOOSE x \in s : TRUE}] = g[s \ {CHOOSE x \in s : TRUE}]
    <3>1. SUFFICES ASSUME NEW s \in D(n + 1), s # {}, NEW x \in s PROVE h[s \ {x}] = g[s \ {x}]
      <4>1. \A s \in D(n + 1) : s # {} => (CHOOSE x \in s : TRUE) \in s OBVIOUS
      <4> HIDE DEF h, D
      <4>2. QED BY <4>1
    <3>2. Cardinality(s \ {x}) = Cardinality(s) - 1 /\ Cardinality(s) <= n + 1 /\ Cardinality(s) \in Nat
      BY <1>1, FS_RemoveElement
    <3>3. s \ {x} \in SUBSET S BY <3>1
    <3>4. Cardinality(s \ {x}) <= n /\ Cardinality(s \ {x}) <= n + 1 BY <3>2
    <3>5. s \ {x} \in D(n) /\ s \ {x} \in D(n + 1) BY <3>3, <3>4
    <3> HIDE DEF D
    <3>6. PICK u : u = s \ {x} OBVIOUS
    <3>7. h[u] = IF u = {} THEN 0 ELSE F[CHOOSE y \in u : TRUE] + g[u \ {CHOOSE y \in u : TRUE}]
      BY <3>5, <3>6
    <3>8. g[u] = IF u = {} THEN 0 ELSE F[CHOOSE y \in u : TRUE] + g[u \ {CHOOSE y \in u : TRUE}]
      BY <2>1, <3>5, <3>6
    <3>9. QED BY <3>6, <3>7, <3>8
  <2>3. h = On(n + 1, h)
    <3> HIDE DEF D
    <3>1. \A s \in D(n + 1) : h[s] = IF s = {} THEN 0
                  ELSE F[CHOOSE x \in s : TRUE] + g[s \ {CHOOSE x \in s : TRUE}] OBVIOUS
    <3>2. \A s \in D(n + 1) : h[s] = IF s = {} THEN 0
                  ELSE F[CHOOSE x \in s : TRUE] + h[s \ {CHOOSE x \in s : TRUE}]
      <4> HIDE DEF h
      <4>1. SUFFICES ASSUME NEW s \in D(n + 1), s # {}
            PROVE h[s] = F[CHOOSE x \in s : TRUE] + h[s \ {CHOOSE x \in s : TRUE}]
        BY <3>1
      <4>2. QED BY <2>2, <3>1, <4>1
    <3>3. h = [s \in D(n + 1) |-> h[s]] OBVIOUS
    <3> HIDE DEF h
    <3>4. QED BY <3>2, <3>3
  <2> HIDE DEF h, On
  <2>4. QED BY <2>3
<1>4. Cardinality(S) \in G
  <2> HIDE DEF G
  <2>1. Nat \subseteq G BY <1>2, <1>3, NatSetInduction
  <2>2. QED BY <1>1, <2>1
<1>5. PICK g : g = On(Cardinality(S), g) BY <1>4
<1>6. D(Cardinality(S)) = SUBSET S
  <2>1. \A s \in SUBSET S : Cardinality(s) <= Cardinality(S) BY FS_Subset
  <2>2. QED BY <2>1
<1>7. QED BY <1>5, <1>6 DEF Adds

\* So it is the one function that adds the members up, subset by subset.
LEMMA AddsUnique ==
    ASSUME NEW F, NEW S, IsFiniteSet(S), NEW g, g = Adds(F, S, g), NEW T \in SUBSET S,
           NEW h, h = Adds(F, T, h)
    PROVE  g[T] = h[T]
<1> DEFINE Good == {U \in SUBSET T : g[U] = h[U]}
<1>1. \A U \in SUBSET T : /\ g[U] = IF U = {} THEN 0 ELSE F[CHOOSE x \in U : TRUE] + g[U \ {CHOOSE x \in U : TRUE}]
                         /\ h[U] = IF U = {} THEN 0 ELSE F[CHOOSE x \in U : TRUE] + h[U \ {CHOOSE x \in U : TRUE}]
  BY DEF Adds
<1>2. {} \in Good BY <1>1
<1>3. ASSUME NEW U \in SUBSET T, U # {}, \A x \in U : U \ {x} \in Good PROVE U \in Good
  <2>1. PICK x : x = CHOOSE y \in U : TRUE OBVIOUS
  <2>2. x \in U BY <1>3, <2>1
  <2>3. g[U \ {x}] = h[U \ {x}] BY <1>3, <2>2
  <2>4. g[U] = F[x] + g[U \ {x}] /\ h[U] = F[x] + h[U \ {x}] BY <1>1, <1>3, <2>1
  <2>5. QED BY <2>3, <2>4
<1>4. IsFiniteSet(T) BY FS_Subset
<1> HIDE DEF Good
<1>5. \A U \in SUBSET T : U \in Good BY <1>2, <1>3, <1>4, SubsetInduction
<1>6. T \in SUBSET T OBVIOUS
<1>7. T \in Good BY <1>5, <1>6
<1>8. QED BY <1>7 DEF Good

\* A sum is one of its terms and the sum of the others.
LEMMA SumFirst ==
    ASSUME NEW F, NEW S, IsFiniteSet(S)
    PROVE  SumOf(F, S) = IF S = {} THEN 0
                         ELSE F[CHOOSE x \in S : TRUE] + SumOf(F, S \ {CHOOSE x \in S : TRUE})
<1> DEFINE g == CHOOSE f : f = Adds(F, S, f)
<1>1. g = Adds(F, S, g) BY AddsExists
<1>2. SumOf(F, S) = g[S] BY DEF SumOf
<1> HIDE DEF g
<1>3. \A T \in SUBSET S : g[T] = SumOf(F, T)
  <2>1. SUFFICES ASSUME NEW T \in SUBSET S PROVE g[T] = SumOf(F, T) OBVIOUS
  <2> DEFINE h == CHOOSE f : f = Adds(F, T, f)
  <2>2. IsFiniteSet(T) BY FS_Subset
  <2>3. h = Adds(F, T, h) BY <2>2, AddsExists
  <2>4. SumOf(F, T) = h[T] BY DEF SumOf
  <2> HIDE DEF h
  <2>5. QED BY <1>1, <2>3, <2>4, AddsUnique
<1>4. S \in SUBSET S OBVIOUS
<1>5. g[S] = IF S = {} THEN 0 ELSE F[CHOOSE x \in S : TRUE] + g[S \ {CHOOSE x \in S : TRUE}]
  BY <1>1, <1>4 DEF Adds
<1>6. PICK T : T = S \ {CHOOSE x \in S : TRUE} OBVIOUS
<1>7. T \in SUBSET S BY <1>6
<1>8. g[T] = SumOf(F, T) BY <1>3, <1>7
<1>9. QED BY <1>2, <1>5, <1>6, <1>8

\* The sum of nothing is zero.
LEMMA SumEmpty == ASSUME NEW F PROVE SumOf(F, {}) = 0
BY SumFirst, FS_EmptySet

\* A sum of naturals is one.
LEMMA SumType ==
    ASSUME NEW S, IsFiniteSet(S), NEW F, \A x \in S : F[x] \in Nat
    PROVE  SumOf(F, S) \in Nat
<1> DEFINE Good == {T \in SUBSET S : SumOf(F, T) \in Nat}
<1>1. {} \in Good BY SumEmpty
<1>2. ASSUME NEW T \in SUBSET S, T # {}, \A x \in T : T \ {x} \in Good PROVE T \in Good
  <2>1. PICK x : x = CHOOSE y \in T : TRUE OBVIOUS
  <2>2. x \in T BY <1>2, <2>1
  <2>3. SumOf(F, T \ {x}) \in Nat /\ F[x] \in Nat BY <1>2, <2>2
  <2>4. IsFiniteSet(T) BY FS_Subset
  <2>5. SumOf(F, T) = F[x] + SumOf(F, T \ {x}) BY <1>2, <2>1, <2>4, SumFirst
  <2>6. F[x] + SumOf(F, T \ {x}) \in Nat BY <2>3
  <2>7. QED BY <2>5, <2>6
<1> HIDE DEF Good
<1>3. \A T \in SUBSET S : T \in Good BY <1>1, <1>2, SubsetInduction
<1>4. QED BY <1>3 DEF Good

\* Any member may be taken out of a sum.
LEMMA SumTake ==
    ASSUME NEW S, IsFiniteSet(S), NEW F, \A x \in S : F[x] \in Nat, NEW x \in S
    PROVE  SumOf(F, S) = F[x] + SumOf(F, S \ {x})
<1> DEFINE Ok(T) == \A y \in T : SumOf(F, T) = F[y] + SumOf(F, T \ {y})
           Good == {T \in SUBSET S : Ok(T)}
<1>1. {} \in Good OBVIOUS
<1>2. ASSUME NEW T \in SUBSET S, T # {}, \A y \in T : T \ {y} \in Good PROVE T \in Good
  <2>1. PICK c : c = CHOOSE y \in T : TRUE OBVIOUS
  <2>2. c \in T BY <1>2, <2>1
  <2>3. \A U \in SUBSET S : IsFiniteSet(U) BY FS_Subset
  <2>4. SumOf(F, T) = F[c] + SumOf(F, T \ {c}) BY <1>2, <2>1, <2>3, SumFirst
  <2>5. ASSUME NEW y \in T, y # c PROVE SumOf(F, T) = F[y] + SumOf(F, T \ {y})
    <3>1. SumOf(F, T \ {c}) = F[y] + SumOf(F, (T \ {c}) \ {y})
      <4>1. T \ {c} \in Good BY <1>2, <2>2
      <4>2. y \in T \ {c} BY <2>5
      <4>3. QED BY <4>1, <4>2
    <3>2. SumOf(F, T \ {y}) = F[c] + SumOf(F, (T \ {y}) \ {c})
      <4>1. T \ {y} \in Good BY <1>2
      <4>2. c \in T \ {y} BY <2>2, <2>5
      <4>3. QED BY <4>1, <4>2
    <3>3. PICK U : U = (T \ {c}) \ {y} OBVIOUS
    <3>4. (T \ {y}) \ {c} = U /\ U \in SUBSET S BY <3>3
    <3>5. SumOf(F, U) \in Nat BY <2>3, <3>4, SumType
    <3>6. F[c] \in Nat /\ F[y] \in Nat BY <2>2
    <3>7. SumOf(F, T \ {c}) = F[y] + SumOf(F, U) /\ SumOf(F, T \ {y}) = F[c] + SumOf(F, U)
      BY <3>1, <3>2, <3>3, <3>4
    <3>8. F[c] + (F[y] + SumOf(F, U)) = F[y] + (F[c] + SumOf(F, U)) BY <3>5, <3>6
    <3>9. QED BY <2>4, <3>7, <3>8
  <2>6. Ok(T) BY <2>4, <2>5
  <2>7. QED BY <2>6
<1> HIDE DEF Good, Ok
<1>3. \A T \in SUBSET S : T \in Good BY <1>1, <1>2, SubsetInduction
<1>4. S \in Good BY <1>3
<1>5. QED BY <1>4 DEF Good, Ok

\* What a sum does not read does not matter to it.
LEMMA SumSame ==
    ASSUME NEW S, NEW F, NEW H, \A x \in S : F[x] = H[x]
    PROVE  SumOf(F, S) = SumOf(H, S)
<1>1. ASSUME NEW g PROVE Adds(F, S, g) = Adds(H, S, g)
  <2>1. \A s \in SUBSET S : s # {} => (CHOOSE x \in s : TRUE) \in S OBVIOUS
  <2>2. QED BY <2>1 DEF Adds
<1>2. (CHOOSE g : g = Adds(F, S, g)) = (CHOOSE g : g = Adds(H, S, g)) BY <1>1
<1>3. QED BY <1>2 DEF SumOf

\* Two sums are bounded by a third whose terms bound theirs.
LEMMA SumBound ==
    ASSUME NEW S, IsFiniteSet(S), NEW F, NEW H, NEW K,
           \A x \in S : F[x] \in Nat /\ H[x] \in Nat /\ K[x] \in Nat /\ F[x] + H[x] <= K[x]
    PROVE  SumOf(F, S) + SumOf(H, S) <= SumOf(K, S)
<1> DEFINE Good == {T \in SUBSET S : SumOf(F, T) + SumOf(H, T) <= SumOf(K, T)}
<1>1. {} \in Good
  <2>1. 0 + 0 <= 0 OBVIOUS
  <2>2. QED BY <2>1, SumEmpty
<1>2. ASSUME NEW T \in SUBSET S, T # {}, \A y \in T : T \ {y} \in Good PROVE T \in Good
  <2>1. PICK c \in T : TRUE BY <1>2
  <2>2. IsFiniteSet(T) /\ IsFiniteSet(T \ {c}) BY FS_Subset
  <2>3. SumOf(F, T) = F[c] + SumOf(F, T \ {c}) BY <2>2, SumTake
  <2>4. SumOf(H, T) = H[c] + SumOf(H, T \ {c}) BY <2>2, SumTake
  <2>5. SumOf(K, T) = K[c] + SumOf(K, T \ {c}) BY <2>2, SumTake
  <2>6. SumOf(F, T \ {c}) + SumOf(H, T \ {c}) <= SumOf(K, T \ {c}) BY <1>2
  <2>7. SumOf(F, T \ {c}) \in Nat /\ SumOf(H, T \ {c}) \in Nat /\ SumOf(K, T \ {c}) \in Nat
    BY <2>2, SumType
  <2>8. F[c] \in Nat /\ H[c] \in Nat /\ K[c] \in Nat /\ F[c] + H[c] <= K[c] OBVIOUS
  <2>9. SumOf(F, T) + SumOf(H, T) <= SumOf(K, T)
    BY <2>3, <2>4, <2>5, <2>6, <2>7, <2>8
  <2>10. QED BY <2>9
<1> HIDE DEF Good
<1>3. \A T \in SUBSET S : T \in Good BY <1>1, <1>2, SubsetInduction
<1>4. S \in Good BY <1>3
<1>5. QED BY <1>4 DEF Good

\* A larger set has no smaller sum.
LEMMA SumGrows ==
    ASSUME NEW S, IsFiniteSet(S), NEW F, \A x \in S : F[x] \in Nat, NEW T \in SUBSET S
    PROVE  SumOf(F, T) <= SumOf(F, S)
<1> DEFINE Good == {U \in SUBSET S : T \subseteq U => SumOf(F, T) <= SumOf(F, U)}
<1>0. \A U \in SUBSET S : IsFiniteSet(U) /\ SumOf(F, U) \in Nat BY FS_Subset, SumType
<1>1. {} \in Good
  <2>1. T \subseteq {} => T = {} OBVIOUS
  <2>2. SumOf(F, {}) <= SumOf(F, {}) BY SumEmpty
  <2>3. QED BY <2>1, <2>2
<1>2. ASSUME NEW U \in SUBSET S, U # {}, \A y \in U : U \ {y} \in Good PROVE U \in Good
  <2>1. CASE T = U
    <3>1. \A n \in Nat : n <= n OBVIOUS
    <3>2. QED BY <1>0, <2>1, <3>1
  <2>2. CASE T # U /\ T \subseteq U
    <3>1. PICK c \in U : c \notin T BY <2>2
    <3>2. T \subseteq U \ {c} BY <2>2, <3>1
    <3>3. SumOf(F, T) <= SumOf(F, U \ {c}) BY <1>2, <3>2
    <3>4. SumOf(F, U) = F[c] + SumOf(F, U \ {c}) BY <1>0, SumTake
    <3>5. F[c] \in Nat /\ SumOf(F, U \ {c}) \in Nat /\ SumOf(F, T) \in Nat BY <1>0
    <3>6. SumOf(F, T) <= SumOf(F, U) BY <3>3, <3>4, <3>5
    <3>7. QED BY <3>6
  <2>3. CASE ~(T \subseteq U) BY <2>3
  <2>4. QED BY <2>1, <2>2, <2>3
<1> HIDE DEF Good
<1>3. \A U \in SUBSET S : U \in Good BY <1>1, <1>2, SubsetInduction
<1>4. S \in Good BY <1>3
<1>5. QED BY <1>4 DEF Good

\* A term that grows makes the sum grow by as much.
LEMMA SumBump ==
    ASSUME NEW S, IsFiniteSet(S), NEW F, \A x \in S : F[x] \in Nat, NEW c \in S, NEW d \in Nat,
           NEW H, \A x \in S : H[x] = IF x = c THEN F[x] + d ELSE F[x]
    PROVE  SumOf(H, S) = SumOf(F, S) + d
<1>1. SumOf(F, S) = F[c] + SumOf(F, S \ {c}) BY SumTake
<1>2. SumOf(H, S) = H[c] + SumOf(H, S \ {c})
  <2>1. \A x \in S : H[x] \in Nat OBVIOUS
  <2>2. QED BY <2>1, SumTake
<1>3. SumOf(H, S \ {c}) = SumOf(F, S \ {c}) BY SumSame
<1>4. SumOf(F, S \ {c}) \in Nat
  <2>1. IsFiniteSet(S \ {c}) BY FS_Subset
  <2>2. QED BY <2>1, SumType
<1>5. QED BY <1>1, <1>2, <1>3, <1>4

\* A sum of at most two terms.
LEMMA SumOfTwo ==
    ASSUME NEW a, NEW b, a # b, NEW S, S \subseteq {a, b}, NEW F, \A x \in S : F[x] \in Nat
    PROVE  SumOf(F, S) = (IF a \in S THEN F[a] ELSE 0) + (IF b \in S THEN F[b] ELSE 0)
<1>0. IsFiniteSet({a, b}) /\ \A T \in SUBSET {a, b} : IsFiniteSet(T)
  <2>1. IsFiniteSet({a}) /\ {a, b} = {a} \cup {b} BY FS_Singleton
  <2>2. IsFiniteSet({a, b}) BY <2>1, FS_AddElement
  <2>3. QED BY <2>2, FS_Subset
<1>1. \A x : x \in S => SumOf(F, S) = F[x] + SumOf(F, S \ {x}) BY <1>0, SumTake
<1>2. CASE a \in S /\ b \in S
  <2>1. S \ {a} = {b} BY <1>2
  <2>2. SumOf(F, {b}) = F[b] + SumOf(F, {b} \ {b})
    <3>1. IsFiniteSet({b}) /\ \A x \in {b} : F[x] \in Nat BY <1>0, <1>2
    <3>2. QED BY <3>1, SumTake
  <2>3. {b} \ {b} = {} OBVIOUS
  <2>4. SumOf(F, S) = F[a] + (F[b] + 0) BY <1>1, <1>2, <2>1, <2>2, <2>3, SumEmpty
  <2>5. F[a] \in Nat /\ F[b] \in Nat BY <1>2
  <2>6. QED BY <1>2, <2>4, <2>5
<1>3. CASE a \in S /\ b \notin S
  <2>1. S \ {a} = {} BY <1>3
  <2>2. QED BY <1>1, <1>3, <2>1, SumEmpty
<1>4. CASE a \notin S /\ b \in S
  <2>1. S \ {b} = {} BY <1>4
  <2>2. QED BY <1>1, <1>4, <2>1, SumEmpty
<1>5. CASE a \notin S /\ b \notin S
  <2>1. S = {} BY <1>5
  <2>2. QED BY <1>5, <2>1, SumEmpty
<1>6. QED BY <1>2, <1>3, <1>4, <1>5

-----------------------------------------------------------------------------
(* The counters of the mesh.  With every scraped series goes a ledger of the*)
(* counts that it has lost to restarts: the next reading of a series is at *)
(* most what was called above an earlier one, and at most what was lost below.*)

MeshMetrics == {"istio_requests", "istio_tcp"}
Counters == [Reporters -> [Policies -> Nat]]
Ledgers == [Reporters -> [Policies -> [Times -> Nat]]]

\* What the points of one series are, and what was called since s.
SeriesOf(pts, r, p) == {x \in pts : x.metric \in MeshMetrics /\ x.series = <<r, p>>}
Called(cl, p, s, t) == SumOf([u \in Times |-> cl[u][p]], s .. t)

\* Every two readings of a series, in the order in which they were taken, and the
\* counter behind them: a rise is calls, a fall is counts lost to restarts.
Between(v, w, up, down) == w <= v + up /\ v <= w + down
Follows(L, cnt, cl, pts, n) ==
    \A r \in Reporters, p \in Policies : \A x \in SeriesOf(pts, r, p) :
        /\ Between(x.value, cnt[r][p], Called(cl, p, x.at, n), SumOf(L[r][p], x.at .. n))
        /\ \A y \in SeriesOf(pts, r, p) : x.at <= y.at =>
              Between(x.value, y.value, Called(cl, p, x.at, n), SumOf(L[r][p], x.at .. n))

\* A window is finite.
LEMMA TimesFinite == \A s, t \in Nat : IsFiniteSet(s .. t)
BY FS_Interval

\* A window that ends within the bound is one of the times of the model.
LEMMA WithinTimes == \A s, t \in Nat : t <= MaxNow => s .. t \subseteq Times /\ \A u \in s .. t : u \in Times
BY TelemetryAssumption DEF Times

\* The calls of a window are a number.
LEMMA CalledType ==
    ASSUME NEW cl \in [Times -> [Policies -> Nat]], NEW p \in Policies, NEW s \in Nat, NEW t \in Times
    PROVE  Called(cl, p, s, t) \in Nat
<1> DEFINE F == [u \in Times |-> cl[u][p]]
<1>1. t \in Nat /\ t <= MaxNow BY TelemetryAssumption DEF Times
<1>2. IsFiniteSet(s .. t) /\ \A u \in s .. t : F[u] \in Nat BY <1>1, TimesFinite, WithinTimes
<1> HIDE DEF F
<1>3. SumOf(F, s .. t) \in Nat BY <1>2, SumType
<1>4. QED BY <1>3 DEF Called, F

\* What bounds the way from v to w bounds the way from v to u, where u is as
\* much above w at most, and as much below, as the bounds have grown.
LEMMA BetweenOn ==
    ASSUME NEW v \in Nat, NEW w \in Nat, NEW u \in Nat, NEW up \in Nat, NEW upp \in Nat,
           NEW down \in Nat, NEW downn \in Nat, Between(v, w, up, down),
           u + up <= w + upp, w + down <= u + downn
    PROVE  Between(v, u, upp, downn)
BY DEF Between

\* The readings follow the counters when time goes on, the counters and the
\* histories move together, and a new point reads its counter.
LEMMA FollowsOn ==
    ASSUME NEW n \in Times, NEW m \in Times, n <= m, NEW pts, NEW qts,
           NEW cnt \in Counters, NEW dnt \in Counters, NEW cl, NEW dl, NEW L, NEW M,
           Follows(L, cnt, cl, pts, n),
           \A r \in Reporters, p \in Policies, s \in 0 .. m :
              Called(dl, p, s, m) \in Nat /\ SumOf(M[r][p], s .. m) \in Nat,
           \A r \in Reporters, p \in Policies, s \in 0 .. n :
              /\ Called(cl, p, s, n) \in Nat /\ SumOf(L[r][p], s .. n) \in Nat
              /\ Called(cl, p, s, n) <= Called(dl, p, s, m)
              /\ SumOf(L[r][p], s .. n) <= SumOf(M[r][p], s .. m)
              /\ dnt[r][p] + Called(cl, p, s, n) <= cnt[r][p] + Called(dl, p, s, m)
              /\ cnt[r][p] + SumOf(L[r][p], s .. n) <= dnt[r][p] + SumOf(M[r][p], s .. m),
           \A r \in Reporters, p \in Policies :
              /\ \A x \in SeriesOf(pts, r, p) : x.at \in 0 .. n /\ x.value \in Nat
              /\ \A x \in SeriesOf(qts, r, p) :
                    \/ x \in SeriesOf(pts, r, p)
                    \/ /\ x.at = m /\ x.value = dnt[r][p]
                       /\ \A y \in SeriesOf(pts, r, p) : y.at # m
    PROVE  Follows(M, dnt, dl, qts, m)
<1> SUFFICES ASSUME NEW r \in Reporters, NEW p \in Policies, NEW x \in SeriesOf(qts, r, p)
             PROVE  /\ Between(x.value, dnt[r][p], Called(dl, p, x.at, m), SumOf(M[r][p], x.at .. m))
                    /\ \A y \in SeriesOf(qts, r, p) : x.at <= y.at =>
                          Between(x.value, y.value, Called(dl, p, x.at, m), SumOf(M[r][p], x.at .. m))
  BY DEF Follows
<1> DEFINE old == SeriesOf(pts, r, p)
           up == Called(cl, p, x.at, n)
           upp == Called(dl, p, x.at, m)
           down == SumOf(L[r][p], x.at .. n)
           downn == SumOf(M[r][p], x.at .. m)
           c == cnt[r][p]
           d == dnt[r][p]
           New(y) == y.at = m /\ y.value = d /\ \A z \in old : z.at # m
<1>0. n \in Nat /\ m \in Nat /\ c \in Nat /\ d \in Nat BY TelemetryAssumption DEF Times, Counters
<1>1. \A y \in SeriesOf(qts, r, p) : y \in old \/ New(y) OBVIOUS
<1>2. \A y \in old : y.at \in 0 .. n /\ y.value \in Nat OBVIOUS
<1>3. CASE x \in old
  <2>1. /\ x.at \in 0 .. n /\ x.value \in Nat /\ up \in Nat /\ down \in Nat /\ up <= upp /\ down <= downn
        /\ d + up <= c + upp /\ c + down <= d + downn
    BY <1>2, <1>3
  <2>2. upp \in Nat /\ downn \in Nat
    <3>0. \A u \in 0 .. n : u \in 0 .. m BY <1>0
    <3>1. x.at \in 0 .. m BY <2>1, <3>0
    <3>2. QED BY <3>1
  <2>3. Between(x.value, c, up, down) /\ \A y \in old : x.at <= y.at => Between(x.value, y.value, up, down)
    BY <1>3 DEF Follows
  <2> HIDE DEF up, upp, down, downn, c, d, old
  <2>4. Between(x.value, d, upp, downn)
    BY <1>0, <2>1, <2>2, <2>3, BetweenOn
  <2>5. ASSUME NEW y \in SeriesOf(qts, r, p), x.at <= y.at PROVE Between(x.value, y.value, upp, downn)
    <3>1. CASE y \in old
      <4>1. Between(x.value, y.value, up, down) /\ y.value \in Nat BY <1>2, <2>3, <2>5, <3>1
      <4>2. QED BY <2>1, <2>2, <4>1 DEF Between
    <3>2. CASE y \notin old
      <4>1. y.value = d BY <1>1, <3>2
      <4>2. QED BY <2>4, <4>1
    <3>3. QED BY <3>1, <3>2
  <2>6. QED BY <2>4, <2>5 DEF upp, downn, d
<1>4. CASE x \notin old
  <2>1. x.at = m /\ x.value = d /\ \A z \in old : z.at # m BY <1>1, <1>4
  <2>2. m \in 0 .. m BY <1>0
  <2>3. upp \in Nat /\ downn \in Nat BY <2>1, <2>2
  <2> HIDE DEF upp, downn, c, d, old
  <2>4. Between(x.value, d, upp, downn) BY <1>0, <2>1, <2>3 DEF Between
  <2>5. ASSUME NEW y \in SeriesOf(qts, r, p), x.at <= y.at PROVE y.value = d
    <3>1. CASE y \in old
      <4>1. y.at \in 0 .. n /\ y.at # m BY <1>2, <2>1, <3>1
      <4>2. n <= m /\ m <= y.at BY <2>1, <2>5
      <4>3. QED BY <1>0, <4>1, <4>2
    <3>2. QED BY <1>1, <3>1
  <2>6. QED BY <2>4, <2>5 DEF upp, downn, d
<1>5. QED BY <1>3, <1>4

\* The same within one time, with the points that are added in it.
LEMMA FollowsAfter ==
    ASSUME NEW n \in Times, NEW pts, NEW qts, NEW cnt \in Counters, NEW dnt \in Counters,
           NEW cl, NEW dl, NEW L, NEW M,
           Follows(L, cnt, cl, pts, n),
           \A r \in Reporters, p \in Policies, s \in 0 .. n :
              /\ Called(cl, p, s, n) \in Nat /\ SumOf(L[r][p], s .. n) \in Nat
              /\ Called(dl, p, s, n) \in Nat /\ SumOf(M[r][p], s .. n) \in Nat
              /\ Called(cl, p, s, n) <= Called(dl, p, s, n)
              /\ SumOf(L[r][p], s .. n) <= SumOf(M[r][p], s .. n)
              /\ dnt[r][p] + Called(cl, p, s, n) <= cnt[r][p] + Called(dl, p, s, n)
              /\ cnt[r][p] + SumOf(L[r][p], s .. n) <= dnt[r][p] + SumOf(M[r][p], s .. n),
           \A r \in Reporters, p \in Policies :
              /\ \A x \in SeriesOf(pts, r, p) : x.at \in 0 .. n /\ x.value \in Nat
              /\ \A x \in SeriesOf(qts, r, p) :
                    \/ x \in SeriesOf(pts, r, p)
                    \/ /\ x.at = n /\ x.value = dnt[r][p]
                       /\ \A y \in SeriesOf(pts, r, p) : y.at # n
    PROVE  Follows(M, dnt, dl, qts, n)
<1>1. n <= n BY TelemetryAssumption DEF Times
<1>2. \A r \in Reporters, p \in Policies, s \in 0 .. n :
         Called(dl, p, s, n) \in Nat /\ SumOf(M[r][p], s .. n) \in Nat
  OBVIOUS
<1>3. \A r \in Reporters, p \in Policies, s \in 0 .. n :
         /\ Called(cl, p, s, n) \in Nat /\ SumOf(L[r][p], s .. n) \in Nat
         /\ Called(cl, p, s, n) <= Called(dl, p, s, n)
         /\ SumOf(L[r][p], s .. n) <= SumOf(M[r][p], s .. n)
         /\ dnt[r][p] + Called(cl, p, s, n) <= cnt[r][p] + Called(dl, p, s, n)
         /\ cnt[r][p] + SumOf(L[r][p], s .. n) <= dnt[r][p] + SumOf(M[r][p], s .. n)
  OBVIOUS
<1>4. \A r \in Reporters, p \in Policies :
         /\ \A x \in SeriesOf(pts, r, p) : x.at \in 0 .. n /\ x.value \in Nat
         /\ \A x \in SeriesOf(qts, r, p) :
               \/ x \in SeriesOf(pts, r, p)
               \/ /\ x.at = n /\ x.value = dnt[r][p]
                  /\ \A y \in SeriesOf(pts, r, p) : y.at # n
  OBVIOUS
<1>5. QED BY <1>1, <1>2, <1>3, <1>4, FollowsOn

\* What the points of the mesh, the counters and the histories are.
MeshShape ==
    /\ now \in Times /\ IsFiniteSet(points)
    /\ counter \in Counters /\ calls \in [Times -> [Policies -> Nat]] /\ lost \in [Times -> Nat]
    /\ \A x \in points : x.metric \in MeshMetrics =>
          \E r \in Reporters, p \in Policies :
             /\ x.metric = "istio_requests" /\ x.series = <<r, p>> /\ x.reporter = r /\ x.policy = Label(r, p)
             /\ x.src = 1 /\ x.dst = Destination /\ x.at \in 0 .. now /\ x.value \in Nat

\* What a series has lost to restarts, as the history has it for all of them.
Ledger(L) == \A r \in Reporters, t \in Times : L[r]["mutual_tls"][t] + L[r]["none"][t] <= lost[t]
CountsFollow == \E L \in Ledgers : Ledger(L) /\ Follows(L, counter, calls, points, now)

\* A proxy has counted, and shown, only what was called.
OnlyCalled ==
    \A r \in Reporters, p \in Policies :
        counter[r][p] > 0 \/ SeriesOf(points, r, p) # {} => Called(calls, p, 0, now) > 0

MeshInv == MeshShape /\ OnlyCalled /\ CountsFollow

\* The losses of a series in a window are a number.
LEMMA LedgerType ==
    ASSUME NEW L \in Ledgers, NEW r \in Reporters, NEW p \in Policies, NEW s \in Nat, NEW t \in Times
    PROVE  SumOf(L[r][p], s .. t) \in Nat
<1>1. t \in Nat /\ t <= MaxNow BY TelemetryAssumption DEF Times
<1>2. PICK F : F = L[r][p] OBVIOUS
<1>3. \A u \in Times : F[u] \in Nat BY <1>2 DEF Ledgers
<1>4. IsFiniteSet(s .. t) /\ \A u \in s .. t : F[u] \in Nat BY <1>1, <1>3, TimesFinite, WithinTimes
<1>5. QED BY <1>2, <1>4, SumType

\* A point of a series has been read from its proxy, and not later than now.
LEMMA PointInSeries ==
    ASSUME MeshShape, NEW r \in Reporters, NEW p \in Policies, NEW x \in SeriesOf(points, r, p)
    PROVE  x.at \in 0 .. now /\ x.value \in Nat /\ x.reporter = r
BY DEF MeshShape, SeriesOf

\* What happens elsewhere changes nothing here.
LEMMA MeshQuiet ==
    ASSUME MeshInv, UNCHANGED <<now, counter, calls, lost>>,
           points' = points \/ \E x : x.metric \notin MeshMetrics /\ points' = points \cup {x}
    PROVE  MeshInv'
<1>1. /\ IsFiniteSet(points') /\ \A x \in points' : x.metric \in MeshMetrics => x \in points
      /\ points \subseteq points'
  BY FS_AddElement DEF MeshInv, MeshShape
<1>2. MeshShape' BY <1>1 DEF MeshInv, MeshShape
<1>3. \A r, p : SeriesOf(points', r, p) = SeriesOf(points, r, p) BY <1>1 DEF SeriesOf
<1>4. OnlyCalled'
  <2>1. \A p \in Policies : Called(calls', p, 0, now') = Called(calls, p, 0, now) OBVIOUS
  <2>2. QED BY <1>3, <2>1 DEF MeshInv, OnlyCalled
<1>5. CountsFollow'
  <2>1. PICK L \in Ledgers : Ledger(L) /\ Follows(L, counter, calls, points, now)
    BY DEF MeshInv, CountsFollow
  <2>2. Follows(L, counter', calls', points', now') BY <1>3, <2>1 DEF Follows
  <2>3. Ledger(L)' BY <2>1 DEF Ledger
  <2>4. QED BY <2>2, <2>3 DEF CountsFollow
<1>6. QED BY <1>2, <1>4, <1>5 DEF MeshInv

\* Time goes on: the windows that end now grow.
LEMMA MeshTicks == ASSUME MeshInv, Tick PROVE MeshInv'
<1> USE DEF MeshInv
<1>1. /\ now \in Nat /\ now' = now + 1 /\ now' \in Times /\ now \in Times
      /\ UNCHANGED <<points, counter, calls, lost>>
  BY TelemetryAssumption DEF MeshShape, Tick, Times
<1>2. MeshShape' BY <1>1 DEF MeshShape
<1>3. ASSUME NEW F, \A u \in Times : F[u] \in Nat, NEW s \in Nat
      PROVE  SumOf(F, s .. now) <= SumOf(F, s .. now')
  <2>1. now' \in Nat /\ now' <= MaxNow BY <1>1, TelemetryAssumption DEF Times
  <2>2. IsFiniteSet(s .. now') /\ \A u \in s .. now' : F[u] \in Nat
    BY <1>3, <2>1, TimesFinite, WithinTimes
  <2>3. s .. now \in SUBSET (s .. now') BY <1>1
  <2>4. QED BY <2>2, <2>3, SumGrows
<1>4. ASSUME NEW p \in Policies, NEW s \in Nat PROVE Called(calls, p, s, now) <= Called(calls, p, s, now')
  <2> DEFINE F == [u \in Times |-> calls[u][p]]
  <2>1. \A u \in Times : F[u] \in Nat BY DEF MeshShape
  <2> HIDE DEF F
  <2>2. SumOf(F, s .. now) <= SumOf(F, s .. now') BY <1>3, <2>1
  <2>3. QED BY <2>2 DEF Called, F
<1>5. \A p \in Policies, s \in Nat : Called(calls, p, s, now) \in Nat /\ Called(calls, p, s, now') \in Nat
  BY <1>1, CalledType DEF MeshShape
<1>6. OnlyCalled'
  <2>1. SUFFICES ASSUME NEW r \in Reporters, NEW p \in Policies,
                        counter[r][p] > 0 \/ SeriesOf(points, r, p) # {}
                 PROVE  Called(calls, p, 0, now') > 0
    BY <1>1 DEF OnlyCalled
  <2>2. Called(calls, p, 0, now) > 0 BY <2>1 DEF OnlyCalled
  <2>3. 0 \in Nat OBVIOUS
  <2>4. /\ Called(calls, p, 0, now) \in Nat /\ Called(calls, p, 0, now') \in Nat
        /\ Called(calls, p, 0, now) <= Called(calls, p, 0, now')
    BY <1>4, <1>5, <2>3
  <2>5. QED BY <2>2, <2>4
<1>7. CountsFollow'
  <2>1. PICK L \in Ledgers : Ledger(L) /\ Follows(L, counter, calls, points, now)
    BY DEF CountsFollow
  <2>2. ASSUME NEW r \in Reporters, NEW p \in Policies, NEW s \in Nat
        PROVE  /\ SumOf(L[r][p], s .. now) \in Nat /\ SumOf(L[r][p], s .. now') \in Nat
               /\ SumOf(L[r][p], s .. now) <= SumOf(L[r][p], s .. now')
    <3>1. PICK F : F = L[r][p] OBVIOUS
    <3>2. \A u \in Times : F[u] \in Nat BY <3>1 DEF Ledgers
    <3>3. QED BY <1>1, <1>3, <3>1, <3>2, LedgerType
  <2>3. Follows(L, counter, calls, points, now')
    <3>1. \A r \in Reporters, p \in Policies, s \in 0 .. now' :
             Called(calls, p, s, now') \in Nat /\ SumOf(L[r][p], s .. now') \in Nat
      BY <1>5, <2>2
    <3>2. ASSUME NEW r \in Reporters, NEW p \in Policies, NEW s \in 0 .. now
          PROVE  /\ Called(calls, p, s, now) \in Nat /\ SumOf(L[r][p], s .. now) \in Nat
                 /\ Called(calls, p, s, now) <= Called(calls, p, s, now')
                 /\ SumOf(L[r][p], s .. now) <= SumOf(L[r][p], s .. now')
                 /\ counter[r][p] + Called(calls, p, s, now) <= counter[r][p] + Called(calls, p, s, now')
                 /\ counter[r][p] + SumOf(L[r][p], s .. now) <= counter[r][p] + SumOf(L[r][p], s .. now')
      <4>1. s \in Nat /\ counter[r][p] \in Nat BY DEF MeshShape, Counters
      <4>2. /\ Called(calls, p, s, now) \in Nat /\ Called(calls, p, s, now') \in Nat
            /\ Called(calls, p, s, now) <= Called(calls, p, s, now')
        BY <1>4, <1>5, <4>1
      <4>3. /\ SumOf(L[r][p], s .. now) \in Nat /\ SumOf(L[r][p], s .. now') \in Nat
            /\ SumOf(L[r][p], s .. now) <= SumOf(L[r][p], s .. now')
        BY <2>2, <4>1
      <4>4. \A c, a, b \in Nat : a <= b => c + a <= c + b OBVIOUS
      <4>5. QED BY <4>1, <4>2, <4>3, <4>4
    <3>3. \A r \in Reporters, p \in Policies : \A x \in SeriesOf(points, r, p) : x.at \in 0 .. now /\ x.value \in Nat
      BY PointInSeries
    <3>4. counter \in Counters /\ now <= now' BY <1>1 DEF MeshShape
    <3>5. QED BY <1>1, <2>1, <3>1, <3>2, <3>3, <3>4, FollowsOn
  <2>4. Ledger(L)' BY <1>1, <2>1 DEF Ledger
  <2>5. QED BY <1>1, <2>1, <2>3, <2>4 DEF CountsFollow
<1>8. QED BY <1>2, <1>6, <1>7

\* A call: the counters of its policy and the history of the calls rise alike.
LEMMA MeshCalls == ASSUME MeshInv, NEW q \in Policies, MeshCall(q) PROVE MeshInv'
<1> USE DEF MeshInv
<1>1. /\ now \in Nat /\ now <= MaxNow /\ now' = now /\ now \in Times /\ points' = points /\ lost' = lost
      /\ \A r \in Reporters, p \in Policies :
            counter[r][p] \in Nat /\ counter'[r][p] = IF p = q THEN counter[r][p] + 1 ELSE counter[r][p]
      /\ \A u \in Times, p \in Policies :
            calls[u][p] \in Nat /\ calls'[u][p] = IF u = now /\ p = q THEN calls[u][p] + 1 ELSE calls[u][p]
  <2>1. now \in Nat /\ now <= MaxNow /\ now' = now /\ now \in Times /\ points' = points /\ lost' = lost
    BY TelemetryAssumption DEF MeshShape, MeshCall, Times
  <2>2. ASSUME NEW r \in Reporters, NEW p \in Policies
        PROVE  counter[r][p] \in Nat /\ counter'[r][p] = IF p = q THEN counter[r][p] + 1 ELSE counter[r][p]
    <3>1. counter[r] \in [Policies -> Nat] BY DEF MeshShape, Counters
    <3>2. counter'[r] = [counter[r] EXCEPT ![q] = @ + 1] BY DEF MeshCall
    <3>3. QED BY <3>1, <3>2
  <2>3. ASSUME NEW u \in Times, NEW p \in Policies
        PROVE  calls[u][p] \in Nat /\ calls'[u][p] = IF u = now /\ p = q THEN calls[u][p] + 1 ELSE calls[u][p]
    <3>1. calls[u] \in [Policies -> Nat] BY DEF MeshShape
    <3>2. calls'[u] = IF u = now THEN [calls[u] EXCEPT ![q] = @ + 1] ELSE calls[u] BY DEF MeshShape, MeshCall
    <3>3. QED BY <3>1, <3>2
  <2>4. QED BY <2>1, <2>2, <2>3
<1>2. MeshShape'
  <2>1. counter' \in Counters BY DEF MeshShape, MeshCall, Counters
  <2>2. calls' \in [Times -> [Policies -> Nat]] BY DEF MeshShape, MeshCall
  <2>3. QED BY <1>1, <2>1, <2>2 DEF MeshShape
<1>3. ASSUME NEW p \in Policies, NEW s \in 0 .. now
      PROVE  /\ Called(calls, p, s, now) \in Nat
             /\ Called(calls', p, s, now) = IF p = q THEN Called(calls, p, s, now) + 1 ELSE Called(calls, p, s, now)
  <2>1. Called(calls, p, s, now) \in Nat
    <3>1. s \in Nat OBVIOUS
    <3>2. QED BY <1>1, <3>1, CalledType DEF MeshShape
  <2> DEFINE F == [u \in Times |-> calls[u][p]]
             H == [u \in Times |-> calls'[u][p]]
             d == IF p = q THEN 1 ELSE 0
  <2>2. IsFiniteSet(s .. now) /\ \A u \in s .. now : u \in Times BY <1>1, TimesFinite, WithinTimes
  <2>3. now \in s .. now /\ d \in Nat BY <1>1
  <2>4. \A u \in s .. now : F[u] \in Nat /\ H[u] = IF u = now THEN F[u] + d ELSE F[u] BY <1>1, <2>2
  <2> HIDE DEF F, H, d
  <2>5. SumOf(H, s .. now) = SumOf(F, s .. now) + d BY <2>2, <2>3, <2>4, SumBump
  <2>6. Called(calls', p, s, now) = Called(calls, p, s, now) + d BY <2>5 DEF Called, F, H
  <2>7. QED BY <2>1, <2>6 DEF d
<1>4. 0 \in 0 .. now BY <1>1
<1>5. OnlyCalled'
  <2>1. SUFFICES ASSUME NEW r \in Reporters, NEW p \in Policies,
                        counter'[r][p] > 0 \/ SeriesOf(points, r, p) # {}
                 PROVE  Called(calls', p, 0, now) > 0
    BY <1>1 DEF OnlyCalled
  <2>2. CASE p = q BY <1>3, <1>4, <2>2
  <2>3. CASE p # q
    <3>1. counter[r][p] > 0 \/ SeriesOf(points, r, p) # {} BY <1>1, <2>1, <2>3
    <3>2. QED BY <1>3, <1>4, <2>3, <3>1 DEF OnlyCalled
  <2>4. QED BY <2>2, <2>3
<1>6. CountsFollow'
  <2>1. PICK L \in Ledgers : Ledger(L) /\ Follows(L, counter, calls, points, now)
    BY DEF CountsFollow
  <2>2. Follows(L, counter', calls', points, now)
    <3>1. \A r \in Reporters, p \in Policies, s \in 0 .. now :
             Called(calls', p, s, now) \in Nat /\ SumOf(L[r][p], s .. now) \in Nat
      <4>1. \A p \in Policies, s \in 0 .. now : Called(calls', p, s, now) \in Nat BY <1>3
      <4>2. \A s \in 0 .. now : s \in Nat OBVIOUS
      <4>3. QED BY <1>1, <2>1, <4>1, <4>2, LedgerType
    <3>2. ASSUME NEW r \in Reporters, NEW p \in Policies, NEW s \in 0 .. now
          PROVE  /\ Called(calls, p, s, now) \in Nat /\ SumOf(L[r][p], s .. now) \in Nat
                 /\ Called(calls', p, s, now) \in Nat /\ SumOf(L[r][p], s .. now) \in Nat
                 /\ Called(calls, p, s, now) <= Called(calls', p, s, now)
                 /\ SumOf(L[r][p], s .. now) <= SumOf(L[r][p], s .. now)
                 /\ counter'[r][p] + Called(calls, p, s, now) <= counter[r][p] + Called(calls', p, s, now)
                 /\ counter[r][p] + SumOf(L[r][p], s .. now) <= counter'[r][p] + SumOf(L[r][p], s .. now)
      <4>1. PICK k \in Nat : k = SumOf(L[r][p], s .. now) BY <3>1
      <4>2. /\ counter[r][p] \in Nat
            /\ counter'[r][p] = IF p = q THEN counter[r][p] + 1 ELSE counter[r][p]
        BY <1>1
      <4>3. /\ Called(calls, p, s, now) \in Nat
            /\ Called(calls', p, s, now) = IF p = q THEN Called(calls, p, s, now) + 1 ELSE Called(calls, p, s, now)
        BY <1>3
      <4>4. /\ k <= k /\ Called(calls, p, s, now) <= Called(calls', p, s, now)
            /\ counter'[r][p] + Called(calls, p, s, now) <= counter[r][p] + Called(calls', p, s, now)
            /\ counter[r][p] + k <= counter'[r][p] + k
        BY <4>2, <4>3
      <4>5. QED BY <3>1, <4>1, <4>3, <4>4
    <3>3. \A r \in Reporters, p \in Policies :
             /\ \A x \in SeriesOf(points, r, p) : x.at \in 0 .. now /\ x.value \in Nat
             /\ \A x \in SeriesOf(points, r, p) :
                   \/ x \in SeriesOf(points, r, p)
                   \/ /\ x.at = now /\ x.value = counter'[r][p]
                      /\ \A y \in SeriesOf(points, r, p) : y.at # now
      BY PointInSeries
    <3>4. counter \in Counters /\ counter' \in Counters BY <1>1, <1>2 DEF MeshShape
    <3>5. QED BY <1>1, <2>1, <3>2, <3>3, <3>4, FollowsAfter
  <2>3. Ledger(L)' BY <1>1, <2>1 DEF Ledger
  <2>4. QED BY <1>1, <2>1, <2>2, <2>3 DEF CountsFollow
<1>7. QED BY <1>2, <1>5, <1>6

\* A restart: what its counters fall by is entered in the ledger of the proxy.
LEMMA MeshRestarts == ASSUME MeshInv, NEW q \in Reporters, ProxyRestarts(q) PROVE MeshInv'
<1> USE DEF MeshInv
<1> DEFINE m == "mutual_tls"
           n == "none"
<1>0. Policies = {m, n} /\ m \in Policies /\ n \in Policies BY DEF Policies
<1>1. /\ now \in Nat /\ now <= MaxNow /\ now' = now /\ now \in Times /\ points' = points /\ calls' = calls
      /\ \A r \in Reporters, p \in Policies :
            counter[r][p] \in Nat /\ counter'[r][p] = IF r = q THEN 0 ELSE counter[r][p]
      /\ \A u \in Times :
            lost[u] \in Nat /\ lost'[u] = IF u = now THEN lost[u] + counter[q][m] + counter[q][n] ELSE lost[u]
  BY <1>0, TelemetryAssumption DEF MeshShape, ProxyRestarts, Times, Counters
<1>2. MeshShape'
  <2>1. counter' \in Counters BY DEF MeshShape, ProxyRestarts, Counters
  <2>2. lost' \in [Times -> Nat]
    <3>1. lost' = [u \in Times |-> lost'[u]] BY DEF MeshShape, ProxyRestarts
    <3>2. \A a, b, c \in Nat : a + b + c \in Nat OBVIOUS
    <3>3. counter[q][m] \in Nat /\ counter[q][n] \in Nat BY <1>0, <1>1
    <3>4. ASSUME NEW u \in Times PROVE lost'[u] \in Nat
      <4>1. lost[u] \in Nat /\ lost'[u] = IF u = now THEN lost[u] + counter[q][m] + counter[q][n] ELSE lost[u] BY <1>1
      <4>2. QED BY <3>2, <3>3, <4>1
    <3>5. QED BY <3>1, <3>4
  <2>3. QED BY <1>1, <2>1, <2>2 DEF MeshShape
<1>3. OnlyCalled'
  <2>1. SUFFICES ASSUME NEW r \in Reporters, NEW p \in Policies,
                        counter'[r][p] > 0 \/ SeriesOf(points, r, p) # {}
                 PROVE  Called(calls, p, 0, now) > 0
    BY <1>1 DEF OnlyCalled
  <2>2. counter[r][p] > 0 \/ SeriesOf(points, r, p) # {} BY <1>1, <2>1
  <2>3. QED BY <2>2 DEF OnlyCalled
<1>4. CountsFollow'
  <2>1. PICK L \in Ledgers : Ledger(L) /\ Follows(L, counter, calls, points, now)
    BY DEF CountsFollow
  <2>2. PICK M : M = [r \in Reporters |-> [p \in Policies |-> [u \in Times |->
                        IF r = q /\ u = now THEN L[r][p][u] + counter[q][p] ELSE L[r][p][u]]]]
    OBVIOUS
  <2>3. \A r \in Reporters, p \in Policies, u \in Times :
           L[r][p][u] \in Nat /\ M[r][p][u] = IF r = q /\ u = now THEN L[r][p][u] + counter[q][p] ELSE L[r][p][u]
    BY <2>2 DEF Ledgers
  <2>4. M \in Ledgers
    <3>1. \A r \in Reporters, p \in Policies, u \in Times : M[r][p][u] \in Nat BY <1>1, <2>3
    <3>2. \A r \in Reporters, p \in Policies : M[r][p] \in [Times -> Nat] BY <2>2, <3>1
    <3>3. \A r \in Reporters : M[r] \in [Policies -> [Times -> Nat]] BY <2>2, <3>2
    <3>4. QED BY <2>2, <3>3 DEF Ledgers
  <2>5. Ledger(M)'
    <3>1. ASSUME NEW r \in Reporters, NEW u \in Times PROVE M[r][m][u] + M[r][n][u] <= lost'[u]
      <4>1. L[r][m][u] + L[r][n][u] <= lost[u] BY <2>1 DEF Ledger
      <4>2. L[r][m][u] \in Nat /\ L[r][n][u] \in Nat BY <1>0, <2>3
      <4>3. counter[q][m] \in Nat /\ counter[q][n] \in Nat /\ lost[u] \in Nat BY <1>0, <1>1
      <4>4. /\ M[r][m][u] = IF r = q /\ u = now THEN L[r][m][u] + counter[q][m] ELSE L[r][m][u]
            /\ M[r][n][u] = IF r = q /\ u = now THEN L[r][n][u] + counter[q][n] ELSE L[r][n][u]
        BY <1>0, <2>3
      <4>5. lost'[u] = IF u = now THEN lost[u] + counter[q][m] + counter[q][n] ELSE lost[u] BY <1>1
      <4>6. QED BY <4>1, <4>2, <4>3, <4>4, <4>5
    <3>2. QED BY <3>1 DEF Ledger
  <2>6. ASSUME NEW r \in Reporters, NEW p \in Policies, NEW s \in 0 .. now
        PROVE  /\ SumOf(L[r][p], s .. now) \in Nat
               /\ SumOf(M[r][p], s .. now) = SumOf(L[r][p], s .. now) + (IF r = q THEN counter[q][p] ELSE 0)
    <3>1. PICK F : F = L[r][p] OBVIOUS
    <3>2. PICK H : H = M[r][p] OBVIOUS
    <3>3. PICK d \in Nat : d = IF r = q THEN counter[q][p] ELSE 0 BY <1>1
    <3>4. s \in Nat OBVIOUS
    <3>5. IsFiniteSet(s .. now) /\ \A u \in s .. now : u \in Times BY <1>1, <3>4, TimesFinite, WithinTimes
    <3>6. \A u \in s .. now : F[u] \in Nat /\ H[u] = IF u = now THEN F[u] + d ELSE F[u]
      BY <2>3, <3>1, <3>2, <3>3, <3>5
    <3>7. now \in s .. now BY <1>1
    <3>8. SumOf(H, s .. now) = SumOf(F, s .. now) + d BY <3>5, <3>6, <3>7, SumBump
    <3>9. SumOf(F, s .. now) \in Nat BY <3>5, <3>6, SumType
    <3>10. QED BY <3>1, <3>2, <3>3, <3>8, <3>9
  <2>7. Follows(M, counter', calls, points, now)
    <3>0. \A p \in Policies, s \in 0 .. now : Called(calls, p, s, now) \in Nat
      <4>1. \A s \in 0 .. now : s \in Nat OBVIOUS
      <4>2. QED BY <1>1, <4>1, CalledType DEF MeshShape
    <3>1. \A r \in Reporters, p \in Policies, s \in 0 .. now :
             Called(calls, p, s, now) \in Nat /\ SumOf(M[r][p], s .. now) \in Nat
      <4>1. \A s \in 0 .. now : s \in Nat OBVIOUS
      <4>2. QED BY <1>1, <2>4, <3>0, <4>1, LedgerType
    <3>2. ASSUME NEW r \in Reporters, NEW p \in Policies, NEW s \in 0 .. now
          PROVE  /\ Called(calls, p, s, now) \in Nat /\ SumOf(L[r][p], s .. now) \in Nat
                 /\ Called(calls, p, s, now) \in Nat /\ SumOf(M[r][p], s .. now) \in Nat
                 /\ Called(calls, p, s, now) <= Called(calls, p, s, now)
                 /\ SumOf(L[r][p], s .. now) <= SumOf(M[r][p], s .. now)
                 /\ counter'[r][p] + Called(calls, p, s, now) <= counter[r][p] + Called(calls, p, s, now)
                 /\ counter[r][p] + SumOf(L[r][p], s .. now) <= counter'[r][p] + SumOf(M[r][p], s .. now)
      <4>1. PICK a \in Nat : a = Called(calls, p, s, now) BY <3>0
      <4>2. PICK k \in Nat : k = SumOf(L[r][p], s .. now) BY <2>6
      <4>3. PICK l : l = SumOf(M[r][p], s .. now) OBVIOUS
      <4>4. l = k + (IF r = q THEN counter[q][p] ELSE 0) BY <2>6, <4>2, <4>3
      <4>5. /\ counter[r][p] \in Nat /\ counter'[r][p] = IF r = q THEN 0 ELSE counter[r][p]
            /\ counter[q][p] \in Nat
        BY <1>1
      <4>6. a <= a /\ k <= l /\ counter'[r][p] + a <= counter[r][p] + a /\ counter[r][p] + k <= counter'[r][p] + l
        BY <4>4, <4>5
      <4>7. QED BY <3>1, <4>1, <4>2, <4>3, <4>6
    <3>3. \A r \in Reporters, p \in Policies :
             /\ \A x \in SeriesOf(points, r, p) : x.at \in 0 .. now /\ x.value \in Nat
             /\ \A x \in SeriesOf(points, r, p) :
                   \/ x \in SeriesOf(points, r, p)
                   \/ /\ x.at = now /\ x.value = counter'[r][p]
                      /\ \A y \in SeriesOf(points, r, p) : y.at # now
      BY PointInSeries
    <3>4. counter \in Counters /\ counter' \in Counters BY <1>1, <1>2 DEF MeshShape
    <3>5. QED BY <1>1, <2>1, <3>2, <3>3, <3>4, FollowsAfter
  <2>8. QED BY <1>1, <2>4, <2>5, <2>7 DEF CountsFollow
<1>5. QED BY <1>2, <1>3, <1>4

\* What a scrape adds: a point for each label that has been counted.
LEMMA ScrapedPoints ==
    ASSUME NEW q \in Reporters, NEW z \in Scraped(q)
    PROVE  \E p \in Policies :
              /\ counter[q][p] > 0
              /\ z.metric = "istio_requests" /\ z.series = <<q, p>> /\ z.reporter = q /\ z.policy = Label(q, p)
              /\ z.src = 1 /\ z.dst = Destination /\ z.at = now /\ z.value = counter[q][p]
<1>1. PICK p \in Policies :
         /\ counter[q][p] > 0
         /\ z = [Point EXCEPT !.metric = "istio_requests", !.at = now, !.value = counter[q][p], !.series = <<q, p>>,
                   !.reporter = q, !.policy = Label(q, p), !.src = 1, !.dst = Destination, !.code = 200]
  BY DEF Scraped
<1>2. {"metric", "at", "value", "series", "reporter", "policy", "src", "dst", "code"} \subseteq DOMAIN Point
  BY DEF Point
<1>3. /\ z.metric = "istio_requests" /\ z.series = <<q, p>> /\ z.reporter = q /\ z.policy = Label(q, p)
      /\ z.src = 1 /\ z.dst = Destination /\ z.at = now /\ z.value = counter[q][p]
  <2>1. PICK P : P = Point OBVIOUS
  <2>2. PICK l : l = Label(q, p) OBVIOUS
  <2>3. PICK c : c = counter[q][p] OBVIOUS
  <2>4. PICK s : s = <<q, p>> OBVIOUS
  <2>5. z = [P EXCEPT !.metric = "istio_requests", !.at = now, !.value = c, !.series = s,
                   !.reporter = q, !.policy = l, !.src = 1, !.dst = Destination, !.code = 200]
    BY <1>1, <2>1, <2>2, <2>3, <2>4
  <2>6. {"metric", "at", "value", "series", "reporter", "policy", "src", "dst", "code"} \subseteq DOMAIN P
    BY <1>2, <2>1
  <2>7. /\ z.metric = "istio_requests" /\ z.series = s /\ z.reporter = q /\ z.policy = l
        /\ z.src = 1 /\ z.dst = Destination /\ z.at = now /\ z.value = c
    BY <2>5, <2>6
  <2>8. QED BY <2>2, <2>3, <2>4, <2>7
<1>4. QED BY <1>1, <1>3

\* A scrape adds two points at most.
LEMMA ScrapedFinite == \A q : IsFiniteSet(Scraped(q))
<1> TAKE q
<1> DEFINE f(p) == [Point EXCEPT !.metric = "istio_requests", !.at = now, !.value = counter[q][p], !.series = <<q, p>>,
                   !.reporter = q, !.policy = Label(q, p), !.src = 1, !.dst = Destination, !.code = 200]
<1>1. PICK a, b : a = f("mutual_tls") /\ b = f("none") OBVIOUS
<1>2. Scraped(q) = {f(p) : p \in {u \in Policies : counter[q][u] > 0}} BY DEF Scraped
<1> HIDE DEF f
<1>3. Scraped(q) \subseteq {a} \cup {b} BY <1>1, <1>2 DEF Policies
<1>4. IsFiniteSet({a} \cup {b}) BY FS_Singleton, FS_AddElement
<1>5. QED BY <1>3, <1>4, FS_Subset

\* A scrape: the new points read the counters as they are.
LEMMA MeshScrapes == ASSUME MeshInv, NEW q \in Reporters, Scrape(q) PROVE MeshInv'
<1> USE DEF MeshInv
<1>1. /\ now \in Nat /\ now <= MaxNow /\ now' = now /\ now \in Times
      /\ counter' = counter /\ calls' = calls /\ lost' = lost
      /\ points' = points \cup Scraped(q)
      /\ \A y \in points : ~ (y.at = now /\ y.reporter = q)
  BY TelemetryAssumption DEF MeshShape, Scrape, Times
<1>2. \A r \in Reporters, p \in Policies : counter[r][p] \in Nat BY DEF MeshShape, Counters
<1>3. ASSUME NEW z \in Scraped(q)
      PROVE  \E p \in Policies :
              /\ counter[q][p] > 0
              /\ z.metric = "istio_requests" /\ z.series = <<q, p>> /\ z.reporter = q /\ z.policy = Label(q, p)
              /\ z.src = 1 /\ z.dst = Destination /\ z.at = now /\ z.value = counter[q][p]
  BY <1>3, ScrapedPoints
<1>4. MeshShape'
  <2>1. IsFiniteSet(points') BY <1>1, ScrapedFinite, FS_Union DEF MeshShape
  <2>2. ASSUME NEW x \in points', x.metric \in MeshMetrics
        PROVE  \E r \in Reporters, p \in Policies :
             /\ x.metric = "istio_requests" /\ x.series = <<r, p>> /\ x.reporter = r /\ x.policy = Label(r, p)
             /\ x.src = 1 /\ x.dst = Destination /\ x.at \in 0 .. now /\ x.value \in Nat
    <3>1. CASE x \in points BY <2>2, <3>1 DEF MeshShape
    <3>2. CASE x \in Scraped(q)
      <4>1. PICK p \in Policies :
              /\ x.metric = "istio_requests" /\ x.series = <<q, p>> /\ x.reporter = q /\ x.policy = Label(q, p)
              /\ x.src = 1 /\ x.dst = Destination /\ x.at = now /\ x.value = counter[q][p]
        BY <1>3, <3>2
      <4>2. x.at \in 0 .. now /\ x.value \in Nat BY <1>1, <1>2, <4>1
      <4>3. QED BY <4>1, <4>2
    <3>3. QED BY <1>1, <3>1, <3>2
  <2>3. QED BY <1>1, <2>1, <2>2 DEF MeshShape
<1>5. ASSUME NEW r \in Reporters, NEW p \in Policies, NEW z \in SeriesOf(points', r, p), z \notin SeriesOf(points, r, p)
      PROVE  r = q /\ counter[q][p] > 0 /\ z.at = now /\ z.value = counter[q][p]
  <2>1. z \in Scraped(q) /\ z.series = <<r, p>> BY <1>1, <1>5 DEF SeriesOf
  <2>2. PICK u \in Policies : counter[q][u] > 0 /\ z.series = <<q, u>> /\ z.at = now /\ z.value = counter[q][u]
    BY <1>3, <2>1
  <2>3. r = q /\ p = u BY <2>1, <2>2
  <2>4. QED BY <2>2, <2>3
<1>6. OnlyCalled'
  <2>1. SUFFICES ASSUME NEW r \in Reporters, NEW p \in Policies,
                        counter[r][p] > 0 \/ SeriesOf(points', r, p) # {}
                 PROVE  Called(calls, p, 0, now) > 0
    BY <1>1 DEF OnlyCalled
  <2>2. CASE counter[r][p] > 0 \/ SeriesOf(points, r, p) # {} BY <2>2 DEF OnlyCalled
  <2>3. CASE ~ (counter[r][p] > 0 \/ SeriesOf(points, r, p) # {})
    <3>1. PICK z : z \in SeriesOf(points', r, p) BY <2>1, <2>3
    <3>2. r = q /\ counter[q][p] > 0 BY <1>5, <2>3, <3>1
    <3>3. QED BY <2>3, <3>2
  <2>4. QED BY <2>2, <2>3
<1>7. CountsFollow'
  <2>1. PICK L \in Ledgers : Ledger(L) /\ Follows(L, counter, calls, points, now)
    BY DEF CountsFollow
  <2>2. \A s \in 0 .. now : s \in Nat OBVIOUS
  <2>3. \A r \in Reporters, p \in Policies, s \in 0 .. now :
             Called(calls, p, s, now) \in Nat /\ SumOf(L[r][p], s .. now) \in Nat
    BY <1>1, <2>1, <2>2, CalledType, LedgerType DEF MeshShape
  <2>4. PICK M, d, cl, ps : M = L /\ d = counter /\ cl = calls /\ ps = points' OBVIOUS
  <2>5. ASSUME NEW r \in Reporters, NEW p \in Policies, NEW s \in 0 .. now
        PROVE  /\ Called(calls, p, s, now) \in Nat /\ SumOf(L[r][p], s .. now) \in Nat
               /\ Called(cl, p, s, now) \in Nat /\ SumOf(M[r][p], s .. now) \in Nat
               /\ Called(calls, p, s, now) <= Called(cl, p, s, now)
               /\ SumOf(L[r][p], s .. now) <= SumOf(M[r][p], s .. now)
               /\ d[r][p] + Called(calls, p, s, now) <= counter[r][p] + Called(cl, p, s, now)
               /\ counter[r][p] + SumOf(L[r][p], s .. now) <= d[r][p] + SumOf(M[r][p], s .. now)
    <3>1. \A a, b, c \in Nat : a <= a /\ b <= b /\ c + a <= c + a /\ c + b <= c + b OBVIOUS
    <3>2. Called(calls, p, s, now) \in Nat /\ SumOf(L[r][p], s .. now) \in Nat /\ counter[r][p] \in Nat
      BY <1>2, <2>3
    <3>3. QED BY <2>4, <3>1, <3>2
  <2>6. ASSUME NEW r \in Reporters, NEW p \in Policies
        PROVE  /\ \A x \in SeriesOf(points, r, p) : x.at \in 0 .. now /\ x.value \in Nat
               /\ \A x \in SeriesOf(ps, r, p) :
                     \/ x \in SeriesOf(points, r, p)
                     \/ /\ x.at = now /\ x.value = d[r][p]
                        /\ \A y \in SeriesOf(points, r, p) : y.at # now
    <3>1. \A x \in SeriesOf(points, r, p) : x.at \in 0 .. now /\ x.value \in Nat /\ x.reporter = r /\ x \in points
      BY PointInSeries DEF SeriesOf
    <3>2. r = q => \A y \in SeriesOf(points, r, p) : y.at # now BY <1>1, <3>1
    <3>3. QED BY <1>5, <2>4, <3>1, <3>2
  <2>7. Follows(L, counter, calls, points', now)
    <3>1. counter \in Counters /\ d \in Counters BY <2>4 DEF MeshShape
    <3>2. now \in Times /\ Follows(L, counter, calls, points, now) BY <1>1, <2>1
    <3>3. \A r \in Reporters, p \in Policies, s \in 0 .. now :
               /\ Called(calls, p, s, now) \in Nat /\ SumOf(L[r][p], s .. now) \in Nat
               /\ Called(cl, p, s, now) \in Nat /\ SumOf(M[r][p], s .. now) \in Nat
               /\ Called(calls, p, s, now) <= Called(cl, p, s, now)
               /\ SumOf(L[r][p], s .. now) <= SumOf(M[r][p], s .. now)
               /\ d[r][p] + Called(calls, p, s, now) <= counter[r][p] + Called(cl, p, s, now)
               /\ counter[r][p] + SumOf(L[r][p], s .. now) <= d[r][p] + SumOf(M[r][p], s .. now)
      BY <2>5
    <3>4. \A r \in Reporters, p \in Policies :
               /\ \A x \in SeriesOf(points, r, p) : x.at \in 0 .. now /\ x.value \in Nat
               /\ \A x \in SeriesOf(ps, r, p) :
                     \/ x \in SeriesOf(points, r, p)
                     \/ /\ x.at = now /\ x.value = d[r][p]
                        /\ \A y \in SeriesOf(points, r, p) : y.at # now
      BY <2>6
    <3>5. Follows(M, d, cl, ps, now) BY <3>1, <3>2, <3>3, <3>4, FollowsAfter
    <3>6. QED BY <2>4, <3>5
  <2>8. Ledger(L)' BY <1>1, <2>1 DEF Ledger
  <2>9. QED BY <1>1, <2>1, <2>7, <2>8 DEF CountsFollow
<1>8. QED BY <1>4, <1>6, <1>7

\* At first nothing has been counted, and the ledgers are empty.
LEMMA MeshBegins == ASSUME TelemetryInit PROVE MeshInv
<1>1. /\ points = {} /\ now = 0 /\ counter = [r \in Reporters |-> [p \in Policies |-> 0]]
      /\ calls = [t \in Times |-> [p \in Policies |-> 0]] /\ lost = [t \in Times |-> 0]
  BY DEF TelemetryInit
<1>2. MeshShape BY <1>1, FS_EmptySet, TelemetryAssumption DEF MeshShape, Times, Counters
<1>3. \A r, p : SeriesOf(points, r, p) = {} BY <1>1 DEF SeriesOf
<1>4. OnlyCalled
  <2>1. \A r \in Reporters, p \in Policies : counter[r][p] = 0 BY <1>1
  <2>2. QED BY <1>3, <2>1 DEF OnlyCalled
<1>5. CountsFollow
  <2>1. PICK L : L = [r \in Reporters |-> [p \in Policies |-> [u \in Times |-> 0]]] OBVIOUS
  <2>2. L \in Ledgers BY <2>1 DEF Ledgers
  <2>3. Ledger(L) BY <1>1, <2>1 DEF Ledger, Policies
  <2>4. Follows(L, counter, calls, points, now) BY <1>3 DEF Follows
  <2>5. QED BY <2>2, <2>3, <2>4 DEF CountsFollow
<1>6. QED BY <1>2, <1>4, <1>5 DEF MeshInv

\* The counters and the histories follow each other in every behaviour.
LEMMA MeshInvHolds == TelemetrySpec => []MeshInv
<1>1. ASSUME MeshInv, [TelemetryNext]_telemetryVars PROVE MeshInv'
  <2> USE <1>1
  <2>1. CASE UNCHANGED telemetryVars BY <2>1, MeshQuiet DEF telemetryVars
  <2>2. ASSUME NEW p, p.metric \notin MeshMetrics, UNCHANGED <<now, counter, calls, lost>>,
               points' = points \cup {p}
        PROVE  MeshInv'
    BY <2>2, MeshQuiet
  <2>3. CASE PageNext
    <3>1. UNCHANGED <<now, counter, calls, lost>> /\ points' = points
      BY <2>3 DEF PageNext, NextPage, StartScroll, SpanArrives, LogArrives, EventArrives, Arrive
    <3>2. QED BY <3>1, MeshQuiet
  <2>4. CASE MapNext
    <3>1. CASE SpanArrives
      <4>1. UNCHANGED <<now, counter, calls, lost>> /\ points' = points BY <3>1 DEF SpanArrives, Arrive
      <4>2. QED BY <4>1, MeshQuiet
    <3>2. CASE FlowArrives
      <4>1. PICK p \in FlowPool : UNCHANGED <<now, counter, calls, lost>> /\ points' = points \cup {p}
        BY <3>2 DEF FlowArrives, Arrive
      <4>2. p.metric \notin MeshMetrics BY TelemetryAssumption DEF MeshMetrics
      <4>3. QED BY <2>2, <4>1, <4>2
    <3>3. QED BY <2>4, <3>1, <3>2 DEF MapNext
  <2>5. CASE IssueNext
    <3>1. CASE Tick BY <3>1, MeshTicks
    <3>2. CASE EventArrives \/ \E e \in events, s \in {"unresolved", "resolved", "ignored"} : SetIssueStatus(e.tenant, e.fp, s)
      <4>1. UNCHANGED <<now, counter, calls, lost>> /\ points' = points
        BY <3>2 DEF EventArrives, Arrive, SetIssueStatus
      <4>2. QED BY <4>1, MeshQuiet
    <3>3. QED BY <2>5, <3>1, <3>2 DEF IssueNext
  <2>6. CASE MeshNext
    BY <2>6, MeshTicks, MeshCalls, MeshScrapes, MeshRestarts DEF MeshNext
  <2>7. QED BY <2>1, <2>3, <2>4, <2>5, <2>6 DEF TelemetryNext
<1>2. QED BY <1>1, MeshBegins, PTL DEF TelemetrySpec

-----------------------------------------------------------------------------
(* What the reader of the counters makes of them.                          *)

\* The sums of the model, over the functions that they add up.
LEMMA CallsSum ==
    ASSUME NEW p, NEW from \in Nat, NEW to, from .. to \subseteq Times
    PROVE  CallsIn(from, to, p) = Called(calls, p, from, to)
<1> DEFINE I == from .. to
           F == [t \in Times |-> calls[t][p]]
           A(g) == [s \in SUBSET I |-> IF s = {} THEN 0
                       ELSE calls[CHOOSE x \in s : TRUE][p] + g[s \ {CHOOSE x \in s : TRUE}]]
<1>1. CallsIn(from, to, p) = (CHOOSE g : g = A(g))[I]
  BY DEF CallsIn, MapThenSumSet, MapThenFoldSet
<1>2. ASSUME NEW g PROVE A(g) = Adds(F, I, g)
  <2>1. \A s \in SUBSET I : s # {} => (CHOOSE x \in s : TRUE) \in Times OBVIOUS
  <2> QED BY <2>1 DEF Adds
<1> HIDE DEF A
<1>3. (CHOOSE g : g = A(g)) = (CHOOSE g : g = Adds(F, I, g))
  BY <1>2
<1> QED BY <1>1, <1>3 DEF SumOf, Called

\* The same for the counts that were lost.
LEMMA LostSum == ASSUME NEW from, NEW to PROVE LostIn(from, to) = SumOf(lost, from .. to)
<1> DEFINE I == from .. to
           A(g) == [s \in SUBSET I |-> IF s = {} THEN 0
                       ELSE lost[CHOOSE x \in s : TRUE] + g[s \ {CHOOSE x \in s : TRUE}]]
<1>1. LostIn(from, to) = (CHOOSE g : g = A(g))[I]
  BY DEF LostIn, MapThenSumSet, MapThenFoldSet
<1>2. ASSUME NEW g PROVE A(g) = Adds(lost, I, g) BY DEF Adds
<1> HIDE DEF A
<1>3. (CHOOSE g : g = A(g)) = (CHOOSE g : g = Adds(lost, I, g))
  BY <1>2
<1> QED BY <1>1, <1>3 DEF SumOf

\* A sum of one term at most.
LEMMA SumOfOne ==
    ASSUME NEW a, NEW S, S \subseteq {a}, NEW F, \A x \in S : F[x] \in Nat
    PROVE  SumOf(F, S) = IF S = {} THEN 0 ELSE F[a]
<1>1. PICK b : a # b
  <2>1. 0 # 1 OBVIOUS
  <2>2. QED BY <2>1
<1>2. S \subseteq {a, b} /\ b \notin S /\ (S # {} => a \in S) BY <1>1
<1>3. SumOf(F, S) = (IF a \in S THEN F[a] ELSE 0) + (IF b \in S THEN F[b] ELSE 0)
  BY <1>1, <1>2, SumOfTwo
<1>4. a \in S => F[a] \in Nat OBVIOUS
<1>5. QED BY <1>2, <1>3, <1>4

\* addCounts of rows of which there is at most one under the policy.
RowsUnder(rows, l) ==
    {r \in rows : IF l = "unknown" THEN r.k.policy \notin {"mutual_tls", "none"} ELSE r.k.policy = l}

\* Then it is the count of this row, or nothing.
LEMMA OneRow ==
    ASSUME NEW rows, NEW l, NEW a, RowsUnder(rows, l) \subseteq {a}, a.n \in Nat
    PROVE  addCounts(rows, l) = IF RowsUnder(rows, l) = {} THEN 0 ELSE a.n
<1> DEFINE F == [r \in {a} |-> r.n]
           A(S, g) == [s \in SUBSET S |-> IF s = {} THEN 0
                          ELSE (CHOOSE x \in s : TRUE).n + g[s \ {CHOOSE x \in s : TRUE}]]
<1>1. addCounts(rows, l) = (CHOOSE g : g = A(RowsUnder(rows, l), g))[RowsUnder(rows, l)]
  BY DEF addCounts, MapThenSumSet, MapThenFoldSet, RowsUnder
<1>2. PICK S : S = RowsUnder(rows, l) OBVIOUS
<1>3. S \subseteq {a} BY <1>2
<1>4. ASSUME NEW g PROVE A(S, g) = Adds(F, S, g)
  <2>1. \A s \in SUBSET S : s # {} => (CHOOSE x \in s : TRUE) \in {a} BY <1>3
  <2> QED BY <2>1 DEF Adds
<1> HIDE DEF A
<1>5. (CHOOSE g : g = A(S, g)) = (CHOOSE g : g = Adds(F, S, g))
  BY <1>4
<1>6. addCounts(rows, l) = SumOf(F, S) BY <1>1, <1>2, <1>5 DEF SumOf
<1>7. (\A x \in S : F[x] \in Nat) /\ F[a] = a.n BY <1>3
<1> HIDE DEF F
<1>8. SumOf(F, S) = IF S = {} THEN 0 ELSE F[a] BY <1>3, <1>7, SumOfOne
<1>9. QED BY <1>2, <1>6, <1>7, <1>8

\* The points of one series.
OfSeries(ps, s) == {x \in ps : x.series = s}

\* The rise of points that are of one or two series.
LEMMA RiseOfTwo ==
    ASSUME NEW G, NEW a, NEW b, a # b, \A x \in G : x.series \in {a, b},
           NEW u \in Nat, NEW v \in Nat,
           u = IF OfSeries(G, a) = {} THEN 0 ELSE seriesDeltaExpr(OfSeries(G, a)),
           v = IF OfSeries(G, b) = {} THEN 0 ELSE seriesDeltaExpr(OfSeries(G, b))
    PROVE  Rise(G) = u + v
<1> DEFINE D == {x.series : x \in G}
           h(s) == seriesDeltaExpr(OfSeries(G, s))
           F == [s \in D |-> h(s)]
           A(g) == [s \in SUBSET D |-> IF s = {} THEN 0
                       ELSE h(CHOOSE x \in s : TRUE) + g[s \ {CHOOSE x \in s : TRUE}]]
           gr == GroupBy(G, LAMBDA p : p.series)
           B(g) == [s \in SUBSET DOMAIN gr |-> IF s = {} THEN 0
                       ELSE seriesDeltaExpr(gr[CHOOSE x \in s : TRUE]) + g[s \ {CHOOSE x \in s : TRUE}]]
<1>1. Rise(G) = (CHOOSE g : g = B(g))[DOMAIN gr]
  BY DEF Rise, MapThenSumSet, MapThenFoldSet
<1>2. gr = [s \in D |-> OfSeries(G, s)] BY DEF GroupBy, OfSeries
<1> HIDE DEF gr
<1>3. DOMAIN gr = D /\ \A s \in D : seriesDeltaExpr(gr[s]) = h(s) BY <1>2
<1> HIDE DEF h, D
<1>4. ASSUME NEW g PROVE B(g) = Adds(F, D, g)
  <2>1. \A s \in SUBSET D : s # {} => (CHOOSE x \in s : TRUE) \in D OBVIOUS
  <2> QED BY <1>3, <2>1 DEF Adds
<1> HIDE DEF B
<1>5. (CHOOSE g : g = B(g)) = (CHOOSE g : g = Adds(F, D, g))
  BY <1>4
<1>6. Rise(G) = SumOf(F, D) BY <1>1, <1>3, <1>5 DEF SumOf
<1>7. D \subseteq {a, b} BY DEF D
<1>8. a \in D <=> OfSeries(G, a) # {} BY DEF D, OfSeries
<1>9. b \in D <=> OfSeries(G, b) # {} BY DEF D, OfSeries
<1>10. (a \in D => F[a] = u) /\ (b \in D => F[b] = v) BY <1>8, <1>9 DEF h
<1>11. (a \notin D => u = 0) /\ (b \notin D => v = 0) BY <1>8, <1>9
<1>12. \A x \in D : F[x] \in Nat BY <1>7, <1>10
<1> HIDE DEF F
<1>13. SumOf(F, D) = (IF a \in D THEN F[a] ELSE 0) + (IF b \in D THEN F[b] ELSE 0)
  BY <1>7, <1>12, SumOfTwo
<1>14. QED BY <1>6, <1>10, <1>11, <1>13

\* The readings of a series that rises and falls by no more than this differ by
\* no more than this.
LEMMA DeltaBound ==
    ASSUME NEW S, S # {}, \A x \in S : x.at \in Nat /\ x.value \in Nat,
           NEW up \in Nat, NEW down \in Nat,
           \A x \in S : \A y \in S : x.at <= y.at => Between(x.value, y.value, up, down)
    PROVE  seriesDeltaExpr(S) \in Nat /\ seriesDeltaExpr(S) <= up + down
<1> DEFINE V == {x.value : x \in S}
<1>1. V \subseteq Nat /\ V # {} OBVIOUS
<1>2. \A v \in V : \A w \in V : v <= w + up \/ v <= w + down
  <2>1. SUFFICES ASSUME NEW x \in S, NEW y \in S
                 PROVE  x.value <= y.value + up \/ x.value <= y.value + down
    OBVIOUS
  <2>2. x.at \in Nat /\ y.at \in Nat OBVIOUS
  <2>3. x.at <= y.at \/ y.at <= x.at BY <2>2
  <2>4. QED BY <2>3 DEF Between
<1>3. seriesDeltaExpr(S) = Max(V) - Min(V) BY DEF seriesDeltaExpr
<1> HIDE DEF V
<1>4. PICK lo \in V : \A y \in V : lo <= y BY <1>1, LeastNatural
<1>5. PICK v \in V : v \in Nat BY <1>1
<1> DEFINE top == v + up + down
           D == {top - w : w \in V}
<1>6. \A w \in V : w \in Nat /\ w <= top BY <1>1, <1>2, <1>5
<1>7. top \in Nat BY <1>5
<1> HIDE DEF top
<1>8. D \subseteq Nat /\ D # {} BY <1>1, <1>6, <1>7
<1>9. PICK d \in D : \A y \in D : d <= y BY <1>8, LeastNatural
<1>10. PICK hi \in V : d = top - hi BY <1>9
<1>11. \A y \in V : hi >= y
  <2>1. ASSUME NEW y \in V PROVE hi >= y
    <3>1. top - hi <= top - y BY <1>9, <1>10
    <3>2. hi \in Nat /\ y \in Nat BY <1>6
    <3>3. QED BY <1>7, <3>1, <3>2
  <2>2. QED BY <2>1
<1> HIDE DEF D
<1>12. Min(V) \in V /\ \A y \in V : Min(V) <= y BY <1>4 DEF Min
<1>13. Max(V) \in V /\ \A y \in V : Max(V) >= y BY <1>11 DEF Max
<1>14. PICK a \in Nat : a = Min(V) BY <1>1, <1>12
<1>15. PICK b \in Nat : b = Max(V) BY <1>1, <1>13
<1>16. a <= b /\ (b <= a + up \/ b <= a + down) BY <1>2, <1>12, <1>13, <1>14, <1>15
<1>17. QED BY <1>3, <1>14, <1>15, <1>16

\* A point that a scrape of r has made of the calls under p.
MadeBy(x, r, p) ==
    /\ x.metric = "istio_requests" /\ x.series = <<r, p>> /\ x.reporter = r /\ x.policy = Label(r, p)
    /\ x.src = 1 /\ x.dst = Destination

Delta(ps, r, p) ==
    IF OfSeries(ps, <<r, p>>) = {} THEN 0 ELSE seriesDeltaExpr(OfSeries(ps, <<r, p>>))

\* What r's points show under a label, and their rise.
Shown(ps, r, l) ==
    (IF Label(r, "mutual_tls") = l THEN Delta(ps, r, "mutual_tls") ELSE 0)
    + (IF Label(r, "none") = l THEN Delta(ps, r, "none") ELSE 0)
Labelled(ps, r, l) == {x \in ps : x.reporter = r /\ x.policy = l}

\* What is shown under a label is a number.
LEMMA ShownType ==
    ASSUME NEW ps, NEW r, \A p \in Policies : Delta(ps, r, p) \in Nat, NEW l
    PROVE  Shown(ps, r, l) \in Nat
<1>1. Delta(ps, r, "mutual_tls") \in Nat /\ Delta(ps, r, "none") \in Nat BY DEF Policies
<1>2. QED BY <1>1 DEF Shown

\* The rise of what a reporter has labelled so, if it has labelled anything.
LEMMA LabelledRise ==
    ASSUME NEW ps, \A x \in ps : \E r \in Reporters, p \in Policies : MadeBy(x, r, p),
           NEW R \in Reporters, \A p \in Policies : Delta(ps, R, p) \in Nat, NEW l
    PROVE  /\ Rise(Labelled(ps, R, l)) = Shown(ps, R, l)
           /\ Labelled(ps, R, l) = {} => Shown(ps, R, l) = 0
<1> DEFINE G == Labelled(ps, R, l)
           In(p) == OfSeries(G, <<R, p>>)
           d(p) == IF Label(R, p) = l THEN Delta(ps, R, p) ELSE 0
<1>1. ASSUME NEW x \in G PROVE \E p \in Policies : x.series = <<R, p>>
  <2>1. PICK r \in Reporters, p \in Policies : MadeBy(x, r, p) BY <1>1 DEF Labelled
  <2>2. QED BY <2>1, <1>1 DEF Labelled, MadeBy
<1>2. ASSUME NEW p \in Policies
      PROVE  In(p) = IF Label(R, p) = l THEN OfSeries(ps, <<R, p>>) ELSE {}
  <2>1. ASSUME NEW x \in ps, x.series = <<R, p>> PROVE x.reporter = R /\ x.policy = Label(R, p)
    <3>1. PICK r \in Reporters, u \in Policies : MadeBy(x, r, u) OBVIOUS
    <3>2. r = R /\ u = p BY <2>1, <3>1 DEF MadeBy
    <3>3. QED BY <3>1, <3>2 DEF MadeBy
  <2>2. QED BY <2>1 DEF Labelled, OfSeries
<1>3. ASSUME NEW p \in Policies
      PROVE  d(p) \in Nat /\ d(p) = (IF In(p) = {} THEN 0 ELSE seriesDeltaExpr(In(p)))
  <2>1. Delta(ps, R, p) \in Nat OBVIOUS
  <2>2. CASE Label(R, p) = l BY <1>2, <2>1, <2>2 DEF Delta
  <2>3. CASE Label(R, p) # l BY <1>2, <2>3
  <2>4. QED BY <2>2, <2>3
<1>4. \A x \in G : x.series \in {<<R, "mutual_tls">>, <<R, "none">>} BY <1>1 DEF Policies
<1>5. <<R, "mutual_tls">> # <<R, "none">> OBVIOUS
<1>6. Shown(ps, R, l) = d("mutual_tls") + d("none") BY DEF Shown
<1>7. "mutual_tls" \in Policies /\ "none" \in Policies BY DEF Policies
<1>8. G = {} => In("mutual_tls") = {} /\ In("none") = {} BY DEF OfSeries
<1> HIDE DEF G, d
<1>9. Rise(G) = d("mutual_tls") + d("none")
  <2>1. PICK a, b : a = <<R, "mutual_tls">> /\ b = <<R, "none">> OBVIOUS
  <2>2. PICK u, v : u = d("mutual_tls") /\ v = d("none") OBVIOUS
  <2>3. u \in Nat /\ v \in Nat BY <1>3, <1>7, <2>2
  <2>4. u = IF OfSeries(G, a) = {} THEN 0 ELSE seriesDeltaExpr(OfSeries(G, a))
    BY <1>3, <1>7, <2>1, <2>2
  <2>5. v = IF OfSeries(G, b) = {} THEN 0 ELSE seriesDeltaExpr(OfSeries(G, b))
    BY <1>3, <1>7, <2>1, <2>2
  <2>6. a # b /\ \A x \in G : x.series \in {a, b} BY <1>4, <1>5, <2>1
  <2>7. Rise(G) = u + v BY <2>3, <2>4, <2>5, <2>6, RiseOfTwo
  <2>8. QED BY <2>2, <2>7
<1> HIDE DEF In
<1>10. G = {} => d("mutual_tls") = 0 /\ d("none") = 0 BY <1>3, <1>7, <1>8
<1>11. QED BY <1>6, <1>9, <1>10 DEF G

\* The key of a point, and the row of the traffic that r has labelled so.
KeyOf(p) == [metric |-> p.metric, reporter |-> p.reporter, src |-> p.src, dst |-> p.dst, policy |-> p.policy]
Key(r, l) == [metric |-> "istio_requests", reporter |-> r, src |-> 1, dst |-> Destination, policy |-> l]
RowOf(ps, r, l) == [k |-> Key(r, l), n |-> Rise(Labelled(ps, r, l))]

RowsOf(ps) == {RowOf(ps, x.reporter, x.policy) : x \in ps}
RowsOfGroups(g) == {[k |-> k, n |-> Rise(g[k])] : k \in DOMAIN g}

\* Rows of different reporters or policies have different keys.
LEMMA KeysDiffer == \A a, b, c, e : Key(a, b) = Key(c, e) <=> a = c /\ b = e
<1> TAKE a, b, c, e
<1>1. Key(a, b).reporter = a /\ Key(a, b).policy = b /\ Key(c, e).reporter = c /\ Key(c, e).policy = e BY DEF Key
<1>2. QED BY <1>1

\* preferReporter ranks no two kinds of reporter alike.
LEMMA Ranked ==
    /\ \A r : reporterRank(r) \in Nat
    /\ \A r, s \in Reporters : reporterRank(r) = reporterRank(s) => r = s
<1>1. \A r \in {"source", "destination", "waypoint"} :
         reporterRank(r) = IF r = "destination" THEN 0 ELSE IF r = "waypoint" THEN 1 ELSE 2
  BY DEF reporterRank
<1>2. \A r : reporterRank(r) \in Nat BY DEF reporterRank
<1>3. Reporters \subseteq {"source", "destination", "waypoint"} BY TelemetryAssumption
<1>4. QED BY <1>1, <1>2, <1>3

\* meshTrafficRows has a row for every reporter and label that has points.
LEMMA TrafficRows ==
    ASSUME NEW ps, \A x \in ps : \E r \in Reporters, p \in Policies : MadeBy(x, r, p),
           NEW g, g = [k \in {KeyOf(x) : x \in ps} |-> {x \in ps : KeyOf(x) = k}]
    PROVE  RowsOfGroups(g) = RowsOf(ps)
<1>1. ASSUME NEW x \in ps
      PROVE  KeyOf(x) = Key(x.reporter, x.policy)
  <2>1. PICK r \in Reporters, p \in Policies : MadeBy(x, r, p) OBVIOUS
  <2>2. QED BY <2>1 DEF MadeBy, KeyOf, Key
<1>2. ASSUME NEW x \in ps PROVE {y \in ps : KeyOf(y) = KeyOf(x)} = Labelled(ps, x.reporter, x.policy)
  <2>1. ASSUME NEW y \in ps PROVE KeyOf(y) = KeyOf(x) <=> y.reporter = x.reporter /\ y.policy = x.policy
    <3>1. KeyOf(y) = Key(y.reporter, y.policy) /\ KeyOf(x) = Key(x.reporter, x.policy) BY <1>1
    <3>2. QED BY <3>1, KeysDiffer
  <2>2. QED BY <2>1 DEF Labelled
<1>3. \A x \in ps : g[KeyOf(x)] = Labelled(ps, x.reporter, x.policy) BY <1>2
<1> DEFINE H(k) == [k |-> k, n |-> Rise(g[k])]
           R(x) == RowOf(ps, x.reporter, x.policy)
<1>4. ASSUME NEW x \in ps PROVE H(KeyOf(x)) = R(x)
  BY <1>1, <1>3 DEF RowOf
<1>5. PICK D : D = DOMAIN g /\ D = {KeyOf(x) : x \in ps} OBVIOUS
<1> HIDE DEF H, R
<1>6. {H(k) : k \in D} = {R(x) : x \in ps}
  <2>1. ASSUME NEW h \in {H(k) : k \in D} PROVE h \in {R(x) : x \in ps}
    <3>1. PICK k \in D : h = H(k) OBVIOUS
    <3>2. PICK x \in ps : k = KeyOf(x) BY <1>5
    <3>3. QED BY <1>4, <3>1, <3>2
  <2>2. ASSUME NEW x \in ps PROVE R(x) \in {H(k) : k \in D}
    <3>1. KeyOf(x) \in D BY <1>5
    <3>2. QED BY <1>4, <3>1
  <2>3. QED BY <2>1, <2>2
<1>7. RowsOfGroups(g) = {H(k) : k \in D} BY <1>5 DEF H, RowsOfGroups
<1>8. RowsOf(ps) = {R(x) : x \in ps} BY DEF R, RowsOf
<1>9. QED BY <1>6, <1>7, <1>8

\* A workload is shown what one of the proxies has counted.
LEMMA OneReporter ==
    ASSUME NEW ps, \A x \in ps : \E r \in Reporters, p \in Policies : MadeBy(x, r, p),
           \A r \in Reporters, p \in Policies : Delta(ps, r, p) \in Nat,
           NEW rows, rows = RowsOf(ps),
           NEW w \in preferReporter(rows)
    PROVE  \E R \in Reporters :
              /\ w.mtls = Shown(ps, R, "mutual_tls") /\ w.plain = Shown(ps, R, "none")
              /\ w.unknown = Shown(ps, R, "unknown")
<1> DEFINE Row(r, l) == RowOf(ps, r, l)
<1>1. ASSUME NEW x \in ps
      PROVE  /\ x.reporter \in Reporters
             /\ x.policy \in {"mutual_tls", "none", "unknown"}
  <2>1. PICK r \in Reporters, p \in Policies : MadeBy(x, r, p) OBVIOUS
  <2>2. QED BY <2>1 DEF MadeBy, Label, Policies
<1>4. rows = {Row(x.reporter, x.policy) : x \in ps} BY DEF RowsOf
<1>5. \A r, l : /\ Row(r, l).k.reporter = r /\ Row(r, l).k.policy = l /\ Row(r, l).k.dst = Destination
                /\ Row(r, l).n = Rise(Labelled(ps, r, l))
  BY DEF RowOf, Key
<1> HIDE DEF Row
<1>6. ASSUME NEW s \in rows
      PROVE  /\ s.k.reporter \in Reporters /\ s.k.dst = Destination
             /\ \E x \in ps : s = Row(x.reporter, x.policy)
  <2>1. PICK x \in ps : s = Row(x.reporter, x.policy) BY <1>4, <1>6
  <2>2. QED BY <1>1, <1>5, <2>1
<1>7. (\A r : reporterRank(r) \in Nat) /\ \A r, s \in Reporters : reporterRank(r) = reporterRank(s) => r = s
  BY Ranked
<1> DEFINE Best(d) == Min({reporterRank(r.k.reporter) : r \in {s \in rows : s.k.dst = d}})
           Mine(d) == {r \in rows : r.k.dst = d /\ reporterRank(r.k.reporter) = Best(d)}
<1>8. PICK d \in {r.k.dst : r \in rows} :
         w = [dst |-> d, mtls |-> addCounts(Mine(d), "mutual_tls"), plain |-> addCounts(Mine(d), "none"),
              unknown |-> addCounts(Mine(d), "unknown")]
  BY DEF preferReporter
<1>9. PICK R \in Reporters : Mine(d) = {r \in rows : r.k.reporter = R}
  <2>1. PICK t \in rows : t.k.dst = d BY <1>8
  <2>2. {s \in rows : s.k.dst = d} = rows BY <1>6, <2>1
  <2> DEFINE Ranks == {reporterRank(r.k.reporter) : r \in rows}
  <2>3. Best(d) = Min(Ranks) BY <2>2
  <2>4. Ranks \subseteq Nat /\ Ranks # {} BY <1>6, <1>7, <2>1
  <2> HIDE DEF Ranks
  <2>5. PICK lo \in Ranks : \A y \in Ranks : lo <= y BY <2>4, LeastNatural
  <2>6. Min(Ranks) \in Ranks BY <2>5 DEF Min
  <2>7. PICK s \in rows : Best(d) = reporterRank(s.k.reporter) BY <2>3, <2>6 DEF Ranks
  <2>8. s.k.reporter \in Reporters BY <1>6
  <2> HIDE DEF Best
  <2>9. Mine(d) = {r \in rows : r.k.reporter = s.k.reporter}
    <3>1. ASSUME NEW r \in rows
          PROVE  (r.k.dst = d /\ reporterRank(r.k.reporter) = Best(d)) <=> r.k.reporter = s.k.reporter
      <4>1. r.k.dst = d /\ r.k.reporter \in Reporters BY <1>6, <2>1
      <4>2. QED BY <1>7, <2>7, <2>8, <4>1
    <3>2. QED BY <3>1
  <2>10. QED BY <2>8, <2>9
<1>10. ASSUME NEW l \in {"mutual_tls", "none", "unknown"} PROVE addCounts(Mine(d), l) = Shown(ps, R, l)
  <2>1. PICK a : a = Row(R, l) OBVIOUS
  <2>2. a.n = Rise(Labelled(ps, R, l)) BY <1>5, <2>1
  <2>3. Rise(Labelled(ps, R, l)) = Shown(ps, R, l) /\ (Labelled(ps, R, l) = {} => Shown(ps, R, l) = 0)
    BY LabelledRise
  <2>30. \A p \in Policies : Delta(ps, R, p) \in Nat OBVIOUS
  <2>4. a.n = Shown(ps, R, l) /\ a.n \in Nat BY <2>2, <2>3, <2>30, ShownType
  <2>5. PICK M : M = Mine(d) OBVIOUS
  <2>6. PICK S : S = RowsUnder(M, l) OBVIOUS
  <2>7. ASSUME NEW s \in S PROVE s = a
    <3>1. s \in rows /\ s.k.reporter = R BY <1>9, <2>5, <2>6, <2>7 DEF RowsUnder
    <3>2. PICK x \in ps : s = Row(x.reporter, x.policy) BY <1>6, <3>1
    <3>3. x.policy \in {"mutual_tls", "none", "unknown"} BY <1>1
    <3>4. x.reporter = R /\ s.k.policy = x.policy BY <1>5, <3>1, <3>2
    <3>5. s.k.policy = l BY <2>6, <2>7, <3>3, <3>4 DEF RowsUnder
    <3>6. QED BY <2>1, <3>2, <3>4, <3>5
  <2>8. ASSUME S = {} PROVE Labelled(ps, R, l) = {}
    <3>1. SUFFICES ASSUME NEW x \in Labelled(ps, R, l) PROVE FALSE OBVIOUS
    <3>2. x \in ps /\ x.reporter = R /\ x.policy = l BY DEF Labelled
    <3>3. a \in rows BY <1>4, <2>1, <3>2
    <3>4. a.k.reporter = R /\ a.k.policy = l BY <1>5, <2>1
    <3>5. a \in M BY <1>9, <2>5, <3>3, <3>4
    <3>6. a \in S BY <2>6, <3>4, <3>5 DEF RowsUnder
    <3>7. QED BY <2>8, <3>6
  <2>9. S \subseteq {a} BY <2>7
  <2>10. addCounts(M, l) = IF S = {} THEN 0 ELSE a.n BY <2>4, <2>6, <2>9, OneRow
  <2>11. QED BY <2>3, <2>4, <2>5, <2>8, <2>10
<1> HIDE DEF Mine
<1>11. /\ w.mtls = addCounts(Mine(d), "mutual_tls") /\ w.plain = addCounts(Mine(d), "none")
       /\ w.unknown = addCounts(Mine(d), "unknown")
  BY <1>8
<1>12. QED BY <1>10, <1>11

\* What one series of a reporter shows: no more than what was called, and lost.
LEMMA DeltasBounded ==
    ASSUME MeshInv, NEW from \in 0 .. now, NEW ps,
           \A x \in ps : x \in points /\ x.metric \in MeshMetrics /\ from <= x.at,
           NEW L \in Ledgers, Follows(L, counter, calls, points, now),
           NEW r \in Reporters, NEW p \in Policies
    PROVE  /\ Delta(ps, r, p) \in Nat
           /\ Delta(ps, r, p) <= Called(calls, p, from, now) + SumOf(L[r][p], from .. now)
           /\ Delta(ps, r, p) > 0 => Called(calls, p, 0, now) > 0
<1> DEFINE S == OfSeries(ps, <<r, p>>)
           C(s) == Called(calls, p, s, now)
           E(s) == SumOf(L[r][p], s .. now)
<1>1. now \in Nat /\ now <= MaxNow /\ now \in Times /\ calls \in [Times -> [Policies -> Nat]]
  BY TelemetryAssumption DEF MeshInv, MeshShape, Times
<1>2. ASSUME NEW x \in S
      PROVE  x \in SeriesOf(points, r, p) /\ x.at \in 0 .. now /\ from <= x.at /\ x.value \in Nat /\ x.at \in Nat
  <2>1. x \in SeriesOf(points, r, p) /\ from <= x.at BY <1>2 DEF OfSeries, SeriesOf
  <2>2. x.at \in 0 .. now /\ x.value \in Nat BY <2>1, PointInSeries DEF MeshInv
  <2>3. x.at \in Nat BY <2>2
  <2>4. QED BY <2>1, <2>2, <2>3
<1>3. ASSUME NEW s \in Nat, from <= s
      PROVE  C(s) \in Nat /\ E(s) \in Nat /\ C(s) <= C(from) /\ E(s) <= E(from) /\ C(from) \in Nat /\ E(from) \in Nat
  <2>1. from \in Nat /\ IsFiniteSet(from .. now) /\ s .. now \in SUBSET (from .. now)
        /\ \A u \in from .. now : u \in Times
    BY <1>1, <1>3, TimesFinite, WithinTimes
  <2>2. C(s) \in Nat /\ C(from) \in Nat BY <1>1, <2>1, CalledType
  <2>3. E(s) \in Nat /\ E(from) \in Nat BY <1>1, <2>1, LedgerType
  <2>4. C(s) <= C(from)
    <3>1. PICK F : F = [u \in Times |-> calls[u][p]] OBVIOUS
    <3>2. \A u \in from .. now : F[u] \in Nat BY <1>1, <2>1, <3>1
    <3>3. SumOf(F, s .. now) <= SumOf(F, from .. now) BY <2>1, <3>2, SumGrows
    <3>4. QED BY <3>1, <3>3 DEF Called
  <2>5. E(s) <= E(from)
    <3>1. PICK F : F = L[r][p] OBVIOUS
    <3>2. \A u \in Times : F[u] \in Nat BY <3>1 DEF Ledgers
    <3>3. SumOf(F, s .. now) <= SumOf(F, from .. now) BY <2>1, <3>2, SumGrows
    <3>4. QED BY <3>1, <3>3
  <2>6. QED BY <2>2, <2>3, <2>4, <2>5
<1>4. ASSUME NEW x \in S, NEW y \in S, x.at <= y.at
      PROVE  Between(x.value, y.value, C(from), E(from))
  <2>1. Between(x.value, y.value, C(x.at), E(x.at)) BY <1>2, <1>4 DEF Follows
  <2>2. PICK s \in Nat : s = x.at /\ from <= s BY <1>2
  <2>3. C(s) \in Nat /\ E(s) \in Nat /\ C(s) <= C(from) /\ E(s) <= E(from) /\ C(from) \in Nat /\ E(from) \in Nat
    BY <1>3, <2>2
  <2>4. Between(x.value, y.value, C(s), E(s)) BY <2>1, <2>2
  <2>5. x.value \in Nat /\ y.value \in Nat BY <1>2
  <2> HIDE DEF C, E
  <2>6. QED BY <2>3, <2>4, <2>5 DEF Between
<1>5. C(from) \in Nat /\ E(from) \in Nat BY <1>1, <1>3
<1>6. CASE S = {} BY <1>5, <1>6 DEF Delta
<1>7. CASE S # {}
  <2>1. Delta(ps, r, p) = seriesDeltaExpr(S) BY <1>7 DEF Delta
  <2>2. PICK x \in S : TRUE BY <1>7
  <2>3. Called(calls, p, 0, now) > 0 BY <1>2, <2>2 DEF MeshInv, OnlyCalled
  <2>4. PICK T, u, d : T = S /\ u = C(from) /\ d = E(from) OBVIOUS
  <2> HIDE DEF S, C, E
  <2>5. \A z \in T : z.at \in Nat /\ z.value \in Nat BY <1>2, <2>4
  <2>6. \A z \in T : \A y \in T : z.at <= y.at => Between(z.value, y.value, u, d) BY <1>4, <2>4
  <2>7. u \in Nat /\ d \in Nat /\ T # {} BY <1>5, <1>7, <2>4
  <2>8. seriesDeltaExpr(T) \in Nat /\ seriesDeltaExpr(T) <= u + d BY <2>5, <2>6, <2>7, DeltaBound
  <2>9. QED BY <2>1, <2>3, <2>4, <2>8 DEF C, E
<1>8. QED BY <1>6, <1>7

\* The finding needs plaintext.
LEMMA FindingNeedsPlaintext ==
    ASSUME NEW a \in Nat, NEW b \in Nat, NEW c \in Nat,
           decorate([dataplane |-> "ambient", mode |-> "STRICT", traffic |-> "yes"],
                    [mtlsReq |-> a, plainReq |-> b, unkReq |-> c, mtlsConn |-> 0, plainConn |-> 0, unkConn |-> 0],
                    "yes")[1] = "declared-strict-observed-plaintext"
    PROVE  b > 0
<1> DEFINE sec == [mtlsReq |-> a, plainReq |-> b, unkReq |-> c, mtlsConn |-> 0, plainConn |-> 0, unkConn |-> 0]
           o == IF sec = None THEN None ELSE observe(sec)
           in == [obs |-> o, declared |-> "yes", dataplane |-> "ambient", mode |-> "STRICT", traffic |-> "yes"]
<1>1. observe(sec) = [mtls |-> a, plaintext |-> b, unknown |-> c] BY DEF observe
<1>2. posture(in)[1] = "declared-strict-observed-plaintext" BY DEF decorate
<1> HIDE DEF sec
<1>3. CASE o = None BY <1>2, <1>3 DEF posture
<1>4. CASE o # None
  <2>1. o = [mtls |-> a, plaintext |-> b, unknown |-> c] BY <1>1, <1>4
  <2> HIDE DEF o
  <2>2. o.mtls = a /\ o.plaintext = b /\ o.unknown = c BY <2>1
  <2>3. CASE a + b + c = 0 BY <1>2, <1>4, <2>2, <2>3 DEF posture
  <2>4. CASE a + b + c > 0
    <3>1. SUFFICES ASSUME ~(b > 0) PROVE FALSE OBVIOUS
    <3>2. posture(in) = <<IF a > 0 THEN "strict-and-mtls" ELSE "unknown", None>>
      BY <1>4, <2>2, <2>4, <3>1 DEF posture
    <3>3. QED BY <1>2, <3>2
  <2>5. QED BY <2>3, <2>4
<1>5. QED BY <1>3, <1>4

\* The beginning of a second is not after it.
LEMMA SecondBegins ==
    ASSUME NEW t \in Nat
    PROVE  Bound(t) \in 0 .. t
<1>1. Second \in Nat /\ Second > 0 BY SecondAssumption
<1>2. PICK s \in Nat : s = Second /\ s > 0 BY <1>1
<1>3. t % s \in 0 .. s - 1 BY <1>2
<1>4. t % s <= t
  <2>1. CASE t < s BY <1>2, <2>1
  <2>2. CASE t >= s BY <1>2, <1>3, <2>2
  <2>3. QED BY <1>2, <2>1, <2>2
<1>5. PICK r \in Int : r = t % s BY <1>3
<1>6. Bound(t) = t - r BY <1>2, <1>5 DEF Bound
<1>7. QED BY <1>2, <1>3, <1>4, <1>5, <1>6

\* A query reads nothing before the second in which its window begins.
LEMMA WindowRows ==
    ASSUME NEW start \in Nat, NEW end \in Nat, NEW q,
           q = [Ask(Cluster) EXCEPT !.start = start, !.end = end]
    PROVE  \A x \in Scan(points, q) : x \in points /\ Bound(start) <= x.at
<1>1. {"start", "end"} \subseteq DOMAIN Ask(Cluster)
  <2>1. (CHOOSE a \in Asks : TRUE) \in Asks BY TelemetryAssumption
  <2>2. PICK b : b = (CHOOSE a \in Asks : TRUE).q OBVIOUS
  <2>3. {"start", "end"} \subseteq DOMAIN b BY <2>1, <2>2, TelemetryAssumption DEF AskFields
  <2>4. QED BY <2>2, <2>3 DEF Ask
<1>2. PICK A : A = Ask(Cluster) OBVIOUS
<1>3. q.start = start BY <1>1, <1>2
<1>4. QED BY <1>3 DEF Scan

\* The state predicate follows from the invariant.
LEMMA NothingPhantom == ASSUME MeshInv PROVE NoPhantomTraffic
<1> DEFINE m == "mutual_tls"
           n == "none"
<1>0. m \in Policies /\ n \in Policies BY DEF Policies
<1>1. now \in Nat /\ now <= MaxNow /\ now \in Times /\ lost \in [Times -> Nat]
  BY TelemetryAssumption DEF MeshInv, MeshShape, Times
<1>2. PICK L \in Ledgers : Ledger(L) /\ Follows(L, counter, calls, points, now)
  BY DEF MeshInv, CountsFollow
<1> SUFFICES ASSUME NEW start \in 0 .. now, NEW from, from = Bound(start),
                    NEW q, q = [Ask(Cluster) EXCEPT !.start = start, !.end = now + 1],
                    NEW w \in MeshSecurity({}, points, q, 0).workloads
             PROVE  /\ w.mtls + w.plain + w.unknown <= CallsIn(from, now, m) + CallsIn(from, now, n) + LostIn(from, now)
                    /\ decorate([dataplane |-> "ambient", mode |-> "STRICT", traffic |-> "yes"],
                                [mtlsReq |-> w.mtls, plainReq |-> w.plain, unkReq |-> w.unknown,
                                 mtlsConn |-> 0, plainConn |-> 0, unkConn |-> 0], "yes")[1]
                           = "declared-strict-observed-plaintext"
                         => CallsIn(0, now, n) > 0
  BY DEF NoPhantomTraffic
<1>a. from \in 0 .. now
  <2>1. start \in Nat OBVIOUS
  <2>2. Bound(start) \in 0 .. start BY <2>1, SecondBegins
  <2>3. QED BY <1>1, <2>2
<1> DEFINE ps == {x \in Of(points, q, {"istio_requests", "istio_tcp"}) : x.dst # Empty}
           rows == RowsOf(ps)
<1>3. \A x \in ps : x \in points /\ x.metric \in MeshMetrics /\ from <= x.at
  <2>1. PICK end \in Nat : end = now + 1 BY <1>1
  <2>2. q = [Ask(Cluster) EXCEPT !.start = start, !.end = end] /\ start \in Nat BY <2>1
  <2>3. \A x \in Scan(points, q) : x \in points /\ from <= x.at BY <2>1, <2>2, WindowRows
  <2>4. QED BY <2>3 DEF Of, MeshMetrics
<1>4. \A x \in ps : \E r \in Reporters, p \in Policies : MadeBy(x, r, p)
  BY <1>3 DEF MeshInv, MeshShape, MadeBy
<1>5. \A r \in Reporters, p \in Policies :
         /\ Delta(ps, r, p) \in Nat
         /\ Delta(ps, r, p) <= Called(calls, p, from, now) + SumOf(L[r][p], from .. now)
         /\ Delta(ps, r, p) > 0 => Called(calls, p, 0, now) > 0
  <2> HIDE DEF ps
  <2>1. QED BY <1>2, <1>3, <1>a, DeltasBounded
<1>6. w \in preferReporter(rows)
  <2>1. PICK g : g = [k \in {KeyOf(x) : x \in ps} |-> {x \in ps : KeyOf(x) = k}] OBVIOUS
  <2>2. meshTrafficRows(points, q) = RowsOfGroups(g)
    BY <2>1 DEF meshTrafficRows, GroupBy, KeyOf, RowsOfGroups
  <2>3. w \in preferReporter(meshTrafficRows(points, q)) BY DEF MeshSecurity
  <2> HIDE DEF ps
  <2>4. meshTrafficRows(points, q) = rows BY <1>4, <2>1, <2>2, TrafficRows
  <2>5. QED BY <2>3, <2>4
<1>7. PICK R \in Reporters : /\ w.mtls = Shown(ps, R, m) /\ w.plain = Shown(ps, R, n)
                             /\ w.unknown = Shown(ps, R, "unknown")
  <2> HIDE DEF ps
  <2>1. QED BY <1>4, <1>5, <1>6, OneReporter
<1> HIDE DEF ps
<1>8. /\ w.mtls \in Nat /\ w.plain \in Nat /\ w.unknown \in Nat
      /\ w.mtls + w.plain + w.unknown = Delta(ps, R, m) + Delta(ps, R, n)
      /\ w.plain > 0 => Delta(ps, R, n) > 0
  <2>1. PICK a \in Nat : a = Delta(ps, R, m) BY <1>0, <1>5
  <2>2. PICK b \in Nat : b = Delta(ps, R, n) BY <1>0, <1>5
  <2>3. \A l : Shown(ps, R, l) = (IF Label(R, m) = l THEN a ELSE 0) + (IF Label(R, n) = l THEN b ELSE 0)
    BY <2>1, <2>2 DEF Shown
  <2>4. CASE R = "destination"
    <3>1. Label(R, m) = m /\ Label(R, n) = n BY <2>4 DEF Label
    <3>2. w.mtls = a /\ w.plain = b /\ w.unknown = 0 BY <1>7, <2>3, <3>1
    <3>3. QED BY <2>1, <2>2, <3>2
  <2>5. CASE R # "destination"
    <3>1. Label(R, m) = "unknown" /\ Label(R, n) = "unknown" BY <2>5 DEF Label
    <3>2. w.mtls = 0 /\ w.plain = 0 /\ w.unknown = a + b BY <1>7, <2>3, <3>1
    <3>3. QED BY <2>1, <2>2, <3>2
  <2>6. QED BY <2>4, <2>5
<1>9. /\ CallsIn(from, now, m) = Called(calls, m, from, now) /\ CallsIn(from, now, n) = Called(calls, n, from, now)
      /\ CallsIn(0, now, n) = Called(calls, n, 0, now)
  <2>1. from \in Nat /\ 0 \in Nat /\ from .. now \subseteq Times /\ 0 .. now \subseteq Times BY <1>1, <1>a, WithinTimes
  <2>2. QED BY <2>1, CallsSum
<1>10. LostIn(from, now) = SumOf(lost, from .. now) BY LostSum
<1>11. SumOf(L[R][m], from .. now) + SumOf(L[R][n], from .. now) <= SumOf(lost, from .. now)
  <2>1. PICK F, H : F = L[R][m] /\ H = L[R][n] OBVIOUS
  <2>2. \A u \in Times : F[u] \in Nat /\ H[u] \in Nat BY <1>0, <2>1 DEF Ledgers
  <2>3. \A u \in Times : F[u] + H[u] <= lost[u] /\ lost[u] \in Nat BY <1>1, <1>2, <2>1 DEF Ledger
  <2>4. from \in Nat BY <1>a
  <2>5. IsFiniteSet(from .. now) /\ \A u \in from .. now : u \in Times BY <1>1, <2>4, TimesFinite, WithinTimes
  <2>6. SumOf(F, from .. now) + SumOf(H, from .. now) <= SumOf(lost, from .. now)
    BY <2>2, <2>3, <2>5, SumBound
  <2>7. QED BY <2>1, <2>6
<1>12. w.mtls + w.plain + w.unknown <= CallsIn(from, now, m) + CallsIn(from, now, n) + LostIn(from, now)
  <2>1. from \in Nat BY <1>a
  <2>2. PICK c, d : c = Called(calls, m, from, now) /\ d = Called(calls, n, from, now) OBVIOUS
  <2>3. PICK e, f, g : /\ e = SumOf(L[R][m], from .. now) /\ f = SumOf(L[R][n], from .. now)
                       /\ g = SumOf(lost, from .. now)
    OBVIOUS
  <2>4. c \in Nat /\ d \in Nat BY <1>0, <1>1, <2>1, <2>2, CalledType DEF MeshInv, MeshShape
  <2>5. e \in Nat /\ f \in Nat BY <1>0, <1>1, <2>1, <2>3, LedgerType
  <2>6. g \in Nat
    <3>1. IsFiniteSet(from .. now) /\ \A u \in from .. now : u \in Times BY <1>1, <2>1, TimesFinite, WithinTimes
    <3>2. \A u \in from .. now : lost[u] \in Nat BY <1>1, <3>1
    <3>3. QED BY <2>3, <3>1, <3>2, SumType
  <2>7. Delta(ps, R, m) \in Nat /\ Delta(ps, R, n) \in Nat /\ Delta(ps, R, m) <= c + e /\ Delta(ps, R, n) <= d + f
    BY <1>0, <1>5, <2>2, <2>3
  <2>8. e + f <= g BY <1>11, <2>3
  <2>9. PICK a, b \in Nat : a = Delta(ps, R, m) /\ b = Delta(ps, R, n) BY <2>7
  <2>10. a + b <= c + d + g BY <2>4, <2>5, <2>6, <2>7, <2>8, <2>9
  <2>11. QED BY <1>8, <1>9, <1>10, <2>2, <2>3, <2>9, <2>10
<1>13. ASSUME decorate([dataplane |-> "ambient", mode |-> "STRICT", traffic |-> "yes"],
                       [mtlsReq |-> w.mtls, plainReq |-> w.plain, unkReq |-> w.unknown,
                        mtlsConn |-> 0, plainConn |-> 0, unkConn |-> 0], "yes")[1]
                  = "declared-strict-observed-plaintext"
       PROVE  CallsIn(0, now, n) > 0
  <2>1. PICK a, b, c : a = w.mtls /\ b = w.plain /\ c = w.unknown OBVIOUS
  <2>2. a \in Nat /\ b \in Nat /\ c \in Nat BY <1>8, <2>1
  <2>3. decorate([dataplane |-> "ambient", mode |-> "STRICT", traffic |-> "yes"],
                 [mtlsReq |-> a, plainReq |-> b, unkReq |-> c, mtlsConn |-> 0, plainConn |-> 0, unkConn |-> 0],
                 "yes")[1] = "declared-strict-observed-plaintext"
    BY <1>13, <2>1
  <2>4. b > 0 BY <2>2, <2>3, FindingNeedsPlaintext
  <2>5. QED BY <1>0, <1>5, <1>8, <1>9, <2>1, <2>4
<1>14. QED BY <1>12, <1>13

\* However often proxies are scraped, whatever restarts, and however many of them
\* count a call, no window that ends now shows a workload more calls than it got in
\* it, but for the counts lost in it (series.go:16-25, preferReporter); and the
\* finding of plaintext is raised only where plaintext was sent.
THEOREM NoPhantomTrafficHolds == TelemetrySpec => []NoPhantomTraffic
<1>1. MeshInv => NoPhantomTraffic BY NothingPhantom
<1>2. QED BY <1>1, MeshInvHolds, PTL

-----------------------------------------------------------------------------
(* A client that pages through a search: the invariant is that its cursor  *)
(* is the last of the places it has got, all of which are before it, or    *)
(* taken in again by one of the cursors; and that every place that was     *)
(* there all the time is among them, dropped by one of the cursors, or     *)
(* still to come.                                                          *)

\* SetToSeq lists every member of a finite set once.
LEMMA Listed ==
    ASSUME NEW S, IsFiniteSet(S)
    PROVE  /\ Cardinality(S) \in Nat
           /\ SetToSeq(S) \in [1 .. Cardinality(S) -> S]
           /\ \A i, j \in 1 .. Cardinality(S) : SetToSeq(S)[i] = SetToSeq(S)[j] => i = j
           /\ \A x \in S : \E i \in 1 .. Cardinality(S) : SetToSeq(S)[i] = x
<1> DEFINE n == Cardinality(S)
           F == {f \in [1 .. n -> S] : IsInjective(f)}
<1>1. n \in Nat /\ ExistsBijection(1 .. n, S) BY FS_CardinalityType
<1>2. F # {}
  <2>1. PICK f : f \in Bijection(1 .. n, S) BY <1>1 DEF ExistsBijection
  <2>2. f \in F BY <2>1 DEF Bijection, Injection
  <2>3. QED BY <2>2
<1>3. PICK s : s = SetToSeq(S) /\ s \in [1 .. n -> S] /\ IsInjective(s) BY <1>2 DEF SetToSeq
<1>4. s \in Injection(1 .. n, S) BY <1>3 DEF Injection
<1>5. Cardinality(1 .. n) = n /\ IsFiniteSet(1 .. n) BY <1>1, FS_Interval
<1> HIDE DEF n
<1>6. s \in Surjection(1 .. n, S) BY <1>4, <1>5, FS_Injection DEF n
<1>7. \A x \in S : \E i \in 1 .. n : s[i] = x BY <1>6 DEF Surjection
<1>8. \A i, j \in 1 .. n : s[i] = s[j] => i = j BY <1>3 DEF IsInjective
<1>9. QED BY <1>1, <1>3, <1>7, <1>8 DEF n

\* A strict order of the members of S.
StrictOrder(S, R) ==
    /\ \A a \in S : <<a, a>> \notin R
    /\ \A a \in S : \A b \in S : a # b => <<a, b>> \in R \/ <<b, a>> \in R
    /\ \A a \in S : \A b \in S : \A c \in S : <<a, b>> \in R /\ <<b, c>> \in R => <<a, c>> \in R

\* In a strict order of n positions the number of those before a position tells
\* them apart, and takes each of the values 0 .. n - 1.
LEMMA Ranks ==
    ASSUME NEW n \in Nat, NEW Q, StrictOrder(1 .. n, Q), NEW A,
           \A j \in 1 .. n : A[j] = {i \in 1 .. n : <<i, j>> \in Q}
    PROVE  /\ \A i \in 1 .. n : \A j \in 1 .. n : <<i, j>> \in Q => Cardinality(A[i]) < Cardinality(A[j])
           /\ \A j \in 1 .. n : Cardinality(A[j]) \in 0 .. (n - 1)
           /\ \A k \in 0 .. (n - 1) : \E j \in 1 .. n : Cardinality(A[j]) = k
<1> DEFINE D == 1 .. n
           pl == [j \in D |-> Cardinality(A[j])]
<1>1. IsFiniteSet(D) /\ Cardinality(D) = n BY FS_Interval
<1>2. ASSUME NEW j \in D PROVE IsFiniteSet(A[j]) /\ Cardinality(A[j]) \in 0 .. (n - 1)
  <2>1. A[j] \in SUBSET (D \ {j})
    <3>1. <<j, j>> \notin Q BY DEF StrictOrder
    <3>2. A[j] = {i \in D : <<i, j>> \in Q} OBVIOUS
    <3>3. j \notin A[j] /\ A[j] \subseteq D BY <3>1, <3>2
    <3>4. QED BY <3>3
  <2>2. IsFiniteSet(D \ {j}) /\ Cardinality(D \ {j}) = n - 1 BY <1>1, FS_RemoveElement
  <2>3. PICK X, Y : X = A[j] /\ Y = D \ {j} OBVIOUS
  <2>4. IsFiniteSet(X) /\ Cardinality(X) <= Cardinality(Y) BY <2>1, <2>2, <2>3, FS_Subset
  <2>5. Cardinality(X) \in Nat BY <2>4, FS_CardinalityType
  <2>6. QED BY <2>2, <2>3, <2>4, <2>5
<1>3. ASSUME NEW i \in D, NEW j \in D, <<i, j>> \in Q PROVE Cardinality(A[i]) < Cardinality(A[j])
  <2>1. A[i] \subseteq A[j] /\ i \in A[j] /\ i \notin A[i] BY <1>3 DEF StrictOrder
  <2>2. PICK X, Y : X = A[i] /\ Y = A[j] OBVIOUS
  <2>3. IsFiniteSet(X) /\ IsFiniteSet(Y) /\ Cardinality(X) \in Nat /\ Cardinality(Y) \in Nat
    BY <1>2, <2>2, FS_CardinalityType
  <2>4. X \in SUBSET Y /\ X # Y BY <2>1, <2>2
  <2>5. Cardinality(X) <= Cardinality(Y) /\ Cardinality(X) # Cardinality(Y) BY <2>3, <2>4, FS_Subset
  <2>6. QED BY <2>2, <2>3, <2>5
<1>4. pl \in [D -> 0 .. (n - 1)] BY <1>2
<1>5. \A i, j \in D : pl[i] = pl[j] => i = j
  <2>1. SUFFICES ASSUME NEW i \in D, NEW j \in D, pl[i] = pl[j], i # j PROVE FALSE OBVIOUS
  <2>2. <<i, j>> \in Q \/ <<j, i>> \in Q BY <2>1 DEF StrictOrder
  <2>3. Cardinality(A[i]) < Cardinality(A[j]) \/ Cardinality(A[j]) < Cardinality(A[i]) BY <1>3, <2>2
  <2>4. Cardinality(A[i]) = Cardinality(A[j]) /\ Cardinality(A[i]) \in Nat BY <1>2, <2>1
  <2>5. QED BY <2>3, <2>4
<1>6. PICK T : T = 0 .. (n - 1) OBVIOUS
<1>7. IsFiniteSet(T) /\ Cardinality(T) = n
  <2>1. 0 \in Int /\ n - 1 \in Int OBVIOUS
  <2>2. IsFiniteSet(T) /\ Cardinality(T) = IF 0 > n - 1 THEN 0 ELSE (n - 1) - 0 + 1 BY <1>6, <2>1, FS_Interval
  <2>3. QED BY <2>2
<1>8. pl \in Injection(D, T) BY <1>4, <1>5, <1>6 DEF Injection, IsInjective
<1>9. pl \in Surjection(D, T) BY <1>1, <1>7, <1>8, FS_Injection
<1>10. \A k \in T : \E j \in D : pl[j] = k BY <1>9 DEF Surjection
<1>11. QED BY <1>2, <1>3, <1>6, <1>10

\* Top, by a relation.
TopBy(n, S, R) ==
    LET s == SetToSeq(S)
        Above(j) == {i \in DOMAIN s : <<s[i], s[j]>> \in R \/ (<<s[j], s[i]>> \notin R /\ i < j)}
    IN  [k \in 1 .. (IF n < Len(s) THEN n ELSE Len(s)) |-> s[CHOOSE j \in DOMAIN s : Cardinality(Above(j)) = k - 1]]

\* It shows, in order, the n first members, or all of them.
LEMMA TopSorted ==
    ASSUME NEW S, IsFiniteSet(S), NEW R, StrictOrder(S, R), NEW n \in Nat, NEW T, T = TopBy(n, S, R)
    PROVE  /\ T \in Seq(S) /\ Len(T) <= n
           /\ \A i \in 1 .. Len(T) : \A j \in 1 .. Len(T) : i < j => <<T[i], T[j]>> \in R
           /\ Len(T) < n => \A x \in S : \E i \in 1 .. Len(T) : T[i] = x
           /\ \A x \in S : (\E i \in 1 .. Len(T) : T[i] = x) \/ \A i \in 1 .. Len(T) : <<T[i], x>> \in R
<1>1. PICK s, c : s = SetToSeq(S) /\ c = Cardinality(S) OBVIOUS
<1>2. /\ c \in Nat /\ s \in [1 .. c -> S]
      /\ \A i, j \in 1 .. c : s[i] = s[j] => i = j
      /\ \A x \in S : \E i \in 1 .. c : s[i] = x
  BY <1>1, Listed
<1>3. Len(s) = c /\ DOMAIN s = 1 .. c BY <1>2
<1> DEFINE Q == {p \in (1 .. c) \X (1 .. c) : <<s[p[1]], s[p[2]]>> \in R}
           A == [j \in 1 .. c |-> {i \in 1 .. c : <<i, j>> \in Q}]
           m == IF n < c THEN n ELSE c
           at(k) == CHOOSE j \in 1 .. c : Cardinality(A[j]) = k - 1
<1>4. \A i \in 1 .. c : \A j \in 1 .. c : <<i, j>> \in Q <=> <<s[i], s[j]>> \in R OBVIOUS
<1>5. StrictOrder(1 .. c, Q)
  <2> HIDE DEF Q
  <2>1. \A i \in 1 .. c : s[i] \in S BY <1>2
  <2>2. QED BY <1>2, <1>4, <2>1 DEF StrictOrder
<1>6. ASSUME NEW j \in 1 .. c
      PROVE  {i \in DOMAIN s : <<s[i], s[j]>> \in R \/ (<<s[j], s[i]>> \notin R /\ i < j)} = A[j]
  <2>1. ASSUME NEW i \in 1 .. c
        PROVE  <<s[i], s[j]>> \in R \/ (<<s[j], s[i]>> \notin R /\ i < j) <=> <<i, j>> \in Q
    <3>1. s[i] \in S /\ s[j] \in S /\ (s[i] = s[j] => i = j) BY <1>2
    <3>2. i < j => i # j OBVIOUS
    <3>3. CASE i = j BY <1>4, <3>1, <3>2, <3>3 DEF StrictOrder
    <3>4. CASE i # j
      <4>1. <<s[i], s[j]>> \in R \/ <<s[j], s[i]>> \in R BY <3>1, <3>4 DEF StrictOrder
      <4>2. QED BY <1>4, <4>1
    <3>5. QED BY <3>3, <3>4
  <2> HIDE DEF Q
  <2>2. QED BY <1>3, <2>1
<1>7. T = [k \in 1 .. m |-> s[at(k)]]
  <2>1. T = [k \in 1 .. (IF n < Len(s) THEN n ELSE Len(s)) |->
                s[CHOOSE j \in DOMAIN s :
                    Cardinality({i \in DOMAIN s : <<s[i], s[j]>> \in R \/ (<<s[j], s[i]>> \notin R /\ i < j)}) = k - 1]]
    BY <1>1 DEF TopBy
  <2> DEFINE B(j) == {i \in DOMAIN s : <<s[i], s[j]>> \in R \/ (<<s[j], s[i]>> \notin R /\ i < j)}
  <2>2. \A j \in 1 .. c : B(j) = A[j] BY <1>6
  <2> HIDE DEF B, A
  <2>3. ASSUME NEW k PROVE (CHOOSE j \in 1 .. c : Cardinality(B(j)) = k - 1) = at(k)
    BY <2>2
  <2>4. T = [k \in 1 .. m |-> s[CHOOSE j \in 1 .. c : Cardinality(B(j)) = k - 1]] BY <1>3, <2>1 DEF B
  <2>5. QED BY <2>3, <2>4
<1>8. \A j \in 1 .. c : A[j] = {i \in 1 .. c : <<i, j>> \in Q} OBVIOUS
<1> HIDE DEF A, Q
<1>9. /\ \A i \in 1 .. c : \A j \in 1 .. c : <<i, j>> \in Q => Cardinality(A[i]) < Cardinality(A[j])
      /\ \A j \in 1 .. c : Cardinality(A[j]) \in 0 .. (c - 1)
      /\ \A k \in 0 .. (c - 1) : \E j \in 1 .. c : Cardinality(A[j]) = k
  BY <1>2, <1>5, <1>8, Ranks
<1>10. m \in Nat /\ m <= c /\ m <= n /\ (m < n => m = c) BY <1>2
<1> HIDE DEF m
<1>11. ASSUME NEW k \in 1 .. m PROVE at(k) \in 1 .. c /\ Cardinality(A[at(k)]) = k - 1
  <2>1. k - 1 \in 0 .. (c - 1) BY <1>2, <1>10
  <2>2. \E j \in 1 .. c : Cardinality(A[j]) = k - 1 BY <1>9, <2>1
  <2>3. QED BY <2>2
<1> HIDE DEF at
<1>12. T \in Seq(S) /\ Len(T) = m /\ \A k \in 1 .. m : T[k] = s[at(k)]
  <2>1. \A k \in 1 .. m : s[at(k)] \in S BY <1>2, <1>11
  <2>2. QED BY <1>7, <1>10, <2>1
<1>13. ASSUME NEW i \in 1 .. c, NEW j \in 1 .. c, Cardinality(A[i]) < Cardinality(A[j])
       PROVE  <<s[i], s[j]>> \in R
  <2>1. Cardinality(A[i]) \in Nat /\ Cardinality(A[j]) \in Nat BY <1>9
  <2>2. i # j /\ <<j, i>> \notin Q BY <1>9, <1>13, <2>1
  <2>3. <<i, j>> \in Q BY <1>5, <2>2 DEF StrictOrder
  <2>4. QED BY <1>4, <2>3
<1>14. ASSUME NEW i \in 1 .. m, NEW j \in 1 .. m, i < j PROVE <<T[i], T[j]>> \in R
  <2>1. Cardinality(A[at(i)]) = i - 1 /\ Cardinality(A[at(j)]) = j - 1 /\ at(i) \in 1 .. c /\ at(j) \in 1 .. c
    BY <1>11
  <2>2. PICK a, b \in 1 .. c : a = at(i) /\ b = at(j) BY <2>1
  <2>3. Cardinality(A[a]) < Cardinality(A[b]) BY <1>14, <2>1, <2>2
  <2>4. <<s[a], s[b]>> \in R BY <1>13, <2>3
  <2>5. QED BY <1>12, <2>2, <2>4
<1>15. ASSUME NEW x \in S
       PROVE  (\E i \in 1 .. m : T[i] = x) \/ (m < c /\ \A i \in 1 .. m : <<T[i], x>> \in R)
  <2>1. PICK j \in 1 .. c : s[j] = x BY <1>2
  <2>2. PICK d \in 0 .. (c - 1) : d = Cardinality(A[j]) BY <1>9
  <2>3. CASE d < m
    <3>1. PICK k \in 1 .. m : k - 1 = d
      <4>1. d + 1 \in 1 .. m /\ (d + 1) - 1 = d BY <1>10, <2>3
      <4>2. QED BY <4>1
    <3>2. at(k) \in 1 .. c /\ Cardinality(A[at(k)]) = d BY <1>11, <3>1
    <3>3. PICK a \in 1 .. c : a = at(k) BY <3>2
    <3>4. a = j
      <4>1. SUFFICES ASSUME a # j PROVE FALSE OBVIOUS
      <4>2. <<a, j>> \in Q \/ <<j, a>> \in Q BY <1>5, <4>1 DEF StrictOrder
      <4>3. Cardinality(A[a]) < Cardinality(A[j]) \/ Cardinality(A[j]) < Cardinality(A[a]) BY <1>9, <4>2
      <4>4. QED BY <2>2, <3>2, <3>3, <4>3
    <3>5. QED BY <1>12, <2>1, <3>3, <3>4
  <2>4. CASE ~(d < m)
    <3>1. m < c BY <1>2, <1>10, <2>4
    <3>2. ASSUME NEW i \in 1 .. m PROVE <<T[i], x>> \in R
      <4>1. PICK a \in 1 .. c : a = at(i) /\ Cardinality(A[a]) = i - 1 BY <1>11
      <4>2. Cardinality(A[a]) < Cardinality(A[j]) BY <1>10, <2>2, <2>4, <4>1
      <4>3. <<s[a], s[j]>> \in R BY <1>13, <4>2
      <4>4. QED BY <1>12, <2>1, <4>1, <4>3
    <3>3. QED BY <3>1, <3>2
  <2>5. QED BY <2>3, <2>4
<1>16. m < n => \A x \in S : \E i \in 1 .. m : T[i] = x BY <1>2, <1>10, <1>15
<1>17. QED BY <1>10, <1>12, <1>14, <1>15, <1>16

\* Sort keys of n columns.
Tuples(n) == [1 .. n -> Int]

\* A key that is above the first columns of another is above it.
LEMMA BelowThrough ==
    ASSUME NEW m \in Nat, NEW n \in Nat, m <= n, NEW a \in Tuples(m), NEW b \in Tuples(n), NEW c \in Tuples(n),
           Below(a, b), Below(b, c)
    PROVE  Below(a, c)
<1>1. PICK i \in 1 .. m : a[i] < b[i] /\ \A j \in 1 .. (i - 1) : a[j] = b[j] BY DEF Below, Tuples
<1>2. PICK k \in 1 .. n : b[k] < c[k] /\ \A j \in 1 .. (k - 1) : b[j] = c[j] BY DEF Below, Tuples
<1>3. \A j \in 1 .. m : a[j] \in Int /\ b[j] \in Int /\ c[j] \in Int
  <2>1. \A j \in 1 .. m : j \in 1 .. n OBVIOUS
  <2>2. QED BY <2>1 DEF Tuples
<1>4. PICK l \in 1 .. m : l <= i /\ l <= k /\ (l = i \/ l = k) OBVIOUS
<1>5. \A j \in 1 .. (l - 1) : j \in 1 .. (i - 1) /\ j \in 1 .. (k - 1) BY <1>4
<1>6. \A j \in 1 .. (l - 1) : a[j] = c[j] BY <1>1, <1>2, <1>5
<1>7. a[l] < c[l]
  <2>1. l = i \/ l \in 1 .. (i - 1) BY <1>4
  <2>2. l = k \/ l \in 1 .. (k - 1) BY <1>4
  <2>3. a[l] \in Int /\ b[l] \in Int /\ c[l] \in Int BY <1>3
  <2>4. (a[l] < b[l] \/ a[l] = b[l]) /\ (b[l] < c[l] \/ b[l] = c[l]) /\ (a[l] < b[l] \/ b[l] < c[l])
    BY <1>1, <1>2, <1>4, <2>1, <2>2
  <2>5. QED BY <2>3, <2>4
<1>8. DOMAIN a = 1 .. m BY DEF Tuples
<1>9. QED BY <1>6, <1>7, <1>8 DEF Below

\* The lexicographic order is a strict one.
LEMMA BelowOrder ==
    ASSUME NEW n \in Nat
    PROVE  /\ \A a \in Tuples(n) : ~Below(a, a)
           /\ \A a, b \in Tuples(n) : a # b => Below(a, b) \/ Below(b, a)
           /\ \A a, b, c \in Tuples(n) : Below(a, b) /\ Below(b, c) => Below(a, c)
<1>1. ASSUME NEW a \in Tuples(n) PROVE ~Below(a, a) BY DEF Below, Tuples
<1>2. ASSUME NEW a \in Tuples(n), NEW b \in Tuples(n), a # b PROVE Below(a, b) \/ Below(b, a)
  <2> DEFINE D == {i \in 1 .. n : a[i] # b[i]}
  <2>1. D \subseteq Nat /\ D # {} BY <1>2 DEF Tuples
  <2> HIDE DEF D
  <2>2. PICK i \in D : \A j \in D : i <= j BY <2>1, LeastNatural
  <2>3. i \in 1 .. n /\ a[i] # b[i] /\ a[i] \in Int /\ b[i] \in Int BY <2>2 DEF D, Tuples
  <2>4. \A j \in 1 .. (i - 1) : a[j] = b[j]
    <3>1. SUFFICES ASSUME NEW j \in 1 .. (i - 1), a[j] # b[j] PROVE FALSE OBVIOUS
    <3>2. j \in D /\ j < i BY <2>3, <3>1 DEF D
    <3>3. QED BY <2>2, <2>3, <3>2
  <2>5. a[i] < b[i] \/ b[i] < a[i] BY <2>3
  <2>6. DOMAIN a = 1 .. n /\ DOMAIN b = 1 .. n BY DEF Tuples
  <2>7. QED BY <2>3, <2>4, <2>5, <2>6 DEF Below
<1>3. ASSUME NEW a \in Tuples(n), NEW b \in Tuples(n), NEW c \in Tuples(n), Below(a, b), Below(b, c)
      PROVE  Below(a, c)
  <2>1. n <= n OBVIOUS
  <2>2. QED BY <1>3, <2>1, BelowThrough
<1>4. QED BY <1>1, <1>2, <1>3

\* The order of the rows of S by their keys; strict, if no two rows have the same.
KeyOrder(S, key) == {p \in S \X S : Below(key[p[1]], key[p[2]])}

\* The rows of S by keys of their own are in a strict order.
LEMMA KeysOrder ==
    ASSUME NEW n \in Nat, NEW S, NEW key, \A x \in S : key[x] \in Tuples(n),
           \A x \in S : \A y \in S : key[x] = key[y] => x = y
    PROVE  StrictOrder(S, KeyOrder(S, key))
<1>1. \A x \in S : \A y \in S : <<x, y>> \in KeyOrder(S, key) <=> Below(key[x], key[y]) BY DEF KeyOrder
<1>2. QED BY <1>1, BelowOrder DEF StrictOrder

\* Keys in order, and a key among them.
Increasing(ks) == \A i \in 1 .. Len(ks) : \A j \in 1 .. Len(ks) : i < j => Below(ks[i], ks[j])
In(k, ks) == \E i \in 1 .. Len(ks) : ks[i] = k

\* A page of the keys in Rest: the first of them, in order, and the last of these if
\* there are more.
PageRight(Rest, ks, next) ==
    /\ ks \in Seq(Rest) /\ Increasing(ks)
    /\ next = <<>> => \A k \in Rest : In(k, ks)
    /\ next # <<>> => /\ Len(ks) > 0 /\ next = ks[Len(ks)]
                      /\ \A k \in Rest : In(k, ks) \/ Below(next, k)

\* T lists, in order, the l rows of S whose keys come first, or all of them.
FirstRows(T, l, S, key) ==
    /\ T \in Seq(S) /\ Len(T) <= l
    /\ \A i \in 1 .. Len(T) : \A j \in 1 .. Len(T) : i < j => Below(key[T[i]], key[T[j]])
    /\ Len(T) < l => \A x \in S : \E i \in 1 .. Len(T) : T[i] = x
    /\ \A x \in S : (\E i \in 1 .. Len(T) : T[i] = x) \/ \A i \in 1 .. Len(T) : Below(key[T[i]], key[x])

\* The rows of a page come in the order of their keys.
LEMMA RowsOfTop ==
    ASSUME NEW n \in Nat, NEW S, IsFiniteSet(S), NEW key, \A x \in S : key[x] \in Tuples(n),
           \A x \in S : \A y \in S : key[x] = key[y] => x = y,
           NEW l \in Nat, NEW T, T = TopBy(l, S, KeyOrder(S, key))
    PROVE  FirstRows(T, l, S, key)
<1>1. PICK R : R = KeyOrder(S, key) OBVIOUS
<1>2. StrictOrder(S, R) BY <1>1, KeysOrder
<1>3. T = TopBy(l, S, R) BY <1>1
<1>4. /\ T \in Seq(S) /\ Len(T) <= l
      /\ \A i \in 1 .. Len(T) : \A j \in 1 .. Len(T) : i < j => <<T[i], T[j]>> \in R
      /\ Len(T) < l => \A x \in S : \E i \in 1 .. Len(T) : T[i] = x
      /\ \A x \in S : (\E i \in 1 .. Len(T) : T[i] = x) \/ \A i \in 1 .. Len(T) : <<T[i], x>> \in R
  BY <1>2, <1>3, TopSorted
<1>5. \A x, y : <<x, y>> \in R => Below(key[x], key[y]) BY <1>1 DEF KeyOrder
<1>6. QED BY <1>4, <1>5 DEF FirstRows

\* A function on an initial segment is a sequence.
LEMMA SeqOfFun ==
    ASSUME NEW X, NEW m \in Nat, NEW f \in [1 .. m -> X]
    PROVE  f \in Seq(X) /\ Len(f) = m
OBVIOUS

\* The keys of a list of rows and of a set of them.
KeysShown(P, key) == [i \in DOMAIN P |-> key[P[i]]]
KeySet(S, key) == {key[x] : x \in S}

\* What a page shows of the rows it fetched, and where it ends if there are more.
CutTo(T, limit) == IF Len(T) > limit THEN SubSeq(T, 1, limit) ELSE T
PlaceIn(T, limit, key) == IF Len(T) > limit THEN key[T[limit]] ELSE <<>>

\* A page shows the first of the rows, and its end is the key of the last of them:
\* every row that is not on it comes later.
LEMMA PageOfTop ==
    ASSUME NEW n \in Nat \ {0}, NEW S, NEW key, \A x \in S : key[x] \in Tuples(n),
           NEW limit \in Nat \ {0}, NEW T, FirstRows(T, limit + 1, S, key)
    PROVE  /\ PageRight(KeySet(S, key), KeysShown(CutTo(T, limit), key), PlaceIn(T, limit, key))
           /\ CutTo(T, limit) \in Seq(S) /\ (Len(T) > limit => T[limit] \in S)
<1>0. /\ T \in Seq(S) /\ Len(T) <= limit + 1
      /\ \A i \in 1 .. Len(T) : \A j \in 1 .. Len(T) : i < j => Below(key[T[i]], key[T[j]])
      /\ Len(T) < limit + 1 => \A x \in S : \E i \in 1 .. Len(T) : T[i] = x
      /\ \A x \in S : (\E i \in 1 .. Len(T) : T[i] = x) \/ \A i \in 1 .. Len(T) : Below(key[T[i]], key[x])
  BY DEF FirstRows
<1>a. PICK P, ks, next, Rest :
        /\ P = CutTo(T, limit) /\ ks = KeysShown(P, key) /\ next = PlaceIn(T, limit, key) /\ Rest = KeySet(S, key)
  OBVIOUS
<1>b. P = (IF Len(T) > limit THEN SubSeq(T, 1, limit) ELSE T) BY <1>a DEF CutTo
<1>c. next = (IF Len(T) > limit THEN key[T[limit]] ELSE <<>>) BY <1>a DEF PlaceIn
<1>1. Rest = {key[x] : x \in S} /\ ks = [i \in DOMAIN P |-> key[P[i]]] BY <1>a DEF KeySet, KeysShown
<1>2. Len(T) \in Nat BY <1>0
<1>4. PICK m \in Nat : /\ m = Len(P) /\ m <= Len(T) /\ (\A i \in 1 .. m : P[i] = T[i] /\ T[i] \in S)
                       /\ P \in Seq(S) /\ (Len(T) > limit => m = limit) /\ (~(Len(T) > limit) => m = Len(T))
  <2>1. CASE Len(T) > limit
    <3>1. P = SubSeq(T, 1, limit) BY <1>b, <2>1
    <3>2. /\ P \in Seq(S) /\ Len(P) = limit /\ limit <= Len(T)
          /\ \A i \in 1 .. limit : P[i] = T[i] /\ T[i] \in S
      BY <1>0, <1>2, <2>1, <3>1
    <3>3. QED BY <2>1, <3>2
  <2>2. CASE ~(Len(T) > limit)
    <3>1. P = T BY <1>b, <2>2
    <3>2. Len(T) \in Nat /\ \A i \in 1 .. Len(T) : T[i] \in S BY <1>0, <1>2
    <3>3. QED BY <1>0, <1>2, <2>2, <3>1, <3>2
  <2>3. QED BY <2>1, <2>2
<1>5. ks \in Seq(Rest) /\ Len(ks) = m /\ \A i \in 1 .. m : ks[i] = key[T[i]]
  <2>1. DOMAIN P = 1 .. m BY <1>4
  <2>2. \A i \in 1 .. m : key[P[i]] \in Rest BY <1>1, <1>4
  <2>3. ks = [i \in 1 .. m |-> key[P[i]]] BY <1>1, <2>1
  <2>4. ks \in [1 .. m -> Rest] BY <2>2, <2>3
  <2>5. ks \in Seq(Rest) /\ Len(ks) = m
    <3>1. PICK f, X : f = ks /\ X = Rest OBVIOUS
    <3>2. f \in [1 .. m -> X] BY <2>4, <3>1
    <3>3. f \in Seq(X) /\ Len(f) = m BY ONLY m \in Nat, <3>2, SeqOfFun
    <3>4. QED BY <3>1, <3>3
  <2>6. \A i \in 1 .. m : ks[i] = key[T[i]]
    <3>1. ASSUME NEW i \in 1 .. m PROVE ks[i] = key[T[i]]
      <4>1. ks[i] = key[P[i]] BY <2>3
      <4>2. P[i] = T[i] BY <1>4
      <4>3. QED BY <4>1, <4>2
    <3>2. QED BY <3>1
  <2>7. QED BY <2>5, <2>6
<1>6. \A i \in 1 .. m : i \in 1 .. Len(T) BY <1>2, <1>4
<1>7. Increasing(ks)
  <2>1. ASSUME NEW i \in 1 .. m, NEW j \in 1 .. m, i < j PROVE Below(ks[i], ks[j])
    <3>1. i \in 1 .. Len(T) /\ j \in 1 .. Len(T) BY <1>6
    <3>2. Below(key[T[i]], key[T[j]]) BY <1>0, <2>1, <3>1
    <3>3. QED BY <1>5, <3>2
  <2>2. Len(ks) = m BY <1>5
  <2>3. QED BY ONLY <2>1, <2>2 DEF Increasing
<1>8. CASE Len(T) > limit
  <2>1. m = limit /\ limit \in 1 .. m /\ limit \in 1 .. Len(T) BY <1>4, <1>6, <1>8
  <2>2. next = key[T[limit]] /\ T[limit] \in S BY <1>4, <1>8, <1>c, <2>1
  <2>3. next # <<>>
    <3>1. DOMAIN next = 1 .. n /\ 1 \in 1 .. n BY <2>2 DEF Tuples
    <3>2. DOMAIN <<>> = {} OBVIOUS
    <3>3. QED BY <3>1, <3>2
  <2>4. ASSUME NEW k \in Rest PROVE In(k, ks) \/ Below(next, k)
    <3>1. PICK x \in S : k = key[x] BY <1>1
    <3>2. CASE \A i \in 1 .. Len(T) : Below(key[T[i]], key[x])
      <4>1. QED BY <2>1, <2>2, <3>1, <3>2
    <3>3. CASE \E i \in 1 .. Len(T) : T[i] = x
      <4>1. PICK i \in 1 .. Len(T) : T[i] = x BY <3>3
      <4>2. CASE i <= limit
        <5>1. i \in 1 .. m BY <2>1, <4>2
        <5>2. QED BY <1>5, <3>1, <4>1, <5>1 DEF In
      <4>3. CASE limit < i
        <5>1. Below(key[T[limit]], key[T[i]]) BY <1>0, <2>1, <4>3
        <5>2. QED BY <2>2, <3>1, <4>1, <5>1
      <4>4. i <= limit \/ limit < i BY <1>2
      <4>5. QED BY <4>2, <4>3, <4>4
    <3>4. QED BY <1>0, <3>1, <3>2, <3>3
  <2>5. Len(ks) > 0 /\ next = ks[Len(ks)] BY <1>5, <2>1, <2>2
  <2>6. PageRight(Rest, ks, next) BY <1>5, <1>7, <2>3, <2>4, <2>5 DEF PageRight
  <2>7. QED BY <1>4, <1>a, <2>2, <2>6
<1>9. CASE ~(Len(T) > limit)
  <2>1. next = <<>> /\ m = Len(T) /\ Len(T) < limit + 1 BY <1>0, <1>2, <1>4, <1>9, <1>c
  <2>2. ASSUME NEW k \in Rest PROVE In(k, ks)
    <3>1. PICK x \in S : k = key[x] BY <1>1
    <3>2. PICK i \in 1 .. Len(T) : T[i] = x BY <1>0, <1>2, <2>1
    <3>3. QED BY <1>5, <2>1, <3>1, <3>2 DEF In
  <2>3. PageRight(Rest, ks, next) BY <1>5, <1>7, <2>1, <2>2 DEF PageRight
  <2>4. QED BY <1>4, <1>9, <1>a, <2>3
<1>10. QED BY <1>8, <1>9, <1>a

\* Top, by the positions that come before each.
ByRank(n, s, B) ==
    [k \in 1 .. (IF n < Len(s) THEN n ELSE Len(s)) |-> s[CHOOSE j \in DOMAIN s : Cardinality(B[j]) = k - 1]]

\* Top by a relation takes the positions by how many come before each.
LEMMA TopAgrees ==
    ASSUME NEW S, IsFiniteSet(S), NEW R, NEW n, NEW s, s = SetToSeq(S),
           NEW B, \A i \in DOMAIN s : \A j \in DOMAIN s :
                    i \in B[j] <=> (<<s[i], s[j]>> \in R \/ (<<s[j], s[i]>> \notin R /\ i < j)),
           \A j \in DOMAIN s : B[j] \subseteq DOMAIN s
    PROVE  TopBy(n, S, R) = ByRank(n, s, B)
<1> DEFINE A(j) == {i \in DOMAIN s : <<s[i], s[j]>> \in R \/ (<<s[j], s[i]>> \notin R /\ i < j)}
<1>1. \A j \in DOMAIN s : A(j) = B[j] OBVIOUS
<1>2. TopBy(n, S, R) = [k \in 1 .. (IF n < Len(s) THEN n ELSE Len(s)) |->
                          s[CHOOSE j \in DOMAIN s : Cardinality(A(j)) = k - 1]] BY DEF TopBy
<1> HIDE DEF A
<1> DEFINE a(k) == CHOOSE j \in DOMAIN s : Cardinality(A(j)) = k - 1
           b(k) == CHOOSE j \in DOMAIN s : Cardinality(B[j]) = k - 1
<1>3. ASSUME NEW k PROVE a(k) = b(k) BY <1>1
<1>4. TopBy(n, S, R) = [k \in 1 .. (IF n < Len(s) THEN n ELSE Len(s)) |-> s[a(k)]] BY <1>2
<1> HIDE DEF a, b
<1>5. TopBy(n, S, R) = [k \in 1 .. (IF n < Len(s) THEN n ELSE Len(s)) |-> s[b(k)]] BY <1>3, <1>4
<1>6. QED BY <1>5 DEF b, ByRank

\* SetToSeq lists members of the set only.
LEMMA InDomain ==
    ASSUME NEW S, IsFiniteSet(S)
    PROVE  \A i \in DOMAIN SetToSeq(S) : SetToSeq(S)[i] \in S
BY Listed

\* FirstBy is Top by the order of the keys.
LEMMA FirstByTop ==
    ASSUME NEW S, IsFiniteSet(S), NEW n, NEW key
    PROVE  FirstBy(key, n, S) = TopBy(n, S, KeyOrder(S, key))
<1>1. PICK s, R : s = SetToSeq(S) /\ R = KeyOrder(S, key) OBVIOUS
<1> DEFINE C(i, j) == \/ Below(key[s[i]], key[s[j]])
                      \/ (~Below(key[s[j]], key[s[i]]) /\ i < j)
           B == [j \in DOMAIN s |-> {i \in DOMAIN s : C(i, j)}]
<1>2. FirstBy(key, n, S)
        = [k \in 1 .. (IF n < Len(s) THEN n ELSE Len(s)) |->
             s[CHOOSE j \in DOMAIN s : Cardinality({i \in DOMAIN s : C(i, j)}) = k - 1]]
  BY <1>1 DEF Top, FirstBy
<1>3. \A a \in S : \A b \in S : <<a, b>> \in R <=> Below(key[a], key[b])
  BY <1>1 DEF KeyOrder
<1>4. \A i \in DOMAIN s : s[i] \in S BY <1>1, InDomain
<1>5. ASSUME NEW i \in DOMAIN s, NEW j \in DOMAIN s
      PROVE  C(i, j) <=> (<<s[i], s[j]>> \in R \/ (<<s[j], s[i]>> \notin R /\ i < j))
  BY <1>3, <1>4
<1> HIDE DEF C
<1>6. \A j \in DOMAIN s : B[j] = {i \in DOMAIN s : C(i, j)} OBVIOUS
<1> HIDE DEF B
<1>71. \A i \in DOMAIN s : \A j \in DOMAIN s :
             i \in B[j] <=> (<<s[i], s[j]>> \in R \/ (<<s[j], s[i]>> \notin R /\ i < j))
  BY <1>5, <1>6
<1>72. \A j \in DOMAIN s : B[j] \subseteq DOMAIN s BY <1>6
<1>73. s = SetToSeq(S) BY <1>1
<1>8. TopBy(n, S, R) = ByRank(n, s, B)
  BY <1>71, <1>72, <1>73, TopAgrees
<1> DEFINE c(k) == CHOOSE j \in DOMAIN s : Cardinality({i \in DOMAIN s : C(i, j)}) = k - 1
           d(k) == CHOOSE j \in DOMAIN s : Cardinality(B[j]) = k - 1
<1>9. ASSUME NEW k PROVE c(k) = d(k) BY <1>6
<1>10. PICK m : m = (IF n < Len(s) THEN n ELSE Len(s)) OBVIOUS
<1>11. TopBy(n, S, R) = [k \in 1 .. m |-> s[d(k)]] BY <1>8, <1>10 DEF ByRank
<1>12. FirstBy(key, n, S) = [k \in 1 .. m |-> s[c(k)]] BY <1>2, <1>10
<1> HIDE DEF c, d
<1>13. FirstBy(key, n, S) = TopBy(n, S, R) BY <1>9, <1>11, <1>12
<1>14. QED BY <1>1, <1>13

\* What a page shows of the rows that are left, S, and where it says to go on.
LEMMA PageOf ==
    ASSUME NEW n \in Nat \ {0}, NEW S, IsFiniteSet(S), NEW key, \A x \in S : key[x] \in Tuples(n),
           \A x \in S : \A y \in S : key[x] = key[y] => x = y,
           NEW limit \in Nat \ {0}, NEW T, T = TopBy(limit + 1, S, KeyOrder(S, key))
    PROVE  /\ PageRight(KeySet(S, key), KeysShown(CutTo(T, limit), key), PlaceIn(T, limit, key))
           /\ CutTo(T, limit) \in Seq(S) /\ (Len(T) > limit => T[limit] \in S)
<1>1. PICK l \in Nat : l = limit + 1 OBVIOUS
<1>2. T = TopBy(l, S, KeyOrder(S, key)) /\ n \in Nat BY <1>1
<1>3. FirstRows(T, l, S, key) BY <1>2, RowsOfTop
<1>4. FirstRows(T, limit + 1, S, key) BY <1>1, <1>3
<1>5. QED BY <1>4, PageOfTop

\* A page has room for a row at least.
LEMMA LimitPositive ==
    ASSUME NEW n \in Int
    PROVE  Limited(n, 500, 50) \in Nat \ {0}
BY DEF Limited

\* The cursor of the next page: the last row shown, and so its key.
NextOf(T, limit) == IF Len(T) > limit THEN <<T[limit]>> ELSE <<>>

\* The cursor of the next page has the key that the page ends with.
LEMMA NextOfPlace ==
    ASSUME NEW T, NEW limit, NEW key
    PROVE  /\ NextOf(T, limit) # <<>> => PlaceIn(T, limit, key) = key[NextOf(T, limit)[1]]
           /\ NextOf(T, limit) = <<>> => PlaceIn(T, limit, key) = <<>>
           /\ NextOf(T, limit) # <<>> => Len(T) > limit /\ NextOf(T, limit) = <<T[limit]>>
<1>1. CASE Len(T) > limit
  <2>1. PICK x : x = T[limit] OBVIOUS
  <2>2. NextOf(T, limit) = <<x>> /\ PlaceIn(T, limit, key) = key[x] BY <1>1, <2>1 DEF NextOf, PlaceIn
  <2>3. <<x>>[1] = x /\ <<x>> # <<>> OBVIOUS
  <2>4. QED BY <1>1, <2>1, <2>2, <2>3
<1>2. CASE ~(Len(T) > limit)
  <2>1. NextOf(T, limit) = <<>> /\ PlaceIn(T, limit, key) = <<>> BY <1>2 DEF NextOf, PlaceIn
  <2>2. QED BY <2>1
<1>3. QED BY <1>1, <1>2

\* A page by keys shows the first of the rows, and ends with the cursor of the next.
LEMMA PageByRight ==
    ASSUME NEW n \in Nat \ {0}, NEW S, IsFiniteSet(S), NEW key, \A x \in S : key[x] \in Tuples(n),
           \A x \in S : \A y \in S : key[x] = key[y] => x = y,
           NEW limit \in Nat \ {0}, NEW p, p = PageBy(key, limit, S)
    PROVE  /\ PageRight(KeySet(S, key), KeysShown(p.rows, key), IF p.next = <<>> THEN <<>> ELSE key[p.next[1]])
           /\ p.rows \in Seq(S) /\ (p.next = <<>> \/ \E c \in S : p.next = <<c>>)
<1>1. PICK T : T = FirstBy(key, limit + 1, S) OBVIOUS
<1>2. T = TopBy(limit + 1, S, KeyOrder(S, key)) BY <1>1, FirstByTop
<1>3. p.rows = CutTo(T, limit) /\ p.next = NextOf(T, limit)
  <2>1. p = [rows |-> IF Len(T) > limit THEN SubSeq(T, 1, limit) ELSE T,
             next |-> IF Len(T) > limit THEN <<T[limit]>> ELSE <<>>]
    BY <1>1 DEF PageBy
  <2>2. QED BY <2>1 DEF CutTo, NextOf
<1>4. /\ PageRight(KeySet(S, key), KeysShown(CutTo(T, limit), key), PlaceIn(T, limit, key))
      /\ CutTo(T, limit) \in Seq(S) /\ (Len(T) > limit => T[limit] \in S)
  BY <1>2, PageOf
<1>5. PlaceIn(T, limit, key) = (IF p.next = <<>> THEN <<>> ELSE key[p.next[1]])
  BY <1>3, NextOfPlace
<1>6. p.next = <<>> \/ \E c \in S : p.next = <<c>>
  <2>1. p.next # <<>> => Len(T) > limit /\ p.next = <<T[limit]>> BY <1>3, NextOfPlace
  <2>2. QED BY <1>4, <2>1
<1>7. QED BY <1>3, <1>4, <1>5, <1>6

\* Tuples of numbers.
LEMMA TwoInts ==
    ASSUME NEW a \in Int, NEW b \in Int
    PROVE  <<a, b>> \in [1 .. 2 -> Int]
OBVIOUS

\* Of three,
LEMMA ThreeInts ==
    ASSUME NEW a \in Int, NEW b \in Int, NEW c \in Int
    PROVE  <<a, b, c>> \in [1 .. 3 -> Int]
OBVIOUS

\* and of four.
LEMMA FourInts ==
    ASSUME NEW a \in Int, NEW b \in Int, NEW c \in Int, NEW d \in Int
    PROVE  <<a, b, c, d>> \in [1 .. 4 -> Int]
OBVIOUS

\* A strict order of a finite set has a first member.
LEMMA First ==
    ASSUME NEW S, IsFiniteSet(S), S # {}, NEW R, StrictOrder(S, R)
    PROVE  \E x \in S : \A y \in S : y # x => <<x, y>> \in R
<1>1. PICK one \in Nat : one = 1 OBVIOUS
<1>2. PICK T : T = TopBy(one, S, R) OBVIOUS
<1>3. /\ T \in Seq(S) /\ Len(T) <= one
      /\ Len(T) < one => \A x \in S : \E i \in 1 .. Len(T) : T[i] = x
      /\ \A x \in S : (\E i \in 1 .. Len(T) : T[i] = x) \/ \A i \in 1 .. Len(T) : <<T[i], x>> \in R
  BY <1>2, TopSorted
<1>4. Len(T) \in Nat BY <1>3
<1>5. Len(T) = 1
  <2>1. SUFFICES ASSUME Len(T) # 1 PROVE FALSE OBVIOUS
  <2>0. PICK l \in Nat : l = Len(T) BY <1>4
  <2>a. l <= one /\ l # 1 BY <1>3, <2>0, <2>1
  <2>b. l = 0 /\ l < one BY <1>1, <2>a
  <2>2. Len(T) = 0 /\ Len(T) < one BY <2>0, <2>b
  <2>3. PICK x \in S : TRUE OBVIOUS
  <2>4. \E i \in 1 .. Len(T) : T[i] = x BY <1>3, <2>2
  <2>5. QED BY <2>2, <2>4
<1>6. T[1] \in S
  <2>1. T \in Seq(S) BY <1>3
  <2>2. 1 \in 1 .. Len(T) BY <1>5
  <2>3. QED BY <2>1, <2>2
<1>7. \A y \in S : y = T[1] \/ <<T[1], y>> \in R BY <1>3, <1>5
<1>8. QED BY <1>6, <1>7

\* A finite set has finitely many images.
LEMMA ImageFinite ==
    ASSUME NEW S, IsFiniteSet(S), NEW f, NEW T, T = {f[x] : x \in S}
    PROVE  IsFiniteSet(T)
<1>1. PICK h : h = [x \in S |-> f[x]] OBVIOUS
<1>2. h \in [S -> T] BY <1>1
<1>3. \A t \in T : \E x \in S : h[x] = t BY <1>1
<1>4. h \in Surjection(S, T) BY <1>2, <1>3 DEF Surjection
<1>5. QED BY <1>4, FS_Surjection

\* A trace is represented by one of its spans: of finitely many keys one is the first.
LEMMA RepOfTrace ==
    ASSUME NEW rs, rs \subseteq SpanPool, rs # {}
    PROVE  Rep(rs) \in rs
<1>1. IsFiniteSet(rs) BY TelemetryAssumption, FS_Subset
<1>2. PICK key : key = [r \in rs |-> repTuple(r)] OBVIOUS
<1>3. PICK three \in Nat : three = 3 OBVIOUS
<1>4. ASSUME NEW r \in rs PROVE repTuple(r) \in Tuples(three)
  <2>1. r.at \in Int /\ r.span \in Int BY TelemetryAssumption
  <2>2. PICK a, b, c : a = (IF r.parent = Empty THEN 0 ELSE 1) /\ b = r.at /\ c = r.span OBVIOUS
  <2>3. a \in Int /\ b \in Int /\ c \in Int BY <2>1, <2>2
  <2>4. repTuple(r) = <<a, b, c>> BY <2>2 DEF repTuple
  <2>5. QED BY <1>3, <2>3, <2>4, ThreeInts DEF Tuples
<1>5. PICK keys : keys = {key[r] : r \in rs} OBVIOUS
<1>6. IsFiniteSet(keys) /\ keys # {}
  <2>1. IsFiniteSet(keys) BY <1>1, <1>5, ImageFinite
  <2>2. QED BY <1>5, <2>1
<1>7. keys \subseteq Tuples(three) /\ \A r \in rs : repTuple(r) \in keys BY <1>2, <1>4, <1>5
<1>8. PICK R : R = {p \in keys \X keys : Below(p[1], p[2])} OBVIOUS
<1>9. \A a \in keys : \A b \in keys : <<a, b>> \in R <=> Below(a, b) BY <1>8
<1>10. StrictOrder(keys, R) BY <1>7, <1>9, BelowOrder DEF StrictOrder
<1>11. PICK k \in keys : \A l \in keys : l # k => <<k, l>> \in R BY <1>6, <1>10, First
<1>12. \A l \in keys : ~Below(l, k)
  <2>1. SUFFICES ASSUME NEW l \in keys, Below(l, k) PROVE FALSE OBVIOUS
  <2>2. k \in Tuples(three) /\ l \in Tuples(three) BY <1>7
  <2>3. l # k BY <2>1, <2>2, BelowOrder
  <2>4. Below(k, l) BY <1>9, <1>11, <2>3
  <2>5. QED BY <2>1, <2>2, <2>4, BelowOrder
<1>13. PICK x \in rs : repTuple(x) = k BY <1>2, <1>5
<1>14. \A s \in rs : ~Below(repTuple(s), repTuple(x)) BY <1>7, <1>12, <1>13
<1>15. QED BY <1>14 DEF Rep

\* The summary of a trace is what a search lists, and bears the trace's id.
LEMMA SummaryOfTrace ==
    ASSUME NEW rs, rs \subseteq SpanPool, rs # {}, NEW t, \A r \in rs : r.trace = t
    PROVE  Summary(rs) \in Listable("traces") /\ Summary(rs).trace = t
<1>1. PICK r \in rs : r = Rep(rs) BY RepOfTrace
<1>2. r.trace = t /\ r.trace \in Int /\ r.dur \in Int BY TelemetryAssumption
<1>3. IsFiniteSet(rs) /\ \A s \in rs : s.at \in Int BY TelemetryAssumption, FS_Subset
<1>4. PICK m \in Int : m = Min({s.at : s \in rs}) BY <1>3, MinMaxAt
<1>5. PICK ers, frs : ers = {s \in rs : errorSpanExpr(s)} /\ frs = {s \in rs : refusedSpanExpr(s)} OBVIOUS
<1>6. IsFiniteSet(ers) /\ IsFiniteSet(frs)
  <2>1. ers \subseteq rs /\ frs \subseteq rs BY <1>5
  <2>2. QED BY <1>3, <2>1, FS_Subset
<1>7. PICK n \in Int, e \in Int, f \in Int : n = Cardinality(rs) /\ e = Cardinality(ers) /\ f = Cardinality(frs)
  BY <1>3, <1>6, FS_CardinalityType
<1>8. e = Count(rs, errorSpanExpr) /\ f = Count(rs, refusedSpanExpr) BY <1>5, <1>7 DEF Count
<1>9. Summary(rs) = [trace |-> r.trace, start |-> m, dur |-> r.dur, spans |-> n, errors |-> e, refused |-> f]
  BY <1>1, <1>4, <1>7, <1>8 DEF Summary
<1>10. PICK s : s = [trace |-> r.trace, start |-> m, dur |-> r.dur, spans |-> n, errors |-> e, refused |-> f] OBVIOUS
<1>11. s \in Listable("traces") /\ s.trace = t BY <1>2, <1>10 DEF Listable
<1>12. QED BY <1>9, <1>10, <1>11

\* The traces that a search finds are finitely many, and told apart by their ids.
LEMMA TracesApart ==
    ASSUME NEW ss \in SUBSET SpanPool, NEW q
    PROVE  /\ IsFiniteSet(TracesFound(ss, q))
           /\ TracesFound(ss, q) \subseteq Listable("traces")
           /\ \A t \in TracesFound(ss, q) : \A u \in TracesFound(ss, q) : t.trace = u.trace => t = u
<1>1. PICK rows : rows = Scan(ss, q) OBVIOUS
<1>2. rows \subseteq SpanPool BY <1>1 DEF Scan
<1> DEFINE D == {r.trace : r \in rows}
           of(t) == {r \in rows : r.trace = t}
<1>3. IsFiniteSet(D)
  <2>1. IsFiniteSet(rows) BY <1>2, TelemetryAssumption, FS_Subset
  <2>2. PICK f : f = [r \in rows |-> r.trace] OBVIOUS
  <2>3. D = {f[r] : r \in rows} BY <2>2
  <2>4. PICK X : X = {f[r] : r \in rows} OBVIOUS
  <2>5. IsFiniteSet(X) BY <2>1, <2>4, ImageFinite
  <2>6. QED BY <2>3, <2>4, <2>5
<1>4. PICK g : g = GroupBy(rows, LAMBDA r : r.trace) OBVIOUS
<1>5. DOMAIN g = D /\ \A t \in D : g[t] = of(t) BY <1>4 DEF GroupBy
<1>6. \A t \in D : of(t) # {} /\ of(t) \subseteq SpanPool /\ \A r \in of(t) : r.trace = t BY <1>2
<1> HIDE DEF D, of
<1>7. ASSUME NEW t \in D PROVE Summary(g[t]) \in Listable("traces") /\ Summary(g[t]).trace = t
  <2>1. PICK rs : rs = g[t] OBVIOUS
  <2>2. rs \subseteq SpanPool /\ rs # {} /\ \A r \in rs : r.trace = t BY <1>5, <1>6, <2>1
  <2>3. Summary(rs) \in Listable("traces") /\ Summary(rs).trace = t BY <2>2, SummaryOfTrace
  <2>4. QED BY <2>1, <2>3
<1>8. PICK E : E = {u \in D : TraceMatches(q, g[u])} OBVIOUS
<1>9. TracesFound(ss, q) = {Summary(g[t]) : t \in E} BY <1>1, <1>4, <1>5, <1>8 DEF TracesFound
<1>10. E \subseteq D /\ IsFiniteSet(E) BY <1>3, <1>8, FS_Subset
<1>11. IsFiniteSet({Summary(g[t]) : t \in E})
  <2>1. PICK f : f = [t \in E |-> Summary(g[t])] OBVIOUS
  <2>2. {Summary(g[t]) : t \in E} = {f[t] : t \in E} BY <2>1
  <2>3. PICK X : X = {f[t] : t \in E} OBVIOUS
  <2>4. IsFiniteSet(X) BY <1>10, <2>3, ImageFinite
  <2>5. QED BY <2>2, <2>3, <2>4
<1>12. QED BY <1>7, <1>9, <1>10, <1>11

\* Queries that differ in nothing but the cursor and the limit find the same rows.
SameBut(q, p) == \A f \in AskFields : q[f] = p[f]

\* What two such queries agree on.
LEMMA SameFields ==
    ASSUME NEW q, NEW p, SameBut(q, p)
    PROVE  /\ q.tenants = p.tenants /\ q.tenant = p.tenant /\ q.start = p.start /\ q.end = p.end
           /\ q.excludeAux = p.excludeAux /\ q.service = p.service /\ q.op = p.op /\ q.status = p.status
           /\ q.minDur = p.minDur /\ q.maxDur = p.maxDur /\ q.tags = p.tags /\ q.order = p.order
           /\ q.matchNone = p.matchNone /\ q.sources = p.sources /\ q.categories = p.categories
           /\ q.minSev = p.minSev /\ q.text = p.text /\ q.legacy = p.legacy /\ q.ranged = p.ranged
BY DEF SameBut, AskFields

\* They read the same rows,
LEMMA SameScan ==
    ASSUME NEW q, NEW p, SameBut(q, p), NEW rows
    PROVE  Scan(rows, q) = Scan(rows, p)
BY SameFields DEF Scan, tenantsOrDefault

\* keep the same traces,
LEMMA SameMatches ==
    ASSUME NEW q, NEW p, SameBut(q, p), NEW rs
    PROVE  TraceMatches(q, rs) <=> TraceMatches(p, rs)
<1>1. tagFiltersRep(q, rs) <=> tagFiltersRep(p, rs) BY SameFields DEF tagFiltersRep
<1>2. \A r : WithinDuration(q, r) <=> WithinDuration(p, r) BY SameFields DEF WithinDuration
<1>3. QED BY <1>1, <1>2, SameFields DEF TraceMatches

\* and so find the same traces,
LEMMA SameTraces ==
    ASSUME NEW q, NEW p, SameBut(q, p), NEW rows
    PROVE  TracesFound(rows, q) = TracesFound(rows, p)
<1>1. PICK g : g = GroupBy(Scan(rows, q), LAMBDA r : r.trace) OBVIOUS
<1>2. g = GroupBy(Scan(rows, p), LAMBDA r : r.trace) BY <1>1, SameScan
<1>3. \A u : TraceMatches(q, g[u]) <=> TraceMatches(p, g[u]) BY SameMatches
<1>4. TracesFound(rows, q) = {Summary(g[t]) : t \in {u \in DOMAIN g : TraceMatches(q, g[u])}} BY <1>1 DEF TracesFound
<1>5. TracesFound(rows, p) = {Summary(g[t]) : t \in {u \in DOMAIN g : TraceMatches(p, g[u])}} BY <1>2 DEF TracesFound
<1>6. QED BY <1>3, <1>4, <1>5

\* the same log records,
LEMMA SameLogs ==
    ASSUME NEW q, NEW p, SameBut(q, p), NEW rows
    PROVE  LogsFound(rows, q) = LogsFound(rows, p)
<1>1. ASSUME NEW r PROVE logSourceFilter(q, r) <=> logSourceFilter(p, r)
  <2>1. PICK ss, v, cs, n : ss = q.sources /\ v = q.service /\ cs = q.categories /\ n = q.matchNone OBVIOUS
  <2>2. ss = p.sources /\ v = p.service /\ cs = p.categories /\ n = p.matchNone BY <2>1, SameFields
  <2>3. QED BY <2>1, <2>2 DEF logSourceFilter
<1>2. \A r : logTagFilters(q, r) <=> logTagFilters(p, r) BY SameFields DEF logTagFilters, tagFilters
<1>3. Scan(rows, q) = Scan(rows, p) BY SameScan
<1>4. QED BY <1>1, <1>2, <1>3, SameFields DEF LogsFound

\* and the same error events.
LEMMA SameEvents ==
    ASSUME NEW q, NEW p, SameBut(q, p), NEW rows, NEW fp
    PROVE  EventsFound(rows, q, fp) = EventsFound(rows, p, fp)
BY SameScan, SameFields DEF EventsFound, tenantsOrDefault

\* A cursor is none or what a page listed last; a question has its fields and a cursor.
CursorRight(ask, c) == c = <<>> \/ \E r \in Listable(ask.on) : c = <<r>>
AskRight(ask) ==
    /\ {"on", "fp", "q"} \subseteq DOMAIN ask /\ ask.on \in {"traces", "logs", "events"}
    /\ AskFields \cup {"cursor", "limit"} \subseteq DOMAIN ask.q
    /\ ask.q.limit \in Int /\ ask.q.order \in Orders /\ CursorRight(ask, ask.q.cursor)

\* The columns of a place: those of a cursor, and the row if they are not all.
Width(ask) == IF ask.on = "traces" THEN Columns(ask) ELSE Columns(ask) + 1

\* How many columns a place and a cursor have.
LEMMA WidthOf ==
    ASSUME NEW ask, ask.on \in {"traces", "logs", "events"}
    PROVE  /\ Columns(ask) \in Nat \ {0} /\ Width(ask) \in Nat \ {0} /\ Columns(ask) <= Width(ask)
           /\ ask.on = "traces" => Width(ask) = Columns(ask) /\ Columns(ask) = 2
           /\ ask.on # "traces" => Width(ask) = Columns(ask) + 1
           /\ ask.on = "logs" => Columns(ask) = IF ask.q.legacy = "yes" THEN 3 ELSE 4
           /\ ask.on = "events" => Columns(ask) = 3
<1>1. CASE ask.on = "traces" BY <1>1 DEF Width, Columns
<1>2. CASE ask.on = "logs" BY <1>2 DEF Width, Columns
<1>3. CASE ask.on = "events" BY <1>3 DEF Width, Columns
<1>4. QED BY <1>1, <1>2, <1>3

\* A key with one more column.
LEMMA OneMore ==
    ASSUME NEW n \in Nat, NEW K \in Tuples(n), NEW x \in Int
    PROVE  /\ Append(K, x) \in Tuples(n + 1) /\ Append(K, x)[n + 1] = x
           /\ \A i \in 1 .. n : Append(K, x)[i] = K[i]
<1>1. K \in Seq(Int) /\ Len(K) = n BY SeqOfFun DEF Tuples
<1>2. PICK s : s = Append(K, x) OBVIOUS
<1>3. s \in Seq(Int) /\ Len(s) = n + 1 /\ s[n + 1] = x /\ \A i \in 1 .. n : s[i] = K[i] BY <1>1, <1>2
<1>4. s \in Tuples(n + 1) BY <1>3 DEF Tuples
<1>5. QED BY <1>2, <1>3, <1>4

\* The keys of each kind of search are tuples of numbers: those of the traces,
LEMMA TraceKeys ==
    ASSUME NEW order \in Orders, NEW t \in Listable("traces"), NEW u \in Listable("traces")
    PROVE  /\ TraceKey(order, t) \in Tuples(2)
           /\ TraceKey(order, t) = TraceKey(order, u) => t.trace = u.trace
<1>1. PICK a \in Int, b \in Int, d \in Int : a = t.start /\ b = t.trace /\ d = t.dur BY DEF Listable
<1>2. PICK e \in Int, f \in Int, h \in Int : e = u.start /\ f = u.trace /\ h = u.dur BY DEF Listable
<1>3. CASE order = "oldest"
  <2>1. TraceKey(order, t) = <<a, b>> /\ TraceKey(order, u) = <<e, f>> BY <1>1, <1>2, <1>3 DEF TraceKey
  <2>2. QED BY <1>1, <1>2, <2>1, TwoInts DEF Tuples
<1>4. CASE order = "slowest"
  <2>1. TraceKey(order, t) = <<0 - d, 0 - b>> /\ TraceKey(order, u) = <<0 - h, 0 - f>>
    BY <1>1, <1>2, <1>4 DEF TraceKey
  <2>2. 0 - d \in Int /\ 0 - b \in Int /\ (0 - b = 0 - f => b = f) OBVIOUS
  <2>3. <<0 - d, 0 - b>> \in [1 .. 2 -> Int] BY <2>2, TwoInts
  <2>4. <<0 - d, 0 - b>> = <<0 - h, 0 - f>> => 0 - b = 0 - f OBVIOUS
  <2>5. QED BY <1>1, <1>2, <2>1, <2>2, <2>3, <2>4 DEF Tuples
<1>5. CASE order = "newest"
  <2>1. TraceKey(order, t) = <<0 - a, 0 - b>> /\ TraceKey(order, u) = <<0 - e, 0 - f>>
    BY <1>1, <1>2, <1>5 DEF TraceKey
  <2>2. 0 - a \in Int /\ 0 - b \in Int /\ (0 - b = 0 - f => b = f) OBVIOUS
  <2>3. <<0 - a, 0 - b>> \in [1 .. 2 -> Int] BY <2>2, TwoInts
  <2>4. <<0 - a, 0 - b>> = <<0 - e, 0 - f>> => 0 - b = 0 - f OBVIOUS
  <2>5. QED BY <1>1, <1>2, <2>1, <2>2, <2>3, <2>4 DEF Tuples
<1>6. QED BY <1>3, <1>4, <1>5 DEF Orders

\* Those of the log records,
LEMMA LogKeys ==
    ASSUME NEW q, NEW r \in LogPool, NEW n, n = IF q.legacy = "yes" THEN 3 ELSE 4
    PROVE  LogKey(q, r) \in Tuples(n)
<1>1. r.at \in Int /\ r.svc \in Int /\ r.trace \in Int /\ r.span \in Int BY TelemetryAssumption
<1>2. PICK a \in Int, b \in Int, c \in Int, d \in Int : a = r.at /\ b = r.svc /\ c = r.trace /\ d = r.span BY <1>1
<1>3. 0 - a \in Int /\ 0 - b \in Int /\ 0 - c \in Int /\ 0 - d \in Int OBVIOUS
<1>4. CASE q.legacy = "yes"
  <2>1. LogKey(q, r) = <<0 - a, 0 - c, 0 - d>> BY <1>2, <1>4 DEF LogKey
  <2>2. <<0 - a, 0 - c, 0 - d>> \in [1 .. 3 -> Int] BY <1>3, ThreeInts
  <2>3. QED BY <1>4, <2>1, <2>2 DEF Tuples
<1>5. CASE q.legacy # "yes"
  <2>1. LogKey(q, r) = <<0 - a, 0 - b, 0 - c, 0 - d>> BY <1>2, <1>5 DEF LogKey
  <2>2. <<0 - a, 0 - b, 0 - c, 0 - d>> \in [1 .. 4 -> Int] BY <1>3, FourInts
  <2>3. QED BY <1>5, <2>1, <2>2 DEF Tuples
<1>6. QED BY <1>4, <1>5

\* and those of the error events.
LEMMA EventKeys ==
    ASSUME NEW r \in EventPool
    PROVE  EventKey(r) \in Tuples(3)
<1>1. r.at \in Int /\ r.trace \in Int /\ r.span \in Int BY TelemetryAssumption
<1>2. PICK a \in Int, b \in Int, c \in Int : a = r.at /\ b = r.trace /\ c = r.span BY <1>1
<1>3. EventKey(r) = <<0 - a, 0 - b, 0 - c>> BY <1>2 DEF EventKey
<1>4. 0 - a \in Int /\ 0 - b \in Int /\ 0 - c \in Int OBVIOUS
<1>5. <<0 - a, 0 - b, 0 - c>> \in [1 .. 3 -> Int] BY <1>4, ThreeInts
<1>6. QED BY <1>3, <1>5 DEF Tuples

\* So is the place of what a search lists.
LEMMA PlaceType ==
    ASSUME NEW ask, AskRight(ask), NEW r \in Listable(ask.on)
    PROVE  Place(ask, r) \in Tuples(Width(ask))
<1>0. ask.on \in {"traces", "logs", "events"} /\ ask.q.order \in Orders BY DEF AskRight
<1>1. CASE ask.on = "traces"
  <2>1. PICK order \in Orders, t \in Listable("traces") : order = ask.q.order /\ t = r BY <1>0, <1>1
  <2>2. TraceKey(order, t) \in Tuples(2) BY TraceKeys
  <2>3. Width(ask) = 2 BY <1>0, <1>1, WidthOf
  <2>4. QED BY <1>1, <2>1, <2>2, <2>3 DEF Place
<1>2. CASE ask.on = "logs"
  <2>1. r \in LogPool /\ r.row \in Int BY <1>2, TelemetryAssumption DEF Listable
  <2>2. PICK n \in Nat : n = Columns(ask) BY <1>0, WidthOf
  <2>3. Width(ask) = n + 1 /\ n = IF ask.q.legacy = "yes" THEN 3 ELSE 4 BY <1>0, <1>2, <2>2, WidthOf
  <2>4. PICK q, K : q = ask.q /\ K = LogKey(q, r) OBVIOUS
  <2>5. K \in Tuples(n) BY <2>1, <2>3, <2>4, LogKeys
  <2>6. Append(K, r.row) \in Tuples(n + 1) BY <2>1, <2>5, OneMore
  <2>7. QED BY <1>2, <2>3, <2>4, <2>6 DEF Place, LogPlace
<1>3. CASE ask.on = "events"
  <2>1. r \in EventPool /\ r.row \in Int BY <1>3, TelemetryAssumption DEF Listable
  <2>2. PICK n \in Nat : n = 3 OBVIOUS
  <2>3. Width(ask) = n + 1 BY <1>0, <1>3, <2>2, WidthOf
  <2>4. EventKey(r) \in Tuples(n) BY <2>1, <2>2, EventKeys
  <2>5. PICK K : K = EventKey(r) OBVIOUS
  <2>6. Append(K, r.row) \in Tuples(n + 1) BY <2>1, <2>4, <2>5, OneMore
  <2>7. QED BY <1>3, <2>3, <2>5, <2>6 DEF Place, EventPlace
<1>4. QED BY <1>0, <1>1, <1>2, <1>3

\* The tables hold rows that may arrive.
InPools(ss, ls, es) == ss \subseteq SpanPool /\ ls \subseteq LogPool /\ es \subseteq EventPool

\* What a search is about are finitely many rows, each with a place of its own.
LEMMA MatchesApart ==
    ASSUME NEW ask, AskRight(ask), NEW ss, NEW ls, NEW es, InPools(ss, ls, es), NEW M, M = Matches(ask, ss, ls, es)
    PROVE  /\ IsFiniteSet(M) /\ M \subseteq Listable(ask.on)
           /\ \A a \in M : \A b \in M : Place(ask, a) = Place(ask, b) => a = b
<1>0. ask.on \in {"traces", "logs", "events"} /\ ask.q.order \in Orders BY DEF AskRight
<1>1. CASE ask.on = "traces"
  <2>0. PICK q : q = ask.q OBVIOUS
  <2>1. PICK order \in Orders : order = q.order BY <1>0, <2>0
  <2>2. M = TracesFound(ss, q) /\ ss \in SUBSET SpanPool BY <1>1, <2>0 DEF Matches, InPools
  <2>3. /\ IsFiniteSet(M) /\ M \subseteq Listable("traces")
        /\ \A t \in M : \A u \in M : t.trace = u.trace => t = u
    BY <2>2, TracesApart
  <2>4. ASSUME NEW a \in M, NEW b \in M, Place(ask, a) = Place(ask, b) PROVE a = b
    <3>1. TraceKey(order, a) = TraceKey(order, b) BY <1>1, <2>0, <2>1, <2>4 DEF Place
    <3>2. a \in Listable("traces") /\ b \in Listable("traces") BY <2>3
    <3>3. a.trace = b.trace BY <3>1, <3>2, TraceKeys
    <3>4. QED BY <2>3, <3>3
  <2>5. QED BY <1>1, <2>3, <2>4
<1>2. CASE ask.on = "logs"
  <2>1. PICK n \in Nat : n = Columns(ask) BY <1>0, WidthOf
  <2>2. n = IF ask.q.legacy = "yes" THEN 3 ELSE 4 BY <1>0, <1>2, <2>1, WidthOf
  <2>3. M \subseteq LogPool BY <1>2 DEF Matches, LogsFound, Scan, InPools
  <2>4. IsFiniteSet(M) BY <2>3, TelemetryAssumption, FS_Subset
  <2>5. ASSUME NEW r \in M PROVE Place(ask, r)[n + 1] = r.row
    <3>1. r \in LogPool /\ r.row \in Int BY <2>3, TelemetryAssumption
    <3>2. PICK q, K : q = ask.q /\ K = LogKey(q, r) OBVIOUS
    <3>3. K \in Tuples(n) BY <2>2, <3>1, <3>2, LogKeys
    <3>4. Append(K, r.row)[n + 1] = r.row BY <3>1, <3>3, OneMore
    <3>5. QED BY <1>2, <3>2, <3>4 DEF Place, LogPlace
  <2>6. \A a \in M : \A b \in M : Place(ask, a) = Place(ask, b) => a = b
    <3>1. \A a \in M : \A b \in M : a.row = b.row => a = b BY <2>3, TelemetryAssumption
    <3>2. QED BY <2>5, <3>1
  <2>7. QED BY <1>2, <2>3, <2>4, <2>6 DEF Listable
<1>3. CASE ask.on = "events"
  <2>1. PICK n \in Nat : n = 3 OBVIOUS
  <2>3. M \subseteq EventPool BY <1>3 DEF Matches, EventsFound, InPools
  <2>4. IsFiniteSet(M) BY <2>3, TelemetryAssumption, FS_Subset
  <2>5. ASSUME NEW r \in M PROVE Place(ask, r)[n + 1] = r.row
    <3>1. r \in EventPool /\ r.row \in Int BY <2>3, TelemetryAssumption
    <3>2. PICK K : K = EventKey(r) OBVIOUS
    <3>3. K \in Tuples(n) BY <2>1, <3>1, <3>2, EventKeys
    <3>4. Append(K, r.row)[n + 1] = r.row BY <3>1, <3>3, OneMore
    <3>5. QED BY <1>3, <3>2, <3>4 DEF Place, EventPlace
  <2>6. \A a \in M : \A b \in M : Place(ask, a) = Place(ask, b) => a = b
    <3>1. \A a \in M : \A b \in M : a.row = b.row => a = b BY <2>3, TelemetryAssumption
    <3>2. QED BY <2>5, <3>1
  <2>7. QED BY <1>3, <2>3, <2>4, <2>6 DEF Listable
<1>4. QED BY <1>0, <1>1, <1>2, <1>3

\* The order depends on the columns of the first key alone.
LEMMA BelowAgree ==
    ASSUME NEW n \in Nat, NEW a, NEW b, DOMAIN a = 1 .. n, DOMAIN b = 1 .. n, \A i \in 1 .. n : a[i] = b[i],
           NEW k, NEW l, \A i \in 1 .. n : k[i] = l[i]
    PROVE  Below(a, k) <=> Below(b, l)
<1>1. \A i \in 1 .. n : \A j \in 1 .. (i - 1) : j \in 1 .. n OBVIOUS
<1>2. Below(a, k) <=> \E i \in 1 .. n : a[i] < k[i] /\ \A j \in 1 .. (i - 1) : a[j] = k[j] BY DEF Below
<1>3. Below(b, l) <=> \E i \in 1 .. n : b[i] < l[i] /\ \A j \in 1 .. (i - 1) : b[j] = l[j] BY DEF Below
<1>4. QED BY <1>1, <1>2, <1>3

\* a and b agree on n columns; L is the key K with the time cut.
Agree(n, a, b) == \A i \in 1 .. n : a[i] = b[i]
IsCut(ask, n, K, L) == DOMAIN L = 1 .. n /\ L[1] = CutTime(ask, K[1]) /\ \A i \in 2 .. n : L[i] = K[i]

\* A place is past a cursor when its first columns are above the cursor's key, K,
\* with the time cut: L.
LEMMA CutAgrees ==
    ASSUME NEW ask, ask.on \in {"traces", "logs", "events"}, NEW n, n = Columns(ask),
           NEW K, NEW P, Agree(n, P, K), NEW L, IsCut(ask, n, K, L), NEW k, NEW l, Agree(n, k, l)
    PROVE  Past(ask, P, k) <=> Below(L, l)
<1>0. /\ \A i \in 1 .. n : P[i] = K[i]
      /\ DOMAIN L = 1 .. n /\ L[1] = CutTime(ask, K[1]) /\ \A i \in 2 .. n : L[i] = K[i]
      /\ \A i \in 1 .. n : k[i] = l[i]
  BY DEF Agree, IsCut
<1>1. n \in Nat \ {0} BY WidthOf
<1>2. PICK c : c = Cut(ask, P) OBVIOUS
<1>3. DOMAIN c = 1 .. n /\ \A i \in 1 .. n : c[i] = IF i = 1 THEN CutTime(ask, P[1]) ELSE P[i] BY <1>2 DEF Cut
<1>4. \A i \in 1 .. n : c[i] = L[i]
  <2>1. 1 \in 1 .. n /\ \A i \in 1 .. n : i = 1 \/ i \in 2 .. n BY <1>1
  <2>2. P[1] = K[1] BY <1>0, <2>1
  <2>3. CutTime(ask, P[1]) = CutTime(ask, K[1]) BY <2>2
  <2>4. QED BY <1>0, <1>3, <2>1, <2>3
<1>5. n \in Nat BY <1>1
<1>6. Below(c, k) <=> Below(L, l)
  <2>1. DOMAIN c = 1 .. n /\ DOMAIN L = 1 .. n BY <1>0, <1>3
  <2>2. \A i \in 1 .. n : k[i] = l[i] BY <1>0
  <2>3. QED BY <1>4, <1>5, <2>1, <2>2, BelowAgree
<1>7. QED BY <1>2, <1>6 DEF Past

\* Where the page of a question begins.
From(ask) == Range(Places(ask, ask.q.cursor))

\* It begins nowhere, or at the place of the cursor's row.
LEMMA FromCursor ==
    ASSUME NEW ask
    PROVE  /\ ask.q.cursor = <<>> => From(ask) = {}
           /\ \A c : ask.q.cursor = <<c>> => From(ask) = {Place(ask, c)} /\ ask.q.cursor # <<>> /\ ask.q.cursor[1] = c
<1>1. PICK x : x = ask.q.cursor OBVIOUS
<1>2. CASE x = <<>>
  <2>1. DOMAIN x = {} /\ \A c : x # <<c>> BY <1>2
  <2>2. QED BY <1>1, <2>1 DEF From, Places, Range
<1>3. ASSUME NEW c, x = <<c>> PROVE From(ask) = {Place(ask, c)} /\ x # <<>> /\ x[1] = c
  <2>1. DOMAIN x = {1} /\ x[1] = c /\ x # <<>> BY <1>3
  <2>2. PICK f : f = Places(ask, x) OBVIOUS
  <2>3. DOMAIN f = {1} /\ f[1] = Place(ask, c) BY <2>1, <2>2 DEF Places
  <2>4. Range(f) = {Place(ask, c)} BY <2>3 DEF Range
  <2>5. QED BY <1>1, <2>1, <2>2, <2>4 DEF From
<1>4. CASE x # <<>> BY <1>1, <1>3, <1>4
<1>5. QED BY <1>1, <1>2, <1>3

\* The filter of each kind of search lets pass what is past the place it begins from.
LEMMA TracesAfter ==
    ASSUME NEW ask, AskRight(ask), ask.on = "traces", NEW t \in Listable("traces")
    PROVE  AfterCursor(ask.q, t) <=> \A e \in From(ask) : Past(ask, e, Place(ask, t))
<1>q. PICK q : q = ask.q OBVIOUS
<1>o. PICK order \in Orders : order = q.order BY <1>q DEF AskRight
<1>0. q = ask.q /\ order = q.order BY <1>q, <1>o
<1>1. CASE q.cursor = <<>> BY <1>0, <1>1, FromCursor DEF AfterCursor
<1>2. CASE \E r \in Listable("traces") : q.cursor = <<r>>
  <2>1. PICK c \in Listable("traces") : q.cursor = <<c>> BY <1>2
  <2>2. From(ask) = {Place(ask, c)} /\ q.cursor # <<>> /\ q.cursor[1] = c BY <1>0, <2>1, FromCursor
  <2>3. PICK x \in Int, y \in Int, z \in Int : x = c.start /\ y = c.trace /\ z = c.dur BY DEF Listable
  <2>4. PICK d : d = [c EXCEPT !.start = Bound(@)] OBVIOUS
  <2>5. d.start = Bound(x) /\ d.trace = y /\ d.dur = z BY <2>3, <2>4 DEF Listable
  <2>6. PICK K, L, k : K = TraceKey(order, c) /\ L = TraceKey(order, d) /\ k = TraceKey(order, t) OBVIOUS
  <2>7. Place(ask, c) = K /\ Place(ask, t) = k BY <1>0, <2>6 DEF Place
  <2>8. CursorKey(q) = L
    <3>1. CursorKey(q) = TraceKey(q.order, [c EXCEPT !.start = Bound(@)]) BY <2>2 DEF CursorKey
    <3>2. QED BY <1>0, <2>4, <2>6, <3>1
  <2>9. AfterCursor(q, t) <=> Below(L, k) BY <1>0, <2>2, <2>6, <2>8 DEF AfterCursor
  <2>10. Columns(ask) = 2 BY WidthOf
  <2>11. DOMAIN L = 1 .. 2 /\ L[1] = CutTime(ask, K[1]) /\ L[2] = K[2]
    <3>1. CASE order = "oldest"
      <4>1. K = <<x, y>> /\ L = <<Bound(x), y>> BY <2>3, <2>5, <2>6, <3>1 DEF TraceKey
      <4>2. CutTime(ask, x) = Bound(x) BY <1>0, <3>1 DEF CutTime
      <4>3. QED BY <4>1, <4>2
    <3>2. CASE order = "slowest"
      <4>1. K = <<0 - z, 0 - y>> /\ L = <<0 - z, 0 - y>> BY <2>3, <2>5, <2>6, <3>2 DEF TraceKey
      <4>2. PICK u : u = 0 - z OBVIOUS
      <4>3. CutTime(ask, u) = u BY <1>0, <3>2 DEF CutTime
      <4>4. K[1] = u /\ L[1] = u BY <4>1, <4>2
      <4>5. QED BY <4>1, <4>3, <4>4
    <3>3. CASE order = "newest"
      <4>1. K = <<0 - x, 0 - y>> /\ L = <<0 - Bound(x), 0 - y>> BY <2>3, <2>5, <2>6, <3>3 DEF TraceKey
      <4>2. PICK u : u = 0 - x OBVIOUS
      <4>3. CutTime(ask, u) = 0 - Bound(0 - u) BY <1>0, <3>3 DEF CutTime
      <4>4. 0 - u = x BY <4>2
      <4>5. CutTime(ask, u) = 0 - Bound(x) BY <4>3, <4>4
      <4>6. K[1] = u BY <4>1, <4>2
      <4>7. QED BY <4>1, <4>5, <4>6
    <3>4. QED BY <3>1, <3>2, <3>3 DEF Orders
  <2>12. Past(ask, K, k) <=> Below(L, k)
    <3>1. PICK n \in Nat : n = 2 OBVIOUS
    <3>2. \A i \in 2 .. n : i = 2 BY <3>1
    <3>3. IsCut(ask, n, K, L) BY <2>11, <3>1, <3>2 DEF IsCut
    <3>4. ask.on \in {"traces", "logs", "events"} /\ n = Columns(ask) BY <2>10, <3>1
    <3>5. Agree(n, K, K) /\ Agree(n, k, k) BY DEF Agree
    <3>6. QED BY <3>3, <3>4, <3>5, CutAgrees
  <2>13. QED BY <1>0, <2>2, <2>7, <2>9, <2>12
<1>3. QED BY <1>0, <1>1, <1>2 DEF AskRight, CursorRight

\* So for log records,
LEMMA LogsAfter ==
    ASSUME NEW ask, AskRight(ask), ask.on = "logs", NEW r \in LogPool
    PROVE  LogAfter(ask.q, r) <=> \A e \in From(ask) : Past(ask, e, Place(ask, r))
<1>q. PICK q : q = ask.q OBVIOUS
<1>1. CASE q.cursor = <<>> BY <1>q, <1>1, FromCursor DEF LogAfter
<1>2. CASE \E c \in LogPool : q.cursor = <<c>>
  <2>1. PICK c \in LogPool : q.cursor = <<c>> BY <1>2
  <2>2. From(ask) = {Place(ask, c)} /\ q.cursor # <<>> /\ q.cursor[1] = c BY <1>q, <2>1, FromCursor
  <2>3. PICK n \in Nat : n = Columns(ask) BY WidthOf
  <2>4. n = IF q.legacy = "yes" THEN 3 ELSE 4 BY <1>q, <2>3, WidthOf
  <2>5. PICK d : d = [c EXCEPT !.at = Bound(@)] OBVIOUS
  <2>6. PICK K, L, k : K = LogKey(q, c) /\ L = LogKey(q, d) /\ k = LogKey(q, r) OBVIOUS
  <2>7. PICK P, p : P = Append(K, c.row) /\ p = Append(k, r.row) OBVIOUS
  <2>8. Place(ask, c) = P /\ Place(ask, r) = p BY <1>q, <2>6, <2>7 DEF Place, LogPlace
  <2>9. LogAfter(q, r) <=> Below(L, k) BY <2>2, <2>5, <2>6 DEF LogAfter
  <2>10. Agree(n, P, K) /\ Agree(n, p, k)
    <3>1. K \in Tuples(n) /\ k \in Tuples(n) BY <2>4, <2>6, LogKeys
    <3>2. c.row \in Int /\ r.row \in Int BY TelemetryAssumption
    <3>3. \A i \in 1 .. n : Append(K, c.row)[i] = K[i] BY <3>1, <3>2, OneMore
    <3>4. \A i \in 1 .. n : Append(k, r.row)[i] = k[i] BY <3>1, <3>2, OneMore
    <3>5. QED BY <2>7, <3>3, <3>4 DEF Agree
  <2>11. IsCut(ask, n, K, L)
    <3>1. /\ c.at \in Int /\ c.svc \in Int /\ c.trace \in Int /\ c.span \in Int
          /\ {"at", "svc", "trace", "span"} \subseteq DOMAIN c
      BY TelemetryAssumption
    <3>2. PICK x \in Int, y \in Int, z \in Int, w \in Int : x = c.at /\ y = c.svc /\ z = c.trace /\ w = c.span
      BY <3>1
    <3>3. d.at = Bound(x) /\ d.svc = y /\ d.trace = z /\ d.span = w BY <2>5, <3>1, <3>2
    <3>4. PICK u : u = 0 - x OBVIOUS
    <3>5. CutTime(ask, u) = 0 - Bound(0 - u) BY DEF CutTime
    <3>6. 0 - u = x BY <3>4
    <3>7. CutTime(ask, u) = 0 - Bound(x) BY <3>5, <3>6
    <3>8. CASE q.legacy = "yes"
      <4>1. K = <<0 - x, 0 - z, 0 - w>> /\ L = <<0 - Bound(x), 0 - z, 0 - w>> BY <2>6, <3>2, <3>3, <3>8 DEF LogKey
      <4>2. K[1] = u /\ L[1] = 0 - Bound(x) BY <3>4, <4>1
      <4>3. DOMAIN L = 1 .. 3 /\ L[2] = K[2] /\ L[3] = K[3] BY <4>1
      <4>4. n = 3 /\ \A i \in 2 .. n : i = 2 \/ i = 3 BY <2>4, <3>8
      <4>5. QED BY <3>7, <4>2, <4>3, <4>4 DEF IsCut
    <3>9. CASE q.legacy # "yes"
      <4>1. K = <<0 - x, 0 - y, 0 - z, 0 - w>> /\ L = <<0 - Bound(x), 0 - y, 0 - z, 0 - w>>
        BY <2>6, <3>2, <3>3, <3>9 DEF LogKey
      <4>2. K[1] = u /\ L[1] = 0 - Bound(x) BY <3>4, <4>1
      <4>3. DOMAIN L = 1 .. 4 /\ L[2] = K[2] /\ L[3] = K[3] /\ L[4] = K[4] BY <4>1
      <4>4. n = 4 /\ \A i \in 2 .. n : i = 2 \/ i = 3 \/ i = 4 BY <2>4, <3>9
      <4>5. QED BY <3>7, <4>2, <4>3, <4>4 DEF IsCut
    <3>10. QED BY <3>8, <3>9
  <2>12. Past(ask, P, p) <=> Below(L, k)
    <3>1. ask.on \in {"traces", "logs", "events"} OBVIOUS
    <3>2. QED BY <2>3, <2>10, <2>11, <3>1, CutAgrees
  <2>13. QED BY <1>q, <2>2, <2>8, <2>9, <2>12
<1>3. QED BY <1>q, <1>1, <1>2 DEF AskRight, CursorRight, Listable

\* and for error events.
LEMMA EventsAfter ==
    ASSUME NEW ask, AskRight(ask), ask.on = "events", NEW r \in EventPool
    PROVE  EventAfter(ask.q, r) <=> \A e \in From(ask) : Past(ask, e, Place(ask, r))
<1>q. PICK q : q = ask.q OBVIOUS
<1>1. CASE q.cursor = <<>> BY <1>q, <1>1, FromCursor DEF EventAfter
<1>2. CASE \E c \in EventPool : q.cursor = <<c>>
  <2>1. PICK c \in EventPool : q.cursor = <<c>> BY <1>2
  <2>2. From(ask) = {Place(ask, c)} /\ q.cursor # <<>> /\ q.cursor[1] = c BY <1>q, <2>1, FromCursor
  <2>3. PICK n \in Nat : n = 3 OBVIOUS
  <2>4. n = Columns(ask) BY <2>3, WidthOf
  <2>5. PICK d : d = [c EXCEPT !.at = Bound(@)] OBVIOUS
  <2>6. PICK K, L, k : K = EventKey(c) /\ L = EventKey(d) /\ k = EventKey(r) OBVIOUS
  <2>7. PICK P, p : P = Append(K, c.row) /\ p = Append(k, r.row) OBVIOUS
  <2>8. Place(ask, c) = P /\ Place(ask, r) = p BY <2>6, <2>7 DEF Place, EventPlace
  <2>9. EventAfter(q, r) <=> Below(L, k) BY <2>2, <2>5, <2>6 DEF EventAfter
  <2>10. Agree(n, P, K) /\ Agree(n, p, k)
    <3>1. K \in Tuples(n) /\ k \in Tuples(n) BY <2>3, <2>6, EventKeys
    <3>2. c.row \in Int /\ r.row \in Int BY TelemetryAssumption
    <3>3. \A i \in 1 .. n : Append(K, c.row)[i] = K[i] BY <3>1, <3>2, OneMore
    <3>4. \A i \in 1 .. n : Append(k, r.row)[i] = k[i] BY <3>1, <3>2, OneMore
    <3>5. QED BY <2>7, <3>3, <3>4 DEF Agree
  <2>11. IsCut(ask, n, K, L)
    <3>1. c.at \in Int /\ c.trace \in Int /\ c.span \in Int /\ {"at", "trace", "span"} \subseteq DOMAIN c
      BY TelemetryAssumption
    <3>2. PICK x \in Int, z \in Int, w \in Int : x = c.at /\ z = c.trace /\ w = c.span BY <3>1
    <3>3. d.at = Bound(x) /\ d.trace = z /\ d.span = w BY <2>5, <3>1, <3>2
    <3>4. PICK u : u = 0 - x OBVIOUS
    <3>5. CutTime(ask, u) = 0 - Bound(0 - u) BY DEF CutTime
    <3>6. 0 - u = x BY <3>4
    <3>7. CutTime(ask, u) = 0 - Bound(x) BY <3>5, <3>6
    <3>8. K = <<0 - x, 0 - z, 0 - w>> /\ L = <<0 - Bound(x), 0 - z, 0 - w>> BY <2>6, <3>2, <3>3 DEF EventKey
    <3>9. K[1] = u /\ L[1] = 0 - Bound(x) BY <3>4, <3>8
    <3>10. DOMAIN L = 1 .. 3 /\ L[2] = K[2] /\ L[3] = K[3] BY <3>8
    <3>11. \A i \in 2 .. n : i = 2 \/ i = 3 BY <2>3
    <3>12. QED BY <2>3, <3>7, <3>9, <3>10, <3>11 DEF IsCut
  <2>12. Past(ask, P, p) <=> Below(L, k)
    <3>1. ask.on \in {"traces", "logs", "events"} OBVIOUS
    <3>2. QED BY <2>4, <2>10, <2>11, <3>1, CutAgrees
  <2>13. QED BY <1>q, <2>2, <2>8, <2>9, <2>12
<1>3. QED BY <1>q, <1>1, <1>2 DEF AskRight, CursorRight, Listable

\* What is left of a search where its page begins: the rows, and their places.
RowsLeft(ask, ss, ls, es) == {r \in Matches(ask, ss, ls, es) : \A e \in From(ask) : Past(ask, e, Place(ask, r))}
KeysLeft(ask, ss, ls, es) == {k \in Found(ask, ss, ls, es) : \A e \in From(ask) : Past(ask, e, k)}
Tabled == InPools(spans, logs, events)

\* Every search takes its page of what is left, in the order of the places.
LEMMA PageTaken ==
    ASSUME Tabled, NEW ask, AskRight(ask), NEW S, S = RowsLeft(ask, spans, logs, events),
           NEW key, key = [r \in S |-> Place(ask, r)], NEW p, p = PageBy(key, Limited(ask.q.limit, 500, 50), S)
    PROVE  Page(ask).rows = p.rows /\ Page(ask).next = p.next
<1>0. ask.on \in {"traces", "logs", "events"} BY DEF AskRight
<1>1. PICK M : M = Matches(ask, spans, logs, events) OBVIOUS
<1>2. M \subseteq Listable(ask.on) BY <1>1, MatchesApart DEF Tabled
<1>3. S = {r \in M : \A e \in From(ask) : Past(ask, e, Place(ask, r))} BY <1>1 DEF RowsLeft
<1>4. CASE ask.on = "traces"
  <2>1. M = TracesFound(spans, ask.q) BY <1>1, <1>4 DEF Matches
  <2>2. \A t \in M : AfterCursor(ask.q, t) <=> \A e \in From(ask) : Past(ask, e, Place(ask, t))
    BY <1>2, <1>4, TracesAfter
  <2>3. S = {t \in TracesFound(spans, ask.q) : AfterCursor(ask.q, t)} BY <1>3, <2>1, <2>2
  <2>4. key = [t \in S |-> TraceKey(ask.q.order, t)] BY <1>4 DEF Place
  <2>5. SearchTraces(spans, ask.q) = PageBy([t \in S |-> TraceKey(ask.q.order, t)], Limited(ask.q.limit, 500, 50), S)
    BY <2>3 DEF SearchTraces
  <2>6. Page(ask) = SearchTraces(spans, ask.q) BY <1>4 DEF Page
  <2>7. QED BY <2>4, <2>5, <2>6
<1>5. CASE ask.on = "logs"
  <2>1. M = LogsFound(logs, ask.q) BY <1>1, <1>5 DEF Matches
  <2>2. \A r \in M : LogAfter(ask.q, r) <=> \A e \in From(ask) : Past(ask, e, Place(ask, r))
    BY <1>2, <1>5, LogsAfter DEF Listable
  <2>3. S = {r \in LogsFound(logs, ask.q) : LogAfter(ask.q, r)} BY <1>3, <2>1, <2>2
  <2>4. key = [r \in S |-> LogPlace(ask.q, r)] BY <1>5 DEF Place
  <2>5. PICK o : o = PageBy([r \in S |-> LogPlace(ask.q, r)], Limited(ask.q.limit, 500, 50), S) OBVIOUS
  <2>6. SearchLogs(logs, ask.q).rows = o.rows /\ SearchLogs(logs, ask.q).next = o.next
    BY <2>3, <2>5 DEF SearchLogs
  <2>7. Page(ask) = SearchLogs(logs, ask.q) BY <1>5 DEF Page
  <2>8. QED BY <2>4, <2>5, <2>6, <2>7
<1>6. CASE ask.on = "events"
  <2>1. M = EventsFound(events, ask.q, ask.fp) BY <1>1, <1>6 DEF Matches
  <2>2. \A r \in M : EventAfter(ask.q, r) <=> \A e \in From(ask) : Past(ask, e, Place(ask, r))
    BY <1>2, <1>6, EventsAfter DEF Listable
  <2>3. S = {r \in EventsFound(events, ask.q, ask.fp) : EventAfter(ask.q, r)} BY <1>3, <2>1, <2>2
  <2>4. key = [r \in S |-> EventPlace(r)] BY <1>6 DEF Place
  <2>5. ListErrorEvents(events, ask.q, ask.fp)
          = PageBy([r \in S |-> EventPlace(r)], Limited(ask.q.limit, 500, 50), S)
    BY <2>3 DEF ListErrorEvents
  <2>6. Page(ask) = ListErrorEvents(events, ask.q, ask.fp) BY <1>6 DEF Page
  <2>7. QED BY <2>4, <2>5, <2>6
<1>7. QED BY <1>0, <1>4, <1>5, <1>6

\* A page shows the first of the places that are left, and ends with the next cursor.
LEMMA PageShows ==
    ASSUME Tabled, NEW ask, AskRight(ask), NEW next, next = Page(ask).next
    PROVE  /\ PageRight(KeysLeft(ask, spans, logs, events), Places(ask, Page(ask).rows),
                        IF next = <<>> THEN <<>> ELSE Place(ask, next[1]))
           /\ CursorRight(ask, next)
<1>1. PICK M, S : M = Matches(ask, spans, logs, events) /\ S = RowsLeft(ask, spans, logs, events) OBVIOUS
<1>2. PICK n \in Nat \ {0} : n = Width(ask) BY WidthOf DEF AskRight
<1>3. PICK limit \in Nat \ {0} : limit = Limited(ask.q.limit, 500, 50) BY LimitPositive DEF AskRight
<1>4. PICK key : key = [r \in S |-> Place(ask, r)] OBVIOUS
<1>5. PICK p : p = PageBy(key, limit, S) OBVIOUS
<1>6. S = {r \in M : \A e \in From(ask) : Past(ask, e, Place(ask, r))} /\ S \subseteq M BY <1>1 DEF RowsLeft
<1>7. /\ IsFiniteSet(M) /\ M \subseteq Listable(ask.on)
      /\ \A a \in M : \A b \in M : Place(ask, a) = Place(ask, b) => a = b
  BY <1>1, MatchesApart DEF Tabled
<1>8. IsFiniteSet(S) BY <1>6, <1>7, FS_Subset
<1>9. \A x \in S : key[x] \in Tuples(n) BY <1>2, <1>4, <1>6, <1>7, PlaceType
<1>10. \A x \in S : \A y \in S : key[x] = key[y] => x = y BY <1>4, <1>6, <1>7
<1>11. /\ PageRight(KeySet(S, key), KeysShown(p.rows, key), IF p.next = <<>> THEN <<>> ELSE key[p.next[1]])
       /\ p.rows \in Seq(S) /\ (p.next = <<>> \/ \E c \in S : p.next = <<c>>)
  BY <1>5, <1>8, <1>9, <1>10, PageByRight
<1>12. Page(ask).rows = p.rows /\ next = p.next BY <1>1, <1>3, <1>4, <1>5, PageTaken
<1>13. KeySet(S, key) = KeysLeft(ask, spans, logs, events)
  <2>1. KeySet(S, key) = {Place(ask, r) : r \in S} BY <1>4 DEF KeySet
  <2>2. Found(ask, spans, logs, events) = {Place(ask, r) : r \in M} BY <1>1 DEF Found
  <2>3. QED BY <1>6, <2>1, <2>2 DEF KeysLeft
<1>14. KeysShown(p.rows, key) = Places(ask, p.rows)
  <2>1. PICK rows : rows = p.rows OBVIOUS
  <2>2. \A i \in DOMAIN rows : rows[i] \in S BY <1>11, <2>1
  <2>3. \A i \in DOMAIN rows : key[rows[i]] = Place(ask, rows[i]) BY <1>4, <2>2
  <2>4. QED BY <2>1, <2>3 DEF KeysShown, Places
<1>15. (IF p.next = <<>> THEN <<>> ELSE key[p.next[1]]) = (IF next = <<>> THEN <<>> ELSE Place(ask, next[1]))
  <2>1. CASE p.next = <<>> BY <1>12, <2>1
  <2>2. ASSUME NEW c \in S, p.next = <<c>> PROVE key[p.next[1]] = Place(ask, next[1]) BY <1>4, <1>12, <2>2
  <2>3. QED BY <1>11, <1>12, <2>1, <2>2
<1>16. CursorRight(ask, next) BY <1>6, <1>7, <1>11, <1>12 DEF CursorRight
<1>17. PageRight(KeysLeft(ask, spans, logs, events), Places(ask, Page(ask).rows),
                 IF next = <<>> THEN <<>> ELSE Place(ask, next[1]))
  BY <1>11, <1>12, <1>13, <1>14, <1>15
<1>18. QED BY <1>16, <1>17

\* A time cut to its second is a time.
LEMMA BoundType ==
    ASSUME NEW t \in Int
    PROVE  Bound(t) \in Int
<1>1. Second \in Int /\ Second > 0 BY SecondAssumption
<1>2. t % Second \in Int BY <1>1
<1>3. QED BY <1>2 DEF Bound

\* What a cursor passes over lies below everything that comes after it: a place that
\* comes after one past the cursor is past it too.
LEMMA PastThrough ==
    ASSUME NEW ask, AskRight(ask), NEW n, n = Width(ask), NEW c \in Tuples(n), NEW k \in Tuples(n), NEW l \in Tuples(n),
           Past(ask, c, k), k = l \/ Below(k, l)
    PROVE  Past(ask, c, l)
<1>1. PICK m \in Nat \ {0} : m = Columns(ask) BY WidthOf DEF AskRight
<1>2. n \in Nat \ {0} /\ m <= n BY <1>1, WidthOf DEF AskRight
<1>3. PICK C : C = Cut(ask, c) OBVIOUS
<1>4. C = [i \in 1 .. m |-> IF i = 1 THEN CutTime(ask, c[1]) ELSE c[i]] BY <1>1, <1>3 DEF Cut
<1>5. 1 \in 1 .. n /\ \A i \in 1 .. m : i \in 1 .. n BY <1>2
<1>6. \A i \in 1 .. n : c[i] \in Int BY DEF Tuples
<1>7. CutTime(ask, c[1]) \in Int
  <2>1. PICK t \in Int : t = c[1] BY <1>5, <1>6
  <2>2. Bound(t) \in Int /\ 0 - t \in Int BY BoundType
  <2>3. Bound(0 - t) \in Int BY <2>2, BoundType
  <2>4. 0 - Bound(0 - t) \in Int BY <2>3
  <2>5. CASE ask.on = "traces" /\ ask.q.order = "oldest" BY <2>1, <2>2, <2>5 DEF CutTime
  <2>6. CASE ask.on = "traces" /\ ask.q.order = "slowest" BY <2>1, <2>6 DEF CutTime
  <2>7. CASE ask.on # "traces" \/ (ask.q.order # "oldest" /\ ask.q.order # "slowest")
    <3>1. CutTime(ask, t) = 0 - Bound(0 - t) BY <2>7 DEF CutTime
    <3>2. QED BY <2>1, <2>4, <3>1
  <2>8. QED BY <2>5, <2>6, <2>7
<1>8. C \in Tuples(m) BY <1>4, <1>5, <1>6, <1>7 DEF Tuples
<1>9. Below(C, k) BY <1>3 DEF Past
<1>10. Below(C, l)
  <2>1. CASE k = l BY <1>9, <2>1
  <2>2. CASE Below(k, l)
    <3>1. m \in Nat /\ n \in Nat BY <1>2
    <3>2. QED BY <1>2, <1>8, <1>9, <2>2, <3>1, BelowThrough
  <2>3. QED BY <2>1, <2>2
<1>11. QED BY <1>3, <1>10 DEF Past

\* Turning the page leaves the question as it was.
Turned(ask, c) == [ask EXCEPT !.q.cursor = c]

\* It is a question still, with the new cursor.
LEMMA TurnedFields ==
    ASSUME NEW ask, AskRight(ask), NEW c, CursorRight(ask, c), NEW b, b = Turned(ask, c)
    PROVE  /\ AskRight(b) /\ b.q.cursor = c /\ b.on = ask.on /\ b.fp = ask.fp /\ SameBut(b.q, ask.q)
<1>1. PICK q, p : q = ask.q /\ p = [q EXCEPT !.cursor = c] OBVIOUS
<1>2. /\ {"on", "fp", "q"} \subseteq DOMAIN ask /\ AskFields \cup {"cursor", "limit"} \subseteq DOMAIN q
  BY <1>1 DEF AskRight
<1>3. b = [ask EXCEPT !.q = p] BY <1>1 DEF Turned
<1>4. b.q = p /\ b.on = ask.on /\ b.fp = ask.fp /\ DOMAIN b = DOMAIN ask BY <1>2, <1>3
<1>5. DOMAIN p = DOMAIN q /\ p.cursor = c BY <1>1, <1>2
<1>6. \A f \in DOMAIN q : f # "cursor" => p[f] = q[f] BY <1>1
<1>7. SameBut(p, q) BY <1>2, <1>6 DEF SameBut, AskFields
<1>8. p.order = q.order /\ p.limit = q.limit BY <1>2, <1>6 DEF AskFields
<1>9. CursorRight(b, c) BY <1>4 DEF CursorRight
<1>10. AskRight(b)
  <2>1. ask.on \in {"traces", "logs", "events"} /\ q.limit \in Int /\ q.order \in Orders BY <1>1 DEF AskRight
  <2>2. QED BY <1>2, <1>4, <1>5, <1>8, <1>9, <2>1 DEF AskRight
<1>11. QED BY <1>1, <1>4, <1>5, <1>7, <1>10

\* It finds the same, in the same places, past the same cursors.
LEMMA PageTurned ==
    ASSUME NEW ask, AskRight(ask), NEW c, CursorRight(ask, c), NEW b, b = Turned(ask, c)
    PROVE  /\ AskRight(b) /\ b.q.cursor = c /\ Width(b) = Width(ask)
           /\ \A ss, ls, es : Found(b, ss, ls, es) = Found(ask, ss, ls, es)
           /\ \A r : Place(b, r) = Place(ask, r)
           /\ \A d, k : Past(b, d, k) <=> Past(ask, d, k)
<1>1. PICK q, p : q = ask.q /\ p = b.q OBVIOUS
<1>2. AskRight(b) /\ p.cursor = c /\ b.on = ask.on /\ b.fp = ask.fp /\ SameBut(p, q)
  BY <1>1, TurnedFields
<1>3. p.order = q.order /\ p.legacy = q.legacy BY <1>2, SameFields
<1>4. Columns(b) = Columns(ask) /\ Width(b) = Width(ask) BY <1>1, <1>2, <1>3 DEF Columns, Width
<1>5. \A r : LogKey(p, r) = LogKey(q, r) BY <1>3 DEF LogKey
<1>6. \A r : LogPlace(p, r) = LogPlace(q, r) BY <1>5 DEF LogPlace
<1>7. ASSUME NEW r PROVE Place(b, r) = Place(ask, r)
  <2>1. PICK l, o, on, k : l = LogPlace(q, r) /\ o = q.order /\ on = ask.on /\ k = EventPlace(r) OBVIOUS
  <2>2. Place(ask, r) = CASE on = "traces" -> TraceKey(o, r) [] on = "logs" -> l [] on = "events" -> k
    BY <1>1, <2>1 DEF Place
  <2>3. l = LogPlace(p, r) BY <1>6, <2>1
  <2>4. Place(b, r) = CASE on = "traces" -> TraceKey(o, r) [] on = "logs" -> l [] on = "events" -> k
    BY <1>1, <1>2, <1>3, <2>1, <2>3 DEF Place
  <2>5. QED BY <2>2, <2>4
<1>8. ASSUME NEW ss, NEW ls, NEW es PROVE Matches(b, ss, ls, es) = Matches(ask, ss, ls, es)
  <2>1. PICK on, T, L, E : on = ask.on /\ T = TracesFound(ss, q) /\ L = LogsFound(ls, q) /\ E = EventsFound(es, q, ask.fp)
    OBVIOUS
  <2>2. T = TracesFound(ss, p) /\ L = LogsFound(ls, p) /\ E = EventsFound(es, p, ask.fp)
    BY <1>2, <2>1, SameTraces, SameLogs, SameEvents
  <2>3. Matches(ask, ss, ls, es) = CASE on = "traces" -> T [] on = "logs" -> L [] on = "events" -> E
    BY <1>1, <2>1 DEF Matches
  <2>4. Matches(b, ss, ls, es) = CASE on = "traces" -> T [] on = "logs" -> L [] on = "events" -> E
    BY <1>1, <1>2, <2>1, <2>2 DEF Matches
  <2>5. QED BY <2>3, <2>4
<1>9. ASSUME NEW ss, NEW ls, NEW es PROVE Found(b, ss, ls, es) = Found(ask, ss, ls, es)
  <2>1. PICK M : M = Matches(ask, ss, ls, es) OBVIOUS
  <2>2. Found(ask, ss, ls, es) = {Place(ask, r) : r \in M} BY <2>1 DEF Found
  <2>3. Found(b, ss, ls, es) = {Place(b, r) : r \in M} BY <1>8, <2>1 DEF Found
  <2>4. QED BY <1>7, <2>2, <2>3
<1>10. ASSUME NEW t PROVE CutTime(b, t) = CutTime(ask, t) BY <1>1, <1>2, <1>3 DEF CutTime
<1>11. ASSUME NEW d, NEW k PROVE Past(b, d, k) <=> Past(ask, d, k)
  <2>1. Cut(b, d) = Cut(ask, d) BY <1>4, <1>10 DEF Cut
  <2>2. QED BY <2>1 DEF Past
<1>12. QED BY <1>1, <1>2, <1>4, <1>7, <1>9, <1>11

\* A place that is dropped, or taken in again, by one of the cursors is so by one of more.
LEMMA EndsGrow ==
    ASSUME NEW ask, NEW ends, NEW more, ends \subseteq more, NEW k
    PROVE  /\ Lost(ask, ends, k) => Lost(ask, more, k)
           /\ Repeated(ask, ends, k) => Repeated(ask, more, k)
BY DEF Lost, Repeated

\* Of the places that a client has got, those it has twice a cursor has taken in again.
Accounted(ask, ends, got) ==
    \A i \in 1 .. Len(got) : \A j \in 1 .. Len(got) : i # j /\ got[i] = got[j] => Repeated(ask, ends, got[i])

\* They come before the end of the last page, or were taken in again.
Behind(ask, ends, got, e) ==
    e \in ends /\ \A i \in 1 .. Len(got) : got[i] = e \/ Below(got[i], e) \/ Repeated(ask, ends, got[i])

\* What a client has to get it has got, or a cursor has dropped it, or it is still left.
Due(ask, ends, got, E, K) == \A k \in K : In(k, got) \/ Lost(ask, ends, k) \/ \A e \in E : Past(ask, e, k)

\* A list of places and a page that is added to it.
LEMMA JoinPages ==
    ASSUME NEW X, NEW got \in Seq(X), NEW ks \in Seq(X), NEW all, all = got \o ks
    PROVE  /\ all \in Seq(X) /\ Len(all) \in Nat
           /\ \A i \in 1 .. Len(all) : (i \in 1 .. Len(got) /\ all[i] = got[i])
                                       \/ \E h \in 1 .. Len(ks) : i = Len(got) + h /\ all[i] = ks[h]
           /\ \A k : In(k, got) \/ In(k, ks) => In(k, all)
<1>1. PICK l, m : l = Len(got) /\ m = Len(ks) OBVIOUS
<1>2. l \in Nat /\ m \in Nat BY <1>1
<1>3. all \in Seq(X) /\ Len(all) = l + m BY <1>1
<1>4. \A i \in 1 .. l : all[i] = got[i] BY <1>1, <1>2
<1>5. \A i \in 1 .. m : all[l + i] = ks[i] /\ l + i \in 1 .. (l + m) BY <1>1, <1>2
<1>6. ASSUME NEW i \in 1 .. (l + m)
      PROVE  (i \in 1 .. l /\ all[i] = got[i]) \/ \E h \in 1 .. m : i = l + h /\ all[i] = ks[h]
  <2>1. CASE i \in 1 .. l BY <1>4, <2>1
  <2>2. CASE i \notin 1 .. l
    <3>1. PICK h : h = i - l OBVIOUS
    <3>2. h \in 1 .. m /\ i = l + h BY <1>2, <2>2, <3>1
    <3>3. QED BY <1>5, <3>2
  <2>3. QED BY <2>1, <2>2
<1>7. ASSUME NEW k, In(k, got) \/ In(k, ks) PROVE In(k, all)
  <2>1. CASE In(k, got)
    <3>1. PICK i \in 1 .. l : got[i] = k BY <1>1, <2>1 DEF In
    <3>2. i \in 1 .. (l + m) BY <1>2
    <3>3. all[i] = k BY <1>4, <3>1
    <3>4. QED BY <1>3, <3>2, <3>3 DEF In
  <2>2. CASE In(k, ks)
    <3>1. PICK i \in 1 .. m : ks[i] = k BY <1>1, <2>2 DEF In
    <3>2. l + i \in 1 .. (l + m) /\ all[l + i] = k BY <1>5, <3>1
    <3>3. QED BY <1>3, <3>2 DEF In
  <2>3. QED BY <1>7, <2>1, <2>2
<1>8. QED BY <1>1, <1>2, <1>3, <1>6, <1>7

\* A place past a cursor that it does not come after is taken in again by it.
LEMMA TakenAgain ==
    ASSUME NEW ask, NEW n \in Nat, NEW ends, NEW e \in ends, e \in Tuples(n), NEW g \in Tuples(n),
           g = e \/ Below(g, e), Past(ask, e, g)
    PROVE  Repeated(ask, ends, g)
<1>1. ~Below(e, g)
  <2>1. SUFFICES ASSUME Below(e, g) PROVE FALSE OBVIOUS
  <2>2. ~Below(e, e) BY BelowOrder
  <2>3. CASE g = e BY <2>1, <2>2, <2>3
  <2>4. CASE Below(g, e)
    <3>1. Below(e, e) BY <2>1, <2>4, BelowOrder
    <3>2. QED BY <2>2, <3>1
  <2>5. QED BY <2>3, <2>4
<1>2. QED BY <1>1 DEF Repeated

\* What a page begins from: the places got so far, and the ends of their pages.
Turning(ask, n, ends, got, E, ks) ==
    /\ got \in Seq(Tuples(n)) /\ ks \in Seq(Tuples(n)) /\ Increasing(ks)
    /\ Accounted(ask, ends, got) /\ (E = {} => got = <<>>)
    /\ \A e \in E : Behind(ask, ends, got, e) /\ e \in Tuples(n)
    /\ \A e \in E : \A h \in 1 .. Len(ks) : Past(ask, e, ks[h])

\* An old place is a new one only if it is taken in again.
LEMMA OldAndNew ==
    ASSUME NEW ask, NEW n \in Nat, NEW ends, NEW got, NEW E, NEW ks, Turning(ask, n, ends, got, E, ks),
           NEW i \in 1 .. Len(got), NEW h \in 1 .. Len(ks), got[i] = ks[h]
    PROVE  Repeated(ask, ends, got[i])
<1>1. PICK g \in Tuples(n) : g = got[i] BY DEF Turning
<1>2. got # <<>>
  <2>1. SUFFICES ASSUME got = <<>> PROVE FALSE OBVIOUS
  <2>2. Len(got) = 0 BY <2>1
  <2>3. QED BY <2>2
<1>3. PICK e \in E : TRUE BY <1>2 DEF Turning
<1>4. Behind(ask, ends, got, e) /\ e \in Tuples(n) /\ Past(ask, e, g) BY <1>1 DEF Turning
<1>5. e \in ends /\ (g = e \/ Below(g, e) \/ Repeated(ask, ends, g)) BY <1>1, <1>4 DEF Behind
<1>6. CASE g = e \/ Below(g, e)
  <2>1. Repeated(ask, ends, g) BY <1>4, <1>5, <1>6, TakenAgain
  <2>2. QED BY <1>1, <2>1
<1>7. QED BY <1>1, <1>5, <1>6

\* With a page added, what is shown twice has been taken in again by a cursor,
LEMMA PageAccounted ==
    ASSUME NEW ask, NEW n \in Nat, NEW ends, NEW got, NEW E, NEW ks, Turning(ask, n, ends, got, E, ks),
           NEW all, all = got \o ks
    PROVE  Accounted(ask, ends, all)
<1>1. PICK X : X = Tuples(n) OBVIOUS
<1>2. got \in Seq(X) /\ ks \in Seq(X) BY <1>1 DEF Turning
<1>3. \A i \in 1 .. Len(all) : (i \in 1 .. Len(got) /\ all[i] = got[i])
                               \/ \E h \in 1 .. Len(ks) : i = Len(got) + h /\ all[i] = ks[h]
  BY <1>2, JoinPages
<1>4. SUFFICES ASSUME NEW i \in 1 .. Len(all), NEW j \in 1 .. Len(all), i # j, all[i] = all[j]
               PROVE  Repeated(ask, ends, all[i])
  BY DEF Accounted
<1>5. CASE i \in 1 .. Len(got) /\ all[i] = got[i] /\ j \in 1 .. Len(got) /\ all[j] = got[j]
  <2>1. Accounted(ask, ends, got) BY DEF Turning
  <2>2. QED BY <1>4, <1>5, <2>1 DEF Accounted
<1>6. ASSUME i \in 1 .. Len(got), all[i] = got[i], NEW h \in 1 .. Len(ks), all[j] = ks[h]
      PROVE  Repeated(ask, ends, all[i])
  <2>1. got[i] = ks[h] BY <1>4, <1>6
  <2>2. QED BY <1>6, <2>1, OldAndNew
<1>7. ASSUME j \in 1 .. Len(got), all[j] = got[j], NEW h \in 1 .. Len(ks), all[i] = ks[h]
      PROVE  Repeated(ask, ends, all[i])
  <2>1. got[j] = ks[h] BY <1>4, <1>7
  <2>2. Repeated(ask, ends, got[j]) BY <1>7, <2>1, OldAndNew
  <2>3. QED BY <1>4, <1>7, <2>2
<1>8. ASSUME NEW h \in 1 .. Len(ks), i = Len(got) + h, all[i] = ks[h],
             NEW g \in 1 .. Len(ks), j = Len(got) + g, all[j] = ks[g]
      PROVE  FALSE
  <2>1. h # g BY <1>4, <1>8
  <2>2. h < g \/ g < h BY <2>1
  <2>3. PICK k \in Tuples(n) : k = ks[h] BY DEF Turning
  <2>4. Below(k, k) BY <1>4, <1>8, <2>2, <2>3 DEF Turning, Increasing
  <2>5. QED BY <2>3, <2>4, BelowOrder
<1>9. QED BY <1>3, <1>5, <1>6, <1>7, <1>8

\* and lies at or before the page's end unless it has been.
LEMMA PageBehind ==
    ASSUME NEW ask, AskRight(ask), NEW n \in Nat, n = Width(ask),
           NEW ends, NEW got, NEW E, NEW ks, Turning(ask, n, ends, got, E, ks),
           NEW all, all = got \o ks, Len(ks) > 0, NEW c, c = ks[Len(ks)], NEW more, more = ends \cup {c}
    PROVE  Behind(ask, more, all, c)
<1>1. PICK X : X = Tuples(n) OBVIOUS
<1>2. got \in Seq(X) /\ ks \in Seq(X) BY <1>1 DEF Turning
<1>3. \A i \in 1 .. Len(all) : (i \in 1 .. Len(got) /\ all[i] = got[i])
                               \/ \E h \in 1 .. Len(ks) : i = Len(got) + h /\ all[i] = ks[h]
  BY <1>2, JoinPages
<1>4. PICK m \in Nat : m = Len(ks) BY <1>2
<1>5. m \in 1 .. Len(ks) /\ c = ks[m] BY <1>4
<1>6. c \in Tuples(n) BY <1>2, <1>5, <1>1
<1>7. ASSUME NEW h \in 1 .. Len(ks) PROVE ks[h] = c \/ Below(ks[h], c)
  <2>1. h = m \/ h < m BY <1>4
  <2>2. QED BY <1>5, <2>1 DEF Turning, Increasing
<1>8. ASSUME NEW i \in 1 .. Len(got) PROVE got[i] = c \/ Below(got[i], c) \/ Repeated(ask, more, got[i])
  <2>1. PICK g \in Tuples(n) : g = got[i] BY <1>1, <1>2
  <2>2. got # <<>>
    <3>1. SUFFICES ASSUME got = <<>> PROVE FALSE OBVIOUS
    <3>2. Len(got) = 0 BY <3>1
    <3>3. QED BY <3>2
  <2>3. PICK e \in E : TRUE BY <2>2 DEF Turning
  <2>4. Behind(ask, ends, got, e) /\ e \in Tuples(n) /\ Past(ask, e, c) BY <1>5 DEF Turning
  <2>5. e \in ends /\ (g = e \/ Below(g, e) \/ Repeated(ask, ends, g)) BY <2>1, <2>4 DEF Behind
  <2>6. g = c \/ Below(g, c) \/ Below(c, g) BY <1>6, BelowOrder
  <2>7. ends \subseteq more OBVIOUS
  <2>8. CASE Repeated(ask, ends, g) BY <2>1, <2>7, <2>8, EndsGrow
  <2>9. CASE (g = e \/ Below(g, e)) /\ Below(c, g)
    <3>1. Past(ask, e, g) BY <1>6, <2>4, <2>9, PastThrough
    <3>2. Repeated(ask, ends, g) BY <2>4, <2>5, <2>9, <3>1, TakenAgain
    <3>3. QED BY <2>1, <2>7, <3>2, EndsGrow
  <2>10. QED BY <2>1, <2>5, <2>6, <2>8, <2>9
<1>9. \A i \in 1 .. Len(all) : all[i] = c \/ Below(all[i], c) \/ Repeated(ask, more, all[i])
  <2>1. SUFFICES ASSUME NEW i \in 1 .. Len(all)
                 PROVE  all[i] = c \/ Below(all[i], c) \/ Repeated(ask, more, all[i])
    OBVIOUS
  <2>2. CASE i \in 1 .. Len(got) /\ all[i] = got[i] BY <1>8, <2>2
  <2>3. CASE \E h \in 1 .. Len(ks) : i = Len(got) + h /\ all[i] = ks[h] BY <1>7, <2>3
  <2>4. QED BY <1>3, <2>2, <2>3
<1>10. QED BY <1>9 DEF Behind

\* What is left when a page has been shown, if there are more.
LEMMA PageDue ==
    ASSUME NEW ask, NEW X, NEW got \in Seq(X), NEW ks \in Seq(X), NEW all, all = got \o ks,
           NEW ends, NEW E, NEW F, NEW K, K \subseteq F, Due(ask, ends, got, E, K),
           NEW rest, rest = {k \in F : \A e \in E : Past(ask, e, k)}, NEW next, PageRight(rest, ks, next)
    PROVE  /\ next = <<>> => \A k \in K : In(k, all) \/ Lost(ask, ends, k)
           /\ next # <<>> => Due(ask, ends \cup {next}, all, {next}, K)
<1>1. \A k : In(k, got) \/ In(k, ks) => In(k, all) BY JoinPages
<1>2. \A k \in K : In(k, got) \/ Lost(ask, ends, k) \/ k \in rest BY DEF Due
<1>3. CASE next = <<>>
  <2>1. \A k \in rest : In(k, ks) BY <1>3 DEF PageRight
  <2>2. QED BY <1>1, <1>2, <1>3, <2>1
<1>4. CASE next # <<>>
  <2>1. \A k \in rest : In(k, ks) \/ Below(next, k) BY <1>4 DEF PageRight
  <2>2. PICK more : more = ends \cup {next} OBVIOUS
  <2>3. ASSUME NEW k, Below(next, k) PROVE Past(ask, next, k) \/ Lost(ask, more, k) BY <2>2, <2>3 DEF Lost
  <2>4. ASSUME NEW k PROVE Lost(ask, ends, k) => Lost(ask, more, k) BY <2>2, EndsGrow
  <2>5. Due(ask, more, all, {next}, K) BY <1>1, <1>2, <2>1, <2>3, <2>4 DEF Due
  <2>6. QED BY <1>4, <2>2, <2>5
<1>5. QED BY <1>3, <1>4

\* A sequence of members of X is one of members of Y.
LEMMA SeqWithin ==
    ASSUME NEW X, NEW Y, X \subseteq Y, NEW s \in Seq(X)
    PROVE  s \in Seq(Y)
<1>1. Len(s) \in Nat /\ s \in [1 .. Len(s) -> X] OBVIOUS
<1>2. s \in [1 .. Len(s) -> Y] BY <1>1
<1>3. QED BY <1>1, <1>2, SeqOfFun

\* A search has shown places a client gets twice only for a cursor's sake, and what was
\* there all the time it has shown, or dropped by a cursor, or not come to yet.
ScrollOn ==
    /\ scroll.state \in {"open", "done"} /\ AskRight(scroll.ask)
    /\ scroll.got \in Seq(Tuples(Width(scroll.ask))) /\ Accounted(scroll.ask, scroll.ends, scroll.got)
    /\ scroll.state = "open" =>
         /\ same \subseteq Found(scroll.ask, spans, logs, events)
         /\ From(scroll.ask) = {} => scroll.got = <<>>
         /\ \A e \in From(scroll.ask) : Behind(scroll.ask, scroll.ends, scroll.got, e)
         /\ Due(scroll.ask, scroll.ends, scroll.got, From(scroll.ask), same)
    /\ scroll.state = "done" => \A k \in same : In(k, scroll.got) \/ Lost(scroll.ask, scroll.ends, k)

ScrollInv == Tabled /\ (scroll = NoScroll \/ ScrollOn)

\* A sequence of at most one member.
LEMMA AtMostOne ==
    ASSUME NEW X, NEW x \in Seq(X), Len(x) <= 1
    PROVE  x = <<>> \/ \E r \in X : x = <<r>>
<1>1. Len(x) \in Nat /\ x \in [1 .. Len(x) -> X] OBVIOUS
<1>2. CASE Len(x) = 0
  <2>1. x \in [1 .. 0 -> X] BY <1>1, <1>2
  <2>2. DOMAIN x = {} BY <2>1
  <2>3. x = <<>> BY <1>2, <2>2
  <2>4. QED BY <2>3
<1>3. CASE Len(x) = 1
  <2>1. PICK r \in X : r = x[1] BY <1>1, <1>3
  <2>2. Len(<<r>>) = 1 /\ <<r>>[1] = r /\ <<r>> \in Seq(X) OBVIOUS
  <2>3. x = <<r>> BY <1>1, <1>3, <2>1
  <2>4. QED BY <2>3
<1>4. QED BY <1>1, <1>2, <1>3

\* A client may begin with any cursor that a page has ended with.
LEMMA AsksRight ==
    ASSUME NEW a \in Asks
    PROVE  AskRight(a)
<1>1. PICK x, X : x = a.q.cursor /\ X = Listable(a.on) OBVIOUS
<1>2. x \in Seq(X) /\ Len(x) <= 1 BY <1>1, TelemetryAssumption
<1>3. x = <<>> \/ \E r \in X : x = <<r>> BY <1>2, AtMostOne
<1>4. CursorRight(a, a.q.cursor) BY <1>1, <1>3 DEF CursorRight
<1>5. QED BY <1>4, TelemetryAssumption DEF AskRight

\* Where a page begins is a place.
LEMMA FromType ==
    ASSUME NEW ask, AskRight(ask)
    PROVE  From(ask) \subseteq Tuples(Width(ask))
<1>1. CASE ask.q.cursor = <<>> BY <1>1, FromCursor
<1>2. ASSUME NEW r \in Listable(ask.on), ask.q.cursor = <<r>> PROVE From(ask) \subseteq Tuples(Width(ask))
  <2>1. From(ask) = {Place(ask, r)} BY <1>2, FromCursor
  <2>2. QED BY <2>1, PlaceType
<1>3. QED BY <1>1, <1>2 DEF AskRight, CursorRight

\* The invariant holds when the search begins, when a row arrives, which may take a
\* key out of `same` but puts none in, and when the client turns the page.
LEMMA ScrollStarts ==
    ASSUME ScrollInv, NEW ask \in Asks, StartScroll(ask)
    PROVE  ScrollInv'
<1>1. PICK E : E = From(ask) OBVIOUS
<1>2. /\ scroll' = [state |-> "open", ask |-> ask, got |-> <<>>, ends |-> E]
      /\ same' = {k \in Found(ask, spans, logs, events) : \A c \in E : Below(c, k)}
      /\ spans' = spans /\ logs' = logs /\ events' = events
  BY <1>1 DEF StartScroll, From
<1>3. scroll'.state = "open" /\ scroll'.ask = ask /\ scroll'.got = <<>> /\ scroll'.ends = E BY <1>2
<1>4. Tabled' BY <1>2 DEF ScrollInv, Tabled
<1>5. AskRight(ask) BY AsksRight
<1>6. same' \subseteq Found(ask, spans', logs', events') BY <1>2
<1>7. PICK none : none = <<>> OBVIOUS
<1>8. none \in Seq(Tuples(Width(ask))) /\ Len(none) = 0 BY <1>7
<1>9. Accounted(ask, E, none) /\ \A e \in E : Behind(ask, E, none, e) BY <1>8 DEF Accounted, Behind
<1>10. Due(ask, E, none, E, same')
  <2>1. ASSUME NEW k \in same' PROVE Lost(ask, E, k) \/ \A e \in E : Past(ask, e, k)
    <3>1. \A c \in E : Below(c, k) BY <1>2
    <3>2. QED BY <3>1 DEF Lost
  <2>2. QED BY <2>1 DEF Due
<1>11. ScrollOn' BY <1>1, <1>3, <1>5, <1>6, <1>7, <1>8, <1>9, <1>10 DEF ScrollOn
<1>12. QED BY <1>4, <1>11 DEF ScrollInv

\* A step that leaves the search alone keeps it,
LEMMA ScrollSame ==
    ASSUME ScrollInv, Tabled', scroll' = scroll,
           \/ same' = same /\ spans' = spans /\ logs' = logs /\ events' = events
           \/ scroll.state # "open" /\ same' = same
           \/ scroll.state = "open" /\ same' \subseteq same /\ same' \subseteq Found(scroll.ask, spans', logs', events')
    PROVE  ScrollInv'
<1>1. CASE scroll = NoScroll BY <1>1 DEF ScrollInv
<1>2. CASE ScrollOn
  <2>1. /\ scroll.state \in {"open", "done"} /\ AskRight(scroll.ask)
        /\ scroll.got \in Seq(Tuples(Width(scroll.ask))) /\ Accounted(scroll.ask, scroll.ends, scroll.got)
    BY <1>2 DEF ScrollOn
  <2>2. same' \subseteq same OBVIOUS
  <2>3. PICK ask, ends, got, E : ask = scroll.ask /\ ends = scroll.ends /\ got = scroll.got /\ E = From(ask) OBVIOUS
  <2>4. ASSUME scroll.state = "open"
        PROVE  /\ same' \subseteq Found(ask, spans', logs', events')
               /\ E = {} => got = <<>>
               /\ \A e \in E : Behind(ask, ends, got, e)
               /\ Due(ask, ends, got, E, same')
    <3>1. /\ same \subseteq Found(ask, spans, logs, events) /\ (E = {} => got = <<>>)
          /\ (\A e \in E : Behind(ask, ends, got, e)) /\ Due(ask, ends, got, E, same)
      BY <1>2, <2>3, <2>4 DEF ScrollOn
    <3>2. same' \subseteq Found(ask, spans', logs', events') BY <2>3, <2>4, <3>1
    <3>3. Due(ask, ends, got, E, same') BY <2>2, <3>1 DEF Due
    <3>4. QED BY <3>1, <3>2, <3>3
  <2>5. ASSUME scroll.state = "done" PROVE \A k \in same' : In(k, got) \/ Lost(ask, ends, k)
    BY <1>2, <2>2, <2>3, <2>5 DEF ScrollOn
  <2>6. ScrollOn' BY <2>1, <2>3, <2>4, <2>5 DEF ScrollOn
  <2>7. QED BY <2>6 DEF ScrollInv
<1>3. QED BY <1>1, <1>2 DEF ScrollInv

\* so does a row that arrives,
LEMMA ScrollArrives ==
    ASSUME ScrollInv, NEW ss \in SUBSET SpanPool, NEW ls \in SUBSET LogPool,
           NEW es \in SUBSET EventPool, NEW ps, Arrive(ss, ls, es, ps)
    PROVE  ScrollInv'
<1>1. /\ spans' = ss /\ logs' = ls /\ events' = es /\ scroll' = scroll
      /\ same' = IF scroll.state = "open" THEN same \cap Found(scroll.ask, ss, ls, es) ELSE same
  BY DEF Arrive
<1>2. Tabled' BY <1>1 DEF Tabled, InPools
<1>3. CASE scroll.state # "open" BY <1>1, <1>2, <1>3, ScrollSame
<1>4. CASE scroll.state = "open"
  <2>1. same' \subseteq same /\ same' \subseteq Found(scroll.ask, spans', logs', events') BY <1>1, <1>4
  <2>2. QED BY <1>1, <1>2, <1>4, <2>1, ScrollSame
<1>5. QED BY <1>3, <1>4

\* and so does the next page.
LEMMA ScrollTurns ==
    ASSUME ScrollInv, NextPage
    PROVE  ScrollInv'
<1>1. PICK ask, got, ends, next, ks, rest, E :
        /\ ask = scroll.ask /\ got = scroll.got /\ ends = scroll.ends
        /\ next = Page(ask).next /\ ks = Places(ask, Page(ask).rows)
        /\ rest = KeysLeft(ask, spans, logs, events) /\ E = From(ask)
  OBVIOUS
<1>2. scroll.state = "open" /\ scroll # NoScroll BY DEF NextPage, NoScroll
<1>3. ScrollOn BY <1>2 DEF ScrollInv
<1>4. PICK b, all, more : b = Turned(ask, next) /\ all = got \o ks /\ more = ends \cup Range(Places(ask, next)) OBVIOUS
<1>5. /\ scroll' = [state |-> IF next = <<>> THEN "done" ELSE "open", ask |-> b, got |-> all, ends |-> more]
      /\ same' = same /\ spans' = spans /\ logs' = logs /\ events' = events
  BY <1>1, <1>4 DEF NextPage, Turned
<1>6. /\ scroll'.state = (IF next = <<>> THEN "done" ELSE "open") /\ scroll'.ask = b
      /\ scroll'.got = all /\ scroll'.ends = more
  BY <1>5
<1>7. /\ AskRight(ask) /\ got \in Seq(Tuples(Width(ask))) /\ Accounted(ask, ends, got)
      /\ same \subseteq Found(ask, spans, logs, events) /\ (E = {} => got = <<>>)
      /\ (\A e \in E : Behind(ask, ends, got, e)) /\ Due(ask, ends, got, E, same)
  BY <1>1, <1>2, <1>3 DEF ScrollOn
<1>8. Tabled /\ Tabled' BY <1>5 DEF ScrollInv, Tabled
<1>9. PICK place : place = IF next = <<>> THEN <<>> ELSE Place(ask, next[1]) OBVIOUS
<1>10. PageRight(rest, ks, place) /\ CursorRight(ask, next)
  <2>1. PageRight(rest, ks, IF next = <<>> THEN <<>> ELSE Place(ask, next[1])) /\ CursorRight(ask, next)
    BY <1>1, <1>7, <1>8, PageShows
  <2>2. QED BY <1>9, <2>1
<1>11. PICK n \in Nat : n = Width(ask) BY <1>7, WidthOf DEF AskRight
<1>12. PICK F : F = Found(ask, spans, logs, events) OBVIOUS
<1>13. rest = {k \in F : \A e \in E : Past(ask, e, k)} /\ rest \subseteq Tuples(n)
  <2>1. rest = {k \in F : \A e \in E : Past(ask, e, k)} BY <1>1, <1>12 DEF KeysLeft
  <2>2. PICK M : M = Matches(ask, spans, logs, events) OBVIOUS
  <2>3. M \subseteq Listable(ask.on) BY <1>7, <1>8, <2>2, MatchesApart DEF Tabled
  <2>4. F = {Place(ask, r) : r \in M} BY <1>12, <2>2 DEF Found
  <2>5. \A r \in M : Place(ask, r) \in Tuples(n) BY <1>7, <1>11, <2>3, PlaceType
  <2>6. QED BY <2>1, <2>4, <2>5
<1>14. ks \in Seq(rest) /\ Increasing(ks) /\ \A h \in 1 .. Len(ks) : ks[h] \in rest
  <2>1. ks \in Seq(rest) /\ Increasing(ks) BY <1>10 DEF PageRight
  <2>2. QED BY <2>1
<1>15. PICK X : X = Tuples(n) OBVIOUS
<1>16. ks \in Seq(X) /\ got \in Seq(X) BY <1>7, <1>11, <1>13, <1>14, <1>15, SeqWithin
<1>17. Turning(ask, n, ends, got, E, ks)
  <2>1. E \subseteq Tuples(n) BY <1>1, <1>7, <1>11, FromType
  <2>2. \A e \in E : \A h \in 1 .. Len(ks) : Past(ask, e, ks[h]) BY <1>13, <1>14
  <2>3. QED BY <1>7, <1>14, <1>15, <1>16, <2>1, <2>2 DEF Turning
<1>18. all \in Seq(X) BY <1>4, <1>16, JoinPages
<1>19. Accounted(ask, ends, all) BY <1>4, <1>17, PageAccounted
<1>20. /\ AskRight(b) /\ b.q.cursor = next /\ Width(b) = Width(ask)
       /\ \A ss, ls, es : Found(b, ss, ls, es) = Found(ask, ss, ls, es)
       /\ \A r : Place(b, r) = Place(ask, r)
       /\ \A d, k : Past(b, d, k) <=> Past(ask, d, k)
  BY <1>4, <1>7, <1>10, PageTurned
<1>21. \A es, k : (Lost(b, es, k) <=> Lost(ask, es, k)) /\ (Repeated(b, es, k) <=> Repeated(ask, es, k))
  BY <1>20 DEF Lost, Repeated
<1>22. ends \subseteq more BY <1>4
<1>23. Accounted(b, more, all)
  <2>1. \A k : Repeated(ask, ends, k) => Repeated(b, more, k) BY <1>21, <1>22, EndsGrow
  <2>2. QED BY <1>19, <2>1 DEF Accounted
<1>24. /\ place = <<>> => \A k \in same : In(k, all) \/ Lost(ask, ends, k)
       /\ place # <<>> => Due(ask, ends \cup {place}, all, {place}, same)
  <2>1. same \subseteq F BY <1>7, <1>12
  <2>2. QED BY <1>4, <1>7, <1>10, <1>13, <1>16, <2>1, PageDue
<1>25. all \in Seq(Tuples(Width(b))) BY <1>11, <1>15, <1>18, <1>20
<1>26. CASE next = <<>>
  <2>1. place = <<>> BY <1>9, <1>26
  <2>2. \A k \in same' : In(k, all) \/ Lost(b, more, k) BY <1>5, <1>21, <1>22, <1>24, <2>1, EndsGrow
  <2>3. scroll'.state = "done" BY <1>6, <1>26
  <2>4. ScrollOn' BY <1>6, <1>20, <1>23, <1>25, <2>2, <2>3 DEF ScrollOn
  <2>5. QED BY <1>8, <2>4 DEF ScrollInv
<1>27. ASSUME NEW r \in Listable(ask.on), next = <<r>> PROVE ScrollInv'
  <2>1. PICK c : c = Place(ask, r) OBVIOUS
  <2>2. next # <<>> /\ next[1] = r BY <1>27
  <2>3. place = c BY <1>9, <2>1, <2>2
  <2>4. c \in Tuples(n) /\ n \in Nat \ {0} BY <1>7, <1>11, <2>1, PlaceType, WidthOf DEF AskRight
  <2>5. c # <<>>
    <3>1. DOMAIN c = 1 .. n /\ 1 \in 1 .. n BY <2>4 DEF Tuples
    <3>2. DOMAIN <<>> = {} OBVIOUS
    <3>3. QED BY <3>1, <3>2
  <2>6. From(b) = {c}
    <3>1. b.q.cursor = <<r>> BY <1>20, <1>27
    <3>2. From(b) = {Place(b, r)} BY <3>1, FromCursor
    <3>3. QED BY <1>20, <2>1, <3>2
  <2>7. more = ends \cup {c}
    <3>1. PICK f : f = Places(ask, next) OBVIOUS
    <3>2. DOMAIN next = {1} BY <1>27
    <3>3. DOMAIN f = {1} /\ f[1] = c BY <2>1, <2>2, <3>1, <3>2 DEF Places
    <3>4. Range(f) = {c} BY <3>3 DEF Range
    <3>5. QED BY <1>4, <3>1, <3>4
  <2>8. Len(ks) > 0 /\ c = ks[Len(ks)] BY <1>10, <2>3, <2>5 DEF PageRight
  <2>9. Behind(ask, more, all, c) BY <1>4, <1>7, <1>11, <1>17, <2>7, <2>8, PageBehind
  <2>10. Behind(b, more, all, c) BY <1>21, <2>9 DEF Behind
  <2>11. Due(ask, more, all, {c}, same) BY <1>24, <2>3, <2>5, <2>7
  <2>12. Due(b, more, all, {c}, same') BY <1>5, <1>20, <1>21, <2>11 DEF Due
  <2>13. same' \subseteq Found(b, spans', logs', events') BY <1>5, <1>7, <1>20
  <2>14. scroll'.state = "open" BY <1>6, <2>2
  <2>15. From(b) # {} /\ \A e \in From(b) : Behind(b, more, all, e) BY <2>6, <2>10
  <2>16. Due(b, more, all, From(b), same') BY <2>6, <2>12
  <2>17. ScrollOn' BY <1>6, <1>20, <1>23, <1>25, <2>13, <2>14, <2>15, <2>16 DEF ScrollOn
  <2>18. QED BY <1>8, <2>17 DEF ScrollInv
<1>28. QED BY <1>10, <1>26, <1>27 DEF CursorRight

\* So it always holds.
LEMMA ScrollInvHolds == TelemetrySpec => []ScrollInv
<1>1. TelemetryInit => ScrollInv BY DEF TelemetryInit, ScrollInv, Tabled, InPools
<1>2. ASSUME ScrollInv, [TelemetryNext]_telemetryVars PROVE ScrollInv'
  <2>1. /\ spans \in SUBSET SpanPool /\ logs \in SUBSET LogPool /\ events \in SUBSET EventPool
    BY <1>2 DEF ScrollInv, Tabled, InPools
  <2>2. ASSUME scroll' = scroll, same' = same, spans' = spans, logs' = logs, events' = events PROVE ScrollInv'
    <3>1. Tabled' BY <1>2, <2>2 DEF ScrollInv, Tabled
    <3>2. QED BY <1>2, <2>2, <3>1, ScrollSame
  <2>3. CASE UNCHANGED telemetryVars BY <2>2, <2>3 DEF telemetryVars
  <2>4. CASE NextPage BY <1>2, <2>4, ScrollTurns
  <2>5. CASE \E ask \in Asks : StartScroll(ask) BY <1>2, <2>5, ScrollStarts
  <2>6. CASE SpanArrives
    <3>1. PICK r \in SpanPool : Arrive(spans \cup {r}, logs, events, points) BY <2>6 DEF SpanArrives
    <3>2. spans \cup {r} \in SUBSET SpanPool BY <2>1
    <3>3. QED BY <1>2, <2>1, <3>1, <3>2, ScrollArrives
  <2>7. CASE LogArrives
    <3>1. PICK r \in LogPool : Arrive(spans, logs \cup {r}, events, points) BY <2>7 DEF LogArrives
    <3>2. logs \cup {r} \in SUBSET LogPool BY <2>1
    <3>3. QED BY <1>2, <2>1, <3>1, <3>2, ScrollArrives
  <2>8. CASE EventArrives
    <3>1. PICK r \in EventPool : Arrive(spans, logs, events \cup {r}, points) BY <2>8 DEF EventArrives
    <3>2. events \cup {r} \in SUBSET EventPool BY <2>1
    <3>3. QED BY <1>2, <2>1, <3>1, <3>2, ScrollArrives
  <2>9. CASE FlowArrives
    <3>1. PICK r \in FlowPool : Arrive(spans, logs, events, points \cup {r}) BY <2>9 DEF FlowArrives
    <3>2. QED BY <1>2, <2>1, <3>1, ScrollArrives
  <2>10. CASE Tick BY <2>2, <2>10 DEF Tick
  <2>11. CASE \E e \in events, s \in {"unresolved", "resolved", "ignored"} : SetIssueStatus(e.tenant, e.fp, s)
    BY <2>2, <2>11 DEF SetIssueStatus
  <2>12. CASE \E p \in Policies : MeshCall(p) BY <2>2, <2>12 DEF MeshCall
  <2>13. CASE \E r \in Reporters : Scrape(r) \/ ProxyRestarts(r) BY <2>2, <2>13 DEF Scrape, ProxyRestarts
  <2>14. QED
    BY <1>2, <2>3, <2>4, <2>5, <2>6, <2>7, <2>8, <2>9, <2>10, <2>11, <2>12, <2>13
    DEF TelemetryNext, PageNext, MapNext, IssueNext, MeshNext
<1>3. QED BY <1>1, <1>2, PTL DEF TelemetrySpec

\* A search that holds to the invariant accounts for what it has shown and missed.
LEMMA AccountGiven == ASSUME ScrollInv PROVE ScrollAccounted
<1>1. SUFFICES ASSUME scroll # NoScroll
               PROVE  /\ \A i, j \in DOMAIN scroll.got :
                           i # j /\ scroll.got[i] = scroll.got[j] => Repeated(scroll.ask, scroll.ends, scroll.got[i])
                      /\ scroll.state = "done" =>
                           \A k \in same : k \in Range(scroll.got) \/ Lost(scroll.ask, scroll.ends, k)
  BY DEF ScrollAccounted
<1>2. ScrollOn BY <1>1 DEF ScrollInv
<1>3. PICK ask, ends, got : ask = scroll.ask /\ ends = scroll.ends /\ got = scroll.got OBVIOUS
<1>4. PICK X : X = Tuples(Width(ask)) OBVIOUS
<1>5. got \in Seq(X) /\ Accounted(ask, ends, got) BY <1>2, <1>3, <1>4 DEF ScrollOn
<1>6. DOMAIN got = 1 .. Len(got) BY <1>5
<1>7. \A i, j \in DOMAIN got : i # j /\ got[i] = got[j] => Repeated(ask, ends, got[i]) BY <1>5, <1>6 DEF Accounted
<1>8. \A k : In(k, got) => k \in Range(got) BY <1>6 DEF In, Range
<1>9. scroll.state = "done" => \A k \in same : In(k, got) \/ Lost(ask, ends, k) BY <1>2, <1>3 DEF ScrollOn
<1>10. QED BY <1>3, <1>7, <1>8, <1>9

\* A client that pages through a search, while rows arrive with times as fine as the
\* tables keep them and sort keys that may be the same, gets a place twice only if a
\* cursor has taken it in again, and at the end has got everything that was there when
\* it began and kept its place, but for what one of the cursors dropped.
THEOREM ScrollAccountedHolds == TelemetrySpec => []ScrollAccounted
BY ScrollInvHolds, AccountGiven, PTL

-----------------------------------------------------------------------------
(* The service map.  A fold is unwound into its steps; the list it builds  *)
(* keeps every pair once and every edge within its calls; and a server     *)
(* span, which has one parent, is counted for one caller at most: for the  *)
(* span next to it, or for the one at the far end of the proxies above it. *)

\* The largest of finitely many positions.
LEMMA LastPosition ==
    ASSUME NEW n \in Nat, NEW S \in SUBSET (1 .. n), S # {}
    PROVE  Max(S) \in S /\ \A i \in S : i <= Max(S)
<1> DEFINE D == {n - i : i \in S}
<1>1. D \subseteq Nat /\ D # {}
  <2>1. \A i \in S : i \in Int /\ i <= n OBVIOUS
  <2>2. \A i \in S : n - i \in Nat BY <2>1
  <2>3. QED BY <2>2
<1>2. PICK d \in D : \A e \in D : d <= e BY <1>1, LeastNatural
<1>3. PICK m \in S : d = n - m BY <1>2
<1>4. \A i \in S : n - m <= n - i BY <1>2, <1>3
<1>5. \A i \in S : i \in Int /\ m \in Int /\ n - m <= n - i => m >= i OBVIOUS
<1>6. m \in S /\ \A i \in S : m >= i BY <1>4, <1>5
<1>7. Max(S) \in S /\ \A i \in S : Max(S) >= i BY <1>6 DEF Max
<1>8. QED BY <1>7

\* The last position of a prefix, and the prefix before it.
LEMMA LastOfPrefix ==
    ASSUME NEW k \in Nat, k > 0
    PROVE  1 .. k # {} /\ Max(1 .. k) = k /\ (1 .. k) \ {k} = 1 .. (k - 1)
<1>1. k \in 1 .. k /\ 1 .. k \in SUBSET (1 .. k) OBVIOUS
<1>2. Max(1 .. k) \in 1 .. k /\ k <= Max(1 .. k) BY <1>1, LastPosition
<1>3. PICK m : m = Max(1 .. k) OBVIOUS
<1>4. m = k BY <1>2, <1>3
<1>5. (1 .. k) \ {k} = 1 .. (k - 1) OBVIOUS
<1>6. QED BY <1>1, <1>3, <1>4, <1>5

\* A fold over n positions that stays in A is a function of their sets.
Folds(g, n, A, base, F) ==
    /\ g \in [SUBSET (1 .. n) -> A]
    /\ \A s \in SUBSET (1 .. n) : g[s] = IF s = {} THEN base ELSE F[<<Max(s), g[s \ {Max(s)}]>>]
LEMMA FoldExists ==
    ASSUME NEW n \in Nat, NEW A, NEW base \in A, NEW F \in [(1 .. n) \X A -> A]
    PROVE  \E g : Folds(g, n, A, base, F)
<1> DEFINE Right(k, g) == \A s \in SUBSET (1 .. k) :
                             g[s] = IF s = {} THEN base ELSE F[<<Max(s), g[s \ {Max(s)}]>>]
           Has(k) == \E g \in [SUBSET (1 .. k) -> A] : Right(k, g)
           G == {k \in Nat : k <= n => Has(k)}
<1>1. 0 \in G
  <2>1. SUBSET (1 .. 0) = {{}} OBVIOUS
  <2>2. PICK g : g = [s \in SUBSET (1 .. 0) |-> base] OBVIOUS
  <2>3. g \in [SUBSET (1 .. 0) -> A] /\ Right(0, g) BY <2>1, <2>2
  <2>4. QED BY <2>3
<1>2. ASSUME NEW k \in Nat, k \in G PROVE k + 1 \in G
  <2>1. SUFFICES ASSUME k + 1 <= n PROVE Has(k + 1)
    <3> HIDE DEF Has
    <3>1. k + 1 \in Nat OBVIOUS
    <3>2. QED BY <3>1
  <2>2. Has(k)
    <3> HIDE DEF Has
    <3>1. k <= n BY <2>1
    <3>2. QED BY <1>2, <3>1
  <2>20. PICK f \in [SUBSET (1 .. k) -> A] : Right(k, f) BY <2>2
  <2>3. PICK g : g = [s \in SUBSET (1 .. (k + 1)) |->
                        IF k + 1 \in s THEN F[<<k + 1, f[s \ {k + 1}]>>] ELSE f[s]]
    OBVIOUS
  <2>4. k + 1 \in 1 .. n BY <2>1
  <2>5. \A s \in SUBSET (1 .. (k + 1)) : s \ {k + 1} \in SUBSET (1 .. k) /\ (k + 1 \notin s => s \in SUBSET (1 .. k))
    OBVIOUS
  <2>6. ASSUME NEW s \in SUBSET (1 .. (k + 1)) PROVE g[s] \in A
    <3>1. CASE k + 1 \in s
      <4>1. f[s \ {k + 1}] \in A BY <2>5
      <4>2. <<k + 1, f[s \ {k + 1}]>> \in (1 .. n) \X A BY <4>1, <2>4
      <4>3. g[s] = F[<<k + 1, f[s \ {k + 1}]>>] BY <2>3, <3>1
      <4>4. QED BY <4>2, <4>3
    <3>2. CASE k + 1 \notin s
      <4>1. f[s] \in A BY <2>5, <3>2
      <4>2. g[s] = f[s] BY <2>3, <3>2
      <4>3. QED BY <4>1, <4>2
    <3>3. QED BY <3>1, <3>2
  <2>7. g \in [SUBSET (1 .. (k + 1)) -> A] BY <2>3, <2>6
  <2>8. ASSUME NEW s \in SUBSET (1 .. k) PROVE g[s] = f[s]
    <3>1. s \in SUBSET (1 .. (k + 1)) /\ k + 1 \notin s OBVIOUS
    <3>2. QED BY <2>3, <3>1
  <2>9. ASSUME NEW s \in SUBSET (1 .. (k + 1))
        PROVE  g[s] = IF s = {} THEN base ELSE F[<<Max(s), g[s \ {Max(s)}]>>]
    <3>1. CASE k + 1 \in s
      <4>0. s # {} /\ k + 1 \in Nat BY <3>1
      <4>1. Max(s) \in s /\ \A i \in s : i <= Max(s) BY <4>0, LastPosition
      <4>2. PICK m : m = Max(s) OBVIOUS
      <4>3. m = k + 1
        <5>1. m \in 1 .. (k + 1) /\ k + 1 <= m BY <3>1, <4>1, <4>2
        <5>2. QED BY <5>1
      <4>4. PICK u : u = s \ {k + 1} OBVIOUS
      <4>5. g[u] = f[u] BY <2>5, <2>8, <4>4
      <4>6. g[s] = F[<<k + 1, f[u]>>] BY <2>3, <3>1, <4>4
      <4>7. s # {} BY <3>1
      <4>8. QED BY <4>2, <4>3, <4>4, <4>5, <4>6, <4>7
    <3>2. CASE k + 1 \notin s
      <4>1. s \in SUBSET (1 .. k) BY <2>5, <3>2
      <4>2. g[s] = f[s] BY <4>1, <2>8
      <4>3. f[s] = IF s = {} THEN base ELSE F[<<Max(s), f[s \ {Max(s)}]>>] BY <2>20, <4>1
      <4>4. PICK u : u = s \ {Max(s)} OBVIOUS
      <4>5. u \in SUBSET (1 .. k) BY <4>1, <4>4
      <4>6. g[u] = f[u] BY <4>5, <2>8
      <4>7. QED BY <4>2, <4>3, <4>4, <4>6
    <3>3. QED BY <3>1, <3>2
  <2> HIDE DEF G
  <2>10. QED BY <2>7, <2>9
<1> HIDE DEF G, Has
<1>3. n \in G BY <1>1, <1>2, NatSetInduction
<1>4. Has(n) BY <1>3 DEF G
<1>5. PICK g \in [SUBSET (1 .. n) -> A] : Right(n, g) BY <1>4 DEF Has
<1>6. Folds(g, n, A, base, F) BY <1>5 DEF Folds
<1>7. QED BY <1>6

Unwinds(c, n, A, base, F) ==
    /\ c[{}] = base
    /\ \A s \in SUBSET (1 .. n) :
         s # {} /\ c[s \ {Max(s)}] \in A => c[s] = F[<<Max(s), c[s \ {Max(s)}]>>]
Stepwise(h, n, A, base, F, last) ==
    /\ h \in [0 .. n -> A] /\ h[0] = base /\ h[n] = last
    /\ \A k \in 1 .. n : h[k] = F[<<k, h[k - 1]>>]

\* What takes the members of a set out from the last to the first has gone through
\* the positions one by one.
LEMMA FoldRun ==
    ASSUME NEW n \in Nat, NEW A, NEW base \in A, NEW F \in [(1 .. n) \X A -> A], NEW c, Unwinds(c, n, A, base, F),
           NEW last, last = c[1 .. n]
    PROVE  \E h : Stepwise(h, n, A, base, F, last)
<1> DEFINE G == {k \in Nat : k <= n => c[1 .. k] \in A}
<1>1. ASSUME NEW k \in 1 .. n, c[1 .. (k - 1)] \in A
      PROVE  c[1 .. k] = F[<<k, c[1 .. (k - 1)]>>] /\ c[1 .. k] \in A
  <2>1. k \in Nat /\ k > 0 OBVIOUS
  <2>2. 1 .. k # {} /\ Max(1 .. k) = k /\ (1 .. k) \ {k} = 1 .. (k - 1) BY <2>1, LastOfPrefix
  <2>3. PICK s : s = 1 .. k OBVIOUS
  <2>4. s \in SUBSET (1 .. n) BY <2>3
  <2>5. s # {} /\ c[s \ {Max(s)}] \in A BY <1>1, <2>2, <2>3
  <2>6. c[s] = F[<<Max(s), c[s \ {Max(s)}]>>] BY <2>4, <2>5 DEF Unwinds
  <2>7. c[1 .. k] = F[<<k, c[1 .. (k - 1)]>>] BY <2>2, <2>3, <2>6
  <2>8. <<k, c[1 .. (k - 1)]>> \in (1 .. n) \X A BY <1>1
  <2>9. QED BY <2>7, <2>8
<1>2. 1 .. 0 = {} OBVIOUS
<1>3. 0 \in G BY <1>2 DEF Unwinds
<1>4. ASSUME NEW k \in Nat, k \in G PROVE k + 1 \in G
  <2>1. SUFFICES ASSUME k + 1 <= n PROVE c[1 .. (k + 1)] \in A OBVIOUS
  <2>2. k + 1 \in 1 .. n /\ (k + 1) - 1 = k /\ k <= n BY <2>1
  <2>3. c[1 .. k] \in A BY <1>4, <2>2
  <2>4. QED BY <1>1, <2>2, <2>3
<1> HIDE DEF G
<1>5. Nat \subseteq G BY <1>3, <1>4, NatSetInduction
<1>6. \A k \in 0 .. n : c[1 .. k] \in A BY <1>5 DEF G
<1>7. PICK h : h = [k \in 0 .. n |-> c[1 .. k]] OBVIOUS
<1>8. h \in [0 .. n -> A] BY <1>6, <1>7
<1>9. \A k \in 0 .. n : h[k] = c[1 .. k] BY <1>7
<1>10. 0 \in 0 .. n /\ n \in 0 .. n /\ \A k \in 1 .. n : k \in 0 .. n /\ k - 1 \in 0 .. n OBVIOUS
<1>11. h[0] = base /\ h[n] = c[1 .. n] BY <1>2, <1>9, <1>10 DEF Unwinds
<1>12. \A k \in 1 .. n : h[k] = F[<<k, h[k - 1]>>] BY <1>1, <1>6, <1>9, <1>10
<1>13. Stepwise(h, n, A, base, F, last) BY <1>8, <1>11, <1>12 DEF Stepwise
<1>14. QED BY <1>13

\* An edge whose ends and amounts are in U, and the pairs that a list of them shows.
Edge(U) == [src : U, dst : U, calls : Nat, bytes : U, failed : U, via : U, prov : {"", "trace", "flow", "both", "collapsed"}]
PairsOf(m) == {Pair(m[i]) : i \in 1 .. Len(m)}
PairsApart(m) == \A i \in 1 .. Len(m) : \A j \in 1 .. Len(m) : Pair(m[i]) = Pair(m[j]) => i = j

\* A list with every pair once, within the calls L allows for it, and read through
\* a proxy only where V says so.
SoundEdges(U, m, L, V) ==
    /\ m \in Seq(Edge(U)) /\ PairsApart(m)
    /\ \A i \in 1 .. Len(m) : m[i].calls <= L[Pair(m[i])] /\ (m[i].via # {} => Pair(m[i]) \in V)

\* One more list on top of b has come to acc: b is still in its place.
Onto(U, b, acc) ==
    /\ acc \in Seq(Edge(U)) /\ Len(b) <= Len(acc)
    /\ \A i \in 1 .. Len(b) : Pair(acc[i]) = Pair(b[i])

\* What a merge makes of one more element: a new edge of a pair that b lacks, or up
\* to w more calls of the edge that is there.
NewEdge(U, b, acc, new, p, w, V) ==
    \E e \in Edge(U) : /\ new = Append(acc, e) /\ Pair(e) = p /\ p \notin PairsOf(b)
                       /\ e.calls <= w /\ (e.via # {} => p \in V)
SameEdges(U, acc, new, p, w, V) ==
    /\ new \in Seq(Edge(U)) /\ Len(new) = Len(acc)
    /\ \A i \in 1 .. Len(acc) :
         /\ Pair(new[i]) = Pair(acc[i])
         /\ Pair(acc[i]) # p => new[i].calls = acc[i].calls
         /\ new[i].calls <= acc[i].calls + w
         /\ new[i].via # {} => acc[i].via # {} \/ Pair(acc[i]) \in V
MergeStep(U, b, acc, new, p, w, V) == NewEdge(U, b, acc, new, p, w, V) \/ SameEdges(U, acc, new, p, w, V)

\* What a merge has made of the first k elements, of the pairs ps.
Merged(U, b, acc, L, V, M, seen) ==
    /\ Onto(U, b, acc) /\ SoundEdges(U, acc, M, V)
    /\ PairsOf(acc) \subseteq PairsOf(b) \cup seen
    /\ \A i \in 1 .. Len(acc) : Pair(acc[i]) \notin seen => acc[i].calls <= L[Pair(acc[i])]

\* One more element keeps what a merge has made.
LEMMA MergedOne ==
    ASSUME NEW U, NEW L \in [U \X U -> Nat], NEW M \in [U \X U -> Nat], NEW V, NEW b, NEW acc, NEW seen, NEW new,
           NEW p \in U \X U, NEW w \in Nat, p \notin seen, w <= M[p], L[p] + w <= M[p], 
           Merged(U, b, acc, L, V, M, seen), MergeStep(U, b, acc, new, p, w, V),
           b \in Seq(Edge(U))
    PROVE  Merged(U, b, new, L, V, M, seen \cup {p})
<1> USE DEF Merged
<1>1. acc \in Seq(Edge(U)) /\ Len(acc) \in Nat /\ Len(b) \in Nat BY DEF Onto
<1>2. \A i \in 1 .. Len(acc) : acc[i] \in Edge(U) BY <1>1
<1>3. \A e \in Edge(U) : Pair(e) \in U \X U /\ e.calls \in Nat BY DEF Edge, Pair
<1>4. CASE NewEdge(U, b, acc, new, p, w, V)
  <2>1. PICK e \in Edge(U) : /\ new = Append(acc, e) /\ Pair(e) = p /\ p \notin PairsOf(b)
                             /\ e.calls <= w /\ (e.via # {} => p \in V)
    BY <1>4 DEF NewEdge
  <2>2. /\ new \in Seq(Edge(U)) /\ Len(new) = Len(acc) + 1
        /\ \A i \in 1 .. Len(acc) : new[i] = acc[i]
        /\ new[Len(acc) + 1] = e
    BY <1>1, <2>1
  <2>3. \A i \in 1 .. Len(new) : i \in 1 .. Len(acc) \/ i = Len(acc) + 1 BY <1>1, <2>2
  <2>4. \A i \in 1 .. Len(acc) : Pair(acc[i]) # p BY <2>1 DEF PairsOf
  <2>5. Onto(U, b, new)
    <3>1. \A i \in 1 .. Len(b) : i \in 1 .. Len(acc) BY <1>1 DEF Onto
    <3>2. Len(b) <= Len(new) BY <1>1, <2>2 DEF Onto
    <3>3. QED BY <2>2, <3>1, <3>2 DEF Onto
  <2>6. PairsApart(new)
    <3>1. SUFFICES ASSUME NEW i \in 1 .. Len(new), NEW j \in 1 .. Len(new), Pair(new[i]) = Pair(new[j])
          PROVE i = j
      BY DEF PairsApart
    <3>2. CASE i \in 1 .. Len(acc) /\ j \in 1 .. Len(acc)
      BY <2>2, <3>1, <3>2 DEF SoundEdges, PairsApart
    <3>3. CASE i \in 1 .. Len(acc) /\ j = Len(acc) + 1 BY <2>1, <2>2, <2>4, <3>1, <3>3
    <3>4. CASE i = Len(acc) + 1 /\ j \in 1 .. Len(acc) BY <2>1, <2>2, <2>4, <3>1, <3>4
    <3>5. CASE i = Len(acc) + 1 /\ j = Len(acc) + 1 BY <3>5
    <3>6. QED BY <2>3, <3>2, <3>3, <3>4, <3>5
  <2>7. e.calls <= M[p]
    <3>1. e.calls \in Nat /\ M[p] \in Nat BY <1>3
    <3>2. QED BY <2>1, <3>1
  <2>8. \A i \in 1 .. Len(new) : new[i].calls <= M[Pair(new[i])] /\ (new[i].via # {} => Pair(new[i]) \in V)
    <3>1. SUFFICES ASSUME NEW i \in 1 .. Len(new)
          PROVE new[i].calls <= M[Pair(new[i])] /\ (new[i].via # {} => Pair(new[i]) \in V)
      OBVIOUS
    <3>2. CASE i \in 1 .. Len(acc) BY <2>2, <3>2 DEF SoundEdges
    <3>3. CASE i = Len(acc) + 1 BY <2>1, <2>2, <2>7, <3>3
    <3>4. QED BY <2>3, <3>2, <3>3
  <2>9. PairsOf(new) \subseteq PairsOf(b) \cup (seen \cup {p})
    <3>1. SUFFICES ASSUME NEW i \in 1 .. Len(new) PROVE Pair(new[i]) \in PairsOf(b) \cup (seen \cup {p})
      BY DEF PairsOf
    <3>2. CASE i \in 1 .. Len(acc)
      <4>1. Pair(acc[i]) \in PairsOf(acc) BY <3>2 DEF PairsOf
      <4>2. QED BY <2>2, <3>2, <4>1
    <3>3. CASE i = Len(acc) + 1 BY <2>1, <2>2, <3>3
    <3>4. QED BY <2>3, <3>2, <3>3
  <2>10. \A i \in 1 .. Len(new) : Pair(new[i]) \notin seen \cup {p} => new[i].calls <= L[Pair(new[i])]
    BY <2>1, <2>2, <2>3
  <2>11. QED BY <2>2, <2>5, <2>6, <2>8, <2>9, <2>10 DEF SoundEdges
<1>5. CASE SameEdges(U, acc, new, p, w, V)
  <2>1. /\ new \in Seq(Edge(U)) /\ Len(new) = Len(acc)
        /\ \A i \in 1 .. Len(acc) :
             /\ Pair(new[i]) = Pair(acc[i])
             /\ Pair(acc[i]) # p => new[i].calls = acc[i].calls
             /\ new[i].calls <= acc[i].calls + w
             /\ new[i].via # {} => acc[i].via # {} \/ Pair(acc[i]) \in V
    BY <1>5 DEF SameEdges
  <2>2. Onto(U, b, new)
    <3>1. \A i \in 1 .. Len(b) : i \in 1 .. Len(acc) BY <1>1 DEF Onto
    <3>2. QED BY <2>1, <3>1 DEF Onto
  <2>3. PairsApart(new) BY <2>1 DEF SoundEdges, PairsApart
  <2>4. ASSUME NEW i \in 1 .. Len(new), Pair(new[i]) = p PROVE new[i].calls <= M[p]
    <3>1. acc[i].calls <= L[p] /\ new[i].calls <= acc[i].calls + w BY <2>1, <2>4
    <3>2. acc[i].calls \in Nat /\ new[i].calls \in Nat /\ L[p] \in Nat /\ M[p] \in Nat BY <1>2, <1>3, <2>1
    <3>3. QED BY <3>1, <3>2
  <2>5. ASSUME NEW i \in 1 .. Len(new), Pair(new[i]) # p PROVE new[i].calls <= M[Pair(new[i])]
    BY <2>1, <2>5 DEF SoundEdges
  <2>6. ASSUME NEW i \in 1 .. Len(new), new[i].via # {} PROVE Pair(new[i]) \in V
    BY <2>1, <2>6 DEF SoundEdges
  <2>7. SoundEdges(U, new, M, V) BY <2>1, <2>3, <2>4, <2>5, <2>6 DEF SoundEdges
  <2>8. PairsOf(new) = PairsOf(acc) BY <2>1 DEF PairsOf
  <2>9. \A i \in 1 .. Len(new) : Pair(new[i]) \notin seen \cup {p} => new[i].calls <= L[Pair(new[i])]
    BY <2>1
  <2>10. QED BY <2>2, <2>7, <2>8, <2>9
<1>6. QED BY <1>4, <1>5 DEF MergeStep

\* n elements of different pairs that add no more to L than M has room for, and the
\* steps of merging them onto b.
Allowed(U, n, ps, ws, L, M) ==
    /\ ps \in [1 .. n -> U \X U] /\ ws \in [1 .. n -> Nat]
    /\ \A i \in 1 .. n : \A j \in 1 .. n : ps[i] = ps[j] => i = j
    /\ \A k \in U \X U : L[k] <= M[k]
    /\ \A j \in 1 .. n : L[ps[j]] + ws[j] <= M[ps[j]]
MergeSteps(U, b, h, n, ps, ws, V) ==
    /\ h[0] = b
    /\ \A k \in 1 .. n : Onto(U, b, h[k - 1]) => MergeStep(U, b, h[k - 1], h[k], ps[k], ws[k], V)

\* A merge of such elements keeps a sound list sound.
LEMMA MergeSound ==
    ASSUME NEW U, NEW L \in [U \X U -> Nat], NEW M \in [U \X U -> Nat], NEW V, NEW b, SoundEdges(U, b, L, V),
           NEW n \in Nat, NEW ps, NEW ws, Allowed(U, n, ps, ws, L, M),
           NEW h, MergeSteps(U, b, h, n, ps, ws, V)
    PROVE  SoundEdges(U, h[n], M, V)
<1> DEFINE seen(k) == {ps[j] : j \in 1 .. k}
           G == {k \in Nat : k <= n => Merged(U, b, h[k], L, V, M, seen(k))}
<1> USE DEF Allowed, MergeSteps
<1>1. b \in Seq(Edge(U)) /\ Len(b) \in Nat BY DEF SoundEdges
<1>2. 0 \in G
  <2>1. seen(0) = {} OBVIOUS
  <2>2. Onto(U, b, b) BY <1>1 DEF Onto
  <2>3. \A e \in Edge(U) : Pair(e) \in U \X U /\ e.calls \in Nat BY DEF Edge, Pair
  <2>4. \A i \in 1 .. Len(b) : b[i] \in Edge(U) BY <1>1
  <2>5. \A i \in 1 .. Len(b) : b[i].calls <= M[Pair(b[i])]
    <3>1. SUFFICES ASSUME NEW i \in 1 .. Len(b) PROVE b[i].calls <= M[Pair(b[i])] OBVIOUS
    <3>2. PICK k \in U \X U : k = Pair(b[i]) BY <2>3, <2>4
    <3>3. b[i].calls \in Nat /\ L[k] \in Nat /\ M[k] \in Nat BY <2>3, <2>4
    <3>4. b[i].calls <= L[k] /\ L[k] <= M[k] BY <3>2 DEF SoundEdges
    <3>5. QED BY <3>2, <3>3, <3>4
  <2>6. SoundEdges(U, b, M, V) BY <2>5 DEF SoundEdges
  <2>7. Merged(U, b, b, L, V, M, {}) BY <2>2, <2>6 DEF Merged, SoundEdges
  <2> HIDE DEF seen
  <2>8. QED BY <2>1, <2>7
<1>3. ASSUME NEW k \in Nat, k \in G PROVE k + 1 \in G
  <2>1. SUFFICES ASSUME k + 1 <= n PROVE Merged(U, b, h[k + 1], L, V, M, seen(k + 1)) OBVIOUS
  <2>2. k + 1 \in 1 .. n /\ (k + 1) - 1 = k /\ k <= n BY <2>1
  <2>3. Merged(U, b, h[k], L, V, M, seen(k)) BY <1>3, <2>2
  <2>4. PICK p, w : p = ps[k + 1] /\ w = ws[k + 1] OBVIOUS
  <2>5. p \in U \X U /\ w \in Nat /\ L[p] \in Nat /\ M[p] \in Nat BY <2>2, <2>4
  <2>6. L[p] + w <= M[p] BY <2>2, <2>4
  <2>7. w <= M[p] BY <2>5, <2>6
  <2>8. p \notin seen(k)
    <3>1. \A j \in 1 .. k : j \in 1 .. n /\ j # k + 1 BY <2>2
    <3>2. QED BY <2>2, <2>4, <3>1
  <2>9. Onto(U, b, h[k]) BY <2>3 DEF Merged
  <2>10. MergeStep(U, b, h[k], h[k + 1], p, w, V) BY <2>2, <2>4, <2>9
  <2>11. seen(k + 1) = seen(k) \cup {p}
    <3>1. \A j \in 1 .. (k + 1) : j \in 1 .. k \/ j = k + 1 OBVIOUS
    <3>2. \A j \in 1 .. k : j \in 1 .. (k + 1) OBVIOUS
    <3>3. k + 1 \in 1 .. (k + 1) OBVIOUS
    <3>4. seen(k + 1) \subseteq seen(k) \cup {p} BY <2>4, <3>1
    <3>5. p \in seen(k + 1) BY <2>4, <3>3
    <3>6. seen(k) \subseteq seen(k + 1) BY <3>2
    <3>7. QED BY <3>4, <3>5, <3>6
  <2> HIDE DEF seen
  <2>12. PICK acc, new, s : acc = h[k] /\ new = h[k + 1] /\ s = seen(k) OBVIOUS
  <2>13. Merged(U, b, acc, L, V, M, s) /\ MergeStep(U, b, acc, new, p, w, V) /\ p \notin s
    BY <2>3, <2>8, <2>10, <2>12
  <2>14. Merged(U, b, new, L, V, M, s \cup {p}) BY <1>1, <2>5, <2>6, <2>7, <2>13, MergedOne
  <2>15. QED BY <2>11, <2>12, <2>14
<1> HIDE DEF G
<1>4. n \in G BY <1>2, <1>3, NatSetInduction
<1>5. Merged(U, b, h[n], L, V, M, seen(n)) BY <1>4 DEF G
<1>6. QED BY <1>5 DEF Merged

\* One step of mergeEdges.
FlowStep(trace, acc, f) ==
    LET i == IndexOf(trace, Pair(f)) IN
    IF i = 0 THEN Append(acc, [f EXCEPT !.prov = "flow"])
    ELSE [acc EXCEPT ![i].prov = "both", ![i].bytes = f.bytes]
TraceEdges(trace) == [i \in DOMAIN trace |-> [trace[i] EXCEPT !.prov = "trace"]]

\* A list with one edge replaced.
LEMMA SetEdge ==
    ASSUME NEW U, NEW acc \in Seq(Edge(U)), NEW i \in 1 .. Len(acc), NEW e \in Edge(U)
    PROVE  /\ [acc EXCEPT ![i] = e] \in Seq(Edge(U)) /\ Len([acc EXCEPT ![i] = e]) = Len(acc)
           /\ \A j \in 1 .. Len(acc) : [acc EXCEPT ![i] = e][j] = IF j = i THEN e ELSE acc[j]
OBVIOUS

\* The position IndexOf finds.
LEMMA IndexFound ==
    ASSUME NEW U, NEW m \in Seq(U), NEW p
    PROVE  \/ IndexOf(m, p) = 0 /\ \A i \in 1 .. Len(m) : Pair(m[i]) # p
           \/ IndexOf(m, p) \in 1 .. Len(m) /\ IndexOf(m, p) # 0 /\ Pair(m[IndexOf(m, p)]) = p
<1> DEFINE hits == {i \in DOMAIN m : Pair(m[i]) = p}
<1>1. DOMAIN m = 1 .. Len(m) /\ Len(m) \in Nat OBVIOUS
<1>2. hits \in SUBSET (1 .. Len(m)) BY <1>1
<1>3. CASE hits = {}
  <2>1. IndexOf(m, p) = 0 BY <1>3 DEF IndexOf
  <2>2. QED BY <1>1, <1>3, <2>1
<1>4. CASE hits # {}
  <2>1. Max(hits) \in hits
    <3> HIDE DEF hits
    <3>1. QED BY <1>1, <1>2, <1>4, LastPosition
  <2>2. IndexOf(m, p) = Max(hits) BY <1>4 DEF IndexOf
  <2>3. Max(hits) \in 1 .. Len(m) /\ Pair(m[Max(hits)]) = p BY <2>1, <1>1
  <2>4. \A i \in 1 .. Len(m) : i # 0 BY <1>1
  <2> HIDE DEF hits
  <2>5. QED BY <2>2, <2>3, <2>4
<1>5. QED BY <1>3, <1>4

\* A step of a merge makes a list of edges of a list of edges.
LEMMA FlowStepEdges ==
    ASSUME NEW U, NEW trace, NEW acc \in Seq(Edge(U)), NEW f \in Edge(U)
    PROVE  FlowStep(trace, acc, f) \in Seq(Edge(U))
<1>1. PICK i : i = IndexOf(trace, Pair(f)) OBVIOUS
<1>2. CASE i = 0
  <2>1. [f EXCEPT !.prov = "flow"] \in Edge(U) BY DEF Edge
  <2>2. FlowStep(trace, acc, f) = Append(acc, [f EXCEPT !.prov = "flow"]) BY <1>1, <1>2 DEF FlowStep
  <2>3. QED BY <2>1, <2>2
<1>3. CASE i # 0
  <2>1. FlowStep(trace, acc, f) = [acc EXCEPT ![i].prov = "both", ![i].bytes = f.bytes]
    BY <1>1, <1>3 DEF FlowStep
  <2>2. CASE i \in 1 .. Len(acc)
    <3>1. PICK e : e = [[acc[i] EXCEPT !.prov = "both"] EXCEPT !.bytes = f.bytes] OBVIOUS
    <3>2. acc[i] \in Edge(U) BY <2>2
    <3>3. e \in Edge(U) BY <3>1, <3>2 DEF Edge
    <3>4. [acc EXCEPT ![i].prov = "both", ![i].bytes = f.bytes] = [acc EXCEPT ![i] = e] BY <2>2, <3>1
    <3>5. [acc EXCEPT ![i] = e] \in Seq(Edge(U)) BY <2>2, <3>3, SetEdge
    <3>6. QED BY <2>1, <3>4, <3>5
  <2>3. CASE i \notin 1 .. Len(acc)
    <3>1. i \notin DOMAIN acc BY <2>3
    <3>2. [acc EXCEPT ![i].prov = "both", ![i].bytes = f.bytes] = acc BY <3>1
    <3>3. QED BY <2>1, <3>2
  <2>4. QED BY <2>2, <2>3
<1>4. QED BY <1>2, <1>3

\* mergeEdges, step by step.
LEMMA FlowRun ==
    ASSUME NEW U, NEW trace, NEW flow \in Seq(Edge(U)), NEW b \in Seq(Edge(U)), b = TraceEdges(trace)
    PROVE  \E h : /\ h[0] = b /\ h[Len(flow)] = mergeEdges(trace, flow)
                  /\ \A k \in 1 .. Len(flow) : h[k] = FlowStep(trace, h[k - 1], flow[k])
<1> DEFINE n == Len(flow)
           A == Seq(Edge(U))
           F == [x \in (1 .. n) \X A |-> FlowStep(trace, x[2], flow[x[1]])]
           Phi(g) == [s \in SUBSET (1 .. n) |-> IF s = {} THEN b ELSE FlowStep(trace, g[s \ {Max(s)}], flow[Max(s)])]
           c == CHOOSE g : g = Phi(g)
<1>1. n \in Nat /\ DOMAIN flow = 1 .. n OBVIOUS
<1>2. mergeEdges(trace, flow) = c[1 .. n]
  BY <1>1 DEF mergeEdges, FoldLeft, MapThenFoldSet, FlowStep, TraceEdges
<1> HIDE DEF n, A
<1>3. F \in [(1 .. n) \X A -> A]
  <2>1. \A x \in (1 .. n) \X A : flow[x[1]] \in Edge(U) /\ x[2] \in Seq(Edge(U)) BY <1>1 DEF A, n
  <2>2. \A x \in (1 .. n) \X A : FlowStep(trace, x[2], flow[x[1]]) \in A BY <2>1, FlowStepEdges DEF A
  <2>3. QED BY <2>2
<1> HIDE DEF F
<1>4. PICK g : Folds(g, n, A, b, F)
  <2>1. b \in A BY DEF A
  <2>2. QED BY <1>1, <1>3, <2>1, FoldExists
<1>5. /\ g \in [SUBSET (1 .. n) -> A]
       /\ \A s \in SUBSET (1 .. n) : g[s] = IF s = {} THEN b ELSE F[<<Max(s), g[s \ {Max(s)}]>>]
  BY <1>4 DEF Folds
<1>6. g = Phi(g)
  <2>1. ASSUME NEW s \in SUBSET (1 .. n), s # {} PROVE g[s] = FlowStep(trace, g[s \ {Max(s)}], flow[Max(s)])
    <3>1. Max(s) \in s BY <1>1, <2>1, LastPosition
    <3>2. PICK m, u : m = Max(s) /\ u = s \ {Max(s)} OBVIOUS
    <3>3. m \in 1 .. n /\ u \in SUBSET (1 .. n) BY <3>1, <3>2
    <3>4. g[u] \in A BY <1>5, <3>3
    <3>5. F[<<m, g[u]>>] = FlowStep(trace, g[u], flow[m]) BY <3>3, <3>4 DEF F
    <3>6. g[s] = F[<<m, g[u]>>] BY <1>5, <2>1, <3>2
    <3>7. QED BY <3>2, <3>5, <3>6
  <2>2. \A s \in SUBSET (1 .. n) : g[s] = Phi(g)[s] BY <1>5, <2>1
  <2>3. QED BY <1>5, <2>2
<1>7. c = Phi(c)
  <2> HIDE DEF Phi
  <2>1. QED BY <1>6
<1> HIDE DEF c
<1>8. c[{}] = b BY <1>7
<1>9. \A s \in SUBSET (1 .. n) : s # {} /\ c[s \ {Max(s)}] \in A => c[s] = F[<<Max(s), c[s \ {Max(s)}]>>]
  <2>1. SUFFICES ASSUME NEW s \in SUBSET (1 .. n), s # {}, c[s \ {Max(s)}] \in A
        PROVE  c[s] = F[<<Max(s), c[s \ {Max(s)}]>>]
    OBVIOUS
  <2>2. Max(s) \in 1 .. n BY <1>1, <2>1, LastPosition
  <2>3. PICK m, a : m = Max(s) /\ a = c[s \ {Max(s)}] OBVIOUS
  <2>4. F[<<m, a>>] = FlowStep(trace, a, flow[m]) BY <2>1, <2>2, <2>3 DEF F
  <2>5. c[s] = FlowStep(trace, c[s \ {Max(s)}], flow[Max(s)]) BY <1>7, <2>1
  <2>6. QED BY <2>3, <2>4, <2>5
<1>10. Unwinds(c, n, A, b, F) BY <1>8, <1>9 DEF Unwinds
<1>11. PICK h : Stepwise(h, n, A, b, F, mergeEdges(trace, flow))
  <2>1. b \in A BY DEF A
  <2>2. QED BY <1>1, <1>2, <1>3, <1>10, <2>1, FoldRun
<1>12. ASSUME NEW k \in 1 .. n PROVE h[k] = FlowStep(trace, h[k - 1], flow[k])
  <2>1. k - 1 \in 0 .. n BY <1>1
  <2>2. h[k - 1] \in A BY <1>11, <2>1 DEF Stepwise
  <2>3. h[k] = F[<<k, h[k - 1]>>] BY <1>11 DEF Stepwise
  <2>4. QED BY <2>2, <2>3 DEF F
<1>13. h[0] = b /\ h[n] = mergeEdges(trace, flow) BY <1>11 DEF Stepwise
<1>14. QED BY <1>12, <1>13 DEF n

\* One step of MergeCollapsed and one of applyEdgeHealth.
Dep(U) == [src : U, dst : U, calls : Nat, errors : Nat, via : U]
Link(U) == [src : U, dst : U, failed : U, retransmits : U]
CollapsedEdge(c) == [src |-> c.src, dst |-> c.dst, prov |-> "collapsed", calls |-> c.calls, bytes |-> 0,
                     via |-> c.via, failed |-> 0]
HealthEdge(x) == [src |-> x.src, dst |-> x.dst, prov |-> "flow", calls |-> 0, bytes |-> 0, via |-> {},
                  failed |-> x.failed]
CollapsedStep(acc, c) ==
    LET i == IndexOf(acc, Pair(c)) IN
    IF i = 0 THEN Append(acc, CollapsedEdge(c))
    ELSE [acc EXCEPT ![i].calls = @ + c.calls, ![i].via = c.via]
HealthStep(edges, acc, x) ==
    LET i == IndexOf(edges, Pair(x)) IN
    IF i = 0 THEN Append(acc, HealthEdge(x)) ELSE [acc EXCEPT ![i].failed = x.failed]

\* ... of dependencies,
LEMMA CollapsedStepEdges ==
    ASSUME NEW U, 0 \in U, NEW acc \in Seq(Edge(U)), NEW c \in Dep(U)
    PROVE  CollapsedStep(acc, c) \in Seq(Edge(U))
<1>1. PICK i : i = IndexOf(acc, Pair(c)) OBVIOUS
<1>2. CASE i = 0
  <2>1. CollapsedEdge(c) \in Edge(U) BY DEF Edge, Dep, CollapsedEdge
  <2>2. CollapsedStep(acc, c) = Append(acc, CollapsedEdge(c)) BY <1>1, <1>2 DEF CollapsedStep
  <2>3. QED BY <2>1, <2>2
<1>3. CASE i # 0
  <2>1. i \in 1 .. Len(acc) BY <1>1, <1>3, IndexFound
  <2>2. PICK e : e = [[acc[i] EXCEPT !.calls = @ + c.calls] EXCEPT !.via = c.via] OBVIOUS
  <2>3. acc[i] \in Edge(U) BY <2>1
  <2>30. acc[i].calls \in Nat /\ c.calls \in Nat BY <2>3 DEF Edge, Dep
  <2>31. PICK n \in Nat : n = acc[i].calls + c.calls BY <2>30
  <2>32. e = [[acc[i] EXCEPT !.calls = n] EXCEPT !.via = c.via] BY <2>2, <2>31
  <2>4. e \in Edge(U) BY <2>3, <2>32 DEF Edge, Dep
  <2>5. [acc EXCEPT ![i].calls = @ + c.calls, ![i].via = c.via] = [acc EXCEPT ![i] = e] BY <2>1, <2>2
  <2>6. [acc EXCEPT ![i] = e] \in Seq(Edge(U)) BY <2>1, <2>4, SetEdge
  <2>7. QED BY <1>1, <1>3, <2>5, <2>6 DEF CollapsedStep
<1>4. QED BY <1>2, <1>3

\* ... and of health.
LEMMA HealthStepEdges ==
    ASSUME NEW U, {0, {}} \subseteq U, NEW edges, NEW acc \in Seq(Edge(U)), NEW x \in Link(U)
    PROVE  HealthStep(edges, acc, x) \in Seq(Edge(U))
<1>1. PICK i : i = IndexOf(edges, Pair(x)) OBVIOUS
<1>2. CASE i = 0
  <2>1. HealthEdge(x) \in Edge(U) BY DEF Edge, Link, HealthEdge
  <2>2. HealthStep(edges, acc, x) = Append(acc, HealthEdge(x)) BY <1>1, <1>2 DEF HealthStep
  <2>3. QED BY <2>1, <2>2
<1>3. CASE i # 0
  <2>1. HealthStep(edges, acc, x) = [acc EXCEPT ![i].failed = x.failed] BY <1>1, <1>3 DEF HealthStep
  <2>2. CASE i \in 1 .. Len(acc)
    <3>1. PICK e : e = [acc[i] EXCEPT !.failed = x.failed] OBVIOUS
    <3>2. acc[i] \in Edge(U) BY <2>2
    <3>3. e \in Edge(U) BY <3>1, <3>2 DEF Edge, Link
    <3>4. [acc EXCEPT ![i].failed = x.failed] = [acc EXCEPT ![i] = e] BY <2>2, <3>1
    <3>5. [acc EXCEPT ![i] = e] \in Seq(Edge(U)) BY <2>2, <3>3, SetEdge
    <3>6. QED BY <2>1, <3>4, <3>5
  <2>3. CASE i \notin 1 .. Len(acc)
    <3>1. i \notin DOMAIN acc BY <2>3
    <3>2. [acc EXCEPT ![i].failed = x.failed] = acc BY <3>1
    <3>3. QED BY <2>1, <3>2
  <2>4. QED BY <2>2, <2>3
<1>4. QED BY <1>2, <1>3

\* MergeCollapsed, step by step.
LEMMA CollapsedRun ==
    ASSUME NEW U, 0 \in U, NEW cs \in Seq(Dep(U)), NEW b \in Seq(Edge(U))
    PROVE  \E h : /\ h[0] = b /\ h[Len(cs)] = MergeCollapsed(b, cs)
                  /\ \A k \in 1 .. Len(cs) : h[k] = CollapsedStep(h[k - 1], cs[k])
<1> DEFINE n == Len(cs)
           A == Seq(Edge(U))
           F == [x \in (1 .. n) \X A |-> CollapsedStep(x[2], cs[x[1]])]
           Phi(g) == [s \in SUBSET (1 .. n) |-> IF s = {} THEN b ELSE CollapsedStep(g[s \ {Max(s)}], cs[Max(s)])]
           c == CHOOSE g : g = Phi(g)
<1>1. n \in Nat /\ DOMAIN cs = 1 .. n OBVIOUS
<1>2. MergeCollapsed(b, cs) = c[1 .. n]
  BY <1>1 DEF MergeCollapsed, FoldLeft, MapThenFoldSet, CollapsedStep, CollapsedEdge
<1> HIDE DEF n, A
<1>3. F \in [(1 .. n) \X A -> A]
  <2>1. \A x \in (1 .. n) \X A : cs[x[1]] \in Dep(U) /\ x[2] \in Seq(Edge(U)) BY <1>1 DEF A, n
  <2>2. \A x \in (1 .. n) \X A : CollapsedStep(x[2], cs[x[1]]) \in A BY <2>1, CollapsedStepEdges DEF A
  <2>3. QED BY <2>2
<1> HIDE DEF F
<1>4. PICK g : Folds(g, n, A, b, F)
  <2>1. b \in A BY DEF A
  <2>2. QED BY <1>1, <1>3, <2>1, FoldExists
<1>5. /\ g \in [SUBSET (1 .. n) -> A]
       /\ \A s \in SUBSET (1 .. n) : g[s] = IF s = {} THEN b ELSE F[<<Max(s), g[s \ {Max(s)}]>>]
  BY <1>4 DEF Folds
<1>6. g = Phi(g)
  <2>1. ASSUME NEW s \in SUBSET (1 .. n), s # {} PROVE g[s] = CollapsedStep(g[s \ {Max(s)}], cs[Max(s)])
    <3>1. Max(s) \in s BY <1>1, <2>1, LastPosition
    <3>2. PICK m, u : m = Max(s) /\ u = s \ {Max(s)} OBVIOUS
    <3>3. m \in 1 .. n /\ u \in SUBSET (1 .. n) BY <3>1, <3>2
    <3>4. g[u] \in A BY <1>5, <3>3
    <3>5. F[<<m, g[u]>>] = CollapsedStep(g[u], cs[m]) BY <3>3, <3>4 DEF F
    <3>6. g[s] = F[<<m, g[u]>>] BY <1>5, <2>1, <3>2
    <3>7. QED BY <3>2, <3>5, <3>6
  <2>2. \A s \in SUBSET (1 .. n) : g[s] = Phi(g)[s] BY <1>5, <2>1
  <2>3. QED BY <1>5, <2>2
<1>7. c = Phi(c)
  <2> HIDE DEF Phi
  <2>1. QED BY <1>6
<1> HIDE DEF c
<1>8. c[{}] = b BY <1>7
<1>9. \A s \in SUBSET (1 .. n) : s # {} /\ c[s \ {Max(s)}] \in A => c[s] = F[<<Max(s), c[s \ {Max(s)}]>>]
  <2>1. SUFFICES ASSUME NEW s \in SUBSET (1 .. n), s # {}, c[s \ {Max(s)}] \in A
        PROVE  c[s] = F[<<Max(s), c[s \ {Max(s)}]>>]
    OBVIOUS
  <2>2. Max(s) \in 1 .. n BY <1>1, <2>1, LastPosition
  <2>3. PICK m, a : m = Max(s) /\ a = c[s \ {Max(s)}] OBVIOUS
  <2>4. F[<<m, a>>] = CollapsedStep(a, cs[m]) BY <2>1, <2>2, <2>3 DEF F
  <2>5. c[s] = CollapsedStep(c[s \ {Max(s)}], cs[Max(s)]) BY <1>7, <2>1
  <2>6. QED BY <2>3, <2>4, <2>5
<1>10. Unwinds(c, n, A, b, F) BY <1>8, <1>9 DEF Unwinds
<1>11. PICK h : Stepwise(h, n, A, b, F, MergeCollapsed(b, cs))
  <2>1. b \in A BY DEF A
  <2>2. QED BY <1>1, <1>2, <1>3, <1>10, <2>1, FoldRun
<1>12. ASSUME NEW k \in 1 .. n PROVE h[k] = CollapsedStep(h[k - 1], cs[k])
  <2>1. k - 1 \in 0 .. n BY <1>1
  <2>2. h[k - 1] \in A BY <1>11, <2>1 DEF Stepwise
  <2>3. h[k] = F[<<k, h[k - 1]>>] BY <1>11 DEF Stepwise
  <2>4. QED BY <2>2, <2>3 DEF F
<1>13. h[0] = b /\ h[n] = MergeCollapsed(b, cs) BY <1>11 DEF Stepwise
<1>14. QED BY <1>12, <1>13 DEF n

\* applyEdgeHealth, step by step.
LEMMA HealthRun ==
    ASSUME NEW U, {0, {}} \subseteq U, NEW hs \in Seq(Link(U)), NEW b \in Seq(Edge(U))
    PROVE  \E h : /\ h[0] = b /\ h[Len(hs)] = applyEdgeHealth(b, hs)
                  /\ \A k \in 1 .. Len(hs) : h[k] = HealthStep(b, h[k - 1], hs[k])
<1> DEFINE n == Len(hs)
           A == Seq(Edge(U))
           F == [x \in (1 .. n) \X A |-> HealthStep(b, x[2], hs[x[1]])]
           Phi(g) == [s \in SUBSET (1 .. n) |-> IF s = {} THEN b ELSE HealthStep(b, g[s \ {Max(s)}], hs[Max(s)])]
           c == CHOOSE g : g = Phi(g)
<1>1. n \in Nat /\ DOMAIN hs = 1 .. n OBVIOUS
<1>2. applyEdgeHealth(b, hs) = c[1 .. n]
  BY <1>1 DEF applyEdgeHealth, FoldLeft, MapThenFoldSet, HealthStep, HealthEdge
<1> HIDE DEF n, A
<1>3. F \in [(1 .. n) \X A -> A]
  <2>1. \A x \in (1 .. n) \X A : hs[x[1]] \in Link(U) /\ x[2] \in Seq(Edge(U)) BY <1>1 DEF A, n
  <2>2. \A x \in (1 .. n) \X A : HealthStep(b, x[2], hs[x[1]]) \in A BY <2>1, HealthStepEdges DEF A
  <2>3. QED BY <2>2
<1> HIDE DEF F
<1>4. PICK g : Folds(g, n, A, b, F)
  <2>1. b \in A BY DEF A
  <2>2. QED BY <1>1, <1>3, <2>1, FoldExists
<1>5. /\ g \in [SUBSET (1 .. n) -> A]
       /\ \A s \in SUBSET (1 .. n) : g[s] = IF s = {} THEN b ELSE F[<<Max(s), g[s \ {Max(s)}]>>]
  BY <1>4 DEF Folds
<1>6. g = Phi(g)
  <2>1. ASSUME NEW s \in SUBSET (1 .. n), s # {} PROVE g[s] = HealthStep(b, g[s \ {Max(s)}], hs[Max(s)])
    <3>1. Max(s) \in s BY <1>1, <2>1, LastPosition
    <3>2. PICK m, u : m = Max(s) /\ u = s \ {Max(s)} OBVIOUS
    <3>3. m \in 1 .. n /\ u \in SUBSET (1 .. n) BY <3>1, <3>2
    <3>4. g[u] \in A BY <1>5, <3>3
    <3>5. F[<<m, g[u]>>] = HealthStep(b, g[u], hs[m]) BY <3>3, <3>4 DEF F
    <3>6. g[s] = F[<<m, g[u]>>] BY <1>5, <2>1, <3>2
    <3>7. QED BY <3>2, <3>5, <3>6
  <2>2. \A s \in SUBSET (1 .. n) : g[s] = Phi(g)[s] BY <1>5, <2>1
  <2>3. QED BY <1>5, <2>2
<1>7. c = Phi(c)
  <2> HIDE DEF Phi
  <2>1. QED BY <1>6
<1> HIDE DEF c
<1>8. c[{}] = b BY <1>7
<1>9. \A s \in SUBSET (1 .. n) : s # {} /\ c[s \ {Max(s)}] \in A => c[s] = F[<<Max(s), c[s \ {Max(s)}]>>]
  <2>1. SUFFICES ASSUME NEW s \in SUBSET (1 .. n), s # {}, c[s \ {Max(s)}] \in A
        PROVE  c[s] = F[<<Max(s), c[s \ {Max(s)}]>>]
    OBVIOUS
  <2>2. Max(s) \in 1 .. n BY <1>1, <2>1, LastPosition
  <2>3. PICK m, a : m = Max(s) /\ a = c[s \ {Max(s)}] OBVIOUS
  <2>4. F[<<m, a>>] = HealthStep(b, a, hs[m]) BY <2>1, <2>2, <2>3 DEF F
  <2>5. c[s] = HealthStep(b, c[s \ {Max(s)}], hs[Max(s)]) BY <1>7, <2>1
  <2>6. QED BY <2>3, <2>4, <2>5
<1>10. Unwinds(c, n, A, b, F) BY <1>8, <1>9 DEF Unwinds
<1>11. PICK h : Stepwise(h, n, A, b, F, applyEdgeHealth(b, hs))
  <2>1. b \in A BY DEF A
  <2>2. QED BY <1>1, <1>2, <1>3, <1>10, <2>1, FoldRun
<1>12. ASSUME NEW k \in 1 .. n PROVE h[k] = HealthStep(b, h[k - 1], hs[k])
  <2>1. k - 1 \in 0 .. n BY <1>1
  <2>2. h[k - 1] \in A BY <1>11, <2>1 DEF Stepwise
  <2>3. h[k] = F[<<k, h[k - 1]>>] BY <1>11 DEF Stepwise
  <2>4. QED BY <2>2, <2>3 DEF F
<1>13. h[0] = b /\ h[n] = applyEdgeHealth(b, hs) BY <1>11 DEF Stepwise
<1>14. QED BY <1>12, <1>13 DEF n

\* What mergeEdges begins with: the edges of the traces, under their own name.
LEMMA TracedAs ==
    ASSUME NEW U, NEW trace \in Seq(Edge(U)), NEW b, b = TraceEdges(trace)
    PROVE  /\ b \in Seq(Edge(U)) /\ Len(b) = Len(trace)
           /\ \A i \in 1 .. Len(trace) : /\ Pair(b[i]) = Pair(trace[i]) /\ b[i].calls = trace[i].calls
                                         /\ b[i].via = trace[i].via
<1>1. DOMAIN trace = 1 .. Len(trace) /\ Len(trace) \in Nat OBVIOUS
<1>2. ASSUME NEW i \in 1 .. Len(trace)
      PROVE  /\ b[i] \in Edge(U) /\ Pair(b[i]) = Pair(trace[i]) /\ b[i].calls = trace[i].calls
             /\ b[i].via = trace[i].via
  <2>1. b[i] = [trace[i] EXCEPT !.prov = "trace"] BY <1>1 DEF TraceEdges
  <2>2. trace[i] \in Edge(U) OBVIOUS
  <2>3. QED BY <2>1, <2>2 DEF Edge, Pair
<1>3. b \in [1 .. Len(trace) -> Edge(U)] BY <1>1, <1>2 DEF TraceEdges
<1>4. b \in Seq(Edge(U)) /\ Len(b) = Len(trace) BY <1>1, <1>3
<1>5. QED BY <1>2, <1>4

\* Changing an edge in its place, but for its pair, adds to it alone.
LEMMA ChangeEdge ==
    ASSUME NEW U, NEW acc \in Seq(Edge(U)), NEW i \in 1 .. Len(acc), NEW e \in Edge(U), NEW p, NEW w \in Nat, NEW V,
           Pair(acc[i]) = p, Pair(e) = p, e.calls = acc[i].calls + w, e.via = acc[i].via \/ p \in V
    PROVE  SameEdges(U, acc, [acc EXCEPT ![i] = e], p, w, V)
<1>1. PICK new : new = [acc EXCEPT ![i] = e] OBVIOUS
<1>2. /\ new \in Seq(Edge(U)) /\ Len(new) = Len(acc)
      /\ \A j \in 1 .. Len(acc) : new[j] = IF j = i THEN e ELSE acc[j]
  BY <1>1, SetEdge
<1>3. \A j \in 1 .. Len(acc) : acc[j].calls \in Nat
  <2>1. \A j \in 1 .. Len(acc) : acc[j] \in Edge(U) OBVIOUS
  <2>2. QED BY <2>1 DEF Edge
<1>4. ASSUME NEW j \in 1 .. Len(acc)
      PROVE  /\ Pair(new[j]) = Pair(acc[j])
             /\ Pair(acc[j]) # p => new[j].calls = acc[j].calls
             /\ new[j].calls <= acc[j].calls + w
             /\ new[j].via # {} => acc[j].via # {} \/ Pair(acc[j]) \in V
  <2>1. CASE j = i
    <3>1. new[j] = e BY <1>2, <2>1
    <3>2. acc[j].calls + w \in Int /\ \A x \in Int : x <= x BY <1>3
    <3>3. QED BY <2>1, <3>1, <3>2
  <2>2. CASE j # i
    <3>1. new[j] = acc[j] BY <1>2, <2>2
    <3>2. acc[j].calls <= acc[j].calls + w BY <1>3
    <3>3. QED BY <3>1, <3>2
  <2>3. QED BY <2>1, <2>2
<1>5. SameEdges(U, acc, new, p, w, V) BY <1>2, <1>4 DEF SameEdges
<1>6. QED BY <1>1, <1>5

\* Each step of the three folds is a step of a merge.
LEMMA FlowMerges ==
    ASSUME NEW U, NEW V, NEW trace \in Seq(Edge(U)), NEW b, b = TraceEdges(trace), NEW acc, Onto(U, b, acc),
           NEW f \in Edge(U), f.calls = 0, f.via = {}
    PROVE  MergeStep(U, b, acc, FlowStep(trace, acc, f), Pair(f), 0, V)
<1>1. PICK i, p : i = IndexOf(trace, Pair(f)) /\ p = Pair(f) OBVIOUS
<1>2. /\ b \in Seq(Edge(U)) /\ Len(b) = Len(trace) /\ \A j \in 1 .. Len(trace) : Pair(b[j]) = Pair(trace[j])
  BY TracedAs
<1>3. acc \in Seq(Edge(U)) /\ Len(b) <= Len(acc) /\ Len(b) \in Nat /\ Len(acc) \in Nat BY <1>2 DEF Onto
<1>4. CASE i = 0
  <2>1. PICK e : e = [f EXCEPT !.prov = "flow"] OBVIOUS
  <2>2. e \in Edge(U) /\ Pair(e) = p /\ e.calls = 0 /\ e.via = {} BY <1>1, <2>1 DEF Edge, Pair
  <2>3. \A j \in 1 .. Len(trace) : Pair(trace[j]) # p BY <1>1, <1>4, IndexFound
  <2>4. p \notin PairsOf(b) BY <1>2, <2>3 DEF PairsOf
  <2>5. FlowStep(trace, acc, f) = Append(acc, e) BY <1>1, <1>4, <2>1 DEF FlowStep
  <2>6. NewEdge(U, b, acc, Append(acc, e), p, 0, V) BY <2>2, <2>4 DEF NewEdge
  <2>7. QED BY <1>1, <2>5, <2>6 DEF MergeStep
<1>5. CASE i # 0
  <2>1. i \in 1 .. Len(trace) /\ Pair(trace[i]) = p BY <1>1, <1>5, IndexFound
  <2>2. i \in 1 .. Len(acc) BY <1>2, <1>3, <2>1
  <2>3. Pair(acc[i]) = p BY <1>2, <2>1 DEF Onto
  <2>4. PICK e : e = [[acc[i] EXCEPT !.prov = "both"] EXCEPT !.bytes = f.bytes] OBVIOUS
  <2>5. acc[i] \in Edge(U) BY <1>3, <2>2
  <2>6. e \in Edge(U) /\ Pair(e) = Pair(acc[i]) /\ e.calls = acc[i].calls /\ e.via = acc[i].via
    BY <2>4, <2>5 DEF Edge, Pair
  <2>7. acc[i].calls = acc[i].calls + 0
    <3>1. acc[i].calls \in Nat BY <2>5 DEF Edge
    <3>2. \A n \in Nat : n = n + 0 OBVIOUS
    <3>3. QED BY <3>1, <3>2
  <2>8. SameEdges(U, acc, [acc EXCEPT ![i] = e], p, 0, V) BY ONLY <1>3, <2>2, <2>3, <2>6, <2>7, ChangeEdge
  <2>9. [acc EXCEPT ![i].prov = "both", ![i].bytes = f.bytes] = [acc EXCEPT ![i] = e] BY <1>3, <2>2, <2>4
  <2>10. FlowStep(trace, acc, f) = [acc EXCEPT ![i] = e] BY <1>1, <1>5, <2>9 DEF FlowStep
  <2>11. QED BY <1>1, <2>8, <2>10 DEF MergeStep
<1>6. QED BY <1>4, <1>5

LEMMA CollapsedMerges ==
    ASSUME NEW U, 0 \in U, NEW V, NEW b \in Seq(Edge(U)), NEW acc, Onto(U, b, acc), NEW c \in Dep(U), Pair(c) \in V
    PROVE  MergeStep(U, b, acc, CollapsedStep(acc, c), Pair(c), c.calls, V)
<1>1. PICK i, p : i = IndexOf(acc, Pair(c)) /\ p = Pair(c) OBVIOUS
<1>2. acc \in Seq(Edge(U)) /\ Len(b) <= Len(acc) /\ Len(b) \in Nat /\ Len(acc) \in Nat BY DEF Onto
<1>3. c.calls \in Nat BY DEF Dep
<1>4. CASE i = 0
  <2>1. PICK e : e = CollapsedEdge(c) OBVIOUS
  <2>2. e \in Edge(U) /\ Pair(e) = p /\ e.calls = c.calls BY <1>1, <2>1 DEF Edge, Dep, Pair, CollapsedEdge
  <2>3. \A j \in 1 .. Len(acc) : Pair(acc[j]) # p BY <1>1, <1>2, <1>4, IndexFound
  <2>4. \A j \in 1 .. Len(b) : j \in 1 .. Len(acc) BY <1>2
  <2>5. p \notin PairsOf(b) BY <2>3, <2>4 DEF PairsOf, Onto
  <2>6. CollapsedStep(acc, c) = Append(acc, e) BY <1>1, <1>4, <2>1 DEF CollapsedStep
  <2>7. e.calls <= c.calls BY <1>3, <2>2
  <2>8. NewEdge(U, b, acc, Append(acc, e), p, c.calls, V) BY <1>1, <2>2, <2>5, <2>7 DEF NewEdge
  <2>9. QED BY <1>1, <2>6, <2>8 DEF MergeStep
<1>5. CASE i # 0
  <2>1. i \in 1 .. Len(acc) /\ Pair(acc[i]) = p BY <1>1, <1>2, <1>5, IndexFound
  <2>2. acc[i] \in Edge(U) BY <1>2, <2>1
  <2>20. acc[i].calls \in Nat BY <2>2 DEF Edge
  <2>3. PICK n \in Nat : n = acc[i].calls + c.calls BY <1>3, <2>20
  <2>4. PICK e : e = [[acc[i] EXCEPT !.calls = n] EXCEPT !.via = c.via] OBVIOUS
  <2>5. e \in Edge(U) /\ Pair(e) = Pair(acc[i]) /\ e.calls = n BY <2>2, <2>4 DEF Edge, Dep, Pair
  <2>6. e.calls = acc[i].calls + c.calls /\ Pair(e) = p /\ p \in V BY <1>1, <2>1, <2>3, <2>5
  <2>7. SameEdges(U, acc, [acc EXCEPT ![i] = e], p, c.calls, V) BY <1>2, <1>3, <2>1, <2>5, <2>6, ChangeEdge
  <2>8. [acc EXCEPT ![i].calls = @ + c.calls, ![i].via = c.via] = [acc EXCEPT ![i] = e] BY <1>2, <2>1, <2>3, <2>4
  <2>9. CollapsedStep(acc, c) = [acc EXCEPT ![i] = e] BY <1>1, <1>5, <2>8 DEF CollapsedStep
  <2>10. QED BY <1>1, <2>7, <2>9 DEF MergeStep
<1>6. QED BY <1>4, <1>5

LEMMA HealthMerges ==
    ASSUME NEW U, {0, {}} \subseteq U, NEW V, NEW b \in Seq(Edge(U)), NEW acc, Onto(U, b, acc), NEW x \in Link(U)
    PROVE  MergeStep(U, b, acc, HealthStep(b, acc, x), Pair(x), 0, V)
<1>1. PICK i, p : i = IndexOf(b, Pair(x)) /\ p = Pair(x) OBVIOUS
<1>2. acc \in Seq(Edge(U)) /\ Len(b) <= Len(acc) /\ Len(b) \in Nat /\ Len(acc) \in Nat BY DEF Onto
<1>3. CASE i = 0
  <2>1. PICK e : e = HealthEdge(x) OBVIOUS
  <2>2. e \in Edge(U) /\ Pair(e) = p /\ e.calls = 0 /\ e.via = {} BY <1>1, <2>1 DEF Edge, Link, Pair, HealthEdge
  <2>3. \A j \in 1 .. Len(b) : Pair(b[j]) # p BY <1>1, <1>3, IndexFound
  <2>4. p \notin PairsOf(b) BY <2>3 DEF PairsOf
  <2>5. HealthStep(b, acc, x) = Append(acc, e) BY <1>1, <1>3, <2>1 DEF HealthStep
  <2>6. NewEdge(U, b, acc, Append(acc, e), p, 0, V) BY <2>2, <2>4 DEF NewEdge
  <2>7. QED BY <1>1, <2>5, <2>6 DEF MergeStep
<1>4. CASE i # 0
  <2>1. i \in 1 .. Len(b) /\ Pair(b[i]) = p BY <1>1, <1>4, IndexFound
  <2>2. i \in 1 .. Len(acc) BY <1>2, <2>1
  <2>3. Pair(acc[i]) = p BY <2>1 DEF Onto
  <2>4. PICK e : e = [acc[i] EXCEPT !.failed = x.failed] OBVIOUS
  <2>5. acc[i] \in Edge(U) BY <1>2, <2>2
  <2>6. e \in Edge(U) /\ Pair(e) = Pair(acc[i]) /\ e.calls = acc[i].calls /\ e.via = acc[i].via
    BY <2>4, <2>5 DEF Edge, Link, Pair
  <2>7. acc[i].calls = acc[i].calls + 0
    <3>1. acc[i].calls \in Nat BY <2>5 DEF Edge
    <3>2. \A n \in Nat : n = n + 0 OBVIOUS
    <3>3. QED BY <3>1, <3>2
  <2>8. SameEdges(U, acc, [acc EXCEPT ![i] = e], p, 0, V) BY <1>2, <2>2, <2>3, <2>6, <2>7, ChangeEdge
  <2>9. [acc EXCEPT ![i].failed = x.failed] = [acc EXCEPT ![i] = e] BY <1>2, <2>2, <2>4
  <2>10. HealthStep(b, acc, x) = [acc EXCEPT ![i] = e] BY <1>1, <1>4, <2>9 DEF HealthStep
  <2>11. QED BY <1>1, <2>8, <2>10 DEF MergeStep
<1>5. QED BY <1>3, <1>4

\* The pairs of a list, in its order.
PairAt(m) == [i \in 1 .. Len(m) |-> Pair(m[i])]

\* So mergeEdges, MergeCollapsed and applyEdgeHealth each keep a sound list sound.
LEMMA FlowSound ==
    ASSUME NEW U, NEW L \in [U \X U -> Nat], NEW trace, SoundEdges(U, trace, L, {}),
           NEW flow \in Seq(Edge(U)), PairsApart(flow),
           \A i \in 1 .. Len(flow) : flow[i].calls = 0 /\ flow[i].via = {}
    PROVE  SoundEdges(U, mergeEdges(trace, flow), L, {})
<1>1. trace \in Seq(Edge(U)) BY DEF SoundEdges
<1>2. PICK b, n, ps, ws : /\ b = TraceEdges(trace) /\ n = Len(flow) /\ ps = PairAt(flow)
                          /\ ws = [i \in 1 .. Len(flow) |-> 0]
  OBVIOUS
<1>3. /\ b \in Seq(Edge(U)) /\ Len(b) = Len(trace)
      /\ \A i \in 1 .. Len(trace) : /\ Pair(b[i]) = Pair(trace[i]) /\ b[i].calls = trace[i].calls
                                    /\ b[i].via = trace[i].via
  BY <1>1, <1>2, TracedAs
<1>4. SoundEdges(U, b, L, {}) BY <1>3 DEF SoundEdges, PairsApart
<1>5. PICK h : /\ h[0] = b /\ h[n] = mergeEdges(trace, flow)
               /\ \A k \in 1 .. n : h[k] = FlowStep(trace, h[k - 1], flow[k])
  <2>1. b \in Seq(Edge(U)) /\ b = TraceEdges(trace) BY <1>2, <1>3
  <2>2. \E h : /\ h[0] = b /\ h[Len(flow)] = mergeEdges(trace, flow)
               /\ \A k \in 1 .. Len(flow) : h[k] = FlowStep(trace, h[k - 1], flow[k])
    BY <2>1, FlowRun
  <2>3. QED BY <1>2, <2>2
<1>6. n \in Nat /\ \A k \in 1 .. n : flow[k] \in Edge(U) BY <1>2
<1>7. Allowed(U, n, ps, ws, L, L)
  <2>1. \A k \in 1 .. n : ps[k] = Pair(flow[k]) /\ ps[k] \in U \X U /\ ws[k] = 0
    BY <1>2, <1>6 DEF PairAt, Edge, Pair
  <2>2. ps \in [1 .. n -> U \X U] /\ ws \in [1 .. n -> Nat] BY <1>2, <2>1 DEF PairAt
  <2>3. \A i \in 1 .. n : \A j \in 1 .. n : ps[i] = ps[j] => i = j BY <1>2, <2>1 DEF PairsApart
  <2>4. \A k \in U \X U : L[k] \in Nat OBVIOUS
  <2>5. \A x \in Nat : x <= x /\ x + 0 <= x OBVIOUS
  <2>6. \A k \in U \X U : L[k] <= L[k] BY <2>4, <2>5
  <2>7. \A j \in 1 .. n : L[ps[j]] + ws[j] <= L[ps[j]] BY <2>1, <2>4, <2>5
  <2>8. QED BY <2>2, <2>3, <2>6, <2>7 DEF Allowed
<1>8. ASSUME NEW k \in 1 .. n, Onto(U, b, h[k - 1])
      PROVE  MergeStep(U, b, h[k - 1], h[k], ps[k], ws[k], {})
  <2>1. PICK acc, f : acc = h[k - 1] /\ f = flow[k] OBVIOUS
  <2>2. f \in Edge(U) /\ f.calls = 0 /\ f.via = {} BY <1>2, <1>6, <2>1
  <2>3. Onto(U, b, acc) BY <1>8, <2>1
  <2>4. MergeStep(U, b, acc, FlowStep(trace, acc, f), Pair(f), 0, {}) BY <1>1, <1>2, <2>2, <2>3, FlowMerges
  <2>5. ps[k] = Pair(f) /\ ws[k] = 0 BY <1>2, <2>1 DEF PairAt
  <2>6. h[k] = FlowStep(trace, acc, f) BY <1>5, <2>1
  <2>7. QED BY <2>1, <2>4, <2>5, <2>6
<1>9. MergeSteps(U, b, h, n, ps, ws, {}) BY <1>5, <1>8 DEF MergeSteps
<1>10. SoundEdges(U, h[n], L, {}) BY <1>4, <1>6, <1>7, <1>9, MergeSound
<1>11. QED BY <1>5, <1>10

LEMMA CollapsedSound ==
    ASSUME NEW U, 0 \in U, NEW L \in [U \X U -> Nat], NEW M \in [U \X U -> Nat], NEW V,
           NEW b, SoundEdges(U, b, L, {}), NEW cs \in Seq(Dep(U)), PairsApart(cs), PairsOf(cs) \subseteq V,
           \A k \in U \X U : L[k] <= M[k],
           \A j \in 1 .. Len(cs) : L[Pair(cs[j])] + cs[j].calls <= M[Pair(cs[j])]
    PROVE  SoundEdges(U, MergeCollapsed(b, cs), M, V)
<1>1. b \in Seq(Edge(U)) /\ SoundEdges(U, b, L, V) BY DEF SoundEdges
<1>2. PICK n, ps, ws : /\ n = Len(cs) /\ ps = PairAt(cs) /\ ws = [i \in 1 .. Len(cs) |-> cs[i].calls]
  OBVIOUS
<1>5. PICK h : /\ h[0] = b /\ h[n] = MergeCollapsed(b, cs)
               /\ \A k \in 1 .. n : h[k] = CollapsedStep(h[k - 1], cs[k])
  BY <1>1, <1>2, CollapsedRun
<1>6. n \in Nat /\ \A k \in 1 .. n : cs[k] \in Dep(U) BY <1>2
<1>7. Allowed(U, n, ps, ws, L, M)
  <2>1. \A k \in 1 .. n : ps[k] = Pair(cs[k]) /\ ps[k] \in U \X U /\ ws[k] = cs[k].calls /\ ws[k] \in Nat
    BY <1>2, <1>6 DEF PairAt, Dep, Pair
  <2>2. ps \in [1 .. n -> U \X U] /\ ws \in [1 .. n -> Nat] BY <1>2, <2>1 DEF PairAt
  <2>3. \A i \in 1 .. n : \A j \in 1 .. n : ps[i] = ps[j] => i = j BY <1>2, <2>1 DEF PairsApart
  <2>4. \A j \in 1 .. n : L[ps[j]] + ws[j] <= M[ps[j]] BY <1>2, <2>1
  <2>5. QED BY <2>2, <2>3, <2>4 DEF Allowed
<1>8. ASSUME NEW k \in 1 .. n, Onto(U, b, h[k - 1])
      PROVE  MergeStep(U, b, h[k - 1], h[k], ps[k], ws[k], V)
  <2>1. PICK acc, c : acc = h[k - 1] /\ c = cs[k] OBVIOUS
  <2>2. c \in Dep(U) /\ Pair(c) \in V BY <1>2, <1>6, <2>1 DEF PairsOf
  <2>3. Onto(U, b, acc) BY <1>8, <2>1
  <2>4. MergeStep(U, b, acc, CollapsedStep(acc, c), Pair(c), c.calls, V) BY <1>1, <2>2, <2>3, CollapsedMerges
  <2>5. ps[k] = Pair(c) /\ ws[k] = c.calls BY <1>2, <2>1 DEF PairAt
  <2>6. h[k] = CollapsedStep(acc, c) BY <1>5, <2>1
  <2>7. QED BY <2>1, <2>4, <2>5, <2>6
<1>9. MergeSteps(U, b, h, n, ps, ws, V) BY <1>5, <1>8 DEF MergeSteps
<1>10. SoundEdges(U, h[n], M, V) BY <1>1, <1>6, <1>7, <1>9, MergeSound
<1>11. QED BY <1>5, <1>10

LEMMA HealthSound ==
    ASSUME NEW U, {0, {}} \subseteq U, NEW L \in [U \X U -> Nat], NEW V, NEW b, SoundEdges(U, b, L, V),
           NEW hs \in Seq(Link(U)), PairsApart(hs)
    PROVE  SoundEdges(U, applyEdgeHealth(b, hs), L, V)
<1>1. b \in Seq(Edge(U)) BY DEF SoundEdges
<1>2. PICK n, ps, ws : /\ n = Len(hs) /\ ps = PairAt(hs) /\ ws = [i \in 1 .. Len(hs) |-> 0]
  OBVIOUS
<1>5. PICK h : /\ h[0] = b /\ h[n] = applyEdgeHealth(b, hs)
               /\ \A k \in 1 .. n : h[k] = HealthStep(b, h[k - 1], hs[k])
  BY <1>1, <1>2, HealthRun
<1>6. n \in Nat /\ \A k \in 1 .. n : hs[k] \in Link(U) BY <1>2
<1>7. Allowed(U, n, ps, ws, L, L)
  <2>1. \A k \in 1 .. n : ps[k] = Pair(hs[k]) /\ ps[k] \in U \X U /\ ws[k] = 0
    BY <1>2, <1>6 DEF PairAt, Link, Pair
  <2>2. ps \in [1 .. n -> U \X U] /\ ws \in [1 .. n -> Nat] BY <1>2, <2>1 DEF PairAt
  <2>3. \A i \in 1 .. n : \A j \in 1 .. n : ps[i] = ps[j] => i = j BY <1>2, <2>1 DEF PairsApart
  <2>4. \A k \in U \X U : L[k] \in Nat OBVIOUS
  <2>5. \A x \in Nat : x <= x /\ x + 0 <= x OBVIOUS
  <2>6. \A k \in U \X U : L[k] <= L[k] BY <2>4, <2>5
  <2>7. \A j \in 1 .. n : L[ps[j]] + ws[j] <= L[ps[j]] BY <2>1, <2>4, <2>5
  <2>8. QED BY <2>2, <2>3, <2>6, <2>7 DEF Allowed
<1>8. ASSUME NEW k \in 1 .. n, Onto(U, b, h[k - 1])
      PROVE  MergeStep(U, b, h[k - 1], h[k], ps[k], ws[k], V)
  <2>1. PICK acc, x : acc = h[k - 1] /\ x = hs[k] OBVIOUS
  <2>2. x \in Link(U) BY <1>2, <1>6, <2>1
  <2>3. Onto(U, b, acc) BY <1>8, <2>1
  <2>4. MergeStep(U, b, acc, HealthStep(b, acc, x), Pair(x), 0, V) BY <1>1, <2>2, <2>3, HealthMerges
  <2>5. ps[k] = Pair(x) /\ ws[k] = 0 BY <1>2, <2>1 DEF PairAt
  <2>6. h[k] = HealthStep(b, acc, x) BY <1>5, <2>1
  <2>7. QED BY <2>1, <2>4, <2>5, <2>6
<1>9. MergeSteps(U, b, h, n, ps, ws, V) BY <1>5, <1>8 DEF MergeSteps
<1>10. SoundEdges(U, h[n], L, V) BY <1>6, <1>7, <1>9, MergeSound
<1>11. QED BY <1>5, <1>10

\* The chains that go one proxy further up.
Climb(cs, rows, transport) == {c \in Longer(cs, rows) : Last(c).svc \in transport}
Entrances(rows, q) == {<<r>> : r \in {s \in rows : s.kind = "Server" /\ Kept(q, s)}}

\* A longer chain is a chain and the parent of its last span.
LEMMA LongerChains ==
    ASSUME NEW rows, NEW cs \in SUBSET Seq(rows), NEW c \in Longer(cs, rows)
    PROVE  \E d \in cs, r \in rows : c = Append(d, r) /\ r.trace = Last(d).trace /\ r.span = Last(d).parent
BY DEF Longer

LEMMA ClimbChains ==
    ASSUME NEW rows, NEW transport, NEW cs \in SUBSET Seq(rows)
    PROVE  Climb(cs, rows, transport) \in SUBSET Seq(rows)
<1>1. SUFFICES ASSUME NEW c \in Longer(cs, rows) PROVE c \in Seq(rows) BY DEF Climb
<1>2. PICK d \in cs, r \in rows : c = Append(d, r) BY LongerChains
<1>3. d \in Seq(rows) OBVIOUS
<1>4. QED BY <1>2, <1>3

\* Walks, step by step.
LEMMA WalkRun ==
    ASSUME NEW n \in Nat, NEW spans_, NEW q, NEW transport, NEW rows, rows = Scan(spans_, q)
    PROVE  \E h : /\ h[0] = Entrances(rows, q)
                  /\ \A k \in 1 .. n : h[k] = Climb(h[k - 1], rows, transport)
                  /\ Walks(n, spans_, q, transport) =
                       {c \in Longer(h[n], rows) : Last(c).kind = "Client" /\ Last(c).svc # c[1].svc}
<1> DEFINE A == SUBSET Seq(rows)
           b == Entrances(rows, q)
           F == [x \in (1 .. n) \X A |-> Climb(x[2], rows, transport)]
           Phi(g) == [s \in SUBSET (1 .. n) |-> IF s = {} THEN b ELSE Climb(g[s \ {Max(s)}], rows, transport)]
           c == CHOOSE g : g = Phi(g)
<1>1. DOMAIN [i \in 1 .. n |-> i] = 1 .. n OBVIOUS
<1>2. Walks(n, spans_, q, transport) =
        {e \in Longer(c[1 .. n], rows) : Last(e).kind = "Client" /\ Last(e).svc # e[1].svc}
  BY <1>1 DEF Walks, FoldLeft, MapThenFoldSet, Climb, Entrances
<1> HIDE DEF A
<1>3. F \in [(1 .. n) \X A -> A]
  <2>1. \A x \in (1 .. n) \X A : x[2] \in SUBSET Seq(rows) BY DEF A
  <2>2. \A x \in (1 .. n) \X A : Climb(x[2], rows, transport) \in A BY <2>1, ClimbChains DEF A
  <2>3. QED BY <2>2
<1> HIDE DEF F
<1>4. b \in A
  <2>1. ASSUME NEW r \in rows PROVE <<r>> \in Seq(rows) OBVIOUS
  <2>2. QED BY <2>1 DEF A, Entrances
<1> HIDE DEF b
<1>5. PICK g : Folds(g, n, A, b, F) BY <1>3, <1>4, FoldExists
<1>6. /\ g \in [SUBSET (1 .. n) -> A]
      /\ \A s \in SUBSET (1 .. n) : g[s] = IF s = {} THEN b ELSE F[<<Max(s), g[s \ {Max(s)}]>>]
  BY <1>5 DEF Folds
<1>7. g = Phi(g)
  <2>1. ASSUME NEW s \in SUBSET (1 .. n), s # {} PROVE g[s] = Climb(g[s \ {Max(s)}], rows, transport)
    <3>1. Max(s) \in s BY <2>1, LastPosition
    <3>2. PICK m, u : m = Max(s) /\ u = s \ {Max(s)} OBVIOUS
    <3>3. m \in 1 .. n /\ u \in SUBSET (1 .. n) BY <3>1, <3>2
    <3>4. g[u] \in A BY <1>6, <3>3
    <3>5. F[<<m, g[u]>>] = Climb(g[u], rows, transport) BY <3>3, <3>4 DEF F
    <3>6. g[s] = F[<<m, g[u]>>] BY <1>6, <2>1, <3>2
    <3>7. QED BY <3>2, <3>5, <3>6
  <2>2. \A s \in SUBSET (1 .. n) : g[s] = Phi(g)[s] BY <1>6, <2>1
  <2>3. QED BY <1>6, <2>2
<1>8. c = Phi(c)
  <2> HIDE DEF Phi
  <2>1. QED BY <1>7
<1> HIDE DEF c
<1>9. c[{}] = b BY <1>8
<1>10. \A s \in SUBSET (1 .. n) : s # {} /\ c[s \ {Max(s)}] \in A => c[s] = F[<<Max(s), c[s \ {Max(s)}]>>]
  <2>1. SUFFICES ASSUME NEW s \in SUBSET (1 .. n), s # {}, c[s \ {Max(s)}] \in A
        PROVE  c[s] = F[<<Max(s), c[s \ {Max(s)}]>>]
    OBVIOUS
  <2>2. Max(s) \in 1 .. n BY <2>1, LastPosition
  <2>3. PICK m, a : m = Max(s) /\ a = c[s \ {Max(s)}] OBVIOUS
  <2>4. F[<<m, a>>] = Climb(a, rows, transport) BY <2>1, <2>2, <2>3 DEF F
  <2>5. c[s] = Climb(c[s \ {Max(s)}], rows, transport) BY <1>8, <2>1
  <2>6. QED BY <2>3, <2>4, <2>5
<1>11. Unwinds(c, n, A, b, F) BY <1>9, <1>10 DEF Unwinds
<1>12. PICK h : Stepwise(h, n, A, b, F, c[1 .. n]) BY <1>3, <1>4, <1>11, FoldRun
<1>13. ASSUME NEW k \in 1 .. n PROVE h[k] = Climb(h[k - 1], rows, transport)
  <2>1. k - 1 \in 0 .. n OBVIOUS
  <2>2. h[k - 1] \in A BY <1>12, <2>1 DEF Stepwise
  <2>3. h[k] = F[<<k, h[k - 1]>>] BY <1>12 DEF Stepwise
  <2>4. QED BY <2>2, <2>3 DEF F
<1>14. h[0] = b /\ h[n] = c[1 .. n] BY <1>12 DEF Stepwise
<1>15. QED BY <1>2, <1>13, <1>14 DEF b

\* A chain of k steps up from a server span, through proxies.
Linked(c, i) == c[i + 1].trace = c[i].trace /\ c[i + 1].span = c[i].parent
Climbed(rows, transport, c, k) ==
    /\ c \in Seq(rows) /\ Len(c) = k + 1 /\ c[1].kind = "Server"
    /\ \A i \in 1 .. k : Linked(c, i) /\ c[i + 1].svc \in transport

\* ... and one more span above it.
ChainUp(rows, transport, e, k) ==
    /\ e \in Seq(rows) /\ Len(e) = k + 2 /\ e[1].kind = "Server"
    /\ \A i \in 1 .. (k + 1) : Linked(e, i)
    /\ \A i \in 1 .. k : e[i + 1].svc \in transport

OneUp(d, e, r) == e = Append(d, r) /\ r.trace = Last(d).trace /\ r.span = Last(d).parent

\* One more span above a chain.
LEMMA ClimbOne ==
    ASSUME NEW rows, NEW transport, NEW k \in Nat, NEW d, Climbed(rows, transport, d, k), NEW r \in rows,
           NEW e, OneUp(d, e, r)
    PROVE  ChainUp(rows, transport, e, k) /\ Last(e) = r
<1>1. d \in Seq(rows) /\ Len(d) = k + 1 /\ Last(d) = d[k + 1] BY DEF Climbed, Last
<1>2. /\ e \in Seq(rows) /\ Len(e) = k + 2 /\ e[k + 2] = r
      /\ \A i \in 1 .. (k + 1) : e[i] = d[i]
  BY <1>1 DEF OneUp
<1>3. e[1].kind = "Server" BY <1>2 DEF Climbed
<1>4. ASSUME NEW i \in 1 .. k PROVE Linked(e, i) /\ e[i + 1].svc \in transport
  <2>1. i \in 1 .. (k + 1) /\ i + 1 \in 1 .. (k + 1) OBVIOUS
  <2>2. e[i] = d[i] /\ e[i + 1] = d[i + 1] BY <1>2, <2>1
  <2>3. Linked(d, i) /\ d[i + 1].svc \in transport BY DEF Climbed
  <2>4. QED BY <2>2, <2>3 DEF Linked
<1>5. Linked(e, k + 1)
  <2>1. k + 1 \in 1 .. (k + 1) /\ (k + 1) + 1 = k + 2 OBVIOUS
  <2>2. QED BY <1>1, <1>2, <2>1 DEF Linked, OneUp
<1>6. \A i \in 1 .. (k + 1) : i \in 1 .. k \/ i = k + 1 OBVIOUS
<1>7. Last(e) = r BY <1>2 DEF Last
<1>8. QED BY <1>2, <1>3, <1>4, <1>5, <1>6, <1>7 DEF ChainUp

\* What Walks finds: a chain up from a server span, with proxies between its ends.
LEMMA WalkClimbs ==
    ASSUME NEW n \in Nat, NEW spans_, NEW q, NEW transport, NEW rows, rows = Scan(spans_, q),
           NEW c \in Walks(n, spans_, q, transport)
    PROVE  /\ c \in Seq(rows) /\ Len(c) = n + 2 /\ c[1].kind = "Server"
           /\ \A i \in 1 .. (n + 1) : Linked(c, i)
           /\ \A i \in 2 .. (n + 1) : c[i].svc \in transport
<1>1. PICK h : /\ h[0] = Entrances(rows, q)
               /\ \A k \in 1 .. n : h[k] = Climb(h[k - 1], rows, transport)
               /\ Walks(n, spans_, q, transport) =
                    {e \in Longer(h[n], rows) : Last(e).kind = "Client" /\ Last(e).svc # e[1].svc}
  BY WalkRun
<1> DEFINE All(k) == \A e \in h[k] : Climbed(rows, transport, e, k)
           G == {k \in Nat : k <= n => All(k)}
<1>2. 0 \in G
  <2>1. SUFFICES ASSUME NEW e \in h[0] PROVE Climbed(rows, transport, e, 0) OBVIOUS
  <2>2. PICK r \in rows : e = <<r>> /\ r.kind = "Server" BY <1>1, <2>1 DEF Entrances
  <2>3. e \in Seq(rows) /\ Len(e) = 1 /\ e[1] = r BY <2>2
  <2>4. QED BY <2>2, <2>3 DEF Climbed
<1>4. ASSUME NEW k, \A e \in h[k] : Climbed(rows, transport, e, k) PROVE h[k] \in SUBSET Seq(rows)
  BY <1>4 DEF Climbed
<1>5. ASSUME NEW k \in Nat, k \in G PROVE k + 1 \in G
  <2>1. SUFFICES ASSUME k + 1 <= n, NEW e \in h[k + 1] PROVE Climbed(rows, transport, e, k + 1) OBVIOUS
  <2>2. k + 1 \in 1 .. n /\ (k + 1) - 1 = k /\ k <= n BY <2>1
  <2>3. h[k + 1] = Climb(h[k], rows, transport) BY <1>1, <2>2
  <2>4. \A f \in h[k] : Climbed(rows, transport, f, k) BY <1>5, <2>2
  <2>5. h[k] \in SUBSET Seq(rows) BY <1>4, <2>4
  <2>6. e \in Longer(h[k], rows) /\ Last(e).svc \in transport BY <2>1, <2>3 DEF Climb
  <2>7. PICK d \in h[k], r \in rows : e = Append(d, r) /\ r.trace = Last(d).trace /\ r.span = Last(d).parent
    BY <2>5, <2>6, LongerChains
  <2>8. Climbed(rows, transport, d, k) BY <2>4
  <2>81. OneUp(d, e, r) BY <2>7 DEF OneUp
  <2>9. ChainUp(rows, transport, e, k) /\ Last(e) = r BY <2>8, <2>81, ClimbOne
  <2>10. /\ e \in Seq(rows) /\ Len(e) = k + 2 /\ e[1].kind = "Server" /\ e[Len(e)] = r
         /\ \A i \in 1 .. (k + 1) : Linked(e, i)
         /\ \A i \in 1 .. k : e[i + 1].svc \in transport
    BY <2>9 DEF ChainUp, Last
  <2>11. \A i \in 1 .. (k + 1) : i \in 1 .. k \/ i = k + 1 OBVIOUS
  <2>12. (k + 1) + 1 = k + 2 OBVIOUS
  <2>13. \A i \in 1 .. (k + 1) : e[i + 1].svc \in transport BY <2>6, <2>9, <2>10, <2>11, <2>12 DEF Last
  <2>14. QED BY <2>10, <2>12, <2>13 DEF Climbed
<1> HIDE DEF G
<1>6. n \in G BY <1>2, <1>5, NatSetInduction
<1>7. All(n) BY <1>6 DEF G
<1>8. h[n] \in SUBSET Seq(rows) BY <1>4, <1>7
<1>9. c \in Longer(h[n], rows) BY <1>1
<1>10. PICK d \in h[n], r \in rows : c = Append(d, r) /\ r.trace = Last(d).trace /\ r.span = Last(d).parent
  BY <1>8, <1>9, LongerChains
<1>11. Climbed(rows, transport, d, n) BY <1>7
<1>110. OneUp(d, c, r) BY <1>10 DEF OneUp
<1>12. ChainUp(rows, transport, c, n) BY <1>11, <1>110, ClimbOne
<1>13. \A i \in 2 .. (n + 1) : i - 1 \in 1 .. n /\ (i - 1) + 1 = i OBVIOUS
<1>14. \A i \in 2 .. (n + 1) : c[i].svc \in transport BY <1>12, <1>13 DEF ChainUp
<1>15. QED BY <1>12, <1>14 DEF ChainUp

\* A span has its id to itself within its trace.
IdsApart(rows) == \A r \in rows : \A s \in rows : r.trace = s.trace /\ r.span = s.span => r = s

\* What a chain between two applications is.
ChainRight(rows, transport, c, n) ==
    /\ c \in Seq(rows) /\ Len(c) = n + 2 /\ c[1].kind = "Server"
    /\ \A i \in 1 .. (n + 1) : Linked(c, i)
    /\ \A i \in 2 .. (n + 1) : c[i].svc \in transport
    /\ c[1].svc \notin transport /\ c[n + 2].svc \notin transport

\* What collapseBranch keeps of them: those that end at applications.
LEMMA BranchRight ==
    ASSUME NEW n \in Nat, NEW spans_, NEW q, NEW transport, NEW rows, rows = Scan(spans_, q),
           NEW c \in collapseBranch(n, spans_, q, transport)
    PROVE  ChainRight(rows, transport, c, n) /\ Last(c) = c[n + 2]
<1>1. c \in Walks(n, spans_, q, transport) /\ {c[1].svc, Last(c).svc} \cap transport = {} BY DEF collapseBranch
<1>2. /\ c \in Seq(rows) /\ Len(c) = n + 2 /\ c[1].kind = "Server"
      /\ \A i \in 1 .. (n + 1) : Linked(c, i)
      /\ \A i \in 2 .. (n + 1) : c[i].svc \in transport
  BY <1>1, WalkClimbs
<1>3. Last(c) = c[n + 2] BY <1>2 DEF Last
<1>4. QED BY <1>1, <1>2, <1>3 DEF ChainRight

\* Two chains from one server span go up through the same spans.
LEMMA ChainsAgree ==
    ASSUME NEW rows, IdsApart(rows), NEW transport, NEW n \in Nat, NEW m \in Nat, NEW c, NEW e,
           ChainRight(rows, transport, c, n), ChainRight(rows, transport, e, m), c[1] = e[1]
    PROVE  \A i \in Nat : 1 <= i /\ i <= n + 2 /\ i <= m + 2 => c[i] = e[i]
<1> DEFINE G == {i \in Nat : 1 <= i /\ i <= n + 2 /\ i <= m + 2 => c[i] = e[i]}
<1>1. 0 \in G OBVIOUS
<1>2. ASSUME NEW i \in Nat, i \in G PROVE i + 1 \in G
  <2>1. SUFFICES ASSUME i + 1 <= n + 2, i + 1 <= m + 2 PROVE c[i + 1] = e[i + 1] OBVIOUS
  <2>2. CASE i = 0 BY <2>2
  <2>3. CASE i # 0
    <3>1. i \in 1 .. (n + 1) /\ i \in 1 .. (m + 1) /\ 1 <= i /\ i <= n + 2 /\ i <= m + 2 BY <2>1, <2>3
    <3>2. c[i] = e[i] BY <1>2, <3>1
    <3>3. Linked(c, i) /\ Linked(e, i) BY <3>1 DEF ChainRight
    <3>4. c[i + 1].trace = e[i + 1].trace /\ c[i + 1].span = e[i + 1].span BY <3>2, <3>3 DEF Linked
    <3>5. i + 1 \in 1 .. (n + 2) /\ i + 1 \in 1 .. (m + 2) BY <3>1
    <3>6. c[i + 1] \in rows /\ e[i + 1] \in rows BY <3>5 DEF ChainRight
    <3>7. QED BY <3>4, <3>6 DEF IdsApart
  <2>4. QED BY <2>2, <2>3
<1> HIDE DEF G
<1>3. Nat \subseteq G BY <1>1, <1>2, NatSetInduction
<1>4. QED BY <1>3 DEF G

\* None of them ends where the other goes on: its end would be a proxy.
LEMMA NoShorterChain ==
    ASSUME NEW rows, IdsApart(rows), NEW transport, NEW n \in Nat, NEW m \in Nat, NEW c, NEW e,
           ChainRight(rows, transport, c, n), ChainRight(rows, transport, e, m), c[1] = e[1]
    PROVE  ~(n < m)
<1>1. SUFFICES ASSUME n < m PROVE FALSE OBVIOUS
<1>2. n + 2 \in Nat /\ 1 <= n + 2 /\ n + 2 <= n + 2 /\ n + 2 <= m + 2 /\ n + 2 \in 2 .. (m + 1) BY <1>1
<1>3. c[n + 2] = e[n + 2] BY <1>2, ChainsAgree
<1>4. e[n + 2].svc \in transport BY <1>2 DEF ChainRight
<1>5. c[n + 2].svc \notin transport BY DEF ChainRight
<1>6. QED BY <1>3, <1>4, <1>5

\* So there is one.
LEMMA OneChain ==
    ASSUME NEW rows, IdsApart(rows), NEW transport, NEW n \in Nat, NEW m \in Nat, NEW c, NEW e,
           ChainRight(rows, transport, c, n), ChainRight(rows, transport, e, m), c[1] = e[1]
    PROVE  n = m /\ c = e
<1>1. ~(n < m) BY NoShorterChain
<1>2. ~(m < n)
  <2>1. e[1] = c[1] OBVIOUS
  <2>2. QED BY <2>1, NoShorterChain
<1>3. n = m BY <1>1, <1>2
<1>4. \A i \in Nat : 1 <= i /\ i <= n + 2 /\ i <= m + 2 => c[i] = e[i] BY ChainsAgree
<1>5. /\ c \in Seq(rows) /\ e \in Seq(rows) /\ Len(c) = n + 2 /\ Len(e) = n + 2 BY <1>3 DEF ChainRight
<1>6. \A i \in 1 .. (n + 2) : c[i] = e[i]
  <2>1. \A i \in 1 .. (n + 2) : i \in Nat /\ 1 <= i /\ i <= n + 2 OBVIOUS
  <2>2. QED BY <1>3, <1>4, <2>1
<1>7. c = [i \in 1 .. (n + 2) |-> c[i]] /\ e = [i \in 1 .. (n + 2) |-> e[i]] BY <1>5
<1>8. c = e BY <1>6, <1>7
<1>9. QED BY <1>3, <1>8

\* A dependency read through proxies: a chain of one proxy at least.
DependencyOf(rows, transport, c) == \E n \in Nat : n >= 1 /\ ChainRight(rows, transport, c, n)

\* What Chains finds are such dependencies.
LEMMA ChainsRight ==
    ASSUME NEW spans_, NEW q, NEW transport, NEW rows, rows = Scan(spans_, q),
           NEW c \in Chains(spans_, q, transport)
    PROVE  DependencyOf(rows, transport, c)
<1>1. PICK d \in 1 .. 3 : c \in collapseBranch(d, spans_, q, transport) BY DEF Chains, maxCollapseDepth
<1>2. d \in Nat /\ d >= 1 OBVIOUS
<1>3. ChainRight(rows, transport, c, d) BY <1>1, <1>2, BranchRight
<1>4. QED BY <1>2, <1>3 DEF DependencyOf

\* A server span has one.
LEMMA OneDependency ==
    ASSUME NEW rows, IdsApart(rows), NEW transport, NEW x, NEW y, DependencyOf(rows, transport, x),
           DependencyOf(rows, transport, y), x[1] = y[1]
    PROVE  x = y
<1>1. PICK n \in Nat : ChainRight(rows, transport, x, n) BY DEF DependencyOf
<1>2. PICK m \in Nat : ChainRight(rows, transport, y, m) BY DEF DependencyOf
<1>3. QED BY <1>1, <1>2, OneChain

\* Its server span is served for the proxy next to it, which nobody's own call is.
LEMMA DependencyEnds ==
    ASSUME NEW rows, NEW transport, NEW c, DependencyOf(rows, transport, c)
    PROVE  /\ c[1] \in rows /\ c[1].kind = "Server" /\ Ends(c) = <<Ends(c)[1], Ends(c)[2]>> /\ Ends(c)[2] = c[1].svc
           /\ Ends(c)[1] \notin transport /\ Ends(c)[2] \notin transport
           /\ \E r \in rows : Ends(c)[1] = r.svc
           /\ \E r \in rows : r.trace = c[1].trace /\ r.span = c[1].parent /\ r.svc \in transport
<1>1. PICK n \in Nat : n >= 1 /\ ChainRight(rows, transport, c, n) BY DEF DependencyOf
<1>2. 1 \in 1 .. (n + 2) /\ 2 \in 1 .. (n + 2) /\ n + 2 \in 1 .. (n + 2) /\ 1 \in 1 .. (n + 1) /\ 2 \in 2 .. (n + 1)
  BY <1>1
<1>3. (\A i \in 1 .. (n + 2) : c[i] \in rows) /\ Len(c) = n + 2 BY <1>1 DEF ChainRight
<1>4. c[1] \in rows /\ c[2] \in rows /\ c[n + 2] \in rows BY <1>2, <1>3
<1>5. Linked(c, 1) /\ c[2].svc \in transport BY <1>1, <1>2 DEF ChainRight
<1>6. c[2].trace = c[1].trace /\ c[2].span = c[1].parent BY <1>5 DEF Linked
<1>7. c[1].kind = "Server" /\ c[1].svc \notin transport /\ c[n + 2].svc \notin transport BY <1>1 DEF ChainRight
<1>8. Ends(c) = <<c[n + 2].svc, c[1].svc>> BY <1>3 DEF Ends, Last
<1>9. Ends(c)[1] = c[n + 2].svc /\ Ends(c)[2] = c[1].svc /\ Ends(c) = <<Ends(c)[1], Ends(c)[2]>> BY <1>8
<1>10. QED BY <1>4, <1>5, <1>6, <1>7, <1>9

\* What maps one to one into a finite set is finite, and no larger.
LEMMA BoundByImage ==
    ASSUME NEW S, NEW T, IsFiniteSet(T), NEW f, \A x \in S : f[x] \in T,
           \A x \in S : \A y \in S : f[x] = f[y] => x = y
    PROVE  /\ IsFiniteSet(S) /\ Cardinality(S) \in Nat /\ Cardinality(T) \in Nat
           /\ Cardinality(S) <= Cardinality(T)
<1>1. PICK g : g = [x \in S |-> f[x]] OBVIOUS
<1>2. g \in [S -> T] BY <1>1
<1>3. \A x, y \in S : g[x] = g[y] => x = y BY <1>1
<1>4. g \in Injection(S, T) BY <1>2, <1>3 DEF Injection, IsInjective
<1>5. IsFiniteSet(S) /\ Cardinality(S) <= Cardinality(T) BY <1>4, FS_Injection
<1>6. QED BY <1>5, FS_CardinalityType

\* A server span and the client span that called it; those between two services.
Calling(p) ==
    /\ p[2].kind = "Server" /\ p[1].kind = "Client" /\ p[2].svc # p[1].svc
    /\ p[2].trace = p[1].trace /\ p[2].parent = p[1].span
DirectPairs(rows, q) == {p \in rows \X rows : Calling(p) /\ Kept(q, p[2])}
DirectFor(rows, q, k) == {p \in DirectPairs(rows, q) : <<p[1].svc, p[2].svc>> = k}
ChainsFor(cs, k) == {c \in cs : Ends(c) = k}
Served(rows, svc) == {r \in rows : r.kind = "Server" /\ r.svc = svc}

\* A server span stands for one call at most: a direct one, or one through proxies.
LEMMA CallsServed ==
    ASSUME NEW rows, IsFiniteSet(rows), IdsApart(rows), NEW q, NEW transport, NEW cs,
           \A x \in cs : DependencyOf(rows, transport, x), NEW a, NEW b, NEW k, k = <<a, b>>
    PROVE  /\ Cardinality(DirectFor(rows, q, k)) \in Nat /\ Cardinality(ChainsFor(cs, k)) \in Nat
           /\ Cardinality(Served(rows, b)) \in Nat /\ IsFiniteSet(ChainsFor(cs, k))
           /\ Cardinality(DirectFor(rows, q, k)) + Cardinality(ChainsFor(cs, k)) <= Cardinality(Served(rows, b))
<1>1. PICK D, C, all : D = DirectFor(rows, q, k) /\ C = ChainsFor(cs, k) /\ all = Served(rows, b) OBVIOUS
<1>2. PICK one, two : one = {r \in all : \E p \in D : p[2] = r} /\ two = {r \in all : \E x \in C : x[1] = r} OBVIOUS
<1>3. IsFiniteSet(all)
  <2>1. all \subseteq rows BY <1>1 DEF Served
  <2>2. QED BY <2>1, FS_Subset
<1>4. IsFiniteSet(one) /\ IsFiniteSet(two)
  <2>1. one \subseteq all /\ two \subseteq all BY <1>2
  <2>2. QED BY <1>3, <2>1, FS_Subset
<1>5. ASSUME NEW p \in D
      PROVE  /\ p = <<p[1], p[2]>> /\ p[1] \in rows /\ p[2] \in rows /\ p[2].kind = "Server"
             /\ p[1].svc = a /\ p[2].svc = b /\ p[2].trace = p[1].trace /\ p[2].parent = p[1].span
  <2>1. p \in rows \X rows /\ Calling(p) /\ <<p[1].svc, p[2].svc>> = <<a, b>> BY <1>1 DEF DirectFor, DirectPairs
  <2>2. QED BY <2>1 DEF Calling
<1>6. ASSUME NEW x \in C PROVE x \in cs /\ Ends(x)[1] = a /\ Ends(x)[2] = b
  <2>1. x \in cs /\ Ends(x) = <<a, b>> BY <1>1 DEF ChainsFor
  <2>2. QED BY <2>1
<1>7. Cardinality(D) \in Nat /\ Cardinality(one) \in Nat /\ Cardinality(D) <= Cardinality(one)
  <2>1. PICK f : f = [p \in D |-> p[2]] OBVIOUS
  <2>2. \A p \in D : f[p] \in one
    <3>1. TAKE p \in D
    <3>2. p[2] \in all BY <1>1, <1>5 DEF Served
    <3>3. QED BY <1>2, <2>1, <3>2
  <2>3. ASSUME NEW p \in D, NEW r \in D, f[p] = f[r] PROVE p = r
    <3>1. p[2] = r[2] BY <2>1, <2>3
    <3>2. p[1].trace = r[1].trace /\ p[1].span = r[1].span BY <1>5, <3>1
    <3>3. p[1] \in rows /\ r[1] \in rows BY <1>5
    <3>4. p[1] = r[1] BY <3>2, <3>3 DEF IdsApart
    <3>5. p = <<p[1], p[2]>> /\ r = <<r[1], r[2]>> BY <1>5
    <3>6. QED BY <3>1, <3>4, <3>5
  <2>4. QED BY <1>4, <2>2, <2>3, BoundByImage
<1>8. IsFiniteSet(C) /\ Cardinality(C) \in Nat /\ Cardinality(two) \in Nat /\ Cardinality(C) <= Cardinality(two)
  <2>1. PICK f : f = [x \in C |-> x[1]] OBVIOUS
  <2>2. \A x \in C : f[x] \in two
    <3>1. TAKE x \in C
    <3>2. DependencyOf(rows, transport, x) /\ Ends(x)[2] = b BY <1>6
    <3>3. x[1] \in rows /\ x[1].kind = "Server" /\ Ends(x)[2] = x[1].svc BY <3>2, DependencyEnds
    <3>4. x[1] \in all BY <1>1, <3>2, <3>3 DEF Served
    <3>5. QED BY <1>2, <2>1, <3>4
  <2>3. ASSUME NEW x \in C, NEW y \in C, f[x] = f[y] PROVE x = y
    <3>1. x[1] = y[1] BY <2>1, <2>3
    <3>2. DependencyOf(rows, transport, x) /\ DependencyOf(rows, transport, y) BY <1>6
    <3>3. QED BY <3>1, <3>2, OneDependency
  <2>4. QED BY <1>4, <2>2, <2>3, BoundByImage
<1>9. one \cap two = {}
  <2>1. SUFFICES ASSUME NEW r \in one, r \in two PROVE FALSE OBVIOUS
  <2>2. PICK p \in D : p[2] = r BY <1>2
  <2>3. PICK x \in C : x[1] = r BY <1>2, <2>1
  <2>4. DependencyOf(rows, transport, x) /\ Ends(x)[1] = a BY <1>6
  <2>5. Ends(x)[1] \notin transport BY <2>4, DependencyEnds
  <2>6. PICK s \in rows : s.trace = x[1].trace /\ s.span = x[1].parent /\ s.svc \in transport
    BY <2>4, DependencyEnds
  <2>7. p[1] \in rows /\ p[1].svc = a /\ p[2].trace = p[1].trace /\ p[2].parent = p[1].span BY <1>5
  <2>8. s = p[1] BY <2>2, <2>3, <2>6, <2>7 DEF IdsApart
  <2>9. QED BY <2>4, <2>5, <2>6, <2>7, <2>8
<1>10. Cardinality(one) + Cardinality(two) <= Cardinality(all) /\ Cardinality(all) \in Nat
  <2>1. PICK both : both = one \cup two OBVIOUS
  <2>2. Cardinality(both) = Cardinality(one) + Cardinality(two) - Cardinality(one \cap two) /\ IsFiniteSet(both)
    BY <1>4, <2>1, FS_Union
  <2>3. Cardinality(one \cap two) = 0 BY <1>9, FS_EmptySet
  <2>4. both \subseteq all BY <1>2, <2>1
  <2>5. Cardinality(both) <= Cardinality(all) /\ Cardinality(all) \in Nat BY <1>3, <2>4, FS_Subset, FS_CardinalityType
  <2>6. Cardinality(both) = Cardinality(one) + Cardinality(two) BY <1>7, <1>8, <2>2, <2>3
  <2>7. QED BY <2>5, <2>6
<1>11. Cardinality(D) + Cardinality(C) <= Cardinality(all) BY <1>7, <1>8, <1>10
<1>12. QED BY <1>1, <1>7, <1>8, <1>10, <1>11

\* A finite list of a set whose members' pairs differ.
LEMMA ListApart ==
    ASSUME NEW S, IsFiniteSet(S), \A x \in S : \A y \in S : Pair(x) = Pair(y) => x = y, NEW A, S \subseteq A
    PROVE  /\ SetToSeq(S) \in Seq(A) /\ PairsApart(SetToSeq(S))
           /\ \A i \in 1 .. Len(SetToSeq(S)) : SetToSeq(S)[i] \in S
<1>1. PICK s : s = SetToSeq(S) OBVIOUS
<1>2. PICK n : n = Cardinality(S) OBVIOUS
<1>3. /\ n \in Nat /\ s \in [1 .. n -> S]
      /\ \A i, j \in 1 .. n : s[i] = s[j] => i = j
  BY <1>1, <1>2, Listed
<1>4. s \in Seq(A) /\ Len(s) = n /\ \A i \in 1 .. n : s[i] \in S BY <1>3
<1>5. PairsApart(s)
  <2>1. ASSUME NEW i \in 1 .. n, NEW j \in 1 .. n, Pair(s[i]) = Pair(s[j]) PROVE i = j
    <3>1. s[i] \in S /\ s[j] \in S BY <1>4
    <3>2. s[i] = s[j] BY <2>1, <3>1
    <3>3. QED BY <1>3, <3>2
  <2>2. QED BY <1>4, <2>1 DEF PairsApart
<1>6. QED BY <1>1, <1>4, <1>5

\* Of finitely many pairs.
LEMMA PairedFinite ==
    ASSUME NEW S, NEW K, IsFiniteSet(K), \A x \in S : Pair(x) \in K,
           \A x \in S : \A y \in S : Pair(x) = Pair(y) => x = y
    PROVE  IsFiniteSet(S)
<1>1. PICK f : f = [x \in S |-> Pair(x)] OBVIOUS
<1>2. \A x \in S : f[x] \in K BY <1>1
<1>3. \A x \in S : \A y \in S : f[x] = f[y] => x = y BY <1>1
<1>4. QED BY <1>2, <1>3, BoundByImage

\* The services that spans and points name, and what an amount on an edge may be.
Names(ss, ps) == {r.svc : r \in ss} \cup {p.src : p \in ps} \cup {p.dst : p \in ps}
Amounts(U, names) == names \subseteq U /\ {0, {}} \subseteq U

\* They are finitely many.
LEMMA NamesFinite ==
    ASSUME NEW ss, NEW ps, IsFiniteSet(ss), IsFiniteSet(ps)
    PROVE  IsFiniteSet(Names(ss, ps)) /\ IsFiniteSet(Names(ss, ps) \X Names(ss, ps))
<1>1. PICK A, B, C : A = {r.svc : r \in ss} /\ B = {p.src : p \in ps} /\ C = {p.dst : p \in ps} OBVIOUS
<1>2. IsFiniteSet(A)
  <2>1. PICK f : f = [r \in ss |-> r.svc] OBVIOUS
  <2>2. A = {f[r] : r \in ss} BY <1>1, <2>1
  <2>3. QED BY <2>2, ImageFinite
<1>3. IsFiniteSet(B)
  <2>1. PICK f : f = [p \in ps |-> p.src] OBVIOUS
  <2>2. B = {f[p] : p \in ps} BY <1>1, <2>1
  <2>3. QED BY <2>2, ImageFinite
<1>4. IsFiniteSet(C)
  <2>1. PICK f : f = [p \in ps |-> p.dst] OBVIOUS
  <2>2. C = {f[p] : p \in ps} BY <1>1, <2>1
  <2>3. QED BY <2>2, ImageFinite
<1>5. IsFiniteSet(A \cup B) BY <1>2, <1>3, FS_Union
<1>6. IsFiniteSet((A \cup B) \cup C) BY <1>4, <1>5, FS_Union
<1>7. Names(ss, ps) = (A \cup B) \cup C BY <1>1 DEF Names
<1>8. IsFiniteSet(Names(ss, ps)) BY <1>6, <1>7
<1>9. QED BY <1>8, FS_Product

\* A sound set of edges of finitely many pairs.
Apart(S) == \A x \in S : \A y \in S : Pair(x) = Pair(y) => x = y
Within(S, names) == \A x \in S : x.src \in names /\ x.dst \in names

\* So are the edges between them, one to a pair.
LEMMA ApartFinite ==
    ASSUME NEW S, NEW names, IsFiniteSet(names \X names), Apart(S), Within(S, names)
    PROVE  IsFiniteSet(S)
<1>1. \A x \in S : Pair(x) \in names \X names BY DEF Pair, Within
<1>2. \A x \in S : \A y \in S : Pair(x) = Pair(y) => x = y BY DEF Apart
<1>3. QED BY <1>1, <1>2, PairedFinite

\* The edges that the traces show.
Traced(ss, q) == {[src |-> e.src, dst |-> e.dst, calls |-> e.calls, bytes |-> 0, failed |-> 0,
                   via |-> {}, prov |-> ""] : e \in ServiceEdges(ss, q)}
TracedFor(rows, q, a, b) == [src |-> a, dst |-> b, calls |-> Cardinality(DirectFor(rows, q, <<a, b>>)), bytes |-> 0,
                             failed |-> 0, via |-> {}, prov |-> ""]

\* An edge of ServiceEdges counts the calls of its pair.
LEMMA TracedOne ==
    ASSUME NEW ss, NEW q, NEW rows, rows = Scan(ss, q), NEW x \in Traced(ss, q)
    PROVE  \E r, s \in rows : x = TracedFor(rows, q, r.svc, s.svc)
<1>1. PICK e \in ServiceEdges(ss, q) :
        x = [src |-> e.src, dst |-> e.dst, calls |-> e.calls, bytes |-> 0, failed |-> 0, via |-> {}, prov |-> ""]
  BY DEF Traced
<1>2. PICK pairs : pairs = DirectPairs(rows, q) OBVIOUS
<1>3. pairs = {p \in Scan(ss, q) \X Scan(ss, q) :
                 /\ p[2].kind = "Server" /\ p[1].kind = "Client" /\ p[2].svc # p[1].svc
                 /\ p[2].trace = p[1].trace /\ p[2].parent = p[1].span /\ Kept(q, p[2])}
  BY <1>2 DEF DirectPairs, Calling
<1>4. ServiceEdges(ss, q) =
        {[src |-> k[1], dst |-> k[2],
          calls |-> Cardinality({p \in pairs : <<p[1].svc, p[2].svc>> = k}),
          errors |-> Cardinality({p \in pairs : <<p[1].svc, p[2].svc>> = k /\ errorSpanExpr(p[2])})]
         : k \in {<<p[1].svc, p[2].svc>> : p \in pairs}}
  BY <1>3 DEF ServiceEdges, Count
<1>5a. PICK k \in {<<p[1].svc, p[2].svc>> : p \in pairs} :
         e = [src |-> k[1], dst |-> k[2],
              calls |-> Cardinality({p \in pairs : <<p[1].svc, p[2].svc>> = k}),
              errors |-> Cardinality({p \in pairs : <<p[1].svc, p[2].svc>> = k /\ errorSpanExpr(p[2])})]
  BY <1>4
<1>5b. PICK p \in pairs : k = <<p[1].svc, p[2].svc>> BY <1>5a
<1>5. /\ e.src = p[1].svc /\ e.dst = p[2].svc
      /\ e.calls = Cardinality({z \in pairs : <<z[1].svc, z[2].svc>> = k})
  <2>1. e.src = k[1] /\ e.dst = k[2] /\ e.calls = Cardinality({z \in pairs : <<z[1].svc, z[2].svc>> = k})
    BY <1>5a
  <2>2. QED BY <1>5b, <2>1
<1>6. p[1] \in rows /\ p[2] \in rows BY <1>2 DEF DirectPairs
<1>7. e.calls = Cardinality(DirectFor(rows, q, <<p[1].svc, p[2].svc>>)) BY <1>2, <1>5, <1>5b DEF DirectFor
<1>8. x = TracedFor(rows, q, p[1].svc, p[2].svc) BY <1>1, <1>5, <1>7 DEF TracedFor
<1>9. QED BY <1>6, <1>8

\* They are edges between known services, one to a pair.
LEMMA TracedRight ==
    ASSUME NEW ss, NEW ps, NEW q, NEW rows, rows = Scan(ss, q), NEW U, NEW names, names = Names(ss, ps), Amounts(U, names),
           \A a \in names, b \in names : Cardinality(DirectFor(rows, q, <<a, b>>)) \in Nat
    PROVE  /\ Traced(ss, q) \subseteq Edge(U) /\ Within(Traced(ss, q), names) /\ Apart(Traced(ss, q))
           /\ \A x \in Traced(ss, q) : x.calls = Cardinality(DirectFor(rows, q, Pair(x))) /\ x.via = {}
<1>1. \A r \in rows : r.svc \in names BY DEF Scan, Names
<1>2. ASSUME NEW x \in Traced(ss, q)
      PROVE  \E a \in names, b \in names : x = TracedFor(rows, q, a, b)
  <2>1. PICK r, s \in rows : x = TracedFor(rows, q, r.svc, s.svc) BY TracedOne
  <2>2. QED BY <1>1, <2>1
<1>3. ASSUME NEW x \in Traced(ss, q)
      PROVE  /\ x \in Edge(U) /\ x.src \in names /\ x.dst \in names
             /\ x = TracedFor(rows, q, x.src, x.dst)
             /\ x.calls = Cardinality(DirectFor(rows, q, Pair(x))) /\ x.via = {}
  <2>1. PICK a \in names, b \in names : x = TracedFor(rows, q, a, b) BY <1>2
  <2>2. PICK n \in Nat : n = Cardinality(DirectFor(rows, q, <<a, b>>)) OBVIOUS
  <2>3. x = [src |-> a, dst |-> b, calls |-> n, bytes |-> 0, failed |-> 0, via |-> {}, prov |-> ""]
    BY <2>1, <2>2 DEF TracedFor
  <2>4. a \in U /\ b \in U /\ 0 \in U /\ {} \in U BY DEF Amounts
  <2>5. x \in Edge(U) BY <2>3, <2>4 DEF Edge
  <2>6. x.src = a /\ x.dst = b /\ x.calls = n /\ x.via = {} /\ Pair(x) = <<a, b>> BY <2>3 DEF Pair
  <2>7. QED BY <2>1, <2>2, <2>5, <2>6
<1>4. ASSUME NEW x \in Traced(ss, q), NEW y \in Traced(ss, q), Pair(x) = Pair(y) PROVE x = y
  <2>1. x.src = y.src /\ x.dst = y.dst BY <1>4 DEF Pair
  <2>2. x = TracedFor(rows, q, x.src, x.dst) /\ y = TracedFor(rows, q, y.src, y.dst) BY <1>3
  <2>3. QED BY <2>1, <2>2
<1>5. QED BY <1>3, <1>4 DEF Within, Apart

\* Those that the flows show, by the bytes between two services.
Flowing(ps, q) == LET bytes == NetworkEdges(ps, q)
                  IN  {[src |-> k[1], dst |-> k[2], calls |-> 0, bytes |-> bytes[k], failed |-> 0,
                        via |-> {}, prov |-> ""] : k \in DOMAIN bytes}

\* A total of a counter is between the ends of a point.
LEMMA TotalsBetween ==
    ASSUME NEW ps, NEW q, NEW metric, NEW k \in DOMAIN EdgeTotals(ps, q, metric)
    PROVE  \E p \in ps : k = <<p.src, p.dst>>
<1>1. PICK rows : rows = {p \in Of(ps, q, {metric}) : p.src # Empty /\ p.dst # Empty /\ p.src # p.dst} OBVIOUS
<1>2. DOMAIN EdgeTotals(ps, q, metric) = {<<p.src, p.dst>> : p \in rows} BY <1>1 DEF EdgeTotals, GroupBy
<1>3. rows \subseteq ps BY <1>1 DEF Of, Scan
<1>4. QED BY <1>2, <1>3

\* They too are edges between known services, one to a pair.
LEMMA FlowingRight ==
    ASSUME NEW ss, NEW ps, NEW q, NEW U, NEW names, names = Names(ss, ps), Amounts(U, names),
           \A k \in DOMAIN NetworkEdges(ps, q) : NetworkEdges(ps, q)[k] \in U
    PROVE  /\ Flowing(ps, q) \subseteq Edge(U) /\ Within(Flowing(ps, q), names) /\ Apart(Flowing(ps, q))
           /\ \A x \in Flowing(ps, q) : x.calls = 0 /\ x.via = {}
<1>1. PICK bytes : bytes = NetworkEdges(ps, q) OBVIOUS
<1>2. Flowing(ps, q) = {[src |-> k[1], dst |-> k[2], calls |-> 0, bytes |-> bytes[k], failed |-> 0,
                         via |-> {}, prov |-> ""] : k \in DOMAIN bytes}
  BY <1>1 DEF Flowing
<1>3. ASSUME NEW k \in DOMAIN bytes PROVE k = <<k[1], k[2]>> /\ k[1] \in names /\ k[2] \in names
  <2>1. k \in DOMAIN EdgeTotals(ps, q, "flow.bytes") BY <1>1 DEF NetworkEdges
  <2>2. PICK p \in ps : k = <<p.src, p.dst>> BY <2>1, TotalsBetween
  <2>3. QED BY <2>2 DEF Names
<1>4. ASSUME NEW x \in Flowing(ps, q)
      PROVE  /\ x \in Edge(U) /\ x.src \in names /\ x.dst \in names /\ x.calls = 0 /\ x.via = {}
             /\ x = [src |-> x.src, dst |-> x.dst, calls |-> 0, bytes |-> bytes[<<x.src, x.dst>>], failed |-> 0,
                     via |-> {}, prov |-> ""]
  <2>1. PICK k \in DOMAIN bytes : x = [src |-> k[1], dst |-> k[2], calls |-> 0, bytes |-> bytes[k], failed |-> 0,
                                       via |-> {}, prov |-> ""]
    BY <1>2
  <2>2. PICK v \in U : v = bytes[k] BY <1>1
  <2>3. PICK a, b : a = k[1] /\ b = k[2] /\ k = <<a, b>> /\ a \in names /\ b \in names BY <1>3
  <2>4. x = [src |-> a, dst |-> b, calls |-> 0, bytes |-> v, failed |-> 0, via |-> {}, prov |-> ""] BY <2>1, <2>2, <2>3
  <2>5. a \in U /\ b \in U /\ 0 \in U /\ {} \in U BY <2>3 DEF Amounts
  <2>6. x \in Edge(U) BY <2>4, <2>5 DEF Edge
  <2>7. x.src = a /\ x.dst = b /\ x.calls = 0 /\ x.via = {} BY <2>4
  <2>8. QED BY <2>2, <2>3, <2>4, <2>6, <2>7
<1>5. ASSUME NEW x \in Flowing(ps, q), NEW y \in Flowing(ps, q), Pair(x) = Pair(y) PROVE x = y
  <2>1. x.src = y.src /\ x.dst = y.dst BY <1>5 DEF Pair
  <2>2. /\ x = [src |-> x.src, dst |-> x.dst, calls |-> 0, bytes |-> bytes[<<x.src, x.dst>>], failed |-> 0,
                via |-> {}, prov |-> ""]
        /\ y = [src |-> y.src, dst |-> y.dst, calls |-> 0, bytes |-> bytes[<<y.src, y.dst>>], failed |-> 0,
                via |-> {}, prov |-> ""]
    BY <1>4
  <2>3. QED BY <2>1, <2>2
<1>6. QED BY <1>4, <1>5 DEF Within, Apart

\* Those that the chains show, one call per chain.
Hidden(ss, q, transport) == IF transport = {} THEN {} ELSE Chains(ss, q, transport)

HiddenErrors(cs, a, b) == Cardinality({d \in cs : Ends(d) = <<a, b>> /\ errorSpanExpr(d[1])})
HiddenVia(cs, a, b) == UNION {Via(d) : d \in ChainsFor(cs, <<a, b>>)}
HiddenFor(cs, a, b) == [src |-> a, dst |-> b, calls |-> Cardinality(ChainsFor(cs, <<a, b>>)),
                        errors |-> HiddenErrors(cs, a, b), via |-> HiddenVia(cs, a, b)]

\* An edge of CollapsedEdges counts the chains of its pair.
LEMMA CollapsedOne ==
    ASSUME NEW ss, NEW q, NEW transport, NEW cs, cs = Hidden(ss, q, transport), NEW x \in CollapsedEdges(ss, q, transport)
    PROVE  \E c \in cs : x = HiddenFor(cs, Ends(c)[1], Ends(c)[2])
<1>1. CollapsedEdges(ss, q, transport) =
        {[src |-> k[1], dst |-> k[2],
          calls |-> Cardinality({c \in cs : Ends(c) = k}),
          errors |-> Cardinality({c \in cs : Ends(c) = k /\ errorSpanExpr(c[1])}),
          via |-> UNION {Via(c) : c \in {d \in cs : Ends(d) = k}}]
         : k \in {Ends(c) : c \in cs}}
  BY DEF CollapsedEdges, Count, Hidden
<1>2. PICK k \in {Ends(c) : c \in cs} :
        x = [src |-> k[1], dst |-> k[2],
             calls |-> Cardinality({c \in cs : Ends(c) = k}),
             errors |-> Cardinality({c \in cs : Ends(c) = k /\ errorSpanExpr(c[1])}),
             via |-> UNION {Via(c) : c \in {d \in cs : Ends(d) = k}}]
  BY <1>1
<1>3. PICK c \in cs : k = Ends(c) BY <1>2
<1>4. PICK a, b : a = k[1] /\ b = k[2] OBVIOUS
<1>5. k = <<a, b>>
  <2>1. k = <<Last(c).svc, c[1].svc>> BY <1>3 DEF Ends
  <2>2. QED BY <1>4, <2>1
<1>6. {d \in cs : Ends(d) = k} = ChainsFor(cs, k) BY DEF ChainsFor
<1>7. x = [src |-> a, dst |-> b, calls |-> Cardinality(ChainsFor(cs, k)),
           errors |-> Cardinality({d \in cs : Ends(d) = k /\ errorSpanExpr(d[1])}),
           via |-> UNION {Via(d) : d \in ChainsFor(cs, k)}]
  BY <1>2, <1>4, <1>6
<1>8. x = HiddenFor(cs, a, b) BY <1>5, <1>7 DEF HiddenFor, HiddenErrors, HiddenVia
<1>9. QED BY <1>3, <1>4, <1>8

\* They too, one to a pair, and between applications.
LEMMA HiddenRight ==
    ASSUME NEW ss, NEW ps, NEW q, NEW rows, rows = Scan(ss, q), NEW transport, NEW cs, cs = Hidden(ss, q, transport),
           NEW U, NEW names, names = Names(ss, ps), Amounts(U, names),
           \A x \in cs : DependencyOf(rows, transport, x),
           \A a \in names, b \in names : /\ Cardinality(ChainsFor(cs, <<a, b>>)) \in Nat
                                         /\ HiddenErrors(cs, a, b) \in Nat /\ HiddenVia(cs, a, b) \in U
    PROVE  LET S == CollapsedEdges(ss, q, transport) IN
           /\ S \subseteq Dep(U) /\ Within(S, names) /\ Apart(S)
           /\ \A x \in S : /\ x.calls = Cardinality(ChainsFor(cs, Pair(x)))
                           /\ {x.src, x.dst} \cap transport = {}
<1>1. PICK S : S = CollapsedEdges(ss, q, transport) OBVIOUS
<1>2. \A r \in rows : r.svc \in names BY DEF Scan, Names
<1>3. ASSUME NEW x \in S
      PROVE  \E a \in names, b \in names : x = HiddenFor(cs, a, b) /\ {a, b} \cap transport = {}
  <2>2. PICK c \in cs : x = HiddenFor(cs, Ends(c)[1], Ends(c)[2]) BY <1>1, CollapsedOne
  <2>3. DependencyOf(rows, transport, c) OBVIOUS
  <2>4. /\ c[1] \in rows /\ Ends(c)[2] = c[1].svc /\ Ends(c)[1] \notin transport /\ Ends(c)[2] \notin transport
        /\ \E r \in rows : Ends(c)[1] = r.svc
    BY <2>3, DependencyEnds
  <2>5. Ends(c)[1] \in names /\ Ends(c)[2] \in names BY <1>2, <2>4
  <2>6. QED BY <2>2, <2>4, <2>5
<1>4. ASSUME NEW x \in S
      PROVE  /\ x \in Dep(U) /\ x.src \in names /\ x.dst \in names /\ x = HiddenFor(cs, x.src, x.dst)
             /\ x.calls = Cardinality(ChainsFor(cs, Pair(x))) /\ {x.src, x.dst} \cap transport = {}
  <2>1. PICK a \in names, b \in names : x = HiddenFor(cs, a, b) /\ {a, b} \cap transport = {} BY <1>3
  <2>2. PICK n \in Nat, m \in Nat, v \in U :
          n = Cardinality(ChainsFor(cs, <<a, b>>)) /\ m = HiddenErrors(cs, a, b) /\ v = HiddenVia(cs, a, b)
    OBVIOUS
  <2>3. x = [src |-> a, dst |-> b, calls |-> n, errors |-> m, via |-> v] BY <2>1, <2>2 DEF HiddenFor
  <2>4. a \in U /\ b \in U BY DEF Amounts
  <2>5. x \in Dep(U) BY <2>3, <2>4 DEF Dep
  <2>6. x.src = a /\ x.dst = b /\ x.calls = n /\ Pair(x) = <<a, b>> BY <2>3 DEF Pair
  <2>7. QED BY <2>1, <2>2, <2>5, <2>6
<1>5. ASSUME NEW x \in S, NEW y \in S, Pair(x) = Pair(y) PROVE x = y
  <2>1. x.src = y.src /\ x.dst = y.dst BY <1>5 DEF Pair
  <2>2. x = HiddenFor(cs, x.src, x.dst) /\ y = HiddenFor(cs, y.src, y.dst) BY <1>4
  <2>3. QED BY <2>1, <2>2
<1>6. Within(S, names) /\ Apart(S) BY <1>4, <1>5 DEF Within, Apart
<1>7. QED BY <1>1, <1>4, <1>6

\* And what is known of the health of the connection between two.
LEMMA HealthRight ==
    ASSUME NEW ss, NEW ps, NEW q, NEW U, NEW names, names = Names(ss, ps), Amounts(U, names), NEW fs, NEW rs,
           fs = EdgeTotals(ps, q, "tcp.failed"), rs = EdgeTotals(ps, q, "tcp.retransmits"),
           \A k : At0(fs, k) \in U /\ At0(rs, k) \in U
    PROVE  LET S == NetworkEdgeHealth(ps, q) IN S \subseteq Link(U) /\ Within(S, names) /\ Apart(S)
<1>1. PICK S : S = NetworkEdgeHealth(ps, q) OBVIOUS
<1>2. S = {[src |-> k[1], dst |-> k[2], failed |-> At0(fs, k), retransmits |-> At0(rs, k)]
           : k \in DOMAIN fs \cup DOMAIN rs}
  BY <1>1 DEF NetworkEdgeHealth, sumEdgeCounter
<1>3. ASSUME NEW k \in DOMAIN fs \cup DOMAIN rs PROVE k = <<k[1], k[2]>> /\ k[1] \in names /\ k[2] \in names
  <2>1. PICK p \in ps : k = <<p.src, p.dst>> BY TotalsBetween
  <2>2. QED BY <2>1 DEF Names
<1>4. ASSUME NEW x \in S
      PROVE  /\ x \in Link(U) /\ x.src \in names /\ x.dst \in names
             /\ x = [src |-> x.src, dst |-> x.dst, failed |-> At0(fs, <<x.src, x.dst>>),
                     retransmits |-> At0(rs, <<x.src, x.dst>>)]
  <2>1. PICK k \in DOMAIN fs \cup DOMAIN rs :
          x = [src |-> k[1], dst |-> k[2], failed |-> At0(fs, k), retransmits |-> At0(rs, k)]
    BY <1>2
  <2>2. PICK v \in U, w \in U : v = At0(fs, k) /\ w = At0(rs, k) OBVIOUS
  <2>3. PICK a, b : a = k[1] /\ b = k[2] /\ k = <<a, b>> /\ a \in names /\ b \in names BY <1>3
  <2>4. x = [src |-> a, dst |-> b, failed |-> v, retransmits |-> w] BY <2>1, <2>2, <2>3
  <2>5. a \in U /\ b \in U BY <2>3 DEF Amounts
  <2>6. x \in Link(U) BY <2>4, <2>5 DEF Link
  <2>7. x.src = a /\ x.dst = b BY <2>4
  <2>8. QED BY <2>2, <2>3, <2>4, <2>6, <2>7
<1>5. ASSUME NEW x \in S, NEW y \in S, Pair(x) = Pair(y) PROVE x = y
  <2>1. x.src = y.src /\ x.dst = y.dst BY <1>5 DEF Pair
  <2>2. /\ x = [src |-> x.src, dst |-> x.dst, failed |-> At0(fs, <<x.src, x.dst>>),
                retransmits |-> At0(rs, <<x.src, x.dst>>)]
        /\ y = [src |-> y.src, dst |-> y.dst, failed |-> At0(fs, <<y.src, y.dst>>),
                retransmits |-> At0(rs, <<y.src, y.dst>>)]
    BY <1>4
  <2>3. QED BY <2>1, <2>2
<1>6. QED BY <1>1, <1>4, <1>5 DEF Within, Apart

\* The calls between two services that the traces show, and those of the chains.
DirectCalls(U, rows, q) == [k \in U \X U |-> Cardinality(DirectFor(rows, q, k))]
AllCalls(U, rows, q, cs) == [k \in U \X U |-> Cardinality(DirectFor(rows, q, k)) + Cardinality(ChainsFor(cs, k))]
Applications(U, transport) == {k \in U \X U : {k[1], k[2]} \cap transport = {}}

\* Both are numbers, and never more than the callee has served.
LEMMA CallsCounted ==
    ASSUME NEW rows, IsFiniteSet(rows), IdsApart(rows), NEW q, NEW transport, NEW cs,
           \A x \in cs : DependencyOf(rows, transport, x), NEW U
    PROVE  /\ DirectCalls(U, rows, q) \in [U \X U -> Nat] /\ AllCalls(U, rows, q, cs) \in [U \X U -> Nat]
           /\ \A k \in U \X U : DirectCalls(U, rows, q)[k] <= AllCalls(U, rows, q, cs)[k]
           /\ \A a, b \in U : AllCalls(U, rows, q, cs)[<<a, b>>] <= Cardinality(Served(rows, b))
<1>1. ASSUME NEW a \in U, NEW b \in U, NEW k, k = <<a, b>>
      PROVE  /\ Cardinality(DirectFor(rows, q, k)) \in Nat /\ Cardinality(ChainsFor(cs, k)) \in Nat
             /\ Cardinality(DirectFor(rows, q, k)) + Cardinality(ChainsFor(cs, k)) <= Cardinality(Served(rows, b))
  BY <1>1, CallsServed
<1>2. ASSUME NEW k \in U \X U
      PROVE  Cardinality(DirectFor(rows, q, k)) \in Nat /\ Cardinality(ChainsFor(cs, k)) \in Nat
  <2>1. k[1] \in U /\ k[2] \in U /\ k = <<k[1], k[2]>> OBVIOUS
  <2>2. QED BY <1>1, <2>1
<1>3. PICK L, M : L = DirectCalls(U, rows, q) /\ M = AllCalls(U, rows, q, cs) OBVIOUS
<1>4. L \in [U \X U -> Nat] BY <1>2, <1>3 DEF DirectCalls
<1>5. ASSUME NEW k \in U \X U
      PROVE  /\ Cardinality(DirectFor(rows, q, k)) + Cardinality(ChainsFor(cs, k)) \in Nat
             /\ Cardinality(DirectFor(rows, q, k)) <= Cardinality(DirectFor(rows, q, k)) + Cardinality(ChainsFor(cs, k))
  <2>1. PICK m \in Nat, n \in Nat : m = Cardinality(DirectFor(rows, q, k)) /\ n = Cardinality(ChainsFor(cs, k)) BY <1>2
  <2>2. m + n \in Nat /\ m <= m + n OBVIOUS
  <2>3. QED BY <2>1, <2>2
<1>6. M \in [U \X U -> Nat] BY <1>3, <1>5 DEF AllCalls
<1>7. \A k \in U \X U : L[k] <= M[k] BY <1>3, <1>5 DEF DirectCalls, AllCalls
<1>8. ASSUME NEW a \in U, NEW b \in U PROVE M[<<a, b>>] <= Cardinality(Served(rows, b))
  <2>1. PICK k : k = <<a, b>> OBVIOUS
  <2>2. k \in U \X U BY <2>1
  <2>3. M[k] = Cardinality(DirectFor(rows, q, k)) + Cardinality(ChainsFor(cs, k)) BY <1>3, <2>2 DEF AllCalls
  <2>4. QED BY <1>1, <2>1, <2>3
<1>9. QED BY <1>3, <1>4, <1>6, <1>7, <1>8

\* What an edge may carry.
Carried(names, bytes, fs, rs, cs) ==
    names \cup {0, {}} \cup {bytes[k] : k \in DOMAIN bytes} \cup {fs[k] : k \in DOMAIN fs}
          \cup {rs[k] : k \in DOMAIN rs} \cup UNION {{HiddenVia(cs, a, b) : a \in names} : b \in names}

\* The edges of the map are a sound list.
LEMMA MapEdgesSound ==
    ASSUME NEW tenants, NEW q, q = Ask(tenants), NEW rows, rows = Scan(spans, q), NEW cs, cs = Hidden(spans, q, Transport),
           IsFiniteSet(spans), IsFiniteSet(points), IdsApart(rows)
    PROVE  /\ \A x \in cs : DependencyOf(rows, Transport, x)
           /\ \E U : SoundEdges(U, MapEdges(tenants), AllCalls(U, rows, q, cs), Applications(U, Transport))
<1>1. PICK names : names = Names(spans, points) OBVIOUS
<1>2. IsFiniteSet(names \X names) BY <1>1, NamesFinite
<1>3. \A x \in cs : DependencyOf(rows, Transport, x)
  <2>1. TAKE x \in cs
  <2>2. x \in Chains(spans, q, Transport) BY DEF Hidden
  <2>3. QED BY <2>2, ChainsRight
<1>4. IsFiniteSet(rows)
  <2>1. rows \subseteq spans BY DEF Scan
  <2>2. QED BY <2>1, FS_Subset
<1>5. PICK bytes, fs, rs : /\ bytes = NetworkEdges(points, q) /\ fs = EdgeTotals(points, q, "tcp.failed")
                           /\ rs = EdgeTotals(points, q, "tcp.retransmits")
  OBVIOUS
<1>6. PICK U : U = Carried(names, bytes, fs, rs, cs) OBVIOUS
<1>7. Amounts(U, names) /\ 0 \in U /\ {0, {}} \subseteq U BY <1>6 DEF Amounts, Carried
<1>8. \A k \in DOMAIN NetworkEdges(points, q) : NetworkEdges(points, q)[k] \in U BY <1>5, <1>6 DEF Carried
<1>9. \A k : At0(fs, k) \in U /\ At0(rs, k) \in U BY <1>6 DEF At0, Carried
<1>10. ASSUME NEW a \in names, NEW b \in names
       PROVE  /\ Cardinality(DirectFor(rows, q, <<a, b>>)) \in Nat /\ Cardinality(ChainsFor(cs, <<a, b>>)) \in Nat
              /\ HiddenErrors(cs, a, b) \in Nat /\ HiddenVia(cs, a, b) \in U
  <2>1. PICK k : k = <<a, b>> OBVIOUS
  <2>2. /\ Cardinality(DirectFor(rows, q, k)) \in Nat /\ Cardinality(ChainsFor(cs, k)) \in Nat
        /\ IsFiniteSet(ChainsFor(cs, k))
    BY <1>3, <1>4, <2>1, CallsServed
  <2>3. HiddenErrors(cs, a, b) \in Nat
    <3>1. PICK bad : bad = {d \in cs : Ends(d) = <<a, b>> /\ errorSpanExpr(d[1])} OBVIOUS
    <3>2. bad \subseteq ChainsFor(cs, k) BY <2>1, <3>1 DEF ChainsFor
    <3>3. IsFiniteSet(bad) BY <2>2, <3>2, FS_Subset
    <3>4. Cardinality(bad) \in Nat BY <3>3, FS_CardinalityType
    <3>5. QED BY <3>1, <3>4 DEF HiddenErrors
  <2>4. HiddenVia(cs, a, b) \in U BY <1>6 DEF Carried
  <2>5. QED BY <2>1, <2>2, <2>3, <2>4
<1>11. PICK L, M, V : L = DirectCalls(U, rows, q) /\ M = AllCalls(U, rows, q, cs) /\ V = Applications(U, Transport) OBVIOUS
<1>12. L \in [U \X U -> Nat] /\ M \in [U \X U -> Nat] /\ \A k \in U \X U : L[k] <= M[k]
  BY <1>3, <1>4, <1>11, CallsCounted
<1>13. PICK T, F, C, H : /\ T = Traced(spans, q) /\ F = Flowing(points, q) /\ C = CollapsedEdges(spans, q, Transport)
                         /\ H = NetworkEdgeHealth(points, q)
  OBVIOUS
<1>14. /\ T \subseteq Edge(U) /\ Within(T, names) /\ Apart(T)
       /\ \A x \in T : x.calls = Cardinality(DirectFor(rows, q, Pair(x))) /\ x.via = {}
  BY <1>1, <1>7, <1>10, <1>13, TracedRight
<1>15. /\ F \subseteq Edge(U) /\ Within(F, names) /\ Apart(F)
       /\ \A x \in F : x.calls = 0 /\ x.via = {}
  BY <1>1, <1>7, <1>8, <1>13, FlowingRight
<1>16. /\ C \subseteq Dep(U) /\ Within(C, names) /\ Apart(C)
       /\ \A x \in C : x.calls = Cardinality(ChainsFor(cs, Pair(x))) /\ {x.src, x.dst} \cap Transport = {}
  <2>1. \A a \in names, b \in names : /\ Cardinality(ChainsFor(cs, <<a, b>>)) \in Nat
                                      /\ HiddenErrors(cs, a, b) \in Nat /\ HiddenVia(cs, a, b) \in U
    BY <1>10
  <2>2. names = Names(spans, points) /\ Amounts(U, names) BY <1>1, <1>7
  <2>3. LET S == CollapsedEdges(spans, q, Transport) IN
        /\ S \subseteq Dep(U) /\ Within(S, names) /\ Apart(S)
        /\ \A x \in S : /\ x.calls = Cardinality(ChainsFor(cs, Pair(x)))
                        /\ {x.src, x.dst} \cap Transport = {}
    BY <1>3, <2>1, <2>2, HiddenRight
  <2>4. QED BY <1>13, <2>3
<1>17. H \subseteq Link(U) /\ Within(H, names) /\ Apart(H)
  BY <1>1, <1>5, <1>7, <1>9, <1>13, HealthRight
<1>18. PICK t, f, c, h : t = SetToSeq(T) /\ f = SetToSeq(F) /\ c = SetToSeq(C) /\ h = SetToSeq(H) OBVIOUS
<1>19. t \in Seq(Edge(U)) /\ PairsApart(t) /\ \A i \in 1 .. Len(t) : t[i] \in T
  <2>1. IsFiniteSet(T) BY <1>2, <1>14, ApartFinite
  <2>2. QED BY <1>14, <1>18, <2>1, ListApart DEF Apart
<1>20. f \in Seq(Edge(U)) /\ PairsApart(f) /\ \A i \in 1 .. Len(f) : f[i] \in F
  <2>1. IsFiniteSet(F) BY <1>2, <1>15, ApartFinite
  <2>2. QED BY <1>15, <1>18, <2>1, ListApart DEF Apart
<1>21. c \in Seq(Dep(U)) /\ PairsApart(c) /\ \A i \in 1 .. Len(c) : c[i] \in C
  <2>1. IsFiniteSet(C) BY <1>2, <1>16, ApartFinite
  <2>2. QED BY <1>16, <1>18, <2>1, ListApart DEF Apart
<1>22. h \in Seq(Link(U)) /\ PairsApart(h)
  <2>1. IsFiniteSet(H) BY <1>2, <1>17, ApartFinite
  <2>2. QED BY <1>17, <1>18, <2>1, ListApart DEF Apart
<1>23. SoundEdges(U, t, L, {})
  <2>1. ASSUME NEW i \in 1 .. Len(t) PROVE t[i].calls <= L[Pair(t[i])] /\ t[i].via = {}
    <3>1. PICK x : x = t[i] OBVIOUS
    <3>2. x \in T /\ x \in Edge(U) BY <1>14, <1>19, <3>1
    <3>3. Pair(x) \in U \X U BY <3>2 DEF Edge, Pair
    <3>4. L[Pair(x)] = Cardinality(DirectFor(rows, q, Pair(x))) BY <1>11, <3>3 DEF DirectCalls
    <3>5. x.calls = L[Pair(x)] /\ x.via = {} BY <1>14, <3>2, <3>4
    <3>6. x.calls \in Nat BY <3>2 DEF Edge
    <3>7. x.calls <= L[Pair(x)] BY <3>5, <3>6
    <3>8. QED BY <3>1, <3>5, <3>7
  <2>2. QED BY <1>19, <2>1 DEF SoundEdges
<1>24. SoundEdges(U, mergeEdges(t, f), L, {})
  <2>1. \A i \in 1 .. Len(f) : f[i].calls = 0 /\ f[i].via = {} BY <1>15, <1>20
  <2>2. QED BY <1>12, <1>20, <1>23, <2>1, FlowSound
<1>25. PICK m : m = mergeEdges(t, f) OBVIOUS
<1>26. SoundEdges(U, MergeCollapsed(m, c), M, V)
  <2>1. ASSUME NEW j \in 1 .. Len(c) PROVE L[Pair(c[j])] + c[j].calls <= M[Pair(c[j])] /\ Pair(c[j]) \in V
    <3>1. PICK x : x = c[j] OBVIOUS
    <3>2. x \in C /\ x \in Dep(U) BY <1>16, <1>21, <3>1
    <3>3. PICK k : k = Pair(x) OBVIOUS
    <3>4. k \in U \X U /\ k[1] = x.src /\ k[2] = x.dst /\ x.calls \in Nat BY <3>2, <3>3 DEF Dep, Pair
    <3>5. L[k] = Cardinality(DirectFor(rows, q, k)) BY <1>11, <3>4 DEF DirectCalls
    <3>6. M[k] = Cardinality(DirectFor(rows, q, k)) + Cardinality(ChainsFor(cs, k)) BY <1>11, <3>4 DEF AllCalls
    <3>7. x.calls = Cardinality(ChainsFor(cs, k)) /\ {x.src, x.dst} \cap Transport = {} BY <1>16, <3>2, <3>3
    <3>8. L[k] \in Nat BY <1>12, <3>4
    <3>9. M[k] = L[k] + x.calls BY <3>5, <3>6, <3>7
    <3>10. L[k] + x.calls <= M[k] BY <3>4, <3>8, <3>9
    <3>11. k \in V BY <1>11, <3>4, <3>7 DEF Applications
    <3>12. QED BY <3>1, <3>3, <3>10, <3>11
  <2>2. PairsOf(c) \subseteq V BY <2>1 DEF PairsOf
  <2>3. \A j \in 1 .. Len(c) : L[Pair(c[j])] + c[j].calls <= M[Pair(c[j])] BY <2>1
  <2>4. SoundEdges(U, m, L, {}) BY <1>24, <1>25
  <2>5. QED BY <1>7, <1>12, <1>21, <2>2, <2>3, <2>4, CollapsedSound
<1>27. PICK n : n = MergeCollapsed(m, c) OBVIOUS
<1>28. SoundEdges(U, applyEdgeHealth(n, h), M, V)
  <2>1. SoundEdges(U, n, M, V) BY <1>26, <1>27
  <2>2. QED BY <1>7, <1>12, <1>22, <2>1, HealthSound
<1>29. MapEdges(tenants) = applyEdgeHealth(MergeCollapsed(mergeEdges(t, f), c), h)
  BY <1>13, <1>18 DEF MapEdges, Traced, Flowing
<1>30. QED BY <1>3, <1>11, <1>25, <1>27, <1>28, <1>29

\* What was served in the window is part of what was served.
LEMMA OwnServed ==
    ASSUME NEW tenants, tenants # {}, NEW rows, rows = Scan(spans, Ask(tenants)), IsFiniteSet(spans), NEW svc
    PROVE  /\ Cardinality(Served(rows, svc)) \in Nat /\ Cardinality(Served(Own(spans, tenants), svc)) \in Nat
           /\ Cardinality(Served(rows, svc)) <= Cardinality(Served(Own(spans, tenants), svc))
<1>1. PICK all : all = Served(Own(spans, tenants), svc) OBVIOUS
<1>2. \A r \in rows : r \in spans /\ r.tenant \in tenants BY AskFor DEF Scan, tenantsOrDefault
<1>3. Served(rows, svc) \subseteq all BY <1>1, <1>2 DEF Served, Own
<1>4. IsFiniteSet(all)
  <2>1. all \subseteq spans BY <1>1 DEF Own, Served
  <2>2. QED BY <2>1, FS_Subset
<1>5. IsFiniteSet(Served(rows, svc)) /\ Cardinality(Served(rows, svc)) <= Cardinality(all) BY <1>3, <1>4, FS_Subset
<1>6. QED BY <1>1, <1>4, <1>5, FS_CardinalityType

\* So the map is sound in every state whose tables are finite.
LEMMA MapIsSound ==
    ASSUME \A r, s \in SpanPool : r.trace = s.trace /\ r.span = s.span => r = s,
           StoreInv, IsFiniteSet(points)
    PROVE  MapSound
<1> DEFINE Right(tenants, es, i) ==
        /\ \A j \in (DOMAIN es) \ {i} : Pair(es[i]) # Pair(es[j])
        /\ es[i].via # {} => {es[i].src, es[i].dst} \cap Transport = {}
        /\ es[i].calls <= Cardinality(Served(Own(spans, tenants), es[i].dst))
<1>0. ASSUME \A tenants \in (SUBSET Cluster) \ {{}} : \A i \in DOMAIN MapEdges(tenants) : Right(tenants, MapEdges(tenants), i)
      PROVE  MapSound
  BY <1>0 DEF MapSound, Count, Served
<1>1. SUFFICES ASSUME NEW tenants \in (SUBSET Cluster) \ {{}}, NEW es, es = MapEdges(tenants), NEW i \in DOMAIN es
               PROVE  Right(tenants, es, i)
  BY <1>0
<1>2. PICK q, rows, cs : q = Ask(tenants) /\ rows = Scan(spans, q) /\ cs = Hidden(spans, q, Transport) OBVIOUS
<1>3. IsFiniteSet(spans)
  <2>1. spans \subseteq SpanPool BY DEF StoreInv
  <2>2. QED BY <2>1, TelemetryAssumption, FS_Subset
<1>4. IdsApart(rows)
  <2>1. rows \subseteq SpanPool BY <1>2 DEF StoreInv, Scan
  <2>2. QED BY <2>1 DEF IdsApart
<1>5. IsFiniteSet(rows)
  <2>1. rows \subseteq spans BY <1>2 DEF Scan
  <2>2. QED BY <1>3, <2>1, FS_Subset
<1>6. /\ \A x \in cs : DependencyOf(rows, Transport, x)
      /\ \E U : SoundEdges(U, MapEdges(tenants), AllCalls(U, rows, q, cs), Applications(U, Transport))
  BY <1>2, <1>3, <1>4, MapEdgesSound
<1>7. PICK U : SoundEdges(U, es, AllCalls(U, rows, q, cs), Applications(U, Transport)) BY <1>1, <1>6
<1>8. PICK M, V : M = AllCalls(U, rows, q, cs) /\ V = Applications(U, Transport) OBVIOUS
<1>9. /\ es \in Seq(Edge(U)) /\ PairsApart(es)
      /\ \A j \in 1 .. Len(es) : es[j].calls <= M[Pair(es[j])] /\ (es[j].via # {} => Pair(es[j]) \in V)
  BY <1>7, <1>8 DEF SoundEdges
<1>10. DOMAIN es = 1 .. Len(es) BY <1>9
<1>11. PICK e : e = es[i] OBVIOUS
<1>12. e \in Edge(U) BY <1>9, <1>10, <1>11
<1>13. PICK a, b : a = e.src /\ b = e.dst /\ a \in U /\ b \in U /\ Pair(e) = <<a, b>> BY <1>12 DEF Edge, Pair
<1>14. \A j \in (DOMAIN es) \ {i} : Pair(es[i]) # Pair(es[j]) BY <1>9, <1>10 DEF PairsApart
<1>15. e.via # {} => {a, b} \cap Transport = {}
  <2>1. SUFFICES ASSUME e.via # {} PROVE {a, b} \cap Transport = {} OBVIOUS
  <2>2. Pair(e) \in V BY <1>9, <1>10, <1>11, <2>1
  <2>3. PICK k : k = Pair(e) OBVIOUS
  <2>4. k[1] = a /\ k[2] = b BY <1>13, <2>3
  <2>5. {k[1], k[2]} \cap Transport = {} BY <1>8, <2>2, <2>3 DEF Applications
  <2>6. QED BY <2>4, <2>5
<1>16. e.calls <= Cardinality(Served(rows, b))
  <2>1. e.calls <= M[<<a, b>>] BY <1>9, <1>10, <1>11, <1>13
  <2>2. /\ AllCalls(U, rows, q, cs) \in [U \X U -> Nat]
        /\ \A c, d \in U : AllCalls(U, rows, q, cs)[<<c, d>>] <= Cardinality(Served(rows, d))
    BY <1>4, <1>5, <1>6, CallsCounted
  <2>3. M[<<a, b>>] <= Cardinality(Served(rows, b)) /\ M[<<a, b>>] \in Nat
    <3>1. <<a, b>> \in U \X U BY <1>13
    <3>2. M \in [U \X U -> Nat] BY <1>8, <2>2
    <3>3. M[<<a, b>>] \in Nat BY <3>1, <3>2
    <3>4. QED BY <1>8, <1>13, <2>2, <3>3
  <2>4. Cardinality(Served(rows, b)) \in Nat BY <1>2, <1>3, OwnServed
  <2>5. e.calls \in Nat BY <1>12 DEF Edge
  <2>6. QED BY <2>1, <2>3, <2>4, <2>5
<1>17. e.calls <= Cardinality(Served(Own(spans, tenants), b))
  <2>1. PICK n : n = Cardinality(Served(Own(spans, tenants), b)) OBVIOUS
  <2>2. Cardinality(Served(rows, b)) \in Nat /\ n \in Nat /\ Cardinality(Served(rows, b)) <= n
    BY <1>2, <1>3, <2>1, OwnServed
  <2>3. e.calls \in Nat BY <1>12 DEF Edge
  <2>4. e.calls <= n BY <1>16, <2>2, <2>3
  <2>5. QED BY <2>1, <2>4
<1>18. es[i].src = a /\ es[i].dst = b BY <1>11, <1>13
<1>19. es[i].calls <= Cardinality(Served(Own(spans, tenants), es[i].dst)) BY <1>11, <1>17, <1>18
<1>20. QED BY <1>11, <1>14, <1>15, <1>18, <1>19

\* The map of a project shows a pair of services once, joins applications where it
\* reads through proxies, and counts no more calls than were served (mergeEdges,
\* MergeCollapsed, applyEdgeHealth), where a span has its id to itself in its trace.
THEOREM MapSoundHolds ==
    ASSUME \A r, s \in SpanPool : r.trace = s.trace /\ r.span = s.span => r = s
    PROVE  TelemetrySpec => []MapSound
<1>1. StoreInv /\ MeshInv => MapSound
  <2>1. SUFFICES ASSUME StoreInv, MeshInv PROVE MapSound OBVIOUS
  <2>2. IsFiniteSet(points) BY <2>1 DEF MeshInv, MeshShape
  <2>3. QED BY <2>1, <2>2, MapIsSound
<1>2. QED BY <1>1, StoreInvHolds, MeshInvHolds, PTL
===============================================================================
