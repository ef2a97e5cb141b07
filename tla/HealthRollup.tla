----------------------------- MODULE HealthRollup -----------------------------
(***************************************************************************)
(* The health board as a pure function of what the hub reads for it: the   *)
(* grouping of services (hub/internal/health/resolve.go, tier.go), their   *)
(* own status (status.go), the propagation over critical dependencies and  *)
(* the roll-up (rollup.go), and the endpoint checks folded in (checks.go). *)
(*                                                                         *)
(* Rates are in percent, and `stats` maps the services with at least one   *)
(* Server or Consumer span in the window (storage's ListServices, a GROUP  *)
(* BY) to their counts.  Wording and derived rates are left out.           *)
(***************************************************************************)
EXTENDS Integers, FiniteSets, Sequences, SequencesExt

\* Status and its order; idle and unknown are off the scale.
severity(s) == CASE s = "healthy" -> 1 [] s = "degraded" -> 2 [] s = "down" -> 3 [] OTHER -> 0
worst(a, b) == IF severity(b) > severity(a) THEN b ELSE a
WorstOf(S) ==
    IF \A s \in S : severity(s) = 0 THEN "idle"
    ELSE CHOOSE s \in S : \A t \in S : severity(s) >= severity(t)

Tiers == <<"T0", "T1", "T2", "T3">>
MostCritical(S) == Tiers[CHOOSE i \in DOMAIN Tiers : Tiers[i] \in S /\ \A j \in 1 .. i - 1 : Tiers[j] \notin S]

-----------------------------------------------------------------------------
\* mergeThresholds: what `over` sets, it sets; 0 means "inherit".
mergeThresholds(base, over) == [f \in DOMAIN base |-> IF over[f] # 0 THEN over[f] ELSE base[f]]

\* ResolveThresholds: service over tier over the install's defaults.
ResolveThresholds(cfg, svc, tier) ==
    LET layer(t, m, k) == IF k \in DOMAIN m THEN mergeThresholds(t, m[k]) ELSE t
    IN  layer(layer(cfg.defaults, cfg.tiers, tier), cfg.services, svc)

\* namespaceOf: the label of the pod, of the SDK, or the bucket for neither.
namespaceOf(l) == IF l.k8s # "" THEN l.k8s ELSE IF l.ns # "" THEN l.ns ELSE "(unlabeled)"

\* matchGroup: the groups that select a service; the first one counts.
Matching(cfg, svc, ns) ==
    {i \in DOMAIN cfg.groups : svc \in cfg.groups[i].services \/ ns \in cfg.groups[i].namespaces}

\* resolve: override > matched group > declared tier, if it is one > default.
Resolved(cfg, svc, l) ==
    LET ns == namespaceOf(l)
        hits == Matching(cfg, svc, ns)
        group == cfg.groups[CHOOSE i \in hits : \A j \in hits : i <= j]
    IN  [group |-> IF hits # {} THEN group.name ELSE ns, env |-> l.env,
         tier |-> CASE svc \in DOMAIN cfg.overrides -> cfg.overrides[svc]
                    [] svc \notin DOMAIN cfg.overrides /\ hits # {} -> group.tier
                    [] OTHER -> IF l.tier \in Range(Tiers) THEN l.tier ELSE cfg.defaultTier]
resolve(cfg, stats, labels) == [svc \in DOMAIN stats |-> Resolved(cfg, svc, labels[svc])]

\* serviceStatus: too little traffic is idle, never down.
serviceStatus(s, thr) ==
    LET err == CASE s.errors * 100 >= thr.crit * s.spans -> "down"
                 [] s.errors * 100 < thr.crit * s.spans /\ s.errors * 100 >= thr.warn * s.spans -> "degraded"
                 [] OTHER -> "healthy"
        lat == IF thr.p95 > 0 /\ s.p95 >= thr.p95 THEN "degraded" ELSE "healthy"
    IN  IF s.spans = 0 \/ s.spans < thr.min THEN "idle" ELSE worst(err, lat)

Base(cfg, stats, assign) ==
    [svc \in DOMAIN stats |-> serviceStatus(stats[svc], ResolveThresholds(cfg, svc, assign[svc].tier))]

\* Mutant of propagate: what a service has become carries on to its callers.
propagateOn(cfg, assign, base, edges) ==
    LET critical(e) == e \in cfg.critical \/ (e[2] \in DOMAIN assign /\ assign[e[2]].tier = "T0")
        visit(acc, e) ==
            IF /\ e[1] # e[2] /\ critical(e) /\ e[2] \in DOMAIN base /\ acc[e[2]] \in {"down", "degraded"}
               /\ e[1] \in DOMAIN base /\ acc[e[1]] = "healthy"
            THEN [acc EXCEPT ![e[1]] = "degraded"] ELSE acc
    IN  FoldLeft(visit, base, edges)

\* propagate: one pass over the edges as they come, each pair once.  A healthy
\* service whose critical dependency is down of its own accord is degraded.
propagate(cfg, assign, base, edges) ==
    LET critical(e) == e \in cfg.critical \/ (e[2] \in DOMAIN assign /\ assign[e[2]].tier = "T0")
        visit(acc, e) ==
            IF e[1] = e[2] \/ e \in acc.seen THEN acc
            ELSE [seen |-> acc.seen \cup {e},
                  effective |->
                    IF /\ critical(e) /\ e[2] \in DOMAIN base /\ base[e[2]] = "down"
                       /\ e[1] \in DOMAIN base /\ acc.effective[e[1]] = "healthy"
                    THEN [acc.effective EXCEPT ![e[1]] = "degraded"] ELSE acc.effective]
    IN  FoldLeft(visit, [seen |-> {}, effective |-> base], edges).effective

\* groupAndRoll and rollUpMembers: the worst member speaks for its group.
groupAndRoll(assign, stats, effective) ==
    LET members(k) == {svc \in DOMAIN assign : <<assign[svc].group, assign[svc].env>> = k}
    IN  {[name |-> k[1], env |-> k[2], members |-> members(k),
          tier |-> MostCritical({assign[svc].tier : svc \in members(k)}),
          status |-> WorstOf({effective[svc] : svc \in members(k)}),
          spans |-> IF \A svc \in members(k) : stats[svc].spans = 0 THEN 0 ELSE 1]
           : k \in {<<assign[svc].group, assign[svc].env>> : svc \in DOMAIN assign}}

\* Rollup.
Rollup(cfg, stats, labels, edges) ==
    LET assign == resolve(cfg, stats, labels)
        base == Base(cfg, stats, assign)
    IN  groupAndRoll(assign, stats, propagate(cfg, assign, base, edges))

-----------------------------------------------------------------------------
\* AllChecks: every declared check.
AllChecks(cfg) == UNION {Range(cfg.groups[i].checks) : i \in DOMAIN cfg.groups}
ChecksOf(cfg, name) == UNION {Range(cfg.groups[i].checks) : i \in {j \in DOMAIN cfg.groups : cfg.groups[j].name = name}}

consecutiveFailuresToDegrade == 2

\* The failures a check's results (newest first) begin with.
LeadingFailures(rs) == Cardinality({i \in DOMAIN rs : \A j \in 1 .. i : rs[j] = "fail"})

\* Mutant of Failing: one failure is enough.
FailingOnce(rs) == LeadingFailures(rs) >= 1

\* checkStates: a check's standing, once it has run.
Failing(rs) == LeadingFailures(rs) >= consecutiveFailuresToDegrade

\* ApplyChecks, for one group of the board.
WithChecks(g, cfg, results) ==
    LET ran == {c.id : c \in {d \in ChecksOf(cfg, g.name) : results[d.id] # <<>>}}
    IN  CASE ran = {} -> g
          [] ran # {} /\ (\E i \in ran : Failing(results[i])) ->
               [g EXCEPT !.status = IF g.spans = 0 THEN "down" ELSE worst(g.status, "degraded")]
          [] ran # {} /\ g.spans = 0 /\ (\A i \in ran : Head(results[i]) = "ok") ->
               [g EXCEPT !.status = "healthy"]
          [] OTHER -> g

ApplyChecks(groups, cfg, results) == {WithChecks(g, cfg, results) : g \in groups}

\* buildHealthReport.
Board(cfg, stats, labels, edges, results) == ApplyChecks(Rollup(cfg, stats, labels, edges), cfg, results)
===============================================================================
