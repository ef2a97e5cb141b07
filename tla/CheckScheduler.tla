---------------------------- MODULE CheckScheduler ----------------------------
(***************************************************************************)
(* The endpoint checks: the scheduler that probes (hub/internal/checks/    *)
(* scheduler.go, cmd/hub/checks.go), the results it leaves in the store    *)
(* (internal/storage/clickhouse/checks.go), and the board they are read    *)
(* for (module HealthRollup, internal/api/health.go).                      *)
(*                                                                         *)
(* Time is counted in ticks of the scheduler.  A probe takes up to         *)
(* MaxRound of them (its own timeout, its span's, its insert); the loop is *)
(* busy until the last probe of a round has ended, and a tick that comes   *)
(* meanwhile waits, at most one.                                           *)
(***************************************************************************)
EXTENDS HealthRollup

CONSTANTS
    Configs,        \* the configurations that may be declared
    Services, LabelOf,
    Traffic,        \* what a window may hold of a service
    EdgeLists,      \* the edges it may hold, in the orders they may come in
    MaxRound

CheckIds == {c.id : c \in UNION {AllChecks(cfg) : cfg \in Configs}}

\* Intervals are positive (config.go:235), edges are pairs.
ASSUME ChecksAssumption ==
    /\ MaxRound \in Nat \ {0} /\ EdgeLists \subseteq Seq(Services \X Services)
    /\ \A cfg \in Configs : \A c \in AllChecks(cfg) : c.interval \in Nat \ {0}

VARIABLES
    groupsCfg,      \* the configuration, as every tick reads it
    traffic, edges, \* the window's spans, per service, and its calls
    results,        \* endpoint_check_result: per check, the latest, newest first
    slot,           \* per check, ticks until it is due; Forgotten when not in the map
    pending,        \* a tick waits in the ticker's channel
    round, waited,  \* the probes running; for how long
    started         \* history: per check, the time since its last probe began and
                    \* the interval it had then; NotYet once it was not declared

checksVars == <<groupsCfg, traffic, edges, results, slot, pending, round, waited, started>>
board == <<traffic, edges>>

Forgotten == -1
NotYet == [age |-> 0, interval |-> 0]
Ids(checks) == {c.id : c \in checks}
Results == UNION {[1 .. n -> {"ok", "fail"}] : n \in 0 .. 2}  \* the latest two decide

\* A hub comes up, under whatever traffic there is.
ChecksInit ==
    /\ groupsCfg \in Configs /\ traffic \in [Services -> Traffic] /\ edges \in EdgeLists
    /\ results = [i \in CheckIds |-> <<>>]
    /\ slot = [i \in CheckIds |-> Forgotten] /\ pending = "no"
    /\ round = {} /\ waited = 0 /\ started = [i \in CheckIds |-> NotYet]

-----------------------------------------------------------------------------
\* due: the checks whose slot has come, or that have none.
due == {c \in AllChecks(groupsCfg) : slot[c.id] <= 0}

\* Mutant of Reserved: a round moves the slots of all checks.
ReservedAll(i) ==
    IF i \in Ids(AllChecks(groupsCfg))
    THEN (CHOOSE c \in AllChecks(groupsCfg) : c.id = i).interval ELSE Forgotten

\* ... and the slots after it: a check that is due reserves its next one, one
\* that is no longer declared is forgotten.
Reserved(i) ==
    IF i \in Ids(due) THEN (CHOOSE c \in due : c.id = i).interval
    ELSE IF i \in Ids(AllChecks(groupsCfg)) THEN slot[i] ELSE Forgotten

\* RunDue: all of them at once.
RunDue ==
    /\ pending = "yes" /\ round = {}
    /\ pending' = "no" /\ round' = Ids(due) /\ waited' = 0
    /\ slot' = [i \in CheckIds |-> Reserved(i)]
    /\ started' = [i \in CheckIds |-> IF i \in Ids(due) THEN [age |-> 0, interval |-> Reserved(i)]
                                      ELSE started[i]]
    /\ UNCHANGED <<groupsCfg, board, results>>

\* runOne ends: its result is recorded, newest first, or lost with the store.
ProbeEnds(i) ==
    /\ i \in round /\ round' = round \ {i}
    /\ \/ \E o \in {"ok", "fail"} :
            results' = [results EXCEPT ![i] = <<o>> \o SubSeq(@, 1, IF @ = <<>> THEN 0 ELSE 1)]
       \/ UNCHANGED results
    /\ UNCHANGED <<groupsCfg, board, slot, pending, waited, started>>

\* A tick of time.  The loop does not dawdle over a tick it could take.
TickPasses ==
    /\ pending = "no" \/ round # {}
    /\ round # {} => waited < MaxRound
    /\ pending' = "yes" /\ waited' = IF round = {} THEN 0 ELSE waited + 1
    /\ slot' = [i \in CheckIds |-> IF slot[i] > 0 THEN slot[i] - 1 ELSE slot[i]]
    /\ started' = [i \in CheckIds |-> IF started[i] = NotYet THEN NotYet
                                      ELSE [started[i] EXCEPT !.age = @ + 1]]
    /\ UNCHANGED <<groupsCfg, board, results, round>>

\* The configuration is reloaded (module HotReload).
Declare(cfg) ==
    /\ groupsCfg' = cfg
    /\ started' = [i \in CheckIds |-> IF i \in Ids(AllChecks(cfg)) THEN started[i] ELSE NotYet]
    /\ UNCHANGED <<board, results, slot, pending, round, waited>>

\* The window moves past the oldest result of a check.
ResultAges(i) ==
    /\ results[i] # <<>> /\ results' = [results EXCEPT ![i] = SubSeq(@, 1, Len(@) - 1)]
    /\ UNCHANGED <<groupsCfg, board, slot, pending, round, waited, started>>

HubRestarts ==
    /\ slot' = [i \in CheckIds |-> Forgotten] /\ pending' = "no" /\ round' = {} /\ waited' = 0
    /\ started' = [i \in CheckIds |-> NotYet]
    /\ UNCHANGED <<groupsCfg, board, results>>

ChecksNext ==
    \/ RunDue \/ TickPasses \/ HubRestarts
    \/ \E i \in CheckIds : ProbeEnds(i) \/ ResultAges(i)
    \/ \E cfg \in Configs : Declare(cfg)

ChecksSpec == ChecksInit /\ [][ChecksNext]_checksVars

-----------------------------------------------------------------------------
\* ListServices has a row for the services with a span in the window only.
Stats == [svc \in {s \in Services : traffic[s].spans > 0} |-> traffic[svc]]
Labels == [svc \in Services |-> LabelOf[svc]]
Report == Board(groupsCfg, Stats, Labels, edges, results)

Types ==
    /\ groupsCfg \in Configs /\ results \in [CheckIds -> Results]
    /\ slot \in [CheckIds -> Int] /\ \A i \in CheckIds : slot[i] >= Forgotten
    /\ pending \in {"yes", "no"} /\ round \subseteq CheckIds /\ waited \in 0 .. MaxRound

\* The golden rule, against its definition: whatever the order and the number of
\* the edges, a service's status is its own, except that a healthy one with a
\* critical dependency that is down by itself is degraded; cycles and chains
\* carry nothing further (rollup.go, propagate).
GoldenRule ==
    LET assign == resolve(groupsCfg, Stats, Labels)
        base == Base(groupsCfg, Stats, assign)
        broken(s) == \E i \in DOMAIN edges : LET t == edges[i][2] IN
            /\ edges[i][1] = s /\ t # s /\ t \in DOMAIN base /\ base[t] = "down"
            /\ assign[t].tier = "T0" \/ <<s, t>> \in groupsCfg.critical
    IN  propagate(groupsCfg, assign, base, edges)
          = [s \in DOMAIN base |-> IF base[s] = "healthy" /\ broken(s) THEN "degraded" ELSE base[s]]

\* What the board says is evidenced: every service with traffic is a member of
\* exactly one group; a group is worse than its traffic only for a check of its
\* own that failed twice in a row, and never better (checks.go, ApplyChecks).
BoardSound ==
    LET before == Rollup(groupsCfg, Stats, Labels, edges) IN
    /\ \A s \in DOMAIN Stats : Cardinality({g \in Report : s \in g.members}) = 1
    /\ \A g \in Report, h \in before : <<g.name, g.env>> = <<h.name, h.env>> =>
         /\ severity(g.status) >= severity(h.status)
         /\ g.status # h.status =>
              \E c \in ChecksOf(groupsCfg, g.name) :
                 Len(results[c.id]) >= 2 /\ results[c.id][1] = "fail" /\ results[c.id][2] = "fail"

\* A declared check keeps its pace whatever the other checks of a round do: it
\* is never probed before its interval is over, and at the latest when the round
\* that was running as it came due has timed out (scheduler.go:135).
ProbesPaced ==
    [][\A i \in CheckIds : started[i] # NotYet =>
         /\ started[i].age <= started[i].interval + MaxRound - 1
         /\ i \in round' \ round => started[i].age >= started[i].interval]_checksVars

\* health/checks.go:46: "A group with a failing check and no traffic is DOWN."
SilentFailureIsDown ==
    \A i \in DOMAIN groupsCfg.groups : LET g == groupsCfg.groups[i] IN
        /\ \A s \in Services : traffic[s].spans = 0
        /\ \E c \in Range(g.checks) : Failing(results[c.id])
        => \E h \in Report : h.name = g.name /\ h.status = "down"
===============================================================================
