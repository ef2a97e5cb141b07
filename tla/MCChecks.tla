------------------------------ MODULE MCChecks ------------------------------
(***************************************************************************)
(* TLC instances of CheckScheduler: two configurations of three services,  *)
(* the second with tiers, thresholds and a critical edge of its own, and   *)
(* chains, repeated edges and a cycle between the services.                *)
(***************************************************************************)
EXTENDS CheckScheduler, TLC
LOCAL INSTANCE SequencesExt

Check(id, every) == [id |-> id, interval |-> every]
Rates(warn, crit, p95, min) == [warn |-> warn, crit |-> crit, p95 |-> p95, min |-> min]
Group(name, tier, services, namespaces, checks) ==
    [name |-> name, tier |-> tier, services |-> services, namespaces |-> namespaces, checks |-> checks]
Core == Group("core", "T0", {"db"}, {}, <<Check("c1", 2)>>)
Plain == [groups |-> <<Core, Group("shop", "T1", {}, {"web"}, <<Check("c2", 1)>>)>>,
          defaults |-> Rates(1, 5, 0, 5), tiers |-> <<>>, services |-> <<>>,
          overrides |-> <<>>, defaultTier |-> "T2", critical |-> {}]
Tuned == [groups |-> <<Core>>,
          defaults |-> Rates(1, 5, 0, 5), tiers |-> "T0" :> Rates(0, 20, 9, 0),
          services |-> "web" :> Rates(0, 0, 0, 3),
          overrides |-> "api" :> "T0", defaultTier |-> "T3", critical |-> {<<"db", "web">>}]
MCConfigs == {Plain, Tuned}

MCLabelOf == [s \in {"db", "api", "web"} |->
    [k8s |-> IF s = "web" THEN "web" ELSE "", ns |-> IF s = "db" THEN "" ELSE "web",
     env |-> IF s = "api" THEN "staging" ELSE "", tier |-> IF s = "api" THEN "T7" ELSE "T1"]]

Spans(n, errors, p95) == [spans |-> n, errors |-> errors, p95 |-> p95]
Quiet == Spans(0, 0, 0)
MCTraffic == {Quiet, Spans(4, 4, 1), Spans(10, 0, 9), Spans(10, 1, 1)}
Chain == << <<"api", "db">>, <<"web", "api">>, <<"web", "api">> >>
MCEdgeLists == {<<>>, Chain, Reverse(Chain), << <<"db", "web">>, <<"web", "db">>, <<"db", "db">> >>}

\* The board of every window and every standing of the checks.
BoardInit ==
    /\ groupsCfg \in Configs /\ traffic \in [Services -> Traffic] /\ edges \in EdgeLists
    /\ results \in [CheckIds -> Results]
    /\ slot = [i \in CheckIds |-> Forgotten] /\ pending = "no"
    /\ round = {} /\ waited = 0 /\ started = [i \in CheckIds |-> NotYet]

\* The scheduler of an install nobody calls.
SilentInit == ChecksInit /\ traffic = [s \in Services |-> Quiet] /\ edges = <<>>
SilentSpec == SilentInit /\ [][ChecksNext]_checksVars
=============================================================================
