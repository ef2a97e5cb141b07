----------------------------- MODULE MCTelemetry -----------------------------
(***************************************************************************)
(* TLC instance of Telemetry.  Its parts share the tables and little else: *)
(* one of them moves at a time, chosen at the start.                       *)
(***************************************************************************)
EXTENDS Telemetry

VARIABLE focus

mcVars == <<focus, telemetryVars>>

\* Two applications, 1 and 2, and a chain of two proxies, 3 and 4; trace 1 goes
\* through them and across two tenants, trace 2 does not.
Span(n, t, tr, parent, s, k, time) ==
    [row |-> n, tenant |-> t, trace |-> tr, span |-> n, parent |-> parent, svc |-> s, op |-> 1,
     kind |-> k, code |-> IF n = 6 THEN "Error" ELSE "Unset", http |-> 0, httpOld |-> 0, at |-> time,
     dur |-> 1, noise |-> "no", check |-> Empty, res |-> {}, attrs |-> {}, ns |-> 1, workload |-> s,
     node |-> 1, pod |-> s, db |-> Empty, msg |-> Empty, peer |-> Empty]
MCSpans ==
    {Span(1, 1, 1, 0, 1, "Client", 1), Span(2, 1, 1, 1, 3, "Server", 2), Span(3, 1, 1, 2, 3, "Client", 2),
     Span(4, 1, 1, 3, 4, "Server", 2), Span(5, 1, 1, 4, 4, "Client", 2), Span(6, 2, 1, 5, 2, "Server", 2),
     Span(7, 1, 2, 0, 1, "Client", 1), Span(8, 1, 2, 7, 2, "Server", 1), Span(9, 1, 3, 0, 2, "Server", 0)}
MCRoots == {1, 2, 6, 7, 9}

Log(n, time, s) == [row |-> n, tenant |-> 1, svc |-> s, sev |-> 9, body |-> {}, trace |-> 1, span |-> 1,
                    at |-> time, res |-> {}, attrs |-> {}]
MCLogs == {Log(1, 1, 1), Log(2, 1, 1), Log(3, 2, 2), Log(4, 0, 1)}

Event(n, t, f, time) == [row |-> n, tenant |-> t, svc |-> 1, fp |-> f, text |-> {}, trace |-> n, span |-> 1,
                         at |-> time]
MCEvents == {Event(1, 1, 1, 0), Event(2, 1, 1, 1), Event(3, 1, 1, 2), Event(4, 2, 1, 2), Event(5, 1, 2, 1)}

Flow(n, t, m, s, d) ==
    [Point EXCEPT !.row = n, !.tenant = t, !.metric = m, !.at = 1, !.value = 1, !.series = n, !.src = s,
                  !.dst = d]
Reading(n, t, m) ==
    [Point EXCEPT !.row = n, !.tenant = t, !.metric = m, !.at = 1, !.value = n, !.series = n, !.pod = 1,
                  !.node = 1, !.ns = 1, !.workload = t, !.quality = "measured"]
MCFlows == {Flow(1, 1, "flow.bytes", 1, 2), Flow(2, 1, "flow.bytes", 1, 3), Flow(3, 1, "tcp.failed", 1, 2),
            Flow(4, 2, "tcp.failed", 2, 5)}
MCReadings == {Reading(5, 1, "energy"), Reading(6, 1, "pod.cpu"), Reading(7, 2, "pod.cpu")}
MCPoints == MCFlows \cup MCReadings

MCQuery == [tenants |-> {1, 2}, tenant |-> 1, start |-> 0, end |-> 9, excludeAux |-> "yes", service |-> Empty,
            op |-> Empty, status |-> "all", minDur |-> 0, maxDur |-> 0, tags |-> {}, order |-> "newest",
            cursor |-> <<>>, limit |-> 1, node |-> Empty, matchNone |-> "no", sources |-> <<>>,
            categories |-> {}, minSev |-> 0, text |-> Empty, groupBy |-> "service", scope |-> "all",
            key |-> Empty, energyMetrics |-> {"energy"}, legacy |-> "no", ranged |-> "yes"]

\* Times are finer than a second, the logs 1 and 2 have equal keys, and a client may
\* have kept its cursor, one of the former order.  A search by oldest can go on for
\* ever: it is looked at up to its entry MCMaxShown.
MCMaxShown == 6
MCAsks ==
    {[on |-> "traces", fp |-> 0, q |-> [MCQuery EXCEPT !.order = o]] : o \in Orders}
    \cup {[on |-> "logs", fp |-> 0, q |-> [MCQuery EXCEPT !.limit = n]] : n \in {1, 2}}
    \cup {[on |-> "logs", fp |-> 0, q |-> [MCQuery EXCEPT !.legacy = "yes", !.cursor = <<Log(3, 2, 2)>>]],
          [on |-> "events", fp |-> 1, q |-> [MCQuery EXCEPT !.ranged = "no", !.end = 1]],
          [on |-> "events", fp |-> 1, q |-> [MCQuery EXCEPT !.cursor = <<Event(4, 2, 1, 2)>>]]}

\* Searches from their beginning, over records that their cursors tell apart.
MCLogsApart == {Log(1, 1, 1), Log(2, 1, 2), Log(3, 2, 1), Log(4, 0, 1)}
MCFirstAsks == {a \in MCAsks : a.q.cursor = <<>> /\ a.q.limit = 1 /\ a.q.ranged = "yes"}
                 \cup {[on |-> "events", fp |-> 1, q |-> MCQuery]}

\* A search, and the arrivals at the table it goes through.
OneSearch ==
    /\ focus # "traces" => UNCHANGED spans
    /\ focus = "traces" => spans' \subseteq {r \in MCSpans : r.row \in MCRoots}
    /\ focus # "logs" => UNCHANGED logs
    /\ focus # "events" => UNCHANGED events
    /\ scroll' # NoScroll => scroll'.ask.on = focus /\ Len(scroll'.got) <= MCMaxShown

MCTelemetryInit ==
    /\ TelemetryInit
    /\ focus \in {"traces", "logs", "events", "map", "readings", "issues", "mesh"}

MCTelemetryNext ==
    /\ focus' = focus
    /\ \/ focus \in {"traces", "logs", "events"} /\ PageNext
       \/ focus = "map" /\ MapNext
       \/ focus = "readings" /\ FlowArrives
       \/ focus = "issues" /\ IssueNext /\ now' < MaxNow
       \/ focus = "mesh" /\ MeshNext /\ (lost' # lost => LostIn(0, MaxNow) = 0)
    /\ focus \in {"traces", "logs", "events"} => OneSearch
    /\ focus = "map" => spans' \subseteq {r \in MCSpans : r.row < 9} /\ points' \subseteq MCFlows
    /\ focus = "readings" => points' \subseteq MCReadings

MCTelemetrySpec == MCTelemetryInit /\ [][MCTelemetryNext]_mcVars
===============================================================================
