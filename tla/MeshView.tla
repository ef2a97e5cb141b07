------------------------------- MODULE MeshView -------------------------------
(***************************************************************************)
(* What the hub concludes from rows it has read: the mTLS posture of a     *)
(* workload and the edges of the service map (hub/internal/api/mesh_*.go,  *)
(* traces.go, hub/internal/topology).                                      *)
(***************************************************************************)
EXTENDS Integers, FiniteSets, Sequences, SequencesExt, FiniteSetsExt

CONSTANT None    \* nothing observed, no finding

\* observe: requests and connections of one kind are added up.
observe(c) == [mtls |-> c.mtlsReq + c.mtlsConn, plaintext |-> c.plainReq + c.plainConn,
               unknown |-> c.unkReq + c.unkConn]

\* posture: the verdict and the severity of the finding that goes with it.
posture(in) ==
    LET o == in.obs IN
    CASE o = None -> IF in.declared = "yes" /\ in.dataplane = "ambient" /\ in.traffic = "yes"
                     THEN <<"uncarried", "error">> ELSE <<"unknown", None>>
      [] o # None /\ o.mtls + o.plaintext + o.unknown = 0 -> <<"idle", None>>
      [] o # None /\ o.mtls + o.plaintext + o.unknown > 0 ->
           LET plain == o.plaintext > 0  mtls == o.mtls > 0 IN
           IF in.declared = "no"
           THEN <<IF plain THEN "observed-only-plaintext"
                  ELSE IF mtls THEN "observed-only-mtls" ELSE "unknown", None>>
           ELSE CASE in.mode = "DISABLE" -> <<"disabled", None>>
                  [] in.mode = "STRICT" ->
                       IF plain THEN <<"declared-strict-observed-plaintext", "error">>
                       ELSE <<IF mtls THEN "strict-and-mtls" ELSE "unknown", None>>
                  [] OTHER ->
                       IF plain THEN <<"permissive-with-plaintext-callers", "warning">>
                       ELSE IF mtls THEN <<"permissive-but-all-mtls", "info">> ELSE <<"unknown", None>>

\* decorate: a workload without data-plane rows has traffic the proxies missed
\* only where the data plane was read at all.
decorate(wl, sec, available) ==
    posture([obs |-> IF sec = None THEN None ELSE observe(sec), declared |-> "yes",
             dataplane |-> wl.dataplane, mode |-> wl.mode,
             traffic |-> IF wl.traffic = "yes" /\ available = "yes" THEN "yes" ELSE "no"])

-----------------------------------------------------------------------------
Pair(e) == <<e.src, e.dst>>
\* The index a Go map built front to back holds for a key: the last one.
IndexOf(edges, p) == LET hits == {i \in DOMAIN edges : Pair(edges[i]) = p}
                     IN  IF hits = {} THEN 0 ELSE Max(hits)

\* mergeEdges: flow edges onto the trace edges of the same pair.
mergeEdges(trace, flow) ==
    FoldLeft(LAMBDA acc, f :
                 LET i == IndexOf(trace, Pair(f)) IN
                 IF i = 0 THEN Append(acc, [f EXCEPT !.prov = "flow"])
                 ELSE [acc EXCEPT ![i].prov = "both", ![i].bytes = f.bytes],
             [i \in DOMAIN trace |-> [trace[i] EXCEPT !.prov = "trace"]], flow)

\* MergeCollapsed: dependencies read through a proxy onto the edges of the same
\* pair, whose calls they add to.
MergeCollapsed(edges, collapsed) ==
    FoldLeft(LAMBDA acc, c :
                 LET i == IndexOf(acc, Pair(c)) IN
                 IF i = 0 THEN Append(acc, [src |-> c.src, dst |-> c.dst, prov |-> "collapsed", calls |-> c.calls,
                                            bytes |-> 0, via |-> c.via, failed |-> 0])
                 ELSE [acc EXCEPT ![i].calls = @ + c.calls, ![i].via = c.via],
             edges, collapsed)

\* applyEdgeHealth: kernel-level health onto the edge it belongs to, or an edge
\* of its own.
applyEdgeHealth(edges, health) ==
    FoldLeft(LAMBDA acc, h :
                 LET i == IndexOf(edges, Pair(h)) IN
                 IF i = 0 THEN Append(acc, [src |-> h.src, dst |-> h.dst, prov |-> "flow", calls |-> 0,
                                            bytes |-> 0, via |-> {}, failed |-> h.failed])
                 ELSE [acc EXCEPT ![i].failed = h.failed],
             edges, health)

===============================================================================
