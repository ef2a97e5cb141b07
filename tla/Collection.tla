------------------------------ MODULE Collection ------------------------------
(***************************************************************************)
(* Runtime control of collection: the overlay an admin saves (hub/internal/*)
(* api/collection.go, storage/clickhouse/collection.go), what it resolves  *)
(* to over the chart's published values (internal/collection/overlay.go,   *)
(* effective.go, render.go) and its application to the sensor's ConfigMaps *)
(* and DaemonSet (k8sapplier.go), one write at a time (collectionMu).      *)
(*                                                                         *)
(* Every call to the store and to the cluster is a step that may fail, and *)
(* one that failed may have landed.  The cluster is also changed by others *)
(* (helm upgrade, kubectl).  What the pods make of it is Kubernetes'.      *)
(***************************************************************************)
EXTENDS Sequences, Naturals

CONSTANTS
    Signals,       \* a sequence: the signals with a ConfigMap, in name order
    Overlays,      \* what may be saved: per signal unset, on, off, and `exclude`
    NoOverlay,     \* ... where DELETE saves the empty one
    Bases,         \* the chart's values: modules, switches, exclude
    Writers,
    Nobody,
    MaxWrites      \* bound: writes and outside changes

ASSUME CollectionAssumption ==
    /\ Signals \in Seq({Signals[i] : i \in DOMAIN Signals})
    /\ NoOverlay \in Overlays /\ Nobody \notin Writers

VARIABLES
    stored,        \* collection_overlay: its one row
    base,          \* the base-values ConfigMap
    maps,          \* the sensor's ConfigMaps: per signal, its data
    pod,           \* the DaemonSet's pod template: its containers, its checksum
    holder,        \* collectionMu
    write,         \* per writer, its request: step, overlay, render, maps left
    answered,      \* history: how the last write was answered
    drift,         \* history: others changed the cluster since the last patch:
                   \* no, yes, or late (since that apply had read the base values)
    writes

collectionVars == <<stored, base, maps, pod, holder, write, answered, drift, writes>>
cluster == <<base, maps, pod>>

SignalSet == {Signals[i] : i \in DOMAIN Signals}

\* pick, EffectiveFromValues: the module and the switch, which the overlay moves.
pick(ov, values, s) == IF ov.switch[s] = "unset" THEN s \in values.switched ELSE ov.switch[s] = "on"
Effective(values, ov) ==
    [signals |-> {s \in SignalSet : s \in values.modules /\ pick(ov, values, s)},
     exclude |-> IF ov.exclude = "unset" THEN values.exclude ELSE ov.exclude]

\* RenderSensorManifests: a ConfigMap per signal, a placeholder where it is off,
\* and the containers of those that are on.
RenderSensorManifests(values, ov) ==
    LET eff == Effective(values, ov)
    IN  [maps |-> [s \in SignalSet |-> IF s \in eff.signals THEN eff.exclude ELSE "placeholder"],
         containers |-> eff.signals]

NoRender == [maps |-> [s \in SignalSet |-> "none"], containers |-> {}]
NoWrite == [pc |-> "idle", overlay |-> NoOverlay, render |-> NoRender, left |-> <<>>]
ToStep(w, pc) == write' = [write EXCEPT ![w].pc = pc]

\* The chart is installed; its DaemonSet has no checksum of ours.
CollectionInit ==
    /\ stored = NoOverlay /\ base \in Bases
    /\ maps = RenderSensorManifests(base, NoOverlay).maps
    /\ pod = [containers |-> RenderSensorManifests(base, NoOverlay).containers, checksum |-> NoRender]
    /\ holder = Nobody /\ write = [w \in Writers |-> NoWrite]
    /\ answered = "ok" /\ drift = "no" /\ writes = 0

\* The handler returns and the deferred Unlock runs.
Answer(w, how) ==
    /\ write' = [write EXCEPT ![w] = NoWrite]
    /\ holder' = Nobody /\ answered' = how

-----------------------------------------------------------------------------
\* Mutant of LockForWrite: collectionMu is not taken.
LockForNobody(w, ov) ==
    /\ write[w].pc = "idle" /\ writes < MaxWrites /\ writes' = writes + 1
    /\ write' = [write EXCEPT ![w].pc = "save", ![w].overlay = ov]
    /\ UNCHANGED <<stored, cluster, holder, answered, drift>>

\* handlePutCollectionOverlay, handleDeleteCollectionOverlay past validation.
LockForWrite(w, ov) ==
    /\ write[w].pc = "idle" /\ holder = Nobody /\ writes < MaxWrites /\ writes' = writes + 1
    /\ holder' = w /\ write' = [write EXCEPT ![w].pc = "save", ![w].overlay = ov]
    /\ UNCHANGED <<stored, cluster, answered, drift>>

SaveCollectionOverlay(w) ==
    /\ write[w].pc = "save" /\ stored' = write[w].overlay /\ ToStep(w, "render")
    /\ UNCHANGED <<cluster, holder, answered, drift, writes>>

SaveFails(w) ==
    /\ write[w].pc = "save" /\ stored' \in {stored, write[w].overlay}
    /\ Answer(w, "error") /\ UNCHANGED <<cluster, drift, writes>>

\* Apply: the base values as they are now.  An overlay that leaves no signal on
\* renders no DaemonSet and is refused, after it was saved.
ApplyRenders(w) ==
    LET render == RenderSensorManifests(base, write[w].overlay) IN
    /\ write[w].pc = "render" /\ render.containers # {}
    /\ write' = [write EXCEPT ![w].pc = "maps", ![w].render = render, ![w].left = Signals]
    /\ drift' = IF drift = "late" THEN "yes" ELSE drift
    /\ UNCHANGED <<stored, cluster, holder, answered, writes>>

\* ... as is one the chart's own guards, a missing object or a name that is not
\* this release's stand against.
ApplyFails(w) ==
    /\ write[w].pc = "render" /\ Answer(w, "error")
    /\ UNCHANGED <<stored, cluster, drift, writes>>

\* applyConfigMap, one after the other.
ApplyConfigMap(w) ==
    /\ write[w].pc = "maps" /\ write[w].left # <<>>
    /\ maps' = [maps EXCEPT ![Head(write[w].left)] = write[w].render.maps[Head(write[w].left)]]
    /\ write' = [write EXCEPT ![w].left = Tail(@)]
    /\ UNCHANGED <<stored, base, pod, holder, answered, drift, writes>>

\* patchDaemonSet: unless the annotation says that this render is live already,
\* containers and annotation in one patch.
PatchDaemonSet(w) ==
    /\ write[w].pc = "maps" /\ write[w].left = <<>>
    /\ IF pod.checksum = write[w].render THEN UNCHANGED <<pod, drift>>
       ELSE /\ pod' = [containers |-> write[w].render.containers, checksum |-> write[w].render]
            /\ drift' = IF drift = "yes" THEN "no" ELSE drift
    /\ Answer(w, "ok") /\ UNCHANGED <<stored, base, maps, writes>>

\* A call to the cluster fails: 502, and what was written stays.
ApplyStops(w) ==
    /\ write[w].pc = "maps"
    /\ \/ UNCHANGED <<maps, pod>>
       \/ /\ write[w].left # <<>> /\ UNCHANGED pod
          /\ maps' = [maps EXCEPT ![Head(write[w].left)] = write[w].render.maps[Head(write[w].left)]]
       \/ /\ write[w].left = <<>> /\ UNCHANGED maps
          /\ pod' = [containers |-> write[w].render.containers, checksum |-> write[w].render]
    /\ Answer(w, "error") /\ UNCHANGED <<stored, base, drift, writes>>

\* The hub dies; its mutex with it.
HubDies ==
    /\ holder # Nobody /\ Answer(holder, "error")
    /\ UNCHANGED <<stored, cluster, drift, writes>>

\* helm upgrade, or a hand on the objects; the annotation outlives both.
ChangedOutside ==
    /\ writes < MaxWrites /\ writes' = writes + 1
    /\ \E b \in Bases, ov \in Overlays :
         /\ base' = b /\ maps' = RenderSensorManifests(b, ov).maps
         /\ pod' = [pod EXCEPT !.containers = RenderSensorManifests(b, ov).containers]
    /\ drift' = "late" /\ UNCHANGED <<stored, holder, write, answered>>

CollectionNext ==
    \/ ChangedOutside \/ HubDies
    \/ \E w \in Writers :
         \/ SaveCollectionOverlay(w) \/ SaveFails(w) \/ ApplyRenders(w) \/ ApplyFails(w)
         \/ ApplyConfigMap(w) \/ PatchDaemonSet(w) \/ ApplyStops(w)
         \/ \E ov \in Overlays : LockForWrite(w, ov)

CollectionSpec == CollectionInit /\ [][CollectionNext]_collectionVars

-----------------------------------------------------------------------------
CollectionTypeOK ==
    /\ stored \in Overlays /\ base \in Bases /\ holder \in Writers \cup {Nobody}
    /\ \A w \in Writers : write[w].pc \in {"idle", "save", "render", "maps"}
    /\ answered \in {"ok", "error"} /\ drift \in {"no", "yes", "late"}

\* The sensors' objects follow the stored overlay: whenever the last write was
\* answered OK and none is under way, they are what that overlay renders to,
\* whatever failed, landed unnoticed or died half-way before it, unless others
\* changed the cluster since the DaemonSet was last patched (router.go:214: "the
\* last write to reach storage is also the last one applied to the cluster").
SensorsFollow ==
    (\A w \in Writers : write[w].pc = "idle") /\ answered = "ok" /\ drift = "no" =>
        LET render == RenderSensorManifests(base, stored)
        IN  maps = render.maps /\ pod.containers = render.containers
===============================================================================
