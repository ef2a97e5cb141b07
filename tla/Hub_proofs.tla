------------------------------ MODULE Hub_proofs ------------------------------
(***************************************************************************)
(* Proofs about what a hub does on its own: HotReload, for every set of    *)
(* contents, Collection, for every set of signals, overlays and writers,   *)
(* Throttles, for every number of workers, accounts and addresses, and     *)
(* Mappings, for every set of groups, roles, charts and authors.           *)
(***************************************************************************)
EXTENDS HotReload, Collection, Throttles, Mappings, FiniteSetTheorems, TLAPS

\* What the watcher remembers is never later than the file, and it only idles
\* once a configuration is loaded.
TimesBehind ==
    /\ last <= mtime /\ newest <= mtime /\ modTime <= mtime
    /\ phase = "idle" => current # NoConfig

ReloadInv == ReloadTypeOK /\ TimesBehind

\* The loader's state stays well typed - in particular what is in use always
\* parsed - and its remembered times never overtake the file's.
THEOREM ReloadInvHolds == ReloadSpec => []ReloadInv
<1>1. ReloadInit => ReloadInv
  BY HotReloadAssumption DEF ReloadInit, ReloadInv, ReloadTypeOK, TimesBehind, Times
<1>2. ReloadInv /\ [ReloadNext]_reloadVars => ReloadInv'
  <2> SUFFICES ASSUME ReloadInv, [ReloadNext]_reloadVars PROVE ReloadInv'
    OBVIOUS
  <2> USE HotReloadAssumption DEF ReloadInv, ReloadTypeOK, TimesBehind, Times, disk
  <2>1. CASE TickSeesChange BY <2>1 DEF TickSeesChange
  <2>2. CASE Stat BY <2>2 DEF Stat
  <2>3. CASE ReadGood BY <2>3 DEF ReadGood
  <2>4. CASE ReadBad BY <2>4 DEF ReadBad, Rejected
  <2>5. CASE ReadError BY <2>5 DEF ReadError, Rejected
  <2>6. ASSUME NEW c \in Contents, Edit(c) PROVE ReloadInv' BY <2>6 DEF Edit
  <2>7. CASE Remove BY <2>7 DEF Remove
  <2>8. CASE UNCHANGED reloadVars BY <2>8 DEF reloadVars
  <2>9. QED BY <2>1, <2>2, <2>3, <2>4, <2>5, <2>6, <2>7, <2>8 DEF ReloadNext
<1>3. QED BY <1>1, <1>2, PTL DEF ReloadSpec

\* Where a file that is there can be statted and read, the watcher never takes
\* itself to be up to date while a configuration that parses waits on disk.
THEOREM EditsAreNotMissed == ASSUME ReadFaults = FALSE PROVE ReloadSpec => []NoMissedEdit
<1>1. ReloadInit => NoMissedEdit
  BY DEF ReloadInit, NoMissedEdit
<1>2. ReloadInv /\ NoMissedEdit /\ [ReloadNext]_reloadVars => NoMissedEdit'
  <2> SUFFICES ASSUME ReloadInv, NoMissedEdit, [ReloadNext]_reloadVars PROVE NoMissedEdit'
    OBVIOUS
  <2> USE HotReloadAssumption DEF NoMissedEdit, disk
  <2>1. CASE TickSeesChange BY <2>1 DEF TickSeesChange
  <2>2. CASE Stat BY <2>2 DEF Stat
  <2>3. CASE ReadGood BY <2>3 DEF ReadGood
  <2>4. CASE ReadBad BY <2>4 DEF ReadBad, Rejected
  <2>5. CASE ReadError BY <2>5, ReadFaults = FALSE DEF ReadError, Rejected
  <2>6. ASSUME NEW c \in Contents, Edit(c) PROVE NoMissedEdit'
    BY <2>6 DEF Edit, ReloadInv, ReloadTypeOK, TimesBehind, Times
  <2>7. CASE Remove BY <2>7 DEF Remove
  <2>8. CASE UNCHANGED reloadVars BY <2>8 DEF reloadVars
  <2>9. QED BY <2>1, <2>2, <2>3, <2>4, <2>5, <2>6, <2>7, <2>8 DEF ReloadNext
<1>3. QED BY <1>1, <1>2, ReloadInvHolds, PTL DEF ReloadSpec

\* The published configuration only ever changes to a file content that
\* parsed, whatever fails.
THEOREM LastGoodConfigStays == ReloadSpec => LastGoodStays
<1>1. [ReloadNext]_reloadVars => [current' # current => current' = file /\ current' \in Valid]_current
  <2> SUFFICES ASSUME [ReloadNext]_reloadVars, current' # current
               PROVE  current' = file /\ current' \in Valid
    OBVIOUS
  <2> USE DEF disk
  <2>1. CASE ReadGood BY <2>1 DEF ReadGood
  <2>2. CASE TickSeesChange \/ Stat \/ ReadBad \/ ReadError \/ Remove
    BY <2>2 DEF TickSeesChange, Stat, ReadBad, ReadError, Remove
  <2>3. CASE \E c \in Contents : Edit(c) BY <2>3 DEF Edit
  <2>4. CASE UNCHANGED reloadVars BY <2>4 DEF reloadVars
  <2>5. QED BY <2>1, <2>2, <2>3, <2>4 DEF ReloadNext
<1>2. QED BY <1>1, PTL DEF ReloadSpec, LastGoodStays

-----------------------------------------------------------------------------
(* Collection.                                                             *)

\* The ConfigMaps an apply has written so far.
Applied(left) == 1 .. Len(Signals) - Len(left)

Renders == {RenderSensorManifests(b, ov) : b \in Bases, ov \in Overlays}
Requests == [pc : {"idle", "save", "render", "maps"}, overlay : Overlays,
             render : {NoRender} \cup Renders, left : Seq(SignalSet)]

WriteTypeOK ==
    /\ maps = [s \in SignalSet |-> maps[s]]
    /\ write \in [Writers -> Requests]

\* collectionMu: whoever is at work holds it.
MutexInv == \A w \in Writers : write[w].pc # "idle" => holder = w

\* An apply works from what was saved, and, unless others changed the base
\* values since it read them, what it renders is what the overlay resolves to;
\* the maps it is through with are written, the others are left in order.
ApplyInv ==
    \A w \in Writers :
        /\ write[w].pc \in {"render", "maps"} => write[w].overlay = stored
        /\ write[w].pc = "maps" =>
             /\ write[w].render.containers # {}
             /\ write[w].render \in Renders
             /\ Len(write[w].left) <= Len(Signals)
             /\ \A j \in 1 .. Len(write[w].left) :
                  write[w].left[j] = Signals[Len(Signals) - Len(write[w].left) + j]
             /\ drift # "late" =>
                  /\ write[w].render = RenderSensorManifests(base, stored)
                  /\ \A i \in Applied(write[w].left) :
                       maps[Signals[i]] = write[w].render.maps[Signals[i]]

\* The annotation tells the truth until others change the cluster.
ChecksumInv ==
    drift = "no" /\ pod.checksum.containers # {} => pod.containers = pod.checksum.containers

CollectionInv ==
    CollectionTypeOK /\ WriteTypeOK /\ MutexInv /\ ApplyInv /\ ChecksumInv /\ SensorsFollow

\* What a render is made of: data for every signal, and the containers.
LEMMA RenderShape ==
    ASSUME NEW b, NEW ov
    PROVE  /\ RenderSensorManifests(b, ov).maps = [s \in SignalSet |-> RenderSensorManifests(b, ov).maps[s]]
           /\ NoRender.containers = {}
BY DEF RenderSensorManifests, NoRender

\* Signals is a sequence of the signals.
LEMMA SignalsSeq == Signals \in Seq(SignalSet) /\ SignalSet = {Signals[i] : i \in 1 .. Len(Signals)}
BY CollectionAssumption DEF SignalSet

\* A request that has just come in, and one moved to another step.
LEMMA RequestShape ==
    /\ NoWrite \in Requests /\ NoWrite.pc = "idle"
    /\ \A r \in Requests, pc \in {"idle", "save", "render", "maps"} :
         /\ [r EXCEPT !.pc = pc] \in Requests
         /\ [r EXCEPT !.pc = pc].pc = pc
         /\ [r EXCEPT !.pc = pc].overlay = r.overlay
<1>1. <<>> \in Seq(SignalSet) OBVIOUS
<1> QED BY <1>1, CollectionAssumption DEF NoWrite, Requests

\* An installed chart satisfies the invariant.
LEMMA CollectionStarts == CollectionInit => CollectionInv
<1> SUFFICES ASSUME CollectionInit PROVE CollectionInv
  OBVIOUS
<1> USE CollectionAssumption DEF CollectionInit
<1>1. CollectionTypeOK
  BY DEF CollectionTypeOK, NoWrite
<1>2. WriteTypeOK
  BY RequestShape, RenderShape DEF WriteTypeOK
<1>3. MutexInv /\ ApplyInv
  BY DEF MutexInv, ApplyInv, NoWrite
<1>4. ChecksumInv
  BY RenderShape DEF ChecksumInv
<1>5. SensorsFollow
  BY DEF SensorsFollow
<1> QED BY <1>1, <1>2, <1>3, <1>4, <1>5 DEF CollectionInv

\* The facts every step of a writer at work starts from: it is the only one.
LEMMA OneAtWork ==
    ASSUME CollectionInv, NEW w \in Writers, write[w].pc # "idle"
    PROVE  /\ holder = w
           /\ \A v \in Writers : v # w => write[v].pc = "idle"
BY DEF CollectionInv, MutexInv

\* A request that ends - with an error or cut short - leaves a state as good.
LEMMA AnswerKeepsInv ==
    ASSUME CollectionInv, NEW w \in Writers, write[w].pc # "idle", NEW how \in {"ok", "error"}, Answer(w, how),
           CollectionTypeOK', maps' = [s \in SignalSet |-> maps'[s]], ChecksumInv',
           how = "error" \/ SensorsFollow'
    PROVE  CollectionInv'
<1>1. WriteTypeOK'
  BY RequestShape DEF WriteTypeOK, Answer, CollectionInv
<1>2. \A v \in Writers : write'[v].pc = "idle"
  BY OneAtWork DEF Answer, CollectionInv, WriteTypeOK, NoWrite
<1>3. MutexInv' /\ ApplyInv'
  BY <1>2 DEF MutexInv, ApplyInv
<1>4. SensorsFollow'
  BY DEF Answer, SensorsFollow
<1> QED BY <1>1, <1>3, <1>4 DEF CollectionInv

\* A write that takes collectionMu: nobody else is at work.
LEMMA LockKeepsInv ==
    ASSUME CollectionInv, NEW w \in Writers, NEW ov \in Overlays, LockForWrite(w, ov)
    PROVE  CollectionInv'
<1> USE DEF LockForWrite, cluster
<1> DEFINE r == [write[w] EXCEPT !.pc = "save", !.overlay = ov]
<1>0. write[w] \in Requests /\ write \in [Writers -> Requests]
  BY DEF CollectionInv, WriteTypeOK
<1>a. r \in Requests /\ r.pc = "save"
  BY <1>0 DEF Requests
<1>b. write' = [write EXCEPT ![w] = r]
  BY <1>0 DEF Requests
<1> HIDE DEF r
<1>1. \A v \in Writers : write[v].pc = "idle"
  BY CollectionAssumption DEF CollectionInv, MutexInv
<1>2. WriteTypeOK'
  BY <1>a, <1>b DEF CollectionInv, WriteTypeOK
<1>3. write'[w].pc = "save" /\ \A v \in Writers : v # w => write'[v].pc = "idle"
  BY <1>0, <1>a, <1>b, <1>1
<1>4. CollectionTypeOK'
  BY <1>3 DEF CollectionInv, CollectionTypeOK
<1>5. MutexInv' /\ ApplyInv'
  <2>1. holder' = w OBVIOUS
  <2> HIDE DEF LockForWrite
  <2> QED BY <1>3, <2>1 DEF MutexInv, ApplyInv
<1>6. ChecksumInv'
  BY DEF CollectionInv, ChecksumInv
<1>7. SensorsFollow'
  BY <1>3 DEF SensorsFollow
<1> QED BY <1>2, <1>4, <1>5, <1>6, <1>7 DEF CollectionInv

\* The save.
LEMMA SaveKeepsInv ==
    ASSUME CollectionInv, NEW w \in Writers, SaveCollectionOverlay(w)
    PROVE  CollectionInv'
<1> USE DEF SaveCollectionOverlay, cluster, ToStep
<1> DEFINE r == [write[w] EXCEPT !.pc = "render"]
<1>0. write[w] \in Requests /\ write \in [Writers -> Requests]
  BY DEF CollectionInv, WriteTypeOK
<1>a. r \in Requests /\ r.pc = "render" /\ r.overlay = stored'
  BY <1>0, RequestShape
<1>b. write' = [write EXCEPT ![w] = r] /\ stored' \in Overlays
  BY <1>0 DEF Requests
<1> HIDE DEF r
<1>1. holder = w /\ \A v \in Writers : v # w => write[v].pc = "idle"
  BY OneAtWork
<1>2. WriteTypeOK'
  BY <1>a, <1>b DEF CollectionInv, WriteTypeOK
<1>3. write'[w] = r /\ \A v \in Writers : v # w => write'[v].pc = "idle"
  BY <1>0, <1>b, <1>1
<1>4. CollectionTypeOK'
  BY <1>a, <1>b, <1>3 DEF CollectionInv, CollectionTypeOK
<1>5. MutexInv' /\ ApplyInv'
  BY <1>a, <1>1, <1>3 DEF MutexInv, ApplyInv
<1>6. ChecksumInv'
  BY DEF CollectionInv, ChecksumInv
<1>7. SensorsFollow'
  BY <1>a, <1>3 DEF SensorsFollow
<1> QED BY <1>2, <1>4, <1>5, <1>6, <1>7 DEF CollectionInv

\* Apply starts from what the base values resolve to now.
LEMMA RenderKeepsInv ==
    ASSUME CollectionInv, NEW w \in Writers, ApplyRenders(w)
    PROVE  CollectionInv'
<1> DEFINE render == RenderSensorManifests(base, write[w].overlay)
           r == [write[w] EXCEPT !.pc = "maps", !.render = render, !.left = Signals]
<1> USE DEF cluster
<1>a. /\ write[w].pc = "render" /\ render.containers # {} /\ write' = [write EXCEPT ![w] = r]
      /\ drift' = (IF drift = "late" THEN "yes" ELSE drift)
      /\ UNCHANGED <<stored, base, maps, pod, holder, answered, writes>>
  BY DEF ApplyRenders, CollectionInv, WriteTypeOK
<1>b. write[w] \in Requests
  BY DEF CollectionInv, WriteTypeOK
<1>c. render \in Renders /\ write[w].overlay = stored
  BY <1>a, <1>b DEF CollectionInv, CollectionTypeOK, ApplyInv, Renders
<1>d. /\ r.pc = "maps" /\ r.render = render /\ r.left = Signals /\ r.overlay = stored
      /\ r \in Requests
  BY <1>b, <1>c, SignalsSeq DEF Requests
<1>e. render = RenderSensorManifests(base, stored) /\ Applied(Signals) = {}
  BY <1>c, SignalsSeq DEF Applied
<1> HIDE DEF r, render
<1>1. holder = w /\ \A v \in Writers : v # w => write[v].pc = "idle"
  BY <1>a, OneAtWork
<1>2. WriteTypeOK'
  BY <1>a, <1>d DEF CollectionInv, WriteTypeOK
<1>3. write'[w] = r /\ \A v \in Writers : v # w => write'[v].pc = "idle"
  BY <1>a, <1>1 DEF CollectionInv, WriteTypeOK
<1>4. CollectionTypeOK'
  BY <1>a, <1>d, <1>3 DEF CollectionInv, CollectionTypeOK
<1>5. MutexInv'
  BY <1>a, <1>1, <1>3 DEF MutexInv
<1>6. ApplyInv'
  <2>1. Len(Signals) \in Nat BY SignalsSeq
  <2> QED BY <1>a, <1>c, <1>d, <1>e, <1>3, <2>1 DEF ApplyInv, Renders
<1>7. ChecksumInv'
  BY <1>a DEF CollectionInv, ChecksumInv, CollectionTypeOK
<1>8. SensorsFollow'
  BY <1>d, <1>3 DEF SensorsFollow
<1> QED BY <1>2, <1>4, <1>5, <1>6, <1>7, <1>8 DEF CollectionInv

\* The ConfigMaps are written in order, and those written stay written.
LEMMA MapKeepsInv ==
    ASSUME CollectionInv, NEW w \in Writers, ApplyConfigMap(w)
    PROVE  CollectionInv'
<1> USE DEF cluster
<1> DEFINE left == write[w].left  n == Len(Signals)
           r == [write[w] EXCEPT !.left = Tail(left)]
<1>a. /\ write[w].pc = "maps" /\ left # <<>> /\ write' = [write EXCEPT ![w] = r]
      /\ maps' = [maps EXCEPT ![Head(left)] = write[w].render.maps[Head(left)]]
      /\ UNCHANGED <<stored, base, pod, holder, answered, drift, writes>>
  BY DEF ApplyConfigMap, CollectionInv, WriteTypeOK
<1>b. write[w] \in Requests
  BY DEF CollectionInv, WriteTypeOK
<1>c. /\ write[w].render.containers # {} /\ write[w].render \in Renders
      /\ Len(left) <= n /\ \A j \in 1 .. Len(left) : left[j] = Signals[n - Len(left) + j]
      /\ drift # "late" =>
           /\ write[w].render = RenderSensorManifests(base, stored)
           /\ \A i \in Applied(left) : maps[Signals[i]] = write[w].render.maps[Signals[i]]
      /\ write[w].overlay = stored
  BY <1>a DEF CollectionInv, ApplyInv, Renders
<1>d. /\ left \in Seq(SignalSet) /\ Len(left) \in Nat \ {0} /\ n \in Nat
      /\ Tail(left) \in Seq(SignalSet) /\ Len(Tail(left)) = Len(left) - 1
      /\ \A j \in 1 .. Len(left) - 1 : Tail(left)[j] = left[j + 1]
      /\ Head(left) = left[1] /\ Head(left) \in SignalSet
  <2>1. left \in Seq(SignalSet) BY <1>b DEF Requests
  <2>2. left # <<>> BY <1>a
  <2> HIDE DEF left
  <2>3. Len(left) \in Nat /\ Len(left) # 0 /\ n \in Nat BY <2>1, <2>2, SignalsSeq
  <2>4. Tail(left) \in Seq(SignalSet) /\ Len(Tail(left)) = Len(left) - 1 BY <2>1, <2>2
  <2>5. \A j \in 1 .. Len(left) - 1 : Tail(left)[j] = left[j + 1] BY <2>1, <2>2
  <2>6. Head(left) = left[1] /\ Head(left) \in SignalSet BY <2>1, <2>2
  <2> QED BY <2>1, <2>3, <2>4, <2>5, <2>6
<1>e. Head(left) = Signals[n - Len(left) + 1]
  <2>1. 1 \in 1 .. Len(left) BY <1>d
  <2> QED BY <1>c, <1>d, <2>1
<1>f. \A j \in 1 .. Len(Tail(left)) : Tail(left)[j] = Signals[n - Len(Tail(left)) + j]
  <2> SUFFICES ASSUME NEW j \in 1 .. Len(left) - 1 PROVE left[j + 1] = Signals[n - (Len(left) - 1) + j]
    BY <1>d
  <2>1. j + 1 \in 1 .. Len(left) /\ n - Len(left) + (j + 1) = n - (Len(left) - 1) + j BY <1>d
  <2> QED BY <2>1, <1>c
<1>g. Applied(Tail(left)) = Applied(left) \cup {n - Len(left) + 1}
  <2>1. Len(left) <= n BY <1>c
  <2> HIDE DEF left
  <2> QED BY <1>d, <2>1 DEF Applied
<1>h. /\ r.pc = "maps" /\ r.render = write[w].render /\ r.left = Tail(left) /\ r.overlay = stored
      /\ r \in Requests
  BY <1>a, <1>b, <1>c, <1>d DEF Requests
<1>i. maps = [s \in SignalSet |-> maps[s]]
  BY DEF CollectionInv, WriteTypeOK
<1>j. maps' = [s \in SignalSet |-> maps'[s]]
  BY <1>a, <1>i
<1>k. drift # "late" => \A i \in Applied(Tail(left)) : maps'[Signals[i]] = write[w].render.maps[Signals[i]]
  <2> SUFFICES ASSUME drift # "late", NEW i \in Applied(Tail(left))
               PROVE  maps'[Signals[i]] = write[w].render.maps[Signals[i]]
    OBVIOUS
  <2>1. Signals[i] \in SignalSet
    <3>1. i \in 1 .. n BY <1>c, <1>d, <1>g DEF Applied
    <3> QED BY <3>1, SignalsSeq
  <2>2. CASE i = n - Len(left) + 1 BY <2>2, <1>a, <1>d, <1>e, <1>i
  <2>3. CASE i \in Applied(left) BY <2>1, <2>3, <1>a, <1>c, <1>d, <1>i
  <2> QED BY <2>2, <2>3, <1>g
<1> HIDE DEF r, left, n
<1>1. holder = w /\ \A v \in Writers : v # w => write[v].pc = "idle"
  BY <1>a, OneAtWork
<1>2. WriteTypeOK'
  BY <1>a, <1>h, <1>j DEF CollectionInv, WriteTypeOK
<1>3. write'[w] = r /\ \A v \in Writers : v # w => write'[v].pc = "idle"
  BY <1>a, <1>1 DEF CollectionInv, WriteTypeOK
<1>4. CollectionTypeOK'
  BY <1>a, <1>h, <1>3 DEF CollectionInv, CollectionTypeOK
<1>5. MutexInv'
  BY <1>a, <1>1, <1>3 DEF MutexInv
<1>6. ApplyInv'
  <2>1. Len(Tail(left)) <= n BY <1>c, <1>d
  <2>2. Len(Tail(left)) <= Len(Signals) /\ \A j \in 1 .. Len(Tail(left)) :
          Tail(left)[j] = Signals[Len(Signals) - Len(Tail(left)) + j]
    BY <1>f, <2>1 DEF n
  <2>3. drift' = drift /\ base' = base /\ stored' = stored BY <1>a
  <2>4. \A v \in Writers : v # w => write'[v].pc = "idle" BY <1>3
  <2>5. write'[w].pc = "maps" /\ write'[w].render = write[w].render /\ write'[w].left = Tail(left)
        /\ write'[w].overlay = stored
    BY <1>3, <1>h
  <2> QED BY <1>c, <1>k, <2>2, <2>3, <2>4, <2>5 DEF ApplyInv
<1>7. ChecksumInv'
  BY <1>a DEF CollectionInv, ChecksumInv
<1>8. SensorsFollow'
  BY <1>h, <1>3 DEF SensorsFollow
<1> QED BY <1>2, <1>4, <1>5, <1>6, <1>7, <1>8 DEF CollectionInv

\* The patch comes when every ConfigMap is written; it leaves the containers as
\* they are only where the annotation vouches for them.
LEMMA PatchKeepsInv ==
    ASSUME CollectionInv, NEW w \in Writers, PatchDaemonSet(w)
    PROVE  CollectionInv'
<1> USE DEF PatchDaemonSet
<1>a. write[w].pc = "maps" /\ write[w].left = <<>> /\ UNCHANGED <<stored, base, maps, writes>>
  OBVIOUS
<1>b. /\ write[w].render.containers # {}
      /\ drift # "late" =>
           /\ write[w].render = RenderSensorManifests(base, stored)
           /\ \A i \in Applied(<<>>) : maps[Signals[i]] = write[w].render.maps[Signals[i]]
  <2> HIDE DEF PatchDaemonSet
  <2>1. ApplyInv BY DEF CollectionInv
  <2> QED BY <1>a, <2>1 DEF ApplyInv
<1>c. Applied(<<>>) = 1 .. Len(Signals)
  BY SignalsSeq DEF Applied
<1>p. IF pod.checksum = write[w].render THEN UNCHANGED <<pod, drift>>
      ELSE /\ pod' = [containers |-> write[w].render.containers, checksum |-> write[w].render]
           /\ drift' = IF drift = "yes" THEN "no" ELSE drift
  OBVIOUS
<1>d. drift \in {"no", "yes", "late"} /\ (drift' = "no" => drift # "late")
  BY DEF CollectionInv, CollectionTypeOK
<1>1. ChecksumInv'
  BY <1>d DEF CollectionInv, ChecksumInv
<1>2. SensorsFollow'
  <2> SUFFICES ASSUME drift' = "no"
               PROVE  /\ maps = RenderSensorManifests(base, stored).maps
                      /\ pod'.containers = RenderSensorManifests(base, stored).containers
    BY <1>a DEF SensorsFollow
  <2>1. maps = [s \in SignalSet |-> maps[s]]
    BY DEF CollectionInv, WriteTypeOK
  <2>2. \A s \in SignalSet : maps[s] = RenderSensorManifests(base, stored).maps[s]
    BY <1>b, <1>c, <1>d, SignalsSeq
  <2>3. maps = RenderSensorManifests(base, stored).maps
    BY <2>1, <2>2, RenderShape
  <2>4. CASE pod.checksum = write[w].render
    <3>1. pod' = pod /\ drift = "no" BY <2>4, <1>p
    <3>2. pod.checksum = RenderSensorManifests(base, stored) /\ pod.checksum.containers # {}
      BY <2>4, <3>1, <1>b
    <3>3. ChecksumInv BY DEF CollectionInv
    <3> HIDE DEF PatchDaemonSet
    <3> QED BY <2>3, <3>1, <3>2, <3>3 DEF ChecksumInv
  <2>5. CASE pod.checksum # write[w].render
    <3>1. pod'.containers = write[w].render.containers BY <2>5, <1>p
    <3>2. write[w].render = RenderSensorManifests(base, stored) BY <1>b, <1>d
    <3> QED BY <2>3, <3>1, <3>2
  <2> QED BY <2>3, <2>4, <2>5
<1>3. CollectionTypeOK' /\ Answer(w, "ok")
  <2>1. \A v \in Writers : write'[v].pc \in {"idle", "save", "render", "maps"}
    BY DEF Answer, CollectionInv, CollectionTypeOK, WriteTypeOK, NoWrite
  <2>2. drift' \in {"no", "yes", "late"} BY <1>d
  <2> QED BY <2>1, <2>2, <1>a DEF Answer, CollectionInv, CollectionTypeOK
<1>4. maps' = [s \in SignalSet |-> maps'[s]]
  BY <1>a DEF CollectionInv, WriteTypeOK
<1> QED BY <1>a, <1>1, <1>2, <1>3, <1>4, AnswerKeepsInv

\* A request that fails anywhere, or dies with the hub.
LEMMA FailureKeepsInv ==
    ASSUME CollectionInv, NEW w \in Writers, SaveFails(w) \/ ApplyFails(w) \/ ApplyStops(w)
    PROVE  CollectionInv'
<1> USE DEF cluster
<1>1. /\ write[w].pc # "idle" /\ Answer(w, "error") /\ base' = base /\ drift' = drift
      /\ stored' \in {stored, write[w].overlay}
      /\ pod' \in {pod, [containers |-> write[w].render.containers, checksum |-> write[w].render]}
      /\ \/ maps' = maps
         \/ maps' = [maps EXCEPT ![Head(write[w].left)] = write[w].render.maps[Head(write[w].left)]]
  BY DEF SaveFails, ApplyFails, ApplyStops
<1>2. write[w].overlay \in Overlays /\ maps = [s \in SignalSet |-> maps[s]]
  BY DEF CollectionInv, WriteTypeOK, Requests
<1>3. \A v \in Writers : write'[v].pc \in {"idle", "save", "render", "maps"}
  BY <1>1 DEF Answer, CollectionInv, CollectionTypeOK, WriteTypeOK, NoWrite
<1>4. CollectionTypeOK'
  BY <1>1, <1>2, <1>3 DEF Answer, CollectionInv, CollectionTypeOK
<1>5. ChecksumInv'
  BY <1>1 DEF CollectionInv, ChecksumInv
<1>6. maps' = [s \in SignalSet |-> maps'[s]]
  BY <1>1, <1>2
<1> QED BY <1>1, <1>4, <1>5, <1>6, AnswerKeepsInv

\* The hub dies, and its mutex with it.
LEMMA DeathKeepsInv == ASSUME CollectionInv, HubDies PROVE CollectionInv'
<1> USE DEF HubDies, cluster
<1>0. holder \in Writers
  BY DEF CollectionInv, CollectionTypeOK
<1>1. UNCHANGED <<stored, base, maps, pod, drift, writes>> /\ Answer(holder, "error")
  OBVIOUS
<1>2. WriteTypeOK' /\ \A v \in Writers : write'[v].pc = "idle"
  <2>3. \A v \in Writers : v # holder => write[v].pc = "idle"
    BY DEF CollectionInv, MutexInv
  <2>5. write' = [write EXCEPT ![holder] = NoWrite] BY DEF Answer
  <2> HIDE DEF HubDies
  <2> QED BY <1>0, <1>1, <2>3, <2>5, RequestShape DEF CollectionInv, WriteTypeOK
<1>3. CollectionTypeOK'
  BY <1>1, <1>2 DEF Answer, CollectionInv, CollectionTypeOK
<1>4. MutexInv' /\ ApplyInv'
  <2> HIDE DEF HubDies
  <2> QED BY <1>2 DEF MutexInv, ApplyInv
<1>5. ChecksumInv' /\ SensorsFollow'
  BY <1>1 DEF Answer, CollectionInv, ChecksumInv, SensorsFollow
<1> QED BY <1>2, <1>3, <1>4, <1>5 DEF CollectionInv

\* Others change the cluster: what is under way no longer counts on it.
LEMMA OutsideKeepsInv == ASSUME CollectionInv, ChangedOutside PROVE CollectionInv'
<1>1. /\ drift' = "late" /\ UNCHANGED <<stored, holder, write, answered>> /\ base' \in Bases
      /\ maps' = [s \in SignalSet |-> maps'[s]]
  BY DEF ChangedOutside, RenderSensorManifests
<1>2. WriteTypeOK' BY <1>1 DEF CollectionInv, WriteTypeOK
<1>3. CollectionTypeOK' /\ MutexInv' BY <1>1 DEF CollectionInv, CollectionTypeOK, MutexInv
<1>4. ApplyInv' BY <1>1 DEF CollectionInv, ApplyInv
<1>5. ChecksumInv' /\ SensorsFollow' BY <1>1 DEF ChecksumInv, SensorsFollow
<1> QED BY <1>2, <1>3, <1>4, <1>5 DEF CollectionInv

\* The invariant behind runtime control of collection: collectionMu lets one
\* write through at a time, it works from what it saved, what it has written is
\* what it rendered, and the annotation vouches for the containers.
THEOREM CollectionInvariant == CollectionSpec => []CollectionInv
<1>1. CollectionInit => CollectionInv
  BY CollectionStarts
<1>2. CollectionInv /\ [CollectionNext]_collectionVars => CollectionInv'
  <2> SUFFICES ASSUME CollectionInv, [CollectionNext]_collectionVars PROVE CollectionInv'
    OBVIOUS
  <2>1. CASE ChangedOutside BY <2>1, OutsideKeepsInv
  <2>2. CASE HubDies BY <2>2, DeathKeepsInv
  <2>3. ASSUME NEW w \in Writers, SaveCollectionOverlay(w) PROVE CollectionInv' BY <2>3, SaveKeepsInv
  <2>4. ASSUME NEW w \in Writers, SaveFails(w) \/ ApplyFails(w) \/ ApplyStops(w) PROVE CollectionInv'
    BY <2>4, FailureKeepsInv
  <2>5. ASSUME NEW w \in Writers, ApplyRenders(w) PROVE CollectionInv' BY <2>5, RenderKeepsInv
  <2>6. ASSUME NEW w \in Writers, ApplyConfigMap(w) PROVE CollectionInv' BY <2>6, MapKeepsInv
  <2>7. ASSUME NEW w \in Writers, PatchDaemonSet(w) PROVE CollectionInv' BY <2>7, PatchKeepsInv
  <2>8. ASSUME NEW w \in Writers, NEW ov \in Overlays, LockForWrite(w, ov) PROVE CollectionInv'
    BY <2>8, LockKeepsInv
  <2>9. CASE UNCHANGED collectionVars
    <3>1. UNCHANGED <<stored, base, maps, pod, holder, write, answered, drift, writes>>
      BY <2>9 DEF collectionVars
    <3>2. CollectionTypeOK' /\ WriteTypeOK' BY <3>1 DEF CollectionInv, CollectionTypeOK, WriteTypeOK
    <3>3. MutexInv' /\ ChecksumInv' /\ SensorsFollow'
      BY <3>1 DEF CollectionInv, MutexInv, ChecksumInv, SensorsFollow
    <3>4. ApplyInv' BY <3>1 DEF CollectionInv, ApplyInv
    <3> QED BY <3>2, <3>3, <3>4 DEF CollectionInv
  <2> QED BY <2>1, <2>2, <2>3, <2>4, <2>5, <2>6, <2>7, <2>8, <2>9 DEF CollectionNext
<1> QED BY <1>1, <1>2, PTL DEF CollectionSpec

\* The sensors' objects follow the stored overlay (router.go:214), for every set
\* of signals, overlays, base values and concurrent writers.
THEOREM SensorsFollowHolds == CollectionSpec => []SensorsFollow
<1>1. CollectionInv => SensorsFollow
  BY DEF CollectionInv
<1> QED BY <1>1, CollectionInvariant, PTL

-----------------------------------------------------------------------------
\* What one window of an account's axis takes at most: its limit, and what was
\* being verified when it was reached.
Margin == MaxAcct + Cardinality(Logins) - 1

Verifying(a) == {w \in Logins : login[w] # NoAttempt /\ login[w][1] = a}

AcctWindows == [age : Nat, count : Nat]
History == [0 .. LoginWindow -> Nat]

\* A window win of an account and the failures F of its last ticks: those since
\* the window began are counted in it, those before it were in one more window.
Covers(win, F) ==
    /\ \A d \in 1 .. LoginWindow : F[d - 1] <= F[d]
    /\ win.count = 0 => F[LoginWindow] <= Margin
    /\ win.count > 0 => /\ F[LoginWindow] <= win.count + Margin
                        /\ \A d \in 0 .. LoginWindow : d < win.age => F[d] <= win.count

ThrottlesInv ==
    /\ accts \in [Accounts -> AcctWindows] /\ guesses \in [Accounts -> History]
    /\ login \in [Logins -> (Accounts \X IPs) \cup {NoAttempt}]
    /\ \A a \in Accounts : /\ accts[a].count + Cardinality(Verifying(a)) <= Margin
                           /\ Covers(accts[a], guesses[a])

\* The limits are positive.
LEMMA MarginIsNat == /\ Cardinality(Logins) \in Nat \ {0} /\ Margin \in Nat \ {0}
                     /\ Cardinality(Logins) <= Margin /\ LoginWindow \in Nat \ {0} /\ MaxAcct \in Nat \ {0}
<1>1. Cardinality(Logins) \in Nat BY ThrottlesAssumption, FS_CardinalityType
<1>2. Cardinality(Logins) # 0 BY ThrottlesAssumption, FS_EmptySet
<1>3. MaxAcct \in Nat \ {0} /\ LoginWindow \in Nat \ {0} BY ThrottlesAssumption
<1> QED BY <1>1, <1>2, <1>3 DEF Margin

\* Those being verified for an account are among the workers.
LEMMA VerifyingIsFinite ==
    ASSUME NEW S \in SUBSET Logins
    PROVE  IsFiniteSet(S) /\ Cardinality(S) \in Nat /\ Cardinality(S) <= Cardinality(Logins)
BY ThrottlesAssumption, FS_Subset, FS_CardinalityType

\* No window counts more than the margin.
LEMMA CountBounded ==
    ASSUME ThrottlesInv, NEW b \in Accounts
    PROVE  /\ accts[b].count \in Nat /\ Cardinality(Verifying(b)) \in Nat
           /\ accts[b].count + Cardinality(Verifying(b)) <= Margin /\ accts[b].count <= Margin
<1>1. accts[b].count \in Nat /\ accts[b].count + Cardinality(Verifying(b)) <= Margin
  BY DEF ThrottlesInv, AcctWindows
<1>2. Cardinality(Verifying(b)) \in Nat BY VerifyingIsFinite DEF Verifying
<1>3. \A c, v, m \in Nat : c + v <= m => c <= m OBVIOUS
<1> QED BY <1>1, <1>2, <1>3, MarginIsNat

\* pruneWindows, on one window.
LEMMA PrunedCovers ==
    ASSUME NEW win \in AcctWindows, NEW F \in History, Covers(win, F), win.count <= Margin
    PROVE  LET new == IF win.age > LoginWindow THEN NoWindow ELSE win IN
           new \in AcctWindows /\ Covers(new, F) /\ new.count <= win.count
<1>1. CASE win.age > LoginWindow
  <2>1. F[LoginWindow] <= Margin
    <3>1. F[LoginWindow] \in Nat /\ LoginWindow \in 0 .. LoginWindow BY MarginIsNat DEF History
    <3>2. win.count \in Nat BY DEF AcctWindows
    <3> QED BY <1>1, <3>1, <3>2, MarginIsNat DEF Covers
  <2> QED BY <1>1, <2>1 DEF Covers, NoWindow, AcctWindows
<1>2. CASE ~(win.age > LoginWindow)
  BY <1>2 DEF AcctWindows
<1> QED BY <1>1, <1>2

\* bump, on one window, with the failure it counts.
LEMMA BumpCovers ==
    ASSUME NEW win \in AcctWindows, NEW F \in History, Covers(win, F), win.count <= Margin
    PROVE  LET new == IF win.count = 0 \/ win.age > LoginWindow THEN [age |-> 0, count |-> 1]
                      ELSE [win EXCEPT !.count = @ + 1]
               G == [d \in 0 .. LoginWindow |-> F[d] + 1]
           IN  new \in AcctWindows /\ G \in History /\ Covers(new, G)
               /\ (new.count = 1 \/ new.count = win.count + 1)
<1> DEFINE G == [d \in 0 .. LoginWindow |-> F[d] + 1]
<1>1. \A d \in 0 .. LoginWindow : F[d] \in Nat /\ G[d] = F[d] + 1 BY DEF History
<1>2. G \in History /\ \A d \in 1 .. LoginWindow : G[d - 1] <= G[d]
  <2>1. G \in History BY <1>1 DEF History
  <2>2. ASSUME NEW d \in 1 .. LoginWindow PROVE G[d - 1] <= G[d]
    <3>1. d - 1 \in 0 .. LoginWindow /\ d \in 0 .. LoginWindow BY MarginIsNat
    <3>2. F[d - 1] <= F[d] BY DEF Covers
    <3> QED BY <1>1, <3>1, <3>2
  <2> QED BY <2>1, <2>2
<1>3. LoginWindow \in 0 .. LoginWindow BY MarginIsNat
<1>4. win.count \in Nat /\ win.age \in Nat BY DEF AcctWindows
<1> HIDE DEF G
<1>5. CASE win.count = 0 \/ win.age > LoginWindow
  <2> DEFINE new == [age |-> 0, count |-> 1]
  <2>1. F[LoginWindow] <= Margin BY <1>1, <1>3, <1>4, <1>5, MarginIsNat DEF Covers
  <2>2. G[LoginWindow] <= 1 + Margin BY <1>1, <1>3, <2>1, MarginIsNat
  <2>3. Covers(new, G) BY <1>2, <2>2 DEF Covers
  <2> QED BY <1>2, <1>5, <2>3 DEF AcctWindows, G
<1>6. CASE win.count > 0 /\ ~(win.age > LoginWindow)
  <2> DEFINE new == [win EXCEPT !.count = @ + 1]
  <2>1. new \in AcctWindows /\ new.count = win.count + 1 /\ new.age = win.age BY DEF AcctWindows
  <2> HIDE DEF new
  <2>2. G[LoginWindow] <= new.count + Margin
    BY <1>1, <1>3, <1>4, <1>6, <2>1, MarginIsNat DEF Covers
  <2>3. \A d \in 0 .. LoginWindow : d < new.age => G[d] <= new.count
    BY <1>1, <1>4, <1>6, <2>1 DEF Covers
  <2>4. Covers(new, G) BY <1>2, <1>4, <2>1, <2>2, <2>3 DEF Covers
  <2> QED BY <1>2, <1>4, <1>6, <2>1, <2>4 DEF new, G
<1> QED BY <1>4, <1>5, <1>6

\* A tick, on one window.
LEMMA TickCovers ==
    ASSUME NEW win \in AcctWindows, NEW F \in History, Covers(win, F), win.count <= Margin
    PROVE  LET new == IF win.count = 0 \/ win.age > LoginWindow THEN win ELSE [win EXCEPT !.age = @ + 1]
               G == [d \in 0 .. LoginWindow |-> IF d = 0 THEN 0 ELSE F[d - 1]]
           IN  new \in AcctWindows /\ G \in History /\ Covers(new, G) /\ new.count = win.count
<1> DEFINE new == IF win.count = 0 \/ win.age > LoginWindow THEN win ELSE [win EXCEPT !.age = @ + 1]
           G == [d \in 0 .. LoginWindow |-> IF d = 0 THEN 0 ELSE F[d - 1]]
<1>1. \A d \in 0 .. LoginWindow : F[d] \in Nat BY DEF History
<1>2. \A d \in 0 .. LoginWindow : d # 0 => d \in 1 .. LoginWindow /\ d - 1 \in 0 .. LoginWindow
  BY MarginIsNat
<1>3. G[0] = 0 /\ \A d \in 1 .. LoginWindow : G[d] = F[d - 1] BY MarginIsNat
<1>4. G \in History BY <1>1, <1>2 DEF History
<1>5. /\ new \in AcctWindows /\ new.count = win.count /\ new.age \in Nat /\ win.age \in Nat /\ win.count \in Nat
      /\ win.count > 0 => new.age <= win.age + 1
      /\ win.count > 0 /\ new.age # win.age + 1 => win.age > LoginWindow
  BY DEF AcctWindows
<1> HIDE DEF G, new
<1>6. \A d \in 1 .. LoginWindow : G[d - 1] <= G[d]
  <2> SUFFICES ASSUME NEW d \in 1 .. LoginWindow PROVE G[d - 1] <= G[d]
    OBVIOUS
  <2>1. CASE d = 1
    <3>1. 1 \in 1 .. LoginWindow /\ 0 \in 0 .. LoginWindow BY MarginIsNat
    <3> QED BY <1>1, <1>3, <2>1, <3>1
  <2>2. CASE d # 1
    <3>1. d - 1 \in 1 .. LoginWindow BY <2>2, MarginIsNat
    <3>2. F[(d - 1) - 1] <= F[d - 1] BY <3>1 DEF Covers
    <3> QED BY <1>3, <3>1, <3>2
  <2> QED BY <2>1, <2>2
<1>7. G[LoginWindow] = F[LoginWindow - 1] /\ F[LoginWindow - 1] <= F[LoginWindow]
      /\ LoginWindow \in 0 .. LoginWindow /\ LoginWindow - 1 \in 0 .. LoginWindow
  <2>1. LoginWindow \in 1 .. LoginWindow BY MarginIsNat
  <2> QED BY <1>2, <1>3, <2>1, MarginIsNat DEF Covers
<1>8. Covers(new, G)
  <2>1. CASE win.count = 0
    <3>1. G[LoginWindow] <= Margin BY <1>1, <1>7, <2>1, MarginIsNat DEF Covers
    <3> QED BY <1>5, <1>6, <2>1, <3>1 DEF Covers
  <2>2. CASE win.count > 0
    <3>1. G[LoginWindow] <= win.count + Margin BY <1>1, <1>5, <1>7, <2>2, MarginIsNat DEF Covers
    <3>2. ASSUME NEW d \in 0 .. LoginWindow, d < new.age PROVE G[d] <= win.count
      <4>1. CASE d = 0 BY <1>3, <1>5, <4>1
      <4>2. CASE d # 0
        <5>1. d - 1 < win.age BY <1>5, <2>2, <3>2, MarginIsNat
        <5>2. F[d - 1] <= win.count BY <1>2, <2>2, <4>2, <5>1 DEF Covers
        <5> QED BY <1>2, <1>3, <4>2, <5>2
      <4> QED BY <4>1, <4>2
    <3> QED BY <1>5, <1>6, <2>2, <3>1, <3>2 DEF Covers
  <2> QED BY <1>5, <2>1, <2>2
<1> QED BY <1>4, <1>5, <1>8 DEF G, new

\* An attempt is let through while the account's window has room for it.
LEMMA AttemptKeeps ==
    ASSUME ThrottlesInv, NEW w \in Logins, NEW a \in Accounts, NEW i \in IPs, Attempt(w, a, i)
    PROVE  ThrottlesInv'
<1>0. /\ accts' = Pruned(accts) /\ login' = [login EXCEPT ![w] = <<a, i>>] /\ login[w] = NoAttempt
      /\ guesses' = guesses /\ Pruned(accts)[a].count < MaxAcct
      /\ accts \in [Accounts -> AcctWindows] /\ guesses \in [Accounts -> History]
      /\ login \in [Logins -> (Accounts \X IPs) \cup {NoAttempt}]
  <2>1. ~(Pruned(accts)[a].count >= MaxAcct) /\ accts' = Pruned(accts) BY DEF Attempt, Blocked, Full
  <2>2. Pruned(accts)[a].count \in Nat BY DEF Pruned, ThrottlesInv, AcctWindows, NoWindow
  <2>3. Pruned(accts)[a].count < MaxAcct BY <2>1, <2>2, MarginIsNat
  <2> QED BY <2>3 DEF Attempt, ThrottlesInv
<1>1. login' \in [Logins -> (Accounts \X IPs) \cup {NoAttempt}] BY <1>0
<1>2. ASSUME NEW b \in Accounts
      PROVE  accts'[b] \in AcctWindows /\ Covers(accts'[b], guesses[b]) /\ accts'[b].count <= accts[b].count
  <2>1. accts[b] \in AcctWindows /\ guesses[b] \in History /\ Covers(accts[b], guesses[b]) BY <1>0 DEF ThrottlesInv
  <2>2. accts[b].count <= Margin BY CountBounded
  <2>3. accts'[b] = IF accts[b].age > LoginWindow THEN NoWindow ELSE accts[b] BY <1>0 DEF Pruned
  <2> QED BY <2>1, <2>2, <2>3, PrunedCovers
<1>3. accts' \in [Accounts -> AcctWindows]
  BY <1>0, <1>2 DEF Pruned
<1>4. ASSUME NEW b \in Accounts PROVE accts'[b].count + Cardinality(Verifying(b)') <= Margin
  <2>0. accts'[b].count \in Nat /\ accts[b].count \in Nat BY <1>0, <1>3 DEF AcctWindows
  <2>1. CASE b = a
    <3>1. accts'[b].count <= MaxAcct - 1 BY <1>0, <2>0, <2>1, MarginIsNat
    <3>2. Cardinality(Verifying(b)') \in Nat /\ Cardinality(Verifying(b)') <= Cardinality(Logins)
      BY VerifyingIsFinite DEF Verifying
    <3> QED BY <2>0, <3>1, <3>2, MarginIsNat DEF Margin
  <2>2. CASE b # a
    <3>1. Verifying(b)' = Verifying(b) BY <1>0, <2>2 DEF Verifying
    <3>2. Cardinality(Verifying(b)) \in Nat BY VerifyingIsFinite DEF Verifying
    <3>3. accts[b].count + Cardinality(Verifying(b)) <= Margin BY DEF ThrottlesInv
    <3> QED BY <1>2, <2>0, <3>1, <3>2, <3>3, MarginIsNat
  <2> QED BY <2>1, <2>2
<1> QED BY <1>0, <1>1, <1>2, <1>3, <1>4 DEF ThrottlesInv

\* One attempt less, or the same.
LEMMA VerdictFrees ==
    ASSUME ThrottlesInv, NEW w \in Logins, login[w] # NoAttempt, login' = [login EXCEPT ![w] = NoAttempt]
    PROVE  /\ login[w][1] \in Accounts /\ login' \in [Logins -> (Accounts \X IPs) \cup {NoAttempt}]
           /\ \A b \in Accounts :
                /\ Cardinality(Verifying(b)) \in Nat /\ Cardinality(Verifying(b)') \in Nat
                /\ Cardinality(Verifying(b)') = Cardinality(Verifying(b)) - (IF b = login[w][1] THEN 1 ELSE 0)
                /\ Cardinality(Verifying(b)) <= Cardinality(Logins)
<1>1. login[w][1] \in Accounts /\ login' \in [Logins -> (Accounts \X IPs) \cup {NoAttempt}]
  BY DEF ThrottlesInv
<1>2. ASSUME NEW b \in Accounts
      PROVE  /\ Cardinality(Verifying(b)) \in Nat /\ Cardinality(Verifying(b)') \in Nat
             /\ Cardinality(Verifying(b)') = Cardinality(Verifying(b)) - (IF b = login[w][1] THEN 1 ELSE 0)
             /\ Cardinality(Verifying(b)) <= Cardinality(Logins)
  <2>1. Verifying(b) \in SUBSET Logins /\ Verifying(b)' \in SUBSET Logins BY DEF Verifying
  <2>2. /\ IsFiniteSet(Verifying(b)) /\ Cardinality(Verifying(b)) \in Nat /\ Cardinality(Verifying(b)') \in Nat
        /\ Cardinality(Verifying(b)) <= Cardinality(Logins)
    BY <2>1, VerifyingIsFinite
  <2>3. CASE b = login[w][1]
    <3>1. w \in Verifying(b) /\ Verifying(b)' = Verifying(b) \ {w}
      BY <2>3 DEF Verifying, ThrottlesInv
    <3>2. Cardinality(Verifying(b) \ {w}) = Cardinality(Verifying(b)) - 1
      BY <2>2, <3>1, FS_RemoveElement
    <3> QED BY <2>2, <2>3, <3>1, <3>2
  <2>4. CASE b # login[w][1]
    <3>1. Verifying(b)' = Verifying(b) BY <2>4 DEF Verifying, ThrottlesInv
    <3> QED BY <2>2, <2>4, <3>1
  <2> QED BY <2>3, <2>4
<1> QED BY <1>1, <1>2

\* A failure moves from those being verified to those counted.
LEMMA FailKeeps == ASSUME ThrottlesInv, NEW w \in Logins, Fail(w) PROVE ThrottlesInv'
<1> DEFINE a == login[w][1]
<1>0. /\ login[w] # NoAttempt /\ login' = [login EXCEPT ![w] = NoAttempt]
      /\ accts' = Bump(accts, a)
      /\ guesses' = [guesses EXCEPT ![a] = [d \in 0 .. LoginWindow |-> guesses[a][d] + 1]]
      /\ accts \in [Accounts -> AcctWindows] /\ guesses \in [Accounts -> History]
  BY DEF Fail, ThrottlesInv
<1>1. /\ a \in Accounts /\ login' \in [Logins -> (Accounts \X IPs) \cup {NoAttempt}]
      /\ \A b \in Accounts :
           /\ Cardinality(Verifying(b)) \in Nat /\ Cardinality(Verifying(b)') \in Nat
           /\ Cardinality(Verifying(b)') = Cardinality(Verifying(b)) - (IF b = a THEN 1 ELSE 0)
           /\ Cardinality(Verifying(b)) <= Cardinality(Logins)
  BY <1>0, VerdictFrees
<1> HIDE DEF a
<1>2. ASSUME NEW b \in Accounts
      PROVE  /\ accts'[b] \in AcctWindows /\ guesses'[b] \in History /\ Covers(accts'[b], guesses'[b])
             /\ accts'[b].count + Cardinality(Verifying(b)') <= Margin
  <2>1. /\ accts[b] \in AcctWindows /\ guesses[b] \in History /\ Covers(accts[b], guesses[b])
        /\ accts[b].count + Cardinality(Verifying(b)) <= Margin
    BY <1>0 DEF ThrottlesInv
  <2>2. accts[b].count \in Nat /\ accts[b].count <= Margin BY <1>1, <2>1, MarginIsNat DEF AcctWindows
  <2>3. CASE b # a
    <3>1. accts'[b] = accts[b] /\ guesses'[b] = guesses[b] BY <1>0, <2>3 DEF Bump, Counted
    <3> QED BY <1>1, <2>1, <2>3, <3>1
  <2>4. CASE b = a
    <3>1. /\ accts'[b] = IF accts[b].count = 0 \/ accts[b].age > LoginWindow THEN [age |-> 0, count |-> 1]
                         ELSE [accts[b] EXCEPT !.count = @ + 1]
          /\ guesses'[b] = [d \in 0 .. LoginWindow |-> guesses[b][d] + 1]
      <4>1. /\ accts'[a] = IF accts[a].count = 0 \/ accts[a].age > LoginWindow THEN [age |-> 0, count |-> 1]
                           ELSE [accts[a] EXCEPT !.count = @ + 1]
        BY <1>0, <1>1 DEF Bump, Counted
      <4>2. guesses'[a] = [d \in 0 .. LoginWindow |-> guesses[a][d] + 1]
        BY <1>0, <1>1
      <4> QED BY <2>4, <4>1, <4>2
    <3>2. /\ accts'[b] \in AcctWindows /\ guesses'[b] \in History /\ Covers(accts'[b], guesses'[b])
          /\ accts'[b].count = 1 \/ accts'[b].count = accts[b].count + 1
      BY <2>1, <2>2, <3>1, BumpCovers
    <3> QED BY <1>1, <2>1, <2>2, <2>4, <3>2, MarginIsNat
  <2> QED BY <2>3, <2>4
<1>3. accts' \in [Accounts -> AcctWindows] /\ guesses' \in [Accounts -> History]
  BY <1>0, <1>2 DEF Bump, Counted
<1> QED BY <1>1, <1>2, <1>3 DEF ThrottlesInv

\* An attempt that does not fail is forgotten.
LEMMA SucceedKeeps == ASSUME ThrottlesInv, NEW w \in Logins, Succeed(w) PROVE ThrottlesInv'
<1>0. login[w] # NoAttempt /\ login' = [login EXCEPT ![w] = NoAttempt] /\ UNCHANGED <<accts, guesses>>
  BY DEF Succeed
<1>1. ASSUME NEW b \in Accounts PROVE accts[b].count + Cardinality(Verifying(b)') <= Margin
  <2>1. /\ accts[b].count \in Nat /\ Cardinality(Verifying(b)) \in Nat
        /\ accts[b].count + Cardinality(Verifying(b)) <= Margin
    BY CountBounded
  <2>2. /\ Cardinality(Verifying(b)') \in Nat
        /\ Cardinality(Verifying(b)') = Cardinality(Verifying(b)) - (IF b = login[w][1] THEN 1 ELSE 0)
    BY <1>0, VerdictFrees
  <2>3. \A c, v, n, m \in Nat : c + v <= m /\ (n = v \/ n = v - 1) => c + n <= m OBVIOUS
  <2>4. Cardinality(Verifying(b)') = Cardinality(Verifying(b)) \/ Cardinality(Verifying(b)') = Cardinality(Verifying(b)) - 1
    BY <2>1, <2>2
  <2> QED BY <2>1, <2>2, <2>3, <2>4, MarginIsNat
<1> QED BY <1>0, <1>1, VerdictFrees DEF ThrottlesInv

\* A tick ages every window and every failure.
LEMMA WindowsAge == ASSUME ThrottlesInv, Tick PROVE ThrottlesInv'
<1>0. /\ accts' = Older(accts) /\ login' = login
      /\ guesses' = [a \in Accounts |-> [d \in 0 .. LoginWindow |-> IF d = 0 THEN 0 ELSE guesses[a][d - 1]]]
      /\ accts \in [Accounts -> AcctWindows] /\ guesses \in [Accounts -> History]
  BY DEF Tick, ThrottlesInv
<1>1. ASSUME NEW b \in Accounts
      PROVE  /\ accts'[b] \in AcctWindows /\ guesses'[b] \in History /\ Covers(accts'[b], guesses'[b])
             /\ accts'[b].count = accts[b].count
  <2>1. accts[b] \in AcctWindows /\ guesses[b] \in History /\ Covers(accts[b], guesses[b]) BY <1>0 DEF ThrottlesInv
  <2>2. accts[b].count <= Margin BY CountBounded
  <2>3. /\ accts'[b] = IF accts[b].count = 0 \/ accts[b].age > LoginWindow THEN accts[b]
                       ELSE [accts[b] EXCEPT !.age = @ + 1]
        /\ guesses'[b] = [d \in 0 .. LoginWindow |-> IF d = 0 THEN 0 ELSE guesses[b][d - 1]]
    BY <1>0 DEF Older
  <2> QED BY <2>1, <2>2, <2>3, TickCovers
<1>2. accts' \in [Accounts -> AcctWindows] /\ guesses' \in [Accounts -> History]
  BY <1>0, <1>1 DEF Older
<1>3. \A b \in Accounts : Verifying(b)' = Verifying(b) BY <1>0 DEF Verifying
<1> QED BY <1>0, <1>1, <1>2, <1>3 DEF ThrottlesInv

\* The limiter's books about an account cover its failures: what is counted and
\* what is being verified stays within the margin, and failures of the last
\* LoginWindow that are not in the current window are in one before it.
THEOREM ThrottlesInvariant == ThrottlesSpec => []ThrottlesInv
<1>1. ThrottlesInit => ThrottlesInv
  <2> SUFFICES ASSUME ThrottlesInit PROVE ThrottlesInv
    OBVIOUS
  <2>1. \A a \in Accounts : Verifying(a) = {} BY DEF ThrottlesInit, Verifying
  <2>2. /\ accts \in [Accounts -> AcctWindows] /\ guesses \in [Accounts -> History]
        /\ login \in [Logins -> (Accounts \X IPs) \cup {NoAttempt}]
    BY DEF ThrottlesInit, AcctWindows, History, NoWindow
  <2>3. ASSUME NEW a \in Accounts
        PROVE  accts[a].count + Cardinality(Verifying(a)) <= Margin /\ Covers(accts[a], guesses[a])
    <3>1. accts[a].count = 0 /\ \A d \in 0 .. LoginWindow : guesses[a][d] = 0
      BY DEF ThrottlesInit, NoWindow
    <3>2. Cardinality(Verifying(a)) = 0 BY <2>1, FS_EmptySet
    <3>3. \A d \in 1 .. LoginWindow : d - 1 \in 0 .. LoginWindow /\ d \in 0 .. LoginWindow BY MarginIsNat
    <3>4. LoginWindow \in 0 .. LoginWindow BY MarginIsNat
    <3> QED BY <3>1, <3>2, <3>3, <3>4, MarginIsNat DEF Covers
  <2> QED BY <2>2, <2>3 DEF ThrottlesInv
<1>2. ThrottlesInv /\ [ThrottlesNext]_throttlesVars => ThrottlesInv'
  <2>1. ThrottlesInv /\ UNCHANGED throttlesVars => ThrottlesInv'
    BY DEF throttlesVars, ThrottlesInv, Verifying
  <2> QED BY <2>1, AttemptKeeps, FailKeeps, SucceedKeeps, WindowsAge DEF ThrottlesNext
<1> QED BY <1>1, <1>2, PTL DEF ThrottlesSpec

\* However many workers, addresses and accounts: an account fails within any
\* loginWindow at most twice as often as one of its windows takes (blocked and
\* fail, ratelimit.go).
THEOREM GuessesBoundedHolds == ThrottlesSpec => []GuessesBounded
<1>1. ThrottlesInv => GuessesBounded
  <2> SUFFICES ASSUME ThrottlesInv, NEW a \in Accounts PROVE guesses[a][LoginWindow] <= 2 * Margin
    BY DEF GuessesBounded, Margin
  <2>1. /\ accts[a].count \in Nat /\ guesses[a][LoginWindow] \in Nat /\ Cardinality(Verifying(a)) \in Nat
    BY MarginIsNat, VerifyingIsFinite DEF ThrottlesInv, AcctWindows, History, Verifying
  <2>2. accts[a].count + Cardinality(Verifying(a)) <= Margin /\ Covers(accts[a], guesses[a])
    BY DEF ThrottlesInv
  <2>3. accts[a].count <= Margin BY <2>1, <2>2, MarginIsNat
  <2>4. guesses[a][LoginWindow] <= accts[a].count + Margin
    BY <2>1, <2>2, MarginIsNat DEF Covers
  <2> QED BY <2>1, <2>3, <2>4, MarginIsNat
<1> QED BY <1>1, ThrottlesInvariant, PTL
-----------------------------------------------------------------------------
(* The group mapping.                                                      *)

\* A merge of readable rules is a list of rules that parse.
LEMMA MergedRules ==
    ASSUME NEW cfg \in [OidcGroups -> Parsed \cup {NoRule}], NEW db \in Rules
    PROVE  MergeMapping(cfg, db) \subseteq
             [group : OidcGroups, role : Parsed, source : {"config", "db"}, shadowed : BOOLEAN]
<1>1. \A g \in OidcGroups : cfg[g] # NoRule => cfg[g] \in Parsed OBVIOUS
<1>2. \A g \in OidcGroups, b \in BOOLEAN : cfg[g] # NoRule =>
        [group |-> g, role |-> cfg[g], source |-> "config", shadowed |-> b]
          \in [group : OidcGroups, role : Parsed, source : {"config", "db"}, shadowed : BOOLEAN]
  BY <1>1
<1>3. \A g \in OidcGroups, b \in BOOLEAN : db[g] \in Parsed =>
        [group |-> g, role |-> db[g], source |-> "db", shadowed |-> b]
          \in [group : OidcGroups, role : Parsed, source : {"config", "db"}, shadowed : BOOLEAN]
  OBVIOUS
<1>4. \A g \in OidcGroups : (cfg[g] # NoRule) \in BOOLEAN OBVIOUS
<1>5. SUFFICES ASSUME NEW m \in MergeMapping(cfg, db)
      PROVE m \in [group : OidcGroups, role : Parsed, source : {"config", "db"}, shadowed : BOOLEAN]
  OBVIOUS
<1>6. CASE \E g \in OidcGroups : /\ cfg[g] # NoRule
                                 /\ m = [group |-> g, role |-> cfg[g], source |-> "config", shadowed |-> FALSE]
  BY <1>2, <1>6, Zenon
<1>7. CASE \E g \in OidcGroups : /\ db[g] \in Parsed
                                 /\ m = [group |-> g, role |-> db[g], source |-> "db", shadowed |-> cfg[g] # NoRule]
  BY <1>3, <1>4, <1>7, Zenon
<1>8. QED BY <1>6, <1>7 DEF MergeMapping

\* The chart, the table, the snapshot and what the refreshers hold stay well
\* typed; in particular every role the snapshot grants parses, whatever the table
\* holds (mapping.go, MergeMapping).
THEOREM MappingsType == MappingsFairSpec => []MappingsTypeOK
<1>1. NoRules \in Rules BY DEF NoRules, Rules
<1>2. Nothing \in [chart : Declared \cup {NoRules}, rules : Rules] BY <1>1 DEF Nothing
<1>3. MappingsInit => MappingsTypeOK
  BY <1>2, MappingsAssumption DEF MappingsInit, MappingsTypeOK, Refreshers
<1>4. ASSUME MappingsTypeOK, [MappingsNext]_mappingsVars PROVE MappingsTypeOK'
  <2> USE <1>4 DEF MappingsTypeOK
  <2>0. ASSUME Change PROVE changes' \in 0 .. MaxChanges BY <2>0, MappingsAssumption DEF Change
  <2>1. ASSUME NEW w \in Refreshers, NEW l \in {"idle", "tombstone", "load", "query", "swap"}, Turn(w, l)
        PROVE  at' \in [Refreshers -> {"idle", "tombstone", "load", "query", "swap"}]
    BY <2>1 DEF Turn
  <2>2. Poll \in Refreshers /\ Authors \subseteq Refreshers BY DEF Refreshers
  <2>3. CASE HubComesUp BY <2>3, <2>0, <1>2 DEF HubComesUp
  <2>4. CASE StoreConnects BY <2>4 DEF StoreConnects
  <2>5. CASE PollTick BY <2>5, <2>0, <2>1, <2>2 DEF PollTick
  <2>6. CASE WrittenElsewhere BY <2>6, <2>0 DEF WrittenElsewhere, Rules
  <2>7. ASSUME NEW w \in Refreshers, RefreshLoads(w) PROVE MappingsTypeOK'
    BY <2>7, <2>1, <1>1 DEF RefreshLoads
  <2>8. ASSUME NEW w \in Refreshers, RefreshReads(w) PROVE MappingsTypeOK'
    BY <2>8, <2>1 DEF RefreshReads
  <2>9. ASSUME NEW w \in Refreshers, RefreshFails(w) PROVE MappingsTypeOK'
    BY <2>9, <2>1, <1>2 DEF RefreshFails
  <2>10. ASSUME NEW w \in Refreshers, RefreshSwaps(w) PROVE MappingsTypeOK'
    <3>1. held[w].chart \in [OidcGroups -> Parsed \cup {NoRule}] /\ held[w].rules \in Rules
      BY MappingsAssumption DEF NoRules
    <3>2. snapshot' \subseteq [group : OidcGroups, role : Parsed, source : {"config", "db"}, shadowed : BOOLEAN]
      BY <2>10, <3>1, MergedRules DEF RefreshSwaps
    <3>3. QED BY <2>10, <2>1, <1>2, <3>2 DEF RefreshSwaps
  <2>11. ASSUME NEW w \in Authors, Reset(w) PROVE MappingsTypeOK'
    BY <2>11, <2>1, <2>2 DEF Reset
  <2>12. ASSUME NEW w \in Authors, NEW g \in OidcGroups, Delete(w, g) PROVE MappingsTypeOK'
    BY <2>12, <2>1, <2>2 DEF Delete
  <2>13. ASSUME NEW w \in Authors, NEW g \in OidcGroups, Tombstone(w, g) PROVE MappingsTypeOK'
    BY <2>13, <2>0, <2>1, <2>2 DEF Tombstone, Rules
  <2>14. ASSUME NEW w \in Authors, NEW g \in OidcGroups, TombstoneFails(w, g) PROVE MappingsTypeOK'
    BY <2>14, <2>0, <2>1, <2>2 DEF TombstoneFails, Rules
  <2>15. ASSUME NEW w \in Authors, NEW g \in OidcGroups, NEW r \in Parsed, Upsert(w, g, r)
         PROVE  MappingsTypeOK'
    BY <2>15, <2>0, <2>1, <2>2 DEF Upsert, Rules
  <2>16. ASSUME NEW w \in Authors, NEW g \in OidcGroups, NEW r \in Parsed, UpsertLost(w, g, r)
         PROVE  MappingsTypeOK'
    BY <2>16, <2>0, <2>1, <2>2 DEF UpsertLost, Rules
  <2>17. CASE UNCHANGED mappingsVars BY <2>17 DEF mappingsVars
  <2>18. QED
    BY <1>4, <2>3, <2>4, <2>5, <2>6, <2>7, <2>8, <2>9, <2>10, <2>11, <2>12, <2>13, <2>14, <2>15, <2>16, <2>17
    DEF MappingsNext
<1>5. QED BY <1>3, <1>4, PTL DEF MappingsFairSpec

\* The merge is in force, and whatever a refresh under way has read is current.
MappingSettled ==
    /\ connected = "yes" /\ snapshot = MergeMapping(chart, rules)
    /\ \A w \in Refreshers :
         /\ at[w] \in {"query", "swap"} => held[w].chart = chart
         /\ at[w] = "swap" => held[w].rules = rules

\* What a merge of the chart and the table grants is what the groups earn: the
\* chart's rule hides an admin's, a role that does not parse counts for nothing,
\* and the default only stands in where no rule applies.
LEMMA MergeEarns ==
    ASSUME MappingsTypeOK, snapshot = MergeMapping(chart, rules), NEW groups \in SUBSET OidcGroups, NEW default
    PROVE  GrantsFor(snapshot, groups, default) = Earned(groups, default)
<1> DEFINE says(g) == IF chart[g] # NoRule THEN chart[g] ELSE rules[g]
           matched == {m \in snapshot : ~m.shadowed /\ m.group \in groups}
<1>1. chart \in [OidcGroups -> Parsed \cup {NoRule}] /\ rules \in Rules /\ NoRule \notin Parsed
  BY MappingsAssumption DEF MappingsTypeOK
<1>2. ASSUME NEW m \in matched
      PROVE  says(m.group) \in Parsed /\ m.role = says(m.group) /\ m.group \in groups
  <2>1. CASE \E g \in OidcGroups : /\ chart[g] # NoRule
                                   /\ m = [group |-> g, role |-> chart[g], source |-> "config", shadowed |-> FALSE]
    <3>1. PICK g \in OidcGroups : /\ chart[g] # NoRule
                                  /\ m = [group |-> g, role |-> chart[g], source |-> "config", shadowed |-> FALSE]
      BY <2>1
    <3>2. m.group = g /\ m.role = chart[g] /\ chart[g] \in Parsed BY <1>1, <3>1
    <3>3. QED BY <3>1, <3>2
  <2>2. CASE \E g \in OidcGroups : /\ rules[g] \in Parsed
                                   /\ m = [group |-> g, role |-> rules[g], source |-> "db", shadowed |-> chart[g] # NoRule]
    <3>1. PICK g \in OidcGroups : /\ rules[g] \in Parsed
                                  /\ m = [group |-> g, role |-> rules[g], source |-> "db", shadowed |-> chart[g] # NoRule]
      BY <2>2
    <3>2. m.group = g /\ m.role = rules[g] /\ m.shadowed = (chart[g] # NoRule) BY <3>1
    <3>3. chart[g] = NoRule BY <3>2
    <3>4. QED BY <3>1, <3>2, <3>3
  <2>3. QED BY <2>1, <2>2 DEF MergeMapping
<1>3. ASSUME NEW g \in groups, says(g) \in Parsed PROVE \E m \in matched : m.role = says(g)
  <2>1. CASE chart[g] # NoRule
    <3>1. [group |-> g, role |-> chart[g], source |-> "config", shadowed |-> FALSE] \in matched
      BY <2>1 DEF MergeMapping
    <3>2. QED BY <2>1, <3>1
  <2>2. CASE chart[g] = NoRule
    <3>1. [group |-> g, role |-> rules[g], source |-> "db", shadowed |-> FALSE] \in matched
      <4>1. rules[g] \in Parsed BY <1>3, <2>2
      <4>2. [group |-> g, role |-> rules[g], source |-> "db", shadowed |-> chart[g] # NoRule] \in snapshot
        BY <4>1 DEF MergeMapping
      <4>3. (chart[g] # NoRule) = FALSE BY <2>2
      <4>4. QED BY <4>2, <4>3
    <3>2. QED BY <2>2, <3>1
  <2>3. QED BY <2>1, <2>2
<1> HIDE DEF says, matched
<1>4. {m.role : m \in matched} = {says(g) : g \in groups} \cap Parsed BY <1>2, <1>3
<1>5. matched = {} <=> {m.role : m \in matched} = {} OBVIOUS
<1>6. QED BY <1>4, <1>5 DEF GrantsFor, Earned, says, matched

\* ... and an admin sees every row, those the merge dropped among them.
LEMMA SettledIsRight == MappingsTypeOK /\ MappingSettled => MappingRight
<1> SUFFICES ASSUME MappingsTypeOK, MappingSettled PROVE MappingRight OBVIOUS
<1>1. snapshot = MergeMapping(chart, rules) BY DEF MappingSettled
<1>2. \A groups \in SUBSET OidcGroups :
        GrantsFor(snapshot, groups, {"default"}) = Earned(groups, {"default"})
  BY <1>1, MergeEarns
<1>3. {m.group : m \in {x \in snapshot : x.source = "db"}} = {g \in OidcGroups : rules[g] \in Parsed}
  <2>1. \A m \in snapshot : m.source = "db" => m.group \in OidcGroups /\ rules[m.group] \in Parsed
    BY <1>1 DEF MergeMapping
  <2>2. \A g \in OidcGroups : rules[g] \in Parsed =>
          [group |-> g, role |-> rules[g], source |-> "db", shadowed |-> chart[g] # NoRule] \in snapshot
    BY <1>1 DEF MergeMapping
  <2>3. ASSUME NEW g \in OidcGroups, rules[g] \in Parsed
        PROVE  \E m \in snapshot : m.source = "db" /\ m.group = g
    BY <2>2, <2>3
  <2>4. QED BY <2>1, <2>3
<1>4. \A g \in OidcGroups : rules[g] # NoRule <=> rules[g] \in Parsed \/ rules[g] \in Retired
  BY MappingsAssumption DEF MappingsTypeOK, Rules
<1>5. QED BY <1>2, <1>3, <1>4 DEF MappingRight, listed

\* Without a change, no refresh, request or failure unsettles it: a refresh that
\* fails leaves the snapshot in force, one that succeeds stores the same again.
LEMMA SettledStays ==
    ASSUME MappingsTypeOK, MappingSettled, [MappingsNext]_mappingsVars, changes' = changes
    PROVE  MappingSettled'
<1>0. ~Change BY DEF Change, MappingsTypeOK
<1> USE DEF MappingSettled
<1>1. CASE HubComesUp BY <1>0, <1>1 DEF HubComesUp
<1>2. CASE StoreConnects BY <1>2 DEF StoreConnects
<1>3. CASE PollTick BY <1>0, <1>3 DEF PollTick, Turn, MappingsTypeOK
<1>4. CASE WrittenElsewhere BY <1>0, <1>4 DEF WrittenElsewhere
<1>5. ASSUME NEW w \in Refreshers, RefreshLoads(w) PROVE MappingSettled'
  BY <1>5 DEF RefreshLoads, Turn, MappingsTypeOK
<1>6. ASSUME NEW w \in Refreshers, RefreshReads(w) PROVE MappingSettled'
  BY <1>6 DEF RefreshReads, Turn, MappingsTypeOK
<1>7. ASSUME NEW w \in Refreshers, RefreshFails(w) PROVE MappingSettled'
  BY <1>7 DEF RefreshFails, Turn, MappingsTypeOK
<1>8. ASSUME NEW w \in Refreshers, RefreshSwaps(w) PROVE MappingSettled'
  BY <1>8 DEF RefreshSwaps, Turn, MappingsTypeOK
<1>9. ASSUME NEW w \in Authors, Reset(w) PROVE MappingSettled'
  BY <1>9 DEF Reset, Turn, MappingsTypeOK
<1>10. ASSUME NEW w \in Authors, NEW g \in OidcGroups,
              Delete(w, g) \/ Tombstone(w, g) \/ TombstoneFails(w, g)
       PROVE  MappingSettled'
  BY <1>0, <1>10 DEF Delete, Tombstone, TombstoneFails, Turn, MappingsTypeOK
<1>11. ASSUME NEW w \in Authors, NEW g \in OidcGroups, NEW r \in Parsed, Upsert(w, g, r) \/ UpsertLost(w, g, r)
       PROVE  MappingSettled'
  BY <1>0, <1>11 DEF Upsert, UpsertLost
<1>12. CASE UNCHANGED mappingsVars BY <1>12 DEF mappingsVars
<1>13. QED BY <1>1, <1>2, <1>3, <1>4, <1>5, <1>6, <1>7, <1>8, <1>9, <1>10, <1>11, <1>12 DEF MappingsNext

\* The safety half of MappingConverges: a mapping that has settled is right, and
\* stays so until something is written, the file changes or the hub restarts,
\* whatever refreshes and requests overlap, fail or are answered late
\* (mappingcache.go, Refresh).
THEOREM RightMappingStays ==
    MappingsFairSpec =>
        /\ [](MappingSettled => MappingRight)
        /\ [][MappingSettled /\ changes' = changes => MappingSettled']_mappingsVars
<1>1. MappingsTypeOK /\ [MappingsNext]_mappingsVars =>
        [MappingSettled /\ changes' = changes => MappingSettled']_mappingsVars
  BY SettledStays
<1>2. QED BY <1>1, MappingsType, SettledIsRight, PTL DEF MappingsFairSpec
================================================================================
