----------------------------- MODULE Health_proofs -----------------------------
(***************************************************************************)
(* Proofs about the parts of service health: the service groups for any    *)
(* number of requests, names and writes (GroupResolver), and the checks    *)
(* and the board they end on, for any checks, services, traffic and        *)
(* configurations (CheckScheduler, HealthRollup).                          *)
(***************************************************************************)
EXTENDS GroupResolver, CheckScheduler, FiniteSetTheorems, WellFoundedInduction, TLAPS

State(v) == IF v = NoGroup THEN "absent" ELSE "present"

WriteOps == {"create", "update", "delete"}

\* What the proof needs to know of the types.
Shapes ==
    /\ table \in Tables /\ ver \in Nat
    /\ stage \in [Clients -> {"idle", "list", "save", "count", "tombstone", "drop"}]
    /\ req \in [Clients -> Writes \cup {Read}]
    /\ snap \in [Clients -> Tables] /\ snapVer \in [Clients -> Int]
    /\ seen \in [Clients -> SUBSET {"absent", "present"}]

\* Which requests are where.
PlaceInv ==
    \A p \in Clients :
        /\ stage[p] = "idle" => req[p] = Read /\ snapVer[p] = -1
        /\ stage[p] = "list" => req[p] = Read \/ req[p].op \in {"create", "update"}
        /\ stage[p] = "save" => req[p] # Read /\ req[p].op \in {"create", "update"}
        /\ stage[p] \in {"count", "tombstone"} => req[p] # Read /\ req[p].op = "delete"
        /\ stage[p] = "drop" => req[p] # Read

\* A write in flight has lived through the current state of its name, and
\* through the one its snapshot shows.
LiveInv ==
    \A p \in Clients :
        req[p] # Read =>
            /\ stage[p] # "drop" => State(table[req[p].name]) \in seen[p]
            /\ stage[p] = "list" /\ snapVer[p] # -1 => State(snap[p][req[p].name]) \in seen[p]

ResolverInv == Shapes /\ PlaceInv /\ LiveInv /\ DecidesOnLiveView

\* What a write asks for.
LEMMA WriteShape ==
    ASSUME NEW r \in Writes
    PROVE  /\ r.name \in Names /\ r.op \in WriteOps
           /\ r.op # "delete" => r.value \in Values
BY DEF Writes, WriteOps

\* A read is none of the writes.
LEMMA ReadIsNoWrite == Read \notin Writes
BY DEF Writes, Read

-----------------------------------------------------------------------------
\* A request ends: it no longer has anything to answer for.
LEMMA ReturnStep ==
    ASSUME ResolverInv, NEW p \in Clients, Return(p), UNCHANGED <<table, ver>>
    PROVE  ResolverInv'
<1>1. Empty \in Tables BY DEF Empty, Tables
<1>2. Shapes' BY <1>1 DEF ResolverInv, Shapes, Return
<1>3. /\ stage'[p] = "idle" /\ req'[p] = Read /\ snapVer'[p] = -1
      /\ \A q \in Clients : q # p => stage'[q] = stage[q] /\ req'[q] = req[q] /\ snap'[q] = snap[q]
                                     /\ snapVer'[q] = snapVer[q] /\ seen'[q] = seen[q]
  BY DEF ResolverInv, Shapes, Return
<1>4. PlaceInv' BY <1>3 DEF ResolverInv, PlaceInv
<1>5. LiveInv' BY <1>3 DEF ResolverInv, LiveInv, State
<1>6. DecidesOnLiveView' BY <1>3 DEF ResolverInv, DecidesOnLiveView
<1>7. QED BY <1>2, <1>4, <1>5, <1>6 DEF ResolverInv

\* A row is inserted: everyone it concerns lives through it.
LEMMA InsertStep ==
    ASSUME ResolverInv, NEW p \in Clients, stage[p] \in {"save", "tombstone"}, Insert(p),
           NEW l \in {"idle", "drop"},
           stage' = [stage EXCEPT ![p] = l],
           IF l = "idle" THEN /\ req' = [req EXCEPT ![p] = Read]
                              /\ snap' = [snap EXCEPT ![p] = Empty]
                              /\ snapVer' = [snapVer EXCEPT ![p] = -1]
                         ELSE UNCHANGED <<req, snap, snapVer>>,
           seen' \in [Clients -> SUBSET {"absent", "present"}],
           \A q \in Clients : q # p => seen'[q] = Witnessed(p, q)
    PROVE  ResolverInv'
<1>1. req[p] \in Writes BY DEF ResolverInv, PlaceInv, Shapes
<1>2. req[p].name \in Names /\ req[p].op \in WriteOps
      /\ (req[p].op # "delete" => req[p].value \in Values)
  BY <1>1, WriteShape
<1>3. Row(p) \in Values \cup {NoGroup}
      /\ State(Row(p)) = IF req[p].op = "delete" THEN "absent" ELSE "present"
  BY <1>2, ResolverAssumption DEF Row, State
<1>4. table' \in Tables BY <1>2, <1>3 DEF Insert, ResolverInv, Shapes, Tables
<1>5. Empty \in Tables BY DEF Empty, Tables
<1>6. Shapes'
  <2>1. ver' \in Nat BY DEF Insert, ResolverInv, Shapes
  <2>2. CASE l = "idle"
    <3>1. req' \in [Clients -> Writes \cup {Read}] BY <2>2 DEF ResolverInv, Shapes
    <3>2. snap' \in [Clients -> Tables] BY <1>5, <2>2 DEF ResolverInv, Shapes
    <3>3. snapVer' \in [Clients -> Int] BY <2>2 DEF ResolverInv, Shapes
    <3>4. stage' \in [Clients -> {"idle", "list", "save", "count", "tombstone", "drop"}]
      BY DEF ResolverInv, Shapes
    <3>5. QED BY <1>4, <2>1, <3>1, <3>2, <3>3, <3>4 DEF Shapes
  <2>3. CASE l = "drop" BY <1>4, <2>1, <2>3 DEF ResolverInv, Shapes
  <2>4. QED BY <2>2, <2>3
<1>7. /\ stage'[p] = l /\ (l = "idle" => req'[p] = Read /\ snapVer'[p] = -1) /\ (l = "drop" => req'[p] = req[p])
      /\ \A q \in Clients : q # p => stage'[q] = stage[q] /\ req'[q] = req[q] /\ snap'[q] = snap[q]
                                     /\ snapVer'[q] = snapVer[q]
  BY DEF ResolverInv, Shapes
<1>8. PlaceInv' BY <1>1, <1>7, ReadIsNoWrite DEF ResolverInv, PlaceInv
<1>9. \A q \in Clients : q # p => seen[q] \subseteq seen'[q] BY DEF Witnessed
<1>10. LiveInv'
  <2> SUFFICES ASSUME NEW q \in Clients, req'[q] # Read
               PROVE  /\ stage'[q] # "drop" => State(table'[req'[q].name]) \in seen'[q]
                      /\ stage'[q] = "list" /\ snapVer'[q] # -1 => State(snap'[q][req'[q].name]) \in seen'[q]
    BY DEF LiveInv, State
  <2>1. CASE q = p BY <2>1, <1>7
  <2>2. CASE q # p
    <3>1. req[q] \in Writes /\ req[q].name \in Names BY <2>2, <1>7, WriteShape DEF ResolverInv, Shapes
    <3>2. CASE req[q].name = req[p].name
      <4>1. table'[req[q].name] = Row(p) BY <3>1, <3>2 DEF Insert, ResolverInv, Shapes, Tables
      <4>2. State(Row(p)) \in seen'[q] BY <2>2, <3>2, <1>3, <1>7 DEF Witnessed
      <4>3. QED BY <2>2, <4>1, <4>2, <1>7, <1>9 DEF ResolverInv, LiveInv
    <3>3. CASE req[q].name # req[p].name
      <4>1. table'[req[q].name] = table[req[q].name] BY <3>1, <3>3 DEF Insert, ResolverInv, Shapes, Tables
      <4>2. QED BY <2>2, <4>1, <1>7, <1>9 DEF ResolverInv, LiveInv
    <3>4. QED BY <3>2, <3>3
  <2>3. QED BY <2>1, <2>2
<1>11. DecidesOnLiveView' BY <1>7, <1>9 DEF ResolverInv, DecidesOnLiveView
<1>12. QED BY <1>6, <1>8, <1>10, <1>11 DEF ResolverInv

\* A snapshot goes into the memo, and a write passes the check on it.
LEMMA FillStep ==
    ASSUME ResolverInv, NEW p \in Clients, FillMemo(p), req[p] # Read, ~Refused(p)
    PROVE  ResolverInv'
<1>1. /\ stage[p] = "list" /\ snapVer[p] # -1 /\ stage' = [stage EXCEPT ![p] = "save"]
      /\ UNCHANGED <<table, ver, req, snap, snapVer, seen>>
  BY DEF FillMemo
<1>2. stage'[p] = "save" /\ \A q \in Clients : q # p => stage'[q] = stage[q]
  BY <1>1 DEF ResolverInv, Shapes
<1>3. Shapes' BY <1>1 DEF ResolverInv, Shapes
<1>4. PlaceInv' BY <1>1, <1>2 DEF ResolverInv, PlaceInv
<1>5. LiveInv' BY <1>1, <1>2 DEF ResolverInv, LiveInv, State
<1>6. State(snap[p][req[p].name]) \in seen[p] BY <1>1 DEF ResolverInv, LiveInv
<1>7. /\ req[p].op = "create" => "absent" \in seen[p]
      /\ req[p].op = "update" => "present" \in seen[p]
  BY <1>6 DEF Refused, State
<1>8. DecidesOnLiveView'
  BY <1>1, <1>2, <1>7 DEF ResolverInv, DecidesOnLiveView
<1>9. QED BY <1>3, <1>4, <1>5, <1>8 DEF ResolverInv

quiet == <<table, ver, stage, req, snap, snapVer, seen>>

\* A step that touches none of this keeps it.
LEMMA QuietStep == ASSUME ResolverInv, UNCHANGED quiet PROVE ResolverInv'
BY DEF quiet, ResolverInv, Shapes, PlaceInv, LiveInv, DecidesOnLiveView, State

\* Requests are only where they can be, and every write was decided on what
\* its name was while the request was in flight.
THEOREM ResolverInvHolds == ResolverSpec => []ResolverInv
<1>1. ResolverInit => ResolverInv
  <2> SUFFICES ASSUME ResolverInit PROVE ResolverInv
    OBVIOUS
  <2>1. Empty \in Tables BY DEF Empty, Tables
  <2>2. Shapes BY <2>1 DEF ResolverInit, Shapes
  <2>3. PlaceInv /\ LiveInv /\ DecidesOnLiveView BY DEF ResolverInit, PlaceInv, LiveInv, DecidesOnLiveView
  <2>4. QED BY <2>2, <2>3 DEF ResolverInv
<1>2. ResolverInv /\ [ResolverNext]_resolverVars => ResolverInv'
  <2> SUFFICES ASSUME ResolverInv, [ResolverNext]_resolverVars PROVE ResolverInv'
    OBVIOUS
  <2>1. ASSUME NEW p \in Clients, ConfigMiss(p) \/ ListRequest(p) PROVE ResolverInv'
    <3>1. stage[p] = "idle" /\ stage' = [stage EXCEPT ![p] = "list"] /\ UNCHANGED <<table, ver, req, snap, snapVer, seen>>
      BY <2>1 DEF ConfigMiss, ListRequest
    <3>2. req[p] = Read BY <3>1 DEF ResolverInv, PlaceInv
    <3>3. stage'[p] = "list" /\ \A q \in Clients : q # p => stage'[q] = stage[q]
      BY <3>1 DEF ResolverInv, Shapes
    <3>4. Shapes' BY <3>1 DEF ResolverInv, Shapes
    <3>5. PlaceInv' BY <3>1, <3>2, <3>3 DEF ResolverInv, PlaceInv
    <3>6. LiveInv' BY <3>1, <3>2, <3>3 DEF ResolverInv, LiveInv, State
    <3>7. DecidesOnLiveView' BY <3>1, <3>3 DEF ResolverInv, DecidesOnLiveView
    <3>8. QED BY <3>4, <3>5, <3>6, <3>7 DEF ResolverInv
  <2>2. ASSUME NEW p \in Clients, NEW r \in Writes, StartWrite(p, r) PROVE ResolverInv'
    <3>1. /\ stage[p] = "idle" /\ UNCHANGED <<table, ver, snap, snapVer>>
          /\ stage' = [stage EXCEPT ![p] = IF r.op = "delete" THEN "count" ELSE "list"]
          /\ req' = [req EXCEPT ![p] = r] /\ seen' = [seen EXCEPT ![p] = {Live(r.name)}]
      BY <2>2 DEF StartWrite
    <3>2. r.name \in Names /\ r.op \in WriteOps /\ r # Read BY WriteShape, ReadIsNoWrite
    <3>3. Live(r.name) = State(table[r.name]) /\ Live(r.name) \in {"absent", "present"}
      BY DEF Live, State
    <3>4. Shapes' BY <3>1, <3>3 DEF ResolverInv, Shapes
    <3>5. /\ stage'[p] = (IF r.op = "delete" THEN "count" ELSE "list") /\ req'[p] = r
          /\ seen'[p] = {Live(r.name)} /\ snapVer'[p] = -1
          /\ \A q \in Clients : q # p => stage'[q] = stage[q] /\ req'[q] = req[q] /\ seen'[q] = seen[q]
      BY <3>1 DEF ResolverInv, Shapes, PlaceInv
    <3>6. PlaceInv' BY <3>1, <3>2, <3>5 DEF ResolverInv, PlaceInv, WriteOps
    <3>7. LiveInv' BY <3>1, <3>3, <3>5 DEF ResolverInv, LiveInv, State
    <3>8. DecidesOnLiveView' BY <3>5 DEF ResolverInv, DecidesOnLiveView
    <3>9. QED BY <3>4, <3>6, <3>7, <3>8 DEF ResolverInv
  <2>3. ASSUME NEW p \in Clients, ListServiceGroups(p) PROVE ResolverInv'
    <3>1. /\ stage[p] = "list" /\ UNCHANGED <<table, ver, stage, req, seen>>
          /\ snap' = [snap EXCEPT ![p] = table] /\ snapVer' = [snapVer EXCEPT ![p] = ver]
      BY <2>3 DEF ListServiceGroups
    <3>2. Shapes' BY <3>1 DEF ResolverInv, Shapes
    <3>3. /\ snap'[p] = table
          /\ \A q \in Clients : q # p => snap'[q] = snap[q] /\ snapVer'[q] = snapVer[q]
      BY <3>1 DEF ResolverInv, Shapes
    <3>4. PlaceInv' BY <3>1, <3>3 DEF ResolverInv, PlaceInv
    <3>5. LiveInv' BY <3>1, <3>3 DEF ResolverInv, LiveInv, State
    <3>6. DecidesOnLiveView' BY <3>1 DEF ResolverInv, DecidesOnLiveView
    <3>7. QED BY <3>2, <3>4, <3>5, <3>6 DEF ResolverInv
  <2>4. ASSUME NEW p \in Clients, FillMemo(p) PROVE ResolverInv'
    <3>1. CASE req[p] = Read \/ Refused(p)
      <4>1. Return(p) /\ UNCHANGED <<table, ver>> BY <2>4, <3>1 DEF FillMemo
      <4>2. QED BY <4>1, ReturnStep
    <3>2. CASE ~(req[p] = Read \/ Refused(p)) BY <2>4, <3>2, FillStep
    <3>3. QED BY <3>1, <3>2
  <2>5. ASSUME NEW p \in Clients, CountLive(p) PROVE ResolverInv'
    <3>1. CASE Return(p) BY <2>5, <3>1, ReturnStep DEF CountLive
    <3>2. CASE ~Return(p)
      <4>1. /\ stage[p] = "count" /\ table[req[p].name] # NoGroup
            /\ stage' = [stage EXCEPT ![p] = "tombstone"] /\ UNCHANGED <<table, ver, req, snap, snapVer, seen>>
        BY <2>5, <3>2 DEF CountLive
      <4>2. stage'[p] = "tombstone" /\ \A q \in Clients : q # p => stage'[q] = stage[q]
        BY <4>1 DEF ResolverInv, Shapes
      <4>3. req[p] # Read /\ req[p].op = "delete" BY <4>1 DEF ResolverInv, PlaceInv
      <4>4. "present" \in seen[p] BY <4>1, <4>3 DEF ResolverInv, LiveInv, State
      <4>5. Shapes' BY <4>1 DEF ResolverInv, Shapes
      <4>6. PlaceInv' BY <4>1, <4>2, <4>3 DEF ResolverInv, PlaceInv
      <4>7. LiveInv' BY <4>1, <4>2 DEF ResolverInv, LiveInv, State
      <4>8. DecidesOnLiveView' BY <4>1, <4>2, <4>4 DEF ResolverInv, DecidesOnLiveView
      <4>9. QED BY <4>5, <4>6, <4>7, <4>8 DEF ResolverInv
    <3>3. QED BY <3>1, <3>2
  <2>6. ASSUME NEW p \in Clients, ListFails(p) \/ WriteFails(p) \/ Invalidate(p) PROVE ResolverInv'
    <3>1. Return(p) /\ UNCHANGED <<table, ver>> BY <2>6 DEF ListFails, WriteFails, Invalidate
    <3>2. QED BY <3>1, ReturnStep
  <2>7. ASSUME NEW p \in Clients, Save(p) \/ WriteFailsLate(p) PROVE ResolverInv'
    <3>1. \A q \in Clients : Witnessed(p, q) \in SUBSET {"absent", "present"}
      BY DEF Witnessed, ResolverInv, Shapes
    <3>2. CASE Save(p)
      <4>1. seen' \in [Clients -> SUBSET {"absent", "present"}] BY <3>1, <3>2 DEF Save
      <4>2. QED BY <3>2, <4>1, InsertStep DEF Save
    <3>3. CASE WriteFailsLate(p)
      <4>1. seen' \in [Clients -> SUBSET {"absent", "present"}] BY <3>1, <3>3 DEF WriteFailsLate
      <4>2. QED BY <3>3, <4>1, InsertStep DEF WriteFailsLate
    <3>4. QED BY <2>7, <3>2, <3>3
  <2>8. CASE MemoAges \/ (\E n \in Names : DeclaredChanges(n)) \/ UNCHANGED resolverVars
    <3>1. UNCHANGED quiet BY <2>8 DEF MemoAges, DeclaredChanges, resolverVars, quiet
    <3>2. QED BY <3>1, QuietStep
  <2>9. QED BY <2>1, <2>2, <2>3, <2>4, <2>5, <2>6, <2>7, <2>8 DEF ResolverNext, ServeStep
<1>3. QED BY <1>1, <1>2, PTL DEF ResolverSpec

\* A create, an update or a delete acts on a state of its name that was live
\* during the request.
THEOREM WritesDecideOnLiveView == ResolverSpec => []DecidesOnLiveView
<1>1. ResolverInv => DecidesOnLiveView BY DEF ResolverInv
<1>2. QED BY <1>1, ResolverInvHolds, PTL

\* An answered write is in the table, and a query sees every write that was
\* answered before it was sent.
VersionInv ==
    /\ ver \in Nat /\ acked \in Nat /\ acked <= ver
    /\ mine \in [Clients -> Nat] /\ began \in [Clients -> Nat] /\ snapVer \in [Clients -> Int]
    /\ \A p \in Clients :
         /\ mine[p] <= ver /\ began[p] <= acked
         /\ snapVer[p] # -1 => began[p] <= snapVer[p]
         /\ stage[p] = "idle" => snapVer[p] = -1

\* A request ends, with or without an answered write of its own.
LEMMA ReturnVersions ==
    ASSUME VersionInv, ResolverInv', NEW p \in Clients, Return(p), ver' = ver,
           acked' \in Nat, acked <= acked', acked' <= ver, mine' = mine \/ mine' = [mine EXCEPT ![p] = 0]
    PROVE  VersionInv'
<1>1. /\ snapVer'[p] = -1 /\ began'[p] = 0 /\ snapVer' \in [Clients -> Int] /\ began' \in [Clients -> Nat]
      /\ \A q \in Clients : q # p => snapVer'[q] = snapVer[q] /\ began'[q] = began[q]
  BY DEF VersionInv, Return
<1>2. mine' \in [Clients -> Nat] /\ \A q \in Clients : mine'[q] <= ver BY DEF VersionInv
<1>3. \A q \in Clients : began'[q] <= acked' BY <1>1 DEF VersionInv
<1>4. \A q \in Clients : stage'[q] = "idle" => snapVer'[q] = -1 BY DEF ResolverInv, PlaceInv
<1>5. QED BY <1>1, <1>2, <1>3, <1>4 DEF VersionInv

\* What the next invariant turns on.
versions == <<ver, acked, mine, began, snapVer>>

\* An answered write is in the table, and a query sees every write that was
\* answered before it was sent, whatever requests are in flight.
THEOREM VersionInvHolds == ResolverSpec => []VersionInv
<1>1. ResolverInit => VersionInv BY DEF ResolverInit, VersionInv
<1>2. VersionInv /\ ResolverInv /\ ResolverInv' /\ [ResolverNext]_resolverVars => VersionInv'
  <2> SUFFICES ASSUME VersionInv, ResolverInv, ResolverInv', [ResolverNext]_resolverVars PROVE VersionInv'
    OBVIOUS
  <2>0. \A q \in Clients : stage'[q] = "idle" => snapVer'[q] = -1 BY DEF ResolverInv, PlaceInv
  <2>1. ASSUME NEW p \in Clients, stage[p] = "idle", Begin(p), UNCHANGED <<ver, acked, mine, snapVer>> PROVE VersionInv'
    <3>1. snapVer[p] = -1 BY <2>1 DEF VersionInv
    <3>2. began' \in [Clients -> Nat] /\ began'[p] = acked /\ \A q \in Clients : q # p => began'[q] = began[q]
      BY <2>1 DEF Begin, VersionInv
    <3>3. QED BY <2>0, <2>1, <3>1, <3>2 DEF VersionInv
  <2>2. ASSUME NEW p \in Clients, ConfigMiss(p) \/ ListRequest(p) PROVE VersionInv'
    BY <2>1, <2>2 DEF ConfigMiss, ListRequest
  <2>3. ASSUME NEW p \in Clients, NEW r \in Writes, StartWrite(p, r) PROVE VersionInv'
    BY <2>1, <2>3 DEF StartWrite
  <2>4. ASSUME NEW p \in Clients, ListServiceGroups(p) PROVE VersionInv'
    <3>1. snapVer' = [snapVer EXCEPT ![p] = ver] /\ UNCHANGED <<ver, acked, mine, began>>
      BY <2>4 DEF ListServiceGroups
    <3>2. began[p] <= ver BY DEF VersionInv
    <3>3. QED BY <2>0, <3>1, <3>2 DEF VersionInv
  <2>5. ASSUME NEW p \in Clients, Return(p), UNCHANGED <<ver, mine, acked>> PROVE VersionInv'
    BY <2>5, ReturnVersions DEF VersionInv
  <2>6. ASSUME NEW p \in Clients, ListFails(p) \/ WriteFails(p) PROVE VersionInv'
    BY <2>5, <2>6 DEF ListFails, WriteFails
  <2>7. ASSUME UNCHANGED versions PROVE VersionInv'
    BY <2>0, <2>7 DEF VersionInv, versions
  <2>8. ASSUME NEW p \in Clients, FillMemo(p) \/ CountLive(p) PROVE VersionInv'
    <3>1. CASE Return(p) BY <2>5, <2>8, <3>1 DEF FillMemo, CountLive
    <3>2. CASE ~Return(p) BY <2>7, <2>8, <3>2 DEF FillMemo, CountLive, versions
    <3>3. QED BY <3>1, <3>2
  <2>9. ASSUME NEW p \in Clients, Save(p) PROVE VersionInv'
    <3>1. /\ ver' = ver + 1 /\ mine' = [mine EXCEPT ![p] = ver + 1] /\ UNCHANGED <<acked, began, snapVer>>
      BY <2>9 DEF Save, Insert
    <3>2. QED BY <2>0, <3>1 DEF VersionInv
  <2>10. ASSUME NEW p \in Clients, WriteFailsLate(p) PROVE VersionInv'
    <3>1. /\ ver' = ver + 1 /\ UNCHANGED <<mine, acked>>
          /\ began' = [began EXCEPT ![p] = 0] /\ snapVer' = [snapVer EXCEPT ![p] = -1]
      BY <2>10 DEF WriteFailsLate, Insert
    <3>2. QED BY <2>0, <3>1 DEF VersionInv
  <2>11. ASSUME NEW p \in Clients, Invalidate(p) PROVE VersionInv'
    <3>1. /\ ver' = ver /\ mine' = [mine EXCEPT ![p] = 0] /\ Return(p)
          /\ acked' = IF mine[p] > acked THEN mine[p] ELSE acked
      BY <2>11 DEF Invalidate
    <3>2. acked' \in Nat /\ acked <= acked' /\ acked' <= ver BY <3>1 DEF VersionInv
    <3>3. QED BY <3>1, <3>2, ReturnVersions
  <2>12. CASE MemoAges \/ (\E n \in Names : DeclaredChanges(n)) \/ UNCHANGED resolverVars
    BY <2>7, <2>12 DEF MemoAges, DeclaredChanges, resolverVars, versions
  <2>13. QED BY <2>2, <2>3, <2>4, <2>6, <2>8, <2>9, <2>10, <2>11, <2>12 DEF ResolverNext, ServeStep
<1>3. QED BY <1>1, <1>2, ResolverInvHolds, PTL DEF ResolverSpec

\* A memo that a step leaves alone lags no more than it did.
LEMMA FreshMemo ==
    ASSUME UNCHANGED memo, UNCHANGED <<acked, spanned>>, StaleOnlyByOverlap
    PROVE  StaleOnlyByOverlap'
BY DEF memo, StaleOnlyByOverlap, MemoFresh

\* A memo that lags behind an answered edit was filled by a request whose query
\* was in flight when the edit was answered: every other query sees the edit
\* (VersionInv), and the edit's own Invalidate drops what is there.
THEOREM MemoLagsOnlyByOverlap == ResolverSpec => []StaleOnlyByOverlap
<1>1. ResolverInit => StaleOnlyByOverlap BY DEF ResolverInit, StaleOnlyByOverlap, MemoFresh
<1>2. VersionInv /\ StaleOnlyByOverlap /\ [ResolverNext]_resolverVars => StaleOnlyByOverlap'
  <2> SUFFICES ASSUME VersionInv, StaleOnlyByOverlap, [ResolverNext]_resolverVars PROVE StaleOnlyByOverlap'
    OBVIOUS
  <2>1. ASSUME NEW p \in Clients, FillMemo(p) PROVE StaleOnlyByOverlap'
    <3>1. memoVer' = snapVer[p] /\ acked' = acked /\ spanned' = (began[p] < acked) /\ snapVer[p] # -1
      BY <2>1 DEF FillMemo
    <3>2. snapVer[p] < acked => began[p] < acked BY <3>1 DEF VersionInv
    <3>3. QED BY <3>1, <3>2 DEF StaleOnlyByOverlap
  <2>2. ASSUME NEW p \in Clients, Invalidate(p) PROVE StaleOnlyByOverlap'
    <3>1. age' = TTL BY <2>2 DEF Invalidate
    <3>2. ~MemoFresh' BY <3>1, ResolverAssumption DEF MemoFresh
    <3>3. QED BY <3>2 DEF StaleOnlyByOverlap
  <2>3. CASE MemoAges
    <3>1. age < TTL /\ UNCHANGED <<memoVer, warm, acked, spanned>> BY <2>3 DEF MemoAges
    <3>2. MemoFresh' => MemoFresh BY <3>1 DEF MemoFresh
    <3>3. QED BY <3>1, <3>2 DEF StaleOnlyByOverlap
  <2>4. ASSUME NEW p \in Clients,
               ConfigMiss(p) \/ ListRequest(p) \/ ListServiceGroups(p) \/ ListFails(p)
               \/ CountLive(p) \/ Save(p) \/ WriteFails(p) \/ WriteFailsLate(p)
        PROVE  StaleOnlyByOverlap'
    <3>1. UNCHANGED memo /\ UNCHANGED <<acked, spanned>>
      BY <2>4 DEF ConfigMiss, ListRequest, ListServiceGroups, ListFails, CountLive, Save,
                  WriteFails, WriteFailsLate
    <3>2. QED BY <3>1, FreshMemo
  <2>5. CASE (\E p \in Clients, r \in Writes : StartWrite(p, r))
             \/ (\E n \in Names : DeclaredChanges(n)) \/ UNCHANGED resolverVars
    <3>1. UNCHANGED memo /\ UNCHANGED <<acked, spanned>>
      BY <2>5 DEF StartWrite, DeclaredChanges, resolverVars, memo
    <3>2. QED BY <3>1, FreshMemo
  <2>6. QED BY <2>1, <2>2, <2>3, <2>4, <2>5 DEF ResolverNext, ServeStep
<1>3. QED BY <1>1, <1>2, VersionInvHolds, PTL DEF ResolverSpec

-----------------------------------------------------------------------------
\* What the scheduler's books are.
BooksOK ==
    /\ groupsCfg \in Configs
    /\ slot \in [CheckIds -> Int] /\ round \subseteq CheckIds /\ waited \in 0 .. MaxRound
    /\ started \in [CheckIds -> [age : Nat, interval : Nat]]

\* The time since a check's last probe and the time to its slot make up its
\* interval.  One whose slot has come waits for a tick that is on its way: no
\* time passes before it, or only the time the round takes that is running.
PaceInv ==
    \A i \in CheckIds : started[i] # NotYet =>
        /\ i \in Ids(AllChecks(groupsCfg)) /\ slot[i] >= 0
        /\ slot[i] > 0 => started[i].age + slot[i] = started[i].interval
        /\ slot[i] = 0 =>
             /\ pending = "yes" /\ started[i].age >= started[i].interval
             /\ \/ started[i].age = started[i].interval /\ round = {}
                \/ started[i].age - started[i].interval <= waited - 1

CheckInv == BooksOK /\ PaceInv

\* A check that is due has a positive interval, and its id is one of the checks'.
LEMMA DueShape ==
    ASSUME groupsCfg \in Configs, NEW i \in Ids(due)
    PROVE  /\ i \in CheckIds /\ i \in Ids(AllChecks(groupsCfg)) /\ slot[i] <= 0
           /\ Reserved(i) \in Nat \ {0}
<1>1. \A c \in due : c \in AllChecks(groupsCfg) /\ slot[c.id] <= 0 BY DEF due
<1>2. \E c \in due : c.id = i BY DEF Ids
<1> DEFINE d == CHOOSE c \in due : c.id = i
<1>3. d \in due /\ d.id = i BY <1>2
<1>4. Reserved(i) = d.interval BY DEF Reserved
<1> HIDE DEF d
<1>5. d.interval \in Nat \ {0} BY <1>1, <1>3, ChecksAssumption
<1> QED BY <1>1, <1>2, <1>4, <1>5 DEF Ids, CheckIds

\* A round starts: whoever was due is started, and no one is left waiting.
LEMMA RunDueKeeps == ASSUME CheckInv, RunDue PROVE CheckInv'
<1>0. /\ BooksOK /\ PaceInv /\ groupsCfg' = groupsCfg /\ waited' = 0 /\ round' = Ids(due)
      /\ slot' = [i \in CheckIds |-> Reserved(i)]
      /\ started' = [i \in CheckIds |-> IF i \in Ids(due) THEN [age |-> 0, interval |-> Reserved(i)]
                                        ELSE started[i]]
  BY DEF CheckInv, RunDue
<1>1. \A i \in Ids(due) : i \in CheckIds /\ i \in Ids(AllChecks(groupsCfg)) /\ Reserved(i) \in Nat \ {0}
  BY <1>0, DueShape DEF BooksOK
<1>2. \A i \in CheckIds \ Ids(due) :
        Reserved(i) = IF i \in Ids(AllChecks(groupsCfg)) THEN slot[i] ELSE Forgotten
  BY DEF Reserved
<1>3. BooksOK'
  <2>1. slot' \in [CheckIds -> Int] BY <1>0, <1>1, <1>2 DEF BooksOK, Forgotten
  <2>2. started' \in [CheckIds -> [age : Nat, interval : Nat]] BY <1>0, <1>1 DEF BooksOK
  <2> QED BY <1>0, <1>1, <2>1, <2>2, ChecksAssumption DEF BooksOK
<1>4. PaceInv'
  <2> SUFFICES ASSUME NEW i \in CheckIds, started'[i] # NotYet
               PROVE  /\ i \in Ids(AllChecks(groupsCfg)) /\ slot'[i] > 0
                      /\ started'[i].age + slot'[i] = started'[i].interval
    BY <1>0, <1>3 DEF PaceInv, BooksOK, Ids
  <2>1. CASE i \in Ids(due)
    BY <1>0, <1>1, <2>1
  <2>2. CASE i \notin Ids(due)
    <3>1. started'[i] = started[i] BY <1>0, <2>2
    <3>2. i \in Ids(AllChecks(groupsCfg)) /\ slot[i] >= 0 BY <1>0, <3>1 DEF PaceInv
    <3>3. slot[i] > 0 BY <2>2, <3>2, <1>0 DEF Ids, due, BooksOK
    <3> QED BY <1>0, <1>2, <2>2, <3>1, <3>2, <3>3 DEF PaceInv
  <2> QED BY <2>1, <2>2
<1> QED BY <1>3, <1>4 DEF CheckInv

\* Time passes: towards every slot, and for a check that waits only while a
\* round runs.
LEMMA TickKeeps == ASSUME CheckInv, TickPasses PROVE CheckInv'
<1>0. /\ BooksOK /\ PaceInv /\ UNCHANGED <<groupsCfg, round>> /\ pending' = "yes"
      /\ pending = "no" \/ round # {}
      /\ round # {} => waited < MaxRound /\ waited' = waited + 1
      /\ round = {} => waited' = 0
      /\ slot' = [i \in CheckIds |-> IF slot[i] > 0 THEN slot[i] - 1 ELSE slot[i]]
      /\ started' = [i \in CheckIds |-> IF started[i] = NotYet THEN NotYet
                                        ELSE [started[i] EXCEPT !.age = @ + 1]]
  BY DEF CheckInv, TickPasses
<1>1. ASSUME NEW i \in CheckIds, started[i] # NotYet
      PROVE  started'[i].age = started[i].age + 1 /\ started'[i].interval = started[i].interval
             /\ started'[i] \in [age : Nat, interval : Nat]
  <2> DEFINE s == started[i]
  <2>1. s \in [age : Nat, interval : Nat] BY <1>0 DEF BooksOK
  <2>2. started'[i] = [s EXCEPT !.age = @ + 1] BY <1>0, <1>1
  <2> HIDE DEF s
  <2>3. [s EXCEPT !.age = @ + 1].age = s.age + 1 /\ [s EXCEPT !.age = @ + 1].interval = s.interval
        /\ [s EXCEPT !.age = @ + 1] \in [age : Nat, interval : Nat]
    BY <2>1
  <2> QED BY <2>2, <2>3 DEF s
<1>2. BooksOK'
  <2>1. started' \in [CheckIds -> [age : Nat, interval : Nat]]
    <3>1. \A i \in CheckIds : started'[i] \in [age : Nat, interval : Nat]
      BY <1>0, <1>1 DEF NotYet
    <3> QED BY <1>0, <3>1
  <2>2. waited' \in 0 .. MaxRound BY <1>0, ChecksAssumption DEF BooksOK
  <2>3. slot' \in [CheckIds -> Int] BY <1>0 DEF BooksOK
  <2> QED BY <1>0, <2>1, <2>2, <2>3 DEF BooksOK
<1>3. PaceInv'
  <2> SUFFICES ASSUME NEW i \in CheckIds, started'[i] # NotYet
               PROVE  /\ i \in Ids(AllChecks(groupsCfg)) /\ slot'[i] >= 0
                      /\ slot'[i] > 0 => started'[i].age + slot'[i] = started'[i].interval
                      /\ slot'[i] = 0 =>
                           /\ pending' = "yes" /\ started'[i].age >= started'[i].interval
                           /\ \/ started'[i].age = started'[i].interval /\ round' = {}
                              \/ started'[i].age - started'[i].interval <= waited' - 1
    BY <1>0 DEF PaceInv, Ids
  <2>1. started[i] # NotYet BY <1>0
  <2> DEFINE a == started[i].age  n == started[i].interval
  <2>2. a \in Nat /\ n \in Nat /\ slot[i] \in Int /\ waited \in Nat /\ started'[i].age = a + 1
        /\ started'[i].interval = n
    BY <1>0, <1>1, <2>1, ChecksAssumption DEF BooksOK
  <2>3. /\ i \in Ids(AllChecks(groupsCfg)) /\ slot[i] >= 0
        /\ slot[i] > 0 => a + slot[i] = n
        /\ slot[i] = 0 => pending = "yes" /\ a >= n /\ ((a = n /\ round = {}) \/ a - n <= waited - 1)
    BY <1>0, <2>1 DEF PaceInv
  <2>4. slot'[i] = IF slot[i] > 0 THEN slot[i] - 1 ELSE slot[i] BY <1>0
  <2> HIDE DEF a, n
  <2>5. CASE slot[i] > 0
    <3>1. a + 1 + slot'[i] = n /\ slot'[i] >= 0 BY <2>2, <2>3, <2>4, <2>5
    <3>2. CASE round = {} BY <1>0, <2>2, <2>3, <3>1, <3>2
    <3>3. CASE round # {}
      <4>1. waited' - 1 >= 0 BY <1>0, <2>2, <3>3
      <4> QED BY <1>0, <2>2, <2>3, <2>4, <3>1, <4>1
    <3> QED BY <3>2, <3>3
  <2>6. CASE slot[i] = 0
    <3>1. round # {} /\ pending = "yes" /\ a >= n /\ a - n <= waited - 1 /\ slot'[i] = 0
      BY <1>0, <2>3, <2>4, <2>6
    <3>2. waited' = waited + 1 BY <1>0, <3>1
    <3>3. a + 1 - n <= waited' - 1 /\ a + 1 >= n BY <2>2, <3>1, <3>2
    <3> QED BY <1>0, <2>2, <2>3, <3>1, <3>3
  <2> QED BY <2>2, <2>3, <2>5, <2>6
<1> QED BY <1>2, <1>3 DEF CheckInv

\* What changes no books but forgets a check, or ends a probe.
LEMMA OthersKeep ==
    ASSUME CheckInv, NEW i, ProbeEnds(i) \/ ResultAges(i) \/ UNCHANGED checksVars
    PROVE  CheckInv'
<1>1. /\ UNCHANGED <<groupsCfg, slot, pending, waited, started>> /\ round' \subseteq round
  BY DEF ProbeEnds, ResultAges, checksVars
<1> QED BY <1>1 DEF CheckInv, BooksOK, PaceInv, Ids

\* Another configuration.
LEMMA DeclareKeeps == ASSUME CheckInv, NEW cfg \in Configs, Declare(cfg) PROVE CheckInv'
<1>1. BooksOK' BY DEF Declare, CheckInv, BooksOK, NotYet
<1>2. PaceInv' BY DEF Declare, CheckInv, BooksOK, PaceInv, Ids
<1> QED BY <1>1, <1>2 DEF CheckInv

\* A restart forgets every slot.
LEMMA RestartKeeps == ASSUME CheckInv, HubRestarts PROVE CheckInv'
BY ChecksAssumption DEF HubRestarts, CheckInv, BooksOK, PaceInv, NotYet, Forgotten

\* The scheduler's books: age, slot and interval of every check in step, and no
\* tick to wait for but those of a running round.
THEOREM CheckInvariant == ChecksSpec => []CheckInv
<1>1. ChecksInit => CheckInv
  BY ChecksAssumption DEF ChecksInit, CheckInv, BooksOK, PaceInv, NotYet, Forgotten
<1>2. CheckInv /\ [ChecksNext]_checksVars => CheckInv'
  BY RunDueKeeps, TickKeeps, OthersKeep, DeclareKeeps, RestartKeeps DEF ChecksNext
<1> QED BY <1>1, <1>2, PTL DEF ChecksSpec

\* Every declared check is probed no sooner than its interval and no later than
\* that and one round (due and RunDue, scheduler.go:97-166), for any checks,
\* intervals, reloads and restarts.
THEOREM ProbesPacedHolds == ChecksSpec => ProbesPaced
<1> DEFINE Paced == \A i \in CheckIds : started[i] # NotYet =>
         /\ started[i].age <= started[i].interval + MaxRound - 1
         /\ i \in round' \ round => started[i].age >= started[i].interval
<1>1. CheckInv /\ [ChecksNext]_checksVars => [Paced]_checksVars
  <2> SUFFICES ASSUME CheckInv, ChecksNext, NEW i \in CheckIds, started[i] # NotYet
               PROVE  /\ started[i].age <= started[i].interval + MaxRound - 1
                      /\ i \in round' \ round => started[i].age >= started[i].interval
    OBVIOUS
  <2> DEFINE a == started[i].age  n == started[i].interval
  <2>1. a \in Nat /\ n \in Nat /\ slot[i] \in Int /\ waited \in Nat /\ waited <= MaxRound /\ MaxRound \in Nat \ {0}
    BY ChecksAssumption DEF CheckInv, BooksOK
  <2>2. /\ slot[i] >= 0 /\ (slot[i] > 0 => a + slot[i] = n)
        /\ slot[i] = 0 => a >= n /\ (a = n \/ a - n <= waited - 1)
    BY DEF CheckInv, PaceInv
  <2> HIDE DEF a, n
  <2>3. a <= n + MaxRound - 1 BY <2>1, <2>2
  <2>4. ASSUME i \in round' \ round PROVE a >= n
    <3>1. RunDue BY <2>4 DEF ChecksNext, TickPasses, HubRestarts, ProbeEnds, ResultAges, Declare
    <3>2. i \in Ids(due) BY <2>4, <3>1 DEF RunDue
    <3>3. slot[i] <= 0 BY <3>2, DueShape DEF CheckInv, BooksOK
    <3> QED BY <2>1, <2>2, <3>3
  <2> QED BY <2>3, <2>4 DEF a, n
<1> HIDE DEF Paced
<1>2. ChecksSpec => [][Paced]_checksVars
  BY <1>1, CheckInvariant, PTL DEF ChecksSpec
<1> QED BY <1>2 DEF ProbesPaced, Paced

-----------------------------------------------------------------------------
\* The results kept of a check are at most two.
ResultsOK == groupsCfg \in Configs /\ results \in [CheckIds -> Results]

\* Any two results at most.
LEMMA ResultsAreShort == \A q \in Seq({"ok", "fail"}) : Len(q) <= 2 => q \in Results
<1> SUFFICES ASSUME NEW q \in Seq({"ok", "fail"}), Len(q) <= 2 PROVE q \in Results
  OBVIOUS
<1>1. q \in [1 .. Len(q) -> {"ok", "fail"}] /\ Len(q) \in Nat OBVIOUS
<1>2. Len(q) \in 0 .. 2 BY <1>1
<1> QED BY <1>1, <1>2, Zenon DEF Results

\* The results, whatever comes in and whatever ages out.
LEMMA ResultsInvariant == ChecksSpec => []ResultsOK
<1>1. ChecksInit => ResultsOK
  <2>1. <<>> \in Results BY DEF Results
  <2> QED BY <2>1 DEF ChecksInit, ResultsOK
<1>2. ResultsOK /\ [ChecksNext]_checksVars => ResultsOK'
  <2> SUFFICES ASSUME ResultsOK, [ChecksNext]_checksVars PROVE ResultsOK'
    OBVIOUS
  <2>1. ASSUME NEW i \in CheckIds, ProbeEnds(i) PROVE ResultsOK'
    <3> DEFINE rs == results[i]
    <3>1. rs \in Results BY DEF ResultsOK
    <3>2. ASSUME NEW o \in {"ok", "fail"}
          PROVE  <<o>> \o SubSeq(rs, 1, IF rs = <<>> THEN 0 ELSE 1) \in Results
      <4> DEFINE kept == SubSeq(rs, 1, IF rs = <<>> THEN 0 ELSE 1)
      <4>1. PICK n \in 0 .. 2 : rs \in [1 .. n -> {"ok", "fail"}] BY <3>1 DEF Results
      <4>2. rs \in Seq({"ok", "fail"}) /\ Len(rs) = n BY <4>1
      <4>3. kept \in Seq({"ok", "fail"}) /\ Len(kept) \in Nat /\ Len(kept) <= 1
        BY <4>2
      <4> HIDE DEF kept
      <4>4. <<o>> \in Seq({"ok", "fail"}) /\ Len(<<o>>) = 1
        OBVIOUS
      <4>5. <<o>> \o kept \in Seq({"ok", "fail"}) /\ Len(<<o>> \o kept) = 1 + Len(kept)
        BY <4>3, <4>4
      <4>6. \A k \in Nat : k <= 1 => 1 + k <= 2 OBVIOUS
      <4>7. Len(<<o>> \o kept) <= 2 BY <4>3, <4>5, <4>6, Zenon
      <4> QED BY <4>5, <4>7, ResultsAreShort DEF kept
    <3> HIDE DEF rs
    <3>3. CASE UNCHANGED results BY <3>3, <2>1 DEF ProbeEnds, ResultsOK
    <3>4. ASSUME NEW o \in {"ok", "fail"},
                 results' = [results EXCEPT ![i] = <<o>> \o SubSeq(@, 1, IF @ = <<>> THEN 0 ELSE 1)]
          PROVE  ResultsOK'
      <4>1. results' = [results EXCEPT ![i] = <<o>> \o SubSeq(rs, 1, IF rs = <<>> THEN 0 ELSE 1)]
        BY <3>4 DEF rs
      <4> QED BY <4>1, <3>2, <2>1 DEF ProbeEnds, ResultsOK
    <3> QED BY <2>1, <3>3, <3>4 DEF ProbeEnds
  <2>2. ASSUME NEW i \in CheckIds, ResultAges(i) PROVE ResultsOK'
    <3>1. PICK n \in 0 .. 2 : results[i] \in [1 .. n -> {"ok", "fail"}] BY <2>2 DEF ResultsOK, Results
    <3>2. /\ results[i] # <<>> /\ UNCHANGED groupsCfg
          /\ results' = [results EXCEPT ![i] = SubSeq(results[i], 1, Len(results[i]) - 1)]
      BY <2>2 DEF ResultAges
    <3> DEFINE rs == results[i]
    <3>3. rs \in Seq({"ok", "fail"}) /\ Len(rs) = n /\ n \in {1, 2} BY <3>1, <3>2
    <3> HIDE DEF rs
    <3>4. SubSeq(rs, 1, n - 1) \in Seq({"ok", "fail"}) /\ Len(SubSeq(rs, 1, n - 1)) <= 2
      BY <3>3
    <3>5. SubSeq(rs, 1, n - 1) \in Results BY <3>4, ResultsAreShort
    <3> QED BY <3>2, <3>3, <3>5 DEF rs, ResultsOK
  <2>3. CASE RunDue \/ TickPasses \/ HubRestarts \/ UNCHANGED checksVars
    BY <2>3 DEF RunDue, TickPasses, HubRestarts, checksVars, ResultsOK
  <2>4. ASSUME NEW cfg \in Configs, Declare(cfg) PROVE ResultsOK'
    BY <2>4 DEF Declare, ResultsOK
  <2> QED BY <2>1, <2>2, <2>3, <2>4 DEF ChecksNext
<1> QED BY <1>1, <1>2, PTL DEF ChecksSpec

\* How a check stands is read off its latest two results.
LEMMA FailingTwice ==
    ASSUME NEW rs \in Results, Failing(rs)
    PROVE  Len(rs) >= 2 /\ rs[1] = "fail" /\ rs[2] = "fail"
<1>1. PICK n \in 0 .. 2 : rs \in [1 .. n -> {"ok", "fail"}] BY DEF Results
<1>2. rs \in Seq({"ok", "fail"}) /\ Len(rs) = n /\ DOMAIN rs = 1 .. n BY <1>1
<1> DEFINE fs == {i \in DOMAIN rs : \A j \in 1 .. i : rs[j] = "fail"}
<1>3. Cardinality(fs) >= 2 BY DEF Failing, LeadingFailures, consecutiveFailuresToDegrade
<1>4. ASSUME ~ (n = 2 /\ rs[1] = "fail" /\ rs[2] = "fail") PROVE fs \subseteq {1}
  <2> SUFFICES ASSUME NEW i \in fs, i # 1 PROVE FALSE
    OBVIOUS
  <2>1. i = 2 /\ n = 2 BY <1>2
  <2>2. rs[1] = "fail" /\ rs[2] = "fail" BY <2>1
  <2> QED BY <1>4, <2>1, <2>2
<1>5. ASSUME fs \subseteq {1} PROVE FALSE
  <2> HIDE DEF fs
  <2>1. IsFiniteSet({1}) /\ Cardinality({1}) = 1 BY FS_Singleton
  <2>2. Cardinality(fs) <= 1 /\ Cardinality(fs) \in Nat BY <1>5, <2>1, FS_Subset, FS_CardinalityType
  <2> QED BY <1>3, <2>2
<1> QED BY <1>2, <1>4, <1>5

\* The groups of a board: each has its key, each service its one group.
LEMMA GroupsKeyed ==
    ASSUME NEW assign, NEW stats, NEW effective, \A s \in DOMAIN assign : stats[s].spans > 0
    PROVE  LET groups == groupAndRoll(assign, stats, effective) IN
           /\ \A g \in groups : g.spans = 1 /\ g = [name |-> g.name, env |-> g.env, members |-> g.members,
                                tier |-> g.tier, status |-> g.status, spans |-> g.spans]
           /\ \A g, h \in groups : g.name = h.name /\ g.env = h.env => g = h
           /\ \A s \in DOMAIN assign : \E g \in groups : s \in g.members /\ \A h \in groups : s \in h.members => h = g
<1> DEFINE key(svc) == <<assign[svc].group, assign[svc].env>>
           members(k) == {svc \in DOMAIN assign : <<assign[svc].group, assign[svc].env>> = k}
           tier(k) == MostCritical({assign[svc].tier : svc \in members(k)})
           status(k) == WorstOf({effective[svc] : svc \in members(k)})
           spans(k) == IF \A svc \in members(k) : stats[svc].spans = 0 THEN 0 ELSE 1
           G(k) == [name |-> k[1], env |-> k[2], members |-> members(k), tier |-> tier(k),
                    status |-> status(k), spans |-> spans(k)]
           groups == groupAndRoll(assign, stats, effective)
<1>1. groups = {G(k) : k \in {key(svc) : svc \in DOMAIN assign}}
  BY DEF groupAndRoll
<1>2. \A svc \in DOMAIN assign : svc \in members(key(svc)) /\ spans(key(svc)) = 1
  OBVIOUS
<1>3. \A svc, s \in DOMAIN assign : s \in members(key(svc)) => key(s) = key(svc)
  OBVIOUS
<1>4. \A svc, s \in DOMAIN assign : key(s)[1] = key(svc)[1] /\ key(s)[2] = key(svc)[2] => key(s) = key(svc)
  OBVIOUS
<1> HIDE DEF groups, members, tier, status, spans, key
<1>5. \A k : /\ G(k).name = k[1] /\ G(k).env = k[2] /\ G(k).members = members(k) /\ G(k).tier = tier(k)
             /\ G(k).status = status(k) /\ G(k).spans = spans(k)
  OBVIOUS
<1>6. \A g \in groups : \E svc \in DOMAIN assign : g = G(key(svc))
  BY <1>1
<1>7. \A svc \in DOMAIN assign : G(key(svc)) \in groups
  BY <1>1
<1>8. ASSUME NEW g \in groups
      PROVE  g.spans = 1 /\ g = [name |-> g.name, env |-> g.env, members |-> g.members,
                                 tier |-> g.tier, status |-> g.status, spans |-> g.spans]
  <2>1. PICK svc \in DOMAIN assign : g = G(key(svc)) BY <1>6
  <2> QED BY <1>2, <2>1
<1> HIDE DEF G
<1>9. ASSUME NEW g \in groups, NEW h \in groups, g.name = h.name, g.env = h.env PROVE g = h
  <2>1. PICK svc \in DOMAIN assign : g = G(key(svc)) BY <1>6
  <2>2. PICK s \in DOMAIN assign : h = G(key(s)) BY <1>6
  <2>3. key(svc) = key(s) BY <1>4, <1>5, <1>9, <2>1, <2>2
  <2> QED BY <2>1, <2>2, <2>3
<1>10. ASSUME NEW s \in DOMAIN assign
       PROVE  \E g \in groups : s \in g.members /\ \A h \in groups : s \in h.members => h = g
  <2>1. G(key(s)) \in groups /\ s \in G(key(s)).members BY <1>2, <1>5, <1>7
  <2>2. ASSUME NEW h \in groups, s \in h.members PROVE h = G(key(s))
    <3>1. PICK svc \in DOMAIN assign : h = G(key(svc)) BY <1>6
    <3> QED BY <1>3, <1>5, <2>2, <3>1
  <2> QED BY <2>1, <2>2
<1> QED BY <1>8, <1>9, <1>10 DEF groups

\* Folding the checks in: a group with traffic keeps its name and members, and
\* gets worse at most, and only for a check that fails.
LEMMA ChecksFoldIn ==
    ASSUME NEW g, NEW cfg, NEW rs, g.spans = 1,
           g = [name |-> g.name, env |-> g.env, members |-> g.members,
                tier |-> g.tier, status |-> g.status, spans |-> g.spans]
    PROVE  LET w == WithChecks(g, cfg, rs) IN
           /\ w.name = g.name /\ w.env = g.env /\ w.members = g.members
           /\ severity(w.status) >= severity(g.status)
           /\ w.status # g.status => \E c \in ChecksOf(cfg, g.name) : Failing(rs[c.id])
<1> DEFINE ran == {c.id : c \in {d \in ChecksOf(cfg, g.name) : rs[d.id] # <<>>}}
           w == WithChecks(g, cfg, rs)
           new == worst(g.status, "degraded")
<1>1. w = g \/ ((\E i \in ran : Failing(rs[i])) /\ w = [g EXCEPT !.status = new])
  BY DEF WithChecks
<1>2. severity(new) >= severity(g.status) BY DEF worst, severity
<1>3. \A i \in ran : \E c \in ChecksOf(cfg, g.name) : c.id = i OBVIOUS
<1>4. severity(g.status) \in Int BY DEF severity
<1> HIDE DEF ran, new, w
<1>5. CASE w = g BY <1>4, <1>5 DEF w
<1>6. CASE w = [g EXCEPT !.status = new]
  <2>1. w.name = g.name /\ w.env = g.env /\ w.members = g.members /\ w.status = new BY <1>6
  <2>2. w # g => \E c \in ChecksOf(cfg, g.name) : Failing(rs[c.id]) BY <1>1, <1>3
  <2> QED BY <1>2, <2>1, <2>2 DEF w
<1> QED BY <1>1, <1>5, <1>6

\* The board of any window, any configuration and any standing of the checks.
LEMMA BoardOfResults == ResultsOK => BoardSound
<1> SUFFICES ASSUME ResultsOK PROVE BoardSound
  OBVIOUS
<1> DEFINE assign == resolve(groupsCfg, Stats, Labels)
           effective == propagate(groupsCfg, assign, Base(groupsCfg, Stats, assign), edges)
           before == groupAndRoll(assign, Stats, effective)
           W(g) == WithChecks(g, groupsCfg, results)
<1>1. Rollup(groupsCfg, Stats, Labels, edges) = before
  BY DEF Rollup
<1>2. Report = {W(g) : g \in before}
  BY <1>1 DEF Report, Board, ApplyChecks
<1>3. DOMAIN assign = DOMAIN Stats
  BY DEF resolve
<1>4. \A s \in DOMAIN assign : Stats[s].spans > 0
  BY <1>3 DEF Stats
<1> HIDE DEF assign, effective
<1>5. /\ \A g \in before : g.spans = 1 /\ g = [name |-> g.name, env |-> g.env, members |-> g.members,
                              tier |-> g.tier, status |-> g.status, spans |-> g.spans]
      /\ \A g, h \in before : g.name = h.name /\ g.env = h.env => g = h
      /\ \A s \in DOMAIN Stats : \E g \in before : s \in g.members /\ \A h \in before : s \in h.members => h = g
  BY <1>3, <1>4, GroupsKeyed
<1> HIDE DEF before
<1>6. \A g \in before :
        /\ W(g).name = g.name /\ W(g).env = g.env /\ W(g).members = g.members
        /\ severity(W(g).status) >= severity(g.status)
        /\ W(g).status # g.status => \E c \in ChecksOf(groupsCfg, g.name) : Failing(results[c.id])
  BY <1>5, ChecksFoldIn
<1>7. \A name : \A c \in ChecksOf(groupsCfg, name) : results[c.id] \in Results
  BY DEF ResultsOK, ChecksOf, AllChecks, CheckIds
<1> HIDE DEF W
<1>8. ASSUME NEW s \in DOMAIN Stats PROVE Cardinality({g \in Report : s \in g.members}) = 1
  <2>1. PICK g \in before : s \in g.members /\ \A h \in before : s \in h.members => h = g BY <1>5
  <2>2. {r \in Report : s \in r.members} = {W(g)} BY <1>2, <1>6, <2>1
  <2> QED BY <2>2, FS_Singleton
<1>9. ASSUME NEW r \in Report, NEW h \in before, <<r.name, r.env>> = <<h.name, h.env>>
      PROVE  /\ severity(r.status) >= severity(h.status)
             /\ r.status # h.status =>
                  \E c \in ChecksOf(groupsCfg, r.name) :
                     Len(results[c.id]) >= 2 /\ results[c.id][1] = "fail" /\ results[c.id][2] = "fail"
  <2>1. PICK g \in before : r = W(g) BY <1>2
  <2>2. g = h BY <1>5, <1>6, <1>9, <2>1
  <2> QED BY <1>6, <1>7, <2>1, <2>2, FailingTwice
<1> QED BY <1>1, <1>8, <1>9 DEF BoardSound

\* The board, as checks are probed and age out and configurations change, for any
\* services, traffic, edges and configurations (groupAndRoll, ApplyChecks).
THEOREM BoardSoundHolds == ChecksSpec => []BoardSound
BY ResultsInvariant, BoardOfResults, PTL
-----------------------------------------------------------------------------
(* Propagation.                                                            *)

\* A nonempty set of naturals has a least member.
LEMMA LeastNatural ==
    ASSUME NEW S, S \subseteq Nat, S # {}
    PROVE  \E x \in S : \A y \in S : x <= y
<1> DEFINE R == OpToRel(<, Nat)
<1>1. IsWellFoundedOn(R, Nat) BY NatLessThanWellFounded
<1> HIDE DEF R
<1>2. PICK x \in S : \A y \in S : ~ (<<y, x>> \in R) BY <1>1, WFMin
<1>3. \A y \in S : <<y, x>> \in R <=> y < x BY <1>2 DEF R, OpToRel
<1>4. \A y \in S : ~ (y < x) BY <1>2, <1>3, Zenon
<1>5. QED BY <1>2, <1>4

\* A nonempty set of indexes has a greatest one.
LEMMA MaxOfIndexes ==
    ASSUME NEW n \in Nat, NEW S, S \subseteq 1 .. n, S # {}
    PROVE  Max(S) \in S
<1> DEFINE T == {n - x : x \in S}
<1>0. S \subseteq Int /\ \A x \in S : n - x \in Nat OBVIOUS
<1>1. T \subseteq Nat /\ T # {} BY <1>0
<1>2. PICK t \in T : \A u \in T : t <= u BY <1>1, LeastNatural
<1>3. PICK x \in S : t = n - x BY <1>2
<1>4. \A y \in S : n - x <= n - y BY <1>2, <1>3
<1>5. \A y \in S : x >= y
  <2>1. SUFFICES ASSUME NEW y \in S PROVE x >= y OBVIOUS
  <2>2. n - x <= n - y /\ x \in Int /\ y \in Int BY <1>0, <1>4
  <2>3. QED BY <2>2
<1>6. QED BY <1>5 DEF Max

\* What propagate makes of one edge.
Critical(cfg, assign, e) == e \in cfg.critical \/ (e[2] \in DOMAIN assign /\ assign[e[2]].tier = "T0")
Visit(cfg, assign, base, acc, e) ==
    IF e[1] = e[2] \/ e \in acc.seen THEN acc
    ELSE [seen |-> acc.seen \cup {e},
          effective |->
            IF /\ Critical(cfg, assign, e) /\ e[2] \in DOMAIN base /\ base[e[2]] = "down"
               /\ e[1] \in DOMAIN base /\ acc.effective[e[1]] = "healthy"
            THEN [acc.effective EXCEPT ![e[1]] = "degraded"] ELSE acc.effective]

\* ... and what the pass must have come to behind the edges at the positions I.
Hit(cfg, assign, base, es, I, s) ==
    \E i \in I : /\ es[i][1] = s /\ es[i][2] # s /\ es[i][2] \in DOMAIN base /\ base[es[i][2]] = "down"
                 /\ Critical(cfg, assign, es[i])
Behind(cfg, assign, base, es, I) ==
    [seen |-> {es[i] : i \in {j \in I : es[j][1] # es[j][2]}},
     effective |-> [s \in DOMAIN base |->
                      IF base[s] = "healthy" /\ Hit(cfg, assign, base, es, I, s) THEN "degraded" ELSE base[s]]]

LEMMA OneMoreEdge ==
    ASSUME NEW cfg, NEW assign, NEW base, NEW es, NEW I, NEW m \in I
    PROVE  Visit(cfg, assign, base, Behind(cfg, assign, base, es, I \ {m}), es[m])
             = Behind(cfg, assign, base, es, I)
<1> DEFINE H(J, s) == Hit(cfg, assign, base, es, J, s)
           N(J) == {es[i] : i \in {j \in J : es[j][1] # es[j][2]}}
           E(J) == [s \in DOMAIN base |-> IF base[s] = "healthy" /\ H(J, s) THEN "degraded" ELSE base[s]]
           W(J) == Behind(cfg, assign, base, es, J)
           J == I \ {m}
           e == es[m]
           new(s) == /\ e[1] = s /\ e[2] # s /\ e[2] \in DOMAIN base /\ base[e[2]] = "down"
                     /\ Critical(cfg, assign, e)
<1>1. \A s : H(I, s) <=> H(J, s) \/ new(s) BY DEF Hit
<1>2. \A K : W(K) = [seen |-> N(K), effective |-> E(K)] BY DEF Behind
<1>3. N(I) = IF e[1] = e[2] THEN N(J) ELSE N(J) \cup {e} OBVIOUS
<1>4. CASE e[1] = e[2]
  <2>1. \A s : ~new(s) BY <1>4
  <2>2. E(I) = E(J) BY <2>1, <1>1
  <2>3. QED BY <1>2, <1>3, <1>4, <2>2 DEF Visit
<1>5. CASE e[1] # e[2] /\ e \in N(J)
  <2>1. \A s : new(s) => H(J, s) BY <1>5 DEF Hit
  <2>2. E(I) = E(J) BY <2>1, <1>1
  <2>3. N(I) = N(J) BY <1>3, <1>5
  <2> HIDE DEF N, E, W
  <2>4. W(I) = W(J) /\ W(J).seen = N(J) BY <1>2, <2>2, <2>3
  <2>5. Visit(cfg, assign, base, W(J), e) = W(J) BY <1>5, <2>4 DEF Visit
  <2>6. QED BY <2>4, <2>5 DEF W
<1>6. CASE e[1] # e[2] /\ e \notin N(J)
  <2> DEFINE fires == /\ Critical(cfg, assign, e) /\ e[2] \in DOMAIN base /\ base[e[2]] = "down"
                      /\ e[1] \in DOMAIN base /\ E(J)[e[1]] = "healthy"
  <2>1. Visit(cfg, assign, base, W(J), e)
          = [seen |-> N(J) \cup {e},
             effective |-> IF fires THEN [E(J) EXCEPT ![e[1]] = "degraded"] ELSE E(J)]
    <3> HIDE DEF N, E, W
    <3>1. W(J).seen = N(J) /\ W(J).effective = E(J) BY <1>2
    <3>2. QED BY <1>6, <3>1 DEF Visit
  <2>2. E(I) = IF fires THEN [E(J) EXCEPT ![e[1]] = "degraded"] ELSE E(J)
    <3> HIDE DEF H
    <3>1. CASE fires
      <4>1. base[e[1]] = "healthy" /\ new(e[1]) BY <3>1, <1>6
      <4>2. \A s : s # e[1] => ~new(s) OBVIOUS
      <4>3. H(I, e[1]) BY <4>1, <1>1
      <4>4. \A s : s # e[1] => (H(I, s) <=> H(J, s)) BY <4>2, <1>1
      <4>5. QED BY <3>1, <4>1, <4>3, <4>4
    <3>2. CASE ~fires
      <4>1. \A s \in DOMAIN base : base[s] = "healthy" /\ new(s) => H(J, s)
        BY <3>2
      <4>2. QED BY <3>2, <4>1, <1>1
    <3>3. QED BY <3>1, <3>2
  <2> HIDE DEF N, E, W
  <2>3. Visit(cfg, assign, base, W(J), e) = W(I) BY <1>2, <1>3, <1>6, <2>1, <2>2
  <2>4. QED BY <2>3 DEF W
<1>7. QED BY <1>4, <1>5, <1>6

\* The pass is a fold, and a fold is the one function that does it edge by edge.
Passed(cfg, assign, base, es, g) ==
    [I \in SUBSET DOMAIN es |->
        IF I = {} THEN [seen |-> {}, effective |-> base]
        ELSE Visit(cfg, assign, base, g[I \ {Max(I)}], es[Max(I)])]

LEMMA PropagateFolds ==
    ASSUME NEW cfg, NEW assign, NEW base, NEW es
    PROVE  propagate(cfg, assign, base, es)
             = (CHOOSE g : g = Passed(cfg, assign, base, es, g))[DOMAIN es].effective
BY DEF propagate, FoldLeft, MapThenFoldSet, Passed, Visit, Critical

LEMMA PassIsBehind ==
    ASSUME NEW cfg, NEW assign, NEW base, NEW es, NEW n \in Nat, DOMAIN es = 1 .. n,
           base = [s \in DOMAIN base |-> base[s]]
    PROVE  propagate(cfg, assign, base, es) = Behind(cfg, assign, base, es, DOMAIN es).effective
<1> DEFINE D == DOMAIN es
           W == [I \in SUBSET D |-> Behind(cfg, assign, base, es, I)]
           F(g) == Passed(cfg, assign, base, es, g)
<1>1. \A I \in SUBSET D : I # {} => Max(I) \in I BY MaxOfIndexes
<1>2. Behind(cfg, assign, base, es, {}) = [seen |-> {}, effective |-> base] BY DEF Behind, Hit
<1>3. W = F(W)
  <2>1. \A I \in SUBSET D : I # {} =>
           Visit(cfg, assign, base, W[I \ {Max(I)}], es[Max(I)]) = W[I]
    BY <1>1, OneMoreEdge
  <2>2. QED BY <1>2, <2>1 DEF Passed
<1>4. ASSUME NEW g, g = F(g) PROVE g = W
  <2> DEFINE Bad == {I \in SUBSET D : g[I] # W[I]}
             Sizes == {Cardinality(I) : I \in Bad}
  <2>1. IsFiniteSet(D) BY FS_Interval
  <2>2. \A I \in SUBSET D : IsFiniteSet(I) /\ Cardinality(I) \in Nat
    BY <2>1, FS_Subset, FS_CardinalityType
  <2>3. SUFFICES ASSUME Bad # {} PROVE FALSE BY <1>4 DEF Passed
  <2>4. Sizes \subseteq Nat /\ Sizes # {} BY <2>2, <2>3
  <2>5. PICK c \in Sizes : \A d \in Sizes : c <= d BY <2>4, LeastNatural
  <2>6. PICK I \in Bad : c = Cardinality(I) BY <2>5
  <2>7. I # {} BY <1>2, <1>4, <2>6 DEF Passed
  <2>8. PICK m : m = Max(I) OBVIOUS
  <2>9. m \in I BY <1>1, <2>7, <2>8
  <2>10. Cardinality(I \ {m}) = Cardinality(I) - 1 BY <2>2, <2>9, FS_RemoveElement
  <2>11. I \ {m} \in SUBSET D /\ Cardinality(I \ {m}) \in Nat BY <2>2
  <2>12. I \ {m} \notin Bad
    <3>1. c \in Nat BY <2>2, <2>6
    <3>2. ASSUME I \ {m} \in Bad PROVE c <= c - 1 BY <2>5, <2>6, <2>10, <3>2
    <3>3. QED BY <3>1, <3>2
  <2>13. g[I \ {m}] = W[I \ {m}] BY <2>11, <2>12
  <2>14. g[I] = Visit(cfg, assign, base, g[I \ {m}], es[m]) BY <1>4, <2>7, <2>8 DEF Passed
  <2>15. Visit(cfg, assign, base, Behind(cfg, assign, base, es, I \ {m}), es[m])
           = Behind(cfg, assign, base, es, I)
    BY <2>9, OneMoreEdge
  <2>16. QED BY <2>6, <2>11, <2>13, <2>14, <2>15
<1>5. (CHOOSE g : g = F(g)) = W BY <1>3, <1>4
<1>6. QED BY <1>5, PropagateFolds

\* The edges stay what a window may hold.
LEMMA EdgesInvariant == ChecksSpec => [](edges \in EdgeLists)
<1>1. ChecksInit => edges \in EdgeLists BY DEF ChecksInit
<1>2. edges \in EdgeLists /\ [ChecksNext]_checksVars => (edges \in EdgeLists)'
  BY DEF checksVars, board, ChecksNext, RunDue, TickPasses, HubRestarts, ProbeEnds, ResultAges, Declare
<1>3. QED BY <1>1, <1>2, PTL DEF ChecksSpec

LEMMA GoldenRuleOfEdges == edges \in EdgeLists => GoldenRule
<1> SUFFICES ASSUME edges \in EdgeLists PROVE GoldenRule OBVIOUS
<1> DEFINE assign == resolve(groupsCfg, Stats, Labels)
           base == Base(groupsCfg, Stats, assign)
           broken(s) == \E i \in DOMAIN edges : LET t == edges[i][2] IN
               /\ edges[i][1] = s /\ t # s /\ t \in DOMAIN base /\ base[t] = "down"
               /\ assign[t].tier = "T0" \/ <<s, t>> \in groupsCfg.critical
<1>1. edges \in Seq(Services \X Services) BY ChecksAssumption
<1>2. DOMAIN edges = 1 .. Len(edges) /\ Len(edges) \in Nat BY <1>1
<1>3. \A i \in DOMAIN edges : edges[i] = <<edges[i][1], edges[i][2]>> BY <1>1, <1>2
<1>4. base = [s \in DOMAIN base |-> base[s]] /\ DOMAIN base = DOMAIN assign BY DEF Base, resolve
<1> HIDE DEF base, assign
<1>5. \A s : broken(s) <=> Hit(groupsCfg, assign, base, edges, DOMAIN edges, s)
  BY <1>3, <1>4 DEF Hit, Critical
<1>6. propagate(groupsCfg, assign, base, edges)
        = Behind(groupsCfg, assign, base, edges, DOMAIN edges).effective
  BY <1>2, <1>4, PassIsBehind
<1>7. propagate(groupsCfg, assign, base, edges)
        = [s \in DOMAIN base |-> IF base[s] = "healthy" /\ broken(s) THEN "degraded" ELSE base[s]]
  BY <1>5, <1>6 DEF Behind
<1>8. QED BY <1>7 DEF GoldenRule, base, assign

\* A service's status is its own, except that a healthy one with a critical
\* dependency that is down by itself is degraded, in whatever order and however
\* often the edges come (rollup.go, propagate).
THEOREM GoldenRuleHolds == ChecksSpec => []GoldenRule
BY EdgesInvariant, GoldenRuleOfEdges, PTL
================================================================================
