----------------------------- MODULE Api_proofs -----------------------------
(***************************************************************************)
(* What a request through the HTTP API can come to, whoever sends it (Api) *)
(* and what edits of projects and the trimmer at work on their rows can    *)
(* leave behind (Projects): the inductive invariants and the theorems.     *)
(***************************************************************************)
EXTENDS Api, Projects, TLAPS

\* A request to one of the routes; the rest of it is arbitrary.
IsRequest(c) ==
    /\ c = [route |-> c.route, caller |-> c.caller, wanted |-> c.wanted, origin |-> c.origin,
            originCheck |-> c.originCheck, auth |-> c.auth, anon |-> c.anon, modules |-> c.modules,
            edits |-> c.edits]
    /\ c.route \in DOMAIN Routes

\* Whoever has an identity came through the guard of the route.
GuardInv ==
    /\ IsRequest(call) /\ ip \in Nat
    /\ ip = 0 => /\ identity = None /\ proj = None /\ view = "unread"
                 /\ reads = {} /\ tenants = {} /\ writes = {}
    /\ identity # None =>
         /\ Route.guard # "public" /\ ~OriginRefused
         /\ Route.guard = "admin" => IsAdmin(identity)
         /\ minRole(Route) # "" => holdsAnywhere(identity, minRole(Route))

\* The project a request is about.
Subject == IF bound = None THEN (IF call.wanted = None THEN DefaultTenant ELSE call.wanted) ELSE bound

\* Behind a step that authorizes it, the project is known and authorized.
ProjectInv ==
    /\ proj \in {None, Subject}
    /\ status = "open" =>
        \A i \in 1 .. Len(Steps), j \in 1 .. Len(Steps) :
            Authorizes(Steps, j, i) /\ j < ip /\ ip <= i /\ (\A c \in Steps[j].when : Holds(c)) =>
                proj = Subject /\ (identity # None => CanAccess(identity, Subject, Steps[j].what))

\* Nothing else is read, or about to be, than what was granted.
TenantsInv ==
    identity # None =>
        /\ \A t \in reads \cup tenants : RoleFor(identity, t) > 0
        /\ bound # None /\ bound # Agg => reads \cup tenants \subseteq {bound}

\* The whole cluster is not kept from one who does not see everything: the next
\* steps narrow it.
ViewInv ==
    identity # None /\ view = "whole" /\ ~HasWildcard(identity) =>
        /\ status # "200"
        /\ status = "open" =>
             \E j \in ip .. Len(Steps) :
                /\ Steps[j].do = "narrow"
                /\ \A k \in ip .. j : /\ Steps[k].do \notin {"answer", "choose", "cluster"}
                                      /\ \A c \in Steps[k].when : Holds(c)

RequestInv == GuardInv /\ ProjectInv /\ TenantsInv /\ ViewInv /\ WritesEarned /\ OutageIsNotRefusal

-----------------------------------------------------------------------------
HandlerStep == Pass \/ Check \/ Choose \/ ResolveProject \/ ResolveTenants \/ IsLeaf
               \/ RunQuery \/ RunWrite \/ ReadCluster

\* Roles are ranked from 0 to 3, and so is what a caller holds on a project.
LEMMA RankRange ==
    /\ \A r : roleRank(r) \in 0 .. 3
    /\ roleRank("viewer") = 1 /\ roleRank("editor") = 2 /\ roleRank("admin") = 3
BY DEF roleRank

\* Who holds at least b holds at least all that b covers.
LEMMA RankOrder == \A a, b, c \in 0 .. 3 : a >= b /\ c <= b => a >= c
OBVIOUS

\* Of some ranks, one is the lowest.
LEMMA LowestRank ==
    ASSUME NEW ranks \in SUBSET (0 .. 3), ranks # {}
    PROVE  \E m \in ranks : \A n \in ranks : m <= n
<1>1. CASE 0 \in ranks BY <1>1
<1>2. CASE 0 \notin ranks /\ 1 \in ranks BY <1>2
<1>3. CASE 0 \notin ranks /\ 1 \notin ranks /\ 2 \in ranks BY <1>3
<1>4. CASE 0 \notin ranks /\ 1 \notin ranks /\ 2 \notin ranks
  <2>1. \A n \in ranks : n = 3 BY <1>4
  <2>2. PICK m \in ranks : TRUE OBVIOUS
  <2> QED BY <2>1, <2>2
<1> QED BY <1>1, <1>2, <1>3, <1>4

\* A caller holds one of the four ranks on a project (auth.Identity, RoleFor).
LEMMA RoleForRange ==
    ASSUME NEW id, NEW p
    PROVE  RoleFor(id, p) \in 0 .. 3
<1> DEFINE ranks == {roleRank(g[2]) : g \in {h \in id.grants : h[1] = "*" \/ h[1] = p}}
<1>1. ranks \subseteq 0 .. 3 BY RankRange
<1>2. RoleFor(id, p) = IF ranks = {} THEN 0 ELSE CHOOSE x \in ranks : \A y \in ranks : y <= x
  BY DEF RoleFor
<1> HIDE DEF ranks
<1>3. ASSUME ranks # {} PROVE \E x \in ranks : \A y \in ranks : y <= x
  <2>1. CASE 3 \in ranks BY <1>1, <2>1
  <2>2. CASE 3 \notin ranks /\ 2 \in ranks BY <1>1, <2>2
  <2>3. CASE 3 \notin ranks /\ 2 \notin ranks /\ 1 \in ranks BY <1>1, <2>3
  <2>4. CASE 3 \notin ranks /\ 2 \notin ranks /\ 1 \notin ranks
    <3>1. \A x \in ranks : x = 0 BY <1>1, <2>4
    <3>2. PICK x \in ranks : TRUE BY <1>3
    <3>3. \A y \in ranks : y <= x BY <3>1, <3>2
    <3> QED BY <3>2, <3>3
  <2> QED BY <2>1, <2>2, <2>3, <2>4
<1>4. CASE ranks = {} BY <1>2, <1>4
<1>5. CASE ranks # {}
  <2>1. (CHOOSE x \in ranks : \A y \in ranks : y <= x) \in ranks BY <1>3, <1>5
  <2> QED BY <1>1, <1>2, <1>5, <2>1
<1> QED BY <1>4, <1>5

\* Access to a project in any role is a role on it.
LEMMA AccessIsARole ==
    ASSUME NEW id, NEW p, NEW min, CanAccess(id, p, min), roleRank(min) > 0
    PROVE  RoleFor(id, p) > 0
BY RankRange, RoleForRange DEF CanAccess

\* While a request is only counted on, it stays the request it was.
LEMMA SameRequest ==
    ASSUME IsRequest(call), call' = call \/ call' = [call EXCEPT !.edits = @ + 1]
    PROVE  /\ IsRequest(call') /\ Route' = Route /\ Steps' = Steps
           /\ call'.wanted = call.wanted /\ call'.modules = call.modules
           /\ call'.caller = call.caller /\ call'.auth = call.auth
           /\ OriginRefused' <=> OriginRefused
<1>1. /\ IsRequest(call') /\ call'.route = call.route /\ call'.wanted = call.wanted
      /\ call'.modules = call.modules /\ call'.caller = call.caller /\ call'.auth = call.auth
      /\ call'.origin = call.origin /\ call'.originCheck = call.originCheck
  BY DEF IsRequest
<1> QED BY <1>1 DEF Route, Steps, OriginRefused

\* The route of a request is one of the table, and sound.
LEMMA SoundHere == IsRequest(call) => SoundRoute(Route)
BY RoutesAssumption DEF IsRequest, Route

-----------------------------------------------------------------------------
\* Whoever the guard lets through has the role that the route asks for.
LEMMA GuardVerdict ==
    ASSUME IsRequest(call), NEW store_ \in {"up", "down"}, Route.guard # "public", Guard(store_).status = "open"
    PROVE  /\ ~OriginRefused
           /\ Route.guard = "admin" => IsAdmin(Guard(store_).id)
           /\ minRole(Route) # "" => holdsAnywhere(Guard(store_).id, minRole(Route))
<1> DEFINE g == Route.guard
           v == IF g = "resource" THEN requestIdentityForResource(call.caller, store_, call.anon)
                ELSE requestIdentity(call.caller, store_, call.anon)
<1>1. g \in Guards BY SoundHere DEF SoundRoute
<1>2. Guard(store_) = IF OriginRefused THEN Turned("403")
                      ELSE IF v.status # "open" THEN v
                      ELSE CASE g = "authenticated" -> v
                             [] g = "admin" -> IF IsAdmin(v.id) THEN v ELSE Turned("403")
                             [] g = "resource" -> IF holdsAnywhere(v.id, "viewer") THEN v ELSE Turned("403")
                             [] g \in {"viewer", "editor"} -> IF holdsAnywhere(v.id, g) THEN v ELSE Turned("403")
  BY DEF Guard
<1>3. Turned("403").status # "open" BY DEF Turned
<1>4. minRole(Route) = CASE g \in {"viewer", "editor", "admin"} -> g
                         [] g = "resource" -> "viewer" [] OTHER -> ""
  BY DEF minRole
<1>5. \A id : IsAdmin(id) => holdsAnywhere(id, "admin")
  BY DEF IsAdmin, holdsAnywhere, roleRank
<1> HIDE DEF v, g
<1>6. ~OriginRefused /\ v.status = "open" BY <1>2, <1>3
<1>7. CASE g = "authenticated" BY <1>4, <1>6, <1>7 DEF g
<1>8. CASE g = "admin"
  <2>1. IsAdmin(v.id) /\ Guard(store_) = v BY <1>2, <1>3, <1>6, <1>8
  <2> QED BY <1>4, <1>5, <1>6, <1>8, <2>1
<1>9. CASE g = "resource"
  <2>1. holdsAnywhere(v.id, "viewer") /\ Guard(store_) = v BY <1>2, <1>3, <1>6, <1>9
  <2> QED BY <1>4, <1>6, <1>9, <2>1 DEF g
<1>10. CASE g \in {"viewer", "editor"}
  <2>1. holdsAnywhere(v.id, g) /\ Guard(store_) = v BY <1>2, <1>3, <1>6, <1>10
  <2> QED BY <1>4, <1>6, <1>10, <2>1 DEF g
<1> QED BY <1>1, <1>7, <1>8, <1>9, <1>10 DEF Guards, g

\* Who presents a live session or token is that user or meets an outage.
LEMMA LiveCaller ==
    ASSUME NEW store_ \in {"up", "down"}, call.caller.live = "yes", call.caller.cred \in {"session", "token"},
           IsRequest(call), Route.guard # "public"
    PROVE  /\ Guard(store_).status # "401"
           /\ Guard(store_).status = "open" => Guard(store_).id.anon = "no"
<1> DEFINE g == Route.guard
           v == IF g = "resource" THEN requestIdentityForResource(call.caller, store_, call.anon)
                ELSE requestIdentity(call.caller, store_, call.anon)
<1>1. g \in Guards BY SoundHere DEF SoundRoute
<1>2. Guard(store_) \in {v, Turned("403")}
  BY <1>1 DEF Guard, Guards
<1>3. v = requestIdentity(call.caller, store_, call.anon)
  BY DEF requestIdentityForResource
<1>4. v \in {Turned("503"), Through(Identity(call.caller.grants, "no"))}
  <2>1. CASE store_ = "down" BY <2>1, <1>3 DEF requestIdentity
  <2>2. CASE store_ = "up" BY <2>2, <1>3 DEF requestIdentity
  <2> QED BY <2>1, <2>2
<1> QED BY <1>2, <1>4 DEF Turned, Through, Identity

\* The request meets its guard.
LEMMA EnterKeeps == ASSUME RequestInv, Enter PROVE RequestInv'
<1>0. /\ IsRequest(call) /\ ip = 0 /\ ip' \in {0, 1} /\ status = "open" /\ identity = None
      /\ proj = None /\ view = "unread" /\ reads = {} /\ tenants = {} /\ writes = {}
      /\ UNCHANGED <<call, proj, tenants, view, reads, writes, members, memo>>
  BY DEF RequestInv, GuardInv, Enter
<1>1. IsRequest(call') /\ Route' = Route /\ Steps' = Steps /\ (OriginRefused' <=> OriginRefused)
  BY <1>0, SameRequest
<1>2. ASSUME identity' # None
      PROVE  /\ ip' = 1 /\ Route.guard # "public" /\ call.auth = "on"
             /\ \E store_ \in {"up", "down"} :
                  Guard(store_).status = "open" /\ identity' = Guard(store_).id /\ status' = "open"
  BY <1>0, <1>2 DEF Enter
<1>3. GuardInv'
  <2>1. CASE identity' = None BY <1>0, <1>1, <2>1 DEF GuardInv
  <2>2. CASE identity' # None
    <3>1. PICK store_ \in {"up", "down"} : Guard(store_).status = "open" /\ identity' = Guard(store_).id
      BY <1>2, <2>2
    <3>2. /\ ~OriginRefused /\ Route.guard # "public"
          /\ Route.guard = "admin" => IsAdmin(identity')
          /\ minRole(Route) # "" => holdsAnywhere(identity', minRole(Route))
      BY <1>0, <1>2, <2>2, <3>1, GuardVerdict
    <3>3. ip' = 1 /\ IsRequest(call') BY <1>1, <1>2, <2>2
    <3>4. Route'.guard # "public" /\ ~OriginRefused' /\ (Route'.guard = "admin" => IsAdmin(identity'))
          /\ (minRole(Route') # "" => holdsAnywhere(identity', minRole(Route')))
      BY <1>1, <3>2
    <3>5. (Route.guard = "admin" => IsAdmin(identity))' BY <3>4 DEF IsAdmin
    <3>6. (minRole(Route) # "" => holdsAnywhere(identity, minRole(Route)))'
      BY <1>1, <3>2, Zenon DEF holdsAnywhere
    <3>7. (Route.guard # "public" /\ ~OriginRefused)' BY <1>1, <3>2, Zenon
    <3>8. ip' \in Nat /\ ip' # 0 BY <3>3
    <3> QED BY <3>3, <3>5, <3>6, <3>7, <3>8, Zenon DEF GuardInv
  <2> QED BY <2>1, <2>2
<1>4. ProjectInv' BY <1>0 DEF ProjectInv
<1>5. TenantsInv' /\ ViewInv' /\ WritesEarned' BY <1>0 DEF TenantsInv, ViewInv, WritesEarned
<1>6. OutageIsNotRefusal'
  <2> SUFFICES ASSUME call.auth = "on", call.caller.live = "yes", call.caller.cred \in {"session", "token"}
               PROVE  status' # "401" /\ (identity' # None => identity'.anon = "no")
    BY <1>0 DEF OutageIsNotRefusal
  <2>1. CASE Route.guard = "public" BY <2>1, <1>0 DEF Enter
  <2>2. CASE Route.guard # "public"
    <3>1. PICK store_ \in {"up", "down"} :
            /\ status' = Guard(store_).status
            /\ identity' = IF Guard(store_).status = "open" THEN Guard(store_).id ELSE None
      BY <2>2 DEF Enter
    <3> QED BY <1>0, <2>2, <3>1, LiveCaller
  <2> QED BY <2>1, <2>2
<1> QED BY <1>3, <1>4, <1>5, <1>6 DEF RequestInv

-----------------------------------------------------------------------------
\* How a handler moves: on, over what a skip or a choice leaves out, or to an
\* end; the cluster is read by the step that reads it.
LEMMA HandlerMoves ==
    ASSUME HandlerStep
    PROVE  /\ UNCHANGED <<call, identity, bound, members>> /\ status = "open" /\ ip \in 1 .. Len(Steps)
           /\ \/ status' = "open" /\ ip' \in {ip + 1, ip + Here.skip}
              \/ status' \in {"400", "403", "409", "500", "503"} /\ ip' = ip
           /\ view' = view \/ view' # "whole" \/ Here.do = "cluster"
<1> USE DEF At, Advance, Fail
<1>1. CASE Pass BY <1>1 DEF Pass
<1>2. CASE Check BY <1>2 DEF Check
<1>3. CASE Choose BY <1>3 DEF Choose
<1>4. CASE ResolveProject BY <1>4 DEF ResolveProject
<1>5. CASE ResolveTenants BY <1>5 DEF ResolveTenants
<1>6. CASE IsLeaf BY <1>6 DEF IsLeaf
<1>7. CASE RunQuery BY <1>7 DEF RunQuery
<1>8. CASE RunWrite BY <1>8 DEF RunWrite
<1>9. CASE ReadCluster BY <1>9 DEF ReadCluster
<1> QED BY <1>1, <1>2, <1>3, <1>4, <1>5, <1>6, <1>7, <1>8, <1>9 DEF HandlerStep

\* What a handler's step does to the project.
LEMMA ProjectMoves ==
    ASSUME HandlerStep
    PROVE  /\ proj' \in {proj, Subject}
           /\ Here.do = "project" /\ status' = "open" /\ ip' = ip + 1 /\ ip' # ip + Here.skip =>
                \/ ~Taken /\ view' = view
                \/ proj' = Subject /\ (identity # None => CanAccess(identity, Subject, Here.what))
<1> USE DEF At, Advance, Fail
<1>1. CASE Pass BY <1>1 DEF Pass
<1>2. CASE Check BY <1>2 DEF Check
<1>3. CASE Choose BY <1>3 DEF Choose
<1>4. CASE ResolveProject BY <1>4 DEF ResolveProject, Subject, project_
<1>5. CASE ResolveTenants BY <1>5 DEF ResolveTenants
<1>6. CASE IsLeaf BY <1>6 DEF IsLeaf
<1>7. CASE RunQuery BY <1>7 DEF RunQuery
<1>8. CASE RunWrite BY <1>8 DEF RunWrite
<1>9. CASE ReadCluster BY <1>9 DEF ReadCluster
<1> QED BY <1>1, <1>2, <1>3, <1>4, <1>5, <1>6, <1>7, <1>8, <1>9 DEF HandlerStep

\* No step gets behind an authorization but through it.
LEMMA ProjectStays == ASSUME RequestInv, HandlerStep PROVE ProjectInv'
<1>0. /\ UNCHANGED <<call, identity, bound>> /\ status = "open" /\ ip \in 1 .. Len(Steps)
      /\ \/ status' = "open" /\ ip' \in {ip + 1, ip + Here.skip}
         \/ status' # "open"
      /\ view' = view \/ view' # "whole" \/ Here.do = "cluster"
      /\ proj' \in {proj, Subject} /\ proj \in {None, Subject}
      /\ Here.do = "project" /\ status' = "open" /\ ip' = ip + 1 /\ ip' # ip + Here.skip =>
           \/ ~Taken /\ view' = view
           \/ proj' = Subject /\ (identity # None => CanAccess(identity, Subject, Here.what))
  BY HandlerMoves, ProjectMoves DEF RequestInv, ProjectInv
<1>1. Steps' = Steps /\ Subject' = Subject
  BY <1>0 DEF Steps, Route, Subject
<1>2. /\ Len(Steps) \in Nat
      /\ \A k \in 1 .. Len(Steps) : /\ Steps[k].skip \in Nat
                                    /\ \A c \in Steps[k].when : c[1] \in {"with", "without", "narrowed", "unread"}
  BY SoundHere DEF RequestInv, GuardInv, SoundRoute, Steps
<1> SUFFICES ASSUME NEW i \in 1 .. Len(Steps), NEW j \in 1 .. Len(Steps), Authorizes(Steps, j, i),
                    j < ip', ip' <= i, status' = "open", \A c \in Steps[j].when : Holds(c)'
             PROVE  proj' = Subject /\ (identity # None => CanAccess(identity, Subject, Steps[j].what))
  BY <1>0, <1>1 DEF ProjectInv, CanAccess, RoleFor
<1>3. ip' \in Nat BY <1>0, <1>2 DEF Here
<1>4. ~(ip <= j /\ ip' = ip + Here.skip)
  <2> SUFFICES ASSUME ip <= j, ip' = ip + Here.skip PROVE FALSE
    OBVIOUS
  <2>1. Here.skip = 0 \/ ip + Here.skip \notin j + 1 .. i
    BY <1>0, <1>2 DEF Authorizes, Here
  <2> QED BY <1>0, <1>2, <1>3, <2>1 DEF Here
<1>5. ~(ip < j)
  BY <1>0, <1>2, <1>3, <1>4
<1>6. CASE ip = j
  <2>1. Here = Steps[j] /\ Here.do = "project" BY <1>6 DEF Here, Authorizes
  <2>2. ip' = ip + 1 /\ ip' # ip + Here.skip BY <1>0, <1>4, <1>6
  <2>3. ASSUME ~Taken, view' = view PROVE FALSE
    <3>1. PICK c \in Steps[j].when : ~Holds(c) BY <2>1, <2>3 DEF Taken
    <3> QED BY <1>0, <2>3, <3>1 DEF Holds
  <2> QED BY <1>0, <2>1, <2>2, <2>3
<1>7. CASE ip > j
  <2>1. ip <= i /\ ip \in j .. i BY <1>0, <1>2, <1>3, <1>7 DEF Here
  <2>2. \A c \in Steps[j].when : Holds(c)
    <3> SUFFICES ASSUME NEW c \in Steps[j].when PROVE Holds(c)
      OBVIOUS
    <3>0. Holds(c)' /\ c[1] \in {"with", "without", "narrowed"} BY <1>2 DEF Authorizes
    <3>1. CASE c[1] \in {"with", "without"} BY <1>0, <3>0, <3>1 DEF Holds
    <3>2. CASE c[1] = "narrowed"
      <4>1. Here.do # "cluster" BY <2>1, <3>2 DEF Authorizes, Here
      <4>2. view' = "whole" BY <3>0, <3>2 DEF Holds
      <4> QED BY <1>0, <3>0, <3>2, <4>1, <4>2 DEF Holds, HasWildcard
    <3> QED BY <3>0, <3>1, <3>2
  <2>3. proj = Subject /\ (identity # None => CanAccess(identity, Subject, Steps[j].what))
    BY <1>0, <1>7, <2>1, <2>2 DEF RequestInv, ProjectInv
  <2> QED BY <1>0, <2>3
<1> QED BY <1>0, <1>5, <1>6, <1>7

\* At a step that needs the project, taken, it is authorized.
LEMMA ProjectHere ==
    ASSUME RequestInv, status = "open", ip \in 1 .. Len(Steps), Taken,
           Here.do \in {"tenants", "queryOne", "write"}
    PROVE  /\ proj = Subject
           /\ identity # None => /\ RoleFor(identity, Subject) > 0
                                 /\ Here.do = "write" => CanAccess(identity, Subject, "editor")
<1>1. PICK j \in 1 .. ip - 1 : /\ Authorizes(Steps, j, ip)
                               /\ Here.do = "write" /\ Route.guard # "public" => Steps[j].what = "editor"
  BY SoundHere DEF RequestInv, GuardInv, SoundRoute, Steps, Here
<1>2. \A c \in Steps[j].when : Holds(c)
  BY <1>1 DEF Authorizes, Taken, Here
<1>3. j \in 1 .. Len(Steps) /\ j < ip /\ ip <= ip
  BY <1>1
<1>4. proj = Subject /\ (identity # None => CanAccess(identity, Subject, Steps[j].what))
  BY <1>1, <1>2, <1>3 DEF RequestInv, ProjectInv
<1>5. roleRank(Steps[j].what) > 0
  BY <1>1 DEF Authorizes
<1>6. identity # None => Route.guard # "public"
  BY DEF RequestInv, GuardInv
<1> QED BY <1>1, <1>4, <1>5, <1>6, AccessIsARole

\* What is read, and what it is resolved from.
LEMMA TenantsStay == ASSUME RequestInv, HandlerStep PROVE TenantsInv'
<1>0. UNCHANGED <<call, identity, bound>> /\ status = "open" /\ ip \in 1 .. Len(Steps)
  BY HandlerMoves
<1> SUFFICES ASSUME identity # None
             PROVE  /\ \A t \in reads' \cup tenants' : RoleFor(identity, t) > 0
                    /\ bound # None /\ bound # Agg => reads' \cup tenants' \subseteq {bound}
  BY <1>0 DEF TenantsInv, RoleFor
<1>1. /\ \A t \in reads \cup tenants : RoleFor(identity, t) > 0
      /\ bound # None /\ bound # Agg => reads \cup tenants \subseteq {bound}
  BY DEF RequestInv, TenantsInv
<1>2. CASE UNCHANGED <<reads, tenants>> BY <1>1, <1>2
<1>3. CASE ResolveTenants
  <2>1. CASE tenants' = tenants BY <1>1, <1>3, <2>1 DEF ResolveTenants
  <2>2. CASE tenants' = resolveTenants(Refreshed, proj)
    <3>1. proj = Subject /\ RoleFor(identity, Subject) > 0
      BY <1>0, <1>3, ProjectHere DEF ResolveTenants, At
    <3>2. tenants' = {proj} \/ tenants' = {t \in Spans(Refreshed, proj) : RoleFor(identity, t) > 0}
      BY <2>2 DEF resolveTenants
    <3>3. bound # None /\ bound # Agg => proj = bound /\ tenants' = {proj}
      BY <2>2, <3>1 DEF resolveTenants, Spans, Subject
    <3> QED BY <1>1, <1>3, <3>1, <3>2, <3>3 DEF ResolveTenants
  <2> QED BY <1>3, <2>1, <2>2 DEF ResolveTenants
<1>4. CASE RunQuery
  <2>1. CASE reads' = reads BY <1>1, <1>4, <2>1 DEF RunQuery
  <2>2. CASE reads' = reads \cup (IF Here.do = "query" THEN tenants ELSE {proj})
    <3>1. CASE Here.do = "query" BY <1>1, <1>4, <2>2, <3>1 DEF RunQuery
    <3>2. CASE Here.do = "queryOne"
      <4>1. proj = Subject /\ RoleFor(identity, Subject) > 0
        BY <1>0, <1>4, <3>2, ProjectHere DEF RunQuery, At
      <4>2. bound # None => proj = bound BY <4>1 DEF Subject
      <4> QED BY <1>1, <1>4, <2>2, <3>2, <4>1, <4>2 DEF RunQuery
    <3> QED BY <1>4, <3>1, <3>2 DEF RunQuery, At
  <2> QED BY <1>4, <2>1, <2>2 DEF RunQuery
<1> QED
  BY <1>2, <1>3, <1>4 DEF HandlerStep, Pass, Check, Choose, ResolveProject, IsLeaf, RunWrite, ReadCluster

\* The cluster that was just read is narrowed before anything else is done.
LEMMA ViewStays == ASSUME RequestInv, HandlerStep PROVE ViewInv'
<1>0. /\ UNCHANGED <<call, identity, bound>> /\ status = "open" /\ ip \in 1 .. Len(Steps)
      /\ \/ status' = "open" /\ ip' \in {ip + 1, ip + Here.skip}
         \/ status' \in {"400", "403", "409", "500", "503"} /\ ip' = ip
      /\ Steps' = Steps
  BY HandlerMoves DEF Steps, Route
<1> SUFFICES ASSUME identity # None, view' = "whole", ~HasWildcard(identity), status' = "open"
             PROVE  \E j \in ip' .. Len(Steps) :
                       /\ Steps[j].do = "narrow"
                       /\ \A k \in ip' .. j : /\ Steps[k].do \notin {"answer", "choose", "cluster"}
                                              /\ \A c \in Steps[k].when : Holds(c)'
  BY <1>0 DEF ViewInv, HasWildcard
<1>1. CASE Here.do = "cluster" /\ ReadCluster
  <2>1. Taken /\ ip' = ip + 1 BY <1>1 DEF ReadCluster, Advance
  <2>2. PICK j \in ip + 1 .. Len(Steps) : Narrows(Steps, ip, j)
    BY <1>0, <1>1, SoundHere DEF RequestInv, GuardInv, SoundRoute, Steps, Here
  <2>3. ASSUME NEW k \in ip + 1 .. j, NEW c \in Steps[k].when PROVE Holds(c)'
    <3>1. c[1] = "narrowed" \/ (Holds(c) /\ c[1] \in {"with", "without"})
      BY <2>1, <2>2, <2>3 DEF Narrows, Taken, Here
    <3> QED BY <1>0, <3>1 DEF Holds, HasWildcard
  <2> QED BY <2>1, <2>2, <2>3 DEF Narrows
<1>2. CASE ~(Here.do = "cluster" /\ ReadCluster)
  <2>1. view = "whole" /\ ip' # ip + 1 => Choose /\ Taken /\ Here.do = "choose"
    <3> USE DEF At, Advance, Fail
    <3>1. CASE Pass BY <3>1, <1>0 DEF Pass
    <3>2. CASE Check BY <3>2, <1>0 DEF Check
    <3>3. CASE Choose BY <3>3, <1>0 DEF Choose
    <3>4. CASE ResolveProject BY <3>4, <1>0 DEF ResolveProject
    <3>5. CASE ResolveTenants BY <3>5, <1>0 DEF ResolveTenants
    <3>6. CASE IsLeaf BY <3>6, <1>0 DEF IsLeaf
    <3>7. CASE RunQuery BY <3>7, <1>0 DEF RunQuery
    <3>8. CASE RunWrite BY <3>8, <1>0 DEF RunWrite
    <3>9. CASE ReadCluster BY <3>9, <1>0, <1>2 DEF ReadCluster
    <3> QED BY <3>1, <3>2, <3>3, <3>4, <3>5, <3>6, <3>7, <3>8, <3>9 DEF HandlerStep
  <2>2. view = "whole" /\ (Here.do = "narrow" => ~Taken)
    <3> USE DEF At, Advance, Fail
    <3>1. CASE Pass BY <3>1, <1>0 DEF Pass
    <3>2. CASE Check BY <3>2, <1>0 DEF Check
    <3>3. CASE Choose BY <3>3, <1>0 DEF Choose
    <3>4. CASE ResolveProject BY <3>4, <1>0 DEF ResolveProject
    <3>5. CASE ResolveTenants BY <3>5, <1>0 DEF ResolveTenants
    <3>6. CASE IsLeaf BY <3>6, <1>0 DEF IsLeaf
    <3>7. CASE RunQuery BY <3>7, <1>0 DEF RunQuery
    <3>8. CASE RunWrite BY <3>8, <1>0 DEF RunWrite
    <3>9. CASE ReadCluster BY <3>9, <1>0, <1>2 DEF ReadCluster
    <3> QED BY <3>1, <3>2, <3>3, <3>4, <3>5, <3>6, <3>7, <3>8, <3>9 DEF HandlerStep
  <2>3. PICK j \in ip .. Len(Steps) :
          /\ Steps[j].do = "narrow"
          /\ \A k \in ip .. j : /\ Steps[k].do \notin {"answer", "choose", "cluster"}
                                /\ \A c \in Steps[k].when : Holds(c)
    BY <1>0, <2>2 DEF RequestInv, ViewInv
  <2>4. ip \in ip .. j /\ ip' = ip + 1
    BY <1>0, <2>1, <2>2, <2>3 DEF Here
  <2>5. j # ip
    BY <1>0, <2>2, <2>3, <2>4 DEF Here, Taken
  <2>6. \A k \in ip .. j : \A c \in Steps[k].when : Holds(c)'
    <3> SUFFICES ASSUME NEW k \in ip .. j, NEW c \in Steps[k].when PROVE Holds(c)'
      OBVIOUS
    <3>1. Holds(c) BY <2>3
    <3>2. view' = view BY <2>2
    <3> QED BY <1>0, <3>1, <3>2 DEF Holds, HasWildcard
  <2> QED BY <1>0, <2>3, <2>4, <2>5, <2>6
<1> QED BY <1>1, <1>2

\* Writes, and answers, of a handler.
LEMMA WritesStay == ASSUME RequestInv, HandlerStep PROVE WritesEarned'
<1>0. UNCHANGED <<call, identity, bound>> /\ status = "open" /\ ip \in 1 .. Len(Steps)
  BY HandlerMoves
<1>1. OriginRefused' <=> OriginRefused BY <1>0 DEF OriginRefused, Route
<1>2. CASE writes' = writes
  BY <1>0, <1>1, <1>2 DEF RequestInv, WritesEarned, IsAdmin, CanAccess, RoleFor
<1>3. CASE RunWrite /\ writes' = writes \cup {<<Here.do, IF Here.do = "write" THEN proj ELSE Here.what>>}
  <2> SUFFICES ASSUME identity # None, NEW w \in writes'
               PROVE  /\ w[1] = "save" => IsAdmin(identity)
                      /\ w[1] = "write" => CanAccess(identity, w[2], "editor")
                      /\ ~OriginRefused
    BY <1>0, <1>1 DEF WritesEarned, IsAdmin, CanAccess, RoleFor
  <2>1. ~OriginRefused BY DEF RequestInv, GuardInv
  <2>2. CASE w \in writes BY <2>2 DEF RequestInv, WritesEarned
  <2>3. CASE w \notin writes
    <3>1. w[1] = Here.do /\ (Here.do = "write" => w[2] = proj) BY <1>3, <2>3
    <3>2. Here.do = "save" => IsAdmin(identity)
      BY <1>0, SoundHere DEF RequestInv, GuardInv, SoundRoute, Steps, Here
    <3>3. Here.do = "write" => CanAccess(identity, proj, "editor")
      BY <1>0, <1>3, ProjectHere DEF RunWrite
    <3> QED BY <2>1, <3>1, <3>2, <3>3
  <2> QED BY <2>2, <2>3
<1> QED
  BY <1>2, <1>3 DEF HandlerStep, Pass, Check, Choose, ResolveProject, ResolveTenants, IsLeaf, RunQuery,
                    RunWrite, ReadCluster

\* A handler's step keeps the invariant.
LEMMA HandlerKeeps == ASSUME RequestInv, HandlerStep PROVE RequestInv'
<1>0. /\ UNCHANGED <<call, identity, bound>> /\ status = "open" /\ ip \in 1 .. Len(Steps)
      /\ \/ status' = "open" /\ ip' \in {ip + 1, ip + Here.skip}
         \/ status' \in {"400", "403", "409", "500", "503"} /\ ip' = ip
  BY HandlerMoves
<1>1. Len(Steps) \in Nat /\ Here.skip \in Nat
  BY <1>0, SoundHere DEF RequestInv, GuardInv, SoundRoute, Steps, Here
<1>2. ip' \in Nat \ {0}
  BY <1>0, <1>1
<1>3. GuardInv'
  BY <1>0, <1>2, SameRequest DEF RequestInv, GuardInv, IsAdmin, holdsAnywhere
<1>4. OutageIsNotRefusal'
  BY <1>0 DEF RequestInv, OutageIsNotRefusal
<1> QED BY <1>3, <1>4, ProjectStays, TenantsStay, ViewStays, WritesStay DEF RequestInv

\* The handler answers.
LEMMA ReplyKeeps == ASSUME RequestInv, Reply PROVE RequestInv'
<1>0. /\ UNCHANGED <<call, ip, identity, bound, proj, tenants, view, reads, writes>>
      /\ status = "open" /\ status' = "200" /\ ip > 0
      /\ ip > Len(Steps) \/ (ip \in 1 .. Len(Steps) /\ Here.do = "answer")
  BY DEF Reply, At
<1>1. GuardInv' /\ WritesEarned' /\ TenantsInv' /\ OutageIsNotRefusal'
  BY <1>0, SameRequest DEF RequestInv, GuardInv, WritesEarned, TenantsInv, OutageIsNotRefusal, IsAdmin,
                           holdsAnywhere, CanAccess, RoleFor
<1>2. ProjectInv' BY <1>0 DEF RequestInv, ProjectInv, Subject
<1>3. ~(identity # None /\ view = "whole" /\ ~HasWildcard(identity))
  <2> SUFFICES ASSUME identity # None /\ view = "whole" /\ ~HasWildcard(identity) PROVE FALSE
    OBVIOUS
  <2>1. PICK j \in ip .. Len(Steps) : \A k \in ip .. j : Steps[k].do \notin {"answer", "choose", "cluster"}
    BY <1>0 DEF RequestInv, ViewInv
  <2>2. Len(Steps) \in Nat /\ ip \in Nat
    BY SoundHere DEF RequestInv, GuardInv, SoundRoute, Steps
  <2> QED BY <1>0, <2>1, <2>2 DEF Here
<1>4. ViewInv' BY <1>0, <1>3 DEF ViewInv, HasWildcard
<1> QED BY <1>1, <1>2, <1>4 DEF RequestInv

\* What happens around the request changes nothing about it.
LEMMA AroundKeeps ==
    ASSUME RequestInv, UNCHANGED reqVars, call' = call \/ call' = [call EXCEPT !.edits = @ + 1]
    PROVE  RequestInv'
<1>0. IsRequest(call) BY DEF RequestInv, GuardInv
<1>1. /\ IsRequest(call') /\ Route' = Route /\ Steps' = Steps
      /\ call'.wanted = call.wanted /\ call'.modules = call.modules
      /\ call'.caller = call.caller /\ call'.auth = call.auth
      /\ OriginRefused' <=> OriginRefused
  BY <1>0, SameRequest
<1>2. UNCHANGED <<ip, identity, bound, proj, tenants, view, reads, writes, status>>
  BY DEF reqVars
<1>3. GuardInv' BY <1>1, <1>2 DEF RequestInv, GuardInv, IsAdmin, holdsAnywhere
<1>4. Subject' = Subject /\ \A c : Holds(c)' <=> Holds(c)
  BY <1>1, <1>2 DEF Subject, Holds, HasWildcard
<1>5. ProjectInv' BY <1>1, <1>2, <1>4 DEF RequestInv, ProjectInv, CanAccess, RoleFor
<1>6. TenantsInv' BY <1>2 DEF RequestInv, TenantsInv, RoleFor
<1>7. ViewInv' BY <1>1, <1>2, <1>4 DEF RequestInv, ViewInv, HasWildcard
<1>8. WritesEarned' /\ OutageIsNotRefusal'
  BY <1>1, <1>2 DEF RequestInv, WritesEarned, OutageIsNotRefusal, IsAdmin, CanAccess, RoleFor
<1> QED BY <1>3, <1>5, <1>6, <1>7, <1>8 DEF RequestInv

\* The invariant of a request on its way, whoever sends it and whatever it asks
\* for: an identity came through the guard of the route, behind the step that
\* authorizes the project that project is authorized, what is read or resolved
\* was granted, and a cluster read whole is about to be narrowed.
THEOREM RequestInvariant ==
    ASSUME NEW Arriving, \A c \in Arriving : IsRequest(c)
    PROVE  Arrives(Arriving) /\ [][Next]_vars => []RequestInv
<1>1. Arrives(Arriving) => RequestInv
  <2> SUFFICES ASSUME Arrives(Arriving) PROVE RequestInv
    OBVIOUS
  <2>1. GuardInv BY DEF Arrives, GuardInv
  <2>2. ProjectInv BY DEF Arrives, ProjectInv
  <2> QED BY <2>1, <2>2 DEF Arrives, RequestInv, TenantsInv, ViewInv, WritesEarned, OutageIsNotRefusal
<1>2. RequestInv /\ [Next]_vars => RequestInv'
  <2> SUFFICES ASSUME RequestInv, [Next]_vars PROVE RequestInv'
    OBVIOUS
  <2>1. CASE Enter BY <2>1, EnterKeeps
  <2>2. CASE HandlerStep BY <2>2, HandlerKeeps
  <2>3. CASE Reply BY <2>3, ReplyKeeps
  <2>4. CASE MemoExpires BY <2>4, AroundKeeps DEF MemoExpires
  <2>5. CASE EditMembers BY <2>5, AroundKeeps DEF EditMembers
  <2>6. CASE UNCHANGED vars BY <2>6, AroundKeeps DEF vars
  <2> QED BY <2>1, <2>2, <2>3, <2>4, <2>5, <2>6 DEF Next, HandlerStep, Finished
<1> QED BY <1>1, <1>2, PTL

\* The calls of the specification are requests.
LEMMA CallsAreRequests == \A c \in {d \in Calls : Sensible(d)} : IsRequest(c)
BY DEF Calls, IsRequest

\* The matrix shows the lowest role of an area.
LEMMA MatrixIsLowest ==
    ASSUME NEW i \in DOMAIN Routes, minRole(Routes[i]) # ""
    PROVE  roleRank(matrix(Routes[i].area, Routes[i].method = "GET")) <= roleRank(minRole(Routes[i]))
<1> DEFINE roles == {minRole(Routes[k]) : k \in {j \in DOMAIN Routes :
                       /\ Routes[j].area = Routes[i].area /\ minRole(Routes[j]) # ""
                       /\ (Routes[j].method = "GET") = (Routes[i].method = "GET")}}
<1>1. minRole(Routes[i]) \in roles OBVIOUS
<1>2. \A r \in roles : r \in {"viewer", "editor", "admin"}
  <2>1. \A r : minRole(r) \in {"viewer", "editor", "admin", ""} BY DEF minRole
  <2> SUFFICES ASSUME NEW k \in DOMAIN Routes, minRole(Routes[k]) # ""
               PROVE  minRole(Routes[k]) \in {"viewer", "editor", "admin"}
    OBVIOUS
  <2> QED BY <2>1
<1>3. matrix(Routes[i].area, Routes[i].method = "GET") =
        IF roles = {} THEN "" ELSE CHOOSE x \in roles : \A y \in roles : roleRank(x) <= roleRank(y)
  BY DEF matrix
<1> HIDE DEF roles
<1>4. \E x \in roles : \A y \in roles : roleRank(x) <= roleRank(y)
  <2> DEFINE ranks == {roleRank(x) : x \in roles}
  <2>1. ranks \subseteq 0 .. 3 BY RankRange
  <2>2. ranks # {} BY <1>1
  <2>3. \A y \in roles : roleRank(y) \in ranks OBVIOUS
  <2>4. \A n \in ranks : \E x \in roles : roleRank(x) = n OBVIOUS
  <2> HIDE DEF ranks
  <2>5. \E m \in ranks : \A n \in ranks : m <= n BY <2>1, <2>2, LowestRank, Zenon
  <2>6. PICK m \in ranks : \A n \in ranks : m <= n BY <2>5
  <2>7. PICK x \in roles : roleRank(x) = m BY <2>4
  <2>8. \A y \in roles : roleRank(x) <= roleRank(y) BY <2>3, <2>6, <2>7, Zenon
  <2> QED BY <2>8, Zenon
<1> QED BY <1>1, <1>3, <1>4

\* Nothing is read and no cluster shown beyond what the caller was granted
\* (project, resolveTenants, meshSnapshot), for any caller and installation and
\* any number of edits of the aggregate meanwhile.
THEOREM ReadsWithinGrantsHolds ==
    ASSUME NEW Arriving, \A c \in Arriving : IsRequest(c)
    PROVE  Arrives(Arriving) /\ [][Next]_vars => []ReadsWithinGrants
<1>1. RequestInv => ReadsWithinGrants
  BY DEF RequestInv, TenantsInv, ViewInv, ReadsWithinGrants
<1> QED BY <1>1, RequestInvariant, PTL

\* Configuration is written by global administrators only, a project by those
\* who may edit it, and neither for another site (securedAdmin, project,
\* checkOrigin), for any caller and installation.
THEOREM WritesEarnedHolds ==
    ASSUME NEW Arriving, \A c \in Arriving : IsRequest(c)
    PROVE  Arrives(Arriving) /\ [][Next]_vars => []WritesEarned
<1>1. RequestInv => WritesEarned
  BY DEF RequestInv
<1> QED BY <1>1, RequestInvariant, PTL

\* An outage of the store is not held against a caller with a live session or
\* token (requestIdentity).
THEOREM OutageIsNotRefusalHolds ==
    ASSUME NEW Arriving, \A c \in Arriving : IsRequest(c)
    PROVE  Arrives(Arriving) /\ [][Next]_vars => []OutageIsNotRefusal
<1>1. RequestInv => OutageIsNotRefusal
  BY DEF RequestInv
<1> QED BY <1>1, RequestInvariant, PTL

\* Who gets anywhere in an area holds the role the matrix shows for it
\* (handlePermissions).
THEOREM MatrixTellsTruthHolds ==
    ASSUME NEW Arriving, \A c \in Arriving : IsRequest(c)
    PROVE  Arrives(Arriving) /\ [][Next]_vars => []MatrixTellsTruth
<1>1. RequestInv => MatrixTellsTruth
  <2> SUFFICES ASSUME RequestInv, identity # None, minRole(Route) # ""
               PROVE  holdsAnywhere(identity, matrix(Route.area, Route.method = "GET"))
    BY DEF MatrixTellsTruth
  <2>1. holdsAnywhere(identity, minRole(Route)) /\ call.route \in DOMAIN Routes
    BY DEF RequestInv, GuardInv, IsRequest
  <2>2. roleRank(matrix(Route.area, Route.method = "GET")) <= roleRank(minRole(Route))
    BY <2>1, MatrixIsLowest DEF Route
  <2>3. PICK g \in identity.grants : roleRank(g[2]) >= roleRank(minRole(Route))
    BY <2>1 DEF holdsAnywhere
  <2> DEFINE shown == matrix(Route.area, Route.method = "GET")  asked == minRole(Route)
  <2> HIDE DEF shown, asked
  <2>4. roleRank(g[2]) >= roleRank(shown)
    <3>1. roleRank(g[2]) \in 0 .. 3 /\ roleRank(asked) \in 0 .. 3 /\ roleRank(shown) \in 0 .. 3
      BY RankRange
    <3>2. roleRank(g[2]) >= roleRank(asked) /\ roleRank(shown) <= roleRank(asked)
      BY <2>2, <2>3 DEF shown, asked
    <3> QED BY <3>1, <3>2, RankOrder, Zenon
  <2> QED BY <2>4 DEF holdsAnywhere, shown
<1> QED BY <1>1, RequestInvariant, PTL

\* All four hold of the specification, whose calls are requests.
THEOREM ApiHolds ==
    Spec => [](ReadsWithinGrants /\ WritesEarned /\ OutageIsNotRefusal /\ MatrixTellsTruth)
<1> DEFINE Arriving == {d \in Calls : Sensible(d)}
<1>1. \A c \in Arriving : IsRequest(c)
  BY CallsAreRequests
<1>2. Spec => Arrives(Arriving) /\ [][Next]_vars
  BY DEF Spec, Init
<1> HIDE DEF Arriving
<1>3. Arrives(Arriving) /\ [][Next]_vars => []ReadsWithinGrants BY <1>1, ReadsWithinGrantsHolds
<1>4. Arrives(Arriving) /\ [][Next]_vars => []WritesEarned BY <1>1, WritesEarnedHolds
<1>5. Arrives(Arriving) /\ [][Next]_vars => []OutageIsNotRefusal BY <1>1, OutageIsNotRefusalHolds
<1>6. Arrives(Arriving) /\ [][Next]_vars => []MatrixTellsTruth BY <1>1, MatrixTellsTruthHolds
<1> QED BY <1>2, <1>3, <1>4, <1>5, <1>6, PTL

-----------------------------------------------------------------------------
\* What is stored of a project: its window is inherited or its own, and never
\* its own where it has members.
ProjectRecords == [live : {"yes", "no"}, members : SUBSET Tenants, days : Nat]
Plain(p) == ~(p.members # {} /\ p.days > 0)

RowsOK ==
    /\ projectRow \in [Range(Ids) -> ProjectRecords]
    /\ \A p \in Range(Ids) : Plain(projectRow[p]) /\ (projectRow[p].live = "no" => projectRow[p].members = {})

\* What each request has read, and what it is going to write, is such a project
\* too; one past its first read is about a project that Edits allows.
EditsOK ==
    /\ step \in [Admins -> {"idle", "get", "list", "save", "count", "tombstone"}]
    /\ edit \in [Admins -> Edits \cup {NoEdit}]
    /\ got \in [Admins -> ProjectRecords]
    /\ \A w \in Admins :
         /\ step[w] # "idle" => edit[w] \in Edits
         /\ step[w] = "get" /\ edit[w].op = "create" => ValidDays(edit[w].days)
         /\ step[w] = "list" => /\ edit[w].op = "update" /\ "members" \in edit[w].sets
                                /\ edit[w].id \notin edit[w].members /\ got[w].live = "yes"
                                /\ Plain(got[w])
         /\ step[w] = "save" => Plain(got[w]) /\ got[w].live = "yes"
         /\ got[w].live = "no" => got[w].members = {}

\* Members that may be stored now: none, those stored already, or such as the
\* projects allow.
MayStore(id, mem) ==
    \/ mem = {}
    \/ projectRow[id].live = "yes" /\ mem = projectRow[id].members
    \/ id \notin mem /\ OneLevel(id, mem)

\* What a request writes that no write overlapped was checked against the
\* projects as they still are.
EditsCurrent ==
    \A w \in Admins \ overlapped : step[w] = "save" => MayStore(edit[w].id, got[w].members)

\* Every job stands for a window its project has had since the sweep began.
JobsOK ==
    /\ windows \in [Range(Ids) -> SUBSET Nat]
    /\ \A job \in jobs : job.tenant \in Range(Ids) /\ job.days > 0 /\ job.days \in windows[job.tenant]

\* The tables a tenant's trim has still to do had no mutation when it looked, or
\* are among those it leaves alone.
BusyOK ==
    /\ table \in 0 .. Len(TrimTables)
    /\ mutations \in [Range(TrimTables) -> SUBSET Rows]
    /\ table > 0 => \A k \in table .. Len(TrimTables) :
         mutations[TrimTables[k]] # {} => TrimTables[k] \in busy

ProjectsInv == RowsOK /\ EditsOK /\ EditsCurrent /\ AggregatesSound /\ JobsOK /\ BusyOK

-----------------------------------------------------------------------------
\* Where a request may be.
EditSteps == {"idle", "get", "list", "save", "count", "tombstone"}

\* What a request may ask for.
LEMMA EditShape ==
    ASSUME NEW e \in Edits
    PROVE  /\ e.op \in {"create", "delete", "update"} /\ e.id \in Range(Ids)
           /\ e.members \in SUBSET Tenants /\ e.days \in Int
<1>1. PICK op \in {"create", "delete", "update"}, sets \in SUBSET {"members", "days"} : e \in Asked(op, sets)
  BY DEF Edits
<1>2. e.op \in {op} /\ e.id \in Range(Ids) BY <1>1 DEF Asked
<1>3. e.members \in SUBSET Tenants BY <1>1 DEF Asked
<1>4. e.days \in Int
  <2>1. e.days \in (IF "days" \in sets THEN Windows \cup {0} ELSE {0}) BY <1>1 DEF Asked
  <2>2. e.days \in Windows \/ e.days = 0 BY <2>1
  <2>3. \A d \in Windows : d \in Int BY ProjectsAssumption
  <2> QED BY <2>2, <2>3
<1> QED BY <1>2, <1>3, <1>4

\* What is read of a project, and what is made of it, has the form of a project.
LEMMA ProjectShape ==
    /\ Tombstone \in ProjectRecords /\ Tombstone.members = {} /\ Tombstone.live = "no" /\ Plain(Tombstone)
    /\ \A d \in Int : ValidDays(d) =>
         NewProject(d) \in ProjectRecords /\ Plain(NewProject(d)) /\ NewProject(d).live = "yes"
         /\ NewProject(d).members = {}
BY ProjectsAssumption DEF Tombstone, ProjectRecords, Plain, ValidDays, NewProject

\* What an update makes of a project is a plain project with the members asked for.
LEMMA ResultShape ==
    ASSUME NEW e \in Edits, NEW p \in ProjectRecords, NEW q \in Result(e, p)
    PROVE  /\ q \in ProjectRecords /\ Plain(q) /\ q.live = p.live
           /\ "members" \in e.sets => q.members = e.members
           /\ "members" \notin e.sets => q.members = p.members
<1>1. /\ q = [p EXCEPT !.members = IF "members" \in e.sets THEN e.members ELSE @,
                       !.days = IF "days" \in e.sets THEN e.days ELSE @]
      /\ "days" \in e.sets => ValidDays(e.days)
      /\ ~(q.members # {} /\ q.days > 0)
  BY DEF Result
<1>2. "days" \in e.sets => e.days \in Nat
  BY <1>1, EditShape, ProjectsAssumption DEF ValidDays
<1> QED BY <1>1, <1>2, EditShape DEF ProjectRecords, Plain

\* A request that ends without a write disturbs no other.
LEMMA FinishKeeps ==
    ASSUME EditsOK, EditsCurrent, NEW w \in Admins, Finish(w), projectRow' = projectRow
    PROVE  EditsOK' /\ EditsCurrent'
<1>1. EditsOK'
  BY ProjectShape DEF EditsOK, Finish
<1>2. EditsCurrent'
  BY DEF EditsOK, EditsCurrent, Finish, MayStore, OneLevel, Aggregates
<1> QED BY <1>1, <1>2

\* One that moves on to another step, having read p of its project or not.
LEMMA StepKeeps ==
    ASSUME EditsOK, EditsCurrent, NEW w \in Admins, NEW pc \in EditSteps, NEW p \in ProjectRecords,
           edit[w] \in Edits, projectRow' = projectRow, UNCHANGED <<edit, overlapped>>,
           step' = [step EXCEPT ![w] = pc], got' = [got EXCEPT ![w] = p],
           pc = "get" /\ edit[w].op = "create" => ValidDays(edit[w].days),
           pc = "list" => /\ edit[w].op = "update" /\ "members" \in edit[w].sets
                          /\ edit[w].id \notin edit[w].members /\ p.live = "yes" /\ Plain(p),
           pc = "save" => Plain(p) /\ p.live = "yes" /\ (w \notin overlapped => MayStore(edit[w].id, p.members)),
           p.live = "no" => p.members = {}
    PROVE  EditsOK' /\ EditsCurrent'
<1>1. EditsOK'
  <2>1. /\ step' \in [Admins -> EditSteps] /\ edit' \in [Admins -> Edits \cup {NoEdit}]
        /\ got' \in [Admins -> ProjectRecords]
    BY DEF EditsOK, EditSteps
  <2>2. \A v \in Admins : v # w => step'[v] = step[v] /\ edit'[v] = edit[v] /\ got'[v] = got[v]
    BY DEF EditsOK
  <2>3. step'[w] = pc /\ edit'[w] = edit[w] /\ got'[w] = p
    BY DEF EditsOK
  <2> QED BY <2>1, <2>2, <2>3 DEF EditsOK, EditSteps
<1>2. EditsCurrent'
  <2> SUFFICES ASSUME NEW v \in Admins, v \notin overlapped', step'[v] = "save"
               PROVE  MayStore(edit[v].id, got'[v].members)
    BY DEF EditsCurrent, MayStore, OneLevel, Aggregates
  <2>1. CASE v = w BY <2>1 DEF EditsOK
  <2>2. CASE v # w BY <2>2 DEF EditsOK, EditsCurrent
  <2> QED BY <2>1, <2>2
<1> QED BY <1>1, <1>2

\* The checks that need no further call.
LEMMA ToSaveKeeps ==
    ASSUME EditsOK, EditsCurrent, NEW w \in Admins, NEW p \in ProjectRecords, ToSave(w, p),
           edit[w] \in Edits, projectRow' = projectRow, p.live = "yes",
           "members" \in edit[w].sets /\ w \notin overlapped => MayStore(edit[w].id, edit[w].members),
           "members" \notin edit[w].sets => MayStore(edit[w].id, p.members)
    PROVE  EditsOK' /\ EditsCurrent'
<1>1. CASE Result(edit[w], p) = {}
  BY <1>1, FinishKeeps DEF ToSave
<1>2. CASE Result(edit[w], p) # {}
  <2> DEFINE q == CHOOSE q \in Result(edit[w], p) : TRUE
  <2>1. q \in Result(edit[w], p) BY <1>2
  <2>2. /\ step' = [step EXCEPT ![w] = "save"] /\ got' = [got EXCEPT ![w] = q]
        /\ UNCHANGED <<edit, overlapped>>
    BY <1>2 DEF ToSave
  <2> HIDE DEF q
  <2>3. /\ q \in ProjectRecords /\ Plain(q) /\ q.live = "yes"
        /\ q.members = IF "members" \in edit[w].sets THEN edit[w].members ELSE p.members
    BY <2>1, ResultShape
  <2>4. w \notin overlapped => MayStore(edit[w].id, q.members)
    BY <2>3
  <2> QED BY <2>2, <2>3, <2>4, StepKeeps DEF EditSteps
<1> QED BY <1>1, <1>2

\* The requests' own steps.
LEMMA StartKeeps ==
    ASSUME ProjectsInv, NEW w \in Admins, NEW e \in Edits, StartEdit(w, e)
    PROVE  EditsOK' /\ EditsCurrent'
<1>1. EditsOK'
  BY DEF ProjectsInv, EditsOK, StartEdit
<1>2. EditsCurrent'
  <2> SUFFICES ASSUME NEW v \in Admins, v \notin overlapped', step'[v] = "save"
               PROVE  MayStore(edit'[v].id, got'[v].members)
    BY DEF EditsCurrent, MayStore, OneLevel, Aggregates, StartEdit
  <2>1. v # w BY DEF ProjectsInv, EditsOK, StartEdit
  <2> QED BY <2>1 DEF ProjectsInv, EditsOK, EditsCurrent, StartEdit
<1> QED BY <1>1, <1>2

\* GetProject: what the rest of the request builds on is what is stored.
LEMMA GetKeeps ==
    ASSUME ProjectsInv, NEW w \in Admins, GetProject(w)
    PROVE  EditsOK' /\ EditsCurrent'
<1> DEFINE e == edit[w]  p == projectRow[e.id]
<1>0. /\ EditsOK /\ EditsCurrent /\ projectRow' = projectRow /\ e \in Edits /\ step[w] = "get"
      /\ p \in ProjectRecords /\ Plain(p) /\ (p.live = "no" => p.members = {})
      /\ e.op \in {"create", "delete", "update"} /\ e.days \in Int /\ e.members \in SUBSET Tenants
  BY EditShape DEF ProjectsInv, EditsOK, RowsOK, GetProject
<1>1. CASE (e.op = "create") = (p.live = "yes")
  <2>1. Finish(w) BY <1>1, <1>0 DEF GetProject
  <2> QED BY <1>0, <2>1, FinishKeeps
<1>2. CASE e.op = "create" /\ p.live = "no"
  <2>1. /\ step' = [step EXCEPT ![w] = "save"] /\ got' = [got EXCEPT ![w] = NewProject(e.days)]
        /\ UNCHANGED <<edit, overlapped>>
    BY <1>2, <1>0 DEF GetProject
  <2>2. ValidDays(e.days) BY <1>0, <1>2 DEF EditsOK
  <2>3. MayStore(e.id, NewProject(e.days).members) BY <1>0, <2>2, ProjectShape DEF MayStore
  <2> QED BY <1>0, <2>1, <2>2, <2>3, ProjectShape, StepKeeps DEF EditSteps
<1>3. CASE e.op = "delete" /\ p.live = "yes"
  <2>1. /\ step' = [step EXCEPT ![w] = "count"] /\ UNCHANGED <<edit, got, overlapped>>
    BY <1>3, <1>0 DEF GetProject
  <2>2. got' = [got EXCEPT ![w] = got[w]] /\ got[w] \in ProjectRecords
        /\ (got[w].live = "no" => got[w].members = {})
    BY <2>1, <1>0 DEF EditsOK
  <2> QED BY <1>0, <2>1, <2>2, StepKeeps DEF EditSteps
<1>4. CASE e.op = "update" /\ p.live = "yes"
  <2> DEFINE names == "members" \in e.sets
  <2>1. CASE names /\ e.id \in e.members
    <3>1. Finish(w) BY <1>4, <2>1, <1>0 DEF GetProject
    <3> QED BY <1>0, <3>1, FinishKeeps
  <2>2. CASE names /\ e.id \notin e.members /\ e.members # {}
    <3>1. /\ step' = [step EXCEPT ![w] = "list"] /\ got' = [got EXCEPT ![w] = p]
          /\ UNCHANGED <<edit, overlapped>>
      BY <1>4, <2>2, <1>0 DEF GetProject
    <3> QED BY <1>0, <1>4, <2>2, <3>1, StepKeeps DEF EditSteps
  <2>3. CASE ~names \/ e.members = {}
    <3>1. ~(names /\ e.id \in e.members) /\ ~(names /\ e.id \notin e.members /\ e.members # {})
      BY <2>3
    <3>2. ToSave(w, p) BY <1>4, <3>1, <1>0 DEF GetProject
    <3>3. MayStore(e.id, p.members) /\ (names => MayStore(e.id, e.members))
      BY <1>4, <2>3 DEF MayStore
    <3> QED BY <1>0, <1>4, <3>2, <3>3, ToSaveKeeps
  <2> QED BY <2>1, <2>2, <2>3
<1> QED BY <1>0, <1>1, <1>2, <1>3, <1>4 DEF ProjectRecords

\* validateMembers, against the projects as they are listed.
LEMMA ListKeeps ==
    ASSUME ProjectsInv, NEW w \in Admins, ListMembers(w)
    PROVE  EditsOK' /\ EditsCurrent'
<1>1. /\ EditsOK /\ EditsCurrent /\ edit[w] \in Edits /\ got[w] \in ProjectRecords /\ got[w].live = "yes"
      /\ edit[w].id \notin edit[w].members /\ "members" \in edit[w].sets /\ projectRow' = projectRow
  BY DEF ListMembers, ProjectsInv, EditsOK
<1>2. CASE OneLevel(edit[w].id, edit[w].members)
  <2>1. ToSave(w, got[w]) BY <1>2 DEF ListMembers
  <2>2. MayStore(edit[w].id, edit[w].members) BY <1>1, <1>2 DEF MayStore
  <2> QED BY <1>1, <2>1, <2>2, ToSaveKeeps
<1>3. CASE ~OneLevel(edit[w].id, edit[w].members)
  BY <1>1, <1>3, FinishKeeps DEF ListMembers
<1> QED BY <1>2, <1>3

\* handleDeleteProject's check that a project holds no telemetry.
LEMMA CountKeeps ==
    ASSUME ProjectsInv, NEW w \in Admins, CountProject(w)
    PROVE  EditsOK' /\ EditsCurrent'
<1>1. EditsOK /\ EditsCurrent /\ edit[w] \in Edits /\ projectRow' = projectRow /\ got[w] \in ProjectRecords
      /\ (got[w].live = "no" => got[w].members = {})
  BY DEF CountProject, ProjectsInv, EditsOK
<1>2. CASE Finish(w) BY <1>1, <1>2, FinishKeeps
<1>3. CASE step' = [step EXCEPT ![w] = "tombstone"] /\ UNCHANGED <<edit, got, overlapped>>
  <2>1. got' = [got EXCEPT ![w] = got[w]] BY <1>3 DEF ProjectsInv, EditsOK
  <2> QED BY <1>1, <1>3, <2>1, StepKeeps DEF EditSteps
<1> QED BY <1>2, <1>3 DEF CountProject

\* A write: every request that has read something is overlapped, and what it
\* leaves behind is one level deep as long as no overlapped request has written.
LEMMA WriteKeeps ==
    ASSUME ProjectsInv, NEW w \in Admins, NEW p \in ProjectRecords, Written(w, p), edit[w] \in Edits,
           Plain(p), p.live = "no" => p.members = {},
           w \notin overlapped => MayStore(edit[w].id, p.members),
           step[w] \in {"save", "tombstone"}
    PROVE  RowsOK' /\ EditsOK' /\ EditsCurrent' /\ AggregatesSound'
<1> DEFINE id == edit[w].id
<1>0. id \in Range(Ids) BY EditShape
<1>1. RowsOK'
  BY <1>0 DEF Written, ProjectsInv, RowsOK
<1>2. EditsOK'
  BY ProjectShape DEF Written, ProjectsInv, EditsOK
<1>3. EditsCurrent'
  <2> SUFFICES ASSUME NEW v \in Admins, v \notin overlapped', step'[v] = "save" PROVE FALSE
    BY DEF EditsCurrent
  <2>1. v # w /\ step[v] = "save" BY DEF Written, ProjectsInv, EditsOK
  <2> QED BY <2>1 DEF Written
<1>4. AggregatesSound'
  <2>1. \A q \in Range(Ids) : projectRow'[q] = IF q = id THEN p ELSE projectRow[q]
    BY DEF Written, ProjectsInv, RowsOK
  <2>2. \A q \in Aggregates' : projectRow'[q].days = 0
    BY <1>1 DEF RowsOK, Plain, Aggregates, ProjectRecords
  <2>3. ASSUME raced' = {}, NEW q \in Aggregates' PROVE Aggregates' \cap projectRow'[q].members = {}
    <3>1. raced = {} /\ w \notin overlapped BY <2>3 DEF Written
    <3>2. /\ MayStore(id, p.members)
          /\ \A a \in Aggregates : Aggregates \cap projectRow[a].members = {}
      BY <3>1 DEF ProjectsInv, AggregatesSound
    <3>3. /\ Aggregates' \ {id} = Aggregates \ {id} /\ q \in Range(Ids)
          /\ id \in Aggregates' => p.live = "yes" /\ p.members # {}
          /\ \A a \in Aggregates : a \in Range(Ids) /\ projectRow[a].live = "yes" /\ projectRow[a].members # {}
      BY <1>0, <2>1, <2>3 DEF Aggregates
    <3>4. CASE p.members = {}
      BY <2>1, <2>3, <3>2, <3>3, <3>4
    <3>5. CASE projectRow[id].live = "yes" /\ p.members = projectRow[id].members
      <4>1. Aggregates' \subseteq Aggregates
        BY <1>0, <3>3, <3>5 DEF Aggregates
      <4> QED BY <2>1, <2>3, <3>2, <3>3, <3>5, <4>1
    <3>6. CASE id \notin p.members /\ OneLevel(id, p.members)
      BY <2>1, <2>3, <3>2, <3>3, <3>6 DEF OneLevel
    <3> QED BY <3>2, <3>4, <3>5, <3>6 DEF MayStore
  <2> QED BY <2>2, <2>3 DEF AggregatesSound
<1> QED BY <1>1, <1>2, <1>3, <1>4

\* While nothing is written to the table of projects, its rows stay sound.
LEMMA RowsStay ==
    ASSUME RowsOK, AggregatesSound, UNCHANGED <<projectRow, raced>>
    PROVE  RowsOK' /\ AggregatesSound'
BY DEF RowsOK, AggregatesSound, Aggregates

\* The trimmer's books, while it is the requests that move.
LEMMA JobsStay ==
    ASSUME JobsOK, BusyOK, UNCHANGED trimVars,
           windows' \in [Range(Ids) -> SUBSET Nat],
           jobs # {} => \A i \in Range(Ids) : windows[i] \subseteq windows'[i]
    PROVE  JobsOK' /\ BusyOK'
BY DEF JobsOK, BusyOK, trimVars

\* Every request keeps the invariant.
LEMMA AdminKeeps == ASSUME ProjectsInv, AdminNext PROVE ProjectsInv'
<1> PICK w \in Admins : \/ \E e \in Edits : StartEdit(w, e)
                        \/ GetProject(w) \/ ListMembers(w) \/ SaveProject(w)
                        \/ CountProject(w) \/ DeleteProject(w) \/ CallFails(w)
  BY DEF AdminNext
<1>a. RowsOK /\ EditsOK /\ EditsCurrent /\ AggregatesSound /\ JobsOK /\ BusyOK
  BY DEF ProjectsInv
<1>b. ASSUME EditsOK', EditsCurrent', UNCHANGED <<projectRow, raced, trimVars, windows>> PROVE ProjectsInv'
  <2>1. JobsOK' /\ BusyOK' BY <1>a, <1>b, JobsStay DEF JobsOK
  <2> QED BY <1>a, <1>b, <2>1, RowsStay DEF ProjectsInv
<1>c. ASSUME NEW p \in ProjectRecords, Written(w, p) PROVE JobsOK' /\ BusyOK'
  <2>1. windows' \in [Range(Ids) -> SUBSET Nat] /\ (jobs # {} => \A i \in Range(Ids) : windows[i] \subseteq windows'[i])
    BY <1>a, <1>c DEF Written, JobsOK, ProjectRecords
  <2> QED BY <1>a, <1>c, <2>1, JobsStay DEF Written
<1>1. ASSUME NEW e \in Edits, StartEdit(w, e) PROVE ProjectsInv'
  BY <1>1, <1>b, StartKeeps DEF StartEdit
<1>2. CASE GetProject(w) BY <1>2, <1>b, GetKeeps DEF GetProject
<1>3. CASE ListMembers(w) BY <1>3, <1>b, ListKeeps DEF ListMembers
<1>4. CASE CountProject(w) BY <1>4, <1>b, CountKeeps DEF CountProject
<1>5. CASE CallFails(w) BY <1>a, <1>5, <1>b, FinishKeeps DEF CallFails
<1>6. CASE SaveProject(w)
  <2>1. /\ edit[w] \in Edits /\ got[w] \in ProjectRecords /\ Plain(got[w]) /\ got[w].live = "yes"
        /\ w \notin overlapped => MayStore(edit[w].id, got[w].members)
        /\ step[w] = "save" /\ Written(w, got[w])
    BY <1>a, <1>6 DEF SaveProject, EditsOK, EditsCurrent
  <2> QED BY <1>c, <2>1, WriteKeeps DEF ProjectsInv
<1>7. CASE DeleteProject(w)
  <2>1. edit[w] \in Edits /\ step[w] = "tombstone" /\ Written(w, Tombstone)
    BY <1>a, <1>7 DEF DeleteProject, EditsOK
  <2>2. MayStore(edit[w].id, Tombstone.members) BY ProjectShape DEF MayStore
  <2> QED BY <1>c, <2>1, <2>2, WriteKeeps, ProjectShape DEF ProjectsInv
<1> QED BY <1>1, <1>2, <1>3, <1>4, <1>5, <1>6, <1>7

\* The trimmer's steps leave the requests and the projects alone.
LEMMA AdminsStay ==
    ASSUME RowsOK, EditsOK, EditsCurrent, AggregatesSound, UNCHANGED adminVars
    PROVE  RowsOK' /\ EditsOK' /\ EditsCurrent' /\ AggregatesSound'
BY DEF RowsOK, EditsOK, EditsCurrent, AggregatesSound, adminVars, MayStore, OneLevel, Aggregates

\* The tables a trim visits, by their places.
LEMMA TablesListed ==
    /\ Len(TrimTables) \in Nat \ {0} /\ DOMAIN TrimTables = 1 .. Len(TrimTables)
    /\ \A k \in 1 .. Len(TrimTables) : TrimTables[k] \in Range(TrimTables)
    /\ Range(Ids) = {Ids[i] : i \in DOMAIN Ids}
BY ProjectsAssumption DEF Range

\* planTrim: every job stands for a window its project has now.
LEMMA SweepKeeps == ASSUME ProjectsInv, StartSweep PROVE JobsOK' /\ BusyOK'
<1>1. \A job \in planTrim : /\ job.tenant \in Range(Ids) /\ job.days > 0
                            /\ job.days = projectRow[job.tenant].days /\ projectRow[job.tenant].members = {}
  BY DEF planTrim
<1>2. JobsOK'
  <2>1. windows' \in [Range(Ids) -> SUBSET Nat]
    BY DEF StartSweep, ProjectsInv, JobsOK, RowsOK, ProjectRecords
  <2>2. CASE planTrim = {} BY <2>1, <2>2 DEF StartSweep, JobsOK
  <2>3. CASE planTrim # {} BY <1>1, <2>1, <2>3 DEF StartSweep, JobsOK
  <2> QED BY <2>2, <2>3
<1>3. BusyOK'
  BY TablesListed DEF StartSweep, ProjectsInv, BusyOK
<1> QED BY <1>2, <1>3

\* TrimTenant looks which tables have a mutation of their own.
LEMMA TenantKeeps == ASSUME ProjectsInv, StartTenant PROVE JobsOK' /\ BusyOK'
<1>1. JobsOK' BY DEF StartTenant, ProjectsInv, JobsOK
<1>2. BusyOK' BY TablesListed DEF StartTenant, ProjectsInv, BusyOK, Running
<1> QED BY <1>1, <1>2

\* A tenant is done, or given up.
LEMMA NextTenantKeeps ==
    ASSUME ProjectsInv, NEW job \in jobs, NextTenant(job), mutations' \in [Range(TrimTables) -> SUBSET Rows]
    PROVE  JobsOK' /\ BusyOK'
<1>1. JobsOK' BY DEF NextTenant, ProjectsInv, JobsOK
<1>2. BusyOK' BY TablesListed DEF NextTenant, BusyOK
<1> QED BY <1>1, <1>2

\* One table of a tenant: the next ones have no mutation that was not seen.
LEMMA TableKeeps == ASSUME ProjectsInv, TrimTable PROVE JobsOK' /\ BusyOK'
<1>1. PICK job \in jobs :
        /\ table > 0
        /\ \/ UNCHANGED mutations
           \/ mutations' = [mutations EXCEPT ![TrimTables[table]] = @ \cup Overdue(job.tenant, TrimTables[table], job.days)]
        /\ NextTable(job)
  BY DEF TrimTable
<1>2. mutations' \in [Range(TrimTables) -> SUBSET Rows]
  BY <1>1 DEF ProjectsInv, BusyOK, Overdue
<1>3. CASE table = Len(TrimTables)
  BY <1>1, <1>2, <1>3, NextTenantKeeps DEF NextTable
<1>4. CASE table # Len(TrimTables)
  <2>1. table' = table + 1 /\ UNCHANGED <<jobs, busy, windows>> BY <1>1, <1>4 DEF NextTable
  <2>2. JobsOK' BY <2>1 DEF ProjectsInv, JobsOK
  <2>3. table \in 1 .. Len(TrimTables) /\ table + 1 \in 0 .. Len(TrimTables)
    <3>1. table \in 0 .. Len(TrimTables) /\ table > 0 BY <1>1 DEF ProjectsInv, BusyOK
    <3>2. \A n \in Nat : \A t \in 0 .. n : t > 0 /\ t # n => t \in 1 .. n /\ t + 1 \in 0 .. n
      OBVIOUS
    <3>3. Len(TrimTables) \in Nat BY TablesListed
    <3> QED BY <3>1, <3>2, <3>3, <1>4
  <2>4. ASSUME NEW k \in table + 1 .. Len(TrimTables) PROVE mutations'[TrimTables[k]] = mutations[TrimTables[k]]
    <3>1. TrimTables[k] # TrimTables[table] /\ TrimTables[k] \in Range(TrimTables)
      BY <2>3, TablesListed, ProjectsAssumption
    <3> QED BY <1>1, <3>1 DEF ProjectsInv, BusyOK
  <2>5. BusyOK'
    BY <1>1, <1>2, <2>1, <2>3, <2>4, TablesListed DEF ProjectsInv, BusyOK
  <2> QED BY <2>2, <2>5
<1> QED BY <1>3, <1>4

\* The trimmer, the store and the clock keep the invariant.
LEMMA TrimKeeps == ASSUME ProjectsInv, TrimNext PROVE ProjectsInv'
<1>a. RowsOK /\ EditsOK /\ EditsCurrent /\ AggregatesSound /\ JobsOK /\ BusyOK
  BY DEF ProjectsInv
<1>b. UNCHANGED adminVars
  BY DEF TrimNext, Trim, StartSweep, StartTenant, TrimTable, TrimFails, Day, MutationDone, Ingest
<1>c. ASSUME JobsOK', BusyOK' PROVE ProjectsInv'
  BY <1>a, <1>b, <1>c, AdminsStay DEF ProjectsInv
<1>1. CASE StartSweep BY <1>1, <1>c, SweepKeeps
<1>2. CASE StartTenant BY <1>2, <1>c, TenantKeeps
<1>3. CASE TrimTable BY <1>3, <1>c, TableKeeps
<1>4. CASE TrimFails
  <2>1. mutations' \in [Range(TrimTables) -> SUBSET Rows] BY <1>a, <1>4 DEF TrimFails, BusyOK
  <2> QED BY <1>4, <2>1, <1>c, NextTenantKeeps DEF TrimFails
<1>5. CASE Day
  <2>1. JobsOK' BY <1>a, <1>5 DEF Day, JobsOK
  <2>2. /\ mutations' \in [Range(TrimTables) -> SUBSET Rows] /\ UNCHANGED <<table, busy>>
        /\ \A t \in Range(TrimTables) : mutations'[t] \subseteq mutations[t]
    BY <1>a, <1>5 DEF Day, BusyOK
  <2>3. BusyOK' BY <1>a, <2>2, TablesListed DEF BusyOK
  <2> QED BY <1>c, <2>1, <2>3
<1>6. ASSUME NEW t \in Range(TrimTables), MutationDone(t) PROVE ProjectsInv'
  <2>1. JobsOK' BY <1>a, <1>6 DEF MutationDone, JobsOK
  <2>2. BusyOK' BY <1>a, <1>6, TablesListed DEF MutationDone, BusyOK
  <2> QED BY <1>c, <2>1, <2>2
<1>7. ASSUME NEW r \in Rows, NEW d \in 0 .. MaxAge, Ingest(r, d) PROVE ProjectsInv'
  BY <1>a, <1>7, <1>c DEF Ingest, JobsOK, BusyOK
<1> QED BY <1>1, <1>2, <1>3, <1>4, <1>5, <1>6, <1>7 DEF TrimNext, Trim

\* The invariant behind project edits and their retention windows: every row and
\* every pending write is one the handlers accept, a write nobody overlapped is
\* still as valid as when it was checked, every trim job stands for a window its
\* project has had since the sweep began, and the tables a trim has still to
\* visit had no mutation of their own when it looked.
THEOREM ProjectsInvariant == ProjectsSpec => []ProjectsInv
<1>1. ProjectsInit => ProjectsInv
  <2> SUFFICES ASSUME ProjectsInit PROVE ProjectsInv
    OBVIOUS
  <2>1. PICK p \in {Tombstone, NewProject(0)} : projectRow = [i \in Range(Ids) |-> p]
    BY DEF ProjectsInit
  <2>2. p \in ProjectRecords /\ Plain(p) /\ p.members = {}
    BY <2>1, ProjectShape DEF ValidDays
  <2>3. RowsOK /\ AggregatesSound BY <2>1, <2>2 DEF RowsOK, AggregatesSound, Aggregates
  <2>4. EditsOK /\ EditsCurrent BY ProjectShape DEF ProjectsInit, EditsOK, EditsCurrent
  <2>5. JobsOK /\ BusyOK BY TablesListed DEF ProjectsInit, JobsOK, BusyOK
  <2> QED BY <2>3, <2>4, <2>5 DEF ProjectsInv
<1>2. ProjectsInv /\ [ProjectsNext]_projectsVars => ProjectsInv'
  <2> SUFFICES ASSUME ProjectsInv, UNCHANGED projectsVars PROVE ProjectsInv'
    BY AdminKeeps, TrimKeeps DEF ProjectsNext
  <2>1. RowsOK' /\ EditsOK' /\ EditsCurrent' /\ AggregatesSound'
    BY AdminsStay DEF ProjectsInv, projectsVars
  <2>2. JobsOK' /\ BusyOK' BY DEF ProjectsInv, projectsVars, trimVars, JobsOK, BusyOK
  <2> QED BY <2>1, <2>2 DEF ProjectsInv
<1> QED BY <1>1, <1>2, PTL DEF ProjectsSpec

\* An aggregate never has a window of its own, and never an aggregate among its
\* members unless an overlapped request has written (validateMembers,
\* projects.go:237-350), for any projects, tenants and concurrent admins.
THEOREM AggregatesSoundHolds == ProjectsSpec => []AggregatesSound
<1>1. ProjectsInv => AggregatesSound
  BY DEF ProjectsInv
<1> QED BY <1>1, ProjectsInvariant, PTL

Earned == \A t \in Range(TrimTables) : \A r \in mutations'[t] \ mutations[t] :
              r[1] \in Range(Ids) /\ \E d \in windows[r[1]] : d > 0 /\ age[r] > d
OneEach == \A t \in Range(TrimTables) : mutations[t] # {} => mutations'[t] \subseteq mutations[t]

\* What a step deletes its job is there for, and its project had that window.
LEMMA StepsEarn ==
    ASSUME ProjectsInv, ProjectsNext
    PROVE  Earned
<1> USE DEF Earned
<1>1. CASE AdminNext
  BY <1>1 DEF AdminNext, StartEdit, GetProject, ListMembers, SaveProject, CountProject, DeleteProject,
                CallFails, Written, trimVars
<1>2. CASE StartSweep \/ StartTenant \/ TrimFails
  BY <1>2 DEF StartSweep, StartTenant, TrimFails
<1>3. CASE TrimTable
  <2>1. PICK job \in jobs :
          \/ UNCHANGED mutations
          \/ mutations' = [mutations EXCEPT ![TrimTables[table]] = @ \cup Overdue(job.tenant, TrimTables[table], job.days)]
    BY <1>3 DEF TrimTable
  <2>2. job.tenant \in Range(Ids) /\ job.days > 0 /\ job.days \in windows[job.tenant]
    BY DEF ProjectsInv, JobsOK
  <2> QED BY <2>1, <2>2 DEF Overdue, ProjectsInv, BusyOK
<1>4. CASE Day BY <1>4 DEF Day, ProjectsInv, BusyOK
<1>5. ASSUME NEW t \in Range(TrimTables), MutationDone(t) PROVE Earned
  BY <1>5 DEF MutationDone, ProjectsInv, BusyOK
<1>6. ASSUME NEW r \in Rows, NEW d \in 0 .. MaxAge, Ingest(r, d) PROVE Earned
  BY <1>6 DEF Ingest
<1> QED BY <1>1, <1>2, <1>3, <1>4, <1>5, <1>6 DEF ProjectsNext, TrimNext, Trim

\* A step queues no mutation behind one that is still running on its table.
LEMMA StepsWait ==
    ASSUME ProjectsInv, ProjectsNext
    PROVE  OneEach
<1> USE DEF OneEach
<1>1. CASE AdminNext
  BY <1>1 DEF AdminNext, StartEdit, GetProject, ListMembers, SaveProject, CountProject, DeleteProject,
                CallFails, Written, trimVars
<1>2. CASE StartSweep \/ StartTenant \/ TrimFails
  BY <1>2 DEF StartSweep, StartTenant, TrimFails
<1>3. CASE TrimTable
  <2>1. /\ table > 0
        /\ \/ UNCHANGED mutations
           \/ /\ TrimTables[table] \notin busy
              /\ \E old : mutations' = [mutations EXCEPT ![TrimTables[table]] = @ \cup old]
    BY <1>3 DEF TrimTable
  <2>2. table \in table .. Len(TrimTables) BY <2>1, TablesListed DEF ProjectsInv, BusyOK
  <2> QED BY <2>1, <2>2 DEF ProjectsInv, BusyOK
<1>4. CASE Day BY <1>4 DEF Day, ProjectsInv, BusyOK
<1>5. ASSUME NEW t \in Range(TrimTables), MutationDone(t) PROVE OneEach
  BY <1>5 DEF MutationDone, ProjectsInv, BusyOK
<1>6. ASSUME NEW r \in Rows, NEW d \in 0 .. MaxAge, Ingest(r, d) PROVE OneEach
  BY <1>6 DEF Ingest
<1> QED BY <1>1, <1>2, <1>3, <1>4, <1>5, <1>6 DEF ProjectsNext, TrimNext, Trim

\* What the trimmer deletes is overdue under a window its project has had since
\* the sweep began, and no mutation waits behind another of its table (planTrim,
\* TrimTenant), for any projects, tables and rows.
THEOREM TrimEarnedHolds == ProjectsSpec => TrimEarned
<1> DEFINE Trims == \A t \in Range(TrimTables) : LET begun == mutations'[t] \ mutations[t] IN
              /\ begun # {} => mutations[t] = {}
              /\ \A r \in begun : r[1] \in Range(Ids) /\ \E d \in windows[r[1]] : d > 0 /\ age[r] > d
<1>1. ProjectsInv /\ [ProjectsNext]_projectsVars => [Trims]_projectsVars
  <2>1. Earned /\ OneEach => Trims BY DEF Earned, OneEach
  <2> QED BY <2>1, StepsEarn, StepsWait
<1> QED BY <1>1, ProjectsInvariant, PTL DEF ProjectsSpec, TrimEarned
===============================================================================
