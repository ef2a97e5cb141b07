---------------------------------- MODULE Api ----------------------------------
(***************************************************************************)
(* One request through the hub's HTTP API (hub/internal/api): the guard    *)
(* around the route, the handler's steps one by one, the answer.  Between  *)
(* the steps the store may fail, the memo of the project list may expire   *)
(* and an administrator may change which projects an aggregate spans, here *)
(* or on another replica.                                                  *)
(***************************************************************************)
EXTENDS ApiRoutes, Integers

CONSTANTS
    None,             \* no project, no identity
    A, B, Agg,        \* two projects of their own, and one that may span them
    MaxEdits          \* bound: edits of the membership during the request

Projects == {A, B, Agg}
DefaultTenant == A
Modules == {"logs", "infra-metrics", "profiling", "error-tracking", "service-health", "alerting",
            "mesh", "mesh-config", "green", "cost", "ai", "mcp"}

VARIABLES
    call,       \* what does not change: route, caller, header, origin and the installation
    ip,         \* the step the request is at, 0 in front of the guard
    identity,   \* the grants it runs with, None where there are no accounts
    bound,      \* the project its credential is bound to, or None
    proj,       \* the project it was authorized for, or None
    tenants,    \* the tenants it reads
    view,       \* the cluster: "unread", "none", "whole", "narrow"
    reads,      \* the tenants whose telemetry was read
    writes,     \* what was written: <<kind, where>>
    status,     \* "open", or how the request ended
    members,    \* what Agg spans
    memo        \* [val, fresh]: the memo of the project list

reqVars == <<ip, identity, bound, proj, tenants, view, reads, writes, status>>
vars == <<call, reqVars, members, memo>>

-----------------------------------------------------------------------------
Route == Routes[call.route]

\* auth.Identity
RoleFor(id, p) == LET ranks == {roleRank(g[2]) : g \in {h \in id.grants : h[1] = "*" \/ h[1] = p}}
                  IN  IF ranks = {} THEN 0 ELSE CHOOSE x \in ranks : \A y \in ranks : y <= x
CanAccess(id, p, min) == RoleFor(id, p) >= roleRank(min)
IsAdmin(id) == <<"*", "admin">> \in id.grants
HasWildcard(id) == \E g \in id.grants : g[1] = "*"
holdsAnywhere(id, min) == \E g \in id.grants : roleRank(g[2]) >= roleRank(min)

Identity(grants, anon) == [grants |-> grants, anon |-> anon]
NoOne == Identity({}, "yes")

\* The verdicts of the guard: let through with an identity, or a status.
Through(id) == [status |-> "open", id |-> id, bound |-> None]
Turned(code) == [status |-> code, id |-> NoOne, bound |-> None]

\* Mutant of requestIdentity: whatever the lookup says, the visitor is someone
\* who has not signed in.
requestIdentityLax(c, store_, anon) ==
    IF store_ = "up" /\ c.live = "yes" /\ c.cred \in {"token", "session"}
    THEN Through(Identity(c.grants, "no"))
    ELSE IF anon = None THEN Turned("401") ELSE Through(anon)

\* requestIdentity: a bearer credential stands or falls by itself; a session
\* that is gone leaves the visitor anonymous, where that is allowed; a store
\* that cannot tell is neither.
requestIdentity(c, store_, anon) ==
    LET Visitor == IF anon = None THEN Turned("401") ELSE Through(anon)
        Lookup(missing) == CASE store_ = "down" -> Turned("503")
                             [] store_ = "up" /\ c.live = "yes" -> Through(Identity(c.grants, "no"))
                             [] store_ = "up" /\ c.live = "no" -> missing
    IN  CASE c.cred = "oauth" -> Turned("401")
          [] c.cred = "token" -> Lookup(Turned("401"))
          [] c.cred = "session" -> Lookup(Visitor)
          [] c.cred = "none" -> Visitor

\* requestIdentityForResource: an access token of the authorization server, good
\* for the resource and the scope it was issued for, and bound to a project.
requestIdentityForResource(c, store_, anon) ==
    IF c.cred # "oauth" THEN requestIdentity(c, store_, anon)
    ELSE CASE store_ = "down" -> Turned("503")
           [] store_ = "up" /\ (c.live = "no" \/ c.resource # "mcp") -> Turned("401")
           [] store_ = "up" /\ c.live = "yes" /\ c.resource = "mcp" ->
                IF c.scope = "mcp:read"
                THEN [Through(Identity(c.grants, "no")) EXCEPT !.bound = c.bound]
                ELSE Turned("403")

\* checkOrigin: browsers name the origin of a write.
OriginRefused ==
    Route.method # "GET" /\ call.origin = "foreign" /\ call.originCheck = "enforce"

\* Mutant of Guard: an administrator of any project passes for one of the hub.
GuardAnywhere(store_) ==
    LET v == requestIdentity(call.caller, store_, call.anon)
        min == IF Route.guard \in {"viewer", "editor", "admin"} THEN Route.guard ELSE "viewer"
    IN  IF OriginRefused THEN Turned("403")
        ELSE IF v.status # "open" \/ holdsAnywhere(v.id, min) THEN v ELSE Turned("403")

\* secured, authenticated, securedAdmin, securedResource.
Guard(store_) ==
    LET g == Route.guard
        v == IF g = "resource" THEN requestIdentityForResource(call.caller, store_, call.anon)
             ELSE requestIdentity(call.caller, store_, call.anon)
    IN  IF OriginRefused THEN Turned("403")
        ELSE IF v.status # "open" THEN v
        ELSE CASE g = "authenticated" -> v
               [] g = "admin" -> IF IsAdmin(v.id) THEN v ELSE Turned("403")
               [] g = "resource" -> IF holdsAnywhere(v.id, "viewer") THEN v ELSE Turned("403")
               [] g \in {"viewer", "editor"} -> IF holdsAnywhere(v.id, g) THEN v ELSE Turned("403")

\* The request meets its guard; a public route and a hub without accounts have
\* none.
Enter ==
    /\ ip = 0 /\ status = "open"
    /\ \/ /\ call.auth = "off" \/ Route.guard = "public"
          /\ ip' = 1
          /\ UNCHANGED <<identity, bound, status>>
       \/ /\ call.auth = "on" /\ Route.guard # "public"
          /\ \E store_ \in {"up", "down"} :
               LET v == Guard(store_) IN
               /\ status' = v.status /\ bound' = v.bound
               /\ identity' = IF v.status = "open" THEN v.id ELSE None
               /\ ip' = IF v.status = "open" THEN 1 ELSE 0
    /\ UNCHANGED <<call, proj, tenants, view, reads, writes, members, memo>>

-----------------------------------------------------------------------------
Steps == Route.steps
Here == Steps[ip]
At(do) == status = "open" /\ ip \in 1..Len(Steps) /\ Here.do = do

Holds(c) == CASE c[1] = "with" -> c[2] \in call.modules
              [] c[1] = "without" -> c[2] \notin call.modules
              [] c[1] = "narrowed" -> view = "whole" /\ identity # None /\ ~HasWildcard(identity)
              [] c[1] = "unread" -> view \in {"unread", "none"}
Taken == \A c \in Here.when : Holds(c)

\* The step is done and the handler goes on.
Advance == ip' = ip + 1 /\ status' = status
\* The step fails: the request ends, or the handler goes on without the block,
\* and without a cluster it was about to narrow.
Fail(code) ==
    IF Here.skip = 0
    THEN status' = code /\ UNCHANGED <<ip, view>>
    ELSE /\ ip' = ip + Here.skip /\ status' = status
         /\ view' = IF view = "whole" /\ identity # None /\ ~HasWildcard(identity)
                    THEN "none" ELSE view

\* A step whose condition does not hold.
Pass ==
    /\ status = "open" /\ ip \in 1..Len(Steps) /\ ~Taken
    /\ Advance
    /\ UNCHANGED <<call, identity, bound, proj, tenants, view, reads, writes, members, memo>>

\* Steps that look at the request, at what was read, or at the identity.
Check ==
    /\ \E do \in {"param", "expect", "refuse", "store", "control", "identity", "origin", "bind"} :
         At(do) /\ Taken
    /\ \/ /\ Here.do # "refuse"
          /\ Here.do = "identity" => identity # None /\ CASE Here.what = "any" -> TRUE
                                       [] Here.what = "named" -> identity.anon = "no"
                                       [] Here.what = "admin" -> IsAdmin(identity)
          /\ Here.do = "origin" => ~OriginRefused
          /\ Here.do = "bind" => CanAccess(identity, call.wanted, Here.what)
          /\ Advance /\ UNCHANGED view
       \/ Here.do \in {"param", "expect", "refuse"} /\ Fail("400")
       \/ Here.do = "store" /\ Fail("503")
       \/ Here.do = "control" /\ Fail("500")
       \/ /\ Here.do = "identity"
          /\ \/ identity = None
             \/ identity # None /\ Here.what = "named" /\ identity.anon = "yes"
             \/ identity # None /\ Here.what = "admin" /\ ~IsAdmin(identity)
          /\ Fail("403")
       \/ Here.do = "origin" /\ OriginRefused /\ Fail("403")
       \/ Here.do = "bind" /\ ~CanAccess(identity, call.wanted, Here.what) /\ Fail("403")
    /\ UNCHANGED <<call, identity, bound, proj, tenants, reads, writes, members, memo>>

\* Only where the data asks for it.
Choose ==
    /\ At("choose") /\ Taken
    /\ ip' \in {ip + 1, ip + Here.skip}
    /\ UNCHANGED <<call, identity, bound, proj, tenants, view, reads, writes, status, members, memo>>

-----------------------------------------------------------------------------

\* project: the header's project, or the one the credential is bound to.
project_(t, min) == identity # None => CanAccess(identity, t, min)

ResolveProject ==
    /\ At("project") /\ Taken
    /\ LET named == IF call.wanted = None THEN DefaultTenant ELSE call.wanted
           t == IF bound = None THEN named ELSE bound
       IN  \/ /\ bound = None \/ call.wanted \in {None, bound}
              /\ project_(t, Here.what)
              /\ proj' = t /\ Advance /\ UNCHANGED view
           \/ /\ ~(bound = None \/ call.wanted \in {None, bound}) \/ ~project_(t, Here.what)
              /\ Fail("403") /\ UNCHANGED proj
    /\ UNCHANGED <<call, identity, bound, tenants, reads, writes, members, memo>>

\* dbProjectsCached: the memo while it is fresh, else the store's list.
Refreshed == IF memo.fresh = "yes" THEN memo ELSE [val |-> members, fresh |-> "yes"]
Spans(m, p) == IF p = Agg THEN m.val ELSE {}

\* Mutant of resolveTenants: a grant on the aggregate is a grant on its members.
resolveTenantsAll(m, p) == IF Spans(m, p) = {} THEN {p} ELSE Spans(m, p)

\* resolveTenants: a project stands for itself, an aggregate for those of its
\* members that the identity was granted.
resolveTenants(m, p) ==
    IF Spans(m, p) = {} THEN {p}
    ELSE IF identity = None THEN Spans(m, p)
    ELSE {t \in Spans(m, p) : RoleFor(identity, t) > 0}

ResolveTenants ==
    /\ At("tenants") /\ Taken
    /\ \/ /\ memo' = Refreshed
          /\ LET ts == resolveTenants(Refreshed, proj) IN
             IF ts = {} THEN Fail("403") /\ UNCHANGED tenants
             ELSE tenants' = ts /\ Advance /\ UNCHANGED view
       \/ memo.fresh = "no" /\ Fail("500") /\ UNCHANGED <<tenants, memo>>
    /\ UNCHANGED <<call, identity, bound, proj, reads, writes, members>>

\* isAggregate: 409 on a write to one.  (A key is created on the project of the
\* path, which the header stands for here.)
Target == IF proj = None THEN (IF call.wanted = None THEN DefaultTenant ELSE call.wanted) ELSE proj
IsLeaf ==
    /\ At("leaf") /\ Taken
    /\ \/ /\ memo' = Refreshed
          /\ IF Spans(Refreshed, Target) = {} THEN Advance /\ UNCHANGED view ELSE Fail("409")
       \/ memo.fresh = "no" /\ Fail("500") /\ UNCHANGED memo
    /\ UNCHANGED <<call, identity, bound, proj, tenants, reads, writes, members>>

\* A query reads the tenants it is given.
RunQuery ==
    /\ \E do \in {"query", "queryOne"} : At(do) /\ Taken
    /\ \/ /\ reads' = reads \cup IF Here.do = "query" THEN tenants ELSE {proj}
          /\ Advance /\ UNCHANGED view
       \/ Fail("500") /\ UNCHANGED reads
    /\ UNCHANGED <<call, identity, bound, proj, tenants, writes, members, memo>>

\* A write: into the project, into the hub's configuration, or of the caller's
\* own.
RunWrite ==
    /\ \E do \in {"write", "save", "own"} : At(do) /\ Taken
    /\ \/ /\ writes' = writes \cup {<<Here.do, IF Here.do = "write" THEN proj ELSE Here.what>>}
          /\ Advance /\ UNCHANGED view
       \/ Fail("500") /\ UNCHANGED writes
    /\ UNCHANGED <<call, identity, bound, proj, tenants, reads, members, memo>>

\* meshSnapshot: the configuration reader's last snapshot, or none yet; narrowed
\* to the project's namespaces for an identity that does not see everything.
ReadCluster ==
    /\ \E do \in {"cluster", "narrow"} : At(do) /\ Taken
    /\ view' \in IF Here.do = "narrow" THEN {"narrow"} ELSE {"none", "whole"}
    /\ Advance
    /\ UNCHANGED <<call, identity, bound, proj, tenants, reads, writes, members, memo>>

\* The handler answers.
Reply ==
    /\ status = "open" /\ ip > 0
    /\ ip > Len(Steps) \/ (At("answer") /\ Taken)
    /\ status' = "200"
    /\ UNCHANGED <<call, ip, identity, bound, proj, tenants, view, reads, writes, members, memo>>

-----------------------------------------------------------------------------
\* The memo's thirty seconds are over.
MemoExpires ==
    /\ status = "open" /\ memo.fresh = "yes" /\ Agg \in {call.wanted, bound}
    /\ memo' = [memo EXCEPT !.fresh = "no"]
    /\ UNCHANGED <<call, reqVars, members>>

\* The aggregate's membership is edited: on this replica, which then drops its
\* memo (invalidateProjects), or on another.
EditMembers ==
    /\ status = "open" /\ call.edits < MaxEdits /\ Agg \in {call.wanted, bound}
    /\ call' = [call EXCEPT !.edits = @ + 1]
    /\ \E ms \in SUBSET {A, B} : ms # members /\ members' = ms
    /\ memo' \in {memo, [memo EXCEPT !.fresh = "no"]}
    /\ UNCHANGED reqVars

\* The request is over.
Finished == status # "open" /\ UNCHANGED vars

Next == \/ Enter \/ Pass \/ Check \/ Choose \/ ResolveProject \/ ResolveTenants \/ IsLeaf
        \/ RunQuery \/ RunWrite \/ ReadCluster \/ Reply
        \/ MemoExpires \/ EditMembers \/ Finished

-----------------------------------------------------------------------------
Who(cred, live, grants) == [cred |-> cred, live |-> live, grants |-> grants,
                            bound |-> None, resource |-> None, scope |-> None]
OAuth(grants, p) == [Who("oauth", "yes", grants) EXCEPT !.bound = p, !.resource = "mcp",
                                                        !.scope = "mcp:read"]

Callers ==
    {Who("session", "yes", {<<"*", "admin">>}), Who("session", "yes", {<<"*", "viewer">>}),
     Who("session", "yes", {<<A, "admin">>, <<B, "viewer">>}), Who("session", "yes", {<<Agg, "viewer">>}),
     Who("session", "yes", {<<Agg, "viewer">>, <<A, "editor">>}), Who("session", "yes", {}),
     Who("session", "no", {}), Who("token", "yes", {<<B, "editor">>}), Who("token", "no", {}),
     OAuth({<<"*", "viewer">>}, A), OAuth({<<Agg, "viewer">>, <<B, "viewer">>}, Agg),
     [OAuth({<<"*", "viewer">>}, A) EXCEPT !.resource = "elsewhere"],
     [OAuth({<<"*", "viewer">>}, A) EXCEPT !.scope = "offline_access"],
     Who("none", "no", {})}

AsksProject(r) == \E i \in DOMAIN r.steps : r.steps[i].do \in {"project", "leaf", "bind"}
Conditions(r) == UNION {r.steps[i].when : i \in DOMAIN r.steps}
\* An installation, and a request to it: only what the route can tell apart.  A
\* write that names no origin passes like one from the hub's own; an origin
\* check that is off refuses as little as one that logs.
Calls ==
    UNION {LET r == Routes[i] IN
           [route : {i},
            caller : IF r.guard = "public" THEN {Who("none", "no", {})}
                     ELSE IF r.guard = "resource" THEN Callers
                     ELSE {c \in Callers : c.cred # "oauth" \/ c.resource = "elsewhere"},
            wanted : IF AsksProject(r) THEN {None, B, Agg} ELSE {None},
            origin : IF r.method = "GET" THEN {"own"} ELSE {"own", "foreign"},
            originCheck : IF r.method = "GET" THEN {"enforce"} ELSE {"enforce", "log"},
            auth : {"on"} \cup (IF "auth" \in r.mods THEN {} ELSE {"off"}),
            anon : {None, Identity({<<A, "viewer">>}, "yes")},
            modules : {Modules} \cup {Modules \ {c[2]} : c \in {d \in Conditions(r) :
                                        d[1] \in {"with", "without"} /\ d[2] \notin r.mods}},
            edits : {0}]
           : i \in DOMAIN Routes}

Sensible(c) ==
    /\ c.auth = "off" => c.caller.cred = "none" /\ c.anon = None
    /\ c.anon # None => c.caller.live = "no"
    /\ c.originCheck # "enforce" => c.origin = "foreign"
    /\ Routes[c.route].guard = "public" => c.anon = None

Arrives(calls) ==
    /\ call \in calls
    /\ ip = 0 /\ identity = None /\ bound = None /\ proj = None /\ tenants = {}
    /\ view = "unread" /\ reads = {} /\ writes = {} /\ status = "open"
    /\ members \in IF Agg \in {call.wanted, call.caller.bound} THEN {{}, {A, B}} ELSE {{A, B}}
    /\ memo = [val |-> members, fresh |-> "yes"]

Init == Arrives({c \in Calls : Sensible(c)})
Spec == Init /\ [][Next]_vars
-----------------------------------------------------------------------------
\* What keeps a route's handler honest, whatever happens to the request on the
\* way.  The table is concrete: TLC evaluates this, and the proofs cite it.
Guards == {"public", "authenticated", "viewer", "editor", "admin", "resource"}

\* No way leads to step i but over step j, which authorizes the project: j is
\* taken wherever i is, and neither a skip nor a choice jumps in behind it.
Authorizes(steps, j, i) ==
    /\ steps[j].do = "project" /\ roleRank(steps[j].what) > 0
    /\ steps[j].when \subseteq steps[i].when
    /\ \A c \in steps[j].when : c[1] # "unread"
    /\ (\E c \in steps[j].when : c[1] = "narrowed") => \A k \in j .. i : steps[k].do # "cluster"
    /\ \A k \in 1 .. j : steps[k].skip = 0 \/ k + steps[k].skip \notin j + 1 .. i

\* Behind step i the handler goes straight on to narrowing the cluster, at j.
Narrows(steps, i, j) ==
    /\ steps[j].do = "narrow"
    /\ \A k \in i + 1 .. j :
         /\ steps[k].do \notin {"answer", "choose", "cluster"}
         /\ \A c \in steps[k].when : c[1] = "narrowed" \/ (c \in steps[i].when /\ c[1] \in {"with", "without"})

\* Only administration saves; a tenant is read or written, and an aggregate
\* resolved, behind the project's authorization, as an editor where one writes;
\* the cluster is narrowed once it is read.
SoundRoute(r) ==
    /\ r.guard \in Guards /\ Len(r.steps) \in Nat
    /\ \A i \in 1 .. Len(r.steps) :
         LET s == r.steps[i] IN
         /\ s.skip \in Nat /\ \A c \in s.when : c[1] \in {"with", "without", "narrowed", "unread"}
         /\ s.do = "save" => r.guard = "admin"
         /\ s.do \in {"tenants", "queryOne", "write"} =>
              \E j \in 1 .. i - 1 : /\ Authorizes(r.steps, j, i)
                                    /\ s.do = "write" /\ r.guard # "public" => r.steps[j].what = "editor"
         /\ s.do = "cluster" => \E j \in i + 1 .. Len(r.steps) : Narrows(r.steps, i, j)

ASSUME RoutesAssumption == \A i \in DOMAIN Routes : SoundRoute(Routes[i])

-----------------------------------------------------------------------------
\* Nothing is read, and no cluster shown, beyond what the caller was granted:
\* not through an aggregate whose membership changes meanwhile, not through a
\* credential bound to another project, not through a narrowing that failed.
ReadsWithinGrants ==
    identity # None =>
        /\ \A t \in reads : t \in {A, B} \/ Spans([val |-> members], t) = {} => RoleFor(identity, t) > 0
        /\ bound # None /\ bound # Agg => reads \subseteq {bound}
        /\ status = "200" /\ view = "whole" => HasWildcard(identity)

\* A store that does not answer is not held against the caller: whoever presents
\* a live session or token is never told to sign in, and never served as if
\* they had not.
OutageIsNotRefusal ==
    call.auth = "on" /\ call.caller.live = "yes" /\ call.caller.cred \in {"session", "token"}
        => status # "401" /\ (identity # None => identity.anon = "no")

\* Configuration is only written by a global administrator, a project only by
\* somebody who may edit that very project, and neither on behalf of another
\* site where origins are enforced.
WritesEarned ==
    identity # None =>
        \A w \in writes :
            /\ w[1] = "save" => IsAdmin(identity)
            /\ w[1] = "write" => CanAccess(identity, w[2], "editor")
            /\ ~OriginRefused

\* The permission matrix tells the truth: who gets anywhere in an area holds at
\* least the role the matrix shows for it.
MatrixTellsTruth ==
    identity # None /\ minRole(Route) # "" /\ Route.area # "" =>
        holdsAnywhere(identity, matrix(Route.area, Route.method = "GET"))
===============================================================================
