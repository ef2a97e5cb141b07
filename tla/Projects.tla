------------------------------- MODULE Projects -------------------------------
(***************************************************************************)
(* UI-managed projects (hub/internal/api/projects.go) and the trimmer that *)
(* enforces their retention windows (hub/cmd/hub/retention.go, internal/   *)
(* storage/clickhouse/retention.go).  Every call to the store is a step of *)
(* its own; any of them may fail.                                          *)
(*                                                                         *)
(* A window and the age of a row are in days.  A row is a slot <<tenant,   *)
(* table, n>>, holding a row of some age or none; a mutation is the set of *)
(* the rows it is going to delete.                                         *)
(***************************************************************************)
EXTENDS Integers, Sequences, FiniteSets, SequencesExt

CONSTANTS
    Ids,            \* the ids of UI-managed projects, as a sequence in their order
    Reserved,       \* the default tenant and the projects of the config
    Admins,         \* requests in flight at once
    GlobalDays,     \* globalRetentionDays(), 0 when none is configured
    Windows,        \* the retentionDays that requests ask for
    TrimTables,     \* the trimTables that exist, as a sequence; each is listed once
    MaxFields,      \* bound: fields an update carries
    Copies,         \* rows per tenant and table
    MaxAge,         \* the age at which a row stops aging
    StoreFails      \* whether the store may refuse a call

Tenants == Range(Ids) \cup Reserved
Rows == Tenants \X Range(TrimTables) \X (1 .. Copies)
Absent == -1

ASSUME ProjectsAssumption ==
    /\ Range(Ids) \cap Reserved = {} /\ Windows \subseteq Int
    /\ TrimTables \in Seq(Range(TrimTables)) \ {<<>>}
    /\ \A i, j \in DOMAIN TrimTables : TrimTables[i] = TrimTables[j] => i = j
    /\ GlobalDays \in Nat /\ MaxFields \in Nat /\ MaxAge \in Nat /\ Copies \in Nat
    /\ StoreFails \in BOOLEAN

VARIABLES
    projectRow,     \* the table project FINAL, per id
    step, edit, got,    \* per admin: where it is, its request, the project it read
    overlapped,     \* history: admins during whose request another one's write landed
    raced,          \* history: whether such an admin has written
    age,            \* per row, Absent when there is none
    mutations,      \* per table, the rows an unfinished mutation deletes
    jobs, table, busy,  \* trimOnce and TrimTenant: jobs left (the one whose id is
                    \* first is at work or next), next table, `busy`
    windows         \* history: the windows a project has had since the sweep
                    \* that is running began

adminVars == <<projectRow, step, edit, got, overlapped, raced>>
trimVars == <<age, mutations, jobs, table, busy>>
projectsVars == <<adminVars, trimVars, windows>>

Tombstone == [live |-> "no", members |-> {}, days |-> 0]
NoEdit == [op |-> "none", id |-> Head(Ids), members |-> {}, sets |-> {}, days |-> 0]

\* `sets` names the fields an update carries; the others are at their zero.
Asked(op, sets) ==
    [op : {op}, id : Range(Ids), sets : {sets},
     members : IF op = "update" /\ "members" \in sets THEN SUBSET Tenants ELSE {{}},
     days : IF "days" \in sets THEN Windows \cup {0} ELSE {0}]
Edits == Asked("create", {"days"}) \cup Asked("delete", {})
         \cup UNION {Asked("update", f) : f \in {g \in SUBSET {"members", "days"} : Cardinality(g) <= MaxFields}}

\* A project as it is created.
NewProject(days) == [live |-> "yes", members |-> {}, days |-> days]

\* A hub starts with what its table holds: nothing, or projects.
ProjectsInit ==
    /\ \E p \in {Tombstone, NewProject(0)} : projectRow = [i \in Range(Ids) |-> p]
    /\ step = [w \in Admins |-> "idle"] /\ edit = [w \in Admins |-> NoEdit]
    /\ got = [w \in Admins |-> Tombstone]
    /\ overlapped = {} /\ raced = {}
    /\ age = [r \in Rows |-> Absent]
    /\ mutations = [t \in Range(TrimTables) |-> {}]
    /\ jobs = {} /\ table = 0 /\ busy = {}
    /\ windows = [p \in Range(Ids) |-> {}]

-----------------------------------------------------------------------------
(* Requests.                                                               *)

Finish(w) ==
    /\ step' = [step EXCEPT ![w] = "idle"] /\ edit' = [edit EXCEPT ![w] = NoEdit]
    /\ got' = [got EXCEPT ![w] = Tombstone] /\ overlapped' = overlapped \ {w}

\* validateRetentionDays: shorter than the longest window of the install.
ValidDays(d) == d = 0 \/ (d > 0 /\ (GlobalDays > 0 => d <= GlobalDays))

\* A request that is not refused at once (a reserved id, a member set that
\* names the project itself; a window of a new project).
StartEdit(w, e) ==
    /\ step[w] = "idle"
    /\ e.op = "create" => ValidDays(e.days)
    /\ step' = [step EXCEPT ![w] = "get"] /\ edit' = [edit EXCEPT ![w] = e]
    /\ UNCHANGED <<projectRow, got, overlapped, raced, trimVars, windows>>

\* Mutant of Result: the window is checked on the request, not on the result.
ResultUnchecked(e, p) ==
    {q \in {[p EXCEPT !.members = IF "members" \in e.sets THEN e.members ELSE @,
                      !.days = IF "days" \in e.sets THEN e.days ELSE @]} :
       /\ "days" \in e.sets => ValidDays(e.days)
       /\ "days" \in e.sets /\ e.days > 0 => p.members = {}}

\* The project an update makes of the one it read; none when it is refused.
Result(e, p) ==
    {q \in {[p EXCEPT !.members = IF "members" \in e.sets THEN e.members ELSE @,
                      !.days = IF "days" \in e.sets THEN e.days ELSE @]} :
       /\ "days" \in e.sets => ValidDays(e.days)
       /\ ~(q.members # {} /\ q.days > 0)}

\* The checks that need no further call, and the save they lead to.
ToSave(w, p) ==
    IF Result(edit[w], p) = {} THEN Finish(w)
    ELSE /\ step' = [step EXCEPT ![w] = "save"]
         /\ got' = [got EXCEPT ![w] = CHOOSE q \in Result(edit[w], p) : TRUE]
         /\ UNCHANGED <<edit, overlapped>>

\* GetProject: a create wants the id free, editableProject wants it taken.
GetProject(w) ==
    LET e == edit[w]  p == projectRow[e.id] IN
    /\ step[w] = "get"
    /\ CASE (e.op = "create") = (p.live = "yes") -> Finish(w)
         [] e.op = "create" /\ p.live = "no" ->
              /\ step' = [step EXCEPT ![w] = "save"]
              /\ got' = [got EXCEPT ![w] = NewProject(e.days)]
              /\ UNCHANGED <<edit, overlapped>>
         [] e.op = "delete" /\ p.live = "yes" ->
              /\ step' = [step EXCEPT ![w] = "count"]
              /\ UNCHANGED <<edit, got, overlapped>>
         [] e.op = "update" /\ p.live = "yes" ->
              CASE "members" \in e.sets /\ e.id \in e.members -> Finish(w)
                [] "members" \in e.sets /\ e.id \notin e.members /\ e.members # {} ->
                     /\ step' = [step EXCEPT ![w] = "list"] /\ got' = [got EXCEPT ![w] = p]
                     /\ UNCHANGED <<edit, overlapped>>
                [] OTHER -> ToSave(w, p)
    /\ UNCHANGED <<projectRow, raced, trimVars, windows>>

Aggregates == {p \in Range(Ids) : projectRow[p].live = "yes" /\ projectRow[p].members # {}}

\* One level deep: no member is an aggregate, and no aggregate has this member.
OneLevel(id, members) ==
    /\ Aggregates \cap members \subseteq {id}
    /\ \A p \in Aggregates \ {id} : id \notin projectRow[p].members

\* validateMembers lists the projects.
ListMembers(w) ==
    /\ step[w] = "list"
    /\ IF OneLevel(edit[w].id, edit[w].members) THEN ToSave(w, got[w]) ELSE Finish(w)
    /\ UNCHANGED <<projectRow, raced, trimVars, windows>>

\* The newest row of the project becomes p.
Written(w, p) ==
    /\ projectRow' = [projectRow EXCEPT ![edit[w].id] = p]
    /\ windows' = IF jobs = {} \/ p.members # {} THEN windows
                   ELSE [windows EXCEPT ![edit[w].id] = @ \cup {p.days}]
    /\ raced' = raced \cup ({w} \cap overlapped)
    /\ step' = [step EXCEPT ![w] = "idle"] /\ edit' = [edit EXCEPT ![w] = NoEdit]
    /\ got' = [got EXCEPT ![w] = Tombstone]
    /\ overlapped' = (overlapped \cup {v \in Admins : step[v] \notin {"idle", "get"}}) \ {w}
    /\ UNCHANGED trimVars

\* SaveProject.  (Reported as failed or not, the row is in.)
SaveProject(w) == step[w] = "save" /\ Written(w, got[w])

\* DeleteProject counts the live rows and inserts a tombstone.
CountProject(w) ==
    /\ step[w] = "count"
    /\ IF projectRow[edit[w].id].live = "no" THEN Finish(w)
       ELSE step' = [step EXCEPT ![w] = "tombstone"] /\ UNCHANGED <<edit, got, overlapped>>
    /\ UNCHANGED <<projectRow, raced, trimVars, windows>>
DeleteProject(w) == step[w] = "tombstone" /\ Written(w, Tombstone)

CallFails(w) ==
    /\ StoreFails /\ step[w] # "idle"
    /\ Finish(w)
    /\ UNCHANGED <<projectRow, raced, trimVars, windows>>

-----------------------------------------------------------------------------
(* The trimmer.                                                            *)

\* Mutant of planTrim: an aggregate's own window, or none at all, counts.
planTrimAll == {[tenant |-> p, days |-> projectRow[p].days] : p \in Range(Ids)}

\* planTrim: the leaves with a window of their own.
planTrim ==
    {[tenant |-> p, days |-> projectRow[p].days] :
       p \in {q \in Range(Ids) : /\ projectRow[q].live = "yes" /\ projectRow[q].members = {}
                                 /\ projectRow[q].days > 0}}

\* The job at work: ListProjects orders them by id.
AtWork(job) ==
    /\ job \in jobs
    /\ \E i \in DOMAIN Ids : /\ Ids[i] = job.tenant
                             /\ \A k \in 1 .. i - 1, other \in jobs : Ids[k] # other.tenant

\* trimOnce lists the projects.
StartSweep ==
    /\ jobs = {} /\ jobs' = planTrim /\ table' = 0
    /\ windows' = IF planTrim = {} THEN windows
                   ELSE [p \in Range(Ids) |-> IF projectRow[p].members = {} THEN {projectRow[p].days} ELSE {}]
    /\ UNCHANGED <<adminVars, age, mutations, busy>>

Running == {t \in Range(TrimTables) : mutations[t] # {}}

\* Mutant of StartTenant: the unfinished mutations are not looked up.
StartTenantBlind ==
    /\ jobs # {} /\ table = 0
    /\ table' = 1 /\ busy' = {}
    /\ UNCHANGED <<adminVars, age, mutations, jobs, windows>>

\* TrimTenant looks up the tables with an unfinished mutation.
StartTenant ==
    /\ jobs # {} /\ table = 0
    /\ table' = 1 /\ busy' = Running
    /\ UNCHANGED <<adminVars, age, mutations, jobs, windows>>

\* The rows of a tenant in a table that are older than its cutoff.
Overdue(tenant, t, days) ==
    {r \in Rows : r[1] = tenant /\ r[2] = t /\ age[r] > days}

NextTenant(job) ==
    /\ jobs' = jobs \ {job} /\ table' = 0 /\ busy' = {}
    /\ windows' = IF jobs = {job} THEN [p \in Range(Ids) |-> {}] ELSE windows
NextTable(job) == IF table = Len(TrimTables) THEN NextTenant(job)
                  ELSE table' = table + 1 /\ UNCHANGED <<jobs, busy, windows>>

\* One table of a tenant: hasRowsBefore, and the mutation if it has.
TrimTable ==
    \E job \in jobs :
        /\ AtWork(job) /\ table > 0
        /\ LET t == TrimTables[table]
               old == Overdue(job.tenant, t, job.days)
           IN  IF t \in busy \/ old = {} THEN UNCHANGED mutations
               ELSE mutations' = [mutations EXCEPT ![t] = @ \cup old]
        /\ NextTable(job)
        /\ UNCHANGED <<adminVars, age>>

\* A query or a mutation is refused: the rest of this tenant is left alone.
TrimFails ==
    /\ StoreFails /\ \E job \in jobs : AtWork(job) /\ NextTenant(job)
    /\ UNCHANGED <<adminVars, age, mutations>>

-----------------------------------------------------------------------------
(* The store and the clock.                                                *)

MutationDone(t) ==
    /\ mutations[t] # {}
    /\ age' = [r \in Rows |-> IF r \in mutations[t] THEN Absent ELSE age[r]]
    /\ mutations' = [mutations EXCEPT ![t] = {}]
    /\ UNCHANGED <<adminVars, jobs, table, busy, windows>>

\* Telemetry comes in, on time or late.
Ingest(r, d) ==
    /\ age[r] = Absent
    /\ age' = [age EXCEPT ![r] = d]
    /\ UNCHANGED <<adminVars, mutations, jobs, table, busy, windows>>

\* A day goes by between two sweeps, and the TTL of the tables takes its rows.
Day ==
    /\ jobs = {}
    /\ age' = [r \in Rows |-> CASE age[r] = Absent -> Absent
                                [] age[r] # Absent /\ GlobalDays > 0 /\ age[r] >= GlobalDays -> Absent
                                [] OTHER -> IF age[r] < MaxAge THEN age[r] + 1 ELSE age[r]]
    /\ mutations' = [t \in DOMAIN mutations |->
                       {r \in mutations[t] : ~(GlobalDays > 0 /\ age[r] >= GlobalDays)}]
    /\ UNCHANGED <<adminVars, jobs, table, busy, windows>>

AdminNext == \E w \in Admins :
    \/ \E e \in Edits : StartEdit(w, e)
    \/ GetProject(w) \/ ListMembers(w) \/ SaveProject(w)
    \/ CountProject(w) \/ DeleteProject(w) \/ CallFails(w)
Trim == StartSweep \/ StartTenant \/ TrimTable \/ TrimFails
TrimNext ==
    \/ Trim \/ Day
    \/ \E t \in Range(TrimTables) : MutationDone(t)
    \/ \E r \in Rows, d \in 0 .. MaxAge : Ingest(r, d)

ProjectsNext == AdminNext \/ TrimNext
ProjectsSpec == ProjectsInit /\ [][ProjectsNext]_projectsVars

\* The trimmer sweeps for ever, days go by, and every mutation is finished.
ProjectsFairSpec ==
    /\ ProjectsSpec /\ WF_projectsVars(Trim) /\ SF_projectsVars(Day)
    /\ \A t \in Range(TrimTables) : WF_projectsVars(MutationDone(t))

-----------------------------------------------------------------------------
\* An aggregate has neither a window nor an aggregate among its members, unless,
\* for the latter, a write landed between another request's first read and its
\* own write (projects.go:237-350).
AggregatesSound ==
    \A p \in Aggregates :
        /\ projectRow[p].days = 0
        /\ raced = {} => Aggregates \cap projectRow[p].members = {}

\* A row that is being deleted belongs to a project that was a leaf with a
\* window of its own, which the row had outlived, at some time since the sweep
\* began, whatever the edits meanwhile; nothing of any other tenant is touched.
\* And no mutation is queued behind one that is running on the same table.
TrimEarned ==
    [][\A t \in Range(TrimTables) : LET begun == mutations'[t] \ mutations[t] IN
          /\ begun # {} => mutations[t] = {}
          /\ \A r \in begun : r[1] \in Range(Ids) /\ \E d \in windows[r[1]] : d > 0 /\ age[r] > d]_projectsVars

\* README.md:110-112: "The hub trims that tenant's telemetry hourly, scoped by
\* project, while the install-wide TTL stays the backstop": a row that has
\* outlived its project's window is deleted.
WindowsKept ==
    \A r \in Rows : r[1] \in Range(Ids) =>
        (projectRow[r[1]].days > 0 /\ age[r] > projectRow[r[1]].days) ~> (age[r] = Absent)
===============================================================================
