# TLA+ specifications of Avuru Obs

Models of Avuru Obs where its correctness depends on the order in which things
happen, on what fails in between, or on rules that are spread over many places:
concurrent gateway workers, hub replicas without locks, handlers that write a
database without transactions, caches filled by late answers, a route table of a
hundred entries, searches over tables that grow. Each module is written from the Go
code (and SQL) it names and can be model-checked with TLC; the `*_proofs` modules
hold TLAPS proofs for every value of the constants.

    tlc -config MCIngestAuth.cfg MCIngestAuth
    tlapm IngestAuth_proofs.tla

`PROJECT.json` lists the components, the runs, the mutants (a mutated definition
per property that TLC must find), the source lines behind every definition, the
hazards the properties are aimed at, the findings and the theorems.

## 1. The system

Sensors send OTLP to a **gateway** (an OpenTelemetry Collector with three custom
parts: `avuruingestauth`, `tenantfromauth`, `sentryreceiver`), which writes to
**ClickHouse**. The **hub** is one Go binary: it serves the API, the MCP endpoint
and the UI, owns the schema and every table that is not telemetry, and runs the
background loops. ClickHouse gives it no transactions and no compare-and-swap:
every table of the hub is a `ReplacingMergeTree` in which a newer row supersedes an
older one, and a handler is a sequence of reads and inserts that interleaves with
everybody else's.

| component | state it keeps | operations | interacts with |
|---|---|---|---|
| ingest authentication (gateway) | cache of verdicts per key | `Authenticate`, `verdict`, `deny`; `tenantfromauth` | hub's validate endpoint, over HTTP |
| ingest keys (hub) | key table | create, revoke, seed at start, validate | gateway; chart's seed keys |
| alerting evaluator | `alert_state`, `alert_history` | one tick: evaluate, deliver, save, append | health rollup, budgets, hot-reloaded rules, notifier |
| green and AI budgets | usage caches; rows in `alert_state` | throttled recompute, evaluate | the alerting tick |
| notifier | none | `Send` with retries | webhooks |
| configuration hot reload | current value, last modification time | load, watch | mounted ConfigMaps; every loop that reads a config |
| service-group resolver, handlers | memo with a TTL; `service_group` | `Config`, `Stored`, `Invalidate`; list, create, update, delete | `/health`, alerting |
| schema gate, migrations | schema, ledger | check, heal, `hub migrate` | everything that needs tables |
| check scheduler | next due time per check, results | `RunDue`, probe, record | group configuration, health rollup |
| health rollup | none | group, judge, propagate, fold the checks in | `/health`, alerting |
| projects, tenant resolution | `project`; memo of the list | create, update, delete, resolve a header | every query |
| retention trimmer | ClickHouse's mutations | hourly sweep | projects, telemetry tables |
| collection control | overlay; sensor ConfigMaps and DaemonSet | PUT, DELETE, apply | Kubernetes API |
| sessions, users | `auth_user`, `auth_grant`, `auth_session` | sign in, rotate, administer, delete, bootstrap | every request |
| sign-in limiter | three families of windows | `blocked`, `fail`, prune | sign-in, password change |
| OIDC group mapping | snapshot; `oidc_group_mapping` | refresh, poll, edit | every SSO request |
| OAuth server | grant, code, token pairs, claims | consent, redeem, rotate, use, disconnect | MCP clients |
| query API, MCP server | none | routes, guards, handlers; tools | everything above |
| ClickHouse queries | telemetry tables | services, traces, logs, errors, metrics, edges | query API, loops |
| rates, mesh configuration, Sentry receiver, TDP estimator, CLI, Grafana plugin, UI | memo; snapshot; none | conversions and presentation | |

What is hard, and what correctness means there:

* *Ingest authentication.* The cache is read before an HTTP call and written
  after it, by several workers. Correct: what happens to a payload is what the
  hub held of its key recently enough; an outage neither drops vouched-for
  traffic nor lets log mode change anything.
* *Alerting.* Delivery, state and history are three effects of one tick, any of
  which may fail, and a crash may fall between them; rules and budgets share one
  table and are reloaded under it. Correct: a rule fires after its `for` and not
  before, is announced once, and the three records agree where nothing was lost.
* *Hot reload, group mapping, service groups.* Something is read, and used or
  stored after it changed. Correct: no edit is missed, a bad one changes nothing,
  a memo lags only in the known way and not for ever, no write is decided on it.
* *Schema.* Any number of processes apply the same DDL at once and may stop
  anywhere. Correct: the ledger never promises a table that is not there, an open
  gate is right, and the definitions end up the newest.
* *Checks and the board.* A round of probes waits for its slowest. Correct: every
  check keeps its pace, and a group looks as bad as its evidence and no worse.
* *Projects, retention.* Members are validated against a listing and saved later;
  the sweep works from a listing too. Correct: an aggregate has leaves only, and
  what is deleted had outlived a window its project had.
* *Accounts.* `SaveAuthUser` writes the whole row from a copy. Correct: whoever
  changes a password is told what happened to it and to the sessions, a deleted
  user leaves nothing behind, somebody can always administer the hub.
* *OAuth.* A grant's code, its pair and its end are rows that are rewritten
  whole. Correct: a code issues once, a disconnection is final.
* *Requests.* A hundred routes, many kinds of caller, a store that fails.
  Correct: nobody reads or writes beyond their grants, an outage is not held
  against the caller, the permission matrix is true.
* *Telemetry.* Rows arrive late and in any order, several tenants share a table,
  counters restart. Correct: a paged search is complete, tenants are isolated, the
  map counts nothing twice, a resolved issue is quiet.

The hazards, each at its line, are in `PROJECT.json`.

## 2. Modules

| module | models | checked by | proved in |
|---|---|---|---|
| `IngestAuth` | `gateway/avuruingestauth`, `gateway/tenantfromauth`, the hub's key table, seeding and validate endpoint | `MCIngestAuth` | `IngestAuth_proofs` |
| `Alerting` | `hub/cmd/hub/alerting.go`, `green_budgets.go`, `ai_budgets.go`, `internal/alerting/evaluator.go`, `internal/{green,ai}/budgets.go`, `alerts.go` | `MCAlerting`, `MCHealth` | `Alerting_proofs` |
| `GroupResolver` | `hub/internal/health/resolver.go`, `internal/api/service_groups.go`, `servicegroup.go` | `MCHealth` | `Health_proofs` |
| `HealthRollup`, `CheckScheduler` | `hub/internal/health`, `hub/internal/checks/scheduler.go`, `cmd/hub/checks.go`, `checks.go` | `MCHealth`, `MCChecks` | `Health_proofs` |
| `HotReload` | `hub/cmd/hub/hotreload.go` | `MCHub` | `Hub_proofs` |
| `SchemaContract`, `SchemaMigrate` | `hub/cmd/hub/schema.go`, `migrate.go`, `migrations.go` and the statements of 0001, 0006 and 0023 | `MCSchemaMigrate`, `MCHub` | `SchemaMigrate_proofs` |
| `Throttles` | `hub/internal/auth/ratelimit.go` and its callers | `MCHub` | `Hub_proofs` |
| `Mappings` | `hub/internal/auth/mapping.go`, `mappingcache.go`, `cmd/hub/oidc.go`, `oidc_mapping.go`, `oidcmapping.go` | `MCHub` | `Hub_proofs` |
| `Collection` | `hub/internal/collection`, `internal/api/collection.go` | `MCHub` | `Hub_proofs` |
| `Accounts` | `hub/internal/auth/service.go`, `internal/api/users.go`, `auth.go` | `MCAccess` | `Access_proofs` |
| `OAuthGrants` | `hub/internal/api/oauth_flow.go`, `oauth_token.go`, `oauth_grants.go`, `auth/oauthtoken.go`, `oauth.go` | `MCAccess` | `Access_proofs` |
| `Projects` | `hub/internal/api/projects.go`, `cmd/hub/retention.go`, `project.go`, `retention.go` | `MCApi`, `MCRetention` | `Api_proofs` |
| `ApiSteps`, `ApiSignals`, `ApiOperations`, `ApiAdmin`, `McpTools` | the handlers of `hub/internal/api` and the tools of `hub/internal/mcp` | `MCApi` | `Api_proofs` |
| `ApiRoutes`, `Api` | `router.go`, `permissions.go`, `auth_middleware.go`, `resolve_tenants.go`, `auth/auth.go` | `MCApi` | `Api_proofs` |
| `Tables`, `TraceQueries`, `LogQueries`, `MetricQueries` | the reads of `hub/internal/storage/clickhouse` | `MCTelemetry` | `Telemetry_proofs` |
| `MeshView`, `Telemetry` | `topology/edges.go`, `mesh_posture.go`, `traces.go`, and the tables while rows arrive | `MCTelemetry` | `Telemetry_proofs` |

How state and actions correspond to the code:

**IngestAuth.** `cache` is `a.cache`; `req` holds the locals of one `Authenticate`
per worker, with `now` read once at the start. `LookupFresh`/`LookupMiss` are the
first critical section of `verdict`, `HubAnswers` the moment the hub reads the
row, `Fill` the second critical section and the return, `FallBackStale` and
`FallBackDown` a failed call (an answer may have been given and lost). `truth` is
the live row per key. `lastHeld` and `lastFill` are history: when the hub last
held a verdict, and the newest start time among stored answers. A tick of the
clock cannot outrun `cfg.Timeout`.

**Alerting.** One tenant. `Evaluate` is `evaluateOnce` up to `deliver` (nothing it
reads changes while it runs that a slightly different moment could not explain),
then `Deliver`, `SaveAlertStates`, `AppendAlertHistory`, each with its failing
twin, and `Crash` between any two and inside delivery. Times are kept as ages, as
the code only compares `now.Sub(t)` with durations. `recorded`, `emitted`, `run`
and `blamed` are history: the newest history entry, the last notification, the age
of the current run of matching saved ticks, and the keys about which a write was
lost or whose rule or budget was removed while it was active.

**GroupResolver.** Each request is a client with a `stage`; each store call is a
step, each critical section of the resolver a step. `ver` numbers the writes, so a
snapshot's age is a number; `acked` is the newest write whose handler has
invalidated. `began` and `spanned` are history: what was acknowledged when a
request sent its query, and whether the memo was filled by a request whose query
was under way while an edit was acknowledged. `seen` collects the states of a
request's name while the request lives.

**HealthRollup, CheckScheduler.** The board is one function of a window: services
with their counts, labels, edges and the latest results of the checks. The
scheduler counts in ticks. `slot` is `s.next`, as ticks to go; `TickPasses` is the
ticker (a tick that finds one waiting is dropped), `RunDue` takes it and reserves,
`ProbeEnds` records or fails to, a round ends with its last probe. A probe takes at
most `MaxRound` ticks: its own timeout, its span's export and its insert are all
bounded in the code. Results are kept for the two newest, all that
`LeadingFailures` looks at. `started` is history: when a check was last probed.

**HotReload.** The watcher's stat, `readHotReload`'s stat and its read are three
steps (`phase`), `newest` and `modTime` the times the two stats returned; edits and
removals happen between them. `ReadFaults` lets a call on a file that is
there fail.

**SchemaContract, SchemaMigrate.** The contract has tables that are never lost,
versions that go on record in order and after their tables, and gates that open on
a complete schema. In `SchemaMigrate` a process is a hub's gate or a Job. `Migrate`
is `EnsureLedger`, `ReadApplied`, then one `ExecStatement` per statement and one
`RecordVersion` per version, each of which may fail (`MigrateFails`) or be cut by
`Restart`. A statement is a guarded CREATE or DROP VIEW on an object with a
definition. `cutShort` is history: some migrator stopped part-way through its
versions. `KeepsContract` is the refinement: the contract's `built` are the tables
among `objs`, `applied` the ledger, `opened` the hubs whose gate is open.

**Throttles.** A window is its age and its count. An attempt passes `blocked`,
verifies a password without the limiter's lock, and records its failure with
`fail`; so several can be under way when a limit is reached. `guesses[a][d]` is
history, kept apart from the limiter's windows: the failures of an account in its
last `d` ticks.

**Mappings.** `chart` is the cache's configuration, `rules` the table, `at` says
where each of two refreshers (the poll, an admin's request) is between reading the
configuration, querying and swapping the snapshot. The poll's loop goes on whatever
a refresh returns. Roles that no longer parse stay in the table and are dropped by
the merge. Other replicas write the table.

**Collection.** One overlay row, the chart's base values, a ConfigMap per signal,
and the pod template's containers and checksum. `holder` is `collectionMu`; a write
saves, reads the base values, applies the maps in order and patches the DaemonSet,
and each call may fail, with or without effect. A patch is skipped when the
checksum is the same. `drift` is history: others changed the cluster since.

**Accounts.** Rows, global standing and sessions are tables; `req` is one request
per worker with the row it read. Every store call is a step; an answer may be an
error although the write landed. `overrun` is history: a write was made from a
stale copy, for a caller who had been locked out meanwhile, or grants were written
for a user whose deletion was under way. Each rotation remembers which sessions
were alive when the new password took effect (`alive`).

**OAuthGrants.** One grant, its code, its tokens. A job is a redemption, a
rotation, a call of `/mcp` (look up, check the grant, serve, touch), or a
disconnection. `claimed` is the process's `codeClaims` and is lost in a restart.

**Projects.** Requests are steps over `projectRow`; `overlapped` and `raced` are
history about lost races. The sweep lists, plans its jobs (`jobs`, a
set: it is at the one whose id comes first), takes the tables in order, reads the
running mutations once per project (`busy`), and starts mutations that end at any
time. `windows` is history: the windows a project had
since the sweep began.

**Api and its handlers.** A handler is a sequence of steps in the vocabulary of
`ApiSteps`: a parameter that may be refused, the resolution of the project, a
query, a narrowing, a write, an answer, each as an element of the sequence in the
order of the code, with what makes it happen (a module that is on, a choice of the
request's). `Api` runs one request: `Enter` is the guard the route was registered
with and the credential it found; every later step may fail. `members` is what
the aggregate spans, which may change between any two steps, and `memo` the cached
project list. The route table and the matrix derived from it are constants of
`ApiRoutes`.

**Telemetry.** Rows are records with natural numbers for names and times, tables
sets of rows, each query an operator from a table to what it returns. `Arrive`
adds a row of a pool to its table at any moment, whatever its time. `scroll` is a
client that pages, from the start or from a cursor that it kept: its question with
the cursor, the places of the rows it has got, and where its pages ended; `same` is
history, the places that were there when it began and have not changed. Rows that
equal in every column of an order come in the order of `row`, the one in which the
table yields them, which no cursor carries. A bound or a cursor's time loses what is
below `Second` on its way into a query (`Bound`), as the driver's arguments do. A log
search that began with a cursor of the former order stays in that order (`legacy`).
What a query reads is filtered as the SQL filters it and labelled as the Go code
labels it, which differ for a source with an empty list of needles (`sourceBranch`,
`sourceMatchesRecord`). A join yields a row for each chain of stored rows, so that a
span that is stored twice counts as often as it does in the code. The status of an
issue that spans several tenants is that of any of them, the default one included.
For a mesh workload the calls it really got are kept next to the counters its
proxies report.

External, modelled from how the code uses it: ClickHouse as tables with
superseding rows and its mutations, the file system (`Edit`, `Remove`), helm and
kubectl, the collector that inserts telemetry, the clock.

## 3. Runs

Every passing run lists its properties in `PROJECT.json`, with a mutant of the
code for each. Components that share no state share a run: a variable `focus`,
chosen at the start, says which of them moves, so that a run asks one question
per component without the product of their states.

| run | instance | shows |
|---|---|---|
| `ingest` | every mode; one key, seeded or minted, two projects, two workers, TTL 1, grace 3, timeout 1, clock to 3; workers symmetric (3.2 M states) | `EnforcedVerdictRecent`, `GraceHonoured`, `DropInSafe` |
| `alert_tick` | a rule (`for` 1) and a green budget in one `alert_state`, unpinned tenant, all failures, reloads (2.4 M states) | `FiresOnlyAfterFor`, `NotificationsAlternate`, `RecordsAgree`, `ClearsAnnounced` |
| `health` | fair: a rule (`for` 2), a budget, two requests on one group name with two writes and TTL 2, two checks of intervals 1 and 2; and the board of every window of three services (112 k states) | `EventuallyRight`, `StaleOnlyByOverlap`, `DecidesOnLiveView`, `EventuallyFresh`, `ProbesPaced`, `BoardSound`, `GoldenRule` |
| `hub` | fair: a file of three contents and five times; two hubs and a Job over versions 1, 6 and 23; one account tried from two addresses; two groups of the mapping with three writers; two admins at one overlay (49 k states) | `NoMissedEdit`, `EditTakesEffect`, `OpenGateHasTables`, `SettlesUnlessCutShort`, `GateOpens`, `KeepsContract`, `GuessesBounded`, `MappingConverges`, `SensorsFollow` |
| `access` | the bootstrap admin and an SSO user, two passwords, two sessions, two concurrent requests; one grant, four tokens, two concurrent jobs | `RotationReported`, `NoOrphanGrants`, `LastAdminStays`, `CodeIssuesOnce`, `DisconnectIsFinal`, `OnePair` |
| `api` | every route with every kind of caller, three projects (one an aggregate that starts with no member or with both others), every relevant installation; two admins editing two projects; the trimmer on two projects and one table (536 k states) | `ReadsWithinGrants`, `OutageIsNotRefusal`, `WritesEarned`, `MatrixTellsTruth`, `AggregatesSound`, `TrimEarned` |
| `telemetry` | times with two instants to a second; nine spans of two tenants through two proxies, four logs, two with equal keys, five events, seven metric points; searches newest, oldest and slowest, by pages of one and two rows, from the beginning or a kept cursor, one of the former order; a workload seen by two proxies (120 k states) | `ScrollAccounted`, `TenantsIsolated`, `MapSound`, `ResolvedMeansQuiet`, `NoPhantomTraffic` |
| `alert_budget_age_out` | a budget of a tenant that may leave `ListTenants` | **violated** `BudgetResolves` |
| `schema_crash` | two hubs, one attempt | **violated** `SettlesRight` |
| `retention_starved` | two projects with a window, fair | **violated** `WindowsKept` |
| `paging_subsecond` | searches of `telemetry` from their beginning, records with keys of their own | **violated** `ScrollComplete` |
| `silent_group` | the checks of an install nobody calls | **violated** `SilentFailureIsDown` |

*Bounds.* Two concurrent actors are enough for every race here, as each is about
one answer, write, fill or statement overtaking another. `MaxClock` = 3 lets an
entry pass both its TTL and its grace. Ages saturate at `MaxAge`, which is at least
every duration they are compared with. `MaxWrites`, `MaxChanges`, `MaxTime`,
and `MaxEdits` bound writes and edits; one more than a race needs. `MaxApply` = 1
lets a hub use up its attempts, wait for another process to finish the schema, and
get them back by a restart. The limits of the sign-in limiter (5, 30 and 20 in the code) are 2, 3 and 2:
`GuessesBounded` says what they are multiplied with, not what they are. A round of
probes lasts at most `MaxRound` = 2 ticks, longer than one check's interval and as
long as the other's. One page has one row, so that every pair of rows is split by a
page (of logs also two, so that the row that is fetched beyond a page differs from
its last one), and a search by oldest, which may repeat a second for ever, is
looked at up to its sixth entry (`MCMaxShown`); the chain of two proxies is longer than the first branch of
`CollapsedEdges` and shorter than `maxCollapseDepth`. In `telemetry` the clock and
what arrives stop at `MaxNow` (for issues a tick before) and at the end of the pools,
and one proxy restarts, once: a second restart only adds to what is lost. In `api` edits overlap
up to the first lost race, and an edit sets one field at a time (`MaxFields`). Deadlock is only
checked where nothing rests: a file that is not edited, a table whose writes are
used up, an answered request and open gates may.

*Fairness.* `Alerting`: the ticker of `runAlertingEvaluator` never stops, so a
tick is evaluated, delivered and saved infinitely often unless it fails every
single time (strong fairness); budgets need a recompute and a save that succeed in
the same tick, so for them failures end at some point (`CalmSpec`). `HotReload`:
the ticker ticks and a system call returns. `GroupResolver`: time passes and a
request ends, successfully or not. `SchemaMigrate`: every process keeps going and a
schema query does not fail every time a hub asks; restarts are never assumed to
happen or to stop. `Mappings`: the store connects, the poll's loop keeps going,
and its query does not fail every time. `Projects`: the hourly sweep runs,
mutations end, days pass. `ProbesPaced` needs none: it bounds the time by what has
happened.

*What the properties leave out on purpose.* `StaleOnlyByOverlap` names the one way
in which the group memo lags, a query that was in flight when the edit was
answered, and `EventuallyFresh` that it catches up.
`NotificationsAlternate` and `RecordsAgree` are about keys no write was lost for; of
the others `EventuallyRight` says that they end right. `MappingConverges` is about
the end of the writes: that "this replica reflects the admin's own edit
immediately" (`oidc_mapping.go`) holds until an overlapping refresh stores an older
snapshot, which the next poll mends. `EditTakesEffect` assumes that calls on a
file that is there succeed (`ReadFaults` = FALSE): one failed read marks the edit
behind it as seen. `LastAdminStays`, `NoOrphanGrants`, `OnePair` and the nesting
half of `AggregatesSound` except a lost race between two requests, which the code
accepts in its comments; everything short of that is covered, failures included.
`ScrollComplete`, everything exactly once, is what a client expects; it is violated
where pages end within a second, which is a finding. `ScrollAccounted` is what holds of
every search: what is shown again, a cursor has taken in again (`Repeated`), and
what is missed, a cursor has dropped (`Lost`), both defined by the columns a cursor
has and the cut of its time, and by nothing else of the code.

## 4. What disagrees with the repository's words

Each is a finding with the quoted line.

* `paging_subsecond`: the cursor of a search promises a "full-precision timestamp",
  but is bound as an argument that ClickHouse's driver truncates to seconds, as the
  repository notes elsewhere: a page that ends within a second skips the rest of
  that second, or repeats it.
* `silent_group`: "a silent group whose probe fails reads **down**", but a group
  without a span in the window is not in the report that the checks are folded
  into; it vanishes from the board.
* `retention_starved`: the trimmer skips a table with any running mutation, also
  the one it started for an earlier project a moment ago. While that project has
  something new to delete at every sweep, a later project's rows stay.
* `schema_crash`: `migrate.go` says the only concurrency hazard of a view
  redefinition is a sub-second window. A migrator that walks an old reading of the
  ledger can drop the view after another has recorded the version; if it stops
  before its CREATE, the view is gone for good behind open gates. In another
  interleaving a slow 0006 puts the old definition back between the DROP and the
  CREATE of 0023 and stops. `SettlesUnlessCutShort` shows that stopping part-way
  is needed: concurrency alone always ends right.
* `alert_budget_age_out`: a firing budget of a tenant that stopped sending is not
  resolved by the month's rollover, as nothing evaluates it.

Met while modelling, without a run: `resolver.go:20-22` says of the group memo that
"an admin's own edit is never stale to them", but a query that was answered before
the edit may fill the memo after its Invalidate, and is served until the memo
expires (`StaleOnlyByOverlap` without `spanned` is violated by it). `config.go:14-15` says log mode counts would-be
denials, but a request that finds validation unavailable is let through without
counting (`extension.go:127`), although enforce mode refuses it.
`oauth_token.go:114-116` says of a rotated refresh token that is presented again
that "the family it belonged to is already gone — there is nothing further to
revoke", but the pair the rotation issued belongs to the same grant and is alive. A
password reset whose listing of grants fails answers a plain error although the
password is saved (`users.go:232`), which the seam a few lines above takes care to
avoid. The OIDC watcher marks an edit as seen when the identity provider could not
be asked about it (`oidc.go:166`).

## 5. Proofs

Theorems are about the specifications without fairness, for every value of the
constants that meets the module's ASSUMEs, which a run evaluates. Each follows one
scheme: an invariant strong enough to be inductive, one step per action that keeps
it, and the property from it. What makes each invariant more than its property:

* `IngestAuth_proofs`: `VerdictsAreRecent`, `GraceIsHonoured`, `DropInIsSafe`.
  The first two speak of finished requests, so `IndInv` adds what a cache entry says
  (`CacheInv`: its verdict was held at its `fetched` time or later, and it is at most
  one timeout older than the newest stored answer) and what a worker carries between
  its critical sections (`FlightInv`).
* `Alerting_proofs`: `FiringIsEarned`, `NoRepeatedNotification`,
  `RecordsAlwaysAgree`, `ClearingIsAnnounced`. `AlertInv` ties a stored pending row
  to the run of matching ticks (`RunInv`), the tick's locals to the stored state
  (`TickInv`), a note to the transition it announces (`NoteInv`), and the three
  records at every program point (`AgreeInv`).
* `Health_proofs`: `WritesDecideOnLiveView` from `LiveInv` (a write in flight has
  lived through the current state of its name and the one its snapshot shows), and
  `MemoLagsOnlyByOverlap` from `VersionInv` (an acknowledged write is in the table,
  and a snapshot is no older than what was acknowledged when its query began); `ProbesPacedHolds` from `PaceInv`, which equates a
  check's slot with its interval less the time since it was probed and bounds the
  lateness of a due one by the round it waits for; `BoardSoundHolds` for any
  services, edges, traffic and configuration. `GoldenRuleHolds` is about every list
  of edges, however often an edge comes: of the folds over all index sets, the one
  that says "degraded where an edge so far is critical to one that is down by
  itself" satisfies the same equation as the fold of `propagate`, and a smallest
  index set on which two such folds differ does not exist.
* `Hub_proofs`: `EditsAreNotMissed` (assuming no read faults),
  `LastGoodConfigStays`: the remembered times never overtake the file's.
  `SensorsFollowHolds`: `ApplyInv` says which of the maps a write in progress has
  already brought to its render, `MutexInv` that it is alone, `ChecksumInv` that the
  annotation is true until others change the cluster. `GuessesBoundedHolds`: the
  account's window covers the recent failures (`Covers`, by age), and its count
  together with the passwords being verified stays within the limit plus the
  other attempts that can be under way when it is reached (`Margin`).
  `MappingsType`: whatever the table holds, the snapshot grants only roles that
  parse, as the merge drops the others. `RightMappingStays` is the safety half of
  `MappingConverges`: `MappingSettled` (the snapshot is the merge of the file and
  the table, and so is whatever a refresh under way will store) implies that every
  group has what it earns, and no step but a write, an edit of the file or a restart
  ends it.
* `SchemaMigrate_proofs`: `LedgerIsCommitMarker`, `OpenGateIsHonest`,
  `ViewsComeAfterTables` from `WalkInv` (where a migrator is; what it has passed is
  recorded) and `DoneInv` (the tables of its executed statements exist).
  `MigrationsKeepContract` is the refinement of `SchemaContract`: every step of a
  migrator is a step of the contract or a stutter. `SettlesUnlessCutShortHolds`:
  `ChainInv` keeps an object's versions in order, in the ledger and in every
  walk; `SettleInv` says that a definition is the newest, or somebody has still to
  drop and create it, or it is absent with a creator under way. It uses
  `ChainsAssumption`, which is how the embedded migrations are written: those of
  one view belong to the same modules (`ByModule` tags 0006 like 0023 and 0007 like
  0024), and each later one drops what it creates.
* `Access_proofs`: `RotationReportedHolds`, `NoOrphanGrantsHolds`,
  `LastAdminStaysHolds`. `SweepInv` says which sessions a rotation in progress has
  still to revoke, at each of its steps, `CallerInv` what a request knows of its
  caller, `TombstoneInv` that a user about to be deleted has no grants any more.
  `CodeIssuesOnceHolds`, `DisconnectIsFinalHolds`, `OnePairHolds`: `CodeInv`
  relates the code's row, its claim and the redemptions in flight; `BornInv` what a
  request that began after the end knows; `FirstPairInv` and `PairInv` which tokens
  of the family each step of an issue or a rotation leaves.
* `Api_proofs`: `ReadsWithinGrantsHolds`, `WritesEarnedHolds`,
  `OutageIsNotRefusalHolds`, `MatrixTellsTruthHolds`, for any request at any moment
  of an aggregate's membership, by an invariant over the steps of the handler it
  runs: what the guard let through (`GuardInv`), whose project was resolved
  (`ProjectInv`), which tenants a query will read (`TenantsInv`), and that a view
  that is still open has a narrowing ahead of it (`ViewInv`). What is special to
  the hundred routes enters as `RoutesAssumption`, conditions on one route each
  (`SoundRoute`), which TLC evaluates for the table of the code.
  `AggregatesSoundHolds` and `TrimEarnedHolds`: a request that nobody overtook still
  sees the projects as they are (`EditsCurrent`), a planned or running deletion
  stands for a window its project has had since the sweep began (`JobsOK`), and
  a table with a mutation is one the sweep knows to be busy (`BusyOK`).
* `Telemetry_proofs`: `TenantsIsolatedHolds`: for each of the forty reads a lemma
  that it depends on the rows in its scope alone, and the scope is within the
  asked-for tenants'; the reads by key need their own argument, `GetTrace` that a
  window taken from everybody's spans is never too narrow for one tenant's own,
  which takes that finitely many rows have a first and a last (`FirstAndLast`).
  `ResolvedMeansQuietHolds`: the status of an issue is a function of all of its
  events and of one row, whatever window it is looked at through.
  `NoPhantomTrafficHolds`: `MeshInv` keeps a ledger of each series next to the
  history. `CountsFollow` says that what a series counts between two of its
  readings is what was called between them less what a restart has lost, and that
  the losses of all series at a time are within `lost`; so a rise, the largest
  reading less the smallest, is at most the calls and losses of the window
  (`DeltaBound`). Sums over sets are proved to add up from the equation that
  defines the fold (`AddsUnique`, `SumTake`).
  `ScrollAccountedHolds`, for timestamps of any precision, rows with equal keys and
  any kept cursor: `ScrollInv` says that the cursor is the last of the places the
  client has got, that all of those are before it or have been taken in again by one
  of the cursors (`Behind`), and that every place of `same` is among them, dropped by
  one of the cursors, or still to come (`Due`). A page shows the first of the places
  past its cursor, because the place of a row in `Top` is the number of rows before
  it (`Ranks`, `TopSorted`, `PageOfTop`); the filters of the three searches let pass
  exactly what is `Past` the cursor (`TracesAfter`, `LogsAfter`, `EventsAfter`); and
  rows that arrive between two pages only take from `same`. Where no cursor drops
  anything or takes anything in again, it is `ScrollComplete`.
  `MapSoundHolds`: each of the three merges is a fold; it is unwound into its steps
  (`FoldExists`, `FoldRun`) and `MergeSound` shows that a step of any of them keeps
  every pair once and every edge within its calls. That the direct calls and those
  through proxies add up to no more than the callee has served is `CallsServed`: the
  parent of a server span is one span, a proxy or not, and the chain above it is one
  chain (`OneChain`), whatever its length.

`TypeCorrect`, `AlertTypeCorrect`, `LastGoodConfigStays`, `LedgerIsCommitMarker`,
`ViewsComeAfterTables` and the theorems that state an inductive invariant
(`AccountsInvariant`, `RequestInvariant`, `CheckInvariant`, ...) are facts no run spends a property on.

*What the assumptions on constants say.* Names of things differ from the marks of
their absence; the pools of rows and of sign-in workers are finite; limits, intervals and
versions are natural numbers, positive where the code needs it; queries and route tables have the fields
the code gives them. None excludes a configuration the program accepts, except that
`ReadFaults` is FALSE where `NoMissedEdit` is claimed. `MapSoundHolds` names one
hypothesis of its own: that a span has its id to itself within its trace, as the
code takes it, whose joins count a span as often as it is stored.

Only model-checked, and why:

* liveness (`EventuallyRight`, `EditTakesEffect`, `EventuallyFresh`, `GateOpens`,
  `MappingConverges`) needs fairness and ENABLED; that a mapping which has settled
  is right and stays so is `RightMappingStays`.

## 6. Not modelled

Wording, JSON and SQL text; HTTP parsing; quantiles and floating-point usage
numbers; profiles, AI spend and storage statistics as query results (their
handlers are in `ApiSignals` and `ApiOperations`); trace self time; the rules over
a mesh snapshot; OAuth client metadata and redirect rules; the debounce of a
token's last use; sensors, Sentry receiver, TDP estimator and clients, which keep
no state of the system. The notifier's retries: one Send is one step that may fail.
Pods and rollouts of the sensors are Kubernetes'. Results of endpoint checks are
filed under the hub's own tenant, the only one `CheckScheduler` has.

One alert evaluator is assumed, as the code assumes it. `OAuthGrants` has one hub
process, as `codeClaims` is per process. A file put back with an older modification
time is outside `HotReload`. Users are known by id, so two creates of one email are
outside `Accounts`. Replicas with different module sets are allowed by
`SchemaMigrate` (`Expected` is per process) but the runs give all of them the same.

## 7. Plan

Every safety property and every action property of a passing run has a theorem, and
every temporal one that needs fairness is model-checked. What would say most next:
the contents of the merged edges beyond their calls (bytes, failures, provenance) as
properties of the map; the notifier's retries, once a delivery is more than one
step; a fair specification of paging, to state that a search ends when rows stop
arriving and no page repeats its second; and a failed read of a watched file, which `ReadFaults` allows but no
property speaks about, as the edit behind it is lost by design.
