------------------------------- MODULE Mappings -------------------------------
(***************************************************************************)
(* The mapping of OIDC groups to roles: the chart's rules and the authored *)
(* ones (hub/internal/storage/clickhouse/oidcmapping.go), merged           *)
(* (internal/auth/mapping.go) into the snapshot every authenticated        *)
(* request derives its grants from (internal/auth/mappingcache.go), the    *)
(* admin's edits (internal/api/oidc_mapping.go) and the watcher that polls *)
(* (cmd/hub/oidc.go).                                                      *)
(*                                                                         *)
(* One replica; what others do is a write to the table.  A rule is its     *)
(* role, its projects with it.  Every store call is a step: it may fail,   *)
(* and a write that failed may have landed.                                *)
(***************************************************************************)
EXTENDS Integers

CONSTANTS
    OidcGroups,
    Parsed,      \* the roles auth.ParseRole accepts
    Retired,     \* stored roles it does not
    NoRule,
    Authors,     \* the requests at work at once
    Declared,    \* what the chart's mapping may be
    MaxChanges   \* bound: writes, edits of the file and restarts

Poll == "poll"
Refreshers == Authors \cup {Poll}

\* A chart with a role that does not parse is not loaded (oidcconfig.go:60).
ASSUME MappingsAssumption ==
    /\ NoRule \notin Parsed \cup Retired /\ Poll \notin Authors /\ MaxChanges \in Nat
    /\ Declared \subseteq [OidcGroups -> Parsed \cup {NoRule}]

VARIABLES
    chart,      \* MappingCache.cfg
    rules,      \* oidc_group_mapping: per group, its live row's role
    snapshot,   \* MappingCache.snapshot
    connected,  \* the store provider has a store
    at,         \* per refresher: idle, tombstone, load, query, swap
    doomed,     \* per refresher, the groups it is to tombstone
    held,       \* per refresher, what its Refresh has read
    changes     \* how many changes there were

mappingsVars == <<chart, rules, snapshot, connected, at, doomed, held, changes>>

Rules == [OidcGroups -> Parsed \cup Retired \cup {NoRule}]
NoRules == [g \in OidcGroups |-> NoRule]
Nothing == [chart |-> NoRules, rules |-> NoRules]

\* MergeMapping: the chart's rules, and the authored ones whose role parses,
\* shadowed where the chart has the group.
MergeMapping(cfg, db) ==
    {[group |-> g, role |-> cfg[g], source |-> "config", shadowed |-> FALSE]
        : g \in {x \in OidcGroups : cfg[x] # NoRule}}
    \cup {[group |-> g, role |-> db[g], source |-> "db", shadowed |-> cfg[g] # NoRule]
        : g \in {x \in OidcGroups : db[x] \in Parsed}}

\* GrantsFor: what the rules that apply grant, or the default.
GrantsFor(mapping, groups, default) ==
    LET matched == {m \in mapping : ~m.shadowed /\ m.group \in groups}
    IN  IF matched = {} THEN default ELSE {m.role : m \in matched}

\* handleOIDCMapping: the authored rows of the snapshot, and with them the rows
\* the merge dropped.
listed == {m.group : m \in {x \in snapshot : x.source = "db"}} \cup {g \in OidcGroups : rules[g] \in Retired}

Turn(w, step) == at' = [at EXCEPT ![w] = step]
Change == changes < MaxChanges /\ changes' = changes + 1

\* loadOIDCConfig: a hub comes up with the chart's mapping and refreshes.
MappingsInit ==
    /\ chart \in Declared /\ rules \in Rules /\ snapshot = {}
    /\ connected \in {"yes", "no"} /\ changes = 0
    /\ at = [w \in Refreshers |-> IF w = Poll THEN "load" ELSE "idle"]
    /\ doomed = [w \in Refreshers |-> {}] /\ held = [w \in Refreshers |-> Nothing]

HubComesUp ==
    /\ Change /\ chart' \in Declared /\ snapshot' = {} /\ connected' = "no"
    /\ at' = [w \in Refreshers |-> IF w = Poll THEN "load" ELSE "idle"]
    /\ doomed' = [w \in Refreshers |-> {}] /\ held' = [w \in Refreshers |-> Nothing]
    /\ UNCHANGED rules

StoreConnects == connected = "no" /\ connected' = "yes" /\ UNCHANGED <<chart, rules, snapshot, at, doomed, held, changes>>

-----------------------------------------------------------------------------
\* Refresh loads the configuration...
RefreshLoads(w) ==
    /\ at[w] = "load" /\ held' = [held EXCEPT ![w] = [chart |-> chart, rules |-> NoRules]]
    /\ Turn(w, IF connected = "yes" THEN "query" ELSE "swap")
    /\ UNCHANGED <<chart, rules, snapshot, connected, doomed, changes>>

\* ... then the rows...
RefreshReads(w) ==
    /\ at[w] = "query" /\ held' = [held EXCEPT ![w].rules = rules] /\ Turn(w, "swap")
    /\ UNCHANGED <<chart, rules, snapshot, connected, doomed, changes>>

\* ... keeps the last good snapshot when it cannot...
RefreshFails(w) ==
    /\ at[w] = "query" /\ held' = [held EXCEPT ![w] = Nothing] /\ Turn(w, "idle")
    /\ UNCHANGED <<chart, rules, snapshot, connected, doomed, changes>>

\* ... and stores what it merged, whatever others stored meanwhile.
RefreshSwaps(w) ==
    /\ at[w] = "swap" /\ snapshot' = MergeMapping(held[w].chart, held[w].rules)
    /\ held' = [held EXCEPT ![w] = Nothing] /\ Turn(w, "idle")
    /\ UNCHANGED <<chart, rules, connected, doomed, changes>>

\* Mutant of PollTick: a tick refreshes when the file has changed.
PollTickOnChange ==
    /\ at[Poll] = "idle" /\ Turn(Poll, "load")
    /\ chart' \in Declared /\ Change
    /\ UNCHANGED <<rules, snapshot, connected, doomed, held>>

\* A tick of watchOIDCConfig: the configuration is replaced if the file changed
\* and is good; the cache is refreshed either way.
PollTick ==
    /\ at[Poll] = "idle" /\ Turn(Poll, "load")
    /\ \/ UNCHANGED <<chart, changes>>
       \/ chart' \in Declared /\ Change
    /\ UNCHANGED <<rules, snapshot, connected, doomed, held>>

-----------------------------------------------------------------------------
\* SaveOIDCGroupMapping for handleUpsertOIDCMapping.
Upsert(w, g, role) ==
    /\ at[w] = "idle" /\ connected = "yes" /\ Change
    /\ rules' = [rules EXCEPT ![g] = role] /\ Turn(w, "load")
    /\ UNCHANGED <<chart, snapshot, connected, doomed, held>>

\* ... answered with an error, though it landed.
UpsertLost(w, g, role) ==
    /\ at[w] = "idle" /\ connected = "yes" /\ Change
    /\ rules' = [rules EXCEPT ![g] = role]
    /\ UNCHANGED <<chart, snapshot, connected, at, doomed, held>>

\* DeleteOIDCGroupMapping counts first (ErrNotFound: 404, or 400 for a group
\* the chart declares); ResetOIDCGroupMappings lists.
Delete(w, g) ==
    /\ at[w] = "idle" /\ connected = "yes" /\ rules[g] # NoRule
    /\ doomed' = [doomed EXCEPT ![w] = {g}] /\ Turn(w, "tombstone")
    /\ UNCHANGED <<chart, rules, snapshot, connected, held, changes>>

Reset(w) ==
    /\ at[w] = "idle" /\ connected = "yes"
    /\ doomed' = [doomed EXCEPT ![w] = {g \in OidcGroups : rules[g] # NoRule}]
    /\ Turn(w, IF doomed'[w] = {} THEN "load" ELSE "tombstone")
    /\ UNCHANGED <<chart, rules, snapshot, connected, held, changes>>

\* One row after the other; a failure ends the request without a refresh.
Tombstone(w, g) ==
    /\ at[w] = "tombstone" /\ g \in doomed[w] /\ Change
    /\ rules' = [rules EXCEPT ![g] = NoRule] /\ doomed' = [doomed EXCEPT ![w] = @ \ {g}]
    /\ Turn(w, IF doomed'[w] = {} THEN "load" ELSE "tombstone")
    /\ UNCHANGED <<chart, snapshot, connected, held>>

TombstoneFails(w, g) ==
    /\ at[w] = "tombstone" /\ g \in doomed[w]
    /\ \/ UNCHANGED <<rules, changes>>
       \/ rules' = [rules EXCEPT ![g] = NoRule] /\ Change
    /\ doomed' = [doomed EXCEPT ![w] = {}] /\ Turn(w, "idle")
    /\ UNCHANGED <<chart, snapshot, connected, held>>

\* Another replica, or a hand on the database.
WrittenElsewhere ==
    /\ Change /\ \E g \in OidcGroups, role \in Parsed \cup Retired \cup {NoRule} : rules' = [rules EXCEPT ![g] = role]
    /\ UNCHANGED <<chart, snapshot, connected, at, doomed, held>>

MappingsNext ==
    \/ HubComesUp \/ StoreConnects \/ PollTick \/ WrittenElsewhere
    \/ \E w \in Refreshers : RefreshLoads(w) \/ RefreshReads(w) \/ RefreshFails(w) \/ RefreshSwaps(w)
    \/ \E w \in Authors :
         \/ Reset(w)
         \/ \E g \in OidcGroups :
              \/ Delete(w, g) \/ Tombstone(w, g) \/ TombstoneFails(w, g)
              \/ \E role \in Parsed : Upsert(w, g, role) \/ UpsertLost(w, g, role)

\* What the watcher does next, when the store answers it.
PollStep == PollTick \/ RefreshLoads(Poll) \/ RefreshSwaps(Poll)

\* The watcher runs as long as the hub; the store comes up and answers it again
\* and again.
MappingsFairSpec ==
    /\ MappingsInit /\ [][MappingsNext]_mappingsVars
    /\ WF_mappingsVars(StoreConnects) /\ WF_mappingsVars(PollStep)
    /\ SF_mappingsVars(RefreshReads(Poll))

-----------------------------------------------------------------------------
MappingsTypeOK ==
    /\ chart \in Declared /\ rules \in Rules /\ changes \in 0 .. MaxChanges
    /\ snapshot \subseteq [group : OidcGroups, role : Parsed, source : {"config", "db"}, shadowed : BOOLEAN]
    /\ connected \in {"yes", "no"} /\ doomed \in [Refreshers -> SUBSET OidcGroups]
    /\ at \in [Refreshers -> {"idle", "tombstone", "load", "query", "swap"}]
    /\ held \in [Refreshers -> [chart : Declared \cup {NoRules}, rules : Rules]]

\* What a user's groups earn: of every group what the chart says, else what an
\* admin's rule says if its role is one, and the default if that is nothing.
Earned(groups, default) ==
    LET says(g) == IF chart[g] # NoRule THEN chart[g] ELSE rules[g]
        roles == {says(g) : g \in groups} \cap Parsed
    IN  IF roles = {} THEN default ELSE roles

\* Every request's grants are what its user's groups earn from the chart and the
\* table, and an admin sees every row there is.
MappingRight ==
    /\ \A groups \in SUBSET OidcGroups :
          GrantsFor(snapshot, groups, {"default"}) = Earned(groups, {"default"})
    /\ listed = {g \in OidcGroups : rules[g] # NoRule}

\* Whatever overlapping refreshes store in whatever order, whoever wrote and
\* whatever failed on the way: once the writes end, the mapping becomes, and
\* stays, right (mappingcache.go, Refresh; oidc.go: "unconditionally call
\* mapping.Refresh").
MappingConverges == <>[]MappingRight
===============================================================================
