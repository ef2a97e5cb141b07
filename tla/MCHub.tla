-------------------------------- MODULE MCHub --------------------------------
(***************************************************************************)
(* TLC instance of what a hub does on its own: the configuration watcher   *)
(* (HotReload), the schema (SchemaMigrate), the sign-in limiter            *)
(* (Throttles), the group mapping (Mappings) and collection control        *)
(* (Collection).  They share no state, so one of them moves at a time,     *)
(* chosen at the start, and the others rest.                               *)
(***************************************************************************)
EXTENDS HotReload, MCSchemaMigrate, Throttles, Mappings, Collection

VARIABLE focus

hubVars == <<focus, reloadVars, schemaVars, throttlesVars, mappingsVars, collectionVars>>

MCDeclared == {[g \in OidcGroups |-> NoRule], [g \in OidcGroups |-> IF g = "g" THEN "viewer" ELSE NoRule]}

MCSignals == <<"agent", "obi">>
Overlaid(obi, agent, exclude) ==
    [switch |-> [s \in {"obi", "agent"} |-> IF s = "obi" THEN obi ELSE agent], exclude |-> exclude]
MCNoOverlay == Overlaid("unset", "unset", "unset")
MCOverlays == {MCNoOverlay, Overlaid("off", "unset", "unset"),
               Overlaid("off", "off", "unset"), Overlaid("unset", "on", "x")}
MCBases == {[modules |-> {"obi", "agent"}, switched |-> {"obi", "agent"}, exclude |-> "all"],
            [modules |-> {"obi"}, switched |-> {"agent"}, exclude |-> "k"]}

-----------------------------------------------------------------------------
\* A hub that found no file at its start, one with no rule, and an install
\* without an overlay.
NoFile ==
    /\ file = (CHOOSE c \in Contents : TRUE) /\ mtime = 0 /\ present = FALSE
    /\ current = NoConfig /\ last = 0 /\ newest = 0 /\ modTime = 0 /\ phase = "exited"
NoMapping == MappingsInit /\ chart = NoRules /\ rules = NoRules /\ connected = "no"
NoControl == CollectionInit /\ base = CHOOSE b \in Bases : TRUE

HubInit ==
    /\ focus \in {"reload", "schema", "throttles", "mappings", "collection"}
    /\ IF focus = "reload" THEN ReloadInit ELSE NoFile
    /\ SchemaInit /\ ThrottlesInit
    /\ IF focus = "mappings" THEN MappingsInit ELSE NoMapping
    /\ IF focus = "collection" THEN CollectionInit ELSE NoControl

Reload(A) == focus = "reload" /\ A
             /\ UNCHANGED <<focus, schemaVars, throttlesVars, mappingsVars, collectionVars>>
Schema(A) == focus = "schema" /\ A
             /\ UNCHANGED <<focus, reloadVars, throttlesVars, mappingsVars, collectionVars>>
Throttle(A) == focus = "throttles" /\ A
               /\ UNCHANGED <<focus, reloadVars, schemaVars, mappingsVars, collectionVars>>
Mapping(A) == focus = "mappings" /\ A
              /\ UNCHANGED <<focus, reloadVars, schemaVars, throttlesVars, collectionVars>>
Control(A) == focus = "collection" /\ A
              /\ UNCHANGED <<focus, reloadVars, schemaVars, throttlesVars, mappingsVars>>

HubNext ==
    \/ Reload(ReloadNext) \/ Schema(SchemaNext) \/ Throttle(ThrottlesNext)
    \/ Mapping(MappingsNext) \/ Control(CollectionNext)

\* ReloadFairSpec, SchemaFairSpec and MappingsFairSpec.
HubSpec ==
    /\ HubInit /\ [][HubNext]_hubVars
    /\ WF_hubVars(Reload(TickSeesChange))
    /\ WF_hubVars(Reload(Stat \/ ReadError))
    /\ WF_hubVars(Reload(ReadGood \/ ReadBad \/ ReadError))
    /\ \A p \in Procs : WF_hubVars(Schema(Step(p)))
    /\ \A p \in Hubs : SF_hubVars(Schema(CheckReady(p)))
    /\ WF_hubVars(Mapping(StoreConnects)) /\ WF_hubVars(Mapping(PollStep))
    /\ SF_hubVars(Mapping(RefreshReads(Poll)))
===============================================================================
