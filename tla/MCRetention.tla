---------------------------- MODULE MCRetention ----------------------------
(***************************************************************************)
(* TLC instance of Projects: two projects that have their windows already. *)
(***************************************************************************)
EXTENDS Projects

MCIds == <<"a", "b">>
MCTrimTables == <<"traces">>

\* The projects as they were before anybody edits them.
MCRetentionInit ==
    /\ projectRow = [p \in Range(Ids) |-> [live |-> "yes", members |-> {}, days |-> 1]]
    /\ step = <<>> /\ edit = <<>> /\ got = <<>> /\ overlapped = {} /\ raced = {}
    /\ age = [r \in Rows |-> Absent]
    /\ mutations = [t \in Range(TrimTables) |-> {}]
    /\ jobs = {} /\ table = 0 /\ busy = {}
    /\ windows = [p \in Range(Ids) |-> {}]

MCRetentionSpec ==
    /\ MCRetentionInit /\ [][ProjectsNext]_projectsVars
    /\ WF_projectsVars(Trim) /\ SF_projectsVars(Day)
    /\ \A t \in Range(TrimTables) : WF_projectsVars(MutationDone(t))
===============================================================================
