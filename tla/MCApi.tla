--------------------------------- MODULE MCApi ---------------------------------
(***************************************************************************)
(* TLC instance of Api and Projects.  Projects edits and trims what Api    *)
(* reads, but each has its own picture of the table: one of them moves at  *)
(* a time, chosen at the start.                                            *)
(***************************************************************************)
EXTENDS Api, Projects, TLC

VARIABLE focus

apiVars == <<focus, vars, projectsVars>>

MCIds == <<"a", "b">>
MCTrimTables == <<"traces">>
Symmetry == Permutations(Admins)

\* Overlapping edits, and of windows only for "a", up to a lost race: about
\* members nothing is claimed after it.
MembersEdited ==
    /\ raced = {}
    /\ \A w \in Admins :
         LET e == edit'[w] IN
         /\ e.id \in e.members => e.members = {e.id}
         /\ e.id = "b" => e.days = 0 /\ (e.op = "update" => e.sets = {"members"})

\* One edit of a window at a time, while the trimmer runs; "b" keeps the one it
\* is created with.
WindowsEdited ==
    /\ \A v, w \in Admins : v # w => "idle" \in {step'[v], step'[w]}
    /\ \A w \in Admins : LET e == edit'[w] IN "members" \notin e.sets /\ (e.id = "b" => e.op # "update")
    /\ \A r \in Rows : r[1] \in Reserved => age'[r] = Absent

\* The request that waits while Projects moves.
QuietCall == [route |-> 1, caller |-> Who("none", "no", {}), wanted |-> None, origin |-> "own",
              originCheck |-> "enforce", auth |-> "on", anon |-> None, modules |-> Modules, edits |-> 0]

MCApiInit ==
    /\ ProjectsInit
    /\ \/ /\ focus = "request" /\ \A p \in Range(Ids) : projectRow[p] = Tombstone
          /\ Init
       \/ focus \in {"members", "trim"} /\ Arrives({QuietCall})

MCApiNext ==
    /\ focus' = focus
    /\ \/ focus = "request" /\ Next /\ UNCHANGED projectsVars
       \/ focus = "members" /\ AdminNext /\ MembersEdited /\ UNCHANGED vars
       \/ focus = "trim" /\ ProjectsNext /\ WindowsEdited /\ UNCHANGED vars

MCApiSpec == MCApiInit /\ [][MCApiNext]_apiVars
===============================================================================
