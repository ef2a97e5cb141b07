----------------------------- MODULE GroupResolver -----------------------------
(***************************************************************************)
(* The memo of UI-authored service groups (hub/internal/health/resolver.go)*)
(* under the HTTP handlers that read and write it (internal/api/           *)
(* service_groups.go).  Every call to the store is a step of its own, made *)
(* without the resolver's lock; what is done under the lock is one step.   *)
(* (rates.Resolver has the same shape.)                                    *)
(*                                                                         *)
(* The content of a group is an opaque value.  A write of the table bumps  *)
(* `ver`, so a snapshot is compared with the table by its version.         *)
(***************************************************************************)
EXTENDS Integers

CONSTANTS
    Clients,        \* requests in flight at once
    Names, Values,  \* group names and contents
    NoGroup,        \* no live row of that name
    TTL,            \* storedGroupsTTL
    MaxWrites       \* the bound on writes of the table

ASSUME ResolverAssumption ==
    /\ NoGroup \notin Values
    /\ TTL \in Nat \ {0} /\ MaxWrites \in Nat

VARIABLES
    table, ver,     \* service_group FINAL; how often it was written
    declared,       \* the names the hot-reloaded chart config declares
    memoized, memoVer, age, warm,   \* the memo; age = TTL when not fresh
    stage,             \* per client: idle, list, save, count, tombstone, drop
    req,            \* the request it serves
    snap, snapVer,  \* what ListServiceGroups returned to it; -1 before
    mine,           \* the version its own write made
    acked,          \* history: newest write whose handler has invalidated
    began,          \* history: per client, acked when its query was sent
    spanned,        \* history: a write was answered while the query whose result
                    \* fills the memo was in flight
    seen            \* history: per client, whether a live row of its name was
                    \* there, at any time since its request began

memo == <<memoized, memoVer, age, warm>>
resolverVars == <<table, ver, declared, memoized, memoVer, age, warm, stage, req, snap, snapVer,
          mine, acked, began, spanned, seen>>

Tables == [Names -> Values \cup {NoGroup}]
Empty == [n \in Names |-> NoGroup]
Writes == [op : {"create", "update"}, name : Names, value : Values]
            \cup [op : {"delete"}, name : Names]
Read == [op |-> "read"]

ResolverInit ==
    /\ table = Empty /\ ver = 0
    /\ declared = {}
    /\ memoized = Empty /\ memoVer = 0 /\ age = TTL /\ warm = FALSE
    /\ stage = [p \in Clients |-> "idle"]
    /\ req = [p \in Clients |-> Read]
    /\ snap = [p \in Clients |-> Empty] /\ snapVer = [p \in Clients |-> -1]
    /\ mine = [p \in Clients |-> 0]
    /\ acked = 0 /\ began = [p \in Clients |-> 0] /\ spanned = FALSE
    /\ seen = [p \in Clients |-> {}]

-----------------------------------------------------------------------------
\* Mutant of MemoFresh: a warm memo is used for ever.
MemoFreshForever == warm

\* fresh().
MemoFresh == warm /\ age < TTL

Live(n) == IF table[n] = NoGroup THEN "absent" ELSE "present"

Return(p) ==
    /\ stage' = [stage EXCEPT ![p] = "idle"] /\ req' = [req EXCEPT ![p] = Read]
    /\ snap' = [snap EXCEPT ![p] = Empty] /\ snapVer' = [snapVer EXCEPT ![p] = -1]
    /\ seen' = [seen EXCEPT ![p] = {}] /\ began' = [began EXCEPT ![p] = 0]

\* What is sent to the store from here on reads every write answered so far.
Begin(p) == began' = [began EXCEPT ![p] = acked]

\* Resolver.Config finds the memo stale.  (A hit changes nothing.)
ConfigMiss(p) ==
    /\ stage[p] = "idle" /\ ~MemoFresh
    /\ stage' = [stage EXCEPT ![p] = "list"]
    /\ Begin(p)
    /\ UNCHANGED <<table, ver, declared, memo, req, snap, snapVer, mine, acked, spanned, seen>>

\* handleServiceGroups lists through Stored, past the memo.
ListRequest(p) ==
    /\ stage[p] = "idle"
    /\ stage' = [stage EXCEPT ![p] = "list"]
    /\ Begin(p)
    /\ UNCHANGED <<table, ver, declared, memo, req, snap, snapVer, mine, acked, spanned, seen>>

\* A create, update or delete request that passes validation and
\* declaredServiceGroup.
StartWrite(p, r) ==
    /\ stage[p] = "idle" /\ r.name \notin declared
    /\ stage' = [stage EXCEPT ![p] = IF r.op = "delete" THEN "count" ELSE "list"]
    /\ req' = [req EXCEPT ![p] = r]
    /\ seen' = [seen EXCEPT ![p] = {Live(r.name)}]
    /\ Begin(p)
    /\ UNCHANGED <<table, ver, declared, memo, snap, snapVer, mine, acked, spanned>>

\* Mutant of ListServiceGroups: a write, too, is decided on a fresh memo.
ListMemoized(p) ==
    /\ stage[p] = "list" /\ snapVer[p] = -1
    /\ snap' = [snap EXCEPT ![p] = IF MemoFresh THEN memoized ELSE table]
    /\ snapVer' = [snapVer EXCEPT ![p] = IF MemoFresh THEN memoVer ELSE ver]
    /\ UNCHANGED <<table, ver, declared, memo, stage, req, mine, acked, began, spanned, seen>>

\* The store answers the query of Stored or storedCached.
ListServiceGroups(p) ==
    /\ stage[p] = "list" /\ snapVer[p] = -1
    /\ snap' = [snap EXCEPT ![p] = table] /\ snapVer' = [snapVer EXCEPT ![p] = ver]
    /\ UNCHANGED <<table, ver, declared, memo, stage, req, mine, acked, began, spanned, seen>>

\* The query fails: lastKnown() for a read, an error for a write.
ListFails(p) ==
    /\ stage[p] = "list" /\ snapVer[p] = -1
    /\ Return(p)
    /\ UNCHANGED <<table, ver, declared, memo, mine, acked, spanned>>

\* create refuses a name that is taken, update one that is not.
Refused(p) ==
    \/ req[p].op = "create" /\ snap[p][req[p].name] # NoGroup
    \/ req[p].op = "update" /\ snap[p][req[p].name] = NoGroup

\* The snapshot is stored in the memo, stamped with the time of the FILL,
\* and a write goes on to save unless it is refused.
FillMemo(p) ==
    /\ stage[p] = "list" /\ snapVer[p] # -1
    /\ memoized' = snap[p] /\ memoVer' = snapVer[p] /\ age' = 0 /\ warm' = TRUE
    /\ spanned' = (began[p] < acked)
    /\ IF req[p] = Read \/ Refused(p) THEN Return(p)
       ELSE /\ stage' = [stage EXCEPT ![p] = "save"]
            /\ UNCHANGED <<req, snap, snapVer, began, seen>>
    /\ UNCHANGED <<table, ver, declared, mine, acked>>

\* DeleteServiceGroup's count(): no live row is ErrNotFound; the query may fail.
CountLive(p) ==
    /\ stage[p] = "count"
    /\ \/ /\ table[req[p].name] # NoGroup
          /\ stage' = [stage EXCEPT ![p] = "tombstone"]
          /\ UNCHANGED <<req, snap, snapVer, began, seen>>
       \/ Return(p)
    /\ UNCHANGED <<table, ver, declared, memo, mine, acked, spanned>>

\* The row that is inserted: the group, or a tombstone.
Row(p) == IF req[p].op = "delete" THEN NoGroup ELSE req[p].value

Insert(p) ==
    /\ table' = [table EXCEPT ![req[p].name] = Row(p)]
    /\ ver' = ver + 1

\* Every client in flight for that name lives through the change.
Witnessed(p, q) ==
    IF req[q] # Read /\ req[q].name = req[p].name
    THEN seen[q] \cup {IF req[p].op = "delete" THEN "absent" ELSE "present"} ELSE seen[q]

\* SaveServiceGroup or the tombstone of DeleteServiceGroup succeeds.
Save(p) ==
    /\ stage[p] \in {"save", "tombstone"} /\ ver < MaxWrites
    /\ Insert(p)
    /\ mine' = [mine EXCEPT ![p] = ver + 1]
    /\ stage' = [stage EXCEPT ![p] = "drop"]
    /\ seen' = [q \in Clients |-> Witnessed(p, q)]
    /\ UNCHANGED <<declared, memo, req, snap, snapVer, acked, began, spanned>>

\* The write reports an error and the row is not in.
WriteFails(p) ==
    /\ stage[p] \in {"save", "tombstone"}
    /\ Return(p)
    /\ UNCHANGED <<table, ver, declared, memo, mine, acked, spanned>>

\* The write reports an error but the row got in: no Invalidate either.
WriteFailsLate(p) ==
    /\ stage[p] \in {"save", "tombstone"} /\ ver < MaxWrites
    /\ Insert(p)
    /\ stage' = [stage EXCEPT ![p] = "idle"] /\ req' = [req EXCEPT ![p] = Read]
    /\ snap' = [snap EXCEPT ![p] = Empty] /\ snapVer' = [snapVer EXCEPT ![p] = -1]
    /\ seen' = [q \in Clients |-> IF q = p THEN {} ELSE Witnessed(p, q)]
    /\ began' = [began EXCEPT ![p] = 0]
    /\ UNCHANGED <<declared, memo, mine, acked, spanned>>

\* Mutant of Invalidate: a delete forgets to drop the memo.
InvalidateSavesOnly(p) ==
    /\ stage[p] = "drop"
    /\ age' = IF req[p].op = "delete" THEN age ELSE TTL
    /\ acked' = IF mine[p] > acked THEN mine[p] ELSE acked
    /\ mine' = [mine EXCEPT ![p] = 0]
    /\ Return(p)
    /\ UNCHANGED <<table, ver, declared, memoized, memoVer, warm, spanned>>

\* Invalidate, and the answer to the caller.
Invalidate(p) ==
    /\ stage[p] = "drop"
    /\ age' = TTL
    /\ acked' = IF mine[p] > acked THEN mine[p] ELSE acked
    /\ mine' = [mine EXCEPT ![p] = 0]
    /\ Return(p)
    /\ UNCHANGED <<table, ver, declared, memoized, memoVer, warm, spanned>>

-----------------------------------------------------------------------------
MemoAges ==
    /\ age < TTL
    /\ age' = age + 1
    /\ UNCHANGED <<table, ver, declared, memoized, memoVer, warm, stage, req, snap, snapVer,
                   mine, acked, began, spanned, seen>>

\* The chart's configuration is reloaded.
DeclaredChanges(n) ==
    /\ declared' = (declared \ {n}) \cup ({n} \ declared)
    /\ UNCHANGED <<table, ver, memo, stage, req, snap, snapVer, mine, acked, began, spanned, seen>>

ServeStep(p) ==
    \/ ListServiceGroups(p) \/ ListFails(p) \/ FillMemo(p) \/ CountLive(p)
    \/ Save(p) \/ WriteFails(p) \/ WriteFailsLate(p) \/ Invalidate(p)

ResolverNext ==
    \/ \E p \in Clients :
         \/ ConfigMiss(p)
         \/ ListRequest(p)
         \/ \E r \in Writes : StartWrite(p, r)
         \/ ServeStep(p)
    \/ MemoAges
    \/ \E n \in Names : DeclaredChanges(n)

ResolverSpec == ResolverInit /\ [][ResolverNext]_resolverVars

\* Time goes on, and a request that was begun ends one way or another.
ResolverFairSpec == ResolverSpec /\ WF_resolverVars(MemoAges) /\ \A p \in Clients : WF_resolverVars(ServeStep(p))

-----------------------------------------------------------------------------
(* Properties.                                                             *)

ResolverTypeOK ==
    /\ table \in Tables /\ ver \in 0..MaxWrites
    /\ declared \subseteq Names
    /\ memoized \in Tables /\ memoVer \in 0..MaxWrites /\ age \in 0..TTL /\ warm \in BOOLEAN
    /\ stage \in [Clients -> {"idle", "list", "save", "count", "tombstone", "drop"}]
    /\ req \in [Clients -> Writes \cup {Read}]
    /\ snap \in [Clients -> Tables] /\ snapVer \in [Clients -> -1..MaxWrites]
    /\ mine \in [Clients -> 0..MaxWrites] /\ acked \in 0..MaxWrites
    /\ began \in [Clients -> 0..MaxWrites] /\ spanned \in BOOLEAN
    /\ seen \in [Clients -> SUBSET {"absent", "present"}]

\* A memo that a reader is served, and that lags behind an edit whose admin was
\* already answered, was filled by a request that had sent its query before that
\* answer and stored the result after it: no write path forgets to invalidate,
\* and no query sent after the answer, of a reader or of a writer, brings an
\* older table back (resolver.go:76-133, service_groups.go:256-283).  This is all
\* that is true of "an admin's own edit is never stale to them" (resolver.go:20-22).
StaleOnlyByOverlap == MemoFresh /\ memoVer < acked => spanned

\* A create or an update is decided on a table that was live while the request
\* was: a name that a create takes was free, and one that an update edits or a
\* delete removes was there, at some point of the request (resolver.go:76-79).
DecidesOnLiveView ==
    \A p \in Clients :
        /\ stage[p] = "save" /\ req[p].op = "create" => "absent" \in seen[p]
        /\ stage[p] = "save" /\ req[p].op = "update" => "present" \in seen[p]
        /\ stage[p] = "tombstone" => "present" \in seen[p]

\* Once the writes have ended, no reader is served anything but the last
\* table, late fills included (resolver.go:18-22).
EventuallyFresh ==
    \A v \in 0..MaxWrites : <>[](ver = v) => <>[](MemoFresh => memoVer = v)
===============================================================================
