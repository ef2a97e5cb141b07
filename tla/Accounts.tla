-------------------------------- MODULE Accounts --------------------------------
(***************************************************************************)
(* Users, their grants and their sessions: the auth service               *)
(* (hub/internal/auth/service.go) and the user administration handlers     *)
(* (internal/api/users.go) over tables without transactions                *)
(* (internal/storage/clickhouse/auth.go).                                  *)
(*                                                                         *)
(* Every call to the store is a step of its own.  SaveAuthUser writes the  *)
(* WHOLE row from the copy the request read, so two requests that overlap  *)
(* on one user overwrite each other.  A call may report an error, and a    *)
(* write that does may have landed all the same.                           *)
(***************************************************************************)
EXTENDS Integers

CONSTANTS
    Users, Local,    \* user ids; the ones whose origin is "local"
    Root,            \* bootstrapAdminID
    Passwords,
    Workers,         \* requests in flight at once
    Sessions,        \* token hashes
    Absent,          \* no live row; no user
    NoHash, Dead     \* the hash of an SSO user; a session that is not live

ASSUME AccountsAssumption ==
    /\ Root \in Local /\ Local \subseteq Users
    /\ Absent \notin Users /\ Dead \notin Users /\ NoHash \notin Passwords
    /\ Absent \notin [hash : Passwords \cup {NoHash}, disabled : {"yes", "no"}]

VARIABLES
    row,        \* auth_user FINAL
    role,       \* auth_grant FINAL: the user's standing on scope "*"
    session,    \* auth_session FINAL: the owner of a live session, or Dead
    req,        \* per worker, the request it serves
    overrun     \* history: two requests overlapped so that a write was made for a
                \* caller who was no longer an enabled admin, a stale copy of a row
                \* replaced a newer one, or grants were written for a user deleted
                \* or being deleted by the other

accountsVars == <<row, role, session, req, overrun>>

Hashes == Passwords \cup {NoHash}
Rows == [hash : Hashes, disabled : {"yes", "no"}]
\* What a PUT edits.  An edit of the name alone rewrites the row like an "enable" of
\* an enabled user; one that carries several edits makes them in the order below.
Changes == {"none", "disable", "enable", "demote", "promote", "reset"}
Steps == {"idle", "bootGrant", "bootSave", "ssoSave", "reread", "save", "list",
          "revoke", "mint", "grant", "tombstone"}
Outcomes == {"pending", "ok", "refused", "error", "sessionsLive", "signedOut"}

NoRequest == [op |-> "none", pc |-> "idle", by |-> Absent, u |-> Absent, seen |-> Absent,
              change |-> "none", hash |-> NoHash, kill |-> {}, alive |-> {},
              saved |-> "no", out |-> "pending"]

\* A hub starts on the tables it has: empty ones, or those of an install at work.
AccountsInit ==
    /\ \/ /\ row = [u \in Users |-> Absent] /\ role = [u \in Users |-> "none"]
       \/ \E p \in Passwords :
            /\ row = [u \in Users |-> [hash |-> IF u \in Local THEN p ELSE NoHash, disabled |-> "no"]]
            /\ role = [u \in Users |-> "admin"]
    /\ session = [s \in Sessions |-> Dead]
    /\ req = [w \in Workers |-> NoRequest]
    /\ overrun = "no"

-----------------------------------------------------------------------------
Enabled(u) == row[u] # Absent /\ row[u].disabled = "no"
Admin(u) == Enabled(u) /\ role[u] = "admin"
Owned(u) == {s \in Sessions : session[s] = u}

\* A fresh random token collides with no hash any request still holds.
Unused(s) == session[s] = Dead /\ \A w \in Workers : s \notin req[w].kill \cup req[w].alive

Begin(w, r) == req' = [req EXCEPT ![w] = r]
At(w, step) == req[w].pc = step
Goto(w, step) == req' = [req EXCEPT ![w].pc = step]

\* The answer.  What a rotation did is kept until the worker's next request.
Rotation(r) == r.op = "rotate" \/ r.change = "reset"
Answered(r, o) ==
    IF Rotation(r) THEN [NoRequest EXCEPT !.op = r.op, !.change = r.change, !.alive = r.alive,
                                          !.saved = r.saved, !.out = o]
    ELSE NoRequest
Return(w, o) == req' = [req EXCEPT ![w] = Answered(req[w], o)]

\* What a failed store call makes of the request.
Failed(w) ==
    IF req[w].op = "rotate" /\ At(w, "mint") THEN "signedOut"
    ELSE IF req[w].op \in {"rotate", "update"} /\ req[w].pc \in {"list", "revoke"}
         THEN "sessionsLive" ELSE "error"

\* SaveAuthUser: upsert of the whole row.
SaveAuthUser(w, r) ==
    /\ row' = [row EXCEPT ![req[w].u] = r]
    /\ overrun' = IF \/ req[w].by # Absent /\ ~Admin(req[w].by) /\ req[w].op = "update"
                     \/ req[w].seen # row[req[w].u]
                  THEN "yes" ELSE overrun

-----------------------------------------------------------------------------
\* Bootstrap, on every start of a hub: nothing to do once a user exists.
\* The grant is written before the user, each in a step that may fail.
Bootstrap(w) ==
    /\ At(w, "idle") /\ \A u \in Users : row[u] = Absent
    /\ Begin(w, [NoRequest EXCEPT !.op = "boot", !.pc = "bootGrant", !.u = Root])
    /\ UNCHANGED <<row, role, session, overrun>>

BootGrant(w) ==
    /\ At(w, "bootGrant")
    /\ role' = [role EXCEPT ![Root] = "admin"]
    /\ Goto(w, "bootSave")
    /\ UNCHANGED <<row, session, overrun>>

BootSave(w) ==
    /\ At(w, "bootSave")
    /\ \E p \in Passwords : SaveAuthUser(w, [hash |-> p, disabled |-> "no"])
    /\ Return(w, "ok")
    /\ UNCHANGED <<role, session>>

-----------------------------------------------------------------------------
\* Login with the right password of a local, enabled user.  (A wrong one only
\* feeds the rate limiter: module Throttles.)
Login(w, u) ==
    /\ At(w, "idle") /\ u \in Local /\ Enabled(u)
    /\ Begin(w, [NoRequest EXCEPT !.op = "login", !.pc = "mint", !.u = u])
    /\ UNCHANGED <<row, role, session, overrun>>

\* CompleteSSO: a disabled user is refused; the row is written from the copy
\* read here, an unknown user's as enabled.
CompleteSSO(w, u) ==
    /\ At(w, "idle") /\ u \notin Local /\ (row[u] # Absent => Enabled(u))
    /\ Begin(w, [NoRequest EXCEPT !.op = "sso", !.pc = "ssoSave", !.u = u, !.seen = row[u]])
    /\ UNCHANGED <<row, role, session, overrun>>

SaveSSOUser(w) ==
    /\ At(w, "ssoSave")
    /\ SaveAuthUser(w, [hash |-> NoHash, disabled |-> "no"])
    /\ Goto(w, "mint")
    /\ UNCHANGED <<role, session>>

\* mintSession.
MintSession(w) ==
    /\ At(w, "mint")
    /\ \E s \in Sessions : Unused(s) /\ session' = [session EXCEPT ![s] = req[w].u]
    /\ Return(w, "ok")
    /\ UNCHANGED <<row, role, overrun>>

\* Logout revokes the session; an unknown one is no error.
Logout(s) ==
    /\ session[s] # Dead
    /\ session' = [session EXCEPT ![s] = Dead]
    /\ UNCHANGED <<row, role, req, overrun>>

-----------------------------------------------------------------------------
\* IdentityFromToken: the caller of an authenticated route.
Caller(u) == Owned(u) # {} /\ Enabled(u)

\* ChangePassword up to the check of the current password.
ChangePassword(w, u, p) ==
    /\ At(w, "idle") /\ Caller(u) /\ u \in Local
    /\ Begin(w, [NoRequest EXCEPT !.op = "rotate", !.pc = "reread", !.by = u, !.u = u,
                                  !.seen = row[u], !.hash = p])
    /\ UNCHANGED <<row, role, session, overrun>>

\* The re-read after hashing: a row gone, disabled or re-keyed meanwhile
\* refuses the change.
RereadUser(w) ==
    /\ At(w, "reread")
    /\ IF Enabled(req[w].u) /\ row[req[w].u].hash = req[w].seen.hash
       THEN req' = [req EXCEPT ![w].pc = "save", ![w].seen = row[req[w].u]]
       ELSE Return(w, "refused")
    /\ UNCHANGED <<row, role, session, overrun>>

-----------------------------------------------------------------------------
\* Mutant of SelfLockout: an admin may demote itself.
SelfLockoutDisableOnly(by, u, change) == by = u /\ change = "disable"

\* checkSelfLockout.
SelfLockout(by, u, change) == by = u /\ change \in {"disable", "demote"}

\* handleUpdateUser up to its last check.
UpdateUser(w, by, u, change, p) ==
    /\ At(w, "idle") /\ Caller(by) /\ Admin(by)
    /\ row[u] # Absent /\ ~SelfLockout(by, u, change)
    /\ change = "reset" => u \in Local
    /\ Begin(w, [NoRequest EXCEPT !.op = "update", !.pc = "save", !.by = by, !.u = u,
                                  !.seen = row[u], !.change = change, !.hash = p])
    /\ UNCHANGED <<row, role, session, overrun>>

\* handleCreateUser up to its uniqueness check.
CreateUser(w, by, u, p) ==
    /\ At(w, "idle") /\ Caller(by) /\ Admin(by)
    /\ u \in Local /\ row[u] = Absent
    /\ \E change \in {"promote", "demote"} :
         Begin(w, [NoRequest EXCEPT !.op = "create", !.pc = "save", !.by = by, !.u = u,
                                    !.change = change, !.hash = p])
    /\ UNCHANGED <<row, role, session, overrun>>

\* handleDeleteUser up to its check that the user is disabled.
DeleteUser(w, by, u) ==
    /\ At(w, "idle") /\ Caller(by) /\ Admin(by)
    /\ row[u] # Absent /\ row[u].disabled = "yes"
    /\ Begin(w, [NoRequest EXCEPT !.op = "delete", !.pc = "list", !.by = by, !.u = u,
                                  !.seen = row[u]])
    /\ UNCHANGED <<row, role, session, overrun>>

\* The row a request writes: its copy with the change applied.
Edited(r) ==
    IF r.op = "create" THEN [hash |-> r.hash, disabled |-> "no"]
    ELSE [hash |-> IF Rotation(r) THEN r.hash ELSE r.seen.hash,
          disabled |-> CASE r.change = "disable" -> "yes"
                         [] r.change = "enable" -> "no"
                         [] OTHER -> r.seen.disabled]

AfterSave(r) ==
    CASE Rotation(r) -> "list"
      [] r.change \in {"promote", "demote"} -> "grant"
      [] OTHER -> "idle"

\* The save of a rotation, an edit or a new user.  `alive`: the sessions the
\* user has as the new password takes effect.
SaveUser(w) ==
    /\ At(w, "save")
    /\ SaveAuthUser(w, Edited(req[w]))
    /\ IF AfterSave(req[w]) = "idle" THEN Return(w, "ok")
       ELSE req' = [req EXCEPT ![w].pc = AfterSave(req[w]), ![w].saved = "yes",
                               ![w].seen = Absent, ![w].hash = NoHash,
                               ![w].alive = IF Rotation(req[w]) THEN Owned(req[w].u) ELSE {}]
    /\ UNCHANGED <<role, session>>

\* RevokeAuthSessionsForUser reads the live sessions...
ListLiveSessions(w) ==
    /\ At(w, "list")
    /\ req' = [req EXCEPT ![w].kill = Owned(req[w].u), ![w].pc = "revoke"]
    /\ UNCHANGED <<row, role, session, overrun>>

\* Mutant of AfterRevoke: a delete tombstones the user before its grants.
AfterRevokeUserFirst(r) ==
    CASE r.op = "rotate" -> "mint" [] r.op = "delete" -> "tombstone" [] OTHER -> "idle"

AfterRevoke(r) == CASE r.op = "rotate" -> "mint" [] r.op = "delete" -> "grant" [] OTHER -> "idle"

\* Mutant of RevokeListed: one listed session is left out of the batch.
RevokeAllButOne(w) ==
    /\ At(w, "revoke")
    /\ \E s \in Sessions : session' = [t \in Sessions |->
                              IF t \in req[w].kill \ {s} THEN Dead ELSE session[t]]
    /\ IF AfterRevoke(req[w]) = "idle" THEN Return(w, "ok")
       ELSE req' = [req EXCEPT ![w].pc = AfterRevoke(req[w]), ![w].kill = {}]
    /\ UNCHANGED <<row, role, overrun>>

\* ... and writes their tombstones in one batch.  A reset then lists the user's
\* grants for its answer, and that may fail.
RevokeListed(w) ==
    /\ At(w, "revoke")
    /\ session' = [s \in Sessions |-> IF s \in req[w].kill THEN Dead ELSE session[s]]
    /\ IF AfterRevoke(req[w]) = "idle" THEN Return(w, "ok") \/ Return(w, "error")
       ELSE req' = [req EXCEPT ![w].pc = AfterRevoke(req[w]), ![w].kill = {}]
    /\ UNCHANGED <<row, role, overrun>>

\* ReplaceAuthGrants: the new set, none for a delete.
ReplaceAuthGrants(w) ==
    /\ At(w, "grant")
    /\ role' = [role EXCEPT ![req[w].u] = IF req[w].change = "promote" THEN "admin" ELSE "none"]
    /\ overrun' = IF \/ ~Admin(req[w].by) \/ row[req[w].u] = Absent
                     \/ \E v \in Workers \ {w} : req[v].op = "delete" /\ req[v].u = req[w].u
                  THEN "yes" ELSE overrun
    /\ IF req[w].op = "delete" THEN Goto(w, "tombstone") ELSE Return(w, "ok")
    /\ UNCHANGED <<row, session>>

\* DeleteAuthUser: ErrNotFound when the row is gone already.
DeleteAuthUser(w) ==
    /\ At(w, "tombstone")
    /\ row' = [row EXCEPT ![req[w].u] = Absent]
    /\ overrun' = IF ~Admin(req[w].by) \/ req[w].seen # row[req[w].u] THEN "yes" ELSE overrun
    /\ Return(w, IF row[req[w].u] = Absent THEN "error" ELSE "ok")
    /\ UNCHANGED <<role, session>>

\* A store call reports an error and did nothing...
CallFails(w) ==
    /\ ~At(w, "idle")
    /\ Return(w, Failed(w))
    /\ UNCHANGED <<row, role, session, overrun>>

\* ... or reports one although the row was written.
SaveLandsAndFails(w) ==
    /\ At(w, "save")
    /\ SaveAuthUser(w, Edited(req[w]))
    /\ req' = [req EXCEPT ![w] = Answered([req[w] EXCEPT !.saved = "maybe"], "error")]
    /\ UNCHANGED <<role, session>>

AccountsNext == \E w \in Workers :
    \/ Bootstrap(w) \/ BootGrant(w) \/ BootSave(w)
    \/ SaveSSOUser(w) \/ MintSession(w) \/ RereadUser(w) \/ SaveUser(w)
    \/ ListLiveSessions(w) \/ RevokeListed(w) \/ ReplaceAuthGrants(w) \/ DeleteAuthUser(w)
    \/ CallFails(w) \/ SaveLandsAndFails(w)
    \/ \E u \in Users : Login(w, u) \/ CompleteSSO(w, u)
    \/ \E s \in Sessions : Logout(s)
    \/ \E u \in Users, p \in Passwords : ChangePassword(w, u, p)
    \/ \E by, u \in Users :
         \/ \E change \in Changes \ {"none", "reset"} : UpdateUser(w, by, u, change, NoHash)
         \/ \E p \in Passwords : UpdateUser(w, by, u, "reset", p) \/ CreateUser(w, by, u, p)
         \/ DeleteUser(w, by, u)

AccountsSpec == AccountsInit /\ [][AccountsNext]_accountsVars

-----------------------------------------------------------------------------
Requests == [op : {"none", "boot", "login", "sso", "rotate", "update", "create", "delete"},
             pc : Steps, by : Users \cup {Absent}, u : Users \cup {Absent},
             seen : Rows \cup {Absent}, change : Changes, hash : Hashes,
             kill : SUBSET Sessions, alive : SUBSET Sessions,
             saved : {"yes", "no", "maybe"}, out : Outcomes]

\* An SSO row never carries a hash: Login would otherwise be able to honour one.
AccountsTypeOK ==
    /\ row \in [Users -> Rows \cup {Absent}]
    /\ \A u \in Users : row[u] # Absent => (row[u].hash = NoHash <=> u \notin Local)
    /\ role \in [Users -> {"none", "admin"}]
    /\ session \in [Sessions -> Users \cup {Dead}]
    /\ req \in [Workers -> Requests]
    /\ overrun \in {"yes", "no"}

\* What ChangePassword and a password reset tell the caller is what happened:
\* a rotation reported as done, or as done but signed out, has killed every
\* session that was alive when the new password took effect (and a token is
\* never revived); one whose sweep failed says that the password did change;
\* and no plain refusal or error of ChangePassword hides a password that is
\* known to be saved.
RotationReported ==
    \A w \in Workers : Rotation(req[w]) =>
        /\ req[w].out \in {"ok", "signedOut"} =>
             /\ req[w].saved = "yes"
             /\ \A s \in req[w].alive : session[s] = Dead
        /\ req[w].out = "sessionsLive" => req[w].saved = "yes"
        /\ req[w].op = "rotate" /\ req[w].out \in {"refused", "error"} => req[w].saved # "yes"

\* No step takes the last enabled global admin away, unless requests overlap:
\* checkSelfLockout leaves the caller of every edit in place, so only a write
\* made for a caller who was locked out after it signed in, or one from a
\* stale copy of a row, can leave nobody to administer the hub.
LastAdminStays ==
    [][(\E u \in Users : Admin(u)) /\ ~(\E u \in Users : Admin(u))' => overrun' = "yes"]_accountsVars

\* A deleted user leaves no grant behind that an id which recurs (oidc|<sub>)
\* would inherit: handleDeleteUser removes grants before the user, wherever it
\* fails, and only an edit that overlaps the delete can bring one back.
NoOrphanGrants ==
    \A u \in Users \ {Root} : row[u] = Absent /\ role[u] # "none" => overrun = "yes"
===============================================================================
