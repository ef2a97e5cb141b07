------------------------------ MODULE Access_proofs ------------------------------
(***************************************************************************)
(* Proofs about Accounts and OAuthGrants, for any users, passwords,        *)
(* sessions, tokens and requests in flight.                                *)
(***************************************************************************)
EXTENDS Accounts, OAuthGrants, FiniteSetTheorems, TLAPS

-----------------------------------------------------------------------------
(* Accounts.                                                               *)

\* The kind of request each step belongs to, and what it has in hand there.
HashRule(u, r) == r.hash = NoHash <=> u \notin Local
RequestShape(r) ==
    /\ r.pc \in {"bootGrant", "bootSave"} => r.op = "boot" /\ r.u = Root
    /\ r.pc = "ssoSave" => r.op = "sso" /\ r.u \in Users \ Local
    /\ r.pc = "reread" => r.op = "rotate"
    /\ r.pc = "save" => r.op \in {"rotate", "update", "create"}
    /\ r.pc \in {"list", "revoke"} => r.op \in {"rotate", "update", "delete"}
    /\ r.pc = "mint" => r.op \in {"login", "sso", "rotate"} /\ r.u \in Users
    /\ r.pc = "grant" => r.op \in {"update", "create", "delete"}
    /\ r.pc = "tombstone" => r.op = "delete"
    /\ r.pc # "idle" => r.out = "pending"
    /\ r.pc # "idle" /\ r.change # "none" => r.op \in {"update", "create"}
    /\ r.pc # "idle" /\ r.op = "rotate" =>
         r.u \in Local /\ r.pc \in {"reread", "save", "list", "revoke", "mint"} /\ r.change = "none"
    /\ r.pc \in {"reread", "save"} /\ r.op = "rotate" => r.hash \in Passwords /\ r.seen \in Rows
    /\ r.pc = "save" /\ r.op = "create" => r.u \in Local /\ r.hash \in Passwords
    /\ r.pc = "save" /\ r.op = "update" =>
         /\ r.seen \in Rows /\ HashRule(r.u, r.seen)
         /\ r.change = "reset" => r.u \in Local /\ r.hash \in Passwords
    /\ r.pc # "idle" /\ r.op \in {"update", "create", "delete"} => r.by \in Users /\ r.u \in Users
    /\ r.pc # "idle" /\ r.op = "create" => r.change \in {"promote", "demote"}
    /\ r.pc # "idle" /\ r.op = "delete" => r.change = "none"
    /\ r.pc \in {"list", "revoke"} /\ r.op = "update" => r.change = "reset"
    /\ r.pc = "grant" /\ r.op = "update" => r.change \in {"promote", "demote"}

ShapeInv == \A w \in Workers : RequestShape(req[w])

\* The caller of an edit that could lock someone out is not the one it edits.
CallerInv ==
    \A w \in Workers :
        /\ req[w].pc # "idle"
        /\ \/ req[w].op \in {"create", "delete"}
           \/ req[w].op = "update" /\ req[w].change \in {"disable", "demote"}
        => req[w].by # req[w].u

\* A rotation on its way: nothing is saved before the save, all that was alive at
\* the save is on the list of the sweep, and dead after it.  Its answer says so.
Swept(r, ses) ==
    Rotation(r) =>
        /\ r.pc \in {"reread", "save"} => r.saved = "no"
        /\ r.pc \in {"list", "revoke", "mint"} => r.saved = "yes"
        /\ r.pc = "list" => \A s \in r.alive : ses[s] \in {r.u, Dead}
        /\ r.pc = "revoke" => \A s \in r.alive : s \in r.kill \/ ses[s] = Dead
        /\ r.pc = "mint" \/ r.out \in {"ok", "signedOut"} => \A s \in r.alive : ses[s] = Dead
        /\ r.out \in {"ok", "signedOut", "sessionsLive"} => r.saved = "yes"
        /\ r.op = "rotate" /\ r.out \in {"refused", "error"} => r.saved # "yes"
SweepInv == \A w \in Workers : Swept(req[w], session)

\* A user about to be tombstoned has no grants.
TombstoneInv ==
    overrun = "no" =>
        \A w \in Workers : req[w].pc = "tombstone" /\ req[w].u # Root => role[req[w].u] = "none"

AccountsInv ==
    /\ AccountsTypeOK /\ ShapeInv /\ CallerInv /\ SweepInv
    /\ TombstoneInv /\ NoOrphanGrants

AccountsStep(w) ==
    \/ Bootstrap(w) \/ BootGrant(w) \/ BootSave(w)
    \/ SaveSSOUser(w) \/ MintSession(w) \/ RereadUser(w) \/ SaveUser(w)
    \/ ListLiveSessions(w) \/ RevokeListed(w) \/ ReplaceAuthGrants(w) \/ DeleteAuthUser(w)
    \/ CallFails(w) \/ SaveLandsAndFails(w)
    \/ \E u \in Users : Login(w, u) \/ CompleteSSO(w, u)
    \/ \E s \in Sessions : Logout(s)
    \/ \E u \in Users, p \in Passwords : ChangePassword(w, u, p)
    \/ \E by, u \in Users :
         \/ \E change \in Changes \ {"none", "reset"} : UpdateUser(w, by, u, change, NoHash)
         \/ \E p \in Passwords : UpdateUser(w, by, u, "reset", p) \/ CreateUser(w, by, u, p)
         \/ DeleteUser(w, by, u)

\* What is left of a request once it is answered.
LEMMA AnsweredKeeps ==
    ASSUME NEW r \in Requests, NEW o \in Outcomes
    PROVE  /\ Answered(r, o) \in Requests /\ Answered(r, o).pc = "idle"
           /\ Rotation(Answered(r, o)) <=> Rotation(r)
           /\ Rotation(r) => /\ Answered(r, o).op = r.op /\ Answered(r, o).alive = r.alive
                             /\ Answered(r, o).saved = r.saved /\ Answered(r, o).out = o
           /\ Answered(r, o).kill = {}
           /\ Answered(r, o).alive \subseteq r.alive
<1> USE DEF Requests, Steps, Changes, Hashes
<1>1. CASE Rotation(r)
  <2> DEFINE a == [op |-> r.op, pc |-> "idle", by |-> Absent, u |-> Absent, seen |-> Absent,
                   change |-> r.change, hash |-> NoHash, kill |-> {}, alive |-> r.alive,
                   saved |-> r.saved, out |-> o]
  <2>1. Answered(r, o) = a BY <1>1 DEF Answered, NoRequest
  <2>2. a \in Requests OBVIOUS
  <2>3. Rotation(a) BY <1>1 DEF Rotation
  <2> QED BY <1>1, <2>1, <2>2, <2>3
<1>2. CASE ~Rotation(r)
  <2>1. Answered(r, o) = NoRequest BY <1>2 DEF Answered
  <2>2. NoRequest \in Requests /\ ~Rotation(NoRequest) /\ NoRequest.pc = "idle"
        /\ NoRequest.kill = {} /\ NoRequest.alive = {}
    BY DEF NoRequest, Rotation, Outcomes
  <2> QED BY <1>2, <2>1, <2>2
<1> QED BY <1>1, <1>2

\* A worker takes up, goes on with, or answers a request of the right shape.
LEMMA AnsweredShape ==
    ASSUME NEW r \in Requests, NEW o \in Outcomes
    PROVE  RequestShape(Answered(r, o))
<1>1. Answered(r, o).pc = "idle" BY AnsweredKeeps
<1> QED BY <1>1 DEF RequestShape

\* A worker that takes a well-shaped request leaves all requests well shaped.
LEMMA RequestMoves ==
    ASSUME AccountsTypeOK, ShapeInv, NEW w \in Workers, NEW r \in Requests, RequestShape(r),
           req' = [req EXCEPT ![w] = r]
    PROVE  req' \in [Workers -> Requests] /\ ShapeInv'
<1>1. req \in [Workers -> Requests] BY DEF AccountsTypeOK
<1>2. req'[w] = r /\ \A v \in Workers : v # w => req'[v] = req[v] BY <1>1
<1> QED BY <1>1, <1>2 DEF ShapeInv

\* Every operation leaves its worker with a request of the shape its step needs.
LEMMA RequestStep ==
    ASSUME AccountsTypeOK, ShapeInv, NEW w \in Workers, AccountsStep(w)
    PROVE  ShapeInv' /\ req' \in [Workers -> Requests]
<1> USE DEF At, Begin, Goto, Return
<1>a. req \in [Workers -> Requests] /\ req[w] \in Requests /\ RequestShape(req[w])
  BY DEF AccountsTypeOK, ShapeInv
<1>b. row \in [Users -> Rows \cup {Absent}] /\ \A u \in Users : row[u] # Absent => HashRule(u, row[u])
  BY DEF AccountsTypeOK, HashRule
<1>c. ASSUME NEW o \in Outcomes, Return(w, o) PROVE ShapeInv' /\ req' \in [Workers -> Requests]
  <2>1. Answered(req[w], o) \in Requests /\ RequestShape(Answered(req[w], o))
    BY <1>a, AnsweredKeeps, AnsweredShape
  <2> QED BY <1>c, <2>1, RequestMoves
<1> HIDE DEF Return
<1>1. CASE Bootstrap(w)
  <2> DEFINE r == [NoRequest EXCEPT !.op = "boot", !.pc = "bootGrant", !.u = Root]
  <2>1. r \in Requests BY <1>1, AccountsAssumption, <1>a, <1>b DEF Bootstrap, Requests, Hashes, Rows, Outcomes, Steps, Changes, NoRequest
  <2>2. RequestShape(r) BY <1>1, AccountsAssumption, <1>a, <1>b DEF Bootstrap, RequestShape, HashRule, NoRequest
  <2>3. req' = [req EXCEPT ![w] = r] BY <1>1 DEF Bootstrap
  <2> HIDE DEF r
  <2> QED BY <2>1, <2>2, <2>3, RequestMoves
<1>2. CASE BootGrant(w)
  <2> DEFINE r == [req[w] EXCEPT !.pc = "bootSave"]
  <2>1. r \in Requests BY <1>2, AccountsAssumption, <1>a, <1>b DEF BootGrant, Requests, Hashes, Rows, Outcomes, Steps, Changes, NoRequest
  <2>2. RequestShape(r) BY <1>2, AccountsAssumption, <1>a, <1>b DEF BootGrant, RequestShape, HashRule, NoRequest
  <2>3. req' = [req EXCEPT ![w] = r] BY <1>2 DEF BootGrant
  <2> HIDE DEF r
  <2> QED BY <2>1, <2>2, <2>3, RequestMoves
<1>3. CASE BootSave(w) BY <1>3, <1>c DEF BootSave, Outcomes
<1>4. CASE SaveSSOUser(w)
  <2> DEFINE r == [req[w] EXCEPT !.pc = "mint"]
  <2>1. r \in Requests BY <1>4, AccountsAssumption, <1>a, <1>b DEF SaveSSOUser, Requests, Hashes, Rows, Outcomes, Steps, Changes, NoRequest
  <2>2. RequestShape(r) BY <1>4, AccountsAssumption, <1>a, <1>b DEF SaveSSOUser, RequestShape, HashRule, NoRequest
  <2>3. req' = [req EXCEPT ![w] = r] BY <1>4 DEF SaveSSOUser
  <2> HIDE DEF r
  <2> QED BY <2>1, <2>2, <2>3, RequestMoves
<1>5. CASE MintSession(w) BY <1>5, <1>c DEF MintSession, Outcomes
<1>6. ASSUME NEW u \in Users, Login(w, u) PROVE ShapeInv' /\ req' \in [Workers -> Requests]
  <2> DEFINE r == [NoRequest EXCEPT !.op = "login", !.pc = "mint", !.u = u]
  <2>1. r \in Requests BY <1>6, AccountsAssumption, <1>a, <1>b DEF Login, Requests, Hashes, Rows, Outcomes, Steps, Changes, NoRequest
  <2>2. RequestShape(r) BY <1>6, AccountsAssumption, <1>a, <1>b DEF Login, RequestShape, HashRule, NoRequest
  <2>3. req' = [req EXCEPT ![w] = r] BY <1>6 DEF Login
  <2> HIDE DEF r
  <2> QED BY <2>1, <2>2, <2>3, RequestMoves
<1>7. ASSUME NEW u \in Users, CompleteSSO(w, u) PROVE ShapeInv' /\ req' \in [Workers -> Requests]
  <2> DEFINE r == [NoRequest EXCEPT !.op = "sso", !.pc = "ssoSave", !.u = u, !.seen = row[u]]
  <2>1. r \in Requests BY <1>7, AccountsAssumption, <1>a, <1>b DEF CompleteSSO, Requests, Hashes, Rows, Outcomes, Steps, Changes, NoRequest
  <2>2. RequestShape(r) BY <1>7, AccountsAssumption, <1>a, <1>b DEF CompleteSSO, RequestShape, HashRule, NoRequest
  <2>3. req' = [req EXCEPT ![w] = r] BY <1>7 DEF CompleteSSO
  <2> HIDE DEF r
  <2> QED BY <2>1, <2>2, <2>3, RequestMoves
<1>8. ASSUME NEW u \in Users, NEW p \in Passwords, ChangePassword(w, u, p) PROVE ShapeInv' /\ req' \in [Workers -> Requests]
  <2> DEFINE r == [NoRequest EXCEPT !.op = "rotate", !.pc = "reread", !.by = u, !.u = u,
                               !.seen = row[u], !.hash = p]
  <2>1. r \in Requests BY <1>8, AccountsAssumption, <1>a, <1>b DEF ChangePassword, Caller, Enabled, Requests, Hashes, Rows, Outcomes, Steps, Changes, NoRequest
  <2>2. RequestShape(r) BY <1>8, AccountsAssumption, <1>a, <1>b DEF ChangePassword, Caller, Enabled, RequestShape, HashRule, NoRequest
  <2>3. req' = [req EXCEPT ![w] = r] BY <1>8 DEF ChangePassword, Caller, Enabled
  <2> HIDE DEF r
  <2> QED BY <2>1, <2>2, <2>3, RequestMoves
<1>9. ASSUME NEW by \in Users, NEW u \in Users, NEW change \in Changes \ {"none", "reset"},
             UpdateUser(w, by, u, change, NoHash)
      PROVE  ShapeInv' /\ req' \in [Workers -> Requests]
  <2> DEFINE r == [NoRequest EXCEPT !.op = "update", !.pc = "save", !.by = by, !.u = u,
                               !.seen = row[u], !.change = change, !.hash = NoHash]
  <2>0. row[u] \in Rows BY <1>9, <1>b DEF UpdateUser
  <2>1. r \in Requests BY <2>0, AccountsAssumption DEF Requests, Hashes, Rows, Outcomes, Steps, Changes, NoRequest
  <2>2. RequestShape(r) BY <1>9, AccountsAssumption, <1>a, <1>b DEF UpdateUser, RequestShape, HashRule, NoRequest
  <2>3. req' = [req EXCEPT ![w] = r] BY <1>9 DEF UpdateUser
  <2> HIDE DEF r
  <2> QED BY <2>1, <2>2, <2>3, RequestMoves
<1>10. ASSUME NEW by \in Users, NEW u \in Users, NEW p \in Passwords, UpdateUser(w, by, u, "reset", p)
      PROVE  ShapeInv' /\ req' \in [Workers -> Requests]
  <2> DEFINE r == [NoRequest EXCEPT !.op = "update", !.pc = "save", !.by = by, !.u = u,
                               !.seen = row[u], !.change = "reset", !.hash = p]
  <2>0. row[u] \in Rows BY <1>10, <1>b DEF UpdateUser
  <2>1. r \in Requests BY <2>0, AccountsAssumption DEF Requests, Hashes, Rows, Outcomes, Steps, Changes, NoRequest
  <2>2. RequestShape(r) BY <1>10, AccountsAssumption, <1>a, <1>b DEF UpdateUser, RequestShape, HashRule, NoRequest
  <2>3. req' = [req EXCEPT ![w] = r] BY <1>10 DEF UpdateUser
  <2> HIDE DEF r
  <2> QED BY <2>1, <2>2, <2>3, RequestMoves
<1>11. ASSUME NEW by \in Users, NEW u \in Users, DeleteUser(w, by, u)
      PROVE  ShapeInv' /\ req' \in [Workers -> Requests]
  <2> DEFINE r == [NoRequest EXCEPT !.op = "delete", !.pc = "list", !.by = by, !.u = u,
                               !.seen = row[u]]
  <2>1. r \in Requests BY <1>11, AccountsAssumption, <1>a, <1>b DEF DeleteUser, Requests, Hashes, Rows, Outcomes, Steps, Changes, NoRequest
  <2>2. RequestShape(r) BY <1>11, AccountsAssumption, <1>a, <1>b DEF DeleteUser, RequestShape, HashRule, NoRequest
  <2>3. req' = [req EXCEPT ![w] = r] BY <1>11 DEF DeleteUser
  <2> HIDE DEF r
  <2> QED BY <2>1, <2>2, <2>3, RequestMoves
<1>12. CASE ListLiveSessions(w)
  <2> DEFINE r == [req[w] EXCEPT !.kill = Owned(req[w].u), !.pc = "revoke"]
  <2>1. r \in Requests BY <1>12, AccountsAssumption, <1>a, <1>b DEF ListLiveSessions, Owned, Requests, Hashes, Rows, Outcomes, Steps, Changes, NoRequest
  <2>2. RequestShape(r) BY <1>12, AccountsAssumption, <1>a, <1>b DEF ListLiveSessions, Owned, RequestShape, HashRule, NoRequest
  <2>3. req' = [req EXCEPT ![w] = r] BY <1>12 DEF ListLiveSessions, Owned
  <2> HIDE DEF r
  <2> QED BY <2>1, <2>2, <2>3, RequestMoves
<1>13. ASSUME NEW by \in Users, NEW u \in Users, NEW p \in Passwords, CreateUser(w, by, u, p)
      PROVE  ShapeInv' /\ req' \in [Workers -> Requests]
  <2> DEFINE R(c) == [NoRequest EXCEPT !.op = "create", !.pc = "save", !.by = by, !.u = u,
                                       !.change = c, !.hash = p]
  <2>1. PICK c \in {"promote", "demote"} : req' = [req EXCEPT ![w] = R(c)] BY <1>13 DEF CreateUser
  <2> DEFINE r == R(c)
  <2>2. r \in Requests
    BY AccountsAssumption DEF Requests, Hashes, Outcomes, Steps, Changes, NoRequest
  <2>3. RequestShape(r) BY <1>13 DEF CreateUser, RequestShape, NoRequest
  <2>4. req' = [req EXCEPT ![w] = r] BY <2>1
  <2> HIDE DEF r
  <2> QED BY <2>2, <2>3, <2>4, RequestMoves
<1>14. CASE RereadUser(w)
  <2> DEFINE r == [req[w] EXCEPT !.pc = "save", !.seen = row[req[w].u]]
  <2>1. CASE Return(w, "refused") BY <2>1, <1>c DEF Outcomes
  <2>2. CASE Enabled(req[w].u) /\ req' = [req EXCEPT ![w] = r]
    <3>1. /\ req[w].pc = "reread" /\ req[w].op = "rotate" /\ req[w].u \in Users
          /\ row[req[w].u] \in Rows
      BY <1>14, <2>2, <1>a, <1>b, AccountsAssumption DEF RereadUser, RequestShape, Enabled
    <3>2. r \in Requests BY <3>1, <1>a DEF Requests, Steps
    <3>3. RequestShape(r) BY <3>1, <1>a DEF RequestShape, Requests
    <3> HIDE DEF r
    <3> QED BY <2>2, <3>2, <3>3, RequestMoves
  <2> QED BY <1>14, <2>1, <2>2 DEF RereadUser
<1>15. CASE SaveUser(w)
  <2> DEFINE l == AfterSave(req[w])
             a == IF Rotation(req[w]) THEN Owned(req[w].u) ELSE {}
             r == [req[w] EXCEPT !.pc = l, !.saved = "yes", !.seen = Absent, !.hash = NoHash,
                                 !.alive = a]
  <2>1. CASE AfterSave(req[w]) = "idle" BY <2>1, <1>15, <1>c DEF SaveUser, Outcomes
  <2>2. CASE AfterSave(req[w]) # "idle"
    <3>1. req[w].pc = "save" /\ req' = [req EXCEPT ![w] = r] BY <1>15, <2>2 DEF SaveUser
    <3>2. l \in {"list", "grant"} BY <2>2 DEF AfterSave
    <3>3. a \in SUBSET Sessions BY DEF Owned
    <3> HIDE DEF a
    <3>4. r \in Requests
      <4> HIDE DEF l
      <4> QED BY <3>2, <3>3, <1>a DEF Requests, Steps, Hashes
    <3>5. RequestShape(r) BY <3>1, <3>2, <1>a DEF RequestShape, Requests, AfterSave, Rotation
    <3> HIDE DEF r
    <3> QED BY <3>1, <3>4, <3>5, RequestMoves
  <2> QED BY <2>1, <2>2
<1>16. CASE RevokeListed(w)
  <2> DEFINE r == [req[w] EXCEPT !.pc = AfterRevoke(req[w]), !.kill = {}]
  <2>1. CASE AfterRevoke(req[w]) = "idle" BY <2>1, <1>16, <1>c DEF RevokeListed, Outcomes
  <2>2. CASE AfterRevoke(req[w]) # "idle"
    <3>1. req[w].pc = "revoke" /\ req' = [req EXCEPT ![w] = r] BY <1>16, <2>2 DEF RevokeListed
    <3>2. AfterRevoke(req[w]) \in {"mint", "grant"} BY <2>2 DEF AfterRevoke
    <3>3. r \in Requests BY <3>2, <1>a DEF Requests, Steps
    <3>4. RequestShape(r)
      BY <3>1, <3>2, <1>a, AccountsAssumption DEF RequestShape, Requests, AfterRevoke
    <3> HIDE DEF r
    <3> QED BY <3>1, <3>3, <3>4, RequestMoves
  <2> QED BY <2>1, <2>2
<1>17. CASE ReplaceAuthGrants(w)
  <2> DEFINE r == [req[w] EXCEPT !.pc = "tombstone"]
  <2>1. CASE req[w].op # "delete" BY <2>1, <1>17, <1>c DEF ReplaceAuthGrants, Outcomes
  <2>2. CASE req[w].op = "delete"
    <3>1. req[w].pc = "grant" /\ req' = [req EXCEPT ![w] = r] BY <1>17, <2>2 DEF ReplaceAuthGrants
    <3>2. r \in Requests BY <1>a DEF Requests, Steps
    <3>3. RequestShape(r) BY <3>1, <2>2, <1>a DEF RequestShape, Requests
    <3> HIDE DEF r
    <3> QED BY <3>1, <3>2, <3>3, RequestMoves
  <2> QED BY <2>1, <2>2
<1>18. CASE DeleteAuthUser(w) BY <1>18, <1>c DEF DeleteAuthUser, Outcomes
<1>19. CASE CallFails(w) BY <1>19, <1>c DEF CallFails, Failed, Outcomes
<1>20. CASE SaveLandsAndFails(w)
  <2> DEFINE r == [req[w] EXCEPT !.saved = "maybe"]
  <2>1. r \in Requests BY <1>a DEF Requests
  <2>2. req' = [req EXCEPT ![w] = Answered(r, "error")] BY <1>20 DEF SaveLandsAndFails
  <2> HIDE DEF r
  <2>3. Answered(r, "error") \in Requests /\ RequestShape(Answered(r, "error"))
    BY <2>1, AnsweredKeeps, AnsweredShape DEF Outcomes
  <2> QED BY <2>2, <2>3, RequestMoves
<1>21. ASSUME NEW s \in Sessions, Logout(s) PROVE ShapeInv' /\ req' \in [Workers -> Requests]
  BY <1>21, <1>a DEF Logout, ShapeInv
<1> QED BY <1>1, <1>2, <1>3, <1>4, <1>5, <1>6, <1>7, <1>8, <1>9, <1>10, <1>11, <1>12, <1>13,
           <1>14, <1>15, <1>16, <1>17, <1>18, <1>19, <1>20, <1>21 DEF AccountsStep
AtWork(w) ==
    \/ BootGrant(w) \/ BootSave(w) \/ SaveSSOUser(w) \/ RereadUser(w) \/ SaveUser(w)
    \/ ListLiveSessions(w) \/ RevokeListed(w) \/ ReplaceAuthGrants(w)
    \/ SaveLandsAndFails(w) \/ CallFails(w) \/ MintSession(w) \/ DeleteAuthUser(w)

\* A request at work moves on alone, as what it was, or is answered.
LEMMA GoesOn ==
    ASSUME AccountsTypeOK, ShapeInv, NEW w \in Workers, AtWork(w)
    PROVE  /\ \A v \in Workers : v # w => req'[v] = req[v]
           /\ \/ /\ req'[w].pc = "idle"
                 /\ SaveLandsAndFails(w) \/ \E o \in Outcomes : Return(w, o)
              \/ /\ req'[w].op = req[w].op /\ req'[w].change = req[w].change
                 /\ req'[w].by = req[w].by /\ req'[w].u = req[w].u
           /\ req'[w].pc = "tombstone" => ReplaceAuthGrants(w) /\ req[w].op = "delete"
           /\ CallFails(w) => req'[w].pc = "idle"
<1> USE DEF Goto, At, Return
<1>1. req \in [Workers -> Requests] /\ req[w] \in Requests /\ RequestShape(req[w])
  BY DEF AccountsTypeOK, ShapeInv
<1>2. ASSUME NEW r \in Requests, NEW o \in Outcomes, req' = [req EXCEPT ![w] = Answered(r, o)]
      PROVE  (\A v \in Workers : v # w => req'[v] = req[v]) /\ req'[w].pc = "idle"
  BY <1>1, <1>2, AnsweredKeeps
<1>15. CallFails(w) => req'[w].pc = "idle" BY <1>1, <1>2 DEF CallFails, Failed, Outcomes
<1>3. CASE BootGrant(w) BY <1>1, <1>15, <1>3 DEF BootGrant
<1>4. CASE BootSave(w) BY <1>1, <1>15, <1>2, <1>4 DEF BootSave, Outcomes
<1>5. CASE SaveSSOUser(w) BY <1>1, <1>15, <1>5 DEF SaveSSOUser
<1>6. CASE RereadUser(w)
  <2>1. CASE Return(w, "refused") BY <1>1, <1>15, <1>2, <2>1 DEF Outcomes
  <2>2. CASE req' = [req EXCEPT ![w].pc = "save", ![w].seen = row[req[w].u]] BY <1>1, <1>15, <2>2
  <2> QED BY <1>6, <2>1, <2>2 DEF RereadUser
<1>7. CASE SaveUser(w)
  <2>1. CASE Return(w, "ok") BY <1>1, <1>15, <1>2, <2>1 DEF Outcomes
  <2>2. CASE req' = [req EXCEPT ![w].pc = AfterSave(req[w]), ![w].saved = "yes",
                                ![w].seen = Absent, ![w].hash = NoHash,
                                ![w].alive = IF Rotation(req[w]) THEN Owned(req[w].u) ELSE {}]
    BY <1>1, <1>15, <2>2 DEF AfterSave
  <2> QED BY <1>7, <2>1, <2>2 DEF SaveUser
<1>8. CASE ListLiveSessions(w) BY <1>1, <1>15, <1>8 DEF ListLiveSessions
<1>9. CASE RevokeListed(w)
  <2>1. CASE Return(w, "ok") \/ Return(w, "error") BY <1>1, <1>15, <1>2, <2>1 DEF Outcomes
  <2>2. CASE req' = [req EXCEPT ![w].pc = AfterRevoke(req[w]), ![w].kill = {}]
    BY <1>1, <1>15, <2>2 DEF AfterRevoke
  <2> QED BY <1>9, <2>1, <2>2 DEF RevokeListed
<1>10. CASE ReplaceAuthGrants(w)
  <2>1. CASE Return(w, "ok") BY <1>1, <1>15, <1>2, <2>1 DEF Outcomes
  <2>2. CASE req[w].op = "delete" /\ Goto(w, "tombstone") BY <1>1, <1>15, <1>10, <2>2
  <2> QED BY <1>10, <2>1, <2>2 DEF ReplaceAuthGrants
<1>11. CASE SaveLandsAndFails(w)
  <2>1. [req[w] EXCEPT !.saved = "maybe"] \in Requests BY <1>1 DEF Requests
  <2> QED BY <1>2, <1>11, <2>1 DEF SaveLandsAndFails, Outcomes
<1>12. CASE CallFails(w) BY <1>1, <1>15, <1>2, <1>12 DEF CallFails, Failed, Outcomes
<1>13. CASE MintSession(w) BY <1>1, <1>15, <1>2, <1>13 DEF MintSession, Outcomes
<1>14. CASE DeleteAuthUser(w) BY <1>1, <1>15, <1>2, <1>14 DEF DeleteAuthUser, Outcomes
<1> QED BY <1>3, <1>4, <1>5, <1>6, <1>7, <1>8, <1>9, <1>10, <1>11, <1>12, <1>13, <1>14, <1>15 DEF AtWork

\* The row an edit writes follows the rule on hashes.
LEMMA EditedRow ==
    ASSUME AccountsTypeOK, ShapeInv, NEW w \in Workers, req[w].pc = "save"
    PROVE  Edited(req[w]) \in Rows /\ HashRule(req[w].u, Edited(req[w])) /\ req[w].u \in Users
<1>1. req[w] \in Requests /\ RequestShape(req[w]) BY DEF AccountsTypeOK, ShapeInv
<1>2. req[w].op \in {"rotate", "update", "create"} BY <1>1 DEF RequestShape
<1>3. CASE req[w].op = "rotate"
  BY <1>1, <1>3, AccountsAssumption DEF RequestShape, Edited, Rotation, Rows, Hashes, HashRule
<1>4. CASE req[w].op = "update"
  <2>1. CASE req[w].change = "reset"
    BY <1>1, <1>4, <2>1, AccountsAssumption DEF RequestShape, Edited, Rotation, Rows, Hashes, HashRule
  <2>2. CASE req[w].change # "reset"
    BY <1>1, <1>4, <2>2 DEF RequestShape, Edited, Rotation, Rows, Hashes, HashRule
  <2> QED BY <2>1, <2>2
<1>5. CASE req[w].op = "create"
  BY <1>1, <1>5, AccountsAssumption DEF RequestShape, Edited, Rotation, Rows, Hashes, HashRule
<1> QED BY <1>2, <1>3, <1>4, <1>5

\* Every step keeps the tables and the requests well typed.
LEMMA AccountsTypeStep ==
    ASSUME AccountsTypeOK, ShapeInv, NEW w \in Workers, AccountsStep(w)
    PROVE  AccountsTypeOK'
<1>2. req[w] \in Requests /\ RequestShape(req[w]) BY DEF AccountsTypeOK, ShapeInv
<1> DEFINE Typed ==
        /\ row' \in [Users -> Rows \cup {Absent}]
        /\ \A u \in Users : row'[u] # Absent => (row'[u].hash = NoHash <=> u \notin Local)
        /\ role' \in [Users -> {"none", "admin"}]
        /\ session' \in [Sessions -> Users \cup {Dead}]
        /\ overrun' \in {"yes", "no"}
<1> SUFFICES Typed BY RequestStep DEF AccountsTypeOK
<1>3. ASSUME NEW r \in Rows, HashRule(req[w].u, r), req[w].u \in Users, SaveAuthUser(w, r),
             UNCHANGED <<role, session>>
      PROVE  Typed
  BY <1>3 DEF AccountsTypeOK, SaveAuthUser, HashRule
<1>4. ASSUME UNCHANGED <<row, role, session, overrun>> PROVE Typed BY <1>4 DEF AccountsTypeOK
<1>5. CASE BootGrant(w) BY <1>5, AccountsAssumption DEF BootGrant, AccountsTypeOK
<1>6. CASE BootSave(w)
  <2>1. PICK p \in Passwords : SaveAuthUser(w, [hash |-> p, disabled |-> "no"])
    BY <1>6 DEF BootSave
  <2>2. /\ [hash |-> p, disabled |-> "no"] \in Rows /\ req[w].u \in Users
        /\ HashRule(req[w].u, [hash |-> p, disabled |-> "no"])
    BY <1>2, <1>6, AccountsAssumption DEF BootSave, At, RequestShape, Rows, Hashes, HashRule
  <2> QED BY <1>3, <1>6, <2>1, <2>2 DEF BootSave
<1>7. CASE SaveSSOUser(w)
  <2>1. /\ [hash |-> NoHash, disabled |-> "no"] \in Rows /\ req[w].u \in Users
        /\ HashRule(req[w].u, [hash |-> NoHash, disabled |-> "no"])
    BY <1>2, <1>7 DEF SaveSSOUser, At, RequestShape, Rows, Hashes, HashRule
  <2> QED BY <1>3, <1>7, <2>1 DEF SaveSSOUser
<1>8. CASE SaveUser(w) \/ SaveLandsAndFails(w)
  BY <1>3, <1>8, EditedRow DEF SaveUser, SaveLandsAndFails, At
<1>9. CASE MintSession(w)
  <2>1. req[w].u \in Users BY <1>2, <1>9 DEF MintSession, At, RequestShape
  <2> QED BY <1>9, <2>1 DEF MintSession, AccountsTypeOK
<1>10. CASE RevokeListed(w) BY <1>10 DEF RevokeListed, AccountsTypeOK
<1>11. CASE ReplaceAuthGrants(w)
  <2>1. UNCHANGED <<row, session>> /\ overrun' \in {"yes", overrun} BY <1>11 DEF ReplaceAuthGrants
  <2>2. role' = [role EXCEPT ![req[w].u] = IF req[w].change = "promote" THEN "admin" ELSE "none"]
    BY <1>11 DEF ReplaceAuthGrants
  <2> QED BY <2>1, <2>2 DEF AccountsTypeOK
<1>12. CASE DeleteAuthUser(w)
  <2>1. UNCHANGED <<role, session>> /\ overrun' \in {"yes", overrun}
        /\ row' = [row EXCEPT ![req[w].u] = Absent]
    BY <1>12 DEF DeleteAuthUser
  <2> QED BY <2>1 DEF AccountsTypeOK
<1>13. ASSUME NEW s \in Sessions, Logout(s) PROVE Typed BY <1>13 DEF Logout, AccountsTypeOK
<1>14. CASE Bootstrap(w) \/ RereadUser(w) \/ ListLiveSessions(w) \/ CallFails(w)
  BY <1>4, <1>14 DEF Bootstrap, RereadUser, ListLiveSessions, CallFails
<1>15. ASSUME \/ \E u \in Users : Login(w, u) \/ CompleteSSO(w, u)
              \/ \E u \in Users, p \in Passwords : ChangePassword(w, u, p)
              \/ \E by, u \in Users, change \in Changes, p \in Hashes : UpdateUser(w, by, u, change, p)
              \/ \E by, u \in Users, p \in Passwords : CreateUser(w, by, u, p)
              \/ \E by, u \in Users : DeleteUser(w, by, u)
       PROVE  Typed
  BY <1>4, <1>15 DEF Login, CompleteSSO, ChangePassword, UpdateUser, CreateUser, DeleteUser
<1> QED
  BY <1>5, <1>6, <1>7, <1>8, <1>9, <1>10, <1>11, <1>12, <1>13, <1>14, <1>15
  DEF AccountsStep, Hashes, Changes

\* What a worker can take up while idle.
Begins(w) ==
    \/ Bootstrap(w)
    \/ \E u \in Users : Login(w, u) \/ CompleteSSO(w, u)
    \/ \E u \in Users, p \in Passwords : ChangePassword(w, u, p)
    \/ \E by, u \in Users, change \in Changes, p \in Hashes : UpdateUser(w, by, u, change, p)
    \/ \E by, u \in Users, p \in Passwords : CreateUser(w, by, u, p)
    \/ \E by, u \in Users : DeleteUser(w, by, u)

\* A step carries on with a request, begins one or signs a session out.
LEMMA StepKinds ==
    ASSUME NEW w \in Workers, AccountsStep(w)
    PROVE  AtWork(w) \/ Begins(w) \/ \E s \in Sessions : Logout(s)
<1> QED BY DEF AccountsStep, AtWork, Begins, Hashes, Changes

\* A new request has nothing saved, nothing listed and no answer; one that could
\* lock somebody out is not about its own caller.
Fresh(w) ==
    /\ \A v \in Workers : v # w => req'[v] = req[v]
    /\ req'[w].saved = "no" /\ req'[w].out = "pending" /\ req'[w].alive = {} /\ req'[w].kill = {}
    /\ req'[w].pc \notin {"idle", "revoke", "tombstone"}
    /\ req'[w].pc \in {"list", "mint"} => req'[w].op \in {"delete", "login"} /\ req'[w].change = "none"
    /\ \/ req'[w].op \in {"create", "delete"}
       \/ req'[w].op = "update" /\ req'[w].change \in {"disable", "demote"}
       => req'[w].by # req'[w].u
    /\ UNCHANGED <<row, role, session, overrun>>

\* Every operation begins with a fresh request.
LEMMA BeginsAfresh ==
    ASSUME AccountsTypeOK, NEW w \in Workers, Begins(w)
    PROVE  Fresh(w)
<1> USE DEF Fresh, Begin, NoRequest
<1>0. req \in [Workers -> Requests] BY DEF AccountsTypeOK
<1>1. CASE Bootstrap(w) BY <1>0, <1>1 DEF Bootstrap
<1>2. ASSUME NEW u \in Users, Login(w, u) PROVE Fresh(w) BY <1>0, <1>2 DEF Login
<1>3. ASSUME NEW u \in Users, CompleteSSO(w, u) PROVE Fresh(w) BY <1>0, <1>3 DEF CompleteSSO
<1>4. ASSUME NEW u \in Users, NEW p \in Passwords, ChangePassword(w, u, p) PROVE Fresh(w)
  BY <1>0, <1>4 DEF ChangePassword
<1>5. ASSUME NEW by \in Users, NEW u \in Users, NEW change \in Changes, NEW p \in Hashes,
             UpdateUser(w, by, u, change, p)
      PROVE  Fresh(w)
  BY <1>0, <1>5 DEF UpdateUser, SelfLockout
<1>6. ASSUME NEW by \in Users, NEW u \in Users, NEW p \in Passwords, CreateUser(w, by, u, p)
      PROVE  Fresh(w)
  BY <1>0, <1>6 DEF CreateUser, Admin, Enabled
<1>7. ASSUME NEW by \in Users, NEW u \in Users, DeleteUser(w, by, u) PROVE Fresh(w)
  BY <1>0, <1>7 DEF DeleteUser, Admin, Enabled
<1> QED BY <1>1, <1>2, <1>3, <1>4, <1>5, <1>6, <1>7 DEF Begins

\* Nobody's edit comes to be about its own caller.
LEMMA CallerStep ==
    ASSUME AccountsTypeOK, ShapeInv, CallerInv, NEW w \in Workers, AccountsStep(w)
    PROVE  CallerInv'
<1>1. CASE AtWork(w)
  <2>1. /\ \A v \in Workers : v # w => req'[v] = req[v]
        /\ \/ req'[w].pc = "idle"
           \/ /\ req'[w].op = req[w].op /\ req'[w].change = req[w].change
              /\ req'[w].by = req[w].by /\ req'[w].u = req[w].u
    BY <1>1, GoesOn
  <2>2. req[w].pc # "idle" \/ req'[w].pc = "idle"
    BY <1>1 DEF AtWork, BootGrant, BootSave, SaveSSOUser, RereadUser, SaveUser, ListLiveSessions,
                RevokeListed, ReplaceAuthGrants, SaveLandsAndFails, CallFails, MintSession,
                DeleteAuthUser, At
  <2> QED BY <2>1, <2>2 DEF CallerInv
<1>2. CASE Begins(w)
  <2>1. Fresh(w) BY <1>2, BeginsAfresh
  <2> QED BY <2>1 DEF CallerInv, Fresh
<1>3. ASSUME NEW s \in Sessions, Logout(s) PROVE CallerInv' BY <1>3 DEF Logout, CallerInv
<1> QED BY <1>1, <1>2, <1>3, StepKinds

\* A session dies, or was nobody's: no step revives one a request remembers.
LEMMA SessionsOnlyDie ==
    ASSUME NEW w \in Workers, AccountsStep(w), NEW s \in Sessions
    PROVE  \/ session'[s] \in {session[s], Dead}
           \/ \A v \in Workers : s \notin req[v].kill \cup req[v].alive
<1>1. CASE MintSession(w)
  <2>1. PICK n \in Sessions : Unused(n) /\ session' = [session EXCEPT ![n] = req[w].u]
    BY <1>1 DEF MintSession
  <2> QED BY <2>1 DEF Unused
<1>2. CASE RevokeListed(w) BY <1>2 DEF RevokeListed
<1>3. ASSUME NEW n \in Sessions, Logout(n) PROVE session'[s] \in {session[s], Dead}
  BY <1>3 DEF Logout
<1>4. CASE session' = session BY <1>4
<1> QED
  BY <1>1, <1>2, <1>3, <1>4
  DEF AccountsStep, Bootstrap, BootGrant, BootSave, SaveSSOUser, RereadUser, SaveUser,
      ListLiveSessions, ReplaceAuthGrants, DeleteAuthUser, CallFails, SaveLandsAndFails,
      Login, CompleteSSO, ChangePassword, UpdateUser, CreateUser, DeleteUser

\* ... so what holds of a request's sweep goes on holding while it waits.
LEMMA SweptStays ==
    ASSUME AccountsTypeOK, SweepInv, NEW w \in Workers, AccountsStep(w), NEW v \in Workers
    PROVE  Swept(req[v], session')
<1>1. req[v].alive \subseteq Sessions BY DEF AccountsTypeOK, Requests
<1>2. Swept(req[v], session) BY DEF SweepInv
<1>3. \A s \in req[v].alive : session'[s] \in {session[s], Dead} BY <1>1, SessionsOnlyDie
<1> QED BY <1>2, <1>3 DEF Swept

\* A rotation saves, lists, sweeps and answers in this order, and what it
\* answers is what it did.
LEMMA SweepStep ==
    ASSUME AccountsTypeOK, ShapeInv, SweepInv, NEW w \in Workers, AccountsStep(w)
    PROVE  SweepInv'
<1> USE DEF At, Goto, Return
<1>1. req \in [Workers -> Requests] /\ req[w] \in Requests /\ RequestShape(req[w])
  BY DEF AccountsTypeOK, ShapeInv
<1>2. \A v \in Workers : Swept(req[v], session') BY SweptStays
<1>3. ASSUME \A v \in Workers : v # w => req'[v] = req[v], Swept(req'[w], session') PROVE SweepInv'
  BY <1>2, <1>3 DEF SweepInv
<1>4. ASSUME NEW r \in Requests, NEW o \in Outcomes, req' = [req EXCEPT ![w] = Answered(r, o)],
             Rotation(r) =>
               /\ o \in {"ok", "signedOut"} => \A s \in r.alive : session'[s] = Dead
               /\ o \in {"ok", "signedOut", "sessionsLive"} => r.saved = "yes"
               /\ r.op = "rotate" /\ o \in {"refused", "error"} => r.saved # "yes"
      PROVE  SweepInv'
  <2>1. req'[w] = Answered(r, o) /\ \A v \in Workers : v # w => req'[v] = req[v] BY <1>1, <1>4
  <2>2. Swept(Answered(r, o), session') BY <1>4, AnsweredKeeps DEF Swept
  <2> QED BY <1>3, <2>1, <2>2
<1>5. ASSUME ~Rotation(req[w]), AtWork(w) PROVE SweepInv'
  <2>1. \A v \in Workers : v # w => req'[v] = req[v] BY <1>5, GoesOn
  <2>2. CASE req'[w].op = req[w].op /\ req'[w].change = req[w].change
    BY <1>3, <1>5, <2>1, <2>2 DEF Swept, Rotation
  <2>3. ASSUME NEW o \in Outcomes, Return(w, o) PROVE SweepInv' BY <1>1, <1>4, <1>5, <2>3
  <2>4. CASE SaveLandsAndFails(w)
    <3>1. [req[w] EXCEPT !.saved = "maybe"] \in Requests
          /\ ~Rotation([req[w] EXCEPT !.saved = "maybe"])
      BY <1>1, <1>5 DEF Requests, Rotation
    <3> QED BY <1>4, <2>4, <3>1 DEF SaveLandsAndFails, Outcomes
  <2> QED BY <1>5, <2>2, <2>3, <2>4, GoesOn
<1>6. ASSUME Rotation(req[w]), AtWork(w) PROVE SweepInv'
  <2>0. Swept(req[w], session) /\ Swept(req[w], session') /\ w \in Workers BY <1>2 DEF SweepInv
  <2>1. \A v \in Workers : v # w => req'[v] = req[v] BY <1>6, GoesOn
  <2>2. CASE RereadUser(w)
    <3>1. req[w].op = "rotate" /\ req[w].saved = "no"
      BY <1>1, <1>6, <2>0, <2>2 DEF RereadUser, RequestShape, Swept
    <3>2. CASE Return(w, "refused") BY <1>1, <1>4, <3>1, <3>2 DEF Outcomes
    <3>3. CASE req' = [req EXCEPT ![w].pc = "save", ![w].seen = row[req[w].u]]
      <4>1. /\ req'[w].pc = "save" /\ req'[w].saved = "no" /\ req'[w].out = req[w].out
            /\ req[w].out = "pending"
        BY <1>1, <2>2, <3>1, <3>3 DEF RereadUser, RequestShape
      <4> QED BY <1>3, <2>1, <4>1 DEF Swept
    <3> QED BY <2>2, <3>2, <3>3 DEF RereadUser
  <2>3. CASE SaveUser(w)
    <3>1. AfterSave(req[w]) = "list" BY <1>1, <1>6, <2>3 DEF AfterSave, SaveUser, RequestShape, Rotation
    <3>2. req' = [req EXCEPT ![w].pc = "list", ![w].saved = "yes", ![w].seen = Absent,
                             ![w].hash = NoHash, ![w].alive = Owned(req[w].u)]
      BY <1>6, <2>3, <3>1 DEF SaveUser
    <3>3. /\ req'[w].pc = "list" /\ req'[w].saved = "yes" /\ req'[w].alive = Owned(req[w].u)
          /\ req'[w].u = req[w].u /\ req'[w].out = "pending"
      BY <1>1, <2>3, <3>2 DEF SaveUser, RequestShape
    <3>4. \A s \in req'[w].alive : session'[s] = req'[w].u BY <2>3, <3>3 DEF SaveUser, Owned
    <3> QED BY <1>3, <2>1, <3>3, <3>4 DEF Swept
  <2>4. CASE ListLiveSessions(w)
    <3>1. /\ req'[w].pc = "revoke" /\ req'[w].kill = Owned(req[w].u) /\ session' = session
          /\ req'[w].alive = req[w].alive /\ req'[w].saved = req[w].saved /\ req'[w].out = "pending"
      BY <1>1, <2>4 DEF ListLiveSessions, RequestShape
    <3>2. req[w].saved = "yes" /\ \A s \in req[w].alive : session[s] \in {req[w].u, Dead}
      BY <1>6, <2>0, <2>4 DEF ListLiveSessions, Swept
    <3>3. req[w].alive \subseteq Sessions BY <1>1 DEF Requests
    <3>4. \A s \in req'[w].alive : s \in req'[w].kill \/ session'[s] = Dead
      BY <3>1, <3>2, <3>3 DEF Owned
    <3> QED BY <1>3, <2>1, <3>1, <3>2, <3>4 DEF Swept
  <2>5. CASE RevokeListed(w)
    <3>1. /\ req[w].pc = "revoke" /\ req[w].saved = "yes"
          /\ \A s \in req[w].alive : s \in req[w].kill \/ session[s] = Dead
      BY <1>6, <2>0, <2>5 DEF RevokeListed, Swept
    <3>2. req[w].alive \subseteq Sessions BY <1>1 DEF Requests
    <3>3. \A s \in req[w].alive : session'[s] = Dead BY <2>5, <3>1, <3>2 DEF RevokeListed
    <3>4. CASE Return(w, "ok") BY <1>1, <1>4, <3>1, <3>3, <3>4 DEF Outcomes
    <3>5. CASE req[w].op # "rotate" /\ Return(w, "error")
      BY <1>1, <1>4, <3>1, <3>3, <3>5 DEF Outcomes
    <3>6. CASE req' = [req EXCEPT ![w].pc = "mint", ![w].kill = {}]
      <4>1. /\ req'[w].pc = "mint" /\ req'[w].saved = "yes" /\ req'[w].out = "pending"
            /\ req'[w].alive = req[w].alive
        BY <1>1, <3>1, <3>6 DEF RequestShape
      <4> QED BY <1>3, <2>1, <3>3, <4>1 DEF Swept
    <3>7. req[w].op \in {"rotate", "update"} BY <1>1, <1>6, <3>1 DEF RequestShape, Rotation
    <3> QED BY <2>5, <3>4, <3>5, <3>6, <3>7 DEF RevokeListed, AfterRevoke
  <2>6. CASE MintSession(w)
    <3>1. req[w].saved = "yes" /\ \A s \in req[w].alive : session'[s] = Dead
      BY <1>6, <2>0, <2>6 DEF MintSession, Swept
    <3> QED BY <1>1, <1>4, <2>6, <3>1 DEF MintSession, Outcomes
  <2>7. CASE CallFails(w)
    <3>1. Return(w, Failed(w)) /\ session' = session /\ Failed(w) \in Outcomes
          /\ req[w].pc # "idle"
      BY <2>7 DEF CallFails, Failed, Outcomes
    <3>2. Failed(w) = "signedOut" => req[w].saved = "yes" /\ \A s \in req[w].alive : session'[s] = Dead
      BY <1>6, <2>0, <3>1 DEF Failed, Swept
    <3>3. Failed(w) = "sessionsLive" => req[w].saved = "yes"
      BY <1>6, <2>0 DEF Failed, Swept
    <3>4. Failed(w) = "error" /\ req[w].op = "rotate" => req[w].saved # "yes"
      <4>1. req[w].op = "rotate" => req[w].pc \in {"reread", "save", "list", "revoke", "mint"}
        BY <1>1, <3>1 DEF RequestShape
      <4> QED BY <1>6, <2>0, <4>1 DEF Failed, Swept
    <3>5. Failed(w) \in {"signedOut", "sessionsLive", "error"} BY DEF Failed
    <3> QED BY <1>1, <1>4, <3>1, <3>2, <3>3, <3>4, <3>5
  <2>8. CASE SaveLandsAndFails(w)
    <3> DEFINE r == [req[w] EXCEPT !.saved = "maybe"]
    <3>1. r \in Requests /\ r.saved = "maybe" BY <1>1 DEF Requests
    <3>2. req' = [req EXCEPT ![w] = Answered(r, "error")] BY <2>8 DEF SaveLandsAndFails
    <3> HIDE DEF r
    <3> QED BY <1>4, <3>1, <3>2 DEF Outcomes
  <2>9. req[w].pc \notin {"idle", "bootGrant", "bootSave", "ssoSave", "grant", "tombstone"}
    <3>1. req[w].pc # "idle"
      BY <1>6 DEF AtWork, BootGrant, BootSave, SaveSSOUser, RereadUser, SaveUser, ListLiveSessions,
                  RevokeListed, ReplaceAuthGrants, SaveLandsAndFails, CallFails, MintSession,
                  DeleteAuthUser
    <3> QED BY <1>1, <1>6, <3>1 DEF RequestShape, Rotation
  <2> QED BY <1>6, <2>2, <2>3, <2>4, <2>5, <2>6, <2>7, <2>8, <2>9
    DEF AtWork, BootGrant, BootSave, SaveSSOUser, ReplaceAuthGrants, DeleteAuthUser
<1>7. CASE Begins(w)
  <2>1. Fresh(w) BY <1>7, BeginsAfresh
  <2>2. Swept(req'[w], session') BY <2>1 DEF Fresh, Swept, Rotation
  <2> QED BY <1>3, <2>1, <2>2 DEF Fresh
<1>8. ASSUME NEW s \in Sessions, Logout(s) PROVE SweepInv'
  BY <1>2, <1>8 DEF Logout, SweepInv
<1> QED BY <1>5, <1>6, <1>7, <1>8, StepKinds

\* The writes of a user row put a row there: an enabled user, or an edit.
PutsRow(w, r) ==
    /\ r # Absent /\ req[w].u \in Users /\ SaveAuthUser(w, r) /\ role' = role
    /\ row'[req[w].u] = r /\ \A u \in Users : u # req[w].u => row'[u] = row[u]
    /\ \/ r.disabled = "no"
       \/ req[w].pc = "save" /\ r = Edited(req[w])

\* A write of a user row puts one whole row in place, failed answer or not.
LEMMA SavesPutRows ==
    ASSUME AccountsTypeOK, ShapeInv, NEW w \in Workers,
           BootSave(w) \/ SaveSSOUser(w) \/ SaveUser(w) \/ SaveLandsAndFails(w)
    PROVE  \E r \in Rows : PutsRow(w, r)
<1> USE DEF PutsRow
<1>1. row \in [Users -> Rows \cup {Absent}] /\ req[w] \in Requests /\ RequestShape(req[w])
  BY DEF AccountsTypeOK, ShapeInv
<1>2. Absent \notin Rows BY AccountsAssumption DEF Rows, Hashes
<1>3. CASE BootSave(w)
  <2>1. PICK p \in Passwords : SaveAuthUser(w, [hash |-> p, disabled |-> "no"])
    BY <1>3 DEF BootSave
  <2>2. [hash |-> p, disabled |-> "no"] \in Rows /\ req[w].u \in Users
    BY <1>1, <1>3, AccountsAssumption DEF BootSave, At, RequestShape, Rows, Hashes
  <2> QED BY <1>1, <1>2, <1>3, <2>1, <2>2 DEF BootSave, SaveAuthUser
<1>4. CASE SaveSSOUser(w)
  <2>1. [hash |-> NoHash, disabled |-> "no"] \in Rows /\ req[w].u \in Users
    BY <1>1, <1>4 DEF SaveSSOUser, At, RequestShape, Rows, Hashes
  <2> QED BY <1>1, <1>2, <1>4, <2>1 DEF SaveSSOUser, SaveAuthUser
<1>5. CASE SaveUser(w) \/ SaveLandsAndFails(w)
  <2>1. req[w].pc = "save" /\ SaveAuthUser(w, Edited(req[w])) /\ role' = role
    BY <1>5 DEF SaveUser, SaveLandsAndFails, At
  <2>2. Edited(req[w]) \in Rows /\ req[w].u \in Users BY <2>1, EditedRow
  <2> QED BY <1>1, <1>2, <2>1, <2>2 DEF SaveAuthUser
<1> QED BY <1>3, <1>4, <1>5

Quiet(w) == UNCHANGED <<row, role, overrun>> /\ req'[w].pc # "tombstone"

\* The steps of a request at work, by what they do to the rows and the grants.
LEMMA WorkKinds ==
    ASSUME AccountsTypeOK, ShapeInv, NEW w \in Workers, AtWork(w)
    PROVE  \/ Quiet(w) \/ BootGrant(w) \/ ReplaceAuthGrants(w) \/ DeleteAuthUser(w)
           \/ BootSave(w) \/ SaveSSOUser(w) \/ SaveUser(w) \/ SaveLandsAndFails(w)
<1>1. CASE RereadUser(w) \/ ListLiveSessions(w) \/ RevokeListed(w) \/ CallFails(w) \/ MintSession(w)
  <2>1. UNCHANGED <<row, role, overrun>>
    BY <1>1 DEF RereadUser, ListLiveSessions, RevokeListed, CallFails, MintSession
  <2>2. ~CallFails(w) => ~ReplaceAuthGrants(w)
    BY <1>1 DEF RereadUser, ListLiveSessions, RevokeListed, MintSession, ReplaceAuthGrants, At
  <2>3. req'[w].pc # "tombstone" BY <2>2, GoesOn
  <2> QED BY <2>1, <2>3 DEF Quiet
<1> QED BY <1>1 DEF AtWork

\* Grants go before their user, and no write brings one back unseen.
LEMMA OrphanStep ==
    ASSUME AccountsTypeOK, AccountsTypeOK', ShapeInv, TombstoneInv, NoOrphanGrants,
           NEW w \in Workers, AccountsStep(w)
    PROVE  TombstoneInv' /\ NoOrphanGrants'
<1>1. /\ row \in [Users -> Rows \cup {Absent}] /\ role \in [Users -> {"none", "admin"}]
      /\ req[w] \in Requests /\ RequestShape(req[w])
      /\ overrun \in {"yes", "no"} /\ overrun' \in {"yes", "no"}
  BY DEF AccountsTypeOK, ShapeInv
<1>2. ASSUME \A v \in Workers : v # w => req'[v] = req[v], req'[w].pc # "tombstone",
             overrun' = "no" => overrun = "no",
             \A u \in Users : row'[u] = Absent => row[u] = Absent,
             \A u \in Users \ {Root} : role'[u] = role[u]
      PROVE  TombstoneInv' /\ NoOrphanGrants'
  <2>1. \A v \in Workers : req'[v].pc = "tombstone" /\ req'[v].u # Root
                            => req[v].pc = "tombstone" /\ req[v].u \in Users \ {Root} /\ req'[v].u = req[v].u
    BY <1>2 DEF AccountsTypeOK, ShapeInv, RequestShape
  <2>2. TombstoneInv' BY <1>2, <2>1 DEF TombstoneInv
  <2>3. NoOrphanGrants' BY <1>1, <1>2 DEF NoOrphanGrants
  <2> QED BY <2>2, <2>3
<1>3. CASE Begins(w)
  <2>1. Fresh(w) BY <1>3, BeginsAfresh
  <2> QED BY <1>2, <2>1 DEF Fresh
<1>4. ASSUME NEW s \in Sessions, Logout(s) PROVE TombstoneInv' /\ NoOrphanGrants'
  BY <1>4 DEF Logout, TombstoneInv, NoOrphanGrants
<1>5. ASSUME AtWork(w) PROVE \A v \in Workers : v # w => req'[v] = req[v]
  BY <1>5, GoesOn
<1>6. CASE AtWork(w) /\ Quiet(w) BY <1>2, <1>5, <1>6 DEF Quiet
<1>7. CASE BootGrant(w)
  <2>1. AtWork(w) /\ ~ReplaceAuthGrants(w) BY <1>7 DEF AtWork, BootGrant, ReplaceAuthGrants, At
  <2>2. req'[w].pc # "tombstone" BY <2>1, GoesOn
  <2>3. \A u \in Users \ {Root} : role'[u] = role[u] BY <1>1, <1>7 DEF BootGrant
  <2> QED BY <1>2, <1>5, <1>7, <2>1, <2>2, <2>3 DEF BootGrant
<1>8. CASE BootSave(w) \/ SaveSSOUser(w) \/ SaveUser(w) \/ SaveLandsAndFails(w)
  <2>1. AtWork(w) /\ ~ReplaceAuthGrants(w)
    BY <1>8 DEF AtWork, BootSave, SaveSSOUser, SaveUser, SaveLandsAndFails, ReplaceAuthGrants, At
  <2>2. req'[w].pc # "tombstone" BY <2>1, GoesOn
  <2>3. PICK r \in Rows : PutsRow(w, r) BY <1>8, SavesPutRows
  <2> USE DEF PutsRow
  <2>4. overrun' = "no" => overrun = "no" BY <2>3 DEF SaveAuthUser
  <2> QED BY <1>2, <1>5, <2>1, <2>2, <2>3, <2>4
<1>9. CASE ReplaceAuthGrants(w)
  <2> SUFFICES ASSUME overrun' = "no" PROVE TombstoneInv' /\ NoOrphanGrants'
    BY <1>1 DEF TombstoneInv, NoOrphanGrants
  <2> DEFINE u == req[w].u
  <2>1. /\ overrun = "no" /\ row[u] # Absent /\ row' = row /\ u \in Users
        /\ \A v \in Workers : v # w => ~(req[v].op = "delete" /\ req[v].u = u)
        /\ role'[u] = (IF req[w].change = "promote" THEN "admin" ELSE "none")
        /\ \A x \in Users : x # u => role'[x] = role[x]
    BY <1>1, <1>9 DEF ReplaceAuthGrants, At, RequestShape
  <2>2. NoOrphanGrants' BY <1>1, <2>1 DEF NoOrphanGrants
  <2>3. ASSUME NEW v \in Workers, req'[v].pc = "tombstone", req'[v].u # Root
        PROVE  role'[req'[v].u] = "none"
    <3>1. AtWork(w) BY <1>9 DEF AtWork
    <3>2. CASE v = w
      <4>1. req[w].op = "delete" /\ req'[w].u = u BY <2>3, <3>1, <3>2, GoesOn
      <4>2. req[w].change = "none" BY <1>1, <1>9, <4>1 DEF ReplaceAuthGrants, At, RequestShape
      <4> QED BY <2>1, <3>2, <4>1, <4>2
    <3>3. CASE v # w
      <4>1. req'[v] = req[v] BY <1>5, <3>1, <3>3
      <4>2. req[v].op = "delete" /\ req[v].u \in Users BY <2>3, <4>1 DEF ShapeInv, RequestShape
      <4> QED BY <2>1, <2>3, <3>3, <4>1, <4>2 DEF TombstoneInv
    <3> QED BY <3>2, <3>3
  <2> QED BY <2>2, <2>3 DEF TombstoneInv
<1>10. CASE DeleteAuthUser(w)
  <2>1. AtWork(w) /\ ~ReplaceAuthGrants(w) BY <1>10 DEF AtWork, DeleteAuthUser, ReplaceAuthGrants, At
  <2>2. req'[w].pc # "tombstone" BY <2>1, GoesOn
  <2>3. /\ role' = role /\ (overrun' = "no" => overrun = "no")
        /\ \A u \in Users : u # req[w].u => row'[u] = row[u]
    BY <1>1, <1>10 DEF DeleteAuthUser
  <2>4. TombstoneInv'
    BY <1>5, <2>1, <2>2, <2>3 DEF TombstoneInv
  <2>5. NoOrphanGrants'
    <3>1. overrun = "no" /\ req[w].u # Root => role[req[w].u] = "none"
      BY <1>10 DEF DeleteAuthUser, At, TombstoneInv
    <3> QED BY <1>1, <2>3, <3>1 DEF NoOrphanGrants
  <2> QED BY <2>4, <2>5
<1> QED BY <1>3, <1>4, <1>6, <1>7, <1>8, <1>9, <1>10, StepKinds, WorkKinds

\* Unless a write overtook another, whoever had an enabled admin still has one.
LEMMA SomeAdminStays ==
    ASSUME AccountsTypeOK, ShapeInv, CallerInv, NEW w \in Workers, AccountsStep(w),
           overrun' # "yes", NEW a \in Users, Admin(a)
    PROVE  \E u \in Users : Admin(u)'
<1> USE DEF Admin, Enabled
<1>1. /\ row \in [Users -> Rows \cup {Absent}] /\ role \in [Users -> {"none", "admin"}]
      /\ req[w] \in Requests /\ RequestShape(req[w])
  BY DEF AccountsTypeOK, ShapeInv
<1>2. CASE Begins(w) BY <1>2, BeginsAfresh DEF Fresh
<1>3. ASSUME NEW s \in Sessions, Logout(s) PROVE Admin(a)' BY <1>3 DEF Logout
<1>4. CASE Quiet(w) BY <1>4 DEF Quiet
<1>5. CASE BootGrant(w) BY <1>1, <1>5 DEF BootGrant
<1>6. CASE BootSave(w) \/ SaveSSOUser(w) \/ SaveUser(w) \/ SaveLandsAndFails(w)
  <2>1. PICK r \in Rows : PutsRow(w, r) BY <1>6, SavesPutRows
  <2> USE DEF PutsRow
  <2>2. req[w].seen = row[req[w].u] BY <2>1 DEF SaveAuthUser
  <2>3. CASE r.disabled = "no" BY <2>1, <2>3
  <2>4. CASE req[w].pc = "save" /\ r = Edited(req[w]) /\ req[w].change # "disable"
    <3>1. r.disabled \in {"no", req[w].seen.disabled} BY <2>4 DEF Edited
    <3> QED BY <2>1, <2>2, <3>1
  <2>5. CASE req[w].pc = "save" /\ req[w].change = "disable"
    <3>1. req[w].op = "update" BY <1>1, <2>5 DEF RequestShape
    <3>2. req[w].by \in Users /\ req[w].by # req[w].u
      BY <1>1, <2>5, <3>1 DEF RequestShape, CallerInv
    <3>3. Admin(req[w].by) BY <2>1, <3>1, <3>2, AccountsAssumption DEF SaveAuthUser
    <3> QED BY <2>1, <3>2, <3>3
  <2> QED BY <2>1, <2>3, <2>4, <2>5
<1>7. CASE ReplaceAuthGrants(w)
  <2>1. /\ Admin(req[w].by) /\ row' = row
        /\ req[w].by \in Users /\ req[w].u \in Users /\ req[w].op \in {"update", "create", "delete"}
    BY <1>1, <1>7 DEF ReplaceAuthGrants, At, RequestShape
  <2>2. /\ role'[req[w].u] = (IF req[w].change = "promote" THEN "admin" ELSE "none")
        /\ \A u \in Users : u # req[w].u => role'[u] = role[u]
    BY <1>1, <1>7, <2>1 DEF ReplaceAuthGrants
  <2>3. CASE req[w].change = "promote" BY <2>1, <2>2, <2>3
  <2>4. CASE req[w].change # "promote"
    <3>1. req[w].by # req[w].u
      BY <1>1, <1>7, <2>1, <2>4 DEF ReplaceAuthGrants, At, RequestShape, CallerInv
    <3> QED BY <2>1, <2>2, <3>1
  <2> QED BY <2>3, <2>4
<1>8. CASE DeleteAuthUser(w)
  <2>1. Admin(req[w].by) /\ role' = role /\ req[w].by \in Users /\ req[w].by # req[w].u
    BY <1>1, <1>8 DEF DeleteAuthUser, At, RequestShape, CallerInv
  <2>2. \A u \in Users : u # req[w].u => row'[u] = row[u] BY <1>1, <1>8 DEF DeleteAuthUser
  <2> QED BY <2>1, <2>2
<1> QED BY <1>2, <1>3, <1>4, <1>5, <1>6, <1>7, <1>8, StepKinds, WorkKinds

\* However requests interleave and wherever a store call fails, the tables and
\* the requests are well typed (an SSO row never has a hash), a rotation answers
\* what it did, and grants go before their user.
THEOREM AccountsInvariant == AccountsSpec => []AccountsInv
<1>1. AccountsInit => AccountsInv
  <2> SUFFICES ASSUME AccountsInit PROVE AccountsInv OBVIOUS
  <2>1. NoRequest \in Requests /\ ~Rotation(NoRequest)
    BY DEF NoRequest, Requests, Hashes, Steps, Outcomes, Changes, Rotation
  <2>2. AccountsTypeOK
    <3>1. row \in [Users -> Rows \cup {Absent}] /\ role \in [Users -> {"none", "admin"}]
      BY DEF AccountsInit, Rows, Hashes
    <3>2. \A u \in Users : row[u] # Absent => (row[u].hash = NoHash <=> u \notin Local)
      BY AccountsAssumption DEF AccountsInit
    <3> QED BY <2>1, <3>1, <3>2 DEF AccountsInit, AccountsTypeOK
  <2>3. ShapeInv BY DEF AccountsInit, ShapeInv, RequestShape, NoRequest
  <2>4. CallerInv /\ TombstoneInv BY DEF AccountsInit, CallerInv, TombstoneInv, NoRequest
  <2>5. SweepInv BY <2>1 DEF AccountsInit, SweepInv, Swept
  <2>6. NoOrphanGrants BY AccountsAssumption DEF AccountsInit, NoOrphanGrants, Rows
  <2> QED BY <2>2, <2>3, <2>4, <2>5, <2>6 DEF AccountsInv
<1>2. AccountsInv /\ [AccountsNext]_accountsVars => AccountsInv'
  <2> SUFFICES ASSUME AccountsInv, [AccountsNext]_accountsVars PROVE AccountsInv' OBVIOUS
  <2>1. ASSUME NEW w \in Workers, AccountsStep(w) PROVE AccountsInv'
    <3>1. AccountsTypeOK' /\ ShapeInv'
      BY <2>1, AccountsTypeStep, RequestStep DEF AccountsInv
    <3> QED BY <2>1, <3>1, CallerStep, SweepStep, OrphanStep DEF AccountsInv
  <2>2. CASE UNCHANGED accountsVars
    BY <2>2 DEF accountsVars, AccountsInv, AccountsTypeOK, ShapeInv, CallerInv, SweepInv,
                TombstoneInv, NoOrphanGrants
  <2>3. AccountsNext => \E w \in Workers : AccountsStep(w) BY DEF AccountsNext, AccountsStep
  <2> QED BY <2>1, <2>2, <2>3
<1> QED BY <1>1, <1>2, PTL DEF AccountsSpec

\* ChangePassword and a password reset never report sessions as signed out that
\* are alive, nor a saved password as unchanged (auth/service.go).
THEOREM RotationReportedHolds == AccountsSpec => []RotationReported
<1>1. AccountsInv => RotationReported BY DEF AccountsInv, SweepInv, Swept, RotationReported
<1> QED BY <1>1, AccountsInvariant, PTL

\* handleDeleteUser leaves no grant behind an id that may come back, unless a
\* write overlapped it (api/users.go).
THEOREM NoOrphanGrantsHolds == AccountsSpec => []NoOrphanGrants
<1>1. AccountsInv => NoOrphanGrants BY DEF AccountsInv
<1> QED BY <1>1, AccountsInvariant, PTL

\* Only a write that overtook another takes the last enabled admin away
\* (checkSelfLockout, api/users.go).
THEOREM LastAdminStaysHolds == AccountsSpec => LastAdminStays
<1> DEFINE A == (\E u \in Users : Admin(u)) /\ ~(\E u \in Users : Admin(u))' => overrun' = "yes"
<1>1. AccountsInv /\ [AccountsNext]_accountsVars => [A]_accountsVars
  <2> SUFFICES ASSUME AccountsInv, AccountsNext, NEW a \in Users, Admin(a), overrun' # "yes"
               PROVE  \E u \in Users : Admin(u)'
    OBVIOUS
  <2>1. PICK w \in Workers : AccountsStep(w) BY DEF AccountsNext, AccountsStep
  <2> QED BY <2>1, SomeAdminStays DEF AccountsInv
<1> QED BY <1>1, AccountsInvariant, PTL DEF AccountsSpec, LastAdminStays

-----------------------------------------------------------------------------
(* OAuthGrants.                                                            *)

\* Where a request can be, by what it is.
OpInv ==
    \A w \in Handlers :
        /\ job[w].op = "none" <=> job[w].pc = "idle"
        /\ job[w].pc = "code" => job[w].op = "consent"
        /\ job[w].pc \in {"check", "consume"} => job[w].op = "exchange"
        /\ job[w].pc \in {"access", "refresh"} => job[w].op \in {"exchange", "rotate"}
        /\ job[w].pc \in {"list", "tombstone"} => job[w].op \in {"replay", "rotate", "revoke", "disconnect"}
        /\ job[w].pc = "grant" => job[w].op \in {"replay", "disconnect"}
        /\ job[w].pc \in {"identity", "served", "touch"} => job[w].op = "use"
        /\ \A t \in job[w].kill : kind[t] # "none"
        /\ job[w].op = "use" => job[w].tok \in Tokens /\ kind[job[w].tok] = "access"

\* One consent, one code, one claim, one redemption.
Redeeming(w) == job[w].pc \in {"check", "consume"}
CodeInv ==
    /\ redeemed \in {0, 1}
    /\ redeemed = 1 => code = "consumed"
    /\ grant = "none" => code = "none" /\ \A w \in Handlers : job[w].pc # "code"
    /\ \A w \in Handlers : job[w].pc = "code" => code = "none"
    /\ \A v, w \in Handlers : job[v].pc = "code" /\ job[w].pc = "code" => v = w
    /\ \A w \in Handlers : Redeeming(w) => claimed = "yes" /\ code # "none"
    /\ \A v, w \in Handlers : Redeeming(v) /\ Redeeming(w) => v = w
    /\ \A w \in Handlers : job[w].pc = "consume" => redeemed = 0

\* What a request remembers of the grant is not newer than the grant.
BornInv == \A w \in Handlers : job[w].born = "revoked" => grant = "revoked"

\* The redemption that issues the first pair is alone with the tokens: what can
\* be rotated is there after it only.
Issuing(w) == job[w].op = "exchange" /\ job[w].pc \in {"access", "refresh"}
FirstPairInv ==
    /\ redeemed = 0 => \A t \in Tokens : kind[t] = "none"
    /\ \A w \in Handlers : Issuing(w) => redeemed = 1 /\ \A t \in Tokens : kind[t] # "refresh"
    /\ \A v, w \in Handlers : Issuing(v) /\ Issuing(w) => v = w
    /\ \A w \in Handlers : Issuing(w) /\ job[w].pc = "access" => \A t \in Tokens : kind[t] = "none"
    /\ \A w \in Handlers : job[w].op = "rotate" => \E t \in Tokens : kind[t] = "refresh"

AtMostOne(S) == \A x, y \in S : x = y

\* While no two rotations overlap, the rotation in flight has all live tokens on
\* its list, then none is left, then only its own.
PairInv ==
    overlap = "no" =>
        /\ \A v, w \in Handlers : job[v].op = "rotate" /\ job[w].op = "rotate" => v = w
        /\ \A w \in Handlers : job[w].op = "rotate" =>
             /\ job[w].pc = "tombstone" => Family \subseteq job[w].kill
             /\ job[w].pc = "access" => Family = {}
             /\ job[w].pc = "refresh" => Live("refresh") = {}
        /\ AtMostOne(Live("refresh")) /\ AtMostOne(Live("access"))

OAuthInv == OAuthTypeOK /\ OpInv /\ CodeInv /\ BornInv /\ DisconnectIsFinal /\ FirstPairInv /\ PairInv

-----------------------------------------------------------------------------
JobStep(w) ==
    \/ ConsentDecide(w) \/ CreateAuthCode(w) \/ ExchangeCode(w) \/ CodeRefused(w)
    \/ ConsumeReads(w) \/ ConsumeAuthCode(w) \/ RevokeGrant(w) \/ ListFamily(w)
    \/ FamilyRevoked(w) \/ RevokeOAuthGrant(w) \/ CheckGrant(w) \/ TouchReads(w)
    \/ TouchOAuthToken(w) \/ IssueAccess(w) \/ IssueRefresh(w) \/ JobFails(w)
    \/ \E t \in Tokens :
          RotateRefresh(w, t) \/ Revoke(w, t) \/ TombstoneToken(w, t) \/ UseAccess(w, t)

\* Issue takes a token that was never issued, and makes it live.
LEMMA IssueTakesUnissued ==
    ASSUME OAuthTypeOK, NEW k \in {"access", "refresh"}, Issue(k)
    PROVE  \E t \in Tokens :
             /\ kind[t] = "none" /\ state[t] = "none"
             /\ kind' = [kind EXCEPT ![t] = k] /\ state' = [state EXCEPT ![t] = "live"]
<1> DEFINE t == CHOOSE u \in Unissued : TRUE
<1>1. t \in Unissued BY DEF Issue
<1>2. t \in Tokens /\ kind[t] = "none" /\ state[t] = "none" BY <1>1 DEF Unissued, OAuthTypeOK
<1>3. kind' = [kind EXCEPT ![t] = k] /\ state' = [state EXCEPT ![t] = "live"] BY DEF Issue
<1> QED BY <1>2, <1>3

\* Every step of a request keeps the types and the shape of the requests.
LEMMA OAuthShapeStep ==
    ASSUME OAuthTypeOK, OpInv, NEW w \in Handlers, JobStep(w)
    PROVE  OAuthTypeOK' /\ OpInv'
<1> USE DEF JobAt, JobGoto, JobStart, JobReturn, Idle, tokens, history
<1>1. CASE ConsentDecide(w) BY <1>1, OAuthAssumption DEF ConsentDecide, OAuthTypeOK, OpInv
<1>2. CASE CreateAuthCode(w) BY <1>2, OAuthAssumption DEF CreateAuthCode, OAuthTypeOK, OpInv
<1>3. CASE ExchangeCode(w) BY <1>3, OAuthAssumption DEF ExchangeCode, OAuthTypeOK, OpInv
<1>4. CASE CodeRefused(w) BY <1>4, OAuthAssumption DEF CodeRefused, OAuthTypeOK, OpInv
<1>5. CASE ConsumeReads(w) BY <1>5, OAuthAssumption DEF ConsumeReads, OAuthTypeOK, OpInv
<1>6. CASE ConsumeAuthCode(w) BY <1>6, OAuthAssumption DEF ConsumeAuthCode, OAuthTypeOK, OpInv
<1>7. CASE RevokeGrant(w) BY <1>7, OAuthAssumption DEF RevokeGrant, OAuthTypeOK, OpInv
<1>8. CASE ListFamily(w)
  <2> USE <1>8
  <2> DEFINE k == Family
  <2>1. k \in SUBSET Tokens BY DEF Family
  <2>2. job' = [job EXCEPT ![w].kill = k, ![w].pc = "tombstone"] BY DEF ListFamily
  <2> HIDE DEF k
  <2> QED BY <2>1, <2>2 DEF OAuthTypeOK, OpInv, ListFamily, JobAt, tokens, history
<1>9. CASE FamilyRevoked(w) BY <1>9, OAuthAssumption DEF FamilyRevoked, OAuthTypeOK, OpInv
<1>10. CASE RevokeOAuthGrant(w) BY <1>10, OAuthAssumption DEF RevokeOAuthGrant, OAuthTypeOK, OpInv
<1>11. CASE CheckGrant(w) BY <1>11, OAuthAssumption DEF CheckGrant, OAuthTypeOK, OpInv
<1>12. CASE TouchReads(w) BY <1>12, OAuthAssumption DEF TouchReads, OAuthTypeOK, OpInv
<1>13. CASE TouchOAuthToken(w) BY <1>13, OAuthAssumption DEF TouchOAuthToken, OAuthTypeOK, OpInv
<1>14. CASE IssueAccess(w) BY <1>14, OAuthAssumption DEF IssueAccess, OAuthTypeOK, OpInv, Issue, Unissued
<1>15. CASE IssueRefresh(w) BY <1>15, OAuthAssumption DEF IssueRefresh, OAuthTypeOK, OpInv, Issue, Unissued
<1>16. CASE JobFails(w) BY <1>16, OAuthAssumption DEF JobFails, OAuthTypeOK, OpInv
<1>17. ASSUME NEW t \in Tokens, RotateRefresh(w, t) PROVE OAuthTypeOK' /\ OpInv'
  BY <1>17, OAuthAssumption DEF RotateRefresh, OAuthTypeOK, OpInv, Live
<1>18. ASSUME NEW t \in Tokens, Revoke(w, t) PROVE OAuthTypeOK' /\ OpInv'
  BY <1>18, OAuthAssumption DEF Revoke, OAuthTypeOK, OpInv, Family
<1>19. ASSUME NEW t \in Tokens, TombstoneToken(w, t) PROVE OAuthTypeOK' /\ OpInv'
  <2> USE <1>19
  <2> DEFINE k == job[w].kill \ {t}
  <2>1. k \in SUBSET Tokens BY DEF OAuthTypeOK
  <2>2. job' = [job EXCEPT ![w].kill = k] BY DEF TombstoneToken, OAuthTypeOK
  <2>3. state' = [state EXCEPT ![t] = "revoked"] /\ kind[t] # "none" /\ kind' = kind BY DEF TombstoneToken, OpInv
  <2> HIDE DEF k
  <2> QED BY <2>1, <2>2, <2>3 DEF OAuthTypeOK, OpInv, TombstoneToken, JobAt, tokens, history
<1>20. ASSUME NEW t \in Tokens, UseAccess(w, t) PROVE OAuthTypeOK' /\ OpInv'
  BY <1>20, OAuthAssumption DEF UseAccess, OAuthTypeOK, OpInv, Live
<1> QED BY <1>1, <1>2, <1>3, <1>4, <1>5, <1>6, <1>7, <1>8, <1>9, <1>10, <1>11, <1>12, <1>13, <1>14, <1>15, <1>16, <1>17, <1>18, <1>19, <1>20 DEF JobStep

\* A request that fails, or that has no token left to end, is at its grant, at
\* the tokens of a rotation, or over; the others stay where they are.
LEMMA MovesOn ==
    ASSUME OAuthTypeOK, NEW w \in Handlers, FamilyRevoked(w) \/ JobFails(w)
    PROVE  /\ \A v \in Handlers : v # w => job'[v] = job[v]
           /\ job'[w].pc \in {"idle", "access", "grant"}
           /\ job'[w].born \in {job[w].born, "none"}
           /\ UNCHANGED <<grant, code, claimed, kind, state, redeemed, overlap>>
<1> USE DEF OAuthTypeOK, JobAt, JobGoto, JobReturn, Idle, tokens, history
<1>1. CASE FamilyRevoked(w) BY <1>1 DEF FamilyRevoked
<1>2. CASE JobFails(w) /\ job[w].op = "replay" /\ job[w].pc # "grant"
  <2>1. job' = [job EXCEPT ![w].pc = "grant", ![w].kill = {}] BY <1>2 DEF JobFails
  <2> QED BY <1>2, <2>1 DEF JobFails
<1>3. CASE JobFails(w) /\ ~(job[w].op = "replay" /\ job[w].pc # "grant") BY <1>3 DEF JobFails
<1> QED BY <1>1, <1>2, <1>3

\* ... and that there is one code, one claim, one redemption.
LEMMA CodeStep ==
    ASSUME OAuthTypeOK, OpInv, CodeInv, NEW w \in Handlers, JobStep(w)
    PROVE  CodeInv'
<1> USE DEF JobAt, JobGoto, JobStart, JobReturn, Idle, tokens, history
<1>1. CASE ConsentDecide(w) BY <1>1 DEF ConsentDecide, OAuthTypeOK, OpInv, CodeInv, Redeeming
<1>2. CASE CreateAuthCode(w) BY <1>2 DEF CreateAuthCode, OAuthTypeOK, OpInv, CodeInv, Redeeming
<1>3. CASE ExchangeCode(w) BY <1>3 DEF ExchangeCode, OAuthTypeOK, OpInv, CodeInv, Redeeming
<1>4. CASE CodeRefused(w) BY <1>4 DEF CodeRefused, OAuthTypeOK, OpInv, CodeInv, Redeeming
<1>5. CASE ConsumeReads(w) BY <1>5 DEF ConsumeReads, OAuthTypeOK, OpInv, CodeInv, Redeeming
<1>6. CASE ConsumeAuthCode(w)
  <2> USE <1>6
  <2> USE DEF ConsumeAuthCode, JobAt, JobGoto, OAuthTypeOK
  <2>1. redeemed = 0 /\ redeemed' = 1 /\ code' = "consumed" BY DEF CodeInv
  <2>2. \A v \in Handlers : job'[v].pc = IF v = w THEN "access" ELSE job[v].pc OBVIOUS
  <2>3. Redeeming(w) /\ claimed = "yes" BY DEF CodeInv, Redeeming
  <2>4. \A v \in Handlers : job'[v].pc # "consume" BY <2>2, <2>3 DEF CodeInv, Redeeming
  <2>5. code # "none" BY <2>3 DEF CodeInv
  <2> QED BY <2>1, <2>2, <2>3, <2>4, <2>5 DEF CodeInv, Redeeming
<1>7. CASE RevokeGrant(w) BY <1>7 DEF RevokeGrant, OAuthTypeOK, OpInv, CodeInv, Redeeming
<1>8. CASE ListFamily(w) BY <1>8 DEF ListFamily, OAuthTypeOK, OpInv, CodeInv, Redeeming, Family
<1>9. CASE FamilyRevoked(w) BY <1>9, MovesOn DEF CodeInv, Redeeming
<1>10. CASE RevokeOAuthGrant(w) BY <1>10 DEF RevokeOAuthGrant, OAuthTypeOK, OpInv, CodeInv, Redeeming
<1>11. CASE CheckGrant(w) BY <1>11 DEF CheckGrant, OAuthTypeOK, OpInv, CodeInv, Redeeming
<1>12. CASE TouchReads(w) BY <1>12 DEF TouchReads, OAuthTypeOK, OpInv, CodeInv, Redeeming
<1>13. CASE TouchOAuthToken(w) BY <1>13 DEF TouchOAuthToken, OAuthTypeOK, OpInv, CodeInv, Redeeming
<1>14. CASE IssueAccess(w) BY <1>14 DEF IssueAccess, OAuthTypeOK, OpInv, CodeInv, Redeeming, Issue, Unissued
<1>15. CASE IssueRefresh(w) BY <1>15 DEF IssueRefresh, OAuthTypeOK, OpInv, CodeInv, Redeeming, Issue, Unissued
<1>16. CASE JobFails(w) BY <1>16, MovesOn DEF CodeInv, Redeeming
<1>17. ASSUME NEW t \in Tokens, RotateRefresh(w, t) PROVE CodeInv'
  BY <1>17 DEF RotateRefresh, OAuthTypeOK, OpInv, CodeInv, Redeeming, Live
<1>18. ASSUME NEW t \in Tokens, Revoke(w, t) PROVE CodeInv'
  BY <1>18 DEF Revoke, OAuthTypeOK, OpInv, CodeInv, Redeeming, Family
<1>19. ASSUME NEW t \in Tokens, TombstoneToken(w, t) PROVE CodeInv'
  BY <1>19 DEF TombstoneToken, OAuthTypeOK, OpInv, CodeInv, Redeeming
<1>20. ASSUME NEW t \in Tokens, UseAccess(w, t) PROVE CodeInv'
  BY <1>20 DEF UseAccess, OAuthTypeOK, OpInv, CodeInv, Redeeming, Live
<1> QED BY <1>1, <1>2, <1>3, <1>4, <1>5, <1>6, <1>7, <1>8, <1>9, <1>10, <1>11, <1>12, <1>13, <1>14, <1>15, <1>16, <1>17, <1>18, <1>19, <1>20 DEF JobStep

\* ... and that no request remembers a revocation the grant does not have.
LEMMA BornStep ==
    ASSUME OAuthTypeOK, OpInv, CodeInv, BornInv, DisconnectIsFinal, NEW w \in Handlers, JobStep(w)
    PROVE  BornInv' /\ DisconnectIsFinal'
<1> USE DEF JobAt, JobGoto, JobStart, JobReturn, Idle, tokens, history
<1>1. CASE ConsentDecide(w) BY <1>1 DEF ConsentDecide, OAuthTypeOK, OpInv, CodeInv, BornInv, DisconnectIsFinal
<1>2. CASE CreateAuthCode(w) BY <1>2 DEF CreateAuthCode, OAuthTypeOK, OpInv, CodeInv, BornInv, DisconnectIsFinal
<1>3. CASE ExchangeCode(w) BY <1>3 DEF ExchangeCode, OAuthTypeOK, OpInv, CodeInv, BornInv, DisconnectIsFinal
<1>4. CASE CodeRefused(w) BY <1>4 DEF CodeRefused, OAuthTypeOK, OpInv, CodeInv, BornInv, DisconnectIsFinal
<1>5. CASE ConsumeReads(w) BY <1>5 DEF ConsumeReads, OAuthTypeOK, OpInv, CodeInv, BornInv, DisconnectIsFinal
<1>6. CASE ConsumeAuthCode(w) BY <1>6 DEF ConsumeAuthCode, OAuthTypeOK, OpInv, CodeInv, BornInv, DisconnectIsFinal
<1>7. CASE RevokeGrant(w) BY <1>7 DEF RevokeGrant, OAuthTypeOK, OpInv, CodeInv, BornInv, DisconnectIsFinal
<1>8. CASE ListFamily(w) BY <1>8 DEF ListFamily, OAuthTypeOK, OpInv, CodeInv, BornInv, DisconnectIsFinal, Family
<1>9. CASE FamilyRevoked(w) BY <1>9, MovesOn DEF BornInv, DisconnectIsFinal
<1>10. CASE RevokeOAuthGrant(w) BY <1>10 DEF RevokeOAuthGrant, OAuthTypeOK, OpInv, CodeInv, BornInv, DisconnectIsFinal
<1>11. CASE CheckGrant(w) BY <1>11 DEF CheckGrant, OAuthTypeOK, OpInv, CodeInv, BornInv, DisconnectIsFinal
<1>12. CASE TouchReads(w) BY <1>12 DEF TouchReads, OAuthTypeOK, OpInv, CodeInv, BornInv, DisconnectIsFinal
<1>13. CASE TouchOAuthToken(w) BY <1>13 DEF TouchOAuthToken, OAuthTypeOK, OpInv, CodeInv, BornInv, DisconnectIsFinal
<1>14. CASE IssueAccess(w) BY <1>14 DEF IssueAccess, OAuthTypeOK, OpInv, CodeInv, BornInv, DisconnectIsFinal, Issue, Unissued
<1>15. CASE IssueRefresh(w) BY <1>15 DEF IssueRefresh, OAuthTypeOK, OpInv, CodeInv, BornInv, DisconnectIsFinal, Issue, Unissued
<1>16. CASE JobFails(w) BY <1>16, MovesOn DEF BornInv, DisconnectIsFinal
<1>17. ASSUME NEW t \in Tokens, RotateRefresh(w, t) PROVE BornInv' /\ DisconnectIsFinal'
  BY <1>17 DEF RotateRefresh, OAuthTypeOK, OpInv, CodeInv, BornInv, DisconnectIsFinal, Live
<1>18. ASSUME NEW t \in Tokens, Revoke(w, t) PROVE BornInv' /\ DisconnectIsFinal'
  BY <1>18 DEF Revoke, OAuthTypeOK, OpInv, CodeInv, BornInv, DisconnectIsFinal, Family
<1>19. ASSUME NEW t \in Tokens, TombstoneToken(w, t) PROVE BornInv' /\ DisconnectIsFinal'
  BY <1>19 DEF TombstoneToken, OAuthTypeOK, OpInv, CodeInv, BornInv, DisconnectIsFinal
<1>20. ASSUME NEW t \in Tokens, UseAccess(w, t) PROVE BornInv' /\ DisconnectIsFinal'
  BY <1>20 DEF UseAccess, OAuthTypeOK, OpInv, CodeInv, BornInv, DisconnectIsFinal, Live
<1> QED BY <1>1, <1>2, <1>3, <1>4, <1>5, <1>6, <1>7, <1>8, <1>9, <1>10, <1>11, <1>12, <1>13, <1>14, <1>15, <1>16, <1>17, <1>18, <1>19, <1>20 DEF JobStep

\* ... and that the first pair is issued by one request, before any other.
LEMMA FirstPairStep ==
    ASSUME OAuthTypeOK, OpInv, CodeInv, FirstPairInv, NEW w \in Handlers, JobStep(w)
    PROVE  FirstPairInv'
<1> USE DEF JobAt, JobGoto, JobStart, JobReturn, Idle, tokens, history
<1>1. CASE ConsentDecide(w) BY <1>1 DEF ConsentDecide, OAuthTypeOK, OpInv, CodeInv, FirstPairInv, Issuing
<1>2. CASE CreateAuthCode(w) BY <1>2 DEF CreateAuthCode, OAuthTypeOK, OpInv, CodeInv, FirstPairInv, Issuing
<1>3. CASE ExchangeCode(w) BY <1>3 DEF ExchangeCode, OAuthTypeOK, OpInv, CodeInv, FirstPairInv, Issuing
<1>4. CASE CodeRefused(w) BY <1>4 DEF CodeRefused, OAuthTypeOK, OpInv, CodeInv, FirstPairInv, Issuing
<1>5. CASE ConsumeReads(w) BY <1>5 DEF ConsumeReads, OAuthTypeOK, OpInv, CodeInv, FirstPairInv, Issuing
<1>6. CASE ConsumeAuthCode(w) BY <1>6 DEF ConsumeAuthCode, OAuthTypeOK, OpInv, CodeInv, FirstPairInv, Issuing
<1>7. CASE RevokeGrant(w) BY <1>7 DEF RevokeGrant, OAuthTypeOK, OpInv, CodeInv, FirstPairInv, Issuing
<1>8. CASE ListFamily(w) BY <1>8 DEF ListFamily, OAuthTypeOK, OpInv, CodeInv, FirstPairInv, Issuing, Family
<1>9. CASE FamilyRevoked(w) BY <1>9 DEF FamilyRevoked, OAuthTypeOK, OpInv, CodeInv, FirstPairInv, Issuing
<1>10. CASE RevokeOAuthGrant(w) BY <1>10 DEF RevokeOAuthGrant, OAuthTypeOK, OpInv, CodeInv, FirstPairInv, Issuing
<1>11. CASE CheckGrant(w) BY <1>11 DEF CheckGrant, OAuthTypeOK, OpInv, CodeInv, FirstPairInv, Issuing
<1>12. CASE TouchReads(w) BY <1>12 DEF TouchReads, OAuthTypeOK, OpInv, CodeInv, FirstPairInv, Issuing
<1>13. CASE TouchOAuthToken(w) BY <1>13 DEF TouchOAuthToken, OAuthTypeOK, OpInv, CodeInv, FirstPairInv, Issuing
<1>14. CASE IssueAccess(w) BY <1>14 DEF IssueAccess, OAuthTypeOK, OpInv, CodeInv, FirstPairInv, Issuing, Issue, Unissued
<1>15. CASE IssueRefresh(w) BY <1>15 DEF IssueRefresh, OAuthTypeOK, OpInv, CodeInv, FirstPairInv, Issuing, Issue, Unissued
<1>16. CASE JobFails(w) BY <1>16 DEF JobFails, OAuthTypeOK, OpInv, CodeInv, FirstPairInv, Issuing
<1>17. ASSUME NEW t \in Tokens, RotateRefresh(w, t) PROVE FirstPairInv'
  BY <1>17 DEF RotateRefresh, OAuthTypeOK, OpInv, CodeInv, FirstPairInv, Issuing, Live
<1>18. ASSUME NEW t \in Tokens, Revoke(w, t) PROVE FirstPairInv'
  BY <1>18 DEF Revoke, OAuthTypeOK, OpInv, CodeInv, FirstPairInv, Issuing, Family
<1>19. ASSUME NEW t \in Tokens, TombstoneToken(w, t) PROVE FirstPairInv'
  BY <1>19 DEF TombstoneToken, OAuthTypeOK, OpInv, CodeInv, FirstPairInv, Issuing
<1>20. ASSUME NEW t \in Tokens, UseAccess(w, t) PROVE FirstPairInv'
  BY <1>20 DEF UseAccess, OAuthTypeOK, OpInv, CodeInv, FirstPairInv, Issuing, Live
<1> QED BY <1>1, <1>2, <1>3, <1>4, <1>5, <1>6, <1>7, <1>8, <1>9, <1>10, <1>11, <1>12, <1>13, <1>14, <1>15, <1>16, <1>17, <1>18, <1>19, <1>20 DEF JobStep

\* ... and that a rotation leaves one pair.
LEMMA PairStep ==
    ASSUME OAuthTypeOK, OpInv, CodeInv, FirstPairInv, PairInv, NEW w \in Handlers, JobStep(w)
    PROVE  PairInv'
<1> USE DEF JobAt, JobGoto, JobStart, JobReturn, Idle, tokens, history
<1>1. CASE ConsentDecide(w) BY <1>1 DEF ConsentDecide, OAuthTypeOK, OpInv, CodeInv, FirstPairInv, PairInv, Issuing, Live, Family, AtMostOne
<1>2. CASE CreateAuthCode(w) BY <1>2 DEF CreateAuthCode, OAuthTypeOK, OpInv, CodeInv, FirstPairInv, PairInv, Issuing, Live, Family, AtMostOne
<1>3. CASE ExchangeCode(w) BY <1>3 DEF ExchangeCode, OAuthTypeOK, OpInv, CodeInv, FirstPairInv, PairInv, Issuing, Live, Family, AtMostOne
<1>4. CASE CodeRefused(w) BY <1>4 DEF CodeRefused, OAuthTypeOK, OpInv, CodeInv, FirstPairInv, PairInv, Issuing, Live, Family, AtMostOne
<1>5. CASE ConsumeReads(w) BY <1>5 DEF ConsumeReads, OAuthTypeOK, OpInv, CodeInv, FirstPairInv, PairInv, Issuing, Live, Family, AtMostOne
<1>6. CASE ConsumeAuthCode(w) BY <1>6 DEF ConsumeAuthCode, OAuthTypeOK, OpInv, CodeInv, FirstPairInv, PairInv, Issuing, Live, Family, AtMostOne
<1>7. CASE RevokeGrant(w) BY <1>7 DEF RevokeGrant, OAuthTypeOK, OpInv, CodeInv, FirstPairInv, PairInv, Issuing, Live, Family, AtMostOne
<1>8. CASE ListFamily(w) BY <1>8 DEF ListFamily, OAuthTypeOK, OpInv, CodeInv, FirstPairInv, PairInv, Issuing, Live, Family, AtMostOne
<1>9. CASE FamilyRevoked(w) BY <1>9 DEF FamilyRevoked, OAuthTypeOK, OpInv, CodeInv, FirstPairInv, PairInv, Issuing, Live, Family, AtMostOne
<1>10. CASE RevokeOAuthGrant(w) BY <1>10 DEF RevokeOAuthGrant, OAuthTypeOK, OpInv, CodeInv, FirstPairInv, PairInv, Issuing, Live, Family, AtMostOne
<1>11. CASE CheckGrant(w) BY <1>11 DEF CheckGrant, OAuthTypeOK, OpInv, CodeInv, FirstPairInv, PairInv, Issuing, Live, Family, AtMostOne
<1>12. CASE TouchReads(w) BY <1>12 DEF TouchReads, OAuthTypeOK, OpInv, CodeInv, FirstPairInv, PairInv, Issuing, Live, Family, AtMostOne
<1>13. CASE TouchOAuthToken(w) BY <1>13 DEF TouchOAuthToken, OAuthTypeOK, OpInv, CodeInv, FirstPairInv, PairInv, Issuing, Live, Family, AtMostOne
<1>14. CASE IssueAccess(w)
  <2> USE <1>14
  <2> SUFFICES ASSUME overlap = "no" PROVE PairInv' BY DEF PairInv, IssueAccess, history
  <2>1. PICK t \in Tokens : /\ kind[t] = "none" /\ state[t] = "none"
                            /\ kind' = [kind EXCEPT ![t] = "access"] /\ state' = [state EXCEPT ![t] = "live"]
    BY IssueTakesUnissued DEF IssueAccess
  <2>2. \A v \in Handlers : job'[v].pc = (IF v = w THEN "refresh" ELSE job[v].pc) /\ job'[v].op = job[v].op /\ job'[v].kill = job[v].kill
    BY DEF IssueAccess, JobGoto, OAuthTypeOK
  <2>3. \A u \in Tokens : ~(kind[u] # "none" /\ state[u] = "live")
    <3>1. CASE job[w].op = "exchange" BY <3>1 DEF FirstPairInv, Issuing, IssueAccess, JobAt
    <3>2. CASE job[w].op = "rotate" BY <3>2 DEF PairInv, IssueAccess, JobAt, Family
    <3> QED BY <3>1, <3>2 DEF OpInv, IssueAccess, JobAt
  <2>4. \A u \in Tokens : state'[u] = "live" <=> u = t BY <2>1, <2>3 DEF OAuthTypeOK
  <2>5. AtMostOne(Live("refresh"))' /\ AtMostOne(Live("access"))' BY <2>4 DEF AtMostOne, Live
  <2>6. Live("refresh")' = {} BY <2>1, <2>4 DEF Live, OAuthTypeOK
  <2>7. \A v \in Handlers : job[v].op = "rotate" => v = w
    <3>1. CASE job[w].op = "exchange" BY <3>1 DEF FirstPairInv, Issuing, IssueAccess, JobAt
    <3>2. CASE job[w].op = "rotate" BY <3>2 DEF PairInv
    <3> QED BY <3>1, <3>2 DEF OpInv, IssueAccess, JobAt
  <2> QED BY <2>2, <2>5, <2>6, <2>7 DEF PairInv
<1>15. CASE IssueRefresh(w)
  <2> USE <1>15
  <2> SUFFICES ASSUME overlap = "no" PROVE PairInv' BY DEF PairInv, IssueRefresh, history
  <2>1. PICK t \in Tokens : /\ kind[t] = "none" /\ state[t] = "none"
                            /\ kind' = [kind EXCEPT ![t] = "refresh"] /\ state' = [state EXCEPT ![t] = "live"]
    BY IssueTakesUnissued DEF IssueRefresh
  <2>2. \A v \in Handlers : job'[v].op = IF v = w THEN "none" ELSE job[v].op
    BY DEF IssueRefresh, JobReturn, Idle, OAuthTypeOK
  <2>3. Live("refresh") = {}
    <3>1. CASE job[w].op = "exchange" BY <3>1 DEF FirstPairInv, Issuing, IssueRefresh, JobAt, Live
    <3>2. CASE job[w].op = "rotate" BY <3>2 DEF PairInv, IssueRefresh, JobAt
    <3> QED BY <3>1, <3>2 DEF OpInv, IssueRefresh, JobAt
  <2>4. Live("refresh")' \subseteq {t} BY <2>1, <2>3 DEF Live, OAuthTypeOK
  <2>5. Live("access")' = Live("access") BY <2>1 DEF Live, OAuthTypeOK
  <2>6. AtMostOne(Live("refresh"))' /\ AtMostOne(Live("access"))' BY <2>4, <2>5 DEF AtMostOne, PairInv
  <2>7. \A v \in Handlers : job[v].op = "rotate" => v = w
    <3>1. CASE job[w].op = "exchange" BY <3>1 DEF FirstPairInv, Issuing, IssueRefresh, JobAt
    <3>2. CASE job[w].op = "rotate" BY <3>2 DEF PairInv
    <3> QED BY <3>1, <3>2 DEF OpInv, IssueRefresh, JobAt
  <2>8. \A v \in Handlers : job'[v].op # "rotate" BY <2>2, <2>7
  <2> QED BY <2>6, <2>8 DEF PairInv
<1>16. CASE JobFails(w)
  <2> USE <1>16
  <2>0. UNCHANGED <<grant, code, claimed, kind, state, redeemed, overlap>> BY DEF JobFails, tokens, history
  <2>1. \A v \in Handlers : job'[v].op = "rotate" => job'[v] = job[v]
    <3>1. CASE job[w].op = "replay" /\ job[w].pc # "grant"
       <4>1. job' = [job EXCEPT ![w].pc = "grant", ![w].kill = {}] BY <3>1 DEF JobFails
       <4>2. \A v \in Handlers : v # w => job'[v] = job[v] BY <4>1 DEF OAuthTypeOK
       <4>3. job'[w].op = "replay" BY <4>1, <3>1 DEF OAuthTypeOK
       <4> QED BY <4>2, <4>3
    <3>2. CASE ~(job[w].op = "replay" /\ job[w].pc # "grant") BY <3>2 DEF JobFails, JobReturn, Idle, OAuthTypeOK
    <3> QED BY <3>1, <3>2
  <2>2. \A v \in Handlers : job'[v].op = "rotate" => job[v].op = "rotate" BY <2>1
  <2>3. Family' = Family /\ Live("refresh")' = Live("refresh") /\ Live("access")' = Live("access") BY <2>0 DEF Family, Live
  <2> QED BY <2>0, <2>1, <2>2, <2>3 DEF PairInv
<1>17. ASSUME NEW t \in Tokens, RotateRefresh(w, t) PROVE PairInv'
  BY <1>17 DEF RotateRefresh, OAuthTypeOK, OpInv, CodeInv, FirstPairInv, PairInv, Issuing, Live, Family, AtMostOne
<1>18. ASSUME NEW t \in Tokens, Revoke(w, t) PROVE PairInv'
  BY <1>18 DEF Revoke, OAuthTypeOK, OpInv, CodeInv, FirstPairInv, PairInv, Issuing, Live, Family, AtMostOne
<1>19. ASSUME NEW t \in Tokens, TombstoneToken(w, t) PROVE PairInv'
  BY <1>19 DEF TombstoneToken, OAuthTypeOK, OpInv, CodeInv, FirstPairInv, PairInv, Issuing, Live, Family, AtMostOne
<1>20. ASSUME NEW t \in Tokens, UseAccess(w, t) PROVE PairInv'
  BY <1>20 DEF UseAccess, OAuthTypeOK, OpInv, CodeInv, FirstPairInv, PairInv, Issuing, Live, Family, AtMostOne
<1> QED BY <1>1, <1>2, <1>3, <1>4, <1>5, <1>6, <1>7, <1>8, <1>9, <1>10, <1>11, <1>12, <1>13, <1>14, <1>15, <1>16, <1>17, <1>18, <1>19, <1>20 DEF JobStep

\* A restart ends every request and forgets the claim.
LEMMA RestartStep ==
    ASSUME OAuthInv, Restart
    PROVE  OAuthInv'
<1>1. \A w \in Handlers : job'[w] = Idle BY DEF Restart
<1>2. claimed' = "no" /\ job' = [w \in Handlers |-> Idle] BY DEF Restart
<1>3. UNCHANGED <<grant, code, kind, state, redeemed, overlap>> BY DEF Restart, tokens, history
<1> USE DEF OAuthInv
<1>4. OAuthTypeOK' BY <1>2, <1>3 DEF OAuthTypeOK, Idle
<1>5. OpInv' BY <1>1 DEF OpInv, Idle
<1>6. CodeInv' BY <1>1, <1>3 DEF CodeInv, Redeeming, Idle
<1>7. BornInv' /\ DisconnectIsFinal' BY <1>1 DEF BornInv, DisconnectIsFinal, Idle
<1>8. FirstPairInv' BY <1>1, <1>3 DEF FirstPairInv, Issuing, Idle
<1>9. PairInv' BY <1>1, <1>3 DEF PairInv, Idle, Live, Family, AtMostOne
<1> QED BY <1>4, <1>5, <1>6, <1>7, <1>8, <1>9

\* Whatever the interleaving, the failed calls and the restarts, the grant, its
\* code, its tokens and the requests about them stay consistent.
THEOREM OAuthInvariant == OAuthSpec => []OAuthInv
<1>1. OAuthInit => OAuthInv
  <2> SUFFICES ASSUME OAuthInit PROVE OAuthInv OBVIOUS
  <2>1. OAuthTypeOK BY DEF OAuthInit, OAuthTypeOK, Idle
  <2>2. OpInv BY DEF OAuthInit, OpInv, Idle
  <2>3. CodeInv BY DEF OAuthInit, CodeInv, Redeeming, Idle
  <2>4. BornInv /\ DisconnectIsFinal BY DEF OAuthInit, BornInv, DisconnectIsFinal, Idle
  <2>5. FirstPairInv BY DEF OAuthInit, FirstPairInv, Issuing, Idle
  <2>6. PairInv BY DEF OAuthInit, PairInv, Idle, Live, Family, AtMostOne
  <2> QED BY <2>1, <2>2, <2>3, <2>4, <2>5, <2>6 DEF OAuthInv
<1>2. OAuthInv /\ [OAuthNext]_oauthVars => OAuthInv'
  <2> SUFFICES ASSUME OAuthInv, [OAuthNext]_oauthVars PROVE OAuthInv' OBVIOUS
  <2>1. CASE Restart BY <2>1, RestartStep
  <2>2. ASSUME NEW w \in Handlers, JobStep(w) PROVE OAuthInv'
    BY <2>2, OAuthShapeStep, CodeStep, BornStep, FirstPairStep, PairStep DEF OAuthInv
  <2>3. CASE UNCHANGED oauthVars
    BY <2>3 DEF oauthVars, tokens, history, OAuthInv, OAuthTypeOK, OpInv, CodeInv, Redeeming,
                BornInv, DisconnectIsFinal, FirstPairInv, Issuing, PairInv, Live, Family, AtMostOne
  <2>4. OAuthNext => Restart \/ \E w \in Handlers : JobStep(w) BY DEF OAuthNext, JobStep
  <2> QED BY <2>1, <2>2, <2>3, <2>4
<1> QED BY <1>1, <1>2, PTL DEF OAuthSpec

\* codeClaims and the Consumed flag let one code issue one first pair, through
\* concurrent redemptions, failures and restarts (api/oauth_token.go).
THEOREM CodeIssuesOnceHolds == OAuthSpec => []CodeIssuesOnce
<1>1. OAuthInv => CodeIssuesOnce BY DEF OAuthInv, CodeInv, CodeIssuesOnce
<1> QED BY <1>1, OAuthInvariant, PTL

\* No request that begins after the grant was revoked is served under it,
\* whatever became of its tokens (auth/oauthtoken.go).
THEOREM DisconnectIsFinalHolds == OAuthSpec => []DisconnectIsFinal
<1>1. OAuthInv => DisconnectIsFinal BY DEF OAuthInv
<1> QED BY <1>1, OAuthInvariant, PTL

\* A set no two members of which differ has at most one.
LEMMA AtMostOneCounts ==
    ASSUME NEW S, AtMostOne(S)
    PROVE  Cardinality(S) <= 1
<1>1. CASE S = {} BY <1>1, FS_EmptySet
<1>2. ASSUME NEW x \in S PROVE Cardinality(S) <= 1
  <2>1. S = {x} BY <1>2 DEF AtMostOne
  <2>2. Cardinality({x}) = 1 BY FS_Singleton
  <2> QED BY <2>1, <2>2
<1> QED BY <1>1, <1>2

\* Rotation leaves one live pair, unless two rotations overlap or a touch undoes
\* a tombstone (rotateRefresh, api/oauth_token.go).
THEOREM OnePairHolds == OAuthSpec => []OnePair
<1>1. OAuthInv => OnePair BY AtMostOneCounts DEF OAuthInv, PairInv, OnePair
<1> QED BY <1>1, OAuthInvariant, PTL
===============================================================================
