------------------------------ MODULE OAuthGrants ------------------------------
(***************************************************************************)
(* The life of one OAuth grant: consent, the redemption of its code, the   *)
(* rotation of its token pairs, their use at POST /mcp, and the ways to    *)
(* end it (hub/internal/api/oauth_flow.go, oauth_token.go, oauth_grants.go,*)
(* internal/auth/oauthtoken.go, internal/storage/clickhouse/oauth.go).     *)
(*                                                                         *)
(* One hub process, which may restart.  Every store call is a step and may *)
(* fail; a tombstone or a touch rewrites the whole row it read.  The scope *)
(* includes offline_access, without which nothing is ever rotated.         *)
(***************************************************************************)
EXTENDS Integers, FiniteSets

CONSTANTS
    Handlers,    \* requests in flight at once
    Tokens,      \* token hashes
    NoToken

ASSUME OAuthAssumption == NoToken \notin Tokens

VARIABLES
    grant,      \* oauth_grant: none, live, revoked
    code,       \* oauth_auth_code: none, issued, consumed
    claimed,    \* codeClaims holds the code's hash
    kind,       \* per token: none, access, refresh
    state,      \* per token: none, live, revoked
    job,        \* per worker, the request it serves
    redeemed,   \* history: how many redemptions of the code issued tokens
    overlap     \* history: two rotations were in flight at once, or a touch
                \* rewrote a token after its tombstone

oauthVars == <<grant, code, claimed, kind, state, job, redeemed, overlap>>
tokens == <<kind, state>>
history == <<redeemed, overlap>>

Idle == [op |-> "none", pc |-> "idle", tok |-> NoToken, kill |-> {}, born |-> "none"]

OAuthInit ==
    /\ grant = "none" /\ code = "none" /\ claimed = "no"
    /\ kind = [t \in Tokens |-> "none"] /\ state = [t \in Tokens |-> "none"]
    /\ job = [w \in Handlers |-> Idle]
    /\ redeemed = 0 /\ overlap = "no"

Live(k) == {t \in Tokens : kind[t] = k /\ state[t] = "live"}
Family == {t \in Tokens : state[t] = "live"}

JobAt(w, step) == job[w].pc = step
JobStart(w, op, step, t) ==
    job' = [job EXCEPT ![w] = [op |-> op, pc |-> step, tok |-> t, kill |-> {}, born |-> grant]]
JobGoto(w, step) == job' = [job EXCEPT ![w].pc = step]
JobReturn(w) == job' = [job EXCEPT ![w] = Idle]

-----------------------------------------------------------------------------
\* handleConsentDecide, past its checks: the grant is written first, the code
\* after it.
ConsentDecide(w) ==
    /\ JobAt(w, "idle") /\ grant = "none"
    /\ grant' = "live" /\ JobStart(w, "consent", "code", NoToken)
    /\ UNCHANGED <<code, claimed, tokens, history>>

CreateAuthCode(w) ==
    /\ JobAt(w, "code")
    /\ code' = "issued" /\ JobReturn(w)
    /\ UNCHANGED <<grant, claimed, tokens, history>>

\* Mutant of ExchangeCode: codeClaims is not consulted.
ExchangeCodeUnclaimed(w) ==
    /\ JobAt(w, "idle") /\ code # "none"
    /\ IF code = "consumed" THEN JobStart(w, "replay", "list", NoToken)
       ELSE JobStart(w, "exchange", "check", NoToken)
    /\ UNCHANGED <<grant, code, claimed, tokens, history>>

\* exchangeCode reads the code.  One that was consumed, or that this process
\* has claimed, is a replay and ends the grant; any other is claimed.
ExchangeCode(w) ==
    /\ JobAt(w, "idle") /\ code # "none"
    /\ IF code = "consumed" \/ claimed = "yes"
       THEN JobStart(w, "replay", "list", NoToken) /\ UNCHANGED claimed
       ELSE JobStart(w, "exchange", "check", NoToken) /\ claimed' = "yes"
    /\ UNCHANGED <<grant, code, tokens, history>>

\* The code is expired or not this client's, or the verifier does not match:
\* refused, and the claim stays.
CodeRefused(w) ==
    /\ JobAt(w, "check") /\ JobReturn(w)
    /\ UNCHANGED <<grant, code, claimed, tokens, history>>

\* ConsumeOAuthAuthCode reads the row again...
ConsumeReads(w) ==
    /\ JobAt(w, "check")
    /\ IF code = "consumed" THEN JobReturn(w) ELSE JobGoto(w, "consume")
    /\ UNCHANGED <<grant, code, claimed, tokens, history>>

\* ... and marks it.
ConsumeAuthCode(w) ==
    /\ JobAt(w, "consume")
    /\ code' = "consumed" /\ JobGoto(w, "access") /\ redeemed' = redeemed + 1
    /\ UNCHANGED <<grant, claimed, tokens, overlap>>

-----------------------------------------------------------------------------
\* rotateRefresh reads a live refresh token (unexpired, of this client); one
\* that was rotated is refused, and nothing else happens.
RotateRefresh(w, t) ==
    /\ JobAt(w, "idle") /\ t \in Live("refresh")
    /\ JobStart(w, "rotate", "list", t)
    /\ overlap' = IF \E v \in Handlers : job[v].op = "rotate" THEN "yes" ELSE overlap
    /\ UNCHANGED <<grant, code, claimed, tokens, redeemed>>

\* A new random token: any that was never issued will do.
Unissued == {t \in Tokens : kind[t] = "none"}
Issue(k) ==
    /\ Unissued # {}
    /\ LET t == CHOOSE u \in Unissued : TRUE IN
         kind' = [kind EXCEPT ![t] = k] /\ state' = [state EXCEPT ![t] = "live"]

\* issuePair: the access token, then the refresh token.
IssueAccess(w) ==
    /\ JobAt(w, "access") /\ Issue("access") /\ JobGoto(w, "refresh")
    /\ UNCHANGED <<grant, code, claimed, history>>

IssueRefresh(w) ==
    /\ JobAt(w, "refresh") /\ Issue("refresh") /\ JobReturn(w)
    /\ UNCHANGED <<grant, code, claimed, history>>

-----------------------------------------------------------------------------
\* handleRevoke (RFC 7009) of either half of a pair.
Revoke(w, t) ==
    /\ JobAt(w, "idle") /\ t \in Family
    /\ JobStart(w, "revoke", "list", t)
    /\ UNCHANGED <<grant, code, claimed, tokens, history>>

\* handleRevokeGrant: tokens first, then the grant.
RevokeGrant(w) ==
    /\ JobAt(w, "idle") /\ grant # "none"
    /\ JobStart(w, "disconnect", "list", NoToken)
    /\ UNCHANGED <<grant, code, claimed, tokens, history>>

\* Mutant of ListFamily: only the token that was presented is revoked.
ListPresented(w) ==
    /\ JobAt(w, "list")
    /\ job' = [job EXCEPT ![w].kill = Family \cap {job[w].tok}, ![w].pc = "tombstone"]
    /\ UNCHANGED <<grant, code, claimed, tokens, history>>

\* RevokeOAuthTokensForGrant lists the live tokens...
ListFamily(w) ==
    /\ JobAt(w, "list")
    /\ job' = [job EXCEPT ![w].kill = Family, ![w].pc = "tombstone"]
    /\ UNCHANGED <<grant, code, claimed, tokens, history>>

\* ... and tombstones them one by one.
TombstoneToken(w, t) ==
    /\ JobAt(w, "tombstone") /\ t \in job[w].kill
    /\ state' = [state EXCEPT ![t] = "revoked"]
    /\ job' = [job EXCEPT ![w].kill = @ \ {t}]
    /\ UNCHANGED <<grant, code, claimed, kind, history>>

FamilyRevoked(w) ==
    /\ JobAt(w, "tombstone") /\ job[w].kill = {}
    /\ CASE job[w].op = "rotate" -> JobGoto(w, "access")
         [] job[w].op = "revoke" -> JobReturn(w)
         [] OTHER -> JobGoto(w, "grant")
    /\ UNCHANGED <<grant, code, claimed, tokens, history>>

\* RevokeOAuthGrant.
RevokeOAuthGrant(w) ==
    /\ JobAt(w, "grant")
    /\ grant' = "revoked" /\ JobReturn(w)
    /\ UNCHANGED <<code, claimed, tokens, history>>

-----------------------------------------------------------------------------
\* requestIdentityForResource: IdentityFromOAuthToken reads the token...
UseAccess(w, t) ==
    /\ JobAt(w, "idle") /\ t \in Live("access")
    /\ JobStart(w, "use", "identity", t)
    /\ UNCHANGED <<grant, code, claimed, tokens, history>>

\* Mutant of CheckGrant: the token row is trusted.
GrantUnchecked(w) ==
    /\ JobAt(w, "identity") /\ JobGoto(w, "served")
    /\ UNCHANGED <<grant, code, claimed, tokens, history>>

\* ... then the grant, on every call.
CheckGrant(w) ==
    /\ JobAt(w, "identity")
    /\ IF grant = "live" THEN JobGoto(w, "served") ELSE JobReturn(w)
    /\ UNCHANGED <<grant, code, claimed, tokens, history>>

\* touchOAuthToken, where due: it reads the live row...
TouchReads(w) ==
    /\ JobAt(w, "served")
    /\ IF state[job[w].tok] = "live" THEN JobGoto(w, "touch") ELSE JobReturn(w)
    /\ UNCHANGED <<grant, code, claimed, tokens, history>>

\* ... and rewrites all of it, Revoked = 0 included.
TouchOAuthToken(w) ==
    /\ JobAt(w, "touch")
    /\ state' = [state EXCEPT ![job[w].tok] = "live"]
    /\ overlap' = IF state[job[w].tok] = "revoked" THEN "yes" ELSE overlap
    /\ JobReturn(w)
    /\ UNCHANGED <<grant, code, claimed, kind, redeemed>>

-----------------------------------------------------------------------------
\* A store call fails.  The replay of a code ignores that and goes on from its
\* tokens to its grant; every other request ends there.
JobFails(w) ==
    /\ ~JobAt(w, "idle")
    /\ IF job[w].op = "replay" /\ job[w].pc # "grant"
       THEN job' = [job EXCEPT ![w].pc = "grant", ![w].kill = {}] ELSE JobReturn(w)
    /\ UNCHANGED <<grant, code, claimed, tokens, history>>

\* The hub restarts: requests in flight and codeClaims are gone.
Restart ==
    /\ job' = [w \in Handlers |-> Idle] /\ claimed' = "no"
    /\ UNCHANGED <<grant, code, tokens, history>>

OAuthNext ==
    \/ Restart
    \/ \E w \in Handlers :
         \/ ConsentDecide(w) \/ CreateAuthCode(w) \/ ExchangeCode(w) \/ CodeRefused(w)
         \/ ConsumeReads(w) \/ ConsumeAuthCode(w) \/ RevokeGrant(w) \/ ListFamily(w)
         \/ FamilyRevoked(w) \/ RevokeOAuthGrant(w) \/ CheckGrant(w) \/ TouchReads(w)
         \/ TouchOAuthToken(w) \/ IssueAccess(w) \/ IssueRefresh(w) \/ JobFails(w)
         \/ \E t \in Tokens :
              RotateRefresh(w, t) \/ Revoke(w, t) \/ TombstoneToken(w, t) \/ UseAccess(w, t)

OAuthSpec == OAuthInit /\ [][OAuthNext]_oauthVars

-----------------------------------------------------------------------------
OAuthTypeOK ==
    /\ grant \in {"none", "live", "revoked"} /\ code \in {"none", "issued", "consumed"}
    /\ claimed \in {"yes", "no"} /\ overlap \in {"yes", "no"}
    /\ kind \in [Tokens -> {"none", "access", "refresh"}]
    /\ state \in [Tokens -> {"none", "live", "revoked"}]
    /\ \A t \in Tokens : kind[t] = "none" <=> state[t] = "none"
    /\ job \in [Handlers ->
          [op : {"none", "consent", "exchange", "replay", "rotate", "revoke", "disconnect", "use"},
           pc : {"idle", "code", "check", "consume", "list", "tombstone", "grant", "access",
                 "refresh", "identity", "served", "touch"},
           tok : Tokens \cup {NoToken}, kill : SUBSET Tokens,
           born : {"none", "live", "revoked"}]]
    /\ redeemed \in Nat

\* A code is redeemed at most once in one process: concurrent redemptions meet
\* codeClaims, later ones the Consumed flag, and a restart in between loses the
\* claim together with the redemption that held it.
CodeIssuesOnce == redeemed <= 1

\* Once a grant is revoked, no request that starts afterwards is served under
\* it: not with a token a rotation in flight minted after the sweep, not with
\* one a late touch brought back.
DisconnectIsFinal == \A w \in Handlers : job[w].pc \in {"served", "touch"} => job[w].born # "revoked"

\* A rotation replaces the pair: a second live refresh or access token takes two
\* rotations in flight at once, or a touch that lands after the tombstone.
OnePair ==
    overlap = "no" => /\ Cardinality(Live("refresh")) <= 1
                      /\ Cardinality(Live("access")) <= 1
===============================================================================
