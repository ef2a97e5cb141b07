------------------------------ MODULE IngestAuth ------------------------------
(***************************************************************************)
(* The gateway's ingest-key authenticator (gateway/avuruingestauth), the   *)
(* tenantfromauth processor behind it and the hub's ingest-key table and   *)
(* validate endpoint that it asks.                                         *)
(*                                                                         *)
(* Collector workers run Authenticate concurrently.  A worker reads the    *)
(* time, looks the key up in a mutex-guarded cache, lets go of the mutex   *)
(* while it asks the hub over HTTP, and stores the answer under the time   *)
(* it read at the START.  Nothing makes two workers share one call, so     *)
(* answers may be stored in another order than the hub gave them.          *)
(***************************************************************************)
EXTENDS Integers

CONSTANTS
    Keys,           \* raw ingest keys; a stored hash identifies exactly one
    Projects,       \* project ids a key may belong to
    Claims,         \* the tenants payloads claim
    Modes,          \* the values of cfg.Mode to consider
    Requests,       \* collector workers, each serving one request at a time
    CacheTTL,       \* cfg.CacheTTL, in clock ticks
    StaleGrace,     \* cfg.StaleGrace
    Timeout,        \* cfg.Timeout of one hub call
    MaxClock,       \* bound on the clock
    Invalid,        \* the verdict valid=false
    NoKey,          \* extractKey found none
    NoEntry,        \* a key the cache does not hold
    NoTenant        \* the payload was not stored

Verdicts == Projects \cup {Invalid}
Entries == [verdict : Verdicts, fetched : 0..MaxClock]

ASSUME IngestAssumption ==
    /\ CacheTTL \in Nat /\ StaleGrace \in Nat /\ Timeout \in Nat
    /\ MaxClock \in Nat
    /\ Claims \subseteq Projects
    /\ Modes \subseteq {"off", "log", "enforce"}
    /\ Invalid \notin Projects
    /\ NoKey \notin Keys
    /\ NoEntry \notin Entries
    /\ NoTenant \notin Projects

\* How a request got its verdict: the hub's answer, a fresh cache entry, an
\* entry served in the stale-grace window, none because the hub is
\* unavailable, none because it carried no key, or it was not checked at all.
Vias == {"hub", "cache", "stale", "down", "nokey", "unchecked"}

VARIABLES
    clock,
    mode,       \* cfg.Mode: fixed for the life of the collector
    seeds,      \* hub: the keys the chart provisions at its start
    truth,      \* hub: the project of the live row of each key, or Invalid
    minted,     \* hub: the keys some row exists for
    cache,      \* gateway: a.cache
    req,        \* gateway: one record of locals per worker
    lastHeld,   \* history: when the hub's truth about a key last was a verdict
    lastFill    \* history: the latest start time among a key's stored answers

hubVars == <<seeds, truth, minted, lastHeld>>
vars == <<clock, mode, seeds, truth, minted, cache, req, lastHeld, lastFill>>

\* A verdict that never was the truth; older than any age the checks allow.
Never == -(CacheTTL + StaleGrace + 1)

IdleRequest == [pc |-> "idle", key |-> NoKey, claim |-> NoTenant, now |-> 0,
                seen |-> NoEntry, newest |-> Never, answer |-> Invalid,
                via |-> "unchecked", counted |-> 0, tenant |-> NoTenant]

Init ==
    /\ clock = 0
    /\ mode \in Modes
    /\ seeds \in SUBSET Keys
    /\ truth = [k \in Keys |-> Invalid]
    /\ minted = {}
    /\ cache = [k \in Keys |-> NoEntry]
    /\ req = [r \in Requests |-> IdleRequest]
    /\ lastHeld = [k \in Keys |-> [v \in Verdicts |-> Never]]
    /\ lastFill = [k \in Keys |-> Never]

-----------------------------------------------------------------------------
(* The hub: the key table and the handlers that change it.                 *)

\* The live row of k now names v (Invalid: tombstoned).
SetTruth(k, v) ==
    /\ lastHeld' = [lastHeld EXCEPT ![k][truth[k]] = clock]
    /\ truth' = [truth EXCEPT ![k] = v]

\* handleCreateIngestKey: the raw key is fresh randomness, so never one that
\* has a row already.
CreateIngestKey(k, p) ==
    /\ k \notin seeds \cup minted
    /\ SetTruth(k, p)
    /\ minted' = minted \cup {k}
    /\ UNCHANGED <<clock, mode, seeds, cache, req, lastFill>>

\* ensureIngestKey, at every hub start: a seed key without a live row is
\* inserted (again, when it was revoked), for the project the chart names.
EnsureIngestKey(k, p) ==
    /\ k \in seeds
    /\ truth[k] = Invalid
    /\ SetTruth(k, p)
    /\ minted' = minted \cup {k}
    /\ UNCHANGED <<clock, mode, seeds, cache, req, lastFill>>

\* RevokeIngestKey: only a key that is live; a tombstone row supersedes it.
RevokeIngestKey(k) ==
    /\ truth[k] # Invalid
    /\ SetTruth(k, Invalid)
    /\ UNCHANGED <<clock, mode, seeds, minted, cache, req, lastFill>>

-----------------------------------------------------------------------------
(* The gateway.                                                            *)

\* tenantfromauth: the project attached by the authenticator, when there is
\* one, replaces the tenant the payload claims.
Stamped(claim, project) == IF project = NoTenant THEN claim ELSE project

\* The project Authenticate attaches to the context for a valid verdict.
Attached(project) == IF mode = "enforce" THEN project ELSE NoTenant

\* Worker r returns from Authenticate: only the outcome outlives the call.
Return(r, via, counted, tenant) ==
    req' = [req EXCEPT ![r] =
              [req[r] EXCEPT !.pc = "done", !.via = via, !.counted = counted,
                        !.tenant = tenant, !.seen = NoEntry, !.answer = Invalid,
                        !.newest = IF via = "down" THEN req[r].newest ELSE Never]]

\* No error: the payload goes on through tenantfromauth to storage.
Accept(r, via, project, counted) ==
    Return(r, via, counted, Stamped(req[r].claim, project))

\* Mutant of Deny: the error is returned in every mode.
DenyAlways(r, via) == Return(r, via, 1, NoTenant)

\* deny: count, and return the error in enforce mode only.
Deny(r, via) ==
    IF mode = "enforce" THEN Return(r, via, 1, NoTenant)
                        ELSE Accept(r, via, NoTenant, 1)

\* The end of Authenticate once verdict returned v without an error.
Decide(r, via, v) ==
    IF v = Invalid THEN Deny(r, via) ELSE Accept(r, via, Attached(v), 0)

\* A payload arrives: worker r picks it up, and reads the time when it has a
\* key to look up.
Begin(r, k, claim) ==
    /\ req[r].pc \in {"idle", "done"}
    /\ req' = [req EXCEPT ![r] =
                 [IdleRequest EXCEPT !.pc = IF mode = "off" \/ k = NoKey
                                            THEN "decide" ELSE "lookup",
                                     !.key = k, !.claim = claim, !.now = clock]]
    /\ UNCHANGED <<clock, mode, hubVars, cache, lastFill>>

\* The requests that need no verdict: mode off, and a missing key.
AuthenticateUnkeyed(r) ==
    /\ req[r].pc = "decide"
    /\ IF mode = "off"
       THEN Accept(r, "unchecked", NoTenant, 0)
       ELSE Deny(r, "nokey")
    /\ UNCHANGED <<clock, mode, hubVars, cache, lastFill>>

\* entry is younger than age for a request that read the time now.
Younger(entry, now, age) == entry # NoEntry /\ now - entry.fetched < age

\* verdict, up to the first Unlock: a fresh entry is the verdict.
LookupFresh(r) ==
    LET k == req[r].key IN
    /\ req[r].pc = "lookup"
    /\ Younger(cache[k], req[r].now, CacheTTL)
    /\ Decide(r, "cache", cache[k].verdict)
    /\ UNCHANGED <<clock, mode, hubVars, cache, lastFill>>

\* Mutant of LookupMiss: an entry past its TTL is dropped, not kept.
LookupMissEvicting(r) ==
    LET k == req[r].key IN
    /\ req[r].pc = "lookup"
    /\ ~Younger(cache[k], req[r].now, CacheTTL)
    /\ req' = [req EXCEPT ![r].pc = "call", ![r].seen = NoEntry,
                          ![r].newest = lastFill[k]]
    /\ cache' = [cache EXCEPT ![k] = NoEntry]
    /\ UNCHANGED <<clock, mode, hubVars, lastFill>>

\* ... otherwise callHub is entered with the entry read under the lock.
LookupMiss(r) ==
    LET k == req[r].key IN
    /\ req[r].pc = "lookup"
    /\ ~Younger(cache[k], req[r].now, CacheTTL)
    /\ req' = [req EXCEPT ![r].pc = "call", ![r].seen = cache[k],
                          ![r].newest = lastFill[k]]
    /\ UNCHANGED <<clock, mode, hubVars, cache, lastFill>>

\* handleValidateIngestKey: the hub reads the row and answers 200 either way.
HubAnswers(r) ==
    /\ req[r].pc = "call"
    /\ req' = [req EXCEPT ![r].pc = "answered", ![r].answer = truth[req[r].key]]
    /\ UNCHANGED <<clock, mode, hubVars, cache, lastFill>>

\* Mutant of Fill: the entry's age counts from the end of the call.
FillAtEnd(r) ==
    LET k == req[r].key IN
    /\ req[r].pc = "answered"
    /\ cache' = [cache EXCEPT ![k] = [verdict |-> req[r].answer,
                                      fetched |-> clock]]
    /\ lastFill' = [lastFill EXCEPT ![k] = clock]
    /\ Decide(r, "hub", req[r].answer)
    /\ UNCHANGED <<clock, mode, hubVars>>

\* verdict, after callHub succeeded: store under the time read at the start.
Fill(r) ==
    LET k == req[r].key IN
    /\ req[r].pc = "answered"
    /\ cache' = [cache EXCEPT ![k] = [verdict |-> req[r].answer,
                                      fetched |-> req[r].now]]
    /\ lastFill' = [lastFill EXCEPT ![k] =
                      IF req[r].now > @ THEN req[r].now ELSE @]
    /\ Decide(r, "hub", req[r].answer)
    /\ UNCHANGED <<clock, mode, hubVars>>

\* callHub failed (hub down, non-200, or the answer did not arrive in time)
\* and the entry read before the call is inside the stale-grace window.
FallBackStale(r) ==
    /\ req[r].pc \in {"call", "answered"}
    /\ Younger(req[r].seen, req[r].now, StaleGrace)
    /\ Decide(r, "stale", req[r].seen.verdict)
    /\ UNCHANGED <<clock, mode, hubVars, cache, lastFill>>

\* callHub failed and there is nothing to fall back to: closed in enforce
\* mode, open (and not counted) in log mode.
FallBackDown(r) ==
    /\ req[r].pc \in {"call", "answered"}
    /\ ~Younger(req[r].seen, req[r].now, StaleGrace)
    /\ IF mode = "enforce" THEN Deny(r, "down")
                           ELSE Accept(r, "down", NoTenant, 0)
    /\ UNCHANGED <<clock, mode, hubVars, cache, lastFill>>

\* Time passes; httpClient.Timeout keeps a call from outliving its budget.
\* The worker's own steps take no time on this scale.
Tick ==
    /\ clock < MaxClock
    /\ \A r \in Requests : req[r].pc \in {"decide", "lookup", "call", "answered"}
                             => clock - req[r].now < Timeout
    /\ clock' = clock + 1
    /\ UNCHANGED <<mode, hubVars, cache, req, lastFill>>

HubStep ==
    \E k \in Keys : \/ \E p \in Projects : CreateIngestKey(k, p)
                    \/ \E p \in Projects : EnsureIngestKey(k, p)
                    \/ RevokeIngestKey(k)

WorkerStep(r) ==
    \/ \E k \in Keys \cup {NoKey}, claim \in Claims : Begin(r, k, claim)
    \/ AuthenticateUnkeyed(r)
    \/ LookupFresh(r)
    \/ LookupMiss(r)
    \/ HubAnswers(r)
    \/ Fill(r)
    \/ FallBackStale(r)
    \/ FallBackDown(r)

Next == HubStep \/ (\E r \in Requests : WorkerStep(r)) \/ Tick

Spec == Init /\ [][Next]_vars

-----------------------------------------------------------------------------
(* Properties.                                                             *)

\* The types; a worker past extractKey has a key.
AuthTypeOK ==
    /\ clock \in 0..MaxClock
    /\ mode \in Modes
    /\ seeds \subseteq Keys
    /\ truth \in [Keys -> Verdicts]
    /\ minted \subseteq Keys
    /\ cache \in [Keys -> Entries \cup {NoEntry}]
    /\ req \in [Requests ->
                   [pc : {"idle", "decide", "lookup", "call", "answered", "done"},
                    key : Keys \cup {NoKey}, claim : Projects \cup {NoTenant},
                    now : 0..MaxClock, seen : Entries \cup {NoEntry},
                    newest : Int, answer : Verdicts, via : Vias,
                    counted : {0, 1}, tenant : Projects \cup {NoTenant}]]
    /\ \A r \in Requests : req[r].pc \in {"lookup", "call", "answered"}
                            => req[r].key \in Keys
    /\ lastHeld \in [Keys -> [Verdicts -> Int]]
    /\ lastFill \in [Keys -> Int]

\* The hub's truth about k is v, or last was at time t or later.
HeldSince(k, v, t) == truth[k] = v \/ lastHeld[k][v] >= t

\* The oldest hub state a verdict may come from, for a request that started
\* at time now.
OldestAllowed(via, now) ==
    CASE via = "hub"   -> now
      [] via = "cache" -> now - CacheTTL + 1
      [] via = "stale" -> now - StaleGrace + 1

\* In enforce mode what happens to a payload - rejected, or stored under a
\* project - is what the hub held of its key when the request started, or
\* less than CacheTTL before (StaleGrace, when the hub cannot be asked),
\* however the answers of concurrent calls were stored (extension.go:157-181).
\* So a revocation takes hold everywhere within CacheTTL, and within
\* StaleGrace through an outage; a key is never credited to another project.
EnforcedVerdictRecent ==
    \A r \in Requests :
        mode = "enforce" /\ req[r].pc = "done" /\ req[r].via \in {"hub", "cache", "stale"}
        => HeldSince(req[r].key,
                     IF req[r].tenant = NoTenant THEN Invalid ELSE req[r].tenant,
                     OldestAllowed(req[r].via, req[r].now))

\* Outside enforce mode every payload is stored under the tenant it claims,
\* whatever the cache, the hub and its key say (extension.go:120-140).
DropInSafe ==
    \A r \in Requests :
        mode # "enforce" /\ req[r].pc = "done" => req[r].tenant = req[r].claim

\* A hub blip drops no traffic whose key the hub has vouched for: a request
\* is only turned away as "validation unavailable" when no answer about its
\* key, stored before it looked, was asked for within StaleGrace of its
\* start, give or take one call Timeout by which a slower call may have
\* overwritten a newer answer with an older one (config.go:37-39).
GraceHonoured ==
    \A r \in Requests :
        mode = "enforce" /\ req[r].pc = "done" /\ req[r].via = "down"
        => req[r].newest <= req[r].now - StaleGrace + Timeout
=============================================================================
