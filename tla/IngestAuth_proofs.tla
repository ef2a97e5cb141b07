-------------------------- MODULE IngestAuth_proofs --------------------------
(***************************************************************************)
(* Proofs about IngestAuth for every set of keys, projects and workers and *)
(* every CacheTTL, StaleGrace and Timeout.                                 *)
(***************************************************************************)
EXTENDS IngestAuth, TLAPS

InFlight(r) == req[r].pc \in {"decide", "lookup", "call", "answered"}

\* An entry says what the hub held at its fetched time or later.
EntryTrue(k, e) ==
    e # NoEntry => e.fetched <= clock /\ HeldSince(k, e.verdict, e.fetched)

\* An entry is at most one Timeout older than the newest stored answer.
EntryNew(e, newest) ==
    IF e = NoEntry THEN newest = Never ELSE e.fetched >= newest - Timeout

CacheInv ==
    \A k \in Keys : /\ EntryTrue(k, cache[k])
                    /\ EntryNew(cache[k], lastFill[k])
                    /\ lastFill[k] <= clock

FlightInv ==
    \A r \in Requests :
        InFlight(r) => /\ req[r].now <= clock
                       /\ clock - req[r].now <= Timeout
                       /\ req[r].pc \in {"call", "answered"} =>
                            /\ EntryTrue(req[r].key, req[r].seen)
                            /\ EntryNew(req[r].seen, req[r].newest)
                       /\ req[r].pc = "answered" =>
                            HeldSince(req[r].key, req[r].answer, req[r].now)

\* EnforcedVerdictRecent and GraceHonoured, with what keeps them true.
DoneInv ==
    \A r \in Requests :
        mode = "enforce" /\ req[r].pc = "done" =>
          /\ req[r].via \in {"hub", "cache", "stale"} =>
               /\ req[r].key \in Keys
               /\ OldestAllowed(req[r].via, req[r].now) <= clock
               /\ HeldSince(req[r].key,
                            IF req[r].tenant = NoTenant THEN Invalid ELSE req[r].tenant,
                            OldestAllowed(req[r].via, req[r].now))
          /\ req[r].via = "down" => req[r].newest <= req[r].now - StaleGrace + Timeout

IndInv == AuthTypeOK /\ CacheInv /\ FlightInv /\ DoneInv

-----------------------------------------------------------------------------
(* Type correctness.                                                       *)

RequestType ==
    [pc : {"idle", "decide", "lookup", "call", "answered", "done"},
     key : Keys \cup {NoKey}, claim : Projects \cup {NoTenant},
     now : 0..MaxClock, seen : Entries \cup {NoEntry},
     newest : Int, answer : Verdicts, via : Vias,
     counted : {0, 1}, tenant : Projects \cup {NoTenant}]

\* A worker's return writes a well-typed outcome (Authenticate's returns).
LEMMA ReturnType ==
    ASSUME AuthTypeOK, NEW r \in Requests, NEW via \in Vias,
           NEW counted \in {0, 1}, NEW tenant \in Projects \cup {NoTenant},
           Return(r, via, counted, tenant)
    PROVE  req' \in [Requests -> RequestType]
  <1>1. Invalid \in Verdicts /\ Never \in Int
    BY IngestAssumption DEF Verdicts, Never
  <1>2. req \in [Requests -> RequestType]
    BY DEF AuthTypeOK, RequestType
  <1>3. req[r] \in RequestType
    BY <1>2
  <1>4. ASSUME NEW n \in Int
        PROVE  [req[r] EXCEPT !.pc = "done", !.via = via, !.counted = counted,
                              !.tenant = tenant, !.seen = NoEntry,
                              !.answer = Invalid, !.newest = n] \in RequestType
    BY <1>1, <1>3 DEF RequestType
  <1>5. (IF via = "down" THEN req[r].newest ELSE Never) \in Int
    BY <1>1, <1>3 DEF RequestType
  <1> QED
    BY <1>2, <1>4, <1>5 DEF Return

\* Whatever Decide is given, the worker's record stays well-typed.
LEMMA DecideType ==
    ASSUME AuthTypeOK, NEW r \in Requests, NEW via \in Vias,
           NEW v \in Verdicts, Decide(r, via, v)
    PROVE  req' \in [Requests -> RequestType]
  <1>1. req[r].claim \in Projects \cup {NoTenant}
    BY DEF AuthTypeOK
  <1>2. CASE v = Invalid
    BY <1>1, <1>2, ReturnType DEF Decide, Deny, Accept, Stamped
  <1>3. CASE v # Invalid
    BY <1>1, <1>3, ReturnType DEF Decide, Accept, Stamped, Attached, Verdicts
  <1> QED
    BY <1>2, <1>3

\* The hub's table and its history stay well-typed when a row changes.
LEMMA SetTruthType ==
    ASSUME AuthTypeOK, NEW k \in Keys, NEW v \in Verdicts, SetTruth(k, v)
    PROVE  truth' \in [Keys -> Verdicts] /\ lastHeld' \in [Keys -> [Verdicts -> Int]]
  <1>1. clock \in Int /\ truth[k] \in Verdicts /\ lastHeld[k] \in [Verdicts -> Int]
    BY IngestAssumption DEF AuthTypeOK
  <1>2. [lastHeld[k] EXCEPT ![truth[k]] = clock] \in [Verdicts -> Int]
    BY <1>1
  <1> QED
    BY <1>1, <1>2 DEF SetTruth, AuthTypeOK

\* Every step keeps the types.
LEMMA TypeStep ==
    AuthTypeOK /\ [Next]_vars => AuthTypeOK'
  <1> SUFFICES ASSUME AuthTypeOK, [Next]_vars PROVE AuthTypeOK'
    OBVIOUS
  <1> USE DEF hubVars
  <1>0. req \in [Requests -> RequestType]
    BY DEF AuthTypeOK, RequestType
  <1>1. Invalid \in Verdicts /\ Never \in Int
    BY IngestAssumption DEF Verdicts, Never
  <1>2. ASSUME NEW k \in Keys, NEW p \in Projects, CreateIngestKey(k, p)
        PROVE  AuthTypeOK'
    <2>1. p \in Verdicts
      BY DEF Verdicts
    <2> QED
      BY <1>2, <2>1, SetTruthType DEF CreateIngestKey, AuthTypeOK
  <1>3. ASSUME NEW k \in Keys, NEW p \in Projects, EnsureIngestKey(k, p)
        PROVE  AuthTypeOK'
    <2>1. p \in Verdicts
      BY DEF Verdicts
    <2> QED
      BY <1>3, <2>1, SetTruthType DEF EnsureIngestKey, AuthTypeOK
  <1>4. ASSUME NEW k \in Keys, RevokeIngestKey(k)
        PROVE  AuthTypeOK'
    BY <1>1, <1>4, SetTruthType DEF RevokeIngestKey, AuthTypeOK
  <1>5. ASSUME NEW r \in Requests, WorkerStep(r)
        PROVE  AuthTypeOK'
    <2> SUFFICES /\ req' \in [Requests -> RequestType]
                 /\ cache' \in [Keys -> Entries \cup {NoEntry}]
                 /\ lastFill' \in [Keys -> Int]
                 /\ UNCHANGED <<clock, mode, hubVars>>
                 /\ \A q \in Requests \ {r} : req'[q] = req[q]
                 /\ req'[r].pc \in {"lookup", "call", "answered"} => req'[r].key \in Keys
      BY DEF AuthTypeOK, RequestType
    <2>0. req[r] \in RequestType
      BY <1>0
    <2>A. ASSUME NEW via \in Vias, NEW counted \in {0, 1},
                 NEW tenant \in Projects \cup {NoTenant},
                 Return(r, via, counted, tenant)
          PROVE  (\A q \in Requests \ {r} : req'[q] = req[q]) /\ req'[r].pc = "done"
      BY <1>0, <2>0, <2>A DEF Return, RequestType
    <2>B. ASSUME NEW via \in Vias, NEW v \in Verdicts, Decide(r, via, v)
          PROVE  (\A q \in Requests \ {r} : req'[q] = req[q]) /\ req'[r].pc = "done"
      <3>1. req[r].claim \in Projects \cup {NoTenant}
        BY <2>0 DEF RequestType
      <3>2. CASE v = Invalid
        BY <2>A, <2>B, <3>1, <3>2 DEF Decide, Deny, Accept, Stamped
      <3>3. CASE v # Invalid
        BY <2>A, <2>B, <3>1, <3>3 DEF Decide, Accept, Stamped, Attached, Verdicts
      <3> QED
        BY <3>2, <3>3
    <2>1. ASSUME NEW k \in Keys \cup {NoKey}, NEW claim \in Claims, Begin(r, k, claim)
          PROVE  /\ req' \in [Requests -> RequestType]
                 /\ \A q \in Requests \ {r} : req'[q] = req[q]
                 /\ req'[r].pc \in {"lookup", "call", "answered"} => req'[r].key \in Keys
      <3>1. IdleRequest \in RequestType
        BY <1>1, IngestAssumption DEF IdleRequest, RequestType, Vias
      <3>2. clock \in 0..MaxClock
        BY DEF AuthTypeOK
      <3>3. ASSUME NEW pc \in {"decide", "lookup"}
            PROVE  [IdleRequest EXCEPT !.pc = pc, !.key = k, !.claim = claim,
                                       !.now = clock] \in RequestType
        BY <3>1, <3>2, IngestAssumption DEF RequestType
      <3>4. PICK pc \in {"decide", "lookup"} :
              /\ pc = "lookup" => k \in Keys
              /\ req' = [req EXCEPT ![r] = [IdleRequest EXCEPT !.pc = pc, !.key = k,
                                              !.claim = claim, !.now = clock]]
        BY <2>1 DEF Begin
      <3> QED
        BY <1>0, <3>1, <3>3, <3>4 DEF RequestType
    <2>2. ASSUME AuthenticateUnkeyed(r)
          PROVE  /\ req' \in [Requests -> RequestType]
                 /\ (\A q \in Requests \ {r} : req'[q] = req[q]) /\ req'[r].pc = "done"
      <3>1. req[r].claim \in Projects \cup {NoTenant}
        BY <2>0 DEF RequestType
      <3> QED
        BY <2>2, <2>A, <3>1, ReturnType DEF AuthenticateUnkeyed, Accept, Deny, Stamped, Vias
    <2>3. ASSUME LookupFresh(r)
          PROVE  /\ req' \in [Requests -> RequestType]
                 /\ (\A q \in Requests \ {r} : req'[q] = req[q]) /\ req'[r].pc = "done"
      <3>1. cache[req[r].key].verdict \in Verdicts
        BY <2>3 DEF LookupFresh, Younger, AuthTypeOK, Entries
      <3> QED
        BY <2>3, <2>B, <3>1, DecideType DEF LookupFresh, Vias
    <2>4. ASSUME LookupMiss(r)
          PROVE  /\ req' \in [Requests -> RequestType]
                 /\ \A q \in Requests \ {r} : req'[q] = req[q]
                 /\ req'[r].key \in Keys
      <3>1. req[r].key \in Keys /\ lastFill[req[r].key] \in Int
            /\ cache[req[r].key] \in Entries \cup {NoEntry}
        BY <2>4 DEF LookupMiss, AuthTypeOK
      <3> QED
        BY <1>0, <2>0, <2>4, <3>1 DEF LookupMiss, RequestType
    <2>5. ASSUME HubAnswers(r)
          PROVE  /\ req' \in [Requests -> RequestType]
                 /\ \A q \in Requests \ {r} : req'[q] = req[q]
                 /\ req'[r].key \in Keys
      <3>1. req[r].key \in Keys /\ truth[req[r].key] \in Verdicts
        BY <2>5 DEF HubAnswers, AuthTypeOK
      <3> QED
        BY <1>0, <2>0, <2>5, <3>1 DEF HubAnswers, RequestType
    <2>6. ASSUME Fill(r)
          PROVE  /\ req' \in [Requests -> RequestType]
                 /\ (\A q \in Requests \ {r} : req'[q] = req[q]) /\ req'[r].pc = "done"
                 /\ cache' \in [Keys -> Entries \cup {NoEntry}]
                 /\ lastFill' \in [Keys -> Int]
      <3>1. req[r].answer \in Verdicts /\ req[r].now \in 0..MaxClock
        BY <2>0 DEF RequestType
      <3>2. [verdict |-> req[r].answer, fetched |-> req[r].now] \in Entries
        BY <3>1 DEF Entries
      <3>3. cache' \in [Keys -> Entries \cup {NoEntry}] /\ lastFill' \in [Keys -> Int]
        BY <2>6, <3>1, <3>2, IngestAssumption DEF Fill, AuthTypeOK
      <3> QED
        BY <2>6, <2>B, <3>1, <3>3, DecideType DEF Fill, Vias
    <2>7. ASSUME FallBackStale(r)
          PROVE  /\ req' \in [Requests -> RequestType]
                 /\ (\A q \in Requests \ {r} : req'[q] = req[q]) /\ req'[r].pc = "done"
      <3>1. req[r].seen.verdict \in Verdicts
        BY <2>0, <2>7 DEF FallBackStale, Younger, RequestType, Entries
      <3> QED
        BY <2>7, <2>B, <3>1, DecideType DEF FallBackStale, Vias
    <2>8. ASSUME FallBackDown(r)
          PROVE  /\ req' \in [Requests -> RequestType]
                 /\ (\A q \in Requests \ {r} : req'[q] = req[q]) /\ req'[r].pc = "done"
      <3>1. req[r].claim \in Projects \cup {NoTenant}
        BY <2>0 DEF RequestType
      <3> QED
        BY <2>8, <2>A, <3>1, ReturnType DEF FallBackDown, Accept, Deny, Stamped, Vias
    <2>9. UNCHANGED <<clock, mode, hubVars>> /\ (UNCHANGED <<cache, lastFill>> \/ Fill(r))
      BY <1>5 DEF WorkerStep, Begin, AuthenticateUnkeyed, LookupFresh, LookupMiss,
                  HubAnswers, Fill, FallBackStale, FallBackDown
    <2>10. cache \in [Keys -> Entries \cup {NoEntry}] /\ lastFill \in [Keys -> Int]
      BY DEF AuthTypeOK
    <2> QED
      BY <1>5, <2>1, <2>2, <2>3, <2>4, <2>5, <2>6, <2>7, <2>8, <2>9, <2>10 DEF WorkerStep
  <1>6. ASSUME Tick
        PROVE  AuthTypeOK'
    BY <1>6, IngestAssumption DEF Tick, AuthTypeOK
  <1>7. CASE UNCHANGED vars
    BY <1>7 DEF vars, AuthTypeOK
  <1> QED
    BY <1>2, <1>3, <1>4, <1>5, <1>6, <1>7 DEF Next, HubStep

\* The initial state is well-typed.
LEMMA InitType == Init => AuthTypeOK
    BY IngestAssumption DEF Init, AuthTypeOK, IdleRequest, Verdicts, Vias, Never

\* The variables and the workers' locals always have their types, whatever
\* the keys, projects, workers and age limits.
THEOREM TypeCorrect == Spec => []AuthTypeOK
  <1> QED
    BY InitType, TypeStep, PTL DEF Spec

-----------------------------------------------------------------------------
(* The age of verdicts.                                                    *)

\* What every step does to the clock, the mode and what the hub held: once
\* v held at time t or later, it always will have.
LEMMA HeldStable ==
    ASSUME AuthTypeOK, [Next]_vars
    PROVE  /\ clock' >= clock /\ mode' = mode
           /\ \A k \in Keys, v \in Verdicts, t \in Int :
                t <= clock /\ HeldSince(k, v, t) => HeldSince(k, v, t)'
  <1> USE DEF hubVars
  <1>1. ASSUME NEW k0 \in Keys, NEW v0 \in Verdicts, SetTruth(k0, v0)
        PROVE  \A k \in Keys, v \in Verdicts, t \in Int :
                 t <= clock /\ HeldSince(k, v, t) => HeldSince(k, v, t)'
    <2> SUFFICES ASSUME NEW k \in Keys, NEW v \in Verdicts, NEW t \in Int,
                        t <= clock, HeldSince(k, v, t)
                 PROVE  truth'[k] = v \/ lastHeld'[k][v] >= t
      BY DEF HeldSince
    <2>1. /\ truth \in [Keys -> Verdicts]
          /\ lastHeld \in [Keys -> [Verdicts -> Int]] /\ clock \in Int
      BY IngestAssumption DEF AuthTypeOK
    <2>2. CASE k # k0
      BY <1>1, <2>1, <2>2 DEF SetTruth, HeldSince
    <2>3. CASE k = k0 /\ truth[k] = v
      BY <1>1, <2>1, <2>3 DEF SetTruth
    <2>4. CASE k = k0 /\ truth[k] # v
      BY <1>1, <2>1, <2>4 DEF SetTruth, HeldSince
    <2> QED
      BY <2>2, <2>3, <2>4
  <1>2. clock \in Int
    BY IngestAssumption DEF AuthTypeOK
  <1>3. CASE HubStep
    <2>1. PICK k0 \in Keys, v0 \in Verdicts : SetTruth(k0, v0) /\ UNCHANGED <<clock, mode>>
      BY <1>3, IngestAssumption
      DEF HubStep, CreateIngestKey, EnsureIngestKey, RevokeIngestKey, Verdicts
    <2> QED
      BY <1>1, <1>2, <2>1
  <1>4. CASE ~HubStep
    <2>1. ASSUME NEW r \in Requests, WorkerStep(r)
          PROVE  UNCHANGED <<truth, lastHeld, mode, clock>>
      BY <2>1
      DEF WorkerStep, Begin, AuthenticateUnkeyed, LookupFresh, LookupMiss,
          HubAnswers, Fill, FallBackStale, FallBackDown
    <2>2. Tick \/ UNCHANGED vars => UNCHANGED <<truth, lastHeld, mode>> /\ clock' >= clock
      BY <1>2 DEF Tick, vars
    <2>3. UNCHANGED <<truth, lastHeld, mode>> /\ clock' >= clock
      BY <1>2, <1>4, <2>1, <2>2 DEF Next
    <2> QED
      BY <2>3 DEF HeldSince
  <1> QED
    BY <1>3, <1>4

\* What a returning worker leaves in its record.
LEMMA ReturnFields ==
    ASSUME AuthTypeOK, NEW r \in Requests, NEW via, NEW counted, NEW tenant,
           Return(r, via, counted, tenant)
    PROVE  /\ \A q \in Requests \ {r} : req'[q] = req[q]
           /\ req'[r].pc = "done" /\ req'[r].via = via /\ req'[r].tenant = tenant
           /\ req'[r].key = req[r].key /\ req'[r].now = req[r].now
           /\ via = "down" => req'[r].newest = req[r].newest
  <1>1. req \in [Requests -> RequestType]
    BY DEF AuthTypeOK, RequestType
  <1>2. req[r] \in RequestType
    BY <1>1
  <1> QED
    BY <1>1, <1>2 DEF Return, RequestType

\* In enforce mode the tenant a worker leaves tells the verdict it got.
LEMMA DecideFields ==
    ASSUME AuthTypeOK, NEW r \in Requests, NEW via, NEW v \in Verdicts,
           Decide(r, via, v)
    PROVE  /\ \A q \in Requests \ {r} : req'[q] = req[q]
           /\ req'[r].pc = "done" /\ req'[r].via = via
           /\ req'[r].key = req[r].key /\ req'[r].now = req[r].now
           /\ mode = "enforce" =>
                (IF req'[r].tenant = NoTenant THEN Invalid ELSE req'[r].tenant) = v
  <1>1. CASE v = Invalid
    BY <1>1, ReturnFields DEF Decide, Deny, Accept
  <1>2. CASE v # Invalid
    <2>1. v \in Projects /\ v # NoTenant
      BY <1>2, IngestAssumption DEF Verdicts
    <2> QED
      BY <1>2, <2>1, ReturnFields DEF Decide, Accept, Stamped, Attached
  <1> QED
    BY <1>1, <1>2

\* A worker's step changes its own record only, and returns only as its
\* action says.
LEMMA OtherWorkers ==
    ASSUME AuthTypeOK, NEW r \in Requests, WorkerStep(r)
    PROVE  /\ \A q \in Requests \ {r} : req'[q] = req[q]
           /\ clock' = clock
  <1>0. req \in [Requests -> RequestType]
    BY DEF AuthTypeOK, RequestType
  <1>1. CASE LookupFresh(r) \/ Fill(r) \/ FallBackStale(r) \/ FallBackDown(r)
             \/ AuthenticateUnkeyed(r)
    <2>1. \A via, v : Decide(r, via, v) => \A q \in Requests \ {r} : req'[q] = req[q]
      BY ReturnFields DEF Decide, Deny, Accept
    <2> QED
      BY <1>1, <2>1, ReturnFields
      DEF LookupFresh, Fill, FallBackStale, FallBackDown, AuthenticateUnkeyed, Deny, Accept
  <1>2. CASE LookupMiss(r) \/ HubAnswers(r)
             \/ \E k \in Keys \cup {NoKey}, claim \in Claims : Begin(r, k, claim)
    BY <1>0, <1>2 DEF LookupMiss, HubAnswers, Begin
  <1> QED
    BY <1>1, <1>2 DEF WorkerStep

\* An entry that was true stays true, and the clock only moves on.
LEMMA EntryStable ==
    ASSUME AuthTypeOK, [Next]_vars, NEW k \in Keys, NEW e \in Entries \cup {NoEntry},
           EntryTrue(k, e)
    PROVE  EntryTrue(k, e)'
  <1>1. e # NoEntry => e.verdict \in Verdicts /\ e.fetched \in Int
    BY IngestAssumption DEF Entries
  <1>2. clock \in Int /\ clock' \in Int
    BY TypeStep, IngestAssumption DEF AuthTypeOK
  <1> QED
    BY <1>1, <1>2, HeldStable DEF EntryTrue

\* The cache only ever holds what the hub said, under a time at which or
\* after which it was so: Fill keeps the time the request started.
LEMMA CacheStep ==
    ASSUME IndInv, [Next]_vars
    PROVE  CacheInv'
  <1>0. AuthTypeOK /\ CacheInv /\ FlightInv /\ AuthTypeOK'
    BY TypeStep DEF IndInv
  <1>1. clock \in Int /\ clock' \in Int /\ clock' >= clock /\ Timeout \in Nat
        /\ cache \in [Keys -> Entries \cup {NoEntry}] /\ lastFill \in [Keys -> Int]
    BY <1>0, HeldStable, IngestAssumption DEF AuthTypeOK
  <1>2. CASE UNCHANGED <<cache, lastFill>>
    BY <1>0, <1>1, <1>2, EntryStable DEF CacheInv, EntryNew
  <1>3. ASSUME NEW r \in Requests, Fill(r)
        PROVE  CacheInv'
    <2>0. req[r].key \in Keys /\ req[r].answer \in Verdicts
          /\ req[r].now \in 0..MaxClock
      BY <1>0, <1>3 DEF Fill, AuthTypeOK
    <2>1. PICK k0 \in Keys, e0 \in Entries :
            k0 = req[r].key /\ e0 = [verdict |-> req[r].answer, fetched |-> req[r].now]
      BY <2>0 DEF Entries
    <2>2. req[r].now <= clock /\ clock - req[r].now <= Timeout
          /\ HeldSince(k0, req[r].answer, req[r].now)
      BY <1>0, <1>3, <2>1 DEF Fill, FlightInv, InFlight
    <2>3. EntryTrue(k0, e0)'
      <3>1. EntryTrue(k0, e0)
        BY <2>1, <2>2 DEF EntryTrue
      <3> QED
        BY <1>0, <3>1, EntryStable
    <2>4. cache' = [cache EXCEPT ![k0] = e0]
          /\ lastFill' = [lastFill EXCEPT ![k0] = IF req[r].now > lastFill[k0]
                                                   THEN req[r].now ELSE lastFill[k0]]
      BY <1>3, <2>1 DEF Fill
    <2>5. lastFill[k0] <= clock
      BY <1>0, <2>1 DEF CacheInv
    <2>6. ASSUME NEW k \in Keys
          PROVE  EntryTrue(k, cache[k])' /\ EntryNew(cache[k], lastFill[k])'
                 /\ (lastFill[k] <= clock)'
      <3>1. CASE k = k0
        <4>1. cache'[k] = e0 /\ e0.fetched = req[r].now
              /\ lastFill'[k] \in {req[r].now, lastFill[k]}
          BY <1>1, <2>1, <2>4, <3>1
        <4>2. req[r].now >= lastFill'[k] - Timeout /\ lastFill'[k] <= clock'
          BY <1>1, <2>0, <2>2, <2>5, <3>1, <4>1
        <4> QED
          BY <2>3, <3>1, <4>1, <4>2, IngestAssumption DEF EntryNew, EntryTrue, HeldSince
      <3>2. CASE k # k0
        <4>1. cache'[k] = cache[k] /\ lastFill'[k] = lastFill[k]
          BY <1>1, <2>4, <3>2
        <4>2. EntryTrue(k, cache[k]) /\ EntryNew(cache[k], lastFill[k]) /\ lastFill[k] <= clock
          BY <1>0 DEF CacheInv
        <4>3. \A e \in Entries \cup {NoEntry} : EntryTrue(k, e) => EntryTrue(k, e)'
          BY <1>0, EntryStable
        <4> QED
          BY <1>1, <4>1, <4>2, <4>3 DEF EntryNew, EntryTrue, HeldSince
      <3> QED
        BY <3>1, <3>2
    <2> QED
      BY <2>6 DEF CacheInv
  <1>4. UNCHANGED <<cache, lastFill>> \/ \E r \in Requests : Fill(r)
    <2>1. ASSUME NEW r \in Requests, WorkerStep(r)
          PROVE  UNCHANGED <<cache, lastFill>> \/ Fill(r)
      BY <2>1 DEF WorkerStep, Begin, AuthenticateUnkeyed, LookupFresh, LookupMiss,
                  HubAnswers, Fill, FallBackStale, FallBackDown
    <2>2. HubStep \/ Tick \/ UNCHANGED vars => UNCHANGED <<cache, lastFill>>
      BY DEF HubStep, CreateIngestKey, EnsureIngestKey, RevokeIngestKey, Tick, vars
    <2> QED
      BY <2>1, <2>2 DEF Next
  <1> QED
    BY <1>2, <1>3, <1>4

\* What FlightInv and DoneInv say of one request.
FlightOf(r) ==
    InFlight(r) => /\ req[r].now <= clock
                   /\ clock - req[r].now <= Timeout
                   /\ req[r].pc \in {"call", "answered"} =>
                        /\ EntryTrue(req[r].key, req[r].seen)
                        /\ EntryNew(req[r].seen, req[r].newest)
                   /\ req[r].pc = "answered" =>
                        HeldSince(req[r].key, req[r].answer, req[r].now)

\* A request whose record did not change keeps its invariant: what it read
\* stays true, and only Tick moves the clock.
LEMMA FlightStutter ==
    ASSUME IndInv, [Next]_vars, NEW r \in Requests, req'[r] = req[r]
    PROVE  FlightOf(r)'
  <1>0. AuthTypeOK /\ AuthTypeOK' /\ FlightOf(r)
    BY TypeStep DEF IndInv, FlightInv, FlightOf
  <1>1. clock \in Int /\ clock' \in Int /\ clock' >= clock /\ Timeout \in Nat
        /\ req[r].now \in 0..MaxClock /\ MaxClock \in Nat
    BY <1>0, HeldStable, IngestAssumption DEF AuthTypeOK
  <1> SUFFICES ASSUME InFlight(r)
               PROVE  FlightOf(r)'
    BY DEF FlightOf, InFlight
  <1>2. clock' - req[r].now <= Timeout
    <2>1. CASE Tick
      BY <1>0, <1>1, <2>1 DEF Tick, FlightOf, InFlight
    <2>2. CASE ~Tick
      <3>1. clock' = clock
        <4>1. HubStep \/ UNCHANGED vars => clock' = clock
          BY DEF HubStep, CreateIngestKey, EnsureIngestKey, RevokeIngestKey, vars
        <4> QED
          BY <1>0, <2>2, <4>1, OtherWorkers DEF Next
      <3> QED
        BY <1>0, <3>1 DEF FlightOf
    <2> QED
      BY <2>1, <2>2
  <1>3. req[r].pc \in {"call", "answered"} =>
          EntryTrue(req[r].key, req[r].seen)' /\ EntryNew(req[r].seen, req[r].newest)'
    <2> SUFFICES ASSUME req[r].pc \in {"call", "answered"}
                 PROVE  EntryTrue(req[r].key, req[r].seen)' /\ EntryNew(req[r].seen, req[r].newest)'
      OBVIOUS
    <2>1. req[r].key \in Keys /\ req[r].seen \in Entries \cup {NoEntry}
      BY <1>0 DEF AuthTypeOK
    <2>2. PICK k \in Keys, e \in Entries \cup {NoEntry} : k = req[r].key /\ e = req[r].seen
      BY <2>1
    <2>3. EntryTrue(k, e)'
      BY <1>0, <2>2, EntryStable DEF FlightOf
    <2> QED
      BY <1>0, <2>2, <2>3 DEF FlightOf, EntryTrue, EntryNew, HeldSince
  <1>4. req[r].pc = "answered" => HeldSince(req[r].key, req[r].answer, req[r].now)'
    <2> SUFFICES ASSUME req[r].pc = "answered"
                 PROVE  HeldSince(req[r].key, req[r].answer, req[r].now)'
      OBVIOUS
    <2>1. req[r].key \in Keys /\ req[r].answer \in Verdicts /\ req[r].now \in Int
      BY <1>0, <1>1 DEF AuthTypeOK
    <2>2. PICK k \in Keys, v \in Verdicts, t \in Int :
            k = req[r].key /\ v = req[r].answer /\ t = req[r].now
      BY <2>1
    <2>3. HeldSince(k, v, t)'
      BY <1>0, <2>2, HeldStable DEF FlightOf
    <2> QED
      BY <2>2, <2>3 DEF HeldSince
  <1>5. req'[r].now <= clock'
    BY <1>0, <1>1 DEF FlightOf
  <1> QED
    BY <1>2, <1>3, <1>4, <1>5 DEF FlightOf, InFlight

\* The time a request read, the entry it looked up and the answer it holds
\* stay what they were from lookup to return.
LEMMA FlightStep ==
    ASSUME IndInv, [Next]_vars
    PROVE  FlightInv'
  <1> SUFFICES ASSUME NEW q \in Requests PROVE FlightOf(q)'
    BY DEF FlightInv, FlightOf
  <1>0. AuthTypeOK /\ CacheInv /\ FlightInv /\ AuthTypeOK'
    BY TypeStep DEF IndInv
  <1>a. req \in [Requests -> RequestType]
    BY <1>0 DEF AuthTypeOK, RequestType
  <1>1. CASE req'[q] = req[q]
    BY <1>1, FlightStutter
  <1>2. CASE req'[q].pc = "done"
    BY <1>2 DEF FlightOf, InFlight
  <1>3. CASE /\ WorkerStep(q)
             /\ \E k \in Keys \cup {NoKey}, claim \in Claims : Begin(q, k, claim)
    <2>1. IdleRequest.pc = "idle" /\ req'[q].now = clock /\ clock' = clock
          /\ req'[q].pc \in {"decide", "lookup"}
      BY <1>3, <1>a DEF Begin, IdleRequest
    <2> QED
      BY <1>0, <2>1, IngestAssumption DEF FlightOf, InFlight, AuthTypeOK
  <1>4. CASE LookupMiss(q)
    <2>1. PICK k \in Keys : k = req[q].key
      BY <1>0, <1>4 DEF LookupMiss, AuthTypeOK
    <2>2. /\ req'[q].pc = "call" /\ req'[q].key = k /\ req'[q].seen = cache[k]
          /\ req'[q].newest = lastFill[k] /\ req'[q].now = req[q].now
          /\ UNCHANGED <<clock, truth, lastHeld>>
      BY <1>4, <1>a, <2>1 DEF LookupMiss, RequestType, hubVars
    <2>3. FlightOf(q) /\ req[q].pc = "lookup"
      BY <1>0, <1>4 DEF FlightInv, FlightOf, LookupMiss
    <2> QED
      BY <1>0, <2>1, <2>2, <2>3 DEF CacheInv, FlightOf, InFlight, EntryTrue, EntryNew, HeldSince
  <1>5. CASE HubAnswers(q)
    <2>1. PICK k \in Keys : k = req[q].key
      BY <1>0, <1>5 DEF HubAnswers, AuthTypeOK
    <2>2. /\ req'[q].pc = "answered" /\ req'[q].key = k /\ req'[q].seen = req[q].seen
          /\ req'[q].newest = req[q].newest /\ req'[q].now = req[q].now
          /\ req'[q].answer = truth[k]
          /\ UNCHANGED <<clock, truth, lastHeld>>
      BY <1>5, <1>a, <2>1 DEF HubAnswers, RequestType, hubVars
    <2>3. FlightOf(q) /\ req[q].pc = "call"
      BY <1>0, <1>5 DEF FlightInv, FlightOf, HubAnswers
    <2> QED
      BY <2>1, <2>2, <2>3 DEF FlightOf, InFlight, EntryTrue, EntryNew, HeldSince
  <1>6. ASSUME WorkerStep(q), ~LookupMiss(q), ~HubAnswers(q),
               ~ \E k \in Keys \cup {NoKey}, claim \in Claims : Begin(q, k, claim)
        PROVE  req'[q].pc = "done"
    <2>1. \A via, v : Decide(q, via, v) => req'[q].pc = "done"
      BY <1>0, ReturnFields DEF Decide, Deny, Accept
    <2> QED
      BY <1>0, <1>6, <2>1, ReturnFields
      DEF WorkerStep, LookupFresh, Fill, FallBackStale, FallBackDown, AuthenticateUnkeyed,
          Deny, Accept
  <1>7. req'[q] = req[q] \/ WorkerStep(q)
    <2>1. HubStep \/ Tick \/ UNCHANGED vars => req' = req
      BY DEF HubStep, CreateIngestKey, EnsureIngestKey, RevokeIngestKey, Tick, vars
    <2> QED
      BY <1>0, <2>1, OtherWorkers DEF Next
  <1> QED
    BY <1>1, <1>2, <1>3, <1>4, <1>5, <1>6, <1>7

DoneOf(r) ==
    mode = "enforce" /\ req[r].pc = "done" =>
      /\ req[r].via \in {"hub", "cache", "stale"} =>
           /\ req[r].key \in Keys
           /\ OldestAllowed(req[r].via, req[r].now) <= clock
           /\ HeldSince(req[r].key,
                        IF req[r].tenant = NoTenant THEN Invalid ELSE req[r].tenant,
                        OldestAllowed(req[r].via, req[r].now))
      /\ req[r].via = "down" => req[r].newest <= req[r].now - StaleGrace + Timeout

\* A request that returned with verdict v, which held at time t or later,
\* where t is recent enough for how v was obtained.
LEMMA DoneBy ==
    ASSUME IndInv, [Next]_vars, NEW q \in Requests, NEW v \in Verdicts, NEW t \in Int,
           NEW via \in {"hub", "cache", "stale"},
           req[q].key \in Keys, Decide(q, via, v), HeldSince(req[q].key, v, t), t <= clock,
           OldestAllowed(via, req[q].now) <= t
    PROVE  DoneOf(q)'
  <1>0. AuthTypeOK /\ AuthTypeOK'
    BY TypeStep DEF IndInv
  <1>1. clock \in Int /\ clock' \in Int /\ clock' >= clock /\ mode' = mode
        /\ req[q].now \in Int /\ OldestAllowed(via, req[q].now) \in Int
    BY <1>0, HeldStable, IngestAssumption DEF AuthTypeOK, OldestAllowed
  <1>2. PICK k \in Keys : k = req[q].key
    OBVIOUS
  <1>3. HeldSince(k, v, t)'
    BY <1>0, <1>2, HeldStable
  <1>4. /\ req'[q].pc = "done" /\ req'[q].via = via
        /\ req'[q].key = k /\ req'[q].now = req[q].now
        /\ mode = "enforce" =>
             (IF req'[q].tenant = NoTenant THEN Invalid ELSE req'[q].tenant) = v
    BY <1>0, <1>2, DecideFields
  <1>5. lastHeld'[k][v] \in Int
    BY <1>0 DEF AuthTypeOK
  <1>6. \A o \in Int : o <= t => truth'[k] = v \/ lastHeld'[k][v] >= o
    BY <1>3, <1>5 DEF HeldSince
  <1>7. OldestAllowed(via, req[q].now)' = OldestAllowed(via, req[q].now)
    BY <1>4 DEF OldestAllowed
  <1> QED
    BY <1>1, <1>4, <1>6, <1>7 DEF DoneOf, HeldSince, OldestAllowed

\* Outcomes stay justified, and every way to return justifies its outcome.
LEMMA DoneStep ==
    ASSUME IndInv, [Next]_vars
    PROVE  DoneInv'
  <1> SUFFICES ASSUME NEW q \in Requests PROVE DoneOf(q)'
    BY DEF DoneInv, DoneOf
  <1>0. AuthTypeOK /\ CacheInv /\ FlightInv /\ DoneInv /\ AuthTypeOK'
    BY TypeStep DEF IndInv
  <1>a. req \in [Requests -> RequestType]
    BY <1>0 DEF AuthTypeOK, RequestType
  <1>b. req[q].now \in 0..MaxClock /\ MaxClock \in Nat /\ CacheTTL \in Nat
        /\ StaleGrace \in Nat /\ Timeout \in Nat /\ clock \in Int /\ clock' \in Int
        /\ clock' >= clock /\ mode' = mode
    BY <1>0, HeldStable, IngestAssumption DEF AuthTypeOK
  <1>1. CASE req'[q] = req[q]
    <2> SUFFICES ASSUME mode = "enforce", req[q].pc = "done" PROVE DoneOf(q)'
      BY <1>1, <1>b DEF DoneOf
    <2>0. DoneOf(q)
      BY <1>0 DEF DoneInv, DoneOf
    <2>1. CASE req[q].via \in {"hub", "cache", "stale"}
      <3>0. req[q].tenant \in Projects \cup {NoTenant}
        BY <1>0 DEF AuthTypeOK
      <3>1. PICK k \in Keys, v \in Verdicts, t \in Int :
              /\ k = req[q].key /\ t = OldestAllowed(req[q].via, req[q].now)
              /\ v = IF req[q].tenant = NoTenant THEN Invalid ELSE req[q].tenant
        BY <1>b, <2>0, <2>1, <3>0 DEF OldestAllowed, DoneOf, Verdicts
      <3>2. t <= clock /\ HeldSince(k, v, t)
        BY <2>0, <2>1, <3>1 DEF DoneOf
      <3>3. HeldSince(k, v, t)'
        BY <1>0, <3>2, HeldStable
      <3>4. OldestAllowed(req[q].via, req[q].now)' = t
        BY <1>1, <2>1, <3>1 DEF OldestAllowed
      <3> QED
        BY <1>1, <1>b, <2>1, <3>1, <3>2, <3>3, <3>4 DEF DoneOf, HeldSince
    <2>2. CASE req[q].via \notin {"hub", "cache", "stale"}
      BY <1>1, <1>b, <2>0, <2>2 DEF DoneOf
    <2> QED
      BY <2>1, <2>2
  <1>2. CASE LookupFresh(q)
    <2>1. PICK k \in Keys : k = req[q].key
      BY <1>0, <1>2 DEF LookupFresh, AuthTypeOK
    <2>2. cache[k] \in Entries /\ cache[k].verdict \in Verdicts /\ cache[k].fetched \in Int
          /\ cache[k] # NoEntry
      BY <1>0, <1>2, <2>1, IngestAssumption DEF LookupFresh, Younger, AuthTypeOK, Entries
    <2>3. cache[k].fetched <= clock /\ HeldSince(k, cache[k].verdict, cache[k].fetched)
      BY <1>0, <2>2 DEF CacheInv, EntryTrue
    <2>4. OldestAllowed("cache", req[q].now) <= cache[k].fetched
      BY <1>2, <1>b, <2>1, <2>2 DEF LookupFresh, Younger, OldestAllowed
    <2>5. Decide(q, "cache", cache[k].verdict)
      BY <1>2, <2>1 DEF LookupFresh
    <2> QED
      BY <2>1, <2>2, <2>3, <2>4, <2>5, DoneBy
  <1>3. CASE Fill(q)
    <2>1. req[q].key \in Keys /\ req[q].answer \in Verdicts
      BY <1>0, <1>3 DEF Fill, AuthTypeOK
    <2>2. req[q].now <= clock /\ HeldSince(req[q].key, req[q].answer, req[q].now)
      BY <1>0, <1>3 DEF Fill, FlightInv, InFlight
    <2>3. OldestAllowed("hub", req[q].now) <= req[q].now
      BY <1>b DEF OldestAllowed
    <2> QED
      BY <1>3, <1>b, <2>1, <2>2, <2>3, DoneBy DEF Fill
  <1>4. CASE FallBackStale(q)
    <2>1. req[q].key \in Keys /\ req[q].seen # NoEntry /\ req[q].seen \in Entries
          /\ req[q].now - req[q].seen.fetched < StaleGrace
      BY <1>0, <1>4 DEF FallBackStale, Younger, AuthTypeOK
    <2>2. req[q].seen.verdict \in Verdicts /\ req[q].seen.fetched \in Int
      BY <2>1, <1>b DEF Entries
    <2>3. req[q].seen.fetched <= clock
          /\ HeldSince(req[q].key, req[q].seen.verdict, req[q].seen.fetched)
      BY <1>0, <1>4, <2>1 DEF FallBackStale, FlightInv, InFlight, EntryTrue
    <2>4. OldestAllowed("stale", req[q].now) <= req[q].seen.fetched
      BY <1>b, <2>1, <2>2 DEF OldestAllowed
    <2> QED
      BY <1>4, <2>1, <2>2, <2>3, <2>4, DoneBy DEF FallBackStale
  <1>5. CASE FallBackDown(q)
    <2> SUFFICES ASSUME mode = "enforce" PROVE DoneOf(q)'
      BY <1>b DEF DoneOf
    <2>1. /\ req'[q].via = "down" /\ req'[q].newest = req[q].newest
          /\ req'[q].now = req[q].now
      BY <1>0, <1>5, ReturnFields DEF FallBackDown, Deny
    <2>2. EntryNew(req[q].seen, req[q].newest) /\ ~Younger(req[q].seen, req[q].now, StaleGrace)
      BY <1>0, <1>5 DEF FallBackDown, FlightInv, InFlight
    <2>3. req[q].newest \in Int /\ req[q].seen \in Entries \cup {NoEntry}
      BY <1>0 DEF AuthTypeOK
    <2>4. req[q].newest <= req[q].now - StaleGrace + Timeout
      <3>1. CASE req[q].seen = NoEntry
        BY <1>b, <2>2, <3>1 DEF EntryNew, Never
      <3>2. CASE req[q].seen # NoEntry
        <4>1. req[q].seen.fetched \in Int
          BY <1>b, <2>3, <3>2 DEF Entries
        <4> QED
          BY <1>b, <2>2, <2>3, <3>2, <4>1 DEF EntryNew, Younger
      <3> QED
        BY <3>1, <3>2
    <2> QED
      BY <2>1, <2>4 DEF DoneOf
  <1>6. CASE AuthenticateUnkeyed(q)
    <2>1. req'[q].via \in {"unchecked", "nokey"}
      BY <1>0, <1>6, ReturnFields DEF AuthenticateUnkeyed, Deny, Accept
    <2> QED
      BY <2>1 DEF DoneOf
  <1>7. CASE LookupMiss(q) \/ HubAnswers(q)
             \/ \E k \in Keys \cup {NoKey}, claim \in Claims : Begin(q, k, claim)
    <2>1. req'[q].pc # "done"
      <3>1. LookupMiss(q) \/ HubAnswers(q) => req'[q].pc \in {"call", "answered"}
        BY <1>a DEF LookupMiss, HubAnswers, RequestType
      <3>2. ASSUME NEW k, NEW claim, Begin(q, k, claim)
            PROVE  req'[q].pc \in {"decide", "lookup"}
        BY <1>a, <3>2 DEF Begin, IdleRequest
      <3> QED
        BY <1>7, <3>1, <3>2
    <2> QED
      BY <2>1 DEF DoneOf
  <1>8. req'[q] = req[q] \/ WorkerStep(q)
    <2>1. HubStep \/ Tick \/ UNCHANGED vars => req' = req
      BY DEF HubStep, CreateIngestKey, EnsureIngestKey, RevokeIngestKey, Tick, vars
    <2> QED
      BY <1>0, <2>1, OtherWorkers DEF Next
  <1> QED
    BY <1>1, <1>2, <1>3, <1>4, <1>5, <1>6, <1>7, <1>8 DEF WorkerStep

\* The inductive invariant: cache, requests in flight and outcomes together.
THEOREM IndInvHolds == Spec => []IndInv
  <1>1. Init => IndInv
    <2> SUFFICES ASSUME Init PROVE IndInv
      OBVIOUS
    <2>1. AuthTypeOK
      BY InitType
    <2>2. CacheInv
      <3>1. \A k \in Keys : cache[k] = NoEntry /\ lastFill[k] = Never /\ clock = 0
        BY DEF Init
      <3>2. Never <= 0
        BY IngestAssumption DEF Never
      <3> QED
        BY <3>1, <3>2 DEF CacheInv, EntryTrue, EntryNew
    <2>3. FlightInv /\ DoneInv
      BY DEF Init, FlightInv, DoneInv, InFlight, IdleRequest
    <2> QED
      BY <2>1, <2>2, <2>3 DEF IndInv
  <1>2. IndInv /\ [Next]_vars => IndInv'
    BY TypeStep, CacheStep, FlightStep, DoneStep DEF IndInv
  <1> QED
    BY <1>1, <1>2, PTL DEF Spec

\* For every CacheTTL, StaleGrace, Timeout and any number of concurrent
\* workers, enforce mode never acts on a verdict older than its age limit.
THEOREM VerdictsAreRecent == Spec => []EnforcedVerdictRecent
  <1>1. IndInv => EnforcedVerdictRecent
    BY DEF IndInv, DoneInv, EnforcedVerdictRecent
  <1> QED
    BY <1>1, IndInvHolds, PTL

\* For every setting, a request is turned away as unavailable only when its
\* key has no stored answer from the last StaleGrace - Timeout.
THEOREM GraceIsHonoured == Spec => []GraceHonoured
  <1>1. IndInv => GraceHonoured
    BY DEF IndInv, DoneInv, GraceHonoured
  <1> QED
    BY <1>1, IndInvHolds, PTL

-----------------------------------------------------------------------------
(* Off and log mode.                                                       *)

\* Outside enforce mode a worker returns with the tenant its payload claims.
LEMMA AcceptsClaim ==
    ASSUME AuthTypeOK, NEW r \in Requests, NEW via, mode # "enforce",
           \/ \E v \in Verdicts : Decide(r, via, v)
           \/ Deny(r, via)
           \/ Accept(r, via, NoTenant, 0)
    PROVE  req'[r].tenant = req[r].claim /\ req'[r].claim = req[r].claim
  <1>1. PICK counted : Return(r, via, counted, req[r].claim)
    BY DEF Decide, Deny, Accept, Stamped, Attached
  <1>2. req \in [Requests -> RequestType] /\ req[r] \in RequestType
    BY DEF AuthTypeOK, RequestType
  <1> QED
    BY <1>1, <1>2 DEF Return, RequestType

\* A drop-in gateway changes nothing: for any keys, workers and hub outages,
\* off and log mode store every payload under the tenant it claims.
THEOREM DropInIsSafe == Spec => []DropInSafe
  <1>1. Init => DropInSafe
    BY DEF Init, DropInSafe, IdleRequest
  <1>2. AuthTypeOK /\ DropInSafe /\ [Next]_vars => DropInSafe'
    <2> SUFFICES ASSUME AuthTypeOK, DropInSafe, [Next]_vars, NEW q \in Requests,
                        mode' # "enforce", req'[q].pc = "done"
                 PROVE  req'[q].tenant = req'[q].claim
      BY DEF DropInSafe
    <2>0. req \in [Requests -> RequestType] /\ mode' = mode
      BY HeldStable DEF AuthTypeOK, RequestType
    <2>1. CASE req'[q] = req[q]
      BY <2>0, <2>1 DEF DropInSafe
    <2>2. CASE LookupFresh(q)
      <3>1. cache[req[q].key].verdict \in Verdicts
        BY <2>2 DEF LookupFresh, Younger, AuthTypeOK, Entries
      <3> QED
        BY <2>0, <2>2, <3>1, AcceptsClaim DEF LookupFresh
    <2>3. CASE Fill(q)
      <3>1. req[q].answer \in Verdicts
        BY DEF AuthTypeOK
      <3> QED
        BY <2>0, <2>3, <3>1, AcceptsClaim DEF Fill
    <2>4. CASE FallBackStale(q)
      <3>1. req[q].seen.verdict \in Verdicts
        BY <2>4 DEF FallBackStale, Younger, AuthTypeOK, Entries
      <3> QED
        BY <2>0, <2>4, <3>1, AcceptsClaim DEF FallBackStale
    <2>5. CASE FallBackDown(q) \/ AuthenticateUnkeyed(q)
      BY <2>0, <2>5, AcceptsClaim DEF FallBackDown, AuthenticateUnkeyed
    <2>6. CASE LookupMiss(q) \/ HubAnswers(q)
               \/ \E k \in Keys \cup {NoKey}, claim \in Claims : Begin(q, k, claim)
      <3>1. LookupMiss(q) \/ HubAnswers(q) => req'[q].pc \in {"call", "answered"}
        BY <2>0 DEF LookupMiss, HubAnswers, RequestType
      <3>2. ASSUME NEW k, NEW claim, Begin(q, k, claim)
            PROVE  req'[q].pc \in {"decide", "lookup"}
        BY <2>0, <3>2 DEF Begin, IdleRequest
      <3> QED
        BY <2>6, <3>1, <3>2
    <2>7. req'[q] = req[q] \/ WorkerStep(q)
      <3>1. HubStep \/ Tick \/ UNCHANGED vars => req' = req
        BY DEF HubStep, CreateIngestKey, EnsureIngestKey, RevokeIngestKey, Tick, vars
      <3> QED
        BY <3>1, OtherWorkers DEF Next
    <2> QED
      BY <2>1, <2>2, <2>3, <2>4, <2>5, <2>6, <2>7 DEF WorkerStep
  <1> QED
    BY <1>1, <1>2, TypeCorrect, PTL DEF Spec

=============================================================================
