-------------------------- MODULE SchemaMigrate_proofs --------------------------
(***************************************************************************)
(* Proofs about SchemaMigrate for any number of hubs, Jobs and migrations. *)
(***************************************************************************)
EXTENDS SchemaMigrate, WellFoundedInduction, TLAPS

\* A set of versions has one that no other comes before.
LEMMA MinimalVersion ==
    ASSUME NEW S, S \subseteq Nat, S # {}
    PROVE  \E x \in S : \A y \in S : ~ (y < x)
<1> DEFINE R == OpToRel(<, Nat)
<1>1. IsWellFoundedOn(R, Nat) BY NatLessThanWellFounded
<1> HIDE DEF R
<1>2. PICK x \in S : \A y \in S : ~ (<<y, x>> \in R) BY <1>1, WFMin
<1>3. \A y \in S : <<y, x>> \in R <=> y < x BY <1>2 DEF R, OpToRel
<1>4. QED BY <1>2, <1>3, Zenon

\* The version a walk is at is the first of those it has left.
LEMMA AtVersionIsFirst ==
    ASSUME NEW S, S \subseteq Nat, S # {}
    PROVE  AtVersion(S) \in S /\ \A w \in S : AtVersion(S) <= w
<1>1. PICK x \in S : \A y \in S : ~ (y < x) BY MinimalVersion
<1>2. \A y \in S : x <= y BY <1>1
<1>3. QED BY <1>2 DEF AtVersion

Walking(p) == pc[p] \in {"apply", "record"}

\* Where a migrator is: what it has not walked past is its own, everything it
\* has is recorded, and it is inside the version's statements.
WalkInv ==
    \A p \in Procs : Walking(p) =>
        /\ todo[p] # {} /\ todo[p] \subseteq Expected[p]
        /\ Expected[p] \ todo[p] \subseteq ledger
        /\ pc[p] = "apply" => stmt[p] \in 1..Len(Statements[AtVersion(todo[p])])
        /\ pc[p] = "record" => stmt[p] = Len(Statements[AtVersion(todo[p])]) + 1

\* The tables of the statements a migrator has executed of its version exist.
DoneInv ==
    \A p \in Procs : Walking(p) =>
        \A i \in 1..Len(Statements[AtVersion(todo[p])]) :
            LET s == Statements[AtVersion(todo[p])][i] IN
            i < stmt[p] /\ s.op = "create" /\ s.obj \notin Views => objs[s.obj] # Absent

OpenInv == \A p \in Hubs : pc[p] = "open" => Expected[p] \subseteq ledger

MigrateInv == SchemaTypeOK /\ WalkInv /\ DoneInv /\ RecordedTablesExist /\ OpenInv

\* A migrator in its walk is at a version of its module set.
LEMMA WalkVersion ==
    ASSUME SchemaTypeOK, WalkInv, NEW p \in Procs, Walking(p)
    PROVE  /\ AtVersion(todo[p]) \in todo[p] /\ AtVersion(todo[p]) \in Versions
           /\ AtVersion(todo[p]) \in Expected[p]
           /\ \A w \in todo[p] : AtVersion(todo[p]) <= w
           /\ Statements[AtVersion(todo[p])] \in Seq(Stmts)
           /\ Len(Statements[AtVersion(todo[p])]) \in Nat \ {0}
<1>1. todo[p] # {} /\ todo[p] \subseteq Expected[p] /\ todo[p] \subseteq Versions /\ todo[p] \subseteq Nat
  BY SchemaAssumption DEF SchemaTypeOK, WalkInv, Procs
<1>2. AtVersion(todo[p]) \in todo[p] /\ \A w \in todo[p] : AtVersion(todo[p]) <= w
  BY <1>1, AtVersionIsFirst
<1>3. Statements[AtVersion(todo[p])] \in Seq(Stmts) /\ Len(Statements[AtVersion(todo[p])]) > 0
  BY <1>1, <1>2, SchemaAssumption
<1>4. Len(Statements[AtVersion(todo[p])]) \in Nat BY <1>3
<1>5. QED BY <1>1, <1>2, <1>3, <1>4

\* A migrator about to execute is at a statement of its version.
LEMMA PendingIsStatement ==
    ASSUME SchemaTypeOK, WalkInv, NEW p \in Procs, pc[p] = "apply"
    PROVE  /\ Pending(p) \in Stmts
           /\ stmt[p] \in 1..Len(Statements[AtVersion(todo[p])])
           /\ Pending(p) = Statements[AtVersion(todo[p])][stmt[p]]
           /\ Pending(p).op = "drop" => Pending(p).obj \in Views
<1>1. Walking(p) BY DEF Walking
<1>2. stmt[p] \in 1..Len(Statements[AtVersion(todo[p])]) BY <1>1 DEF WalkInv
<1> DEFINE v == AtVersion(todo[p])
<1>3. v \in Versions /\ Statements[v] \in Seq(Stmts) BY <1>1, WalkVersion
<1>4. Statements[v][stmt[p]] \in Stmts BY <1>2, <1>3
<1>5. Statements[v][stmt[p]].op = "drop" => Statements[v][stmt[p]].obj \in Views
  BY <1>2, <1>3, SchemaAssumption
<1>6. QED BY <1>2, <1>4, <1>5 DEF Pending

\* Every table of a recorded version exists when the version is recorded.
LEMMA RecordingIsSound ==
    ASSUME MigrateInv, NEW p \in Procs, pc[p] = "record", NEW o \in Objects \ Views,
           Creates(AtVersion(todo[p]), o)
    PROVE  objs[o] # Absent
<1> DEFINE v == AtVersion(todo[p])
<1>1. Walking(p) BY DEF Walking
<1>2. stmt[p] = Len(Statements[v]) + 1 /\ Len(Statements[v]) \in Nat
  BY <1>1, WalkVersion DEF MigrateInv, WalkInv
<1>3. PICK i \in 1..Len(Statements[v]) : Statements[v][i].op = "create" /\ Statements[v][i].obj = o
  BY DEF Creates
<1>4. i < stmt[p] BY <1>2, <1>3
<1>5. QED BY <1>1, <1>3, <1>4 DEF MigrateInv, DoneInv

-----------------------------------------------------------------------------
\* A step of p that leaves the database alone, ends p's walk or never begins
\* one, and opens no gate whose ledger is not complete.
LEMMA QuietStep ==
    ASSUME MigrateInv, UNCHANGED db, NEW p \in Procs, SchemaTypeOK',
           ~Walking(p)',
           \A q \in Procs \ {p} : pc'[q] = pc[q] /\ todo'[q] = todo[q] /\ stmt'[q] = stmt[q],
           pc'[p] = "open" => Expected[p] \subseteq ledger
    PROVE  MigrateInv'
<1> USE DEF db
<1>1. WalkInv' BY DEF MigrateInv, WalkInv, Walking
<1>2. DoneInv' BY DEF MigrateInv, DoneInv, Walking
<1>3. RecordedTablesExist' BY DEF MigrateInv, RecordedTablesExist
<1>4. OpenInv' BY DEF MigrateInv, OpenInv, Procs
<1>5. QED BY <1>1, <1>2, <1>3, <1>4 DEF MigrateInv
\* No statement removes a table, and a created object exists afterwards.
LEMMA EffectKeepsTables ==
    ASSUME SchemaTypeOK, NEW s \in Stmts, s.op = "drop" => s.obj \in Views
    PROVE  /\ Effect(s) \in [Objects -> Defs \cup {Absent}]
           /\ \A o \in Objects \ Views : objs[o] # Absent => Effect(s)[o] # Absent
           /\ s.op = "create" => Effect(s)[s.obj] # Absent
<1>1. s.obj \in Objects /\ s.def \in Defs /\ s.op \in {"create", "drop"} BY DEF Stmts
<1>2. objs \in [Objects -> Defs \cup {Absent}] BY DEF SchemaTypeOK
<1>3. QED BY <1>1, <1>2, SchemaAssumption DEF Effect

\* Every step keeps the type invariant.
LEMMA TypeStep ==
    ASSUME MigrateInv, NEW p \in Procs, Step(p) \/ Restart(p)
    PROVE  SchemaTypeOK'
<1> USE SchemaAssumption DEF MigrateInv, SchemaTypeOK, Goto, db
<1>1. CASE CheckFails(p) \/ CheckReady(p) BY <1>1 DEF CheckFails, CheckReady
<1>2. CASE CheckMissing(p)
  <2>1. UNCHANGED <<objs, ledger, todo, stmt, cutShort>> BY <1>2 DEF CheckMissing
  <2>2. pc' \in {[pc EXCEPT ![p] = "wait"], [pc EXCEPT ![p] = "ensure"]}
    BY <1>2 DEF CheckMissing
  <2>3. attempts' \in [Procs -> 0..MaxApply]
    <3>1. attempts[p] \in 0..MaxApply OBVIOUS
    <3>2. attempts' = attempts \/
          (attempts' = [attempts EXCEPT ![p] = attempts[p] + 1] /\ ~(attempts[p] >= MaxApply))
      BY <1>2 DEF CheckMissing
    <3>3. QED BY <3>1, <3>2
  <2>4. reported' \in [Procs -> BOOLEAN]
    BY <1>2, Zenon DEF CheckMissing
  <2>5. QED BY <2>1, <2>2, <2>3, <2>4
<1>3. CASE Recheck(p) \/ EnsureLedger(p) BY <1>3 DEF Recheck, EnsureLedger
<1>4. CASE ReadApplied(p) BY <1>4 DEF ReadApplied, Continue, Procs
<1>5. CASE ExecStatement(p)
  <2>1. Pending(p) \in Stmts /\ (Pending(p).op = "drop" => Pending(p).obj \in Views)
    BY <1>5, PendingIsStatement DEF ExecStatement
  <2>2. objs' \in [Objects -> Defs \cup {Absent}]
    BY <1>5, <2>1, EffectKeepsTables DEF ExecStatement
  <2>3. UNCHANGED <<ledger, todo, attempts, reported, cutShort>> /\ stmt' = [stmt EXCEPT ![p] = stmt[p] + 1]
        /\ pc' \in {[pc EXCEPT ![p] = "apply"], [pc EXCEPT ![p] = "record"]}
    BY <1>5 DEF ExecStatement, Advance
  <2>4. stmt' \in [Procs -> Nat] BY <2>3
  <2>5. QED BY <2>2, <2>3, <2>4
<1>6. CASE RecordVersion(p)
  <2>1. AtVersion(todo[p]) \in Versions
    BY <1>6, WalkVersion DEF RecordVersion, Walking
  <2>2. QED BY <1>6, <2>1 DEF RecordVersion, Continue
<1>7. CASE MigrateFails(p) BY <1>7 DEF MigrateFails
<1>8. CASE Restart(p) BY <1>8 DEF Restart
<1>9. QED BY <1>1, <1>2, <1>3, <1>4, <1>5, <1>6, <1>7, <1>8 DEF Step

\* Migrate reads the ledger and enters its walk, or is done.
LEMMA ReadStep ==
    ASSUME MigrateInv, NEW p \in Procs, ReadApplied(p), SchemaTypeOK'
    PROVE  MigrateInv'
<1> USE DEF db, Goto
<1> DEFINE rest == Expected[p] \ ledger
<1>1. todo' = [todo EXCEPT ![p] = rest] /\ stmt' = [stmt EXCEPT ![p] = 1] /\ UNCHANGED db
      /\ pc' = [pc EXCEPT ![p] = IF rest # {} THEN "apply" ELSE IF p \in Hubs THEN "check" ELSE "done"]
  BY DEF ReadApplied, Continue
<1>2. CASE rest = {}
  <2>1. pc'[p] \in {"check", "done"} BY <1>1, <1>2 DEF MigrateInv, SchemaTypeOK
  <2>2. \A q \in Procs \ {p} : pc'[q] = pc[q] /\ todo'[q] = todo[q] /\ stmt'[q] = stmt[q]
    BY <1>1 DEF MigrateInv, SchemaTypeOK
  <2>3. QED BY <1>1, <2>1, <2>2, QuietStep DEF Walking
<1>3. CASE rest # {}
  <2>1. \A q \in Procs : q # p => pc'[q] = pc[q] /\ todo'[q] = todo[q] /\ stmt'[q] = stmt[q]
    BY <1>1 DEF MigrateInv, SchemaTypeOK
  <2>2. pc'[p] = "apply" /\ todo'[p] = rest /\ stmt'[p] = 1
    BY <1>1, <1>3 DEF MigrateInv, SchemaTypeOK
  <2>3. Expected[p] \subseteq Versions /\ rest \subseteq Nat BY SchemaAssumption
  <2>4. AtVersion(rest) \in rest BY <1>3, <2>3, AtVersionIsFirst
  <2>5. Len(Statements[AtVersion(rest)]) \in Nat \ {0}
    <3>1. Statements[AtVersion(rest)] \in Seq(Stmts) /\ Len(Statements[AtVersion(rest)]) > 0
      BY <2>3, <2>4, SchemaAssumption
    <3>2. QED BY <3>1
  <2>6. WalkInv'
    <3> SUFFICES ASSUME NEW q \in Procs, Walking(q)'
                 PROVE  /\ todo'[q] # {} /\ todo'[q] \subseteq Expected[q]
                        /\ Expected[q] \ todo'[q] \subseteq ledger
                        /\ pc'[q] = "apply" => stmt'[q] \in 1..Len(Statements[AtVersion(todo'[q])])
                        /\ pc'[q] = "record" => stmt'[q] = Len(Statements[AtVersion(todo'[q])]) + 1
      BY <1>1 DEF WalkInv
    <3>1. CASE q = p
      <4>1. 1 \in 1..Len(Statements[AtVersion(rest)]) BY <2>5
      <4>2. QED BY <3>1, <4>1, <1>3, <2>2
    <3>2. CASE q # p BY <3>2, <2>1 DEF MigrateInv, WalkInv, Walking
    <3>3. QED BY <3>1, <3>2
  <2>7. DoneInv'
    BY <1>1, <2>1, <2>2, <2>5 DEF MigrateInv, DoneInv, Walking
  <2>8. RecordedTablesExist' BY <1>1 DEF MigrateInv, RecordedTablesExist
  <2>9. OpenInv' BY <1>1, <2>1, <2>2 DEF MigrateInv, OpenInv, Procs
  <2>10. QED BY <2>6, <2>7, <2>8, <2>9 DEF MigrateInv
<1>4. QED BY <1>2, <1>3

\* A statement is executed: nobody's tables go away.
LEMMA ExecStep ==
    ASSUME MigrateInv, NEW p \in Procs, ExecStatement(p), SchemaTypeOK'
    PROVE  MigrateInv'
<1> USE DEF Goto
<1> DEFINE v == AtVersion(todo[p])
<1>1. pc[p] = "apply" /\ Walking(p) BY DEF ExecStatement, Walking
<1>2. /\ Pending(p) \in Stmts /\ Pending(p) = Statements[v][stmt[p]]
      /\ stmt[p] \in 1..Len(Statements[v])
      /\ Pending(p).op = "drop" => Pending(p).obj \in Views
  BY <1>1, PendingIsStatement DEF MigrateInv
<1>3. /\ \A o \in Objects \ Views : objs[o] # Absent => objs'[o] # Absent
      /\ Pending(p).op = "create" => objs'[Pending(p).obj] # Absent
  BY <1>2, EffectKeepsTables DEF ExecStatement, MigrateInv
<1>4. Len(Statements[v]) \in Nat \ {0} BY <1>1, WalkVersion DEF MigrateInv
<1>5. UNCHANGED <<ledger, todo>> BY DEF ExecStatement
<1>6. \A q \in Procs : q # p => pc'[q] = pc[q] /\ stmt'[q] = stmt[q]
  BY DEF ExecStatement, Advance, MigrateInv, SchemaTypeOK
<1>7. /\ stmt'[p] = stmt[p] + 1
      /\ pc'[p] = IF stmt[p] < Len(Statements[v]) THEN "apply" ELSE "record"
  BY DEF ExecStatement, Advance, MigrateInv, SchemaTypeOK
<1>8. WalkInv'
  <2> SUFFICES ASSUME NEW q \in Procs, Walking(q)'
               PROVE  /\ todo[q] # {} /\ todo[q] \subseteq Expected[q]
                      /\ Expected[q] \ todo[q] \subseteq ledger
                      /\ pc'[q] = "apply" => stmt'[q] \in 1..Len(Statements[AtVersion(todo[q])])
                      /\ pc'[q] = "record" => stmt'[q] = Len(Statements[AtVersion(todo[q])]) + 1
    BY <1>5 DEF WalkInv
  <2>1. Walking(q) BY <1>1, <1>6 DEF Walking
  <2>2. todo[q] # {} /\ todo[q] \subseteq Expected[q] /\ Expected[q] \ todo[q] \subseteq ledger
    BY <2>1 DEF MigrateInv, WalkInv
  <2>3. CASE q = p
    <3>1. pc'[p] = "apply" => stmt'[p] \in 1..Len(Statements[v]) BY <1>2, <1>4, <1>7
    <3>2. pc'[p] = "record" => stmt'[p] = Len(Statements[v]) + 1 BY <1>2, <1>4, <1>7
    <3>3. QED BY <2>2, <2>3, <3>1, <3>2
  <2>4. CASE q # p BY <2>1, <2>2, <2>4, <1>6 DEF MigrateInv, WalkInv
  <2>5. QED BY <2>3, <2>4
<1>9. DoneInv'
  <2> SUFFICES ASSUME NEW q \in Procs, Walking(q)',
                      NEW i \in 1..Len(Statements[AtVersion(todo[q])]),
                      i < stmt'[q], Statements[AtVersion(todo[q])][i].op = "create",
                      Statements[AtVersion(todo[q])][i].obj \notin Views
               PROVE  objs'[Statements[AtVersion(todo[q])][i].obj] # Absent
    BY <1>5 DEF DoneInv
  <2> DEFINE s == Statements[AtVersion(todo[q])][i]
  <2>1. Walking(q) BY <1>1, <1>6 DEF Walking
  <2>2. s \in Stmts /\ s.obj \in Objects
    <3>1. Statements[AtVersion(todo[q])] \in Seq(Stmts) BY <2>1, WalkVersion DEF MigrateInv
    <3>2. s \in Stmts BY <3>1
    <3>3. QED BY <3>2 DEF Stmts
  <2>3. CASE i < stmt[q]
    <3>1. objs[s.obj] # Absent BY <2>1, <2>3 DEF MigrateInv, DoneInv
    <3>2. QED BY <3>1, <2>2, <1>3
  <2>4. CASE ~(i < stmt[q])
    <3>1. q = p BY <2>4, <1>6
    <3>2. i = stmt[p] BY <3>1, <2>4, <1>2, <1>4, <1>7
    <3>3. QED BY <3>1, <3>2, <1>2, <1>3
  <2>5. QED BY <2>3, <2>4
<1>10. RecordedTablesExist' BY <1>3, <1>5 DEF MigrateInv, RecordedTablesExist
<1>11. OpenInv' BY <1>5, <1>6, <1>7 DEF MigrateInv, OpenInv, Procs
<1>12. QED BY <1>8, <1>9, <1>10, <1>11 DEF MigrateInv

\* A version is recorded: its tables are there, and the walk moves on.
LEMMA RecordStep ==
    ASSUME MigrateInv, NEW p \in Procs, RecordVersion(p), SchemaTypeOK'
    PROVE  MigrateInv'
<1> USE DEF Goto
<1> DEFINE v == AtVersion(todo[p])
           rest == todo[p] \ {v}
<1>1. pc[p] = "record" /\ Walking(p) BY DEF RecordVersion, Walking
<1>2. /\ ledger' = ledger \cup {v} /\ objs' = objs
      /\ todo' = [todo EXCEPT ![p] = rest] /\ stmt' = [stmt EXCEPT ![p] = 1]
      /\ pc' = [pc EXCEPT ![p] = IF rest # {} THEN "apply" ELSE IF p \in Hubs THEN "check" ELSE "done"]
  BY DEF RecordVersion, Continue
<1>3. /\ todo[p] \subseteq Expected[p] /\ Expected[p] \ todo[p] \subseteq ledger
      /\ todo[p] \subseteq Versions /\ todo[p] \subseteq Nat
  BY <1>1, SchemaAssumption DEF MigrateInv, WalkInv, SchemaTypeOK
<1>4. \A q \in Procs : q # p => pc'[q] = pc[q] /\ todo'[q] = todo[q] /\ stmt'[q] = stmt[q]
  BY <1>2 DEF MigrateInv, SchemaTypeOK
<1>5. /\ todo'[p] = rest /\ stmt'[p] = 1
      /\ pc'[p] = IF rest # {} THEN "apply" ELSE IF p \in Hubs THEN "check" ELSE "done"
  BY <1>2 DEF MigrateInv, SchemaTypeOK
<1>6. rest # {} => Len(Statements[AtVersion(rest)]) \in Nat \ {0}
  <2> SUFFICES ASSUME rest # {} PROVE Len(Statements[AtVersion(rest)]) \in Nat \ {0}
    OBVIOUS
  <2>1. AtVersion(rest) \in rest BY <1>3, AtVersionIsFirst
  <2>2. Statements[AtVersion(rest)] \in Seq(Stmts) /\ Len(Statements[AtVersion(rest)]) > 0
    BY <1>3, <2>1, SchemaAssumption
  <2>3. QED BY <2>2
<1>7. WalkInv'
  <2> SUFFICES ASSUME NEW q \in Procs, Walking(q)'
               PROVE  /\ todo'[q] # {} /\ todo'[q] \subseteq Expected[q]
                      /\ Expected[q] \ todo'[q] \subseteq ledger'
                      /\ pc'[q] = "apply" => stmt'[q] \in 1..Len(Statements[AtVersion(todo'[q])])
                      /\ pc'[q] = "record" => stmt'[q] = Len(Statements[AtVersion(todo'[q])]) + 1
    BY DEF WalkInv
  <2>1. CASE q = p
    <3>1. pc'[p] = "apply" /\ rest # {} BY <2>1, <1>5 DEF Walking
    <3>2. Expected[p] \ rest \subseteq ledger' BY <1>2, <1>3
    <3>3. 1 \in 1..Len(Statements[AtVersion(rest)]) BY <3>1, <1>6
    <3>4. QED BY <2>1, <3>1, <3>2, <3>3, <1>3, <1>5
  <2>2. CASE q # p
    BY <2>2, <1>2, <1>4 DEF MigrateInv, WalkInv, Walking
  <2>3. QED BY <2>1, <2>2
<1>8. DoneInv'
  <2> SUFFICES ASSUME NEW q \in Procs, Walking(q)',
                      NEW i \in 1..Len(Statements[AtVersion(todo'[q])]),
                      i < stmt'[q], Statements[AtVersion(todo'[q])][i].op = "create",
                      Statements[AtVersion(todo'[q])][i].obj \notin Views
               PROVE  objs[Statements[AtVersion(todo'[q])][i].obj] # Absent
    BY <1>2 DEF DoneInv
  <2>1. q # p
    <3>1. CASE q = p
      <4>1. rest # {} /\ stmt'[q] = 1 BY <3>1, <1>5 DEF Walking
      <4>2. QED BY <4>1, <3>1, <1>5, <1>6
    <3>2. QED BY <3>1
  <2>2. QED BY <2>1, <1>4 DEF MigrateInv, DoneInv, Walking
<1>9. RecordedTablesExist'
  <2>1. \A o \in Objects \ Views : Creates(v, o) => objs[o] # Absent
    BY <1>1, RecordingIsSound
  <2>2. QED BY <2>1, <1>2 DEF MigrateInv, RecordedTablesExist
<1>10. OpenInv' BY <1>2, <1>4, <1>5 DEF MigrateInv, OpenInv, Procs
<1>11. QED BY <1>7, <1>8, <1>9, <1>10 DEF MigrateInv

-----------------------------------------------------------------------------
\* Any number of processes, failing and crashing anywhere, keep the schema
\* well typed and every migrator's place in its walk consistent with it.
THEOREM MigrateInvHolds == SchemaSpec => []MigrateInv
<1>1. SchemaInit => MigrateInv
  <2> SUFFICES ASSUME SchemaInit PROVE MigrateInv
    OBVIOUS
  <2>1. SchemaTypeOK BY SchemaAssumption DEF SchemaInit, SchemaTypeOK
  <2>2. WalkInv /\ DoneInv /\ OpenInv
    BY DEF SchemaInit, WalkInv, DoneInv, OpenInv, Walking, Procs
  <2>3. RecordedTablesExist BY DEF SchemaInit, RecordedTablesExist
  <2>4. QED BY <2>1, <2>2, <2>3 DEF MigrateInv
<1>2. MigrateInv /\ [SchemaNext]_schemaVars => MigrateInv'
  <2> SUFFICES ASSUME MigrateInv, [SchemaNext]_schemaVars PROVE MigrateInv'
    OBVIOUS
  <2>1. ASSUME NEW p \in Procs, Step(p) \/ Restart(p) PROVE MigrateInv'
    <3>1. SchemaTypeOK' BY <2>1, TypeStep
    <3>2. CASE ReadApplied(p) BY <3>1, <3>2, ReadStep
    <3>3. CASE ExecStatement(p) BY <3>1, <3>3, ExecStep
    <3>4. CASE RecordVersion(p) BY <3>1, <3>4, RecordStep
    <3>5. CASE CheckFails(p) \/ CheckReady(p) \/ CheckMissing(p) \/ Recheck(p)
               \/ EnsureLedger(p) \/ MigrateFails(p) \/ Restart(p)
      <4> USE DEF MigrateInv, SchemaTypeOK, Goto, db
      <4>1. UNCHANGED db
        BY <3>5 DEF CheckFails, CheckReady, CheckMissing, Recheck, EnsureLedger, MigrateFails, Restart
      <4>2. ~Walking(p)'
        BY <3>5 DEF CheckFails, CheckReady, CheckMissing, Recheck, EnsureLedger, MigrateFails, Restart, Walking
      <4>3. \A q \in Procs \ {p} : pc'[q] = pc[q] /\ todo'[q] = todo[q] /\ stmt'[q] = stmt[q]
        BY <3>5 DEF CheckFails, CheckReady, CheckMissing, Recheck, EnsureLedger, MigrateFails, Restart
      <4>4. pc'[p] = "open" => Expected[p] \subseteq ledger
        BY <3>5 DEF CheckFails, CheckReady, CheckMissing, Recheck, EnsureLedger, MigrateFails, Restart
      <4>5. QED BY <3>1, <4>1, <4>2, <4>3, <4>4, QuietStep
    <3>6. QED BY <2>1, <3>2, <3>3, <3>4, <3>5 DEF Step
  <2>2. CASE UNCHANGED schemaVars
    BY <2>2 DEF schemaVars, MigrateInv, SchemaTypeOK, WalkInv, DoneInv, RecordedTablesExist, OpenInv, Walking
  <2>3. QED BY <2>1, <2>2 DEF SchemaNext
<1>3. QED BY <1>1, <1>2, PTL DEF SchemaSpec

\* A recorded version has all of its tables, for any number of concurrent
\* migrators and any interleaving of failures and crashes.
THEOREM LedgerIsCommitMarker == SchemaSpec => []RecordedTablesExist
<1>1. MigrateInv => RecordedTablesExist BY DEF MigrateInv
<1>2. QED BY <1>1, MigrateInvHolds, PTL

\* Behind an open gate every table the hub's module set expects exists.
THEOREM OpenGateIsHonest == SchemaSpec => []OpenGateHasTables
<1>1. MigrateInv => OpenGateHasTables
  BY SchemaAssumption DEF MigrateInv, OpenInv, RecordedTablesExist, OpenGateHasTables, Procs
<1>2. QED BY <1>1, MigrateInvHolds, PTL

\* No migrator ever creates a view over a table that is not there.
THEOREM ViewsComeAfterTables == SchemaSpec => []NoOrphanView
<1>1. MigrateInv => NoOrphanView
  <2> SUFFICES ASSUME MigrateInv, NEW p \in Procs, pc[p] = "apply",
                      Pending(p).op = "create", Pending(p).obj \in Views
               PROVE  objs[BaseOf[Pending(p).obj]] # Absent
    BY DEF NoOrphanView, HasBase
  <2> DEFINE v == AtVersion(todo[p])
             o == Pending(p).obj
  <2>1. Walking(p) BY DEF Walking
  <2>2. v \in Expected[p] /\ \A w \in todo[p] : v <= w BY <2>1, WalkVersion DEF MigrateInv
  <2>3. Creates(v, o) BY PendingIsStatement DEF MigrateInv, Creates
  <2>4. PICK w \in Expected[p] : w < v /\ Creates(w, BaseOf[o]) BY <2>2, <2>3, SchemaAssumption
  <2>5. w \in Nat /\ v \in Nat BY <2>2, <2>4, SchemaAssumption
  <2>6. w \notin todo[p] BY <2>2, <2>4, <2>5
  <2>7. w \in ledger BY <2>1, <2>4, <2>6 DEF MigrateInv, WalkInv
  <2>8. BaseOf[o] \in Objects \ Views BY SchemaAssumption
  <2>9. QED BY <2>4, <2>7, <2>8 DEF MigrateInv, RecordedTablesExist
<1>2. QED BY <1>1, MigrateInvHolds, PTL

-----------------------------------------------------------------------------
\* What SchemaContract sees of this system.
Built == {o \in Objects \ Views : objs[o] # Absent}
Opened == {p \in Hubs : pc[p] = "open"}
TablesMade == [v \in Versions |-> {o \in Objects \ Views : Creates(v, o)}]

\* A statement builds the table it creates, or nothing the contract speaks of.
LEMMA StatementBuilds ==
    ASSUME MigrateInv, NEW p \in Procs, ExecStatement(p)
    PROVE  [Contract!ContractNext]_<<Built, ledger, Opened>>
<1> DEFINE v == AtVersion(todo[p])
           s == Pending(p)
<1>1. pc[p] = "apply" /\ Walking(p) BY DEF ExecStatement, Walking
<1>2. /\ s \in Stmts /\ s = Statements[v][stmt[p]] /\ stmt[p] \in 1..Len(Statements[v])
      /\ s.op = "drop" => s.obj \in Views
  BY <1>1, PendingIsStatement DEF MigrateInv
<1>3. v \in Versions BY <1>1, WalkVersion DEF MigrateInv
<1>4. ledger' = ledger /\ objs' = Effect(s) BY DEF ExecStatement
<1>5. Opened' = Opened
  <2>1. \A q \in Procs : q # p => pc'[q] = pc[q]
    BY DEF ExecStatement, Advance, Goto, MigrateInv, SchemaTypeOK
  <2>2. pc'[p] # "open" BY DEF ExecStatement, Advance, Goto, MigrateInv, SchemaTypeOK
  <2> QED BY <1>1, <2>1, <2>2 DEF Opened, Procs
<1>6. s.obj \in Objects /\ s.def \in Defs /\ s.op \in {"create", "drop"} BY <1>2 DEF Stmts
<1>7. \A o \in Objects : o # s.obj => objs'[o] = objs[o]
  BY <1>4, <1>6 DEF Effect, MigrateInv, SchemaTypeOK
<1>8. CASE s.obj \in Views
  <2>1. Built' = Built BY <1>7, <1>8 DEF Built
  <2> QED BY <1>4, <1>5, <2>1
<1>9. CASE s.obj \notin Views
  <2>1. s.op = "create" /\ s.obj \in TablesMade[v]
    BY <1>2, <1>3, <1>6, <1>9 DEF TablesMade, Creates
  <2>2. objs'[s.obj] # Absent BY <1>2, <2>1, EffectKeepsTables, <1>4 DEF MigrateInv
  <2>3. Built' = Built \cup {s.obj} BY <1>6, <1>7, <1>9, <2>2 DEF Built
  <2>4. v \in DOMAIN TablesMade BY <1>3 DEF TablesMade
  <2>5. Contract!Build BY <1>4, <1>5, <2>1, <2>3, <2>4 DEF Contract!Build, TablesMade, Built, Opened
  <2> QED BY <2>5 DEF Contract!ContractNext
<1> QED BY <1>8, <1>9

\* A version goes on record after its tables and after all before it.
LEMMA RecordIsInOrder ==
    ASSUME MigrateInv, NEW p \in Procs, RecordVersion(p)
    PROVE  Contract!Record
<1> DEFINE v == AtVersion(todo[p])
<1>1. pc[p] = "record" /\ Walking(p) BY DEF RecordVersion, Walking
<1>2. /\ v \in todo[p] /\ v \in Versions /\ v \in Expected[p] /\ \A w \in todo[p] : v <= w
  BY <1>1, WalkVersion DEF MigrateInv
<1>3. ledger' = ledger \cup {v} /\ objs' = objs BY DEF RecordVersion
<1>4. TablesMade[v] \subseteq Built
  BY <1>1, <1>2, RecordingIsSound DEF TablesMade, Built
<1>5. {w \in Expected[p] : w < v} \subseteq ledger
  <2> SUFFICES ASSUME NEW w \in Expected[p], w < v PROVE w \in ledger OBVIOUS
  <2>1. w \in Nat /\ v \in Nat BY <1>2, SchemaAssumption
  <2>2. w \notin todo[p] BY <1>2, <2>1
  <2> QED BY <1>1, <2>2 DEF MigrateInv, WalkInv
<1>6. Opened' = Opened
  <2>1. \A q \in Procs : q # p => pc'[q] = pc[q]
    BY DEF RecordVersion, Continue, Goto, MigrateInv, SchemaTypeOK
  <2>2. pc'[p] # "open" BY DEF RecordVersion, Continue, Goto, MigrateInv, SchemaTypeOK
  <2> QED BY <1>1, <2>1, <2>2 DEF Opened, Procs
<1>7. Built' = Built BY <1>3 DEF Built
<1> QED BY <1>2, <1>3, <1>4, <1>5, <1>6, <1>7 DEF Contract!Record, TablesMade, Built, Opened

\* Any other step leaves tables and ledger alone and opens or closes one gate,
\* or none.
LEMMA GateMoves ==
    ASSUME MigrateInv, NEW p \in Procs, UNCHANGED db,
           \A q \in Procs \ {p} : pc'[q] = pc[q],
           p \in Hubs /\ pc'[p] = "open" => pc[p] = "open" \/ Expected[p] \subseteq ledger
    PROVE  [Contract!ContractNext]_<<Built, ledger, Opened>>
<1>1. Built' = Built /\ ledger' = ledger BY DEF Built, db
<1>2. CASE p \in Hubs /\ pc'[p] = "open" /\ pc[p] # "open"
  <2>1. Opened' = Opened \cup {p} BY <1>2 DEF Opened, Procs
  <2>2. Contract!Open BY <1>1, <1>2, <2>1 DEF Contract!Open, Built, Opened
  <2> QED BY <2>2 DEF Contract!ContractNext
<1>3. CASE p \in Hubs /\ pc'[p] # "open"
  <2>1. Opened' = Opened \ {p} BY <1>3 DEF Opened, Procs
  <2>2. Contract!Close BY <1>1, <1>3, <2>1 DEF Contract!Close, Built, Opened
  <2> QED BY <2>2 DEF Contract!ContractNext
<1>4. CASE p \notin Hubs \/ (pc'[p] = "open" /\ pc[p] = "open")
  <2>1. Opened' = Opened BY <1>4 DEF Opened, Procs
  <2> QED BY <1>1, <2>1
<1> QED BY <1>2, <1>3, <1>4

\* The concurrent, failing, restarting migrators implement the contract: every
\* statement, ledger row and gate is a step of it or invisible to it.
THEOREM MigrationsKeepContract == SchemaSpec => KeepsContract
<1>1. SchemaInit => Contract!ContractInit
  BY DEF SchemaInit, Contract!ContractInit, Procs
<1>2. MigrateInv /\ [SchemaNext]_schemaVars => [Contract!ContractNext]_<<Built, ledger, Opened>>
  <2> SUFFICES ASSUME MigrateInv, [SchemaNext]_schemaVars
               PROVE  [Contract!ContractNext]_<<Built, ledger, Opened>>
    OBVIOUS
  <2>1. ASSUME NEW p \in Procs, Step(p) \/ Restart(p)
        PROVE  [Contract!ContractNext]_<<Built, ledger, Opened>>
    <3>1. CASE ExecStatement(p) BY <3>1, StatementBuilds
    <3>2. CASE RecordVersion(p) BY <3>2, RecordIsInOrder DEF Contract!ContractNext
    <3>3. CASE CheckFails(p) \/ CheckReady(p) \/ CheckMissing(p) \/ Recheck(p)
               \/ EnsureLedger(p) \/ ReadApplied(p) \/ MigrateFails(p) \/ Restart(p)
      <4> USE DEF MigrateInv, SchemaTypeOK, Goto, Continue, db
      <4>1. UNCHANGED db
        BY <3>3 DEF CheckFails, CheckReady, CheckMissing, Recheck, EnsureLedger, ReadApplied, MigrateFails, Restart
      <4>2. \A q \in Procs \ {p} : pc'[q] = pc[q]
        BY <3>3 DEF CheckFails, CheckReady, CheckMissing, Recheck, EnsureLedger, ReadApplied, MigrateFails, Restart
      <4>3. pc'[p] = "open" => Expected[p] \subseteq ledger
        BY <3>3 DEF CheckFails, CheckReady, CheckMissing, Recheck, EnsureLedger, ReadApplied, MigrateFails, Restart
      <4> QED BY <4>1, <4>2, <4>3, GateMoves
    <3> QED BY <2>1, <3>1, <3>2, <3>3 DEF Step
  <2>2. CASE UNCHANGED schemaVars
    BY <2>2 DEF schemaVars, Built, Opened
  <2> QED BY <2>1, <2>2 DEF SchemaNext
<1>3. MigrateInv /\ [SchemaNext]_schemaVars => [Contract!ContractNext]_(Contract!contractVars)
  BY <1>2 DEF Contract!contractVars, Built, Opened
<1> QED BY <1>1, <1>3, MigrateInvHolds, PTL DEF SchemaSpec, KeepsContract, Contract!ContractSpec

-----------------------------------------------------------------------------
(* Every definition ends up right unless somebody stopped part-way.        *)

Named(o) == \E v \in Versions : Mentions(v, o)

\* Of the versions of one object the earlier are recorded, and walked past,
\* before the later.
ChainInv == \A o \in Objects, v \in Versions, w \in Versions :
    v < w /\ Mentions(v, o) /\ Mentions(w, o) =>
        /\ w \in ledger => v \in ledger
        /\ \A p \in Procs : Walking(p) /\ v \in todo[p] => w \in todo[p]

DropAt(v, o, i) == Statements[v][i].op = "drop" /\ Statements[v][i].obj = o
CreateAt(v, o, i) == Statements[v][i].op = "create" /\ Statements[v][i].obj = o

\* p has yet to drop o in the newest version, and so to create it after.
Ahead(p, o) ==
    /\ Walking(p) /\ Newest(o) \in todo[p]
    /\ \E d \in 1..Len(Statements[Newest(o)]) :
          DropAt(Newest(o), o, d) /\ (AtVersion(todo[p]) = Newest(o) => stmt[p] <= d)

\* p is in the newest version and has yet to create o.
Between(p, o) ==
    /\ pc[p] = "apply" /\ AtVersion(todo[p]) = Newest(o)
    /\ \E c \in 1..Len(Statements[Newest(o)]) : CreateAt(Newest(o), o, c) /\ stmt[p] <= c

\* Some migrator has been at a CREATE of o.
Touched(o) ==
    \/ \E v \in ledger : Mentions(v, o)
    \/ \E p \in Procs : Walking(p) /\ \E c \in 1..Len(Statements[AtVersion(todo[p])]) :
          CreateAt(AtVersion(todo[p]), o, c) /\ c < stmt[p]

\* An object that is not as it will end up has a migrator on its way to make
\* it so, or none has come to it yet.
Settling(o) ==
    \/ objs[o] = Final(o)
    \/ \E p \in Procs : Ahead(p, o)
    \/ objs[o] = Absent /\ ((\E p \in Procs : Between(p, o)) \/ ~Touched(o))

SettleInv == cutShort = "no" => \A o \in Objects : Named(o) => Settling(o)

\* The newest version of an object ends with creating it as it stays, and
\* starts with a drop when there are older ones.
LEMMA NewestRebuilds ==
    ASSUME NEW o \in Objects, NEW v \in Versions, Mentions(v, o)
    PROVE  /\ Newest(o) \in Versions /\ Mentions(Newest(o), o) /\ v <= Newest(o)
           /\ v < Newest(o) => \E d \in 1..Len(Statements[Newest(o)]) : DropAt(Newest(o), o, d)
           /\ \E c \in 1..Len(Statements[Newest(o)]) :
                 /\ CreateAt(Newest(o), o, c) /\ Statements[Newest(o)][c].def = Final(o)
                 /\ \A i \in 1..Len(Statements[Newest(o)]) :
                       Statements[Newest(o)][i].obj = o /\ i # c => DropAt(Newest(o), o, i) /\ i < c
<1> DEFINE vs == {w \in Versions : Mentions(w, o)}
           F == Newest(o)
<1>1. /\ \E x \in vs : \A w \in vs : w <= x
      /\ \A x \in vs : Rebuilds(x, o) /\ ((\E w \in vs : w < x) => Drops(x, o))
  BY ChainsAssumption
<1>2. F \in Versions /\ Mentions(F, o) /\ \A w \in Versions : Mentions(w, o) => w <= F
  <2>1. PICK x \in Versions : Mentions(x, o) /\ \A w \in Versions : Mentions(w, o) => w <= x
    BY <1>1
  <2> QED BY <2>1 DEF Newest
<1>3. Rebuilds(F, o) /\ (v < F => Drops(F, o)) BY <1>1, <1>2
<1>4. PICK c \in 1..Len(Statements[F]) :
        /\ CreateAt(F, o, c)
        /\ \A i \in 1..Len(Statements[F]) :
              Statements[F][i].obj = o /\ i # c => i < c /\ Statements[F][i].op = "drop"
  BY <1>3 DEF Rebuilds, CreateAt
<1>5. Statements[F][c].def = Final(o)
  <2> DEFINE is == {i \in 1..Len(Statements[F]) : Statements[F][i].op = "create" /\ Statements[F][i].obj = o}
  <2>1. is = {c} BY <1>4 DEF CreateAt
  <2>2. (CHOOSE i \in is : \A j \in is : j <= i) = c BY <2>1
  <2> QED BY <2>2 DEF Final
<1> HIDE DEF F
<1>6. v < F => \E d \in 1..Len(Statements[F]) : DropAt(F, o, d) BY <1>3 DEF Drops, DropAt
<1>7. \A i \in 1..Len(Statements[F]) : Statements[F][i].obj = o /\ i # c => DropAt(F, o, i) /\ i < c
  BY <1>4 DEF DropAt
<1> QED BY <1>2, <1>4, <1>5, <1>6, <1>7 DEF F

\* A step that moves p alone, and not within a walk, leaves the walks of the
\* others as they are.
LEMMA QuietSettling ==
    ASSUME MigrateInv, ChainInv, SettleInv, UNCHANGED db, NEW p \in Procs,
           ~Walking(p)', Walking(p) => cutShort' = "yes", cutShort = "yes" => cutShort' = "yes",
           SchemaTypeOK',
           \A q \in Procs \ {p} : pc'[q] = pc[q] /\ todo'[q] = todo[q] /\ stmt'[q] = stmt[q]
    PROVE  ChainInv' /\ SettleInv'
<1>1. \A q \in Procs : Walking(q)' => q # p /\ Walking(q) /\ todo'[q] = todo[q] /\ stmt'[q] = stmt[q]
  BY DEF Walking
<1>2. ChainInv' BY <1>1 DEF ChainInv, db
<1>3. SettleInv'
  <2> SUFFICES ASSUME cutShort' = "no", NEW o \in Objects, Named(o)
               PROVE  Settling(o)'
    BY DEF SettleInv
  <2>1. ~Walking(p) /\ cutShort = "no" BY DEF MigrateInv, SchemaTypeOK
  <2>2. Settling(o) BY <2>1 DEF SettleInv
  <2>3. objs' = objs /\ ledger' = ledger BY DEF db
  <2>4. ASSUME NEW q \in Procs, Ahead(q, o) PROVE Ahead(q, o)'
    <3>1. q # p BY <2>1, <2>4 DEF Ahead
    <3> QED BY <2>4, <3>1 DEF Ahead, Walking
  <2>5. ASSUME NEW q \in Procs, Between(q, o) PROVE Between(q, o)'
    <3>1. q # p BY <2>1, <2>5 DEF Between, Walking
    <3> QED BY <2>5, <3>1 DEF Between
  <2>6. Touched(o)' => Touched(o) BY <1>1, <2>3 DEF Touched
  <2> QED BY <2>2, <2>3, <2>4, <2>5, <2>6 DEF Settling
<1> QED BY <1>2, <1>3

\* A walk that begins has all the versions of an object before it, or none.
LEMMA ReadSettling ==
    ASSUME MigrateInv, ChainInv, SettleInv, NEW p \in Procs, ReadApplied(p), SchemaTypeOK'
    PROVE  ChainInv' /\ SettleInv'
<1> DEFINE rest == Expected[p] \ ledger
<1>1. todo' = [todo EXCEPT ![p] = rest] /\ stmt' = [stmt EXCEPT ![p] = 1]
      /\ UNCHANGED <<objs, ledger, cutShort>> /\ pc[p] = "read"
  BY DEF ReadApplied, db
<1>2. \A q \in Procs : q # p => pc'[q] = pc[q] /\ todo'[q] = todo[q] /\ stmt'[q] = stmt[q]
  BY <1>1 DEF ReadApplied, Continue, Goto, MigrateInv, SchemaTypeOK
<1>3. todo'[p] = rest /\ stmt'[p] = 1 BY <1>1 DEF MigrateInv, SchemaTypeOK
<1>4. ~Walking(p) BY <1>1 DEF Walking
<1> HIDE DEF rest
<1>5. ChainInv'
  <2> SUFFICES ASSUME NEW o \in Objects, NEW v \in Versions, NEW w \in Versions,
                      v < w, Mentions(v, o), Mentions(w, o)
               PROVE  /\ w \in ledger => v \in ledger
                      /\ \A q \in Procs : Walking(q)' /\ v \in todo'[q] => w \in todo'[q]
    BY <1>1 DEF ChainInv
  <2>1. w \in ledger => v \in ledger BY DEF ChainInv
  <2>2. v \in rest => w \in rest
    <3>1. v \in Expected[p] => w \in Expected[p] BY ChainsAssumption
    <3> QED BY <2>1, <3>1 DEF rest
  <2>3. ASSUME NEW q \in Procs, q # p, Walking(q)', v \in todo'[q] PROVE w \in todo'[q]
    BY <1>2, <2>3 DEF ChainInv, Walking
  <2> QED BY <1>3, <2>1, <2>2, <2>3
<1>6. SettleInv'
  <2> SUFFICES ASSUME cutShort' = "no", NEW o \in Objects, Named(o)
               PROVE  Settling(o)'
    BY DEF SettleInv
  <2>2. Settling(o) BY <1>1 DEF SettleInv
  <2>4. ASSUME NEW q \in Procs, Ahead(q, o) PROVE Ahead(q, o)'
    <3>1. q # p BY <1>4, <2>4 DEF Ahead
    <3> QED BY <1>2, <2>4, <3>1 DEF Ahead, Walking
  <2>5. ASSUME NEW q \in Procs, Between(q, o) PROVE Between(q, o)'
    <3>1. q # p BY <1>4, <2>5 DEF Between, Walking
    <3> QED BY <1>2, <2>5, <3>1 DEF Between
  <2>6. Touched(o)' => Touched(o)
    <3> SUFFICES ASSUME NEW q \in Procs, Walking(q)',
                        NEW c \in 1..Len(Statements[AtVersion(todo'[q])]),
                        CreateAt(AtVersion(todo'[q]), o, c), c < stmt'[q]
                 PROVE  Touched(o)
      BY <1>1 DEF Touched
    <3>1. q # p BY <1>3
    <3> QED BY <1>2, <3>1 DEF Touched, Walking
  <2> QED BY <1>1, <2>2, <2>4, <2>5, <2>6 DEF Settling
<1> QED BY <1>5, <1>6

\* A version is recorded when all it does has been done, and it is the first
\* of those its migrator has left.
LEMMA RecordSettling ==
    ASSUME MigrateInv, ChainInv, SettleInv, NEW p \in Procs, RecordVersion(p), SchemaTypeOK'
    PROVE  ChainInv' /\ SettleInv'
<1> DEFINE u == AtVersion(todo[p])
           rest == todo[p] \ {u}
<1>1. pc[p] = "record" /\ Walking(p) BY DEF RecordVersion, Walking
<1>2. /\ u \in todo[p] /\ u \in Versions /\ u \in Expected[p] /\ \A w \in todo[p] : u <= w
      /\ Len(Statements[u]) \in Nat /\ stmt[p] = Len(Statements[u]) + 1
      /\ Expected[p] \ todo[p] \subseteq ledger /\ todo[p] \subseteq Versions
  BY <1>1, WalkVersion DEF MigrateInv, WalkInv, SchemaTypeOK
<1>3. /\ ledger' = ledger \cup {u} /\ UNCHANGED <<objs, cutShort>>
      /\ todo' = [todo EXCEPT ![p] = rest] /\ stmt' = [stmt EXCEPT ![p] = 1]
      /\ pc' = [pc EXCEPT ![p] = IF rest # {} THEN "apply" ELSE IF p \in Hubs THEN "check" ELSE "done"]
  BY DEF RecordVersion, Continue, Goto
<1>4. /\ todo'[p] = rest /\ stmt'[p] = 1 /\ (rest # {} => pc'[p] = "apply")
      /\ \A q \in Procs : q # p => pc'[q] = pc[q] /\ todo'[q] = todo[q] /\ stmt'[q] = stmt[q]
  BY <1>3 DEF MigrateInv, SchemaTypeOK
<1> HIDE DEF u
<1>5. ChainInv'
  <2> SUFFICES ASSUME NEW o \in Objects, NEW v \in Versions, NEW w \in Versions,
                      v < w, Mentions(v, o), Mentions(w, o)
               PROVE  /\ w \in ledger' => v \in ledger'
                      /\ \A q \in Procs : Walking(q)' /\ v \in todo'[q] => w \in todo'[q]
    BY DEF ChainInv
  <2>1. w \in ledger => v \in ledger BY DEF ChainInv
  <2>2. w = u => v \in ledger
    <3> SUFFICES ASSUME w = u PROVE v \in ledger OBVIOUS
    <3>1. v \in Expected[p] BY <1>2, ChainsAssumption
    <3>2. v \in Nat /\ w \in Nat BY SchemaAssumption
    <3>3. v \notin todo[p] BY <1>2, <3>2
    <3> QED BY <1>2, <3>1, <3>3
  <2>3. v \in rest => w \in rest
    <3> SUFFICES ASSUME v \in rest PROVE w \in rest OBVIOUS
    <3>1. w \in todo[p] BY <1>1 DEF ChainInv
    <3>2. u <= v /\ v \in Nat /\ w \in Nat /\ u \in Nat BY <1>2, SchemaAssumption
    <3>3. w # u BY <3>2
    <3> QED BY <3>1, <3>3
  <2>4. ASSUME NEW q \in Procs, q # p, Walking(q)', v \in todo'[q] PROVE w \in todo'[q]
    BY <1>4, <2>4 DEF ChainInv, Walking
  <2> QED BY <1>3, <1>4, <2>1, <2>2, <2>3, <2>4
<1>6. SettleInv'
  <2> SUFFICES ASSUME cutShort' = "no", NEW o \in Objects, Named(o)
               PROVE  Settling(o)'
    BY DEF SettleInv
  <2>1. Settling(o) BY <1>3 DEF SettleInv
  <2>2. PICK x \in Versions : Mentions(x, o) BY DEF Named
  <2> DEFINE F == Newest(o)
  <2>3. F \in Versions /\ Statements[F] \in Seq(Stmts) /\ Len(Statements[F]) \in Nat
    <3>1. F \in Versions BY <2>2, NewestRebuilds
    <3>2. Statements[F] \in Seq(Stmts) BY <3>1, SchemaAssumption
    <3> QED BY <3>1, <3>2
  <2> HIDE DEF F
  <2>4. ASSUME NEW q \in Procs, Ahead(q, o) PROVE Ahead(q, o)'
    <3>1. CASE q # p BY <1>4, <2>4, <3>1 DEF Ahead, Walking
    <3>2. CASE q = p
      <4>1. PICK d \in 1..Len(Statements[F]) : DropAt(F, o, d) /\ (u = F => stmt[p] <= d)
        BY <2>4, <3>2 DEF Ahead, F, u
      <4>2. u # F
        <5> SUFFICES ASSUME u = F PROVE FALSE OBVIOUS
        <5>1. stmt[p] = Len(Statements[F]) + 1 /\ stmt[p] <= d BY <1>2, <4>1
        <5> QED BY <2>3, <5>1
      <4>3. F \in rest BY <2>4, <3>2, <4>2 DEF Ahead, F
      <4>4. pc'[p] = "apply" /\ todo'[p] = rest /\ stmt'[p] = 1 BY <1>4, <4>3
      <4>5. 1 <= d BY <2>3
      <4> QED BY <3>2, <4>1, <4>3, <4>4, <4>5 DEF Ahead, Walking, F
    <3> QED BY <3>1, <3>2
  <2>5. ASSUME NEW q \in Procs, Between(q, o) PROVE Between(q, o)'
    <3>1. q # p BY <1>1, <2>5 DEF Between
    <3> QED BY <1>4, <2>5, <3>1 DEF Between
  <2>6. Touched(o)' => Touched(o)
    <3>1. ASSUME NEW v \in ledger', Mentions(v, o) PROVE Touched(o)
      <4>1. CASE v \in ledger BY <3>1, <4>1 DEF Touched
      <4>2. CASE v = u
        <5>1. Rebuilds(u, o) BY <1>2, <3>1, <4>2, ChainsAssumption
        <5>2. PICK c \in 1..Len(Statements[u]) : CreateAt(u, o, c) BY <5>1 DEF Rebuilds, CreateAt
        <5>3. c < stmt[p] BY <1>2
        <5> QED BY <1>1, <5>2, <5>3 DEF Touched, u
      <4> QED BY <1>3, <3>1, <4>1, <4>2
    <3>2. ASSUME NEW q \in Procs, Walking(q)',
                 NEW c \in 1..Len(Statements[AtVersion(todo'[q])]),
                 CreateAt(AtVersion(todo'[q]), o, c), c < stmt'[q]
          PROVE  Touched(o)
      <4>1. q # p BY <1>4, <3>2
      <4> QED BY <1>4, <3>2, <4>1 DEF Touched, Walking
    <3> QED BY <3>1, <3>2 DEF Touched
  <2> QED BY <1>3, <2>1, <2>4, <2>5, <2>6 DEF Settling
<1> QED BY <1>5, <1>6

\* A statement about another object takes its migrator past nothing of o's.
LEMMA OthersSettle ==
    ASSUME MigrateInv, NEW p \in Procs, ExecStatement(p), SchemaTypeOK',
           NEW o \in Objects, Named(o), Settling(o), Pending(p).obj # o
    PROVE  Settling(o)'
<1> DEFINE u == AtVersion(todo[p])
<1>1. pc[p] = "apply" /\ Walking(p) BY DEF ExecStatement, Walking
<1>2. /\ Pending(p) \in Stmts /\ Pending(p) = Statements[u][stmt[p]]
      /\ stmt[p] \in 1..Len(Statements[u]) /\ Len(Statements[u]) \in Nat
  BY <1>1, PendingIsStatement, WalkVersion DEF MigrateInv
<1>3. /\ UNCHANGED <<ledger, todo>> /\ stmt'[p] = stmt[p] + 1
      /\ pc'[p] = IF stmt[p] < Len(Statements[u]) THEN "apply" ELSE "record"
      /\ \A q \in Procs : q # p => pc'[q] = pc[q] /\ stmt'[q] = stmt[q]
  BY DEF ExecStatement, Advance, Goto, MigrateInv, SchemaTypeOK
<1>4. objs'[o] = objs[o]
  BY <1>2 DEF ExecStatement, Effect, MigrateInv, SchemaTypeOK, Stmts
<1> HIDE DEF u
<1>5. ASSUME NEW q \in Procs, Ahead(q, o) PROVE Ahead(q, o)'
  <2>1. CASE q # p BY <1>3, <1>5, <2>1 DEF Ahead, Walking
  <2>2. CASE q = p
    <3> DEFINE F == Newest(o)
    <3>1. PICK d \in 1..Len(Statements[F]) : DropAt(F, o, d) /\ (u = F => stmt[p] <= d)
      BY <1>5, <2>2 DEF Ahead, u
    <3>2. u = F => stmt'[p] <= d
      <4> SUFFICES ASSUME u = F PROVE stmt'[p] <= d OBVIOUS
      <4>1. d # stmt[p] BY <1>2, <3>1 DEF DropAt
      <4>2. d \in Nat /\ stmt[p] \in Nat BY <1>2
      <4> QED BY <1>3, <3>1, <4>1, <4>2
    <3>3. Walking(p)' BY <1>3 DEF Walking
    <3> QED BY <1>3, <1>5, <2>2, <3>1, <3>2, <3>3 DEF Ahead, u
  <2> QED BY <2>1, <2>2
<1>6. ASSUME NEW q \in Procs, Between(q, o) PROVE Between(q, o)'
  <2>1. CASE q # p BY <1>3, <1>6, <2>1 DEF Between
  <2>2. CASE q = p
    <3> DEFINE F == Newest(o)
    <3>1. u = F BY <1>6, <2>2 DEF Between, u
    <3>2. PICK c \in 1..Len(Statements[F]) : CreateAt(F, o, c) /\ stmt[p] <= c
      BY <1>6, <2>2 DEF Between
    <3>3. c # stmt[p] BY <1>2, <3>1, <3>2 DEF CreateAt
    <3>4. c \in Nat /\ stmt[p] \in Nat /\ c <= Len(Statements[u]) BY <1>2, <3>1
    <3>5. stmt'[p] <= c /\ stmt[p] < Len(Statements[u]) BY <1>2, <1>3, <3>2, <3>3, <3>4
    <3> QED BY <1>3, <2>2, <3>1, <3>2, <3>5 DEF Between, u
  <2> QED BY <2>1, <2>2
<1>7. Touched(o)' => Touched(o)
  <2> SUFFICES ASSUME NEW q \in Procs, Walking(q)',
                      NEW c \in 1..Len(Statements[AtVersion(todo[q])]),
                      CreateAt(AtVersion(todo[q]), o, c), c < stmt'[q]
               PROVE  Touched(o)
    BY <1>3 DEF Touched
  <2>1. Walking(q) BY <1>1, <1>3 DEF Walking
  <2>2. c < stmt[q]
    <3>1. CASE q # p BY <1>3, <3>1
    <3>2. CASE q = p
      <4>1. c # stmt[p] BY <1>2, <3>2 DEF CreateAt, u
      <4> QED BY <1>2, <1>3, <3>2, <4>1
    <3> QED BY <3>1, <3>2
  <2> QED BY <2>1, <2>2 DEF Touched
<1> QED BY <1>4, <1>5, <1>6, <1>7 DEF Settling

\* A statement about o: a drop has its CREATE before it, an older CREATE the
\* newest version, and the newest CREATE finds nothing there or leaves the
\* object to another that will drop it.
LEMMA OwnSettles ==
    ASSUME MigrateInv, ChainInv, NEW p \in Procs, ExecStatement(p), SchemaTypeOK',
           NEW o \in Objects, Pending(p).obj = o, Settling(o)
    PROVE  Settling(o)'
<1> DEFINE u == AtVersion(todo[p])
           s == Pending(p)
           F == Newest(o)
           N == Len(Statements[F])
<1>1. pc[p] = "apply" /\ Walking(p) BY DEF ExecStatement, Walking
<1>2. /\ s \in Stmts /\ s = Statements[u][stmt[p]] /\ stmt[p] \in 1..Len(Statements[u])
      /\ Len(Statements[u]) \in Nat /\ u \in Versions /\ u \in todo[p]
  BY <1>1, PendingIsStatement, WalkVersion DEF MigrateInv
<1>3. /\ UNCHANGED <<ledger, todo>> /\ stmt'[p] = stmt[p] + 1
      /\ pc'[p] = IF stmt[p] < Len(Statements[u]) THEN "apply" ELSE "record"
      /\ \A q \in Procs : q # p => pc'[q] = pc[q] /\ stmt'[q] = stmt[q]
  BY DEF ExecStatement, Advance, Goto, MigrateInv, SchemaTypeOK
<1>4. s.obj = o /\ s.op \in {"create", "drop"} BY <1>2 DEF Stmts
<1>5. objs'[o] = IF s.op = "drop" THEN Absent ELSE IF objs[o] = Absent THEN s.def ELSE objs[o]
  BY <1>4 DEF ExecStatement, Effect, MigrateInv, SchemaTypeOK
<1>6. Mentions(u, o) BY <1>2, <1>4 DEF Mentions
<1> HIDE DEF u, s
<1>7. /\ F \in Versions /\ Mentions(F, o) /\ u <= F
      /\ u < F => \E d \in 1..N : DropAt(F, o, d)
  BY <1>2, <1>4, <1>6, NewestRebuilds
<1>8. PICK c \in 1..N : /\ CreateAt(F, o, c) /\ Statements[F][c].def = Final(o)
                        /\ \A i \in 1..N : Statements[F][i].obj = o /\ i # c => DropAt(F, o, i) /\ i < c
  BY <1>2, <1>4, <1>6, NewestRebuilds
<1>9. u \in Nat /\ F \in Nat BY <1>2, <1>7, SchemaAssumption
<1>10. CASE u # F
  <2>1. u < F BY <1>7, <1>9, <1>10
  <2>2. PICK d \in 1..N : DropAt(F, o, d) BY <1>7, <2>1
  <2>3. F \in todo[p] BY <1>1, <1>2, <1>4, <1>6, <1>7, <2>1 DEF ChainInv
  <2>4. Walking(p)' BY <1>3 DEF Walking
  <2>5. Ahead(p, o)' BY <1>3, <1>10, <2>2, <2>3, <2>4 DEF Ahead, u
  <2> QED BY <2>5 DEF Settling
<1>11. CASE u = F /\ s.op = "drop"
  <2>1. Statements[F][stmt[p]].obj = o /\ stmt[p] # c
    BY <1>2, <1>4, <1>8, <1>11 DEF CreateAt
  <2>2. stmt[p] < c BY <1>2, <1>8, <1>11, <2>1
  <2>3. c \in Nat /\ stmt[p] \in Nat /\ N \in Nat /\ c <= N BY <1>2, <1>11
  <2>4. stmt'[p] <= c /\ stmt[p] < N BY <1>3, <2>2, <2>3
  <2>5. Between(p, o)' BY <1>3, <1>8, <1>11, <2>4 DEF Between, u
  <2>6. objs'[o] = Absent BY <1>5, <1>11
  <2> QED BY <2>5, <2>6 DEF Settling
<1>12. CASE u = F /\ s.op = "create"
  <2>1. stmt[p] = c BY <1>2, <1>4, <1>8, <1>12 DEF DropAt
  <2>2. s.def = Final(o) BY <1>2, <1>8, <1>12, <2>1
  <2>3. ~Ahead(p, o)
    <3> SUFFICES ASSUME NEW d \in 1..N, DropAt(F, o, d), stmt[p] <= d PROVE FALSE
      BY <1>12 DEF Ahead, u
    <3>1. d # c BY <1>8 DEF DropAt, CreateAt
    <3>2. d < c BY <1>8, <3>1 DEF DropAt
    <3>3. d \in Nat /\ c \in Nat BY <1>2, <1>12
    <3> QED BY <2>1, <3>2, <3>3
  <2>4. ASSUME NEW q \in Procs, Ahead(q, o) PROVE Ahead(q, o)'
    <3>1. q # p BY <2>3, <2>4
    <3> QED BY <1>3, <2>4, <3>1 DEF Ahead, Walking
  <2>5. objs[o] = Absent => objs'[o] = Final(o) BY <1>5, <1>12, <2>2
  <2>6. objs[o] = Final(o) => objs'[o] = Final(o) BY <1>5, <1>12, <2>5
  <2>7. objs[o] = Final(o) \/ objs[o] = Absent \/ \E q \in Procs : Ahead(q, o)
    BY DEF Settling
  <2>8. objs'[o] = Final(o) \/ \E q \in Procs : Ahead(q, o)'
    BY <2>4, <2>5, <2>6, <2>7
  <2> QED BY <2>8 DEF Settling
<1> QED BY <1>4, <1>10, <1>11, <1>12

\* A statement keeps every object settling.
LEMMA ExecSettling ==
    ASSUME MigrateInv, ChainInv, SettleInv, NEW p \in Procs, ExecStatement(p), SchemaTypeOK'
    PROVE  ChainInv' /\ SettleInv'
<1>1. UNCHANGED <<ledger, todo, cutShort>> BY DEF ExecStatement
<1>2. \A q \in Procs : Walking(q)' => Walking(q)
  BY DEF ExecStatement, Advance, Goto, Walking, MigrateInv, SchemaTypeOK
<1>3. ChainInv' BY <1>1, <1>2 DEF ChainInv
<1>4. SettleInv'
  <2> SUFFICES ASSUME cutShort' = "no", NEW o \in Objects, Named(o)
               PROVE  Settling(o)'
    BY DEF SettleInv
  <2>1. Settling(o) BY <1>1 DEF SettleInv
  <2>2. CASE Pending(p).obj = o BY <2>1, <2>2, OwnSettles
  <2>3. CASE Pending(p).obj # o BY <2>1, <2>3, OthersSettle
  <2> QED BY <2>2, <2>3
<1> QED BY <1>3, <1>4

\* The settling invariant holds in every state, for any number of migrators.
LEMMA SettlingHolds == SchemaSpec => [](ChainInv /\ SettleInv)
<1> DEFINE Inv == ChainInv /\ SettleInv
<1>1. SchemaInit => Inv
  <2> SUFFICES ASSUME SchemaInit PROVE Inv OBVIOUS
  <2>1. \A q \in Procs : ~Walking(q) BY DEF SchemaInit, Walking
  <2>2. ledger = {} /\ \A o \in Objects : objs[o] = Absent BY DEF SchemaInit
  <2> QED BY <2>1, <2>2 DEF ChainInv, SettleInv, Settling, Touched
<1>2. MigrateInv /\ MigrateInv' /\ Inv /\ [SchemaNext]_schemaVars => Inv'
  <2> SUFFICES ASSUME MigrateInv, MigrateInv', Inv, [SchemaNext]_schemaVars PROVE Inv'
    OBVIOUS
  <2>1. ASSUME NEW p \in Procs, Step(p) \/ Restart(p) PROVE Inv'
    <3>1. SchemaTypeOK' BY DEF MigrateInv
    <3>2. CASE ReadApplied(p) BY <3>1, <3>2, ReadSettling
    <3>3. CASE ExecStatement(p) BY <3>1, <3>3, ExecSettling
    <3>4. CASE RecordVersion(p) BY <3>1, <3>4, RecordSettling
    <3>5. CASE CheckFails(p) \/ CheckReady(p) \/ CheckMissing(p) \/ Recheck(p)
               \/ EnsureLedger(p) \/ MigrateFails(p) \/ Restart(p)
      <4> USE DEF MigrateInv, SchemaTypeOK, Goto, db
      <4>1. UNCHANGED db
        BY <3>5 DEF CheckFails, CheckReady, CheckMissing, Recheck, EnsureLedger, MigrateFails, Restart
      <4>2. ~Walking(p)'
        BY <3>5 DEF CheckFails, CheckReady, CheckMissing, Recheck, EnsureLedger, MigrateFails, Restart, Walking
      <4>3. \A q \in Procs \ {p} : pc'[q] = pc[q] /\ todo'[q] = todo[q] /\ stmt'[q] = stmt[q]
        BY <3>5 DEF CheckFails, CheckReady, CheckMissing, Recheck, EnsureLedger, MigrateFails, Restart
      <4>4. /\ Walking(p) => cutShort' = "yes"
            /\ cutShort = "yes" => cutShort' = "yes"
        BY <3>5 DEF CheckFails, CheckReady, CheckMissing, Recheck, EnsureLedger, MigrateFails, Restart,
                    Walking, PartWay
      <4> QED BY <3>1, <4>1, <4>2, <4>3, <4>4, QuietSettling
    <3> QED BY <2>1, <3>2, <3>3, <3>4, <3>5 DEF Step
  <2>2. CASE UNCHANGED schemaVars
    <3>1. ChainInv' BY <2>2 DEF schemaVars, ChainInv, Walking
    <3>2. SettleInv'
      <4> SUFFICES ASSUME cutShort' = "no", NEW o \in Objects, Named(o) PROVE Settling(o)'
        BY DEF SettleInv
      <4>1. Settling(o) BY <2>2 DEF SettleInv, schemaVars
      <4>2. \A q \in Procs : (Ahead(q, o) => Ahead(q, o)') /\ (Between(q, o) => Between(q, o)')
        BY <2>2 DEF schemaVars, Ahead, Between, Walking
      <4>3. Touched(o)' => Touched(o) BY <2>2 DEF schemaVars, Touched, Walking
      <4> QED BY <2>2, <4>1, <4>2, <4>3 DEF Settling, schemaVars
    <3> QED BY <3>1, <3>2
  <2> QED BY <2>1, <2>2 DEF SchemaNext
<1> QED BY <1>1, <1>2, MigrateInvHolds, PTL DEF SchemaSpec

\* Concurrent migration alone leaves no object missing or out of date: when
\* nobody stopped part-way, the last migrator through leaves every definition
\* as the newest version has it.
THEOREM SettlesUnlessCutShortHolds == SchemaSpec => []SettlesUnlessCutShort
<1>1. MigrateInv /\ ChainInv /\ SettleInv => SettlesUnlessCutShort
  <2> SUFFICES ASSUME MigrateInv, SettleInv, cutShort = "no", \A p \in Procs : pc[p] \in {"open", "done"},
                      NEW o \in Objects, NEW v \in ledger, Creates(v, o)
               PROVE  objs[o] = Final(o)
    BY DEF SettlesUnlessCutShort, SettlesRight
  <2>1. Mentions(v, o) BY DEF Mentions, Creates
  <2>2. v \in Versions BY DEF MigrateInv, SchemaTypeOK
  <2>3. Settling(o) BY <2>1, <2>2 DEF SettleInv, Named
  <2>4. \A p \in Procs : ~Ahead(p, o) /\ ~Between(p, o) BY DEF Ahead, Between, Walking
  <2>5. Touched(o) BY <2>1 DEF Touched
  <2> QED BY <2>3, <2>4, <2>5 DEF Settling
<1> QED BY <1>1, MigrateInvHolds, SettlingHolds, PTL
===============================================================================
