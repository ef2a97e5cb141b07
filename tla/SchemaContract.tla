---------------------------- MODULE SchemaContract ----------------------------
(***************************************************************************)
(* What the hub's schema migrations promise, whoever applies them and      *)
(* however often they fail: a database that only grows, a ledger that is   *)
(* written in order and never ahead of the tables, and gates that open on  *)
(* a complete schema only.  Module SchemaMigrate implements it.            *)
(***************************************************************************)
EXTENDS Naturals

CONSTANTS
    Gates,          \* the processes behind whose gate the hub serves
    Migrators,      \* the processes that apply migrations
    Wants,          \* process -> the versions it wants
    TablesOf        \* version -> the tables it creates

VARIABLES
    built,      \* the tables there are
    applied,    \* the versions on record
    opened      \* the gates that are open

contractVars == <<built, applied, opened>>

ContractInit == built = {} /\ applied = {} /\ opened = {}

\* A statement creates a table (or nothing anybody counts on).
Build ==
    /\ \E v \in DOMAIN TablesOf, t \in UNION {TablesOf[w] : w \in DOMAIN TablesOf} :
         t \in TablesOf[v] /\ built' = built \cup {t}
    /\ UNCHANGED <<applied, opened>>

\* A version goes on record: after its tables, and after every earlier version
\* of the set its migrator works through.
Record ==
    /\ \E p \in Migrators : \E v \in Wants[p] :
         /\ TablesOf[v] \subseteq built
         /\ {w \in Wants[p] : w < v} \subseteq applied
         /\ applied' = applied \cup {v}
    /\ UNCHANGED <<built, opened>>

Open ==
    /\ \E g \in Gates : Wants[g] \subseteq applied /\ opened' = opened \cup {g}
    /\ UNCHANGED <<built, applied>>

\* A hub goes down.
Close ==
    /\ \E g \in Gates : opened' = opened \ {g}
    /\ UNCHANGED <<built, applied>>

ContractNext == Build \/ Record \/ Open \/ Close

ContractSpec == ContractInit /\ [][ContractNext]_contractVars
===============================================================================
