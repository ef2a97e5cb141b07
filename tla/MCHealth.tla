------------------------------ MODULE MCHealth ------------------------------
(***************************************************************************)
(* TLC instance of the parts of service health: Alerting and GroupResolver *)
(* under fairness, CheckScheduler, and HealthRollup over every input.      *)
(* They share no state, so one of them moves at a time, chosen at the      *)
(* start: a rule whose target and configuration change, a budget, the      *)
(* service groups, the checks, or (nothing moves) the board.               *)
(***************************************************************************)
EXTENDS MCAlerting, GroupResolver, MCChecks

VARIABLE focus

healthVars == <<focus, vars, resolverVars, checksVars>>

HealthInit ==
    /\ focus \in {"rules", "budgets", "groups", "checks", "board"}
    /\ Init /\ ResolverInit
    /\ CASE focus = "board" -> BoardInit [] focus = "checks" -> SilentInit
         [] OTHER -> SilentInit /\ groupsCfg = Plain

Alert(A) ==
    /\ focus \in {"rules", "budgets"} /\ A /\ UNCHANGED <<focus, resolverVars, checksVars>>
    /\ focus = "rules" => UNCHANGED <<usage, budgets>>
    /\ focus = "budgets" => UNCHANGED <<health, rules, selected>>
Groups(A) == focus = "groups" /\ A /\ UNCHANGED <<focus, vars, checksVars>>
Probe(A) == focus = "checks" /\ A /\ UNCHANGED <<focus, vars, resolverVars>>

HealthNext == Alert(Next) \/ Groups(ResolverNext) \/ Probe(ChecksNext)

\* Rules under FairSpec, budgets under CalmSpec, groups under ResolverFairSpec.
HealthSpec ==
    /\ HealthInit /\ [][HealthNext]_healthVars
    /\ SF_healthVars(Alert(Evaluate({})))
    /\ SF_healthVars(Alert(Deliver))
    /\ SF_healthVars(Alert(SaveAlertStates))
    /\ WF_healthVars(Alert(AppendAlertHistory \/ AppendFails))
    /\ WF_healthVars(Alert(TimePasses))
    /\ <>[][focus = "budgets" => ~Fault]_vars
    /\ WF_healthVars(Groups(MemoAges))
    /\ \A p \in Clients : WF_healthVars(Groups(ServeStep(p)))
===============================================================================
