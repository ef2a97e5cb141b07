------------------------------ MODULE MCAlerting ------------------------------
(***************************************************************************)
(* TLC instances of Alerting: a rule on a target and a budget in one       *)
(* alert_state, and each of them alone under fairness.                     *)
(***************************************************************************)
EXTENDS Alerting, TLC

CONSTANTS h1, g1, r1, t1, bg

MCRuleOf == h1 :> r1
MCTargetOf == h1 :> t1
MCWhenOf == r1 :> "not_healthy"
MCShortForOf == r1 :> 1
MCForOf == r1 :> 2

MCBudgetOf == g1 :> bg
MCLevelOf == g1 :> 1
MCModuleOf == bg :> "green"

MCNone == [x \in {} |-> x]
===============================================================================
