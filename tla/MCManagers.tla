----------------------------- MODULE MCManagers -----------------------------
(***************************************************************************)
(* Handover, Debt, Audit, Shadow and RateAlert for TLC.  They share no     *)
(* state that any of them models, so a behaviour is of one of them: acting *)
(* says which.                                                             *)
(***************************************************************************)
EXTENDS Handover, Debt, Audit, Shadow, RateAlert

VARIABLE acting

-----------------------------------------------------------------------------
(* Instances *)

MCRequests ==
  {[from |-> "a", to |-> "b", confirm |-> TRUE, resources |-> <<"l", "t", "r">>],
   [from |-> "a", to |-> "c", confirm |-> FALSE, resources |-> <<"quota", "r">>]}

(* One return may settle a debt and half of the next.                      *)
MCLoans == {<<"system", 1>>, <<"b", 2>>}
MCRuleChoices == {[threshold |-> 1, retries |-> 1, protection |-> 1]}
MCDefaults == [retries |-> 1, protection |-> 2]

MCOverrides ==
  [p \in Plans |->
    <<[target |-> "x", value |-> 1], [target |-> "x", value |-> 2], [target |-> "x", value |-> 0]>>]

(* The first rule freezes at the second alert, the other one at the third. *)
MCAlertRules ==
  {[window |-> 2, max |-> 2, trigger |-> 2, enabled |-> TRUE],
   [window |-> 1, max |-> 1, trigger |-> 3, enabled |-> TRUE],
   [window |-> 1, max |-> 1, trigger |-> 1, enabled |-> FALSE]}

-----------------------------------------------------------------------------
vars == <<acting, hoVars, debtVars, breakerVars, planVars, alertVars>>

Init ==
  /\ acting \in {"handover", "debts", "breakers", "plans", "alerts"}
  /\ HoInit /\ DebtInit /\ BreakerInit /\ ShadowInit /\ AlertInit

Next ==
  /\ \/ acting = "handover" /\ HoNext /\ UNCHANGED <<debtVars, breakerVars, planVars, alertVars>>
     \/ acting = "debts" /\ DebtNext /\ UNCHANGED <<hoVars, breakerVars, planVars, alertVars>>
     \/ acting = "breakers" /\ BreakerNext /\ UNCHANGED <<hoVars, debtVars, planVars, alertVars>>
     \/ acting = "plans" /\ ShadowNext /\ UNCHANGED <<hoVars, debtVars, breakerVars, alertVars>>
     \/ acting = "alerts" /\ AlertNext /\ UNCHANGED <<hoVars, debtVars, breakerVars, planVars>>
  /\ UNCHANGED acting

Spec ==
  /\ Init /\ [][Next]_vars /\ HoFairness /\ DebtFairness
=============================================================================
