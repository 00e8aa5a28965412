-------------------------- MODULE MCAutomationRuns --------------------------
(***************************************************************************)
(* Instances of AutomationRuns: an email drafted at once, then an approval  *)
(* card that gates a CRM write and an email, then an AI step and a second   *)
(* CRM write that acts on what it wrote.                                    *)
(***************************************************************************)
EXTENDS AutomationRuns, TLC

MCPlan == <<"email", "card", "crm", "email", "agent", "only_if", "crm">>
MCShortPlan == <<"crm", "agent", "crm">>

Swaps == Permutations(People)
=============================================================================
