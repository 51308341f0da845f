----------------------------- MODULE MCModelBudget -----------------------------
(* ModelBudget on a small organization. *)
EXTENDS ModelBudget, TLC

FirstLimits ==
  [s \in Scope |-> IF s = Tenant THEN 2 ELSE 1]

CallerSymmetry == Permutations(Callers)

\* What is announced of a cost guards no action, and nothing is claimed of it.
Announced ==
  IF kind = "tokens" THEN <<call, told>>
  ELSE <<[c \in Callers |-> [call[c] EXCEPT !.tells = {}]], {}>>

BudgetView == <<kind, limit, peak, used, month, Announced, changed, deaths>>
=============================================================================
