------------------------------ MODULE ModelBudget ------------------------------
(***************************************************************************)
(* The monthly model budgets (model_budget.py).  BudgetedModelGateway asks *)
(* before a model call and meters after it, in transactions of their own,  *)
(* and reserves nothing between them.  A scope may limit tokens and cost:  *)
(* one of the two is followed, cost in units of the eight places that are  *)
(* kept of it.  An agent's cap (agent_controls.py) is one more scope, with *)
(* a row of its own, checked and metered last: left out, as is the         *)
(* emergency stop, which is read first.                                    *)
(***************************************************************************)
EXTENDS Naturals, FiniteSets, FiniteSetsExt

CONSTANTS
  Org,         \* the tenant
  Workspaces,
  Callers,     \* threads of control that make model calls, late recording included
  First,       \* [Scope -> the limit at the start]
  Limits,      \* the limits an owner may set
  NoLimit,
  MaxCost,     \* of one call
  Percents,    \* ALERT_PERCENTS
  MaxMonth, MaxUsed, MaxChanges, MaxDeaths
    \* bounds: months, the usage at which calls are still made, scopes whose limit changes,
    \* crashes

ASSUME BudgetAssumption ==
  /\ IsFiniteSet(Callers) /\ IsFiniteSet(Workspaces)
  /\ Limits \subseteq Nat \cup {NoLimit} /\ NoLimit \notin Nat
  /\ MaxCost \in Nat /\ Percents \subseteq 1..100
  /\ MaxMonth \in Nat \ {0} /\ MaxUsed \in Nat /\ MaxChanges \in Nat /\ MaxDeaths \in Nat

VARIABLES
  kind,      \* what is limited, "tokens" or "cost"; it never changes
  limit,     \* [Scope -> Limits], the budgets
  peak,      \* [Scope -> Limits], the highest limit in force this month
  used,      \* [Workspaces -> [Month -> Nat]], model_usage_monthly
  month,     \* the month of the clock
  call,      \* [Callers -> the call it makes]
  told,      \* [Month -> [Scope \X Percents -> Nat]], alerts sent
  changed,   \* the scopes whose limit was changed
  deaths

vars == <<kind, limit, peak, used, month, call, told, changed, deaths>>

Month == 1..MaxMonth
Tenant == <<"tenant", Org>>
Scope == {Tenant} \cup ({"workspace"} \X Workspaces)

ASSUME FirstAssumption == First \in [Scope -> Nat \cup {NoLimit}]

\* pc: "idle"; about to compare the tenant's, the workspace's usage; "calls" (the provider
\* works); "adds" (its own row is written, the transaction is open); "tells"; "dead".
\* month: of the check, then of the record; tells: the crossings it saw.
Call == [pc : {"idle", "tenant", "workspace", "calls", "adds", "tells", "dead"},
         ws : Workspaces, month : Month, cost : 0..MaxCost,
         tells : SUBSET (Scope \X Percents)]

Resting(w) == [pc |-> "idle", ws |-> w, month |-> 1, cost |-> 0, tells |-> {}]

Init ==
  /\ kind \in {"tokens", "cost"}
  /\ limit = First /\ peak = First
  /\ used = [w \in Workspaces |-> [m \in Month |-> 0]]
  /\ month = 1
  /\ call \in [Callers -> {Resting(w) : w \in Workspaces}]
  /\ told = [m \in Month |-> [x \in Scope \X Percents |-> 0]]
  /\ changed = {} /\ deaths = 0

\* ModelBudgetStore.usage: what is committed.
Used(s, m) ==
  IF s = Tenant THEN MapThenSumSet(LAMBDA w : used[w][m], Workspaces) ELSE used[s[2]][m]

Goes(c, from, to) == call[c].pc = from /\ call' = [call EXCEPT ![c].pc = to]

Rests(c) == call' = [call EXCEPT ![c] = Resting(@.ws)]

-----------------------------------------------------------------------------
(* _check_call: each scope is read by a statement of its own *)

\* Mutant of Under: the limit itself still admits a call.
UnderOrAt(s, m) == limit[s] = NoLimit \/ Used(s, m) <= limit[s]

\* ScopeState.exceeded
Under(s, m) == limit[s] = NoLimit \/ Used(s, m) < limit[s]

Calls(c) ==
  /\ call[c].pc = "idle" /\ Used(Tenant, month) < MaxUsed
  /\ call' = [call EXCEPT ![c].pc = "tenant", ![c].month = month]
  /\ UNCHANGED <<limit, peak, used, month, told, changed, deaths>>

\* Over the limit the call is refused (ModelBudgetExceededError).
Compares(c, s, from, to) ==
  /\ IF Under(s, call[c].month) THEN Goes(c, from, to) ELSE call[c].pc = from /\ Rests(c)
  /\ UNCHANGED <<limit, peak, used, month, told, changed, deaths>>

ComparesTenant(c) == Compares(c, Tenant, "tenant", "workspace")
ComparesWorkspace(c) == Compares(c, <<"workspace", call[c].ws>>, "workspace", "calls")

\* The provider fails, or the stream ends with no usage reported: nothing is recorded.
\* Nor is it when recording fails (the error is logged).
RecordsNothing(c) ==
  /\ call[c].pc \in {"calls", "adds"}
  /\ Rests(c)
  /\ UNCHANGED <<limit, peak, used, month, told, changed, deaths>>

-----------------------------------------------------------------------------
(* record_model_usage *)

\* crossed: before < p% of the limit <= after, for a limit that is set and not 0
Crossings(s, before, after) ==
  IF limit[s] \in {NoLimit, 0} THEN {}
  ELSE {<<s, p>> : p \in {q \in Percents : /\ 100 * before < q * limit[s]
                                           /\ q * limit[s] <= 100 * after}}

\* The shares of a limit that are in use to the last place before or after a call that cost
\* something (the totals' smallest unit, at least).
Ties(s, before, after) ==
  IF limit[s] \in {NoLimit, 0} \/ before = after THEN {}
  ELSE {<<s, p>> : p \in {q \in Percents : q * limit[s] \in {100 * before, 100 * after}}}

\* What the comparison may find.  Tokens are whole numbers.  Of a cost, `before' is the
\* stored total less a cost that was not rounded, in floats, as is the share: what is equal
\* comes out as less or more.
Found(s, before, after) ==
  IF kind = "tokens" THEN {Crossings(s, before, after)}
  ELSE {(Crossings(s, before, after) \ Ties(s, before, after)) \cup odd :
          odd \in SUBSET Ties(s, before, after)}

\* Mutant of RowFree: the row is read and written without its lock.
RowFreeAlways(w) == TRUE

\* The upsert waits for a transaction that holds the workspace's row of this month.
RowFree(w) ==
  \A c \in Callers : ~(call[c].pc = "adds" /\ call[c].ws = w /\ call[c].month = month)

\* The upsert and the reads after it: totals with the own row, others' as committed.
Adds(c) ==
  LET w == call[c].ws IN
  /\ call[c].pc = "calls" /\ RowFree(w)
  /\ \E cost \in 0..MaxCost :
       \E org \in Found(Tenant, Used(Tenant, month), Used(Tenant, month) + cost),
          own \in Found(<<"workspace", w>>, used[w][month], used[w][month] + cost) :
         call' = [call EXCEPT ![c].pc = "adds", ![c].month = month, ![c].cost = cost,
                              ![c].tells = org \cup own]
  /\ UNCHANGED <<limit, peak, used, month, told, changed, deaths>>

Commits(c) ==
  /\ Goes(c, "adds", "tells")
  /\ used' = [used EXCEPT ![call[c].ws][call[c].month] = @ + call[c].cost]
  /\ UNCHANGED <<limit, peak, month, told, changed, deaths>>

\* The log line, the metric and the owners' notices of every crossing.
Tells(c) ==
  /\ call[c].pc = "tells"
  /\ told' = [told EXCEPT ![call[c].month] =
                [x \in Scope \X Percents |-> @[x] + IF x \in call[c].tells THEN 1 ELSE 0]]
  /\ Rests(c)
  /\ UNCHANGED <<limit, peak, used, month, changed, deaths>>

-----------------------------------------------------------------------------
(* Around the calls *)

\* The process of the call stops: an open transaction is rolled back.
Dies(c) ==
  /\ deaths < MaxDeaths /\ call[c].pc \notin {"idle", "dead"}
  /\ call' = [call EXCEPT ![c].pc = "dead", ![c].cost = 0,
       ![c].tells = IF call[c].pc = "tells" THEN @ ELSE {}]
  /\ deaths' = deaths + 1
  /\ UNCHANGED <<limit, peak, used, month, told, changed>>

\* set_budget
SetLimit(s, to) ==
  /\ s \in changed \/ Cardinality(changed) < MaxChanges
  /\ to # limit[s]
  /\ limit' = [limit EXCEPT ![s] = to]
  /\ peak' = [peak EXCEPT ![s] =
       IF NoLimit \in {@, to} THEN NoLimit ELSE IF @ < to THEN to ELSE @]
  /\ changed' = changed \cup {s}
  /\ UNCHANGED <<used, month, call, told, deaths>>

MonthEnds ==
  /\ month < MaxMonth
  /\ month' = month + 1
  /\ peak' = limit
  /\ UNCHANGED <<limit, used, call, told, changed, deaths>>

Moves ==
  \/ \E c \in Callers :
       \/ Calls(c) \/ ComparesTenant(c) \/ ComparesWorkspace(c)
       \/ RecordsNothing(c) \/ Adds(c) \/ Commits(c) \/ Tells(c) \/ Dies(c)
  \/ \E s \in Scope, to \in Limits : SetLimit(s, to)
  \/ MonthEnds

Next == Moves /\ UNCHANGED kind

Spec == Init /\ [][Next]_vars

-----------------------------------------------------------------------------
(* Correctness *)

BudgetTypeOK ==
  /\ kind \in {"tokens", "cost"}
  /\ limit \in [Scope -> Nat \cup {NoLimit}] /\ peak \in [Scope -> Nat \cup {NoLimit}]
  /\ used \in [Workspaces -> [Month -> Nat]]
  /\ month \in Month /\ call \in [Callers -> Call]
  /\ told \in [Month -> [Scope \X Percents -> Nat]]
  /\ changed \subseteq Scope /\ deaths \in 0..MaxDeaths

\* The pcs of a call that was let through by a scope's comparison and has not been
\* added to that scope's usage.
Past(s) ==
  IF s = Tenant THEN {"workspace", "calls", "adds"} ELSE {"calls", "adds"}

\* Those calls, and those whose check reads the usage of a month that is over.
InFlight(s) ==
  {c \in Callers : /\ call[c].pc \notin {"idle", "tells", "dead"}
                   /\ s = Tenant \/ call[c].ws = s[2]
                   /\ call[c].pc \in Past(s) \/ call[c].month # month}

BelowPeak(s) == IF peak[s] = 0 THEN 0 ELSE peak[s] - 1

\* "concurrent calls admitted just under a limit can overshoot it by at most those calls'
\* usage" (model_budget.py:21): over the month no scope passes its highest limit by more
\* than one call of each caller, although the scopes are read one after the other, a limit
\* changed and the month rolls in between.
WithinOvershoot ==
  /\ BudgetTypeOK
  /\ \A s \in Scope : peak[s] # NoLimit =>
       Used(s, month) + MaxCost * Cardinality(InFlight(s))
         <= BelowPeak(s) + MaxCost * Cardinality(Callers)

Telling(x, m) ==
  {c \in Callers : /\ call[c].pc \in {"tells", "dead"}
                   /\ call[c].month = m /\ x \in call[c].tells}

Reached(s, m, p) == limit[s] \notin {NoLimit, 0} /\ 100 * Used(s, m) >= p * limit[s]

Crossed(s, m, p) == told[m][<<s, p>>] + Cardinality(Telling(<<s, p>>, m))

\* "Crossings of a workspace limit are exact" (docs/model-gateway.md:145), for limits of
\* tokens: that one which has not changed is reached is announced once, by the call that did
\* it.  A share of a cost limit may be announced again, or never.
CrossedOnce ==
  kind = "tokens" =>
    \A s \in Scope \ {Tenant}, m \in Month, p \in Percents : s \notin changed =>
      Crossed(s, m, p) = IF Reached(s, m, p) THEN 1 ELSE 0
=============================================================================
