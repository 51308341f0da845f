--------------------------- MODULE ModelBudgetProofs ---------------------------
(***************************************************************************)
(* Theorems about ModelBudget, for every number of workspaces and callers, *)
(* every limit, cost, percentage and number of months, changes and deaths. *)
(***************************************************************************)
EXTENDS ModelBudget, TLAPS, FiniteSetTheorems, WellFoundedInduction, NaturalsInduction

-----------------------------------------------------------------------------
(* The usage of the tenant: a sum over its workspaces *)

LEMMA BudgetBounds ==
  /\ IsFiniteSet(Callers) /\ IsFiniteSet(Workspaces)
  /\ NoLimit \notin Nat /\ MaxCost \in Nat
  /\ \A p \in Percents : p \in Nat /\ 1 <= p
  /\ \A m \in Month : m \in Nat /\ 1 <= m
  /\ 1 \in Month
BY BudgetAssumption DEF Month

\* A set of numbers that is not empty has a least one.
LEMMA LeastNumber ==
  ASSUME NEW S \in SUBSET Nat, S # {}
  PROVE  \E j \in S : \A k \in S : j <= k
<1>1. PICK j \in S : \A k \in S : ~ (<<k, j>> \in OpToRel(<, Nat))
  BY NatLessThanWellFounded, WFMin, Zenon
<1>2. \A k \in S : ~ (k < j)
  BY <1>1, Zenon DEF OpToRel
<1> QED
  BY <1>2

SomeOf(s) == CHOOSE w \in s : TRUE

\* What the fold over s adds, when g is the fold over its subsets.
SumStep(g, U, m, s) ==
  IF s = {} THEN 0 ELSE U[SomeOf(s)][m] + g[s \ {SomeOf(s)}]

\* g adds the usage U of month m up over every set of workspaces.
AddsUp(g, U, m) == g = [s \in SUBSET Workspaces |-> SumStep(g, U, m, s)]

TenantUse(U, m) == MapThenSumSet(LAMBDA w : U[w][m], Workspaces)

Usages == [Workspaces -> [Month -> Nat]]

LEMMA TakeOne ==
  ASSUME NEW s \in SUBSET Workspaces
  PROVE  /\ Cardinality(s) \in Nat
         /\ Cardinality(s) = 0 => s = {}
         /\ s # {} => /\ SomeOf(s) \in s /\ s \ {SomeOf(s)} \in SUBSET Workspaces
                      /\ Cardinality(s \ {SomeOf(s)}) = Cardinality(s) - 1
                      /\ Cardinality(s) - 1 \in Nat
<1>1. IsFiniteSet(s)
  BY BudgetBounds, FS_Subset
<1>2. Cardinality(s) \in Nat /\ (Cardinality(s) = 0 => s = {})
  BY <1>1, FS_CardinalityType, FS_EmptySet
<1>3. ASSUME s # {}
      PROVE  SomeOf(s) \in s
  BY <1>3 DEF SomeOf
<1>4. ASSUME s # {}
      PROVE  /\ Cardinality(s \ {SomeOf(s)}) = Cardinality(s) - 1
             /\ Cardinality(s) - 1 \in Nat
  <2>1. Cardinality(s \ {SomeOf(s)}) = Cardinality(s) - 1
    BY <1>1, <1>3, <1>4, FS_RemoveElement
  <2>2. IsFiniteSet(s \ {SomeOf(s)})
    BY <1>1, FS_Subset
  <2> QED
    BY <2>1, <2>2, FS_CardinalityType
<1> QED
  BY <1>2, <1>3, <1>4

\* A property of sets of workspaces that fails for one fails for a smallest one.
LEMMA SmallestSet ==
  ASSUME NEW B \in SUBSET (SUBSET Workspaces), B # {}
  PROVE  \E s \in B : \A t \in SUBSET Workspaces : Cardinality(t) < Cardinality(s) => t \notin B
<1> DEFINE S == {Cardinality(s) : s \in B}
<1>1. S \in SUBSET Nat /\ S # {}
  BY TakeOne
<1>2. PICK j \in S : \A k \in S : j <= k
  BY <1>1, LeastNumber
<1>3. PICK s \in B : j = Cardinality(s)
  BY <1>2
<1>4. ASSUME NEW t \in SUBSET Workspaces, Cardinality(t) < Cardinality(s), t \in B
      PROVE  FALSE
  BY <1>1, <1>2, <1>3, <1>4, TakeOne
<1> QED
  BY <1>3, <1>4

\* The recursive definition of the sum has a solution: by induction over the size n of
\* the sets on which a function follows it.
LEMMA SumExists ==
  ASSUME NEW U \in Usages, NEW m \in Month
  PROVE  \E g : AddsUp(g, U, m)
<1> DEFINE Follows(g, n) == \A s \in SUBSET Workspaces :
             Cardinality(s) <= n => g[s] = SumStep(g, U, m, s)
           Bad == {n \in Nat : ~ \E g \in [SUBSET Workspaces -> Nat] : Follows(g, n)}
<1>1. 0 \notin Bad
  <2> DEFINE g == [s \in SUBSET Workspaces |-> 0]
  <2>1. g \in [SUBSET Workspaces -> Nat]
    OBVIOUS
  <2>2. ASSUME NEW s \in SUBSET Workspaces, Cardinality(s) <= 0
        PROVE  g[s] = SumStep(g, U, m, s)
    <3>1. s = {}
      <4>1. /\ Cardinality(s) \in Nat
            /\ Cardinality(s) = 0 => s = {}
        BY TakeOne, Zenon
      <4>2. Cardinality(s) = 0
        BY <2>2, <4>1
      <4> QED
        BY <4>1, <4>2
    <3> QED
      BY <3>1 DEF SumStep
  <2> QED
    BY <2>1, <2>2
<1>2. ASSUME NEW n \in Nat, n # 0, n - 1 \notin Bad
      PROVE  n \notin Bad
  <2>0. n - 1 \in Nat
    BY <1>2
  <2>1. PICK g \in [SUBSET Workspaces -> Nat] : Follows(g, n - 1)
    BY <1>2, <2>0
  <2> DEFINE h == [s \in SUBSET Workspaces |->
                     IF Cardinality(s) = n THEN SumStep(g, U, m, s) ELSE g[s]]
  <2>2. ASSUME NEW s \in SUBSET Workspaces
        PROVE  SumStep(g, U, m, s) \in Nat
    <3>1. CASE s = {}
      BY <3>1 DEF SumStep
    <3>2. CASE s # {}
      <4>1. /\ SomeOf(s) \in Workspaces /\ s \ {SomeOf(s)} \in SUBSET Workspaces
        BY <3>2, TakeOne
      <4>2. U[SomeOf(s)][m] \in Nat
        BY <4>1 DEF Usages
      <4>3. g[s \ {SomeOf(s)}] \in Nat
        BY <4>1, <2>1
      <4> QED
        BY <3>2, <4>2, <4>3 DEF SumStep
    <3> QED
      BY <3>1, <3>2
  <2>3. h \in [SUBSET Workspaces -> Nat]
    BY <2>2
  <2>4. ASSUME NEW s \in SUBSET Workspaces, Cardinality(s) <= n
        PROVE  h[s] = SumStep(h, U, m, s)
    <3>1. h[s] = SumStep(g, U, m, s)
      <4>0. Cardinality(s) \in Nat
        BY TakeOne, Zenon
      <4>1. Cardinality(s) # n => Cardinality(s) <= n - 1
        BY <1>2, <2>4, <4>0
      <4> QED
        BY <2>1, <4>1
    <3>2. ASSUME s # {}
          PROVE  h[s \ {SomeOf(s)}] = g[s \ {SomeOf(s)}]
      <4>1. s \ {SomeOf(s)} \in SUBSET Workspaces
        BY <3>2, TakeOne
      <4>2. /\ Cardinality(s) \in Nat
            /\ Cardinality(s \ {SomeOf(s)}) = Cardinality(s) - 1
        BY <3>2, TakeOne, Zenon
      <4>3. Cardinality(s \ {SomeOf(s)}) # n
        BY <1>2, <2>4, <4>2
      <4> QED
        BY <4>1, <4>3
    <3> HIDE DEF h
    <3> QED
      BY <3>1, <3>2 DEF SumStep
  <2> HIDE DEF h
  <2> QED
    BY <2>3, <2>4
<1>3. Bad = {}
  <2> SUFFICES ASSUME Bad # {} PROVE FALSE
    OBVIOUS
  <2>1. PICK n \in Bad : \A k \in Bad : n <= k
    BY LeastNumber
  <2>2. n \in Nat /\ n # 0
    BY <1>1
  <2> HIDE DEF Bad
  <2>3. n - 1 \notin Bad
    BY <2>1, <2>2
  <2> QED
    BY <1>2, <2>1, <2>2, <2>3
<1>4. Cardinality(Workspaces) \in Nat
  BY TakeOne
<1>5. PICK g \in [SUBSET Workspaces -> Nat] : Follows(g, Cardinality(Workspaces))
  BY <1>3, <1>4
<1>6. \A s \in SUBSET Workspaces : Cardinality(s) <= Cardinality(Workspaces)
  BY BudgetBounds, FS_Subset
<1>7. g = [s \in SUBSET Workspaces |-> g[s]]
  BY <1>5
<1>8. \A s \in SUBSET Workspaces : g[s] = SumStep(g, U, m, s)
  BY <1>5, <1>6
<1>9. g = [s \in SUBSET Workspaces |-> SumStep(g, U, m, s)]
  BY <1>7, <1>8, Zenon
<1> QED
  BY <1>9 DEF AddsUp

LEMMA SumIsFold ==
  ASSUME NEW U \in Usages, NEW m \in Month
  PROVE  \E g : AddsUp(g, U, m) /\ TenantUse(U, m) = g[Workspaces]
<1>1. \E g : AddsUp(g, U, m)
  BY SumExists
<1> QED
  BY <1>1 DEF TenantUse, MapThenSumSet, MapThenFoldSet, AddsUp, SumStep, SomeOf

\* One call's usage more in one workspace and month is that much more of the tenant's,
\* and no more in another month.
LEMMA TenantUseAdds ==
  ASSUME NEW U \in Usages, NEW V \in Usages, NEW m \in Month,
         NEW w \in Workspaces, NEW c \in Nat,
         \A v \in Workspaces : V[v][m] = U[v][m] + IF v = w THEN c ELSE 0
  PROVE  TenantUse(U, m) \in Nat /\ TenantUse(V, m) = TenantUse(U, m) + c
<1>1. PICK g : AddsUp(g, U, m) /\ TenantUse(U, m) = g[Workspaces]
  BY SumIsFold
<1>2. PICK h : AddsUp(h, V, m) /\ TenantUse(V, m) = h[Workspaces]
  BY SumIsFold
<1> DEFINE More(s) == IF w \in s THEN c ELSE 0
           B == {s \in SUBSET Workspaces : ~(g[s] \in Nat /\ h[s] = g[s] + More(s))}
<1>3. ASSUME NEW s \in SUBSET Workspaces,
             \A t \in SUBSET Workspaces : Cardinality(t) < Cardinality(s) => t \notin B
      PROVE  g[s] \in Nat /\ h[s] = g[s] + More(s)
  <2>1. g[s] = SumStep(g, U, m, s) /\ h[s] = SumStep(h, V, m, s)
    BY <1>1, <1>2 DEF AddsUp
  <2>2. CASE s = {}
    BY <2>1, <2>2 DEF SumStep
  <2>3. CASE s # {}
    <3> DEFINE x == SomeOf(s)
               t == s \ {x}
    <3>1. x \in s /\ x \in Workspaces /\ t \in SUBSET Workspaces
      BY <2>3, TakeOne
    <3>2. Cardinality(t) < Cardinality(s)
      <4>1. /\ Cardinality(s) \in Nat
            /\ Cardinality(t) = Cardinality(s) - 1
        BY <2>3, TakeOne, Zenon
      <4> QED
        BY <4>1
    <3>3. t \notin B
      BY <1>3, <3>1, <3>2
    <3>4. g[t] \in Nat /\ h[t] = g[t] + More(t)
      BY <3>1, <3>3
    <3>5. g[s] = U[x][m] + g[t] /\ h[s] = V[x][m] + h[t]
      BY <2>1, <2>3 DEF SumStep
    <3>6. U[x][m] \in Nat /\ V[x][m] = U[x][m] + IF x = w THEN c ELSE 0
      BY <3>1 DEF Usages
    <3>7. x = w => More(t) = 0 /\ More(s) = c
      BY <3>1
    <3>8. x # w => More(t) = More(s)
      BY <3>1
    <3>9. More(t) \in Nat /\ More(s) \in Nat
      OBVIOUS
    <3> HIDE DEF x, t, More
    <3> QED
      BY <3>4, <3>5, <3>6, <3>7, <3>8, <3>9
  <2> QED
    BY <2>2, <2>3
<1>4. B = {}
  <2> SUFFICES ASSUME B # {} PROVE FALSE
    OBVIOUS
  <2>1. PICK s \in B : \A t \in SUBSET Workspaces :
          Cardinality(t) < Cardinality(s) => t \notin B
    BY SmallestSet
  <2> QED
    BY <1>3, <2>1
<1>5. Workspaces \in SUBSET Workspaces /\ More(Workspaces) = c
  OBVIOUS
<1> QED
  BY <1>1, <1>2, <1>4, <1>5

\* The usage of a month in which no workspace used anything
LEMMA TenantUseOfNone ==
  ASSUME NEW U \in Usages, NEW m \in Month, \A v \in Workspaces : U[v][m] = 0
  PROVE  TenantUse(U, m) = 0
<1>1. PICK g : AddsUp(g, U, m) /\ TenantUse(U, m) = g[Workspaces]
  BY SumIsFold
<1> DEFINE B == {s \in SUBSET Workspaces : g[s] # 0}
<1>2. ASSUME NEW s \in SUBSET Workspaces,
             \A t \in SUBSET Workspaces : Cardinality(t) < Cardinality(s) => t \notin B
      PROVE  g[s] = 0
  <2>1. g[s] = SumStep(g, U, m, s)
    BY <1>1 DEF AddsUp
  <2>2. CASE s = {}
    BY <2>1, <2>2 DEF SumStep
  <2>3. CASE s # {}
    <3>1. SomeOf(s) \in Workspaces /\ s \ {SomeOf(s)} \in SUBSET Workspaces
      BY <2>3, TakeOne
    <3>2. Cardinality(s \ {SomeOf(s)}) < Cardinality(s)
      <4>1. /\ Cardinality(s) \in Nat
            /\ Cardinality(s \ {SomeOf(s)}) = Cardinality(s) - 1
        BY <2>3, TakeOne, Zenon
      <4> QED
        BY <4>1
    <3>3. g[s \ {SomeOf(s)}] = 0
      BY <1>2, <3>1, <3>2
    <3> QED
      BY <2>1, <2>3, <3>1, <3>3 DEF SumStep
  <2> QED
    BY <2>2, <2>3
<1>3. B = {}
  <2> SUFFICES ASSUME B # {} PROVE FALSE
    OBVIOUS
  <2>1. PICK s \in B : \A t \in SUBSET Workspaces :
          Cardinality(t) < Cardinality(s) => t \notin B
    BY SmallestSet
  <2> QED
    BY <1>2, <2>1
<1> QED
  BY <1>1, <1>3

-----------------------------------------------------------------------------
(* The steps of a call *)

Pcs == {"idle", "tenant", "workspace", "calls", "adds", "tells", "dead"}

\* Caller c's call gets these fields; its workspace and the calls of the others stay.
Moved(c, pc, m, cost, tells) ==
  /\ call' \in [Callers -> Call]
  /\ call'[c].pc = pc /\ call'[c].ws = call[c].ws /\ call'[c].month = m
  /\ call'[c].cost = cost /\ call'[c].tells = tells
  /\ \A d \in Callers : d # c => call'[d] = call[d]

LEMMA CallFields ==
  ASSUME BudgetTypeOK, NEW c \in Callers
  PROVE  /\ call[c] \in Call
         /\ call[c].pc \in Pcs /\ call[c].ws \in Workspaces /\ call[c].month \in Month
         /\ call[c].cost \in 0..MaxCost /\ call[c].tells \in SUBSET (Scope \X Percents)
         /\ month \in Month /\ 0 \in 0..MaxCost
         /\ \A m \in Month : used[call[c].ws][m] \in Nat
BY BudgetBounds DEF BudgetTypeOK, Call, Pcs

LEMMA CallWrites ==
  ASSUME NEW x \in Call, NEW a \in Pcs, NEW m \in Month, NEW k \in 0..MaxCost,
         NEW t \in SUBSET (Scope \X Percents)
  PROVE  /\ [x EXCEPT !.pc = a] \in Call
         /\ [x EXCEPT !.pc = a, !.month = m] \in Call
         /\ [x EXCEPT !.pc = a, !.cost = k, !.tells = t] \in Call
         /\ [x EXCEPT !.pc = a, !.month = m, !.cost = k, !.tells = t] \in Call
<1>1. /\ \A y \in Call : [y EXCEPT !.pc = a] \in Call /\ [y EXCEPT !.month = m] \in Call
      /\ \A y \in Call : [y EXCEPT !.cost = k] \in Call
      /\ \A y \in Call : [y EXCEPT !.tells = t] \in Call
  BY DEF Call, Pcs
<1>2. [x EXCEPT !.pc = a] \in Call
  BY <1>1
<1>3. [[x EXCEPT !.pc = a] EXCEPT !.month = m] \in Call
  BY <1>1, <1>2
<1>4. [[[x EXCEPT !.pc = a] EXCEPT !.month = m] EXCEPT !.cost = k] \in Call
  BY <1>1, <1>3
<1>5. [[[[x EXCEPT !.pc = a] EXCEPT !.month = m] EXCEPT !.cost = k] EXCEPT !.tells = t] \in Call
  BY <1>1, <1>4
<1>6. [[x EXCEPT !.pc = a] EXCEPT !.cost = k] \in Call
  BY <1>1, <1>2
<1>7. [[[x EXCEPT !.pc = a] EXCEPT !.cost = k] EXCEPT !.tells = t] \in Call
  BY <1>1, <1>6
<1> QED
  BY <1>2, <1>3, <1>5, <1>7

LEMMA MovedBy ==
  ASSUME BudgetTypeOK, NEW c \in Callers, NEW x \in Call, x.ws = call[c].ws,
         call' = [call EXCEPT ![c] = x]
  PROVE  Moved(c, x.pc, x.month, x.cost, x.tells)
BY DEF BudgetTypeOK, Moved

LEMMA GoesMoves ==
  ASSUME BudgetTypeOK, NEW c \in Callers, NEW from, NEW to \in Pcs, Goes(c, from, to)
  PROVE  call[c].pc = from /\ Moved(c, to, call[c].month, call[c].cost, call[c].tells)
<1> DEFINE x == [call[c] EXCEPT !.pc = to]
<1>1. call[c] \in Call
  BY CallFields
<1>2. x \in Call
  BY <1>1 DEF Call, Pcs
<1>3. /\ x.pc = to /\ x.ws = call[c].ws /\ x.month = call[c].month
      /\ x.cost = call[c].cost /\ x.tells = call[c].tells
  BY <1>1 DEF Call
<1>4. call[c].pc = from /\ call' = [call EXCEPT ![c] = x]
  BY DEF Goes
<1> HIDE DEF x
<1>5. Moved(c, x.pc, x.month, x.cost, x.tells)
  BY <1>2, <1>3, <1>4, MovedBy
<1> QED
  BY <1>3, <1>4, <1>5

LEMMA RestsMoves ==
  ASSUME BudgetTypeOK, NEW c \in Callers, Rests(c)
  PROVE  Moved(c, "idle", 1, 0, {})
<1> DEFINE x == [pc |-> "idle", ws |-> call[c].ws, month |-> 1, cost |-> 0, tells |-> {}]
<1>1. x \in Call
  BY CallFields, BudgetBounds DEF Call
<1>2. /\ x.pc = "idle" /\ x.ws = call[c].ws /\ x.month = 1 /\ x.cost = 0 /\ x.tells = {}
  OBVIOUS
<1>3. call' = [call EXCEPT ![c] = x]
  BY DEF Rests, Resting
<1> HIDE DEF x
<1>4. Moved(c, x.pc, x.month, x.cost, x.tells)
  BY <1>1, <1>2, <1>3, MovedBy
<1> QED
  BY <1>2, <1>4

\* What the transaction of c sees that a call of so many tokens crosses.
Seen(c, cost) ==
  Crossings(Tenant, Used(Tenant, month), Used(Tenant, month) + cost)
    \cup Crossings(<<"workspace", call[c].ws>>, used[call[c].ws][month],
                   used[call[c].ws][month] + cost)

LEMMA FoundTypes ==
  ASSUME NEW s \in Scope, NEW before, NEW after
  PROVE  /\ Found(s, before, after) \subseteq SUBSET (Scope \X Percents)
         /\ kind = "tokens" => Found(s, before, after) = {Crossings(s, before, after)}
<1>1. /\ Crossings(s, before, after) \subseteq Scope \X Percents
      /\ Ties(s, before, after) \subseteq Scope \X Percents
  BY DEF Crossings, Ties
<1>2. CASE kind = "tokens"
  BY <1>1, <1>2 DEF Found
<1>3. CASE kind # "tokens"
  <2>1. ASSUME NEW tells \in Found(s, before, after)
        PROVE  tells \in SUBSET (Scope \X Percents)
    <3>1. PICK odd \in SUBSET Ties(s, before, after) :
            tells = (Crossings(s, before, after) \ Ties(s, before, after)) \cup odd
      BY <1>3, <2>1 DEF Found
    <3> QED
      BY <1>1, <3>1
  <2> QED
    BY <1>3, <2>1
<1> QED
  BY <1>2, <1>3

LEMMA CallsMoves ==
  ASSUME BudgetTypeOK, NEW c \in Callers, Calls(c)
  PROVE  call[c].pc = "idle" /\ Moved(c, "tenant", month, call[c].cost, call[c].tells)
<1> DEFINE x == [call[c] EXCEPT !.pc = "tenant", !.month = month]
<1>1. call[c] \in Call /\ month \in Month
  BY CallFields
<1>2. x \in Call
  BY <1>1 DEF Call
<1>3. /\ x.pc = "tenant" /\ x.ws = call[c].ws /\ x.month = month
      /\ x.cost = call[c].cost /\ x.tells = call[c].tells
  BY <1>1 DEF Call
<1>4. call[c].pc = "idle" /\ call' = [call EXCEPT ![c] = x]
  BY DEF Calls
<1> HIDE DEF x
<1>5. Moved(c, x.pc, x.month, x.cost, x.tells)
  BY <1>2, <1>3, <1>4, MovedBy
<1> QED
  BY <1>3, <1>4, <1>5

LEMMA AddsMoves ==
  ASSUME BudgetTypeOK, NEW c \in Callers, Adds(c)
  PROVE  /\ call[c].pc = "calls" /\ RowFree(call[c].ws)
         /\ \E cost \in 0..MaxCost, tells \in SUBSET (Scope \X Percents) :
              /\ Moved(c, "adds", month, cost, tells)
              /\ kind = "tokens" => tells = Seen(c, cost)
<1> DEFINE w == call[c].ws
<1>1. PICK cost \in 0..MaxCost :
        \E org \in Found(Tenant, Used(Tenant, month), Used(Tenant, month) + cost),
           own \in Found(<<"workspace", w>>, used[w][month], used[w][month] + cost) :
          call' = [call EXCEPT ![c].pc = "adds", ![c].month = month, ![c].cost = cost,
                               ![c].tells = org \cup own]
  BY Zenon DEF Adds
<1>8. PICK org \in Found(Tenant, Used(Tenant, month), Used(Tenant, month) + cost),
           own \in Found(<<"workspace", w>>, used[w][month], used[w][month] + cost) :
        call' = [call EXCEPT ![c].pc = "adds", ![c].month = month, ![c].cost = cost,
                             ![c].tells = org \cup own]
  BY <1>1, Zenon
<1>9. Tenant \in Scope /\ <<"workspace", w>> \in Scope
  BY CallFields DEF Scope
<1>10. org \in SUBSET (Scope \X Percents) /\ own \in SUBSET (Scope \X Percents)
  BY <1>8, <1>9, FoundTypes
<1>11. kind = "tokens" => org \cup own = Seen(c, cost)
  BY <1>8, <1>9, FoundTypes DEF Seen
<1> DEFINE t == org \cup own
           x == [call[c] EXCEPT !.pc = "adds", !.month = month, !.cost = cost, !.tells = t]
<1>2. call[c] \in Call /\ month \in Month /\ t \in SUBSET (Scope \X Percents)
  BY <1>10, CallFields
<1>3. call' = [call EXCEPT ![c] = x]
  BY <1>8
<1>12. kind = "tokens" => t = Seen(c, cost)
  BY <1>11
<1> HIDE DEF t
<1>4. x \in Call
  BY <1>2, CallWrites DEF Pcs
<1>5. /\ x.pc = "adds" /\ x.ws = call[c].ws /\ x.month = month
      /\ x.cost = cost /\ x.tells = t
  BY <1>2 DEF Call
<1> HIDE DEF x
<1>6. Moved(c, x.pc, x.month, x.cost, x.tells)
  BY <1>3, <1>4, <1>5, MovedBy
<1>7. Moved(c, "adds", month, cost, t)
  BY <1>5, <1>6
<1> QED
  BY <1>2, <1>7, <1>12 DEF Adds

LEMMA DiesMoves ==
  ASSUME BudgetTypeOK, NEW c \in Callers, Dies(c)
  PROVE  /\ call[c].pc \notin {"idle", "dead"}
         /\ Moved(c, "dead", call[c].month, 0,
                  IF call[c].pc = "tells" THEN call[c].tells ELSE {})
<1> DEFINE t == IF call[c].pc = "tells" THEN call[c].tells ELSE {}
           x == [call[c] EXCEPT !.pc = "dead", !.cost = 0, !.tells = t]
<1>1. /\ call[c] \in Call /\ call[c].month \in Month /\ 0 \in 0..MaxCost
      /\ t \in SUBSET (Scope \X Percents)
  BY CallFields
<1>3. call' = [call EXCEPT ![c] = x]
  BY DEF Dies
<1> HIDE DEF t
<1>4. x \in Call
  BY <1>1, CallWrites DEF Pcs
<1>5. /\ x.pc = "dead" /\ x.ws = call[c].ws /\ x.month = call[c].month
      /\ x.cost = 0 /\ x.tells = t
  BY <1>1 DEF Call
<1> HIDE DEF x
<1>6. Moved(c, x.pc, x.month, x.cost, x.tells)
  BY <1>3, <1>4, <1>5, MovedBy
<1>7. Moved(c, "dead", call[c].month, 0, t)
  BY <1>5, <1>6
<1> QED
  BY <1>7 DEF Dies, t

-----------------------------------------------------------------------------
(* Scopes and their usage *)

\* The usage of a scope in a month, when U is what the workspaces used.
Use(U, s, m) == IF s = Tenant THEN TenantUse(U, m) ELSE U[s[2]][m]

LEMMA UsedIsUse ==
  /\ \A s, m : Used(s, m) = Use(used, s, m)
  /\ \A s : Used(s, month) = Use(used, s, month)
BY DEF Used, Use, TenantUse

LEMMA UsedIsUseNext ==
  /\ \A s, m : Used(s, m)' = Use(used', s, m)
  /\ \A s : Used(s, month)' = Use(used', s, month')
<1>1. (/\ \A s, m : Used(s, m) = Use(used, s, m)
       /\ \A s : Used(s, month) = Use(used, s, month))'
  BY UsedIsUse, PTL
<1> QED
  BY <1>1

LEMMA ScopeCases ==
  ASSUME NEW s \in Scope
  PROVE  \/ s = Tenant
         \/ s # Tenant /\ s[2] \in Workspaces /\ s = <<"workspace", s[2]>>
BY DEF Scope, Tenant

LEMMA WorkspaceScope ==
  ASSUME NEW w \in Workspaces
  PROVE  /\ <<"workspace", w>> \in Scope \ {Tenant} /\ <<"workspace", w>>[2] = w
         /\ \A v \in Workspaces : <<"workspace", v>> = <<"workspace", w>> => v = w
BY DEF Scope, Tenant

LEMMA UseTypes ==
  ASSUME NEW U \in Usages, NEW s \in Scope, NEW m \in Month
  PROVE  /\ Use(U, s, m) \in Nat
         /\ (\A w \in Workspaces : U[w][m] = 0) => Use(U, s, m) = 0
<1>1. CASE s = Tenant
  <2>1. CASE \E w \in Workspaces : TRUE
    <3>1. PICK w \in Workspaces : TRUE
      BY <2>1
    <3>2. \A v \in Workspaces : U[v][m] = U[v][m] + IF v = w THEN 0 ELSE 0
      BY DEF Usages
    <3>3. TenantUse(U, m) \in Nat
      BY <3>2, TenantUseAdds
    <3> QED
      BY <1>1, <3>3, TenantUseOfNone DEF Use
  <2>2. CASE ~ \E w \in Workspaces : TRUE
    BY <1>1, <2>2, TenantUseOfNone DEF Use
  <2> QED
    BY <2>1, <2>2
<1>2. CASE s # Tenant
  BY <1>2, ScopeCases DEF Use, Usages
<1> QED
  BY <1>1, <1>2

\* A call is added to what its workspace used in its month.
LEMMA CommitAdds ==
  ASSUME BudgetTypeOK, NEW c \in Callers, Commits(c)
  PROVE  /\ used' \in Usages
         /\ \A v \in Workspaces, m \in Month :
              used'[v][m] = used[v][m]
                + IF call[c].month = m /\ v = call[c].ws THEN call[c].cost ELSE 0
<1> DEFINE w == call[c].ws
           n == call[c].month
           k == call[c].cost
<1>1. w \in Workspaces /\ n \in Month /\ k \in Nat
  <2>1. w \in Workspaces /\ n \in Month /\ k \in 0..MaxCost
    BY CallFields, Zenon
  <2> QED
    BY <2>1, BudgetBounds
<1>2. used' = [used EXCEPT ![w][n] = @ + k] /\ used \in Usages
  BY DEF Commits, BudgetTypeOK, Usages
<1> HIDE DEF w, n, k
<1>3. /\ used[w] \in [Month -> Nat] /\ used[w][n] \in Nat
      /\ used' = [used EXCEPT ![w] = [used[w] EXCEPT ![n] = used[w][n] + k]]
  BY <1>1, <1>2 DEF Usages
<1>4. used' \in Usages
  <2>1. [used[w] EXCEPT ![n] = used[w][n] + k] \in [Month -> Nat]
    BY <1>1, <1>3
  <2> QED
    BY <1>1, <1>2, <1>3, <2>1 DEF Usages
<1>5. ASSUME NEW v \in Workspaces, NEW m \in Month
      PROVE  used'[v][m] = used[v][m] + IF n = m /\ v = w THEN k ELSE 0
  <2>1. ASSUME v # w
        PROVE  used'[v][m] = used[v][m] + 0
    BY <1>2, <1>3, <2>1 DEF Usages
  <2>2. used'[w] = [used[w] EXCEPT ![n] = used[w][n] + k]
    BY <1>1, <1>2, <1>3 DEF Usages
  <2>3. used'[w][m] = used[w][m] + IF n = m THEN k ELSE 0
    BY <1>1, <1>3, <2>2
  <2> QED
    BY <2>1, <2>3
<1> QED
  BY <1>4, <1>5 DEF w, n, k

\* What a scope sees of it in month m
LEMMA UseAdds ==
  ASSUME NEW U \in Usages, NEW V \in Usages, NEW w \in Workspaces, NEW n \in Month,
         NEW k \in Nat, NEW m \in Month, NEW s \in Scope,
         \A v \in Workspaces : V[v][m] = U[v][m] + IF n = m /\ v = w THEN k ELSE 0
  PROVE  Use(V, s, m) = Use(U, s, m)
           + IF n = m /\ (s = Tenant \/ s[2] = w) THEN k ELSE 0
<1>1. CASE s = Tenant
  <2> DEFINE c == IF n = m THEN k ELSE 0
  <2>1. \A v \in Workspaces : V[v][m] = U[v][m] + IF v = w THEN c ELSE 0
    OBVIOUS
  <2>2. c \in Nat
    OBVIOUS
  <2> HIDE DEF c
  <2>3. TenantUse(V, m) = TenantUse(U, m) + c
    BY <2>1, <2>2, TenantUseAdds
  <2> QED
    BY <1>1, <2>3 DEF Use, c
<1>2. CASE s # Tenant
  BY <1>2, ScopeCases DEF Use
<1> QED
  BY <1>1, <1>2

-----------------------------------------------------------------------------
(* Types *)

LEMMA BudgetTypes ==
  BudgetTypeOK /\ [Next]_vars => BudgetTypeOK'
<1> SUFFICES ASSUME BudgetTypeOK, [Next]_vars PROVE BudgetTypeOK'
  OBVIOUS
<1>0. MaxMonth \in Nat \ {0} /\ MaxDeaths \in Nat /\ Limits \subseteq Nat \cup {NoLimit}
  BY BudgetAssumption
<1> kind' = kind
  BY DEF Next, vars
<1>1. ASSUME NEW c \in Callers, call' \in [Callers -> Call],
             UNCHANGED <<limit, peak, used, month, told, changed, deaths>>
      PROVE  BudgetTypeOK'
  BY <1>1 DEF BudgetTypeOK
<1>2. ASSUME NEW c \in Callers, Rests(c) PROVE call' \in [Callers -> Call]
  BY <1>2, RestsMoves DEF Moved
<1>3. ASSUME NEW c \in Callers, NEW from, NEW to \in Pcs, Goes(c, from, to)
      PROVE  call' \in [Callers -> Call]
  BY <1>3, GoesMoves DEF Moved
<1>4. ASSUME NEW c \in Callers, Calls(c) PROVE BudgetTypeOK'
  BY <1>1, <1>4, CallsMoves DEF Moved, Calls
<1>5. ASSUME NEW c \in Callers, NEW s, NEW from, NEW to \in Pcs, Compares(c, s, from, to)
      PROVE  BudgetTypeOK'
  BY <1>1, <1>2, <1>3, <1>5 DEF Compares
<1>6. ASSUME NEW c \in Callers, ComparesTenant(c) \/ ComparesWorkspace(c)
      PROVE  BudgetTypeOK'
  BY <1>5, <1>6 DEF ComparesTenant, ComparesWorkspace, Pcs
<1>7. ASSUME NEW c \in Callers, RecordsNothing(c) PROVE BudgetTypeOK'
  BY <1>1, <1>2, <1>7 DEF RecordsNothing
<1>8. ASSUME NEW c \in Callers, Adds(c) PROVE BudgetTypeOK'
  BY <1>1, <1>8, AddsMoves DEF Moved, Adds
<1>9. ASSUME NEW c \in Callers, Commits(c) PROVE BudgetTypeOK'
  <2>1. call' \in [Callers -> Call]
    BY <1>3, <1>9 DEF Commits, Pcs
  <2>3. used' \in Usages
    BY <1>9, CommitAdds
  <2> QED
    BY <1>9, <2>1, <2>3 DEF Commits, BudgetTypeOK, Usages
<1>10. ASSUME NEW c \in Callers, Tells(c) PROVE BudgetTypeOK'
  <2>1. call' \in [Callers -> Call]
    BY <1>2, <1>10 DEF Tells
  <2>2. call[c].month \in Month /\ told[call[c].month] \in [Scope \X Percents -> Nat]
    BY CallFields DEF BudgetTypeOK
  <2>3. told' = [told EXCEPT ![call[c].month] = [x \in Scope \X Percents |->
                   told[call[c].month][x] + IF x \in call[c].tells THEN 1 ELSE 0]]
    BY <1>10, <2>2 DEF Tells, BudgetTypeOK
  <2>4. [x \in Scope \X Percents |->
           told[call[c].month][x] + IF x \in call[c].tells THEN 1 ELSE 0]
             \in [Scope \X Percents -> Nat]
    BY <2>2
  <2>5. told' \in [Month -> [Scope \X Percents -> Nat]]
    BY <2>2, <2>3, <2>4 DEF BudgetTypeOK
  <2> QED
    BY <1>10, <2>1, <2>5 DEF Tells, BudgetTypeOK
<1>11. ASSUME NEW c \in Callers, Dies(c) PROVE BudgetTypeOK'
  <2>1. call' \in [Callers -> Call]
    BY <1>11, DiesMoves DEF Moved
  <2>2. deaths' \in 0..MaxDeaths
    BY <1>0, <1>11 DEF Dies, BudgetTypeOK
  <2> QED
    BY <1>11, <2>1, <2>2 DEF Dies, BudgetTypeOK
<1>12. ASSUME NEW s \in Scope, NEW to \in Limits, SetLimit(s, to) PROVE BudgetTypeOK'
  <2>1. to \in Nat \cup {NoLimit} /\ peak[s] \in Nat \cup {NoLimit}
    BY <1>0 DEF BudgetTypeOK
  <2>2. peak' \in [Scope -> Nat \cup {NoLimit}]
    BY <1>12, <2>1 DEF SetLimit, BudgetTypeOK
  <2>3. limit' \in [Scope -> Nat \cup {NoLimit}] /\ changed' \subseteq Scope
    BY <1>12, <2>1 DEF SetLimit, BudgetTypeOK
  <2> QED
    BY <1>12, <2>2, <2>3 DEF SetLimit, BudgetTypeOK
<1>13. ASSUME MonthEnds PROVE BudgetTypeOK'
  <2>1. month' \in Month
    BY <1>0, <1>13 DEF MonthEnds, BudgetTypeOK, Month
  <2> QED
    BY <1>13, <2>1 DEF MonthEnds, BudgetTypeOK
<1>14. CASE UNCHANGED vars
  BY <1>14 DEF vars, BudgetTypeOK
<1> QED
  BY <1>4, <1>6, <1>7, <1>8, <1>9, <1>10, <1>11, <1>12, <1>13, <1>14 DEF Next, Moves

-----------------------------------------------------------------------------
(* What concurrent calls may overshoot a limit by *)

\* Neither a call nor a use is of a month to come.
MonthsPassed ==
  /\ \A c \in Callers : call[c].month <= month
  /\ \A w \in Workspaces, m \in Month : m > month => used[w][m] = 0

\* The highest limit of the month is no lower than the limit.
PeakIsHighest ==
  \A s \in Scope : /\ limit[s] = NoLimit => peak[s] = NoLimit
                   /\ peak[s] # NoLimit => limit[s] <= peak[s]

\* The usage u leaves room for one call of each caller above b: those of S still come.
RoomFor(u, S, b) == u + MaxCost * Cardinality(S) <= b + MaxCost * Cardinality(Callers)

ScopesKeepRoom ==
  \A s \in Scope : peak[s] # NoLimit =>
    RoomFor(Used(s, month), InFlight(s), BelowPeak(s))

OvershootInv == BudgetTypeOK /\ MonthsPassed /\ PeakIsHighest /\ ScopesKeepRoom

LEMMA CostsOrdered ==
  ASSUME NEW k \in Nat, NEW a \in Nat, NEW b \in Nat, a <= b
  PROVE  k * a \in Nat /\ k * a <= k * b /\ k * (a + 1) = k * a + k
<1>1. PICK d \in Nat : b = a + d
  <2>1. b - a \in Nat /\ b = a + (b - a)
    OBVIOUS
  <2> QED
    BY <2>1
<1>2. k * b = k * a + k * d /\ k * a \in Nat /\ k * d \in Nat
  BY <1>1
<1> QED
  BY <1>2

\* A usage that stays, lets one more call through, or takes a call in keeps its room.
LEMMA RoomKept ==
  ASSUME NEW u \in Nat, NEW v \in Nat, NEW b \in Nat, NEW d \in Nat, b <= d,
         NEW S \in SUBSET Callers, NEW T \in SUBSET Callers
  PROVE  /\ v <= u /\ T \subseteq S /\ RoomFor(u, S, b) => RoomFor(v, T, d)
         /\ v <= d => RoomFor(v, T, d)
         /\ \A c \in S : v <= u + MaxCost /\ T \subseteq S \ {c} /\ RoomFor(u, S, b)
                            => RoomFor(v, T, d)
<1>1. /\ IsFiniteSet(Callers) /\ IsFiniteSet(S) /\ IsFiniteSet(T)
      /\ MaxCost \in Nat
  BY BudgetBounds, FS_Subset
<1>2. /\ Cardinality(S) \in Nat /\ Cardinality(T) \in Nat /\ Cardinality(Callers) \in Nat
      /\ Cardinality(T) <= Cardinality(Callers)
      /\ T \subseteq S => Cardinality(T) <= Cardinality(S)
  BY <1>1, FS_Subset, FS_CardinalityType
<1> DEFINE C(n) == MaxCost * n
           n == Cardinality(Callers)
           t == Cardinality(T)
           z == Cardinality(S)
<1>3. C(n) \in Nat /\ C(t) \in Nat /\ C(z) \in Nat /\ C(t) <= C(n)
  BY <1>1, <1>2, CostsOrdered
<1>4. T \subseteq S => C(t) <= C(z)
  BY <1>1, <1>2, CostsOrdered
<1>5. ASSUME NEW c \in S, T \subseteq S \ {c}
      PROVE  C(t) + MaxCost <= C(z)
  <2>1. Cardinality(S \ {c}) = z - 1 /\ IsFiniteSet(S \ {c})
    BY <1>1, FS_RemoveElement, FS_Subset
  <2>2. t <= z - 1 /\ z - 1 \in Nat
    BY <1>5, <2>1, FS_Subset, FS_CardinalityType
  <2>3. t + 1 \in Nat /\ t + 1 <= z /\ t \in Nat /\ z \in Nat
    BY <1>2, <2>2
  <2> HIDE DEF t, z
  <2>4. C(t + 1) <= C(z) /\ C(t + 1) = C(t) + MaxCost
    BY <1>1, <2>3, CostsOrdered
  <2> QED
    BY <2>4
<1> HIDE DEF C
<1>6. /\ RoomFor(u, S, b) <=> u + C(z) <= b + C(n)
      /\ RoomFor(v, T, d) <=> v + C(t) <= d + C(n)
  BY DEF RoomFor, C
<1> HIDE DEF n, t, z
<1> QED
  BY <1>1, <1>3, <1>4, <1>5, <1>6

\* Only a call that is under way can come to be added.
LEMMA FlightAfterMove ==
  ASSUME BudgetTypeOK, NEW c \in Callers, NEW pc, NEW m, NEW k, NEW t,
         Moved(c, pc, m, k, t), NEW s \in Scope
  PROVE  /\ InFlight(s) \in SUBSET Callers /\ InFlight(s)' \in SUBSET Callers
         /\ UNCHANGED month =>
              \/ InFlight(s)' \subseteq InFlight(s) \ {c}
              \/ /\ InFlight(s)' \subseteq InFlight(s) \cup {c}
                 /\ pc \notin {"idle", "tells", "dead"} /\ (s = Tenant \/ call[c].ws = s[2])
                 /\ pc \in Past(s) \/ m # month
<1>1. InFlight(s) \in SUBSET Callers /\ InFlight(s)' \in SUBSET Callers
  BY DEF InFlight
<1>2. ASSUME UNCHANGED month, NEW d \in InFlight(s)', d # c
      PROVE  d \in InFlight(s)
  BY <1>2, Zenon DEF InFlight, Moved, Past
<1>3. ASSUME UNCHANGED month, c \in InFlight(s)'
      PROVE  /\ pc \notin {"idle", "tells", "dead"} /\ (s = Tenant \/ call[c].ws = s[2])
             /\ pc \in Past(s) \/ m # month
  BY <1>3 DEF InFlight, Moved, Past
<1>4. ASSUME UNCHANGED month, c \notin InFlight(s)'
      PROVE  InFlight(s)' \subseteq InFlight(s) \ {c}
  BY <1>2, <1>4
<1>5. ASSUME UNCHANGED month
      PROVE  InFlight(s)' \subseteq InFlight(s) \cup {c}
  BY <1>2, <1>5
<1> QED
  BY <1>1, <1>3, <1>4, <1>5

LEMMA BudgetNats ==
  ASSUME BudgetTypeOK, NEW s \in Scope
  PROVE  /\ Used(s, month) \in Nat /\ InFlight(s) \in SUBSET Callers
         /\ peak[s] # NoLimit => peak[s] \in Nat /\ BelowPeak(s) \in Nat
<1>1. used \in Usages /\ month \in Month
  BY DEF BudgetTypeOK, Usages
<1>2. Used(s, month) \in Nat
  BY <1>1, UsedIsUse, UseTypes
<1>3. peak[s] # NoLimit => peak[s] \in Nat /\ BelowPeak(s) \in Nat
  BY DEF BudgetTypeOK, BelowPeak
<1> QED
  BY <1>2, <1>3 DEF InFlight

\* A step of c that adds no usage: whatever limit c comes under, c is let through below it.
LEMMA MoveKeepsRoom ==
  ASSUME OvershootInv, BudgetTypeOK', NEW c \in Callers, NEW pc, NEW m, NEW k, NEW t,
         Moved(c, pc, m, k, t), UNCHANGED <<peak, used, month>>,
         \A s \in Scope : peak[s] # NoLimit /\ c \in InFlight(s)' =>
           c \in InFlight(s) \/ Used(s, month) <= BelowPeak(s)
  PROVE  ScopesKeepRoom'
<1> SUFFICES ASSUME NEW s \in Scope, peak'[s] # NoLimit
             PROVE  RoomFor(Used(s, month), InFlight(s), BelowPeak(s))'
  BY DEF ScopesKeepRoom
<1> DEFINE u == Used(s, month)
           v == Used(s, month)'
           b == BelowPeak(s)
           d == BelowPeak(s)'
           S == InFlight(s)
           T == InFlight(s)'
<1>1. BudgetTypeOK /\ peak[s] # NoLimit
  BY DEF OvershootInv
<1>2. u \in Nat /\ b \in Nat /\ RoomFor(u, S, b) /\ S \in SUBSET Callers
  BY <1>1, BudgetNats DEF OvershootInv, ScopesKeepRoom
<1>3. v = u
  BY UsedIsUse, UsedIsUseNext
<1>4. d = b
  BY DEF BelowPeak
<1>5. T \in SUBSET Callers /\ T \subseteq S \cup {c}
  BY <1>1, FlightAfterMove
<1>6. c \in T => c \in S \/ u <= b
  BY <1>1
<1> HIDE DEF u, v, b, d, S, T
<1>7. ASSUME T \subseteq S
      PROVE  RoomFor(v, T, d)
  BY <1>2, <1>3, <1>4, <1>5, <1>7, RoomKept
<1>8. ASSUME ~(T \subseteq S)
      PROVE  RoomFor(v, T, d)
  <2>1. v <= d
    BY <1>3, <1>4, <1>5, <1>6, <1>8
  <2> QED
    BY <1>2, <1>3, <1>4, <1>5, <2>1, RoomKept
<1>9. RoomFor(v, T, d)
  BY <1>7, <1>8
<1> QED
  BY <1>9 DEF v, T, d, RoomFor

\* Whom a comparison lets through is below the highest limit.
LEMMA UnderIsBelowPeak ==
  ASSUME OvershootInv, NEW s \in Scope, Under(s, month), peak[s] # NoLimit
  PROVE  Used(s, month) <= BelowPeak(s)
<1>1. BudgetTypeOK
  BY DEF OvershootInv
<1>2. limit[s] # NoLimit /\ limit[s] <= peak[s]
  BY DEF OvershootInv, PeakIsHighest
<1>3. limit[s] \in Nat /\ peak[s] \in Nat /\ Used(s, month) \in Nat
  BY <1>1, <1>2, BudgetNats DEF BudgetTypeOK
<1>4. Used(s, month) < limit[s]
  BY <1>2 DEF Under
<1> QED
  BY <1>2, <1>3, <1>4 DEF BelowPeak

LEMMA CommitKeepsRoom ==
  ASSUME OvershootInv, BudgetTypeOK', NEW c \in Callers, Commits(c)
  PROVE  ScopesKeepRoom' /\ MonthsPassed'
<1>0. BudgetTypeOK
  BY DEF OvershootInv
<1>1. /\ call[c].pc = "adds" /\ Moved(c, "tells", call[c].month, call[c].cost, call[c].tells)
      /\ UNCHANGED <<limit, peak, month>>
  BY <1>0, GoesMoves DEF Commits, Pcs
<1> DEFINE w == call[c].ws
           n == call[c].month
           k == call[c].cost
<1>2. w \in Workspaces /\ n \in Month /\ k \in Nat /\ k <= MaxCost /\ month \in Month
      /\ used \in Usages
  <2>1. w \in Workspaces /\ n \in Month /\ k \in 0..MaxCost /\ month \in Month
    BY <1>0, CallFields, Zenon
  <2> QED
    BY <1>0, <2>1, BudgetBounds DEF BudgetTypeOK, Usages
<1>3. /\ used' \in Usages
      /\ \A v \in Workspaces, m \in Month :
           used'[v][m] = used[v][m] + IF n = m /\ v = w THEN k ELSE 0
  BY <1>0, CommitAdds
<1>9. n <= month
  BY DEF OvershootInv, MonthsPassed
<1>4. c \in Callers /\ \A s \in Scope : s = Tenant \/ s[2] = w => c \in InFlight(s)
  BY <1>1 DEF InFlight, Past
<1> HIDE DEF w, n, k
<1>5. ASSUME NEW s \in Scope
      PROVE  Use(used', s, month) = Use(used, s, month)
               + IF n = month /\ (s = Tenant \/ s[2] = w) THEN k ELSE 0
  <2>1. \A v \in Workspaces :
          used'[v][month] = used[v][month] + IF n = month /\ v = w THEN k ELSE 0
    BY <1>2, <1>3
  <2>2. used' \in Usages
    BY <1>3
  <2> QED
    BY ONLY <1>2, <2>1, <2>2, UseAdds, s \in Scope
<1>6. ASSUME NEW s \in Scope, peak'[s] # NoLimit
      PROVE  RoomFor(Used(s, month), InFlight(s), BelowPeak(s))'
  <2> DEFINE u == Used(s, month)
             v == Used(s, month)'
             b == BelowPeak(s)
             d == BelowPeak(s)'
             S == InFlight(s)
             T == InFlight(s)'
  <2>1. u \in Nat /\ b \in Nat /\ RoomFor(u, S, b) /\ S \in SUBSET Callers
    BY <1>0, <1>1, <1>6, BudgetNats DEF OvershootInv, ScopesKeepRoom
  <2>2. v = u + IF n = month /\ (s = Tenant \/ s[2] = w) THEN k ELSE 0
    BY <1>1, <1>2, <1>5, UsedIsUse, UsedIsUseNext
  <2>3. d = b
    BY <1>1 DEF BelowPeak
  <2>4. T \in SUBSET Callers /\ T \subseteq S \ {c}
    BY <1>0, <1>1, FlightAfterMove
  <2>5. s = Tenant \/ s[2] = w => c \in S
    BY <1>4
  <2> HIDE DEF u, v, b, d, S, T
  <2>6. ASSUME v = u
        PROVE  RoomFor(v, T, d)
    BY <2>1, <2>3, <2>4, <2>6, RoomKept
  <2>7. ASSUME v # u
        PROVE  RoomFor(v, T, d)
    <3>1. c \in S /\ v = u + k
      BY <2>1, <2>2, <2>5, <2>7
    <3>2. v \in Nat /\ v <= u + MaxCost
      BY <1>2, <2>1, <3>1, BudgetBounds
    <3> QED
      BY <2>1, <2>3, <2>4, <3>1, <3>2, RoomKept
  <2>8. RoomFor(v, T, d)
    BY <2>6, <2>7
  <2> QED
    BY <2>8 DEF v, T, d, RoomFor
<1>7. ScopesKeepRoom'
  BY <1>6 DEF ScopesKeepRoom
<1>8. MonthsPassed'
  <2>1. \A d \in Callers : call'[d].month <= month'
    BY <1>1 DEF Moved, OvershootInv, MonthsPassed
  <2>2. ASSUME NEW v \in Workspaces, NEW m \in Month, m > month'
        PROVE  used'[v][m] = 0
    <3>1. m # n /\ used[v][m] = 0
      BY <1>1, <1>2, <1>9, <2>2, BudgetBounds DEF OvershootInv, MonthsPassed
    <3>2. used'[v][m] = used[v][m]
      BY <1>2, <1>3, <2>2, <3>1 DEF Usages
    <3> QED
      BY <3>1, <3>2
  <2> QED
    BY <2>1, <2>2 DEF MonthsPassed
<1> QED
  BY <1>7, <1>8

LEMMA LimitKeepsRoom ==
  ASSUME OvershootInv, BudgetTypeOK', NEW s \in Scope, NEW to \in Limits, SetLimit(s, to)
  PROVE  ScopesKeepRoom' /\ PeakIsHighest' /\ MonthsPassed'
<1>0. BudgetTypeOK /\ BudgetAssumption
  BY BudgetAssumption DEF OvershootInv
<1>1. /\ limit' = [limit EXCEPT ![s] = to]
      /\ peak' = [peak EXCEPT ![s] =
           IF NoLimit \in {peak[s], to} THEN NoLimit ELSE IF peak[s] < to THEN to ELSE peak[s]]
      /\ UNCHANGED <<used, month, call>>
      /\ to \in Nat \cup {NoLimit} /\ NoLimit \notin Nat
  BY <1>0, BudgetBounds DEF SetLimit, BudgetAssumption
<1>2. ASSUME NEW z \in Scope
      PROVE  /\ limit[z] \in Nat \cup {NoLimit} /\ peak[z] \in Nat \cup {NoLimit}
             /\ limit'[z] = (IF z = s THEN to ELSE limit[z])
             /\ z = s => peak'[z] = IF NoLimit \in {peak[s], to} THEN NoLimit
                                    ELSE IF peak[s] < to THEN to ELSE peak[s]
             /\ z # s => peak'[z] = peak[z]
  BY <1>0, <1>1 DEF BudgetTypeOK
<1>3. ASSUME NEW z \in Scope, peak'[z] # NoLimit
      PROVE  peak[z] # NoLimit /\ peak[z] <= peak'[z] /\ peak[z] \in Nat /\ peak'[z] \in Nat
             /\ limit'[z] <= peak'[z]
  BY <1>1, <1>2, <1>3 DEF OvershootInv, PeakIsHighest
<1>4. PeakIsHighest'
  <2>1. \A z \in Scope : limit'[z] = NoLimit => peak'[z] = NoLimit
    BY <1>1, <1>2 DEF OvershootInv, PeakIsHighest
  <2> QED
    BY <1>3, <2>1 DEF PeakIsHighest
<1>5. ASSUME NEW z \in Scope, peak'[z] # NoLimit
      PROVE  RoomFor(Used(z, month), InFlight(z), BelowPeak(z))'
  <2> DEFINE u == Used(z, month)
             v == Used(z, month)'
             b == BelowPeak(z)
             d == BelowPeak(z)'
             S == InFlight(z)
             T == InFlight(z)'
  <2>1. u \in Nat /\ b \in Nat /\ RoomFor(u, S, b) /\ S \in SUBSET Callers
    BY <1>0, <1>3, <1>5, BudgetNats DEF OvershootInv, ScopesKeepRoom
  <2>2. v = u
    BY <1>1, UsedIsUse, UsedIsUseNext
  <2>3. d \in Nat /\ b <= d
    BY <1>3, <1>5 DEF BelowPeak
  <2>4. T = S
    BY <1>1 DEF InFlight
  <2> HIDE DEF u, v, b, d, S, T
  <2>5. RoomFor(v, T, d)
    BY <2>1, <2>2, <2>3, <2>4, RoomKept
  <2> QED
    BY <2>5 DEF v, T, d, RoomFor
<1>6. MonthsPassed'
  BY <1>1 DEF OvershootInv, MonthsPassed
<1> QED
  BY <1>4, <1>5, <1>6 DEF ScopesKeepRoom

LEMMA MonthKeepsRoom ==
  ASSUME OvershootInv, BudgetTypeOK', MonthEnds
  PROVE  ScopesKeepRoom' /\ PeakIsHighest' /\ MonthsPassed'
<1>0. /\ BudgetTypeOK /\ month \in Nat /\ month' \in Month /\ month' = month + 1
      /\ peak' = limit /\ UNCHANGED <<limit, used, call>> /\ used \in Usages
  BY BudgetBounds DEF OvershootInv, MonthEnds, BudgetTypeOK, Usages
<1>1. \A z \in Scope : limit[z] # NoLimit => limit[z] \in Nat
  BY <1>0 DEF BudgetTypeOK
<1>2. PeakIsHighest'
  BY <1>0, <1>1 DEF PeakIsHighest
<1>3. MonthsPassed'
  <2>1. \A c \in Callers : call'[c].month <= month'
    <3>1. \A c \in Callers : call[c].month \in Nat /\ call[c].month <= month
      BY <1>0, CallFields, BudgetBounds DEF OvershootInv, MonthsPassed
    <3> QED
      BY <1>0, <3>1
  <2>2. ASSUME NEW w \in Workspaces, NEW m \in Month, m > month'
        PROVE  used'[w][m] = 0
    <3>1. m > month
      BY <1>0, <2>2, BudgetBounds
    <3> QED
      BY <1>0, <3>1 DEF OvershootInv, MonthsPassed
  <2> QED
    BY <2>1, <2>2 DEF MonthsPassed
<1>4. ASSUME NEW z \in Scope, peak'[z] # NoLimit
      PROVE  RoomFor(Used(z, month), InFlight(z), BelowPeak(z))'
  <2> DEFINE v == Used(z, month)'
             d == BelowPeak(z)'
             T == InFlight(z)'
  <2>1. \A w \in Workspaces : used'[w][month'] = 0
    BY <1>0 DEF OvershootInv, MonthsPassed
  <2>2. v = 0
    BY <1>0, <2>1, UsedIsUseNext, UseTypes
  <2>3. d \in Nat
    BY <1>0, <1>1, <1>4 DEF BelowPeak
  <2>4. T \in SUBSET Callers
    BY DEF InFlight
  <2> HIDE DEF v, d, T
  <2>5. RoomFor(v, T, d)
    BY <2>2, <2>3, <2>4, RoomKept
  <2> QED
    BY <2>5 DEF v, T, d, RoomFor
<1> QED
  BY <1>2, <1>3, <1>4 DEF ScopesKeepRoom

LEMMA OvershootStep ==
  OvershootInv /\ [Next]_vars => OvershootInv'
<1> SUFFICES ASSUME OvershootInv, [Next]_vars PROVE OvershootInv'
  OBVIOUS
<1>0. BudgetTypeOK /\ BudgetTypeOK'
  BY BudgetTypes DEF OvershootInv
<1>1. ASSUME NEW c \in Callers, NEW pc, NEW m \in Month, NEW k, NEW t, Moved(c, pc, m, k, t),
             m <= month, UNCHANGED <<limit, peak, used, month>>,
             \A s \in Scope : peak[s] # NoLimit /\ c \in InFlight(s)' =>
               c \in InFlight(s) \/ Used(s, month) <= BelowPeak(s)
      PROVE  OvershootInv'
  <2>1. ScopesKeepRoom'
    BY <1>0, <1>1, MoveKeepsRoom
  <2>2. PeakIsHighest'
    BY <1>1 DEF OvershootInv, PeakIsHighest
  <2>3. MonthsPassed'
    BY <1>1 DEF OvershootInv, MonthsPassed, Moved
  <2> QED
    BY <1>0, <2>1, <2>2, <2>3 DEF OvershootInv
<1>2. ASSUME NEW c \in Callers, NEW pc \in {"idle", "tells", "dead"}, NEW m \in Month, NEW k,
             NEW t, Moved(c, pc, m, k, t), m <= month, UNCHANGED <<limit, peak, used, month>>
      PROVE  OvershootInv'
  <2>1. \A s \in Scope : c \notin InFlight(s)'
    BY <1>2 DEF Moved, InFlight
  <2> QED
    BY <1>1, <1>2, <2>1
<1>3. /\ month \in Month /\ 1 \in Month /\ 1 <= month /\ month <= month
      /\ \A c \in Callers : call[c].month \in Month /\ call[c].month <= month
  <2>1. month \in Month /\ \A c \in Callers : call[c].month \in Month
    BY <1>0, CallFields DEF BudgetTypeOK
  <2>2. month \in Nat /\ 1 <= month /\ 1 \in Month
    BY <2>1, BudgetBounds
  <2> QED
    BY <2>1, <2>2 DEF OvershootInv, MonthsPassed
<1>4. ASSUME NEW c \in Callers, Rests(c), UNCHANGED <<limit, peak, used, month>>
      PROVE  OvershootInv'
  <2>1. Moved(c, "idle", 1, 0, {})
    BY <1>0, <1>4, RestsMoves
  <2> QED
    BY <1>2, <1>3, <1>4, <2>1
<1>5. ASSUME NEW c \in Callers, Calls(c) PROVE OvershootInv'
  <2>1. Moved(c, "tenant", month, call[c].cost, call[c].tells)
        /\ UNCHANGED <<limit, peak, used, month>>
    BY <1>0, <1>5, CallsMoves DEF Calls
  <2>2. \A s \in Scope : c \notin InFlight(s)'
    BY <2>1 DEF Moved, InFlight, Past
  <2> QED
    BY <1>1, <1>3, <2>1, <2>2
<1>6. ASSUME NEW c \in Callers, ComparesTenant(c) PROVE OvershootInv'
  <2>0. UNCHANGED <<limit, peak, used, month>> /\ call[c].pc = "tenant"
    BY <1>6 DEF ComparesTenant, Compares, Goes
  <2>1. ASSUME Under(Tenant, call[c].month), Goes(c, "tenant", "workspace")
        PROVE  OvershootInv'
    <3>1. Moved(c, "workspace", call[c].month, call[c].cost, call[c].tells)
      BY <1>0, <2>1, GoesMoves DEF Pcs
    <3>2. ASSUME NEW s \in Scope, peak[s] # NoLimit, c \in InFlight(s)', c \notin InFlight(s)
          PROVE  Used(s, month) <= BelowPeak(s)
      <4>1. call[c].month = month
        BY <2>0, <3>1, <3>2 DEF Moved, InFlight
      <4>2. s = Tenant
        BY <2>0, <3>1, <3>2, <4>1 DEF Moved, InFlight, Past
      <4> QED
        BY <2>1, <3>2, <4>1, <4>2, UnderIsBelowPeak
    <3> QED
      BY <1>1, <1>3, <2>0, <3>1, <3>2
  <2>2. ASSUME Rests(c) PROVE OvershootInv'
    BY <1>4, <2>0, <2>2
  <2> QED
    BY <1>6, <2>1, <2>2 DEF ComparesTenant, Compares
<1>7. ASSUME NEW c \in Callers, ComparesWorkspace(c) PROVE OvershootInv'
  <2>0. UNCHANGED <<limit, peak, used, month>> /\ call[c].pc = "workspace"
    BY <1>7 DEF ComparesWorkspace, Compares, Goes
  <2>1. ASSUME Under(<<"workspace", call[c].ws>>, call[c].month), Goes(c, "workspace", "calls")
        PROVE  OvershootInv'
    <3>1. Moved(c, "calls", call[c].month, call[c].cost, call[c].tells)
      BY <1>0, <2>1, GoesMoves DEF Pcs
    <3>2. ASSUME NEW s \in Scope, peak[s] # NoLimit, c \in InFlight(s)', c \notin InFlight(s)
          PROVE  Used(s, month) <= BelowPeak(s)
      <4>1. call[c].month = month
        BY <2>0, <3>1, <3>2 DEF Moved, InFlight
      <4>2. s # Tenant /\ call[c].ws = s[2]
        BY <2>0, <3>1, <3>2, <4>1 DEF Moved, InFlight, Past
      <4>3. s = <<"workspace", call[c].ws>>
        BY <4>2, ScopeCases
      <4> QED
        BY <2>1, <3>2, <4>1, <4>3, UnderIsBelowPeak
    <3> QED
      BY <1>1, <1>3, <2>0, <3>1, <3>2
  <2>2. ASSUME Rests(c) PROVE OvershootInv'
    BY <1>4, <2>0, <2>2
  <2> QED
    BY <1>7, <2>1, <2>2 DEF ComparesWorkspace, Compares
<1>8. ASSUME NEW c \in Callers, RecordsNothing(c) PROVE OvershootInv'
  BY <1>4, <1>8 DEF RecordsNothing
<1>9. ASSUME NEW c \in Callers, Adds(c) PROVE OvershootInv'
  <2>1. PICK k \in 0..MaxCost, t \in SUBSET (Scope \X Percents) :
          Moved(c, "adds", month, k, t)
    BY <1>0, <1>9, AddsMoves
  <2>2. call[c].pc = "calls" /\ UNCHANGED <<limit, peak, used, month>>
    BY <1>9 DEF Adds
  <2>3. \A s \in Scope : c \in InFlight(s)' => c \in InFlight(s)
    BY <2>1, <2>2 DEF Moved, InFlight, Past
  <2> QED
    BY <1>1, <1>3, <2>1, <2>2, <2>3
<1>10. ASSUME NEW c \in Callers, Commits(c) PROVE OvershootInv'
  <2>1. ScopesKeepRoom' /\ MonthsPassed'
    BY <1>0, <1>10, CommitKeepsRoom
  <2>2. PeakIsHighest'
    BY <1>10 DEF Commits, OvershootInv, PeakIsHighest
  <2> QED
    BY <1>0, <2>1, <2>2 DEF OvershootInv
<1>11. ASSUME NEW c \in Callers, Tells(c) PROVE OvershootInv'
  BY <1>4, <1>11 DEF Tells
<1>12. ASSUME NEW c \in Callers, Dies(c) PROVE OvershootInv'
  <2>1. Moved(c, "dead", call[c].month, 0,
              IF call[c].pc = "tells" THEN call[c].tells ELSE {})
    BY <1>0, <1>12, DiesMoves
  <2>2. UNCHANGED <<limit, peak, used, month>>
    BY <1>12 DEF Dies
  <2> QED
    BY <1>2, <1>3, <2>1, <2>2
<1>13. ASSUME NEW s \in Scope, NEW to \in Limits, SetLimit(s, to) PROVE OvershootInv'
  BY <1>0, <1>13, LimitKeepsRoom DEF OvershootInv
<1>14. ASSUME MonthEnds PROVE OvershootInv'
  BY <1>0, <1>14, MonthKeepsRoom DEF OvershootInv
<1>15. ASSUME UNCHANGED vars PROVE OvershootInv'
  <2>1. UNCHANGED <<limit, peak, used, month, call>>
    BY <1>15 DEF vars
  <2>2. \A s \in Scope : Used(s, month)' = Used(s, month)
    BY <2>1, UsedIsUse, UsedIsUseNext
  <2>3. \A s \in Scope : InFlight(s)' = InFlight(s) /\ BelowPeak(s)' = BelowPeak(s)
    BY <2>1 DEF InFlight, BelowPeak
  <2>4. ScopesKeepRoom'
    BY <2>1, <2>2, <2>3 DEF OvershootInv, ScopesKeepRoom, RoomFor
  <2> QED
    BY <1>0, <2>1, <2>4 DEF OvershootInv, MonthsPassed, PeakIsHighest
<1> QED
  BY <1>5, <1>6, <1>7, <1>8, <1>9, <1>10, <1>11, <1>12, <1>13, <1>14, <1>15 DEF Next, Moves

LEMMA OvershootInit == Init => OvershootInv
<1> SUFFICES ASSUME Init PROVE OvershootInv
  OBVIOUS
<1>1. BudgetTypeOK
  <2>1. limit \in [Scope -> Nat \cup {NoLimit}] /\ peak \in [Scope -> Nat \cup {NoLimit}]
    BY FirstAssumption DEF Init
  <2>2. \A w \in Workspaces : Resting(w) \in Call
    BY BudgetBounds DEF Resting, Call
  <2>3. call \in [Callers -> Call]
    BY <2>2 DEF Init
  <2>4. used \in [Workspaces -> [Month -> Nat]]
        /\ told \in [Month -> [Scope \X Percents -> Nat]]
    BY DEF Init
  <2>5. /\ month \in Month /\ changed \subseteq Scope /\ deaths \in 0..MaxDeaths
        /\ kind \in {"tokens", "cost"}
    BY BudgetBounds, BudgetAssumption DEF Init
  <2> QED
    BY <2>1, <2>3, <2>4, <2>5 DEF BudgetTypeOK
<1>2. \A c \in Callers : call[c].pc = "idle" /\ call[c].month = 1
  BY DEF Init, Resting
<1>3. /\ \A w \in Workspaces, m \in Month : used[w][m] = 0
      /\ month = 1 /\ month \in Month /\ limit = peak /\ used \in Usages
  BY BudgetBounds DEF Init, Usages
<1>4. MonthsPassed
  BY <1>2, <1>3 DEF MonthsPassed
<1>5. PeakIsHighest
  BY <1>1, <1>3 DEF PeakIsHighest, BudgetTypeOK
<1>6. ASSUME NEW s \in Scope, peak[s] # NoLimit
      PROVE  RoomFor(Used(s, month), InFlight(s), BelowPeak(s))
  <2>1. Used(s, month) = 0
    BY <1>3, UsedIsUse, UseTypes
  <2>2. BelowPeak(s) \in Nat /\ InFlight(s) \in SUBSET Callers
    BY <1>1, <1>6, BudgetNats
  <2> QED
    BY <2>1, <2>2, RoomKept
<1> QED
  BY <1>1, <1>4, <1>5, <1>6 DEF OvershootInv, ScopesKeepRoom

\* However calls interleave, limits change and months end: over the month no scope
\* passes its highest limit by more than one call of each caller.
THEOREM OvershootIsBounded == Spec => []WithinOvershoot
<1>1. OvershootInv => WithinOvershoot
  BY DEF OvershootInv, ScopesKeepRoom, WithinOvershoot, RoomFor
<1> QED
  BY <1>1, OvershootInit, OvershootStep, PTL DEF Spec

-----------------------------------------------------------------------------
(* Crossings of a workspace's limit *)

Scoped(w) == <<"workspace", w>>

\* The transaction of a call holds the row of its workspace and month.
RowIsLocked ==
  \A c, d \in Callers :
    call[c].pc = "adds" /\ call[d].pc = "adds" /\ call[c].ws = call[d].ws
      /\ call[c].month = call[d].month => c = d

\* k more in month m takes workspace w over p percent of its limit.
Crosses(w, m, p, k) ==
  /\ limit[Scoped(w)] \notin {NoLimit, 0}
  /\ 100 * used[w][m] < p * limit[Scoped(w)]
  /\ p * limit[Scoped(w)] <= 100 * (used[w][m] + k)

\* What a transaction saw its call cross is still what it will cross.
SeenIsTrue ==
  \A c \in Callers : call[c].pc = "adds" =>
    \A w \in Workspaces, p \in Percents : Scoped(w) \notin changed =>
      (<<Scoped(w), p>> \in call[c].tells <=>
         call[c].ws = w /\ Crosses(w, call[c].month, p, call[c].cost))

AnnouncedOnce(w, m, p) ==
  Crossed(Scoped(w), m, p) = IF Reached(Scoped(w), m, p) THEN 1 ELSE 0

CrossingInv ==
  /\ BudgetTypeOK /\ RowIsLocked /\ SeenIsTrue
  /\ \A w \in Workspaces, m \in Month, p \in Percents :
       Scoped(w) \notin changed => AnnouncedOnce(w, m, p)

LEMMA WorkspaceUse ==
  /\ \A w \in Workspaces : \A m : Used(Scoped(w), m) = used[w][m]
  /\ \A w \in Workspaces : Used(Scoped(w), month) = used[w][month]
BY UsedIsUse, WorkspaceScope DEF Use, Scoped

LEMMA WorkspaceUseNext ==
  \A w \in Workspaces : \A m : Used(Scoped(w), m)' = used'[w][m]
BY UsedIsUseNext, WorkspaceScope DEF Use, Scoped

LEMMA TellingTypes ==
  ASSUME BudgetTypeOK, NEW w \in Workspaces, NEW m \in Month, NEW p \in Percents
  PROVE  /\ <<Scoped(w), p>> \in Scope \X Percents
         /\ told[m][<<Scoped(w), p>>] \in Nat
         /\ IsFiniteSet(Telling(<<Scoped(w), p>>, m))
         /\ Cardinality(Telling(<<Scoped(w), p>>, m)) \in Nat
<1>1. <<Scoped(w), p>> \in Scope \X Percents
  BY WorkspaceScope DEF Scoped
<1>2. told[m] \in [Scope \X Percents -> Nat]
  BY DEF BudgetTypeOK
<1>3. told[m][<<Scoped(w), p>>] \in Nat
  BY <1>1, <1>2
<1>4. IsFiniteSet(Telling(<<Scoped(w), p>>, m))
  BY BudgetBounds, FS_Subset DEF Telling
<1> QED
  BY <1>1, <1>3, <1>4, FS_CardinalityType

\* Whether c announces x of month m, before and after it moves
LEMMA TellingAfterMove ==
  ASSUME NEW c \in Callers, NEW pc, NEW n, NEW k, NEW t, Moved(c, pc, n, k, t), NEW x, NEW m
  PROVE  /\ c \in Telling(x, m) <=>
              call[c].pc \in {"tells", "dead"} /\ call[c].month = m /\ x \in call[c].tells
         /\ c \in Telling(x, m)' <=> pc \in {"tells", "dead"} /\ n = m /\ x \in t
         /\ \A d : d # c => (d \in Telling(x, m)' <=> d \in Telling(x, m))
BY DEF Telling, Moved

\* A caller that neither holds a row nor adds a use changes nothing here, if what it has to
\* announce stays.
LEMMA MoveCrossesNothing ==
  ASSUME CrossingInv, BudgetTypeOK', NEW c \in Callers, NEW pc, NEW n, NEW k, NEW t,
         Moved(c, pc, n, k, t), UNCHANGED <<limit, used, told, changed>>, pc # "adds",
         \A x, m : c \in Telling(x, m)' <=> c \in Telling(x, m)
  PROVE  CrossingInv'
<1>1. \A x, m : Telling(x, m)' = Telling(x, m)
  <2> SUFFICES ASSUME NEW x, NEW m PROVE Telling(x, m)' = Telling(x, m)
    OBVIOUS
  <2>1. \A d : d \in Telling(x, m)' <=> d \in Telling(x, m)
    BY TellingAfterMove
  <2> QED
    BY <2>1
<1>2. \A w \in Workspaces, m \in Month, p \in Percents :
        AnnouncedOnce(w, m, p)' <=> AnnouncedOnce(w, m, p)
  <2> SUFFICES ASSUME NEW w \in Workspaces, NEW m \in Month, NEW p \in Percents
               PROVE  AnnouncedOnce(w, m, p)' <=> AnnouncedOnce(w, m, p)
    OBVIOUS
  <2>1. Crossed(Scoped(w), m, p)' = Crossed(Scoped(w), m, p)
    BY <1>1 DEF Crossed
  <2>2. Reached(Scoped(w), m, p)' <=> Reached(Scoped(w), m, p)
    BY WorkspaceUse, WorkspaceUseNext DEF Reached
  <2> QED
    BY <2>1, <2>2 DEF AnnouncedOnce
<1>3. RowIsLocked' /\ SeenIsTrue'
  BY DEF CrossingInv, RowIsLocked, SeenIsTrue, Crosses, Moved
<1> QED
  BY <1>2, <1>3 DEF CrossingInv

LEMMA AddsSeesCrossings ==
  ASSUME kind = "tokens", CrossingInv, BudgetTypeOK', NEW c \in Callers, Adds(c)
  PROVE  CrossingInv'
<1>0. BudgetTypeOK /\ UNCHANGED <<limit, used, told, changed, month>>
  BY DEF CrossingInv, Adds
<1>1. PICK k \in 0..MaxCost : Moved(c, "adds", month, k, Seen(c, k))
  BY <1>0, AddsMoves
<1>2. call[c].pc = "calls" /\ RowFree(call[c].ws) /\ call[c].ws \in Workspaces
  BY <1>0, AddsMoves, CallFields
<1>3. \A x, m : Telling(x, m)' = Telling(x, m)
  <2> SUFFICES ASSUME NEW x, NEW m PROVE Telling(x, m)' = Telling(x, m)
    OBVIOUS
  <2>1. \A d : d \in Telling(x, m)' <=> d \in Telling(x, m)
    BY <1>1, <1>2, TellingAfterMove
  <2> QED
    BY <2>1
<1>4. \A w \in Workspaces, m \in Month, p \in Percents :
        AnnouncedOnce(w, m, p)' <=> AnnouncedOnce(w, m, p)
  <2> SUFFICES ASSUME NEW w \in Workspaces, NEW m \in Month, NEW p \in Percents
               PROVE  AnnouncedOnce(w, m, p)' <=> AnnouncedOnce(w, m, p)
    OBVIOUS
  <2>1. Crossed(Scoped(w), m, p)' = Crossed(Scoped(w), m, p)
    BY <1>0, <1>3 DEF Crossed
  <2>2. Reached(Scoped(w), m, p)' <=> Reached(Scoped(w), m, p)
    BY <1>0, WorkspaceUse, WorkspaceUseNext DEF Reached
  <2> QED
    BY <2>1, <2>2 DEF AnnouncedOnce
\* No other caller holds the row it takes.
<1>5. RowIsLocked'
  <2>1. \A d \in Callers : ~(call[d].pc = "adds" /\ call[d].ws = call[c].ws
                               /\ call[d].month = month)
    BY <1>2 DEF RowFree
  <2> QED
    BY <1>1, <2>1 DEF CrossingInv, RowIsLocked, Moved
<1>6. ASSUME NEW w \in Workspaces, NEW p \in Percents
      PROVE  <<Scoped(w), p>> \in Seen(c, k) <=>
               call[c].ws = w /\ Crosses(w, month, p, k)
  <2>1. \A s, b, a : <<Scoped(w), p>> \in Crossings(s, b, a) =>
          s = Scoped(w) /\ limit[s] \notin {NoLimit, 0}
            /\ 100 * b < p * limit[s] /\ p * limit[s] <= 100 * a
    BY DEF Crossings
  <2>2. Tenant # Scoped(w) /\ (Scoped(call[c].ws) = Scoped(w) => call[c].ws = w)
    BY <1>2, WorkspaceScope DEF Scoped
  <2>4. ASSUME <<Scoped(w), p>> \in Seen(c, k)
        PROVE  call[c].ws = w /\ Crosses(w, month, p, k)
    <3>1. <<Scoped(w), p>> \in Crossings(Scoped(call[c].ws), used[call[c].ws][month],
                                         used[call[c].ws][month] + k)
      BY <2>1, <2>2, <2>4 DEF Seen, Scoped
    <3>2. call[c].ws = w
      BY <2>1, <2>2, <3>1
    <3> QED
      BY <2>1, <3>1, <3>2 DEF Crosses
  <2>5. ASSUME call[c].ws = w, Crosses(w, month, p, k)
        PROVE  <<Scoped(w), p>> \in Seen(c, k)
    <3>1. <<Scoped(w), p>> \in Crossings(Scoped(w), used[w][month], used[w][month] + k)
      BY <2>5 DEF Crossings, Crosses
    <3> QED
      BY <2>5, <3>1 DEF Seen, Scoped
  <2> QED
    BY <2>4, <2>5
<1>7. SeenIsTrue'
  <2> SUFFICES ASSUME NEW d \in Callers, call'[d].pc = "adds", NEW w \in Workspaces,
                      NEW p \in Percents, Scoped(w) \notin changed'
               PROVE  <<Scoped(w), p>> \in call'[d].tells <=>
                        call'[d].ws = w /\ Crosses(w, call[d].month, p, call[d].cost)'
    BY DEF SeenIsTrue
  <2>1. CASE d = c
    BY <1>0, <1>1, <1>6, <2>1 DEF Moved, Crosses
  <2>2. CASE d # c
    BY <1>0, <1>1, <2>2 DEF Moved, Crosses, CrossingInv, SeenIsTrue
  <2> QED
    BY <2>1, <2>2
<1> QED
  BY <1>0, <1>4, <1>5, <1>7 DEF CrossingInv

LEMMA CommitCrosses ==
  ASSUME CrossingInv, BudgetTypeOK', NEW c \in Callers, Commits(c)
  PROVE  CrossingInv'
<1> DEFINE v == call[c].ws
           n == call[c].month
           k == call[c].cost
<1>0. BudgetTypeOK /\ UNCHANGED <<limit, told, changed, month>>
  BY DEF CrossingInv, Commits
<1>1. call[c].pc = "adds" /\ Moved(c, "tells", n, k, call[c].tells)
  BY <1>0, GoesMoves DEF Commits, Pcs
<1>2. v \in Workspaces /\ n \in Month /\ k \in Nat
  <2>1. v \in Workspaces /\ n \in Month /\ k \in 0..MaxCost
    BY <1>0, CallFields, Zenon
  <2> QED
    BY <2>1, BudgetBounds
<1>3. \A w \in Workspaces, m \in Month :
        used'[w][m] = used[w][m] + IF n = m /\ w = v THEN k ELSE 0
  BY <1>0, CommitAdds
<1>4. RowIsLocked'
  BY <1>1 DEF CrossingInv, RowIsLocked, Moved
\* Another transaction holds another row: what it saw stays true.
<1>5. SeenIsTrue'
  <2> SUFFICES ASSUME NEW d \in Callers, call'[d].pc = "adds", NEW w \in Workspaces,
                      NEW p \in Percents, Scoped(w) \notin changed'
               PROVE  <<Scoped(w), p>> \in call'[d].tells <=>
                        call'[d].ws = w /\ Crosses(w, call[d].month, p, call[d].cost)'
    BY DEF SeenIsTrue
  <2>1. d # c /\ call'[d] = call[d] /\ call[d].pc = "adds"
    BY <1>1 DEF Moved
  <2>2. call[d].month \in Month /\ ~(call[d].ws = v /\ call[d].month = n)
    BY <1>0, <1>1, <2>1, CallFields DEF CrossingInv, RowIsLocked
  <2>3. <<Scoped(w), p>> \in call[d].tells <=>
          call[d].ws = w /\ Crosses(w, call[d].month, p, call[d].cost)
    BY <1>0, <2>1 DEF CrossingInv, SeenIsTrue
  <2>4. ASSUME call[d].ws = w
        PROVE  used'[w][call[d].month] = used[w][call[d].month]
    <3>1. used[w][call[d].month] \in Nat
      BY <1>0, <2>2 DEF BudgetTypeOK
    <3> QED
      BY <1>3, <2>2, <2>4, <3>1
  <2> QED
    BY <1>0, <2>1, <2>3, <2>4 DEF Crosses
<1>6. ASSUME NEW w \in Workspaces, NEW m \in Month, NEW p \in Percents, Scoped(w) \notin changed
      PROVE  AnnouncedOnce(w, m, p)'
  <2> DEFINE x == <<Scoped(w), p>>
             S == Telling(x, m)
             T == Telling(x, m)'
             lim == limit[Scoped(w)]
             set == lim \notin {NoLimit, 0}
             u == used[w][m]
  <2>1. /\ told[m][x] \in Nat /\ IsFiniteSet(S) /\ Cardinality(S) \in Nat
        /\ u \in Nat /\ (set => p * lim \in Nat)
    <3>1. u \in Nat
      BY <1>0 DEF BudgetTypeOK
    <3>2. set => lim \in Nat
      BY <1>0, WorkspaceScope DEF BudgetTypeOK, Scoped
    <3>3. p \in Nat
      BY BudgetBounds
    <3>4. set => p * lim \in Nat
      BY <3>2, <3>3
    <3> QED
      BY <1>0, <3>1, <3>4, TellingTypes
  <2>2. told[m][x] + Cardinality(S) = IF set /\ 100 * u >= p * lim THEN 1 ELSE 0
    BY <1>6, WorkspaceUse DEF CrossingInv, AnnouncedOnce, Crossed, Reached
  <2>3. used'[w][m] = u + IF n = m /\ w = v THEN k ELSE 0
    BY <1>3
  <2>4. x \in call[c].tells <=>
          v = w /\ set /\ 100 * used[w][n] < p * lim /\ p * lim <= 100 * (used[w][n] + k)
    BY <1>1, <1>6 DEF CrossingInv, SeenIsTrue, Crosses
  <2>5. c \notin S /\ (c \in T <=> n = m /\ x \in call[c].tells)
        /\ \A d : d # c => (d \in T <=> d \in S)
    BY <1>1, TellingAfterMove
  <2>6. AnnouncedOnce(w, m, p)' <=>
          told[m][x] + Cardinality(T) = IF set /\ 100 * used'[w][m] >= p * lim THEN 1 ELSE 0
    BY <1>0, WorkspaceUseNext DEF AnnouncedOnce, Crossed, Reached
  <2> HIDE DEF x, S, T, lim, u
  <2>7. CASE c \in T
    <3>1. T = S \cup {c}
      BY <2>5, <2>7
    <3>2. Cardinality(T) = Cardinality(S) + 1
      BY <2>1, <2>5, <3>1, FS_AddElement
    <3>3. n = m /\ w = v /\ set /\ 100 * u < p * lim /\ p * lim <= 100 * (u + k)
      BY <2>4, <2>5, <2>7 DEF u
    <3>4. used'[w][m] = u + k
      BY <2>3, <3>3
    <3> QED
      BY <1>2, <2>1, <2>2, <2>6, <3>2, <3>3, <3>4
  <2>8. CASE c \notin T
    <3>1. T = S
      BY <2>5, <2>8
    <3>2. CASE n = m /\ w = v
      <4>1. ~(set /\ 100 * u < p * lim /\ p * lim <= 100 * (u + k))
        BY <2>4, <2>5, <2>8, <3>2 DEF u
      <4>2. used'[w][m] = u + k
        BY <2>3, <3>2
      <4>3. (set /\ 100 * u >= p * lim) <=> (set /\ 100 * (u + k) >= p * lim)
        BY <1>2, <2>1, <4>1
      <4> QED
        BY <2>2, <2>6, <3>1, <4>2, <4>3
    <3>3. CASE ~(n = m /\ w = v)
      <4>1. used'[w][m] = u
        BY <2>1, <2>3, <3>3
      <4> QED
        BY <2>2, <2>6, <3>1, <4>1
    <3> QED
      BY <3>2, <3>3
  <2> QED
    BY <2>7, <2>8
<1> QED
  BY <1>0, <1>4, <1>5, <1>6 DEF CrossingInv

LEMMA TellAnnounces ==
  ASSUME CrossingInv, BudgetTypeOK', NEW c \in Callers, Tells(c)
  PROVE  CrossingInv'
<1>0. BudgetTypeOK /\ UNCHANGED <<limit, used, changed, month>> /\ call[c].pc = "tells"
  BY DEF CrossingInv, Tells
<1>1. Moved(c, "idle", 1, 0, {})
  BY <1>0, RestsMoves DEF Tells
<1>2. RowIsLocked' /\ SeenIsTrue'
  BY <1>0, <1>1 DEF CrossingInv, RowIsLocked, SeenIsTrue, Crosses, Moved
<1>3. ASSUME NEW w \in Workspaces, NEW m \in Month, NEW p \in Percents, Scoped(w) \notin changed
      PROVE  AnnouncedOnce(w, m, p)'
  <2> DEFINE x == <<Scoped(w), p>>
             S == Telling(x, m)
             T == Telling(x, m)'
  <2>1. /\ told[m][x] \in Nat /\ IsFiniteSet(S) /\ Cardinality(S) \in Nat
        /\ x \in Scope \X Percents /\ call[c].month \in Month
    BY <1>0, TellingTypes, CallFields
  <2>2. told'[m][x] = told[m][x] + IF call[c].month = m /\ x \in call[c].tells THEN 1 ELSE 0
    <3>1. told[m] \in [Scope \X Percents -> Nat] /\ told \in [Month -> [Scope \X Percents -> Nat]]
      BY <1>0 DEF BudgetTypeOK
    <3>2. CASE call[c].month = m
      <4>1. told'[m] = [y \in Scope \X Percents |->
                          told[m][y] + IF y \in call[c].tells THEN 1 ELSE 0]
        BY <3>1, <3>2 DEF Tells
      <4> QED
        BY <2>1, <3>2, <4>1
    <3>3. CASE call[c].month # m
      <4>1. told'[m] = told[m]
        BY <3>1, <3>3 DEF Tells
      <4> QED
        BY <2>1, <3>3, <4>1
    <3> QED
      BY <3>2, <3>3
  <2>3. /\ c \in S <=> call[c].month = m /\ x \in call[c].tells
        /\ c \notin T /\ \A d : d # c => (d \in T <=> d \in S)
    BY <1>0, <1>1, TellingAfterMove
  <2>4. Reached(Scoped(w), m, p)' <=> Reached(Scoped(w), m, p)
    BY <1>0, WorkspaceUse, WorkspaceUseNext DEF Reached
  <2>5. told[m][x] + Cardinality(S) = IF Reached(Scoped(w), m, p) THEN 1 ELSE 0
    BY <1>3 DEF CrossingInv, AnnouncedOnce, Crossed
  <2>6. AnnouncedOnce(w, m, p)' <=>
          told'[m][x] + Cardinality(T) = IF Reached(Scoped(w), m, p)' THEN 1 ELSE 0
    BY DEF AnnouncedOnce, Crossed
  <2> HIDE DEF x, S, T
  <2>7. T = S \ {c}
    BY <2>3
  <2>8. told'[m][x] + Cardinality(T) = told[m][x] + Cardinality(S)
    <3>1. CASE c \in S
      <4>1. Cardinality(T) = Cardinality(S) - 1
        BY <2>1, <2>7, <3>1, FS_RemoveElement
      <4> QED
        BY <2>1, <2>2, <2>3, <3>1, <4>1
    <3>2. CASE c \notin S
      <4>1. T = S
        BY <2>7, <3>2
      <4> QED
        BY <2>1, <2>2, <2>3, <3>2, <4>1
    <3> QED
      BY <3>1, <3>2
  <2> QED
    BY <2>4, <2>5, <2>6, <2>8
<1> QED
  BY <1>0, <1>2, <1>3 DEF CrossingInv

LEMMA CrossingStep ==
  kind = "tokens" /\ CrossingInv /\ [Next]_vars => CrossingInv'
<1> SUFFICES ASSUME kind = "tokens", CrossingInv, [Next]_vars PROVE CrossingInv'
  OBVIOUS
<1>0. BudgetTypeOK /\ BudgetTypeOK'
  BY BudgetTypes DEF CrossingInv
<1>1. ASSUME NEW c \in Callers, NEW pc, NEW n, NEW k, NEW t, Moved(c, pc, n, k, t),
             UNCHANGED <<limit, used, told, changed>>, pc \notin {"adds", "tells", "dead"},
             call[c].pc \notin {"tells", "dead"}
      PROVE  CrossingInv'
  <2>1. \A x, m : c \in Telling(x, m)' <=> c \in Telling(x, m)
    BY <1>1, TellingAfterMove
  <2> QED
    BY <1>0, <1>1, <2>1, MoveCrossesNothing
<1>2. ASSUME NEW c \in Callers, Calls(c) PROVE CrossingInv'
  <2>1. call[c].pc = "idle" /\ Moved(c, "tenant", month, call[c].cost, call[c].tells)
        /\ UNCHANGED <<limit, used, told, changed>>
    BY <1>0, <1>2, CallsMoves DEF Calls
  <2> QED
    BY <1>1, <2>1
<1>3. ASSUME NEW c \in Callers, NEW s, NEW from \in {"tenant", "workspace"},
             NEW to \in {"workspace", "calls"}, Compares(c, s, from, to)
      PROVE  CrossingInv'
  <2>1. UNCHANGED <<limit, used, told, changed>> /\ call[c].pc = from
        /\ (Goes(c, from, to) \/ Rests(c))
    BY <1>3 DEF Compares, Goes
  <2>2. ASSUME Goes(c, from, to) PROVE CrossingInv'
    <3>1. Moved(c, to, call[c].month, call[c].cost, call[c].tells)
      BY <1>0, <2>2, GoesMoves DEF Pcs
    <3> QED
      BY <1>1, <2>1, <3>1
  <2>3. ASSUME Rests(c) PROVE CrossingInv'
    <3>1. Moved(c, "idle", 1, 0, {})
      BY <1>0, <2>3, RestsMoves
    <3> QED
      BY <1>1, <2>1, <3>1
  <2> QED
    BY <2>1, <2>2, <2>3
<1>4. ASSUME NEW c \in Callers, ComparesTenant(c) \/ ComparesWorkspace(c) PROVE CrossingInv'
  BY <1>3, <1>4 DEF ComparesTenant, ComparesWorkspace
<1>5. ASSUME NEW c \in Callers, RecordsNothing(c) PROVE CrossingInv'
  <2>1. Moved(c, "idle", 1, 0, {}) /\ call[c].pc \in {"calls", "adds"}
        /\ UNCHANGED <<limit, used, told, changed>>
    BY <1>0, <1>5, RestsMoves DEF RecordsNothing
  <2> QED
    BY <1>1, <2>1
<1>6. ASSUME NEW c \in Callers, Dies(c) PROVE CrossingInv'
  <2> DEFINE t == IF call[c].pc = "tells" THEN call[c].tells ELSE {}
  <2>1. Moved(c, "dead", call[c].month, 0, t) /\ call[c].pc # "dead"
        /\ UNCHANGED <<limit, used, told, changed>>
    BY <1>0, <1>6, DiesMoves DEF Dies
  <2>2. \A x, m : c \in Telling(x, m)' <=> c \in Telling(x, m)
    BY <2>1, TellingAfterMove
  <2> QED
    BY <1>0, <2>1, <2>2, MoveCrossesNothing
<1>7. ASSUME NEW s \in Scope, NEW to \in Limits, SetLimit(s, to) PROVE CrossingInv'
  <2>1. /\ limit' = [limit EXCEPT ![s] = to] /\ changed' = changed \cup {s}
        /\ UNCHANGED <<used, call, told>>
    BY <1>7 DEF SetLimit
  <2>2. \A w \in Workspaces : Scoped(w) \notin changed' =>
          Scoped(w) \notin changed /\ limit'[Scoped(w)] = limit[Scoped(w)]
    <3>1. \A w \in Workspaces : Scoped(w) \in Scope
      BY WorkspaceScope DEF Scoped
    <3> QED
      BY <1>0, <2>1, <3>1 DEF BudgetTypeOK
  <2>3. RowIsLocked'
    BY <2>1 DEF CrossingInv, RowIsLocked
  <2>4. SeenIsTrue'
    BY <2>1, <2>2 DEF CrossingInv, SeenIsTrue, Crosses
  <2>5. ASSUME NEW w \in Workspaces, NEW m \in Month, NEW p \in Percents,
               Scoped(w) \notin changed'
        PROVE  AnnouncedOnce(w, m, p)'
    <3>1. Crossed(Scoped(w), m, p)' = Crossed(Scoped(w), m, p)
      BY <2>1 DEF Crossed, Telling
    <3>2. Reached(Scoped(w), m, p)' <=> Reached(Scoped(w), m, p)
      BY <2>1, <2>2, <2>5, WorkspaceUse, WorkspaceUseNext DEF Reached
    <3>3. AnnouncedOnce(w, m, p)
      BY <2>2, <2>5 DEF CrossingInv
    <3> QED
      BY <3>1, <3>2, <3>3 DEF AnnouncedOnce
  <2> QED
    BY <1>0, <2>3, <2>4, <2>5 DEF CrossingInv
<1>8. ASSUME UNCHANGED <<limit, used, call, told, changed>> PROVE CrossingInv'
  <2>1. \A w \in Workspaces, m \in Month, p \in Percents :
          /\ Crossed(Scoped(w), m, p)' = Crossed(Scoped(w), m, p)
          /\ Reached(Scoped(w), m, p)' <=> Reached(Scoped(w), m, p)
    BY <1>8, WorkspaceUse, WorkspaceUseNext DEF Crossed, Telling, Reached
  <2>2. RowIsLocked' /\ SeenIsTrue'
    BY <1>8 DEF CrossingInv, RowIsLocked, SeenIsTrue, Crosses
  <2> QED
    BY <1>0, <1>8, <2>1, <2>2 DEF CrossingInv, AnnouncedOnce
<1>9. ASSUME MonthEnds \/ UNCHANGED vars PROVE CrossingInv'
  BY <1>8, <1>9 DEF MonthEnds, vars
<1>10. ASSUME NEW c \in Callers, Adds(c) \/ Commits(c) \/ Tells(c) PROVE CrossingInv'
  BY <1>0, <1>10, AddsSeesCrossings, CommitCrosses, TellAnnounces
<1> QED
  BY <1>2, <1>4, <1>5, <1>6, <1>7, <1>9, <1>10 DEF Next, Moves

LEMMA CrossingInit == Init => CrossingInv
<1> SUFFICES ASSUME Init PROVE CrossingInv
  OBVIOUS
<1>1. BudgetTypeOK
  BY OvershootInit DEF OvershootInv
<1>2. \A c \in Callers : call[c].pc = "idle"
  BY DEF Init, Resting
<1>3. RowIsLocked /\ SeenIsTrue
  BY <1>2 DEF RowIsLocked, SeenIsTrue
<1>4. ASSUME NEW w \in Workspaces, NEW m \in Month, NEW p \in Percents
      PROVE  AnnouncedOnce(w, m, p)
  <2>1. Telling(<<Scoped(w), p>>, m) = {}
    BY <1>2 DEF Telling
  <2>2. told[m][<<Scoped(w), p>>] = 0 /\ used[w][m] = 0
    BY <1>1, TellingTypes DEF Init
  <2>3. ~Reached(Scoped(w), m, p)
    <3>1. limit[Scoped(w)] \in Nat \cup {NoLimit}
      BY <1>1, WorkspaceScope DEF BudgetTypeOK, Scoped
    <3>2. limit[Scoped(w)] \notin {NoLimit, 0} => ~(0 >= p * limit[Scoped(w)])
      <4>1. \A l \in Nat, q \in Nat : l # 0 /\ 1 <= q => ~(0 >= q * l)
        OBVIOUS
      <4> QED
        BY <3>1, <4>1, BudgetBounds
    <3>3. 100 * Used(Scoped(w), m) = 0
      BY <2>2, WorkspaceUse
    <3> QED
      BY <3>2, <3>3 DEF Reached
  <2>4. Crossed(Scoped(w), m, p) = 0
    BY <2>1, <2>2, FS_EmptySet DEF Crossed
  <2> QED
    BY <2>3, <2>4 DEF AnnouncedOnce
<1> QED
  BY <1>1, <1>3, <1>4 DEF CrossingInv

\* What a call of tokens finds is exact; what a call finds of a limit of cost is not.
TokenCrossings == kind = "tokens" => CrossingInv

\* A share of a workspace's limit of tokens is announced once, by the call whose usage reached
\* it: for every number of concurrent calls of every number of workspaces.
THEOREM CrossingsAreExact == Spec => []CrossedOnce
<1>1. TokenCrossings => CrossedOnce
  <2> SUFFICES ASSUME CrossingInv, NEW s \in Scope \ {Tenant}, NEW m \in Month,
                      NEW p \in Percents, s \notin changed
               PROVE  Crossed(s, m, p) = IF Reached(s, m, p) THEN 1 ELSE 0
    BY DEF CrossedOnce, TokenCrossings
  <2>1. s[2] \in Workspaces /\ s = Scoped(s[2])
    BY ScopeCases DEF Scoped
  <2>2. AnnouncedOnce(s[2], m, p)
    BY <2>1 DEF CrossingInv
  <2> QED
    BY <2>1, <2>2 DEF AnnouncedOnce
<1>2. Init => TokenCrossings
  BY CrossingInit DEF TokenCrossings
<1>3. TokenCrossings /\ [Next]_vars => TokenCrossings'
  <2>1. [Next]_vars => kind' = kind
    BY DEF Next, vars
  <2> QED
    BY <2>1, CrossingStep DEF TokenCrossings
<1> QED
  BY <1>1, <1>2, <1>3, PTL DEF Spec
=============================================================================
