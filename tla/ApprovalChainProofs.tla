-------------------------- MODULE ApprovalChainProofs --------------------------
(***************************************************************************)
(* Theorems about ApprovalChain, for any people, approvals, amounts,       *)
(* rulebooks and number of edits.                                          *)
(***************************************************************************)
EXTENDS ApprovalChain, TLAPS, FiniteSetTheorems, WellFoundedInduction, NaturalsInduction

-----------------------------------------------------------------------------
(* Finite sets *)

\* A set of numbers that is not empty has a least one.
LEMMA LeastNumber ==
  ASSUME NEW S \in SUBSET Nat, S # {}
  PROVE  \E j \in S : \A k \in S : j <= k
<1>1. PICK j \in S : \A k \in S : ~ (<<k, j>> \in OpToRel(<, Nat))
  BY NatLessThanWellFounded, WFMin, Zenon
<1>2. \A k \in S : ~ (k < j)
  BY <1>1, Zenon DEF OpToRel
<1> QED
  BY <1>2

\* Of sets with a property there is a smallest one; one element less is smaller.
LEMMA SmallestSet ==
  ASSUME NEW S, IsFiniteSet(S), NEW B \in SUBSET (SUBSET S), B # {}
  PROVE  \E s \in B : \A t \in SUBSET S : Cardinality(t) < Cardinality(s) => t \notin B
<1> DEFINE N == {Cardinality(s) : s \in B}
<1>0. \A s \in SUBSET S : Cardinality(s) \in Nat
  BY FS_Subset, FS_CardinalityType
<1>1. N \in SUBSET Nat /\ N # {}
  BY <1>0
<1>2. PICK j \in N : \A k \in N : j <= k
  BY <1>1, LeastNumber
<1>3. PICK s \in B : j = Cardinality(s)
  BY <1>2
<1>4. ASSUME NEW t \in SUBSET S, Cardinality(t) < Cardinality(s), t \in B
      PROVE  FALSE
  BY <1>0, <1>1, <1>2, <1>3, <1>4
<1> QED
  BY <1>3, <1>4

LEMMA TakeOne ==
  ASSUME NEW S, IsFiniteSet(S), NEW s \in SUBSET S, NEW x \in s
  PROVE  /\ s \ {x} \in SUBSET S /\ x \in S
         /\ Cardinality(s \ {x}) < Cardinality(s)
         /\ Cardinality(s \ {x}) = Cardinality(s) - 1 /\ Cardinality(s) - 1 \in Nat
<1>1. IsFiniteSet(s) /\ Cardinality(s) \in Nat
  BY FS_Subset, FS_CardinalityType
<1>2. Cardinality(s \ {x}) = Cardinality(s) - 1 /\ IsFiniteSet(s \ {x})
  BY <1>1, FS_RemoveElement
<1>3. Cardinality(s \ {x}) \in Nat
  BY <1>2, FS_CardinalityType
<1> QED
  BY <1>1, <1>2, <1>3

\* A finite set of numbers that is not empty has a greatest one.
LEMMA MaxIsGreatest ==
  ASSUME NEW S \in SUBSET Nat, IsFiniteSet(S), S # {}
  PROVE  Max(S) \in S /\ \A y \in S : Max(S) >= y
<1> DEFINE B == {s \in SUBSET S : s # {} /\ ~ \E m \in s : \A y \in s : m >= y}
<1>1. B = {}
  <2> SUFFICES ASSUME B # {} PROVE FALSE
    OBVIOUS
  <2>0. \E s \in B : \A t \in SUBSET S : Cardinality(t) < Cardinality(s) => t \notin B
    <3>1. B \in SUBSET (SUBSET S) /\ B # {}
      OBVIOUS
    <3> HIDE DEF B
    <3> QED
      BY <3>1, SmallestSet
  <2>1. PICK s \in B : \A t \in SUBSET S : Cardinality(t) < Cardinality(s) => t \notin B
    BY <2>0
  <2>2. PICK x \in s : TRUE
    OBVIOUS
  <2> DEFINE t == s \ {x}
  <2>3. t \in SUBSET S /\ Cardinality(t) < Cardinality(s) /\ x \in S
    BY TakeOne
  <2>4. CASE t = {}
    <3>1. \A y \in s : y = x
      BY <2>4
    <3> QED
      BY <2>3, <3>1
  <2>5. CASE t # {}
    <3>1. PICK m \in t : \A y \in t : m >= y
      BY <2>1, <2>3, <2>5
    <3>2. m \in s /\ m \in Nat /\ x \in Nat
      BY <2>3, <3>1
    <3>3. CASE m >= x
      <4>1. \A y \in s : m >= y
        BY <3>1, <3>3
      <4> QED
        BY <3>2, <4>1
    <3>4. CASE ~(m >= x)
      <4>1. \A y \in s : y \in Nat /\ (y = x \/ m >= y)
        BY <3>1
      <4>2. \A y \in s : x >= y
        BY <3>2, <3>4, <4>1
      <4> QED
        BY <4>2
    <3> QED
      BY <3>3, <3>4
  <2> QED
    BY <2>4, <2>5
<1>2. \E m \in S : \A y \in S : m >= y
  BY <1>1
<1> QED
  BY <1>2 DEF Max

LEMMA MinOfTwo ==
  ASSUME NEW m \in Nat, NEW n \in Nat
  PROVE  Min({m, n}) = IF m <= n THEN m ELSE n
<1>1. \E x \in {m, n} : \A y \in {m, n} : x <= y
  OBVIOUS
<1>2. Min({m, n}) \in {m, n} /\ \A y \in {m, n} : Min({m, n}) <= y
  BY <1>1 DEF Min
<1> QED
  BY <1>2

\* A set of the values of a function on a finite set is finite.
LEMMA ImageFinite ==
  ASSUME NEW S, IsFiniteSet(S), NEW f
  PROVE  IsFiniteSet({f[x] : x \in S})
<1> DEFINE T == {f[x] : x \in S}
           g == [x \in S |-> f[x]]
<1>1. g \in Surjection(S, T)
  BY DEF Surjection
<1> QED
  BY <1>1, FS_Surjection

-----------------------------------------------------------------------------
(* Sums of amounts: the order of a fold does not matter *)

SomeOf(s) == CHOOSE x \in s : TRUE

Amt(A, b) == A[b].amount

\* What the fold over s adds, when g is the fold over its subsets.
SumStep(g, A, s) == IF s = {} THEN 0 ELSE Amt(A, SomeOf(s)) + g[s \ {SomeOf(s)}]

AddsUp(g, A, S) == g = [s \in SUBSET S |-> SumStep(g, A, s)]

AmountSum(A, S) == MapThenSumSet(LAMBDA b : A[b].amount, S)

\* The recursive definition of the sum has a solution: by induction over the size n of
\* the sets on which a function follows it.
LEMMA SumExists ==
  ASSUME NEW S, IsFiniteSet(S), NEW A, \A b \in S : Amt(A, b) \in Nat
  PROVE  \E g \in [SUBSET S -> Nat] : AddsUp(g, A, S)
<1> DEFINE Follows(g, n) == \A s \in SUBSET S : Cardinality(s) <= n => g[s] = SumStep(g, A, s)
           Bad == {n \in Nat : ~ \E g \in [SUBSET S -> Nat] : Follows(g, n)}
<1>0. \A s \in SUBSET S : /\ IsFiniteSet(s) /\ Cardinality(s) \in Nat
                          /\ Cardinality(s) = 0 <=> s = {}
  BY FS_Subset, FS_CardinalityType, FS_EmptySet
<1>1. 0 \notin Bad
  <2> DEFINE g == [s \in SUBSET S |-> 0]
  <2>1. g \in [SUBSET S -> Nat]
    OBVIOUS
  <2>2. ASSUME NEW s \in SUBSET S, Cardinality(s) <= 0
        PROVE  g[s] = SumStep(g, A, s)
    <3>1. Cardinality(s) = 0
      BY <1>0, <2>2
    <3>2. s = {}
      BY <1>0, <3>1
    <3> QED
      BY <3>2 DEF SumStep
  <2> QED
    BY <2>1, <2>2
<1>2. ASSUME NEW n \in Nat, n # 0, n - 1 \notin Bad
      PROVE  n \notin Bad
  <2>0. n - 1 \in Nat
    BY <1>2
  <2>1. PICK g \in [SUBSET S -> Nat] : Follows(g, n - 1)
    BY <1>2, <2>0
  <2> DEFINE h == [s \in SUBSET S |-> IF Cardinality(s) = n THEN SumStep(g, A, s) ELSE g[s]]
  <2>2. ASSUME NEW s \in SUBSET S
        PROVE  SumStep(g, A, s) \in Nat
    <3>1. CASE s = {}
      BY <3>1 DEF SumStep
    <3>2. CASE s # {}
      <4>1. SomeOf(s) \in s
        BY <3>2 DEF SomeOf
      <4>2. Amt(A, SomeOf(s)) \in Nat /\ g[s \ {SomeOf(s)}] \in Nat
        BY <2>1, <4>1
      <4> QED
        BY <3>2, <4>2 DEF SumStep
    <3> QED
      BY <3>1, <3>2
  <2>3. h \in [SUBSET S -> Nat]
    BY <2>2
  <2>4. ASSUME NEW s \in SUBSET S, Cardinality(s) <= n
        PROVE  h[s] = SumStep(h, A, s)
    <3>1. h[s] = SumStep(g, A, s)
      <4>0. Cardinality(s) \in Nat
        BY <1>0
      <4>1. Cardinality(s) # n => Cardinality(s) <= n - 1
        BY <1>2, <2>4, <4>0
      <4> QED
        BY <2>1, <4>1
    <3>2. ASSUME s # {}
          PROVE  h[s \ {SomeOf(s)}] = g[s \ {SomeOf(s)}]
      <4>1. SomeOf(s) \in s
        BY <3>2 DEF SomeOf
      <4>2. /\ s \ {SomeOf(s)} \in SUBSET S /\ Cardinality(s) - 1 \in Nat
            /\ Cardinality(s \ {SomeOf(s)}) = Cardinality(s) - 1
        BY <4>1, TakeOne
      <4>3. Cardinality(s \ {SomeOf(s)}) # n
        BY <1>0, <1>2, <2>4, <4>2
      <4> QED
        BY <4>2, <4>3
    <3> HIDE DEF h
    <3> QED
      BY <3>1, <3>2 DEF SumStep
  <2> HIDE DEF h
  <2> QED
    BY <2>3, <2>4
<1>3. Bad = {}
  <2> SUFFICES ASSUME Bad # {} PROVE FALSE
    OBVIOUS
  <2>1. PICK n \in Bad : \A k \in Bad : n <= k
    BY LeastNumber
  <2>2. n \in Nat /\ n # 0
    BY <1>1
  <2> HIDE DEF Bad
  <2>3. n - 1 \notin Bad
    BY <2>1, <2>2
  <2> QED
    BY <1>2, <2>1, <2>2, <2>3
<1>4. Cardinality(S) \in Nat
  BY FS_CardinalityType
<1>5. PICK g \in [SUBSET S -> Nat] : Follows(g, Cardinality(S))
  BY <1>3, <1>4
<1>6. \A s \in SUBSET S : Cardinality(s) <= Cardinality(S)
  BY FS_Subset
<1>7. g = [s \in SUBSET S |-> g[s]]
  BY <1>5
<1>8. \A s \in SUBSET S : g[s] = SumStep(g, A, s)
  BY <1>5, <1>6
<1>9. g = [s \in SUBSET S |-> SumStep(g, A, s)]
  BY <1>7, <1>8, Zenon
<1> QED
  BY <1>9 DEF AddsUp

\* Two sums go through the subsets they share in the same order.
LEMMA SumsAgree ==
  ASSUME NEW S, IsFiniteSet(S), NEW T \in SUBSET S, NEW A, NEW B, NEW g, NEW h,
         AddsUp(g, A, S), AddsUp(h, B, T), \A b \in T : Amt(A, b) = Amt(B, b)
  PROVE  \A s \in SUBSET T : h[s] = g[s]
<1> DEFINE Bad == {s \in SUBSET T : h[s] # g[s]}
<1>1. ASSUME NEW s \in SUBSET T, \A t \in SUBSET T : Cardinality(t) < Cardinality(s) => h[t] = g[t]
      PROVE  h[s] = g[s]
  <2>1. g[s] = SumStep(g, A, s) /\ h[s] = SumStep(h, B, s)
    BY DEF AddsUp
  <2>2. CASE s = {}
    BY <2>1, <2>2 DEF SumStep
  <2>3. CASE s # {}
    <3>1. SomeOf(s) \in s /\ SomeOf(s) \in T
      BY <2>3 DEF SomeOf
    <3>2. /\ Cardinality(s \ {SomeOf(s)}) < Cardinality(s)
          /\ s \ {SomeOf(s)} \in SUBSET T
      BY <3>1, TakeOne, FS_Subset
    <3>3. h[s \ {SomeOf(s)}] = g[s \ {SomeOf(s)}]
      BY <1>1, <3>2
    <3> QED
      BY <2>1, <2>3, <3>1, <3>3 DEF SumStep
  <2> QED
    BY <2>2, <2>3
<1>2. Bad = {}
  <2> SUFFICES ASSUME Bad # {} PROVE FALSE
    OBVIOUS
  <2>1. IsFiniteSet(T) /\ Bad \in SUBSET (SUBSET T)
    BY FS_Subset
  <2>2. \E s \in Bad : \A t \in SUBSET T : Cardinality(t) < Cardinality(s) => t \notin Bad
    <3> HIDE DEF Bad
    <3> QED
      BY <2>1, SmallestSet
  <2> QED
    BY <1>1, <2>2
<1> QED
  BY <1>2

\* The sum is what a function that adds up, and has numbers as values, gives.
LEMMA SumIsFold ==
  ASSUME NEW S, IsFiniteSet(S), NEW A, \A b \in S : Amt(A, b) \in Nat
  PROVE  \E g \in [SUBSET S -> Nat] : AddsUp(g, A, S) /\ AmountSum(A, S) = g[S]
<1>1. PICK g \in [SUBSET S -> Nat] : AddsUp(g, A, S)
  BY SumExists
<1>2. \E h : AddsUp(h, A, S) /\ AmountSum(A, S) = h[S]
  BY <1>1 DEF AmountSum, MapThenSumSet, MapThenFoldSet, AddsUp, SumStep, SomeOf, Amt
<1>3. PICK h : AddsUp(h, A, S) /\ AmountSum(A, S) = h[S]
  BY <1>2
<1>4. h[S] = g[S]
  <2>1. S \in SUBSET S /\ \A b \in S : Amt(A, b) = Amt(A, b)
    OBVIOUS
  <2>2. \A s \in SUBSET S : h[s] = g[s]
    BY <1>1, <1>3, <2>1, SumsAgree
  <2> QED
    BY <2>1, <2>2
<1> QED
  BY <1>1, <1>3, <1>4

TakesOut(g, A, s, x) == g[s] = Amt(A, x) + g[s \ {x}]

\* Any element may be taken out of a sum first.
LEMMA SumTakesOut ==
  ASSUME NEW S, IsFiniteSet(S), NEW A, \A b \in S : Amt(A, b) \in Nat,
         NEW g \in [SUBSET S -> Nat], AddsUp(g, A, S), NEW u \in SUBSET S, NEW z \in u
  PROVE  TakesOut(g, A, u, z)
<1> DEFINE Bad == {s \in SUBSET S : ~ \A x \in s : g[s] = Amt(A, x) + g[s \ {x}]}
<1>0. \A s \in SUBSET S : s # {} =>
        /\ SomeOf(s) \in s /\ g[s] = Amt(A, SomeOf(s)) + g[s \ {SomeOf(s)}]
  BY DEF AddsUp, SumStep, SomeOf
<1>1. ASSUME NEW s \in SUBSET S, NEW x \in s,
             \A t \in SUBSET S : Cardinality(t) < Cardinality(s) => t \notin Bad
      PROVE  g[s] = Amt(A, x) + g[s \ {x}]
  <2>1. PICK y \in s : g[s] = Amt(A, y) + g[s \ {y}]
    BY <1>0
  <2>2. CASE y = x
    <3>1. s \ {y} = s \ {x} /\ Amt(A, y) = Amt(A, x)
      BY <2>2
    <3> QED
      BY <2>1, <3>1, Zenon
  <2>3. CASE y # x
    <3>1. /\ s \ {x} \in SUBSET S /\ s \ {x} \notin Bad
          /\ s \ {y} \in SUBSET S /\ s \ {y} \notin Bad
      BY <1>1, <2>1, TakeOne
    <3>2. g[s \ {y}] = Amt(A, x) + g[(s \ {y}) \ {x}]
      BY <2>3, <3>1
    <3>3. g[s \ {x}] = Amt(A, y) + g[(s \ {x}) \ {y}]
      BY <2>1, <2>3, <3>1
    <3>4. (s \ {y}) \ {x} = (s \ {x}) \ {y}
      OBVIOUS
    <3>5. /\ Amt(A, x) \in Nat /\ Amt(A, y) \in Nat
          /\ g[(s \ {x}) \ {y}] \in Nat
      BY <2>1
    <3>6. \A m, n, k \in Nat : n + (m + k) = m + (n + k)
      OBVIOUS
    <3>7. /\ g[s] = Amt(A, y) + (Amt(A, x) + g[(s \ {x}) \ {y}])
          /\ g[s \ {x}] = Amt(A, y) + g[(s \ {x}) \ {y}]
      BY <2>1, <3>2, <3>3, <3>4, Zenon
    <3>8. g[s] = Amt(A, x) + (Amt(A, y) + g[(s \ {x}) \ {y}])
      BY <3>5, <3>6, <3>7, Zenon
    <3> QED
      BY <3>7, <3>8, Zenon
  <2> QED
    BY <2>2, <2>3
<1>2. Bad = {}
  <2> SUFFICES ASSUME Bad # {} PROVE FALSE
    OBVIOUS
  <2>1. Bad \in SUBSET (SUBSET S)
    OBVIOUS
  <2>2. \E s \in Bad : \A t \in SUBSET S : Cardinality(t) < Cardinality(s) => t \notin Bad
    <3> HIDE DEF Bad
    <3> QED
      BY <2>1, SmallestSet
  <2> QED
    BY <1>1, <2>2
<1> QED
  BY <1>2 DEF TakesOut

\* More approvals, no smaller a sum.
LEMMA SumIsMonotone ==
  ASSUME NEW S, IsFiniteSet(S), NEW A, NEW B, \A b \in S : Amt(A, b) \in Nat,
         NEW T \in SUBSET S, \A b \in T : Amt(B, b) = Amt(A, b)
  PROVE  /\ AmountSum(A, S) \in Nat /\ AmountSum(B, T) \in Nat
         /\ AmountSum(B, T) <= AmountSum(A, S)
<1>0. IsFiniteSet(T) /\ \A b \in T : Amt(B, b) \in Nat
  BY FS_Subset
<1>1. PICK g \in [SUBSET S -> Nat] : AddsUp(g, A, S) /\ AmountSum(A, S) = g[S]
  BY SumIsFold
<1>2. PICK h \in [SUBSET T -> Nat] : AddsUp(h, B, T) /\ AmountSum(B, T) = h[T]
  BY <1>0, SumIsFold
<1>3. h[T] = g[T]
  <2>1. \A s \in SUBSET T : h[s] = g[s]
    BY <1>1, <1>2, SumsAgree
  <2> QED
    BY <2>1
<1> DEFINE Bad == {s \in SUBSET S : T \subseteq s /\ ~(g[T] <= g[s])}
<1>4. Bad = {}
  <2> SUFFICES ASSUME Bad # {} PROVE FALSE
    OBVIOUS
  <2>1. \E s \in Bad : \A t \in SUBSET S : Cardinality(t) < Cardinality(s) => t \notin Bad
    <3>1. Bad \in SUBSET (SUBSET S)
      OBVIOUS
    <3> HIDE DEF Bad
    <3> QED
      BY <3>1, SmallestSet
  <2>2. PICK s \in Bad : \A t \in SUBSET S : Cardinality(t) < Cardinality(s) => t \notin Bad
    BY <2>1
  <2>3. g[T] \in Nat /\ g[s] \in Nat
    BY <1>1
  <2>4. \E x \in s : x \notin T
    <3>1. CASE s \subseteq T
      <4>1. s = T
        BY <2>2, <3>1
      <4> QED
        BY <2>2, <2>3, <4>1
    <3> QED
      BY <3>1
  <2>4a. PICK x \in s : x \notin T
    BY <2>4
  <2>5. s \ {x} \in SUBSET S /\ Cardinality(s \ {x}) < Cardinality(s)
    BY TakeOne
  <2>6. g[T] <= g[s \ {x}]
    BY <2>2, <2>4a, <2>5
  <2>7. g[s] = Amt(A, x) + g[s \ {x}]
    <3>1. AddsUp(g, A, S) /\ s \in SUBSET S /\ x \in s
      BY <1>1
    <3>2. TakesOut(g, A, s, x)
      BY <3>1, SumTakesOut, Zenon
    <3> QED
      BY <3>2 DEF TakesOut
  <2>8. Amt(A, x) \in Nat /\ g[s \ {x}] \in Nat
    BY <1>1
  <2> QED
    BY <2>3, <2>6, <2>7, <2>8
<1>5. S \in SUBSET S /\ T \subseteq S
  OBVIOUS
<1> QED
  BY <1>1, <1>2, <1>3, <1>4, <1>5

-----------------------------------------------------------------------------
(* Type correctness *)

LEMMA PlainFacts ==
  /\ IsFiniteSet(Approvals) /\ MaxChanges \in Nat /\ Unknown \notin Nat /\ NoLimit \notin Nat
  /\ Amounts \cup {Unknown} \subseteq Nat \cup {Unknown}
  /\ Owners \subseteq People /\ Members \subseteq People /\ OrgAdmins \subseteq People
BY ChainAssumption, RulebookAssumption

LEMMA ApprovalFields ==
  ASSUME ChainTypeOK, NEW a \in Approvals
  PROVE  /\ approval[a] \in Approval /\ approval[a].status \in Status
         /\ approval[a].approvers \in Seq(People) /\ Len(approval[a].approvers) \in Nat
         /\ approval[a].amount \in Nat \cup {Unknown}
BY PlainFacts DEF ChainTypeOK, Approval

\* What the steps write into an approval.
LEMMA ApprovalWrites ==
  ASSUME NEW x \in Approval, NEW status \in Status, NEW approvers \in Seq(People),
         NEW amount \in Amounts
  PROVE  /\ [x EXCEPT !.status = status] \in Approval
         /\ [x EXCEPT !.status = status, !.approvers = approvers] \in Approval
         /\ [x EXCEPT !.status = status, !.amount = amount] \in Approval
BY DEF Approval

\* A decision writes one approval; the others stay.
LEMMA SetsOne ==
  ASSUME ChainTypeOK, NEW a \in Approvals, NEW status \in Status, NEW approvers \in Seq(People),
         SetApproval(a, status, approvers)
  PROVE  /\ ChainTypeOK'
         /\ approval'[a].status = status /\ approval'[a].approvers = approvers
         /\ approval'[a].amount = approval[a].amount
         /\ \A b \in Approvals : b # a => approval'[b] = approval[b]
<1>1. approval \in [Approvals -> Approval] /\ approval[a] \in Approval
  BY DEF ChainTypeOK
<1> DEFINE x == [approval[a] EXCEPT !.status = status, !.approvers = approvers]
<1>2. x \in Approval /\ x.status = status /\ x.approvers = approvers
      /\ x.amount = approval[a].amount
  BY <1>1, ApprovalWrites DEF Approval
<1>3. approval' = [approval EXCEPT ![a] = x]
  BY <1>1 DEF SetApproval
<1> HIDE DEF x
<1>4. approval' \in [Approvals -> Approval] /\ approval'[a] = x
      /\ \A b \in Approvals : b # a => approval'[b] = approval[b]
  BY <1>1, <1>2, <1>3
<1> QED
  BY <1>2, <1>4 DEF ChainTypeOK, SetApproval

LEMMA BecomesOne ==
  ASSUME ChainTypeOK, NEW a \in Approvals, NEW status \in Status, Becomes(a, status)
  PROVE  /\ ChainTypeOK'
         /\ approval'[a].status = status /\ approval'[a].approvers = approval[a].approvers
         /\ approval'[a].amount = approval[a].amount
         /\ \A b \in Approvals : b # a => approval'[b] = approval[b]
BY SetsOne, ApprovalFields DEF Becomes

\* Who has approved, and what was decided, only changes by a decision: every other step
\* leaves the approvers of every approval, makes none approved and drops none.
Undecided ==
  \A a \in Approvals :
    /\ approval'[a].approvers = approval[a].approvers
    /\ approval'[a].status = "approved" <=> approval[a].status = "approved"
    /\ approval[a].status = "approved" => approval'[a].amount = approval[a].amount

LEMMA ProposeStep ==
  ASSUME ChainTypeOK, NEW a \in Approvals, NEW amount \in Amounts, Propose(a, amount)
  PROVE  ChainTypeOK' /\ Undecided
<1>1. approval \in [Approvals -> Approval] /\ approval[a] \in Approval /\ "pending" \in Status
  BY DEF ChainTypeOK, Status
<1> DEFINE x == [approval[a] EXCEPT !.status = "pending", !.amount = amount]
<1>2. x \in Approval /\ x.status = "pending" /\ x.approvers = approval[a].approvers
  BY <1>1, ApprovalWrites DEF Approval
<1>3. approval' = [approval EXCEPT ![a] = x]
  BY <1>1 DEF Propose
<1> HIDE DEF x
<1>4. approval' \in [Approvals -> Approval] /\ approval'[a] = x
      /\ \A b \in Approvals : b # a => approval'[b] = approval[b]
  BY <1>1, <1>2, <1>3
<1>5. approval[a].status = "absent"
  BY DEF Propose
<1>6. ChainTypeOK'
  BY <1>4 DEF ChainTypeOK, Propose
<1>7. ASSUME NEW b \in Approvals
      PROVE  /\ approval'[b].approvers = approval[b].approvers
             /\ approval'[b].status = "approved" <=> approval[b].status = "approved"
             /\ approval[b].status = "approved" => approval'[b].amount = approval[b].amount
  <2>1. CASE b = a
    BY <1>2, <1>4, <1>5, <2>1
  <2>2. CASE b # a
    BY <1>4, <2>2
  <2> QED
    BY <2>1, <2>2
<1> QED
  BY <1>6, <1>7 DEF Undecided

LEMMA CancelStep ==
  ASSUME ChainTypeOK, CancelTask
  PROVE  ChainTypeOK' /\ Undecided
<1>1. ASSUME NEW a \in Approvals
      PROVE  /\ approval'[a] \in Approval /\ approval'[a].approvers = approval[a].approvers
             /\ approval'[a].status = "approved" <=> approval[a].status = "approved"
             /\ approval[a].status = "approved" => approval'[a].amount = approval[a].amount
  <2>1. approval[a] \in Approval /\ "expired" \in Status
    BY DEF ChainTypeOK, Status
  <2>2. approval'[a] = IF approval[a].status \in {"pending", "lapsed"}
                       THEN [approval[a] EXCEPT !.status = "expired"] ELSE approval[a]
    BY DEF CancelTask
  <2>3. CASE approval[a].status \in {"pending", "lapsed"}
    <3>1. approval'[a] = [approval[a] EXCEPT !.status = "expired"]
      BY <2>2, <2>3
    <3> QED
      BY <2>1, <2>3, <3>1 DEF Approval
  <2>4. CASE approval[a].status \notin {"pending", "lapsed"}
    BY <2>1, <2>2, <2>4
  <2> QED
    BY <2>3, <2>4
<1>2. approval' \in [Approvals -> Approval]
  <2>1. approval' = [a \in Approvals |-> IF approval[a].status \in {"pending", "lapsed"}
                       THEN [approval[a] EXCEPT !.status = "expired"] ELSE approval[a]]
    BY DEF CancelTask
  <2>2. approval' = [a \in Approvals |-> approval'[a]]
    BY <2>1
  <2> QED
    BY <1>1, <2>2
<1> QED
  BY <1>1, <1>2 DEF ChainTypeOK, CancelTask, Undecided

\* The other steps that decide nothing.
Passing ==
  \/ \E a \in Approvals : Lapse(a) \/ \E amount \in Amounts : Propose(a, amount)
  \/ \E a \in Approvals, p \in People :
       RefuseChangedTarget(p, a) \/ Reject(p, a) \/ DecideLapsed(p, a)
  \/ CancelTask
  \/ \E book \in Rulebooks : EditRules(book)
  \/ TurnSwitch
  \/ UNCHANGED vars

LEMMA NextSplits ==
  [Next]_vars => Passing \/ \E a \in Approvals, p \in People : Approve(p, a)
BY DEF Next, Decide, Passing

LEMMA PassingStep ==
  ASSUME ChainTypeOK, Passing
  PROVE  ChainTypeOK' /\ Undecided
<1>1. ASSUME NEW a \in Approvals, NEW status \in {"lapsed", "expired", "rejected"},
             approval[a].status \in {"pending", "lapsed"}, Becomes(a, status)
      PROVE  ChainTypeOK' /\ Undecided
  <2>1. status \in Status
    BY DEF Status
  <2>2. /\ ChainTypeOK'
        /\ approval'[a].status = status /\ approval'[a].approvers = approval[a].approvers
        /\ \A b \in Approvals : b # a => approval'[b] = approval[b]
    BY <1>1, <2>1, BecomesOne
  <2>3. ASSUME NEW b \in Approvals
        PROVE  /\ approval'[b].approvers = approval[b].approvers
               /\ approval'[b].status = "approved" <=> approval[b].status = "approved"
               /\ approval[b].status = "approved" => approval'[b].amount = approval[b].amount
    <3>1. CASE b = a
      BY <1>1, <2>2, <3>1
    <3>2. CASE b # a
      BY <2>2, <3>2
    <3> QED
      BY <3>1, <3>2
  <2> QED
    BY <2>2, <2>3 DEF Undecided
<1>2. ASSUME NEW a \in Approvals, Lapse(a)
      PROVE  ChainTypeOK' /\ Undecided
  BY <1>1, <1>2 DEF Lapse
<1>3. ASSUME NEW a \in Approvals, NEW p \in People,
             RefuseChangedTarget(p, a) \/ Reject(p, a) \/ DecideLapsed(p, a)
      PROVE  ChainTypeOK' /\ Undecided
  BY <1>1, <1>3 DEF RefuseChangedTarget, Reject, DecideLapsed
<1>4. ASSUME UNCHANGED approval, rules' \in Rulebooks, twoPerson' \in BOOLEAN,
             changes' \in 0..MaxChanges
      PROVE  ChainTypeOK' /\ Undecided
  BY <1>4 DEF ChainTypeOK, Undecided
<1>5. ASSUME NEW book \in Rulebooks, EditRules(book)
      PROVE  ChainTypeOK' /\ Undecided
  <2>1. changes' \in 0..MaxChanges
    BY <1>5, PlainFacts DEF EditRules, ChainTypeOK
  <2> QED
    BY <1>4, <1>5, <2>1 DEF EditRules, ChainTypeOK
<1>6. CASE TurnSwitch
  <2>1. changes' \in 0..MaxChanges
    BY <1>6, PlainFacts DEF TurnSwitch, ChainTypeOK
  <2> QED
    BY <1>4, <1>6, <2>1 DEF TurnSwitch, ChainTypeOK
<1>7. CASE UNCHANGED vars
  BY <1>4, <1>7 DEF vars, ChainTypeOK
<1> QED
  BY <1>2, <1>3, <1>5, <1>6, <1>7, ProposeStep, CancelStep DEF Passing

LEMMA ApproveStep ==
  ASSUME ChainTypeOK, NEW a \in Approvals, NEW p \in People, Approve(p, a)
  PROVE  LET s == approval[a].approvers IN
         /\ ChainTypeOK'
         /\ approval'[a].status = StatusAfter(Len(s) + 1, Required(a))
         /\ approval'[a].approvers = Append(s, p)
         /\ Len(approval'[a].approvers) = Len(s) + 1
         /\ approval'[a].approvers[Len(s) + 1] = p
         /\ \A i \in 1..Len(s) : approval'[a].approvers[i] = s[i]
         /\ approval'[a].amount = approval[a].amount
         /\ \A b \in Approvals : b # a => approval'[b] = approval[b]
<1> DEFINE s == approval[a].approvers
           t == Append(s, p)
           status == StatusAfter(Len(t), Required(a))
<1>1. s \in Seq(People) /\ Len(s) \in Nat
  BY ApprovalFields
<1>2. /\ t \in Seq(People) /\ Len(t) = Len(s) + 1 /\ t[Len(s) + 1] = p
      /\ \A i \in 1..Len(s) : t[i] = s[i]
  BY <1>1
<1>3. status \in Status
  BY DEF StatusAfter, Status
<1>4. SetApproval(a, status, t)
  BY DEF Approve
<1> HIDE DEF t, status
<1>5. /\ ChainTypeOK'
      /\ approval'[a].status = status /\ approval'[a].approvers = t
      /\ approval'[a].amount = approval[a].amount
      /\ \A b \in Approvals : b # a => approval'[b] = approval[b]
  BY <1>2, <1>3, <1>4, SetsOne
<1> QED
  BY <1>2, <1>5 DEF t, status

LEMMA ChainTypeInit == Init => ChainTypeOK
<1> SUFFICES ASSUME Init PROVE ChainTypeOK
  OBVIOUS
<1>1. approval \in [Approvals -> Approval]
  <2>1. <<>> \in Seq(People) /\ "absent" \in Status
    BY DEF Status
  <2>2. [status |-> "absent", approvers |-> <<>>, amount |-> Unknown] \in Approval
    BY <2>1 DEF Approval
  <2> QED
    BY <2>2 DEF Init
<1>2. changes \in 0..MaxChanges
  BY PlainFacts DEF Init
<1> QED
  BY <1>1, <1>2 DEF Init, ChainTypeOK

\* Approvals, rules and the switch keep their types.
THEOREM ChainTypeCorrect == Spec => []ChainTypeOK
<1>1. ChainTypeOK /\ [Next]_vars => ChainTypeOK'
  BY NextSplits, PassingStep, ApproveStep
<1> QED
  BY <1>1, ChainTypeInit, PTL DEF Spec

-----------------------------------------------------------------------------
(* Routes *)

LEMMA RuleFields ==
  ASSUME ChainTypeOK
  PROVE  /\ IsFiniteSet(rules)
         /\ \A r \in rules : /\ r \in UNION Rulebooks
                             /\ r.minimum \in Nat /\ r.minimum >= 1
                             /\ r.steps \in Seq(SUBSET Approver) /\ Len(r.steps) \in Nat
                             /\ r.band.above \in Int /\ r.band.atMost \in Nat \cup {NoLimit}
<1>1. rules \in SUBSET (UNION Rulebooks)
  BY DEF ChainTypeOK
<1>2. IsFiniteSet(rules)
  BY <1>1, RulebookAssumption, FS_Subset
<1>3. \A r \in rules : r \in GovernanceApprovalRule
  BY <1>1, RulebookAssumption
<1> QED
  BY <1>1, <1>2, <1>3 DEF GovernanceApprovalRule

\* Every rule asks for at least one step, and every step for some set of approvers; the
\* steps of a rule without approver steps are for owners only.
LEMMA RuleSteps ==
  ASSUME ChainTypeOK, NEW r \in rules
  PROVE  /\ Len(StepsOf(r)) \in Nat /\ Len(StepsOf(r)) >= 1
         /\ \A i \in 1..Len(StepsOf(r)) : StepsOf(r)[i] # {}
         /\ r.steps = <<>> => \A i \in 1..Len(StepsOf(r)) : StepsOf(r)[i] = {{"owner"}}
         /\ r.steps # <<>> => /\ Len(StepsOf(r)) = Len(r.steps)
                              /\ \A i \in 1..Len(r.steps) : StepsOf(r)[i] = {r.steps[i]}
<1>1. /\ r.minimum \in Nat /\ r.steps \in Seq(SUBSET Approver) /\ Len(r.steps) \in Nat
  BY RuleFields
<1>2. CASE r.steps # <<>>
  <2>1. StepsOf(r) = [i \in 1..Len(r.steps) |-> {r.steps[i]}]
    BY <1>1, <1>2 DEF StepsOf
  <2>2. StepsOf(r) \in Seq(SUBSET SUBSET Approver) /\ Len(StepsOf(r)) = Len(r.steps)
    BY <1>1, <2>1
  <2>3. Len(r.steps) >= 1
    BY <1>1, <1>2
  <2> QED
    BY <1>1, <1>2, <2>1, <2>2, <2>3
<1>3. CASE r.steps = <<>>
  <2> DEFINE n == RequiredApprovals(r.minimum)
  <2>1. n \in Nat /\ n >= 1
    BY <1>1 DEF RequiredApprovals
  <2>2. StepsOf(r) = [i \in 1..n |-> {{"owner"}}]
    BY <1>3 DEF StepsOf
  <2> HIDE DEF n
  <2>3. StepsOf(r) \in Seq({{{"owner"}}}) /\ Len(StepsOf(r)) = n
    BY <2>1, <2>2
  <2> QED
    BY <1>3, <2>1, <2>2, <2>3
<1> QED
  BY <1>2, <1>3

\* The longest of the routes that are merged.
Depth(a) == Max({Len(s) : s \in {StepsOf(r) : r \in Applicable(a)}})

LEMMA DepthIsLongest ==
  ASSUME ChainTypeOK, NEW a, Applicable(a) # {}
  PROVE  /\ Depth(a) \in Nat /\ Depth(a) >= 1
         /\ \E r \in Applicable(a) : Len(StepsOf(r)) = Depth(a)
         /\ \A r \in Applicable(a) : Len(StepsOf(r)) <= Depth(a)
<1> DEFINE f == [r \in rules |-> Len(StepsOf(r))]
           L == {f[r] : r \in Applicable(a)}
<1>1. Applicable(a) \in SUBSET rules
  BY DEF Applicable
<1>2. IsFiniteSet(Applicable(a))
  BY <1>1, RuleFields, FS_Subset
<1>3. IsFiniteSet(L)
  BY <1>2, ImageFinite
<1>4. \A r \in Applicable(a) : f[r] = Len(StepsOf(r)) /\ f[r] \in Nat /\ f[r] >= 1
  BY <1>1, RuleSteps
<1>5. L = {Len(s) : s \in {StepsOf(r) : r \in Applicable(a)}}
  BY <1>4
<1>6. L \in SUBSET Nat /\ L # {}
  BY <1>4
<1> HIDE DEF f
<1>7. Max(L) \in L /\ \A n \in L : Max(L) >= n
  <2> HIDE DEF L
  <2> QED
    BY <1>3, <1>6, MaxIsGreatest
<1>8. Depth(a) = Max(L)
  BY <1>5 DEF Depth
<1> HIDE DEF Depth
<1>9. PICK r \in Applicable(a) : Depth(a) = f[r]
  BY <1>7, <1>8
<1>10. ASSUME NEW q \in Applicable(a) PROVE Len(StepsOf(q)) <= Depth(a)
  <2>1. f[q] \in L /\ f[q] \in Nat /\ Depth(a) \in Nat
    BY <1>4, <1>9
  <2>2. Depth(a) >= f[q]
    BY <1>7, <1>8, <2>1
  <2> QED
    BY <1>4, <2>1, <2>2
<1> QED
  BY <1>4, <1>9, <1>10

\* A route has at least one step and every step asks for somebody; the last step of the
\* longest rules is among the last step of the route.
LEMMA RouteSteps ==
  ASSUME ChainTypeOK, NEW a
  PROVE  /\ Len(Steps(a)) \in Nat /\ Len(Steps(a)) >= 1
         /\ \A i \in 1..Len(Steps(a)) : Steps(a)[i] # {}
         /\ Applicable(a) = {} => Steps(a) = <<{{"owner"}}>>
         /\ Applicable(a) # {} =>
              \E r \in Applicable(a) :
                /\ Len(StepsOf(r)) = Len(Steps(a))
                /\ StepsOf(r)[Len(Steps(a))] \subseteq Steps(a)[Len(Steps(a))]
<1> DEFINE merged == {StepsOf(r) : r \in Applicable(a)}
           Merged(i) == UNION {s[i] : s \in {t \in merged : i <= Len(t)}}
<1>1. CASE Applicable(a) = {}
  <2>1. merged = {}
    BY <1>1
  <2>2. Steps(a) = <<{{"owner"}}>>
    BY <2>1 DEF Steps
  <2>3. Len(<<{{"owner"}}>>) = 1 /\ <<{{"owner"}}>>[1] = {{"owner"}}
    OBVIOUS
  <2>4. Len(Steps(a)) = 1 /\ Steps(a)[1] = {{"owner"}}
    BY <2>2, <2>3, Zenon
  <2>5. Len(Steps(a)) \in Nat /\ Len(Steps(a)) >= 1
    BY <2>4
  <2>6. ASSUME NEW i \in 1..Len(Steps(a)) PROVE Steps(a)[i] # {}
    <3>1. i = 1
      BY <2>4
    <3> QED
      BY <2>4, <3>1
  <2> QED
    BY <1>1, <2>2, <2>5, <2>6, Zenon
<1>2. CASE Applicable(a) # {}
  <2>0. merged # {}
    BY <1>2
  <2>1. Depth(a) \in Nat /\ Depth(a) >= 1
    BY <1>2, DepthIsLongest
  <2>2. PICK r \in Applicable(a) : Len(StepsOf(r)) = Depth(a)
    BY <1>2, DepthIsLongest
  <2>3. Steps(a) = [i \in 1..Depth(a) |-> Merged(i)]
    BY <2>0 DEF Steps, Depth
  <2>4. Len(Steps(a)) = Depth(a) /\ \A i \in 1..Depth(a) : Steps(a)[i] = Merged(i)
    <3> HIDE DEF Merged
    <3>1. DOMAIN Steps(a) = 1..Depth(a)
      BY <2>3
    <3>2. Steps(a) \in Seq({Merged(i) : i \in 1..Depth(a)})
      BY <2>1, <2>3
    <3> QED
      BY <2>1, <2>3, <3>1, <3>2
  <2>5. r \in rules
    BY DEF Applicable
  <2>6. ASSUME NEW i \in 1..Depth(a)
        PROVE  StepsOf(r)[i] \subseteq Merged(i) /\ StepsOf(r)[i] # {}
    <3>1. StepsOf(r) \in {t \in merged : i <= Len(t)}
      BY <2>1, <2>2
    <3>2. StepsOf(r)[i] # {}
      BY <2>2, <2>5, RuleSteps
    <3> QED
      BY <3>1, <3>2
  <2>7. Depth(a) \in 1..Depth(a)
    BY <2>1
  <2> HIDE DEF Merged, merged
  <2>8. \A i \in 1..Depth(a) : Steps(a)[i] # {}
    BY <2>4, <2>6
  <2>9. /\ Len(StepsOf(r)) = Len(Steps(a))
        /\ StepsOf(r)[Len(Steps(a))] \subseteq Steps(a)[Len(Steps(a))]
    BY <2>2, <2>4, <2>6, <2>7
  <2>10. \A i \in 1..Len(Steps(a)) : Steps(a)[i] # {}
    BY <2>4, <2>8
  <2>11. \E q \in Applicable(a) :
          /\ Len(StepsOf(q)) = Len(Steps(a))
          /\ StepsOf(q)[Len(Steps(a))] \subseteq Steps(a)[Len(Steps(a))]
    BY <2>2, <2>9, Zenon
  <2>12. Len(Steps(a)) \in Nat /\ Len(Steps(a)) >= 1
    BY <2>1, <2>4, Zenon
  <2> QED
    BY <1>2, <2>10, <2>11, <2>12, Zenon
<1> QED
  BY <1>1, <1>2

\* The step the next approver has to be eligible for: the last one when nobody else has
\* to follow.
LEMMA TheCurrentStep ==
  ASSUME ChainTypeOK, NEW a \in Approvals
  PROVE  /\ CurrentStep(a) # {}
         /\ Len(approval[a].approvers) + 1 >= Len(Steps(a)) =>
              CurrentStep(a) = Steps(a)[Len(Steps(a))]
<1> DEFINE m == Len(approval[a].approvers) + 1
           n == Len(Steps(a))
<1>1. m \in Nat /\ m >= 1 /\ n \in Nat /\ n >= 1
  BY ApprovalFields, RouteSteps
<1>2. \A i \in 1..n : Steps(a)[i] # {}
  BY RouteSteps
<1>3. CurrentStep(a) = Steps(a)[Min({m, n})]
  BY DEF CurrentStep
<1> HIDE DEF m
<1>4. Min({m, n}) = IF m <= n THEN m ELSE n
  <2> HIDE DEF n
  <2> QED
    BY <1>1, MinOfTwo
<1>5. Min({m, n}) \in 1..n /\ (m >= n => Min({m, n}) = n)
  <2> HIDE DEF n
  <2> QED
    BY <1>1, <1>4
<1> QED
  BY <1>2, <1>3, <1>5 DEF m

-----------------------------------------------------------------------------
(* What a client is shown *)

\* Whoever a step asks for belongs to the workspace or the organization.
LEMMA EligibleAreInvited ==
  ASSUME NEW p \in People, NEW step, step # {}, EligibleFor(p, step)
  PROVE  p \in Owners \cup Members \cup OrgAdmins
<1>1. PICK S \in step : \E approver \in S : Holds(p, approver)
  BY DEF EligibleFor
<1> QED
  BY <1>1 DEF Holds

LEMMA ViewIsTrue == ChainTypeOK => RoutedViewIsTrue
<1> SUFFICES ASSUME ChainTypeOK, Routed, NEW a \in Approvals, NEW p \in People
             PROVE  CanApprove(p, a) <=> Accepted(p, a)
  BY DEF RoutedViewIsTrue
<1>1. CurrentStep(a) # {}
  BY TheCurrentStep
<1>2. EligibleFor(p, CurrentStep(a)) => Owner(p) \/ p \in Members \cup OrgAdmins
  BY <1>1, EligibleAreInvited DEF Owner
<1>3. Accepted(p, a) <=>
        /\ EligibleFor(p, CurrentStep(a)) /\ ~SelfApprovalRefused(p, a)
        /\ (twoPerson => ~OwnRequest(p)) /\ p \notin Recorded(a)
  BY DEF Accepted, MayApprove, RulesAllow, SwitchAllows, Counts
<1>4. ~SelfApprovalRefused(p, a) /\ OwnRequest(p) => Owner(p)
  BY DEF SelfApprovalRefused
<1> QED
  BY <1>2, <1>3, <1>4 DEF CanApprove

\* What the card of a routed approval offers is what a decision accepts, whatever the
\* rules, the switch and the approvals recorded so far (_routing_view; _routing_refusal,
\* _delegated_refusal and the 409 of a second approval).
THEOREM RoutedViewsAreTrue == Spec => []RoutedViewIsTrue
BY ViewIsTrue, ChainTypeCorrect, PTL

-----------------------------------------------------------------------------
(* Enough people decide *)

\* Nobody is recorded twice.
OncePerPerson ==
  \A a \in Approvals : \A i, j \in 1..Len(approval[a].approvers) :
    approval[a].approvers[i] = approval[a].approvers[j] => i = j

ChainInv == ChainTypeOK /\ OncePerPerson

LEMMA RecordedAre ==
  ASSUME ChainTypeOK, NEW a \in Approvals
  PROVE  Recorded(a) = {approval[a].approvers[i] : i \in 1..Len(approval[a].approvers)}
BY ApprovalFields DEF Recorded

LEMMA ChainInvStep == ChainInv /\ [Next]_vars => ChainInv'
<1> SUFFICES ASSUME ChainInv, [Next]_vars PROVE ChainInv'
  OBVIOUS
<1>1. CASE Passing
  <2>1. ChainTypeOK' /\ Undecided
    BY <1>1, PassingStep DEF ChainInv
  <2>2. OncePerPerson'
    BY <2>1 DEF ChainInv, OncePerPerson, Undecided
  <2> QED
    BY <2>1, <2>2 DEF ChainInv
<1>2. ASSUME NEW a \in Approvals, NEW p \in People, Approve(p, a) PROVE ChainInv'
  <2> DEFINE s == approval[a].approvers
             t == approval'[a].approvers
  <2>1. /\ ChainTypeOK' /\ Len(t) = Len(s) + 1 /\ t[Len(s) + 1] = p
        /\ \A i \in 1..Len(s) : t[i] = s[i]
        /\ \A b \in Approvals : b # a => approval'[b] = approval[b]
    BY <1>2, ApproveStep DEF ChainInv
  <2>2. Len(s) \in Nat /\ \A i \in 1..Len(s) : s[i] # p
    BY <1>2, ApprovalFields, RecordedAre DEF ChainInv, Approve, Accepted, Counts
  <2>3. \A i, j \in 1..Len(s) : s[i] = s[j] => i = j
    BY DEF ChainInv, OncePerPerson
  <2>4. ASSUME NEW i \in 1..Len(t), NEW j \in 1..Len(t), t[i] = t[j] PROVE i = j
    <3>0. (i \in 1..Len(s) \/ i = Len(s) + 1) /\ (j \in 1..Len(s) \/ j = Len(s) + 1)
      BY <2>1, <2>2
    <3> HIDE DEF s, t
    <3> QED
      BY <2>1, <2>2, <2>3, <2>4, <3>0
  <2>5. OncePerPerson'
    <3>1. ASSUME NEW b \in Approvals, NEW i \in 1..Len(approval'[b].approvers),
                 NEW j \in 1..Len(approval'[b].approvers),
                 approval'[b].approvers[i] = approval'[b].approvers[j]
          PROVE  i = j
      <4>1. CASE b = a
        BY <2>4, <3>1, <4>1
      <4>2. CASE b # a
        BY <2>1, <3>1, <4>2 DEF ChainInv, OncePerPerson
      <4> QED
        BY <4>1, <4>2
    <3> QED
      BY <3>1 DEF OncePerPerson
  <2> QED
    BY <2>1, <2>5 DEF ChainInv
<1> QED
  BY <1>1, <1>2, NextSplits

LEMMA ChainInvInit == Init => ChainInv
<1> SUFFICES ASSUME Init PROVE ChainInv
  OBVIOUS
<1>1. \A a \in Approvals : approval[a].approvers = <<>>
  BY DEF Init
<1>2. OncePerPerson
  BY <1>1 DEF OncePerPerson
<1>3. ChainTypeOK
  BY ChainTypeInit
<1> QED
  BY <1>2, <1>3 DEF ChainInv

\* Nobody is recorded twice for an approval (_decide_in_unit answers the second time 409).
THEOREM ChainInvHolds == Spec => []ChainInv
BY ChainInvInit, ChainInvStep, PTL DEF Spec

\* A rule that matches has no larger minimum than the chain's.
LEMMA MinimumIsLargest ==
  ASSUME ChainTypeOK
  PROVE  Minimum \in Nat /\ \A r \in rules : Minimum >= r.minimum
<1> DEFINE f == [r \in rules |-> r.minimum]
           M == {1} \cup {f[r] : r \in rules}
<1>1. \A r \in rules : f[r] = r.minimum /\ f[r] \in Nat
  BY RuleFields
<1>2. IsFiniteSet({f[r] : r \in rules})
  BY RuleFields, ImageFinite
<1>3. IsFiniteSet(M)
  BY <1>2, FS_Union, FS_Singleton
<1>4. M \in SUBSET Nat /\ M # {}
  BY <1>1
<1>5. Max(M) \in M /\ \A n \in M : Max(M) >= n
  <2> HIDE DEF M
  <2> QED
    BY <1>3, <1>4, MaxIsGreatest
<1>6. Minimum = Max(M)
  <2>1. M = {1} \cup {r.minimum : r \in rules}
    BY <1>1
  <2> QED
    BY <2>1 DEF Minimum
<1>7. \A r \in rules : r.minimum \in M
  BY <1>1
<1> HIDE DEF M
<1> QED
  BY <1>4, <1>5, <1>6, <1>7

LEMMA RequiredIsNumber == ASSUME ChainTypeOK, NEW a PROVE Required(a) \in Nat
<1>1. Len(Steps(a)) \in Nat
  BY RouteSteps
<1>2. Minimum \in Nat
  BY MinimumIsLargest
<1> QED
  BY <1>1, <1>2 DEF Required, RequiredApprovals

\* Different positions, different people: as many of them as positions.
LEMMA PeopleCount ==
  ASSUME NEW t, Len(t) \in Nat, \A i, j \in 1..Len(t) : t[i] = t[j] => i = j
  PROVE  Cardinality({t[i] : i \in 1..Len(t)}) = Len(t)
<1> DEFINE T == {t[i] : i \in 1..Len(t)}
           f == [i \in 1..Len(t) |-> t[i]]
<1>1. f \in Surjection(1..Len(t), T) /\ f \in Injection(1..Len(t), T)
  BY DEF Surjection, Injection, IsInjective
<1>2. IsFiniteSet(1..Len(t)) /\ Cardinality(1..Len(t)) = Len(t)
  <2>1. \A n \in Nat : IsFiniteSet(1..n) /\ Cardinality(1..n) = n
    BY FS_Interval
  <2> QED
    BY <2>1
<1> HIDE DEF f, T
<1>3. Cardinality(T) = Cardinality(1..Len(t))
  BY <1>1, <1>2, FS_Surjection
<1> QED
  BY <1>2, <1>3 DEF T

LEMMA CompletedBy ==
  ASSUME ChainInv, NEW a \in Approvals, NEW p \in People, Approve(p, a), Completes(a)
  PROVE  LET t == approval'[a].approvers IN
         /\ Cardinality({t[i] : i \in DOMAIN t}) >= Required(a)
         /\ twoPerson \/ TwoPersonRoute(a) => t[Len(t)] \notin Requesters
<1> DEFINE s == approval[a].approvers
           t == approval'[a].approvers
<1>1. /\ t = Append(s, p) /\ Len(t) = Len(s) + 1 /\ t[Len(s) + 1] = p
      /\ approval'[a].status = StatusAfter(Len(s) + 1, Required(a))
      /\ s \in Seq(People) /\ Len(s) \in Nat
  BY ApproveStep, ApprovalFields DEF ChainInv
<1>2. t \in Seq(People) /\ DOMAIN t = 1..Len(t) /\ Len(t) \in Nat
  BY <1>1
<1>3. ~(Len(s) + 1 < Required(a))
  BY <1>1 DEF Completes, StatusAfter
<1>4. Required(a) \in Nat
  BY RequiredIsNumber DEF ChainInv
<1>5. \A i, j \in 1..Len(t) : t[i] = t[j] => i = j
  <2>1. [Next]_vars
    BY DEF Next, Decide
  <2>2. OncePerPerson'
    BY <2>1, ChainInvStep DEF ChainInv
  <2> QED
    BY <2>2 DEF OncePerPerson
<1>6. Cardinality({t[i] : i \in 1..Len(t)}) = Len(t)
  <2> HIDE DEF t
  <2> QED
    BY <1>2, <1>5, PeopleCount
<1>7. twoPerson \/ TwoPersonRoute(a) => p \notin Requesters
  <2>1. RulesAllow(p, a) /\ SwitchAllows(p)
    BY DEF Approve, Accepted
  <2>2. CASE twoPerson
    BY <2>1, <2>2 DEF SwitchAllows, OwnRequest
  <2>3. CASE TwoPersonRoute(a) /\ Routed
    BY <2>1, <2>3 DEF RulesAllow, SelfApprovalRefused, OwnRequest
  <2>4. CASE TwoPersonRoute(a) /\ ~Routed
    <3>1. PICK r \in rules : r.minimum >= 2
      BY <2>4 DEF TwoPersonRoute, Applicable
    <3>2. r.minimum \in Nat /\ Minimum \in Nat /\ Minimum >= r.minimum
      BY RuleFields, MinimumIsLargest DEF ChainInv
    <3>3. Minimum >= 2
      BY <3>1, <3>2
    <3> QED
      BY <2>1, <2>4, <3>3 DEF RulesAllow, OwnRequest
  <2> QED
    BY <2>2, <2>3, <2>4
<1> HIDE DEF t, s
<1>8. Len(t) >= Required(a) /\ t[Len(t)] = p
  BY <1>1, <1>3, <1>4
<1> QED
  BY <1>2, <1>6, <1>7, <1>8 DEF t

\* An approval is approved by as many different people as the rules ask for then, and the
\* last of them never asked for it where two people are needed, whatever was edited since
\* the first of them approved (_decide_in_unit, required_approvals).
THEOREM DecisionsAreEnough == Spec => DecidedByEnough
<1>1. ChainInv /\ [Next]_vars =>
        [\A a \in Approvals : Completes(a) =>
           /\ Cardinality({approval'[a].approvers[i] : i \in DOMAIN approval'[a].approvers})
                >= Required(a)
           /\ LET last == approval'[a].approvers[Len(approval'[a].approvers)] IN
              twoPerson \/ TwoPersonRoute(a) => last \notin Requesters]_vars
  <2> SUFFICES ASSUME ChainInv, [Next]_vars, NEW a \in Approvals, Completes(a)
               PROVE  LET t == approval'[a].approvers IN
                      /\ Cardinality({t[i] : i \in DOMAIN t}) >= Required(a)
                      /\ twoPerson \/ TwoPersonRoute(a) => t[Len(t)] \notin Requesters
    OBVIOUS
  <2>1. ~Passing
    <3>1. Passing => ~Completes(a)
      BY PassingStep DEF ChainInv, Undecided, Completes
    <3> QED
      BY <3>1
  <2>2. PICK b \in Approvals, p \in People : Approve(p, b)
    BY <2>1, NextSplits
  <2>3. b = a
    <3>1. b # a => approval'[a] = approval[a]
      BY <2>2, ApproveStep DEF ChainInv
    <3> QED
      BY <3>1 DEF Completes
  <2> QED
    BY <2>2, <2>3, CompletedBy
<1> QED
  BY <1>1, ChainInvHolds, PTL DEF Spec, DecidedByEnough

-----------------------------------------------------------------------------
(* No splitting *)

LEMMA DelegatedNumbers == Delegated \in SUBSET Nat /\ IsFiniteSet(Delegated)
<1> DEFINE Q == {q \in UNION Rulebooks : q.band.atMost # NoLimit}
           f == [r \in Q |-> r.band.atMost]
<1>1. IsFiniteSet(Q)
  BY RulebookAssumption, FS_Subset
<1>2. \A r \in Q : f[r] = r.band.atMost /\ f[r] \in Nat
  <2>1. \A r \in Q : r \in GovernanceApprovalRule /\ r.band.atMost # NoLimit
    BY RulebookAssumption
  <2> QED
    BY <2>1 DEF GovernanceApprovalRule
<1>3. IsFiniteSet({f[r] : r \in Q})
  <2> HIDE DEF f, Q
  <2> QED
    BY <1>1, ImageFinite
<1>4. Delegated = {f[r] : r \in Q}
  BY <1>2 DEF Delegated
<1> QED
  BY <1>2, <1>3, <1>4

\* A total that is known is the sum over the approvals it counts, all of them known.
LEMMA TotalIsSum ==
  ASSUME ChainTypeOK, NEW a \in Approvals, Total(a) # Unknown
  PROVE  /\ \A b \in Related(a) \cup {a} : Amt(approval, b) \in Nat
         /\ Total(a) = AmountSum(approval, Related(a) \cup {a})
<1>1. ~ \E b \in Related(a) \cup {a} : approval[b].amount = Unknown
  BY DEF Total
<1>2. Total(a) = AmountSum(approval, Related(a) \cup {a})
  BY <1>1 DEF Total, AmountSum
<1>3. \A b \in Related(a) \cup {a} : b \in Approvals
  BY DEF Related
<1>4. \A b \in Related(a) \cup {a} : approval[b].amount \in Nat
  BY <1>1, <1>3, ApprovalFields
<1> QED
  BY <1>2, <1>4 DEF Amt

LEMMA OwnersOnly ==
  ASSUME NEW p \in People \ Owners, NEW step, {"owner"} \in step
  PROVE  ~EligibleFor(p, step)
<1>1. p # "owner"
  BY RulebookAssumption
<1>2. ~Holds(p, "owner")
  BY <1>1 DEF Holds
<1> QED
  BY <1>2 DEF EligibleFor

\* A delegate who completes a chain does so under a rule whose limit the total, which is
\* known, does not exceed.
LEMMA LastIsLimited ==
  ASSUME DelegationsAreLimited, ChainTypeOK, NEW a \in Approvals, NEW p \in People \ Owners,
         Approve(p, a), Completes(a)
  PROVE  Total(a) # Unknown /\ \E m \in Delegated : Total(a) <= m
<1> DEFINE n == Len(Steps(a))
           step == Steps(a)[n]
<1>1. Routed /\ EligibleFor(p, CurrentStep(a))
  BY DEF Approve, Accepted, MayApprove, RulesAllow, Owner
<1>2. CurrentStep(a) = step
  <2>1. approval'[a].status = StatusAfter(Len(approval[a].approvers) + 1, Required(a))
    BY ApproveStep
  <2>2. ~(Len(approval[a].approvers) + 1 < n)
    BY <1>1, <2>1 DEF Completes, StatusAfter, Required
  <2>3. n \in Nat /\ Len(approval[a].approvers) \in Nat
    BY RouteSteps, ApprovalFields
  <2>4. Len(approval[a].approvers) + 1 >= Len(Steps(a))
    BY <2>2, <2>3
  <2> QED
    BY <2>4, TheCurrentStep
<1>3. {"owner"} \notin step
  BY <1>1, <1>2, OwnersOnly
<1>4. Applicable(a) # {}
  <2>1. ASSUME Steps(a) = <<{{"owner"}}>> PROVE step = {{"owner"}}
    <3>1. Len(<<{{"owner"}}>>) = 1 /\ <<{{"owner"}}>>[1] = {{"owner"}}
      OBVIOUS
    <3> QED
      BY <2>1, <3>1, Zenon
  <2> QED
    BY <1>3, <2>1, RouteSteps
<1>5. PICK r \in Applicable(a) : Len(StepsOf(r)) = n /\ StepsOf(r)[n] \subseteq step
  BY <1>4, RouteSteps
<1>6. r \in rules /\ (Banded(r) => InBand(r.band, Total(a)))
  BY DEF Applicable
<1>7. n \in 1..n
  <2>1. n \in Nat /\ n >= 1
    BY RouteSteps
  <2> HIDE DEF n
  <2> QED
    BY <2>1
<1> HIDE DEF n, step
<1>8. r.steps # <<>>
  BY <1>3, <1>5, <1>6, <1>7, RuleSteps
<1>9. n = Len(r.steps) /\ StepsOf(r)[n] = {r.steps[n]}
  BY <1>5, <1>6, <1>7, <1>8, RuleSteps
<1>10. \E approver \in r.steps[Len(r.steps)] : Holds(p, approver)
  BY <1>1, <1>2, <1>5, <1>9 DEF EligibleFor
<1>11. /\ r \in UNION Rulebooks /\ r.band.atMost # NoLimit
       /\ r.band.atMost \in Nat
  BY <1>6, <1>8, <1>10, RuleFields DEF DelegationsAreLimited
<1>12. InBand(r.band, Total(a))
  BY <1>6, <1>11 DEF Banded
<1>13. Total(a) # Unknown /\ Total(a) <= r.band.atMost
  BY <1>11, <1>12 DEF InBand
<1>14. r.band.atMost \in Delegated
  BY <1>11 DEF Delegated
<1> QED
  BY <1>13, <1>14

\* The invariant: some limit of a rule covers the sum (Max has no value without one).
LimitInv ==
  /\ ChainTypeOK
  /\ ByDelegates # {} =>
       /\ \A b \in ByDelegates : approval[b].amount # Unknown
       /\ \E m \in Delegated : AmountSum(approval, ByDelegates) <= m

LEMMA LimitInvGives == LimitInv => DelegatedWithinLimit
<1> SUFFICES ASSUME LimitInv, ByDelegates # {}
             PROVE  /\ \A b \in ByDelegates : approval[b].amount # Unknown
                    /\ AmountSum(approval, ByDelegates) <= Max(Delegated)
  BY DEF LimitInv, DelegatedWithinLimit, AmountSum
<1>1. IsFiniteSet(ByDelegates) /\ ByDelegates \in SUBSET Approvals
  BY RulebookAssumption, FS_Subset DEF ByDelegates
<1>2. \A b \in ByDelegates : Amt(approval, b) \in Nat
  BY <1>1, ApprovalFields DEF LimitInv, Amt
<1>3. AmountSum(approval, ByDelegates) \in Nat
  <2>1. ByDelegates \in SUBSET ByDelegates
        /\ \A b \in ByDelegates : Amt(approval, b) = Amt(approval, b)
    OBVIOUS
  <2> QED
    BY <1>1, <1>2, <2>1, SumIsMonotone
<1>4. PICK m \in Delegated : AmountSum(approval, ByDelegates) <= m
  BY DEF LimitInv
<1>5. Max(Delegated) >= m /\ Max(Delegated) \in Nat /\ m \in Nat
  BY DelegatedNumbers, MaxIsGreatest
<1> HIDE DEF AmountSum
<1>6. AmountSum(approval, ByDelegates) <= Max(Delegated)
  BY <1>3, <1>4, <1>5
<1> QED
  BY <1>6 DEF LimitInv

\* What delegates have approved stays within a limit when only approvals that S counts
\* are among it, their amounts unchanged, and S is within a limit.
LEMMA WithinALimit ==
  ASSUME ChainTypeOK', NEW S \in SUBSET Approvals, ByDelegates' \subseteq S,
         \A b \in S : Amt(approval, b) \in Nat,
         \A b \in S : Amt(approval', b) = Amt(approval, b),
         NEW m \in Delegated, AmountSum(approval, S) <= m
  PROVE  LimitInv'
<1> DEFINE T == ByDelegates'
<1>1. IsFiniteSet(S)
  BY RulebookAssumption, FS_Subset
<1>2. T \in SUBSET S /\ \A b \in T : Amt(approval', b) = Amt(approval, b)
  OBVIOUS
<1> HIDE DEF T
<1>3. /\ AmountSum(approval, S) \in Nat /\ AmountSum(approval', T) \in Nat
      /\ AmountSum(approval', T) <= AmountSum(approval, S)
  BY <1>1, <1>2, SumIsMonotone
<1>4. m \in Nat
  BY DelegatedNumbers
<1>5. AmountSum(approval', T) <= m
  <2> HIDE DEF AmountSum
  <2> QED
    BY <1>3, <1>4
<1>6. \A b \in T : approval'[b].amount # Unknown
  BY <1>2, PlainFacts DEF Amt
<1>7. m \in Delegated'
  BY DEF Delegated
<1>8. AmountSum(approval, ByDelegates)' = AmountSum(approval', T)
  BY DEF T, AmountSum, MapThenSumSet, MapThenFoldSet
<1>9. (\A b \in ByDelegates : approval[b].amount # Unknown)'
  BY <1>6 DEF T
<1> HIDE DEF AmountSum
<1>10. (\E k \in Delegated : AmountSum(approval, ByDelegates) <= k)'
  BY <1>5, <1>7, <1>8
<1> QED
  BY <1>9, <1>10 DEF LimitInv

LEMMA SameDelegates ==
  ASSUME LimitInv, ChainTypeOK', ByDelegates' = ByDelegates,
         \A b \in ByDelegates : approval'[b].amount = approval[b].amount
  PROVE  LimitInv'
<1>1. CASE ByDelegates = {}
  BY <1>1 DEF LimitInv
<1>2. CASE ByDelegates # {}
  <2>1. ByDelegates \in SUBSET Approvals
    BY DEF ByDelegates
  <2>2. \A b \in ByDelegates : approval[b].amount \in Nat
    BY <1>2, <2>1, ApprovalFields DEF LimitInv
  <2>3. (\A b \in ByDelegates : Amt(approval, b) \in Nat)
        /\ \A b \in ByDelegates : Amt(approval', b) = Amt(approval, b)
    BY <2>2 DEF Amt
  <2>4. PICK m \in Delegated : AmountSum(approval, ByDelegates) <= m
    BY <1>2 DEF LimitInv
  <2> QED
    BY <2>1, <2>3, <2>4, WithinALimit
<1> QED
  BY <1>1, <1>2

LEMMA LimitInvStep == DelegationsAreLimited /\ LimitInv /\ [Next]_vars => LimitInv'
<1> SUFFICES ASSUME DelegationsAreLimited, LimitInv, [Next]_vars PROVE LimitInv'
  OBVIOUS
<1>0. ChainTypeOK
  BY DEF LimitInv
<1>1. CASE Passing
  <2>1. ChainTypeOK' /\ Undecided
    BY <1>0, <1>1, PassingStep
  <2>2. ByDelegates' = ByDelegates
    BY <2>1 DEF ByDelegates, Recorded, Undecided
  <2>3. \A b \in ByDelegates : approval'[b].amount = approval[b].amount
    BY <2>1 DEF ByDelegates, Undecided
  <2> QED
    BY <2>1, <2>2, <2>3, SameDelegates
<1>2. ASSUME NEW a \in Approvals, NEW p \in People, Approve(p, a) PROVE LimitInv'
  <2> DEFINE s == approval[a].approvers
             t == approval'[a].approvers
  <2>1. /\ ChainTypeOK' /\ t = Append(s, p) /\ t[Len(s) + 1] = p
        /\ approval'[a].amount = approval[a].amount
        /\ \A b \in Approvals : b # a => approval'[b] = approval[b]
    BY <1>0, <1>2, ApproveStep
  <2>2. approval[a].status = "pending"
    BY <1>2 DEF Approve
  <2>3. \A b \in Approvals : approval'[b].amount = approval[b].amount
    BY <2>1
  <2>4. \A b \in Approvals \ {a} : b \in ByDelegates' <=> b \in ByDelegates
    BY <2>1 DEF ByDelegates, Recorded
  <2>5. a \notin ByDelegates
    BY <2>2 DEF ByDelegates
  <2>6. CASE a \notin ByDelegates'
    <3>1. ByDelegates' = ByDelegates
      BY <2>4, <2>5, <2>6 DEF ByDelegates
    <3>2. \A b \in ByDelegates : approval'[b].amount = approval[b].amount
      BY <2>3 DEF ByDelegates
    <3> QED
      BY <2>1, <3>1, <3>2, SameDelegates
  <2>7. CASE a \in ByDelegates'
    <3> DEFINE S == Related(a) \cup {a}
    <3>1. Completes(a) /\ Recorded(a)' \cap Owners = {}
      BY <2>2, <2>7 DEF Completes, ByDelegates
    <3>2. p \in Recorded(a)'
      <4>1. s \in Seq(People) /\ Len(s) \in Nat
        BY <1>0, ApprovalFields
      <4>2. Len(s) + 1 \in DOMAIN t
        <5> HIDE DEF s, t
        <5> QED
          BY <2>1, <4>1
      <4> QED
        BY <2>1, <4>2 DEF Recorded
    <3>3. p \in People \ Owners
      BY <3>1, <3>2
    <3>4. Total(a) # Unknown /\ \E m \in Delegated : Total(a) <= m
      BY <1>0, <1>2, <3>1, <3>3, LastIsLimited
    <3>5. PICK m \in Delegated : Total(a) <= m
      BY <3>4
    <3>6. /\ \A b \in S : Amt(approval, b) \in Nat
          /\ Total(a) = AmountSum(approval, S)
      BY <1>0, <3>4, TotalIsSum
    <3>7. AmountSum(approval, S) <= m
      BY <3>5, <3>6, Zenon
    <3>8. S \in SUBSET Approvals
      BY DEF Related
    <3>9. \A b \in S : Amt(approval', b) = Amt(approval, b)
      BY <2>3, <3>8 DEF Amt
    <3>10. ByDelegates' \subseteq S
      <4>1. \A b \in ByDelegates : b \in Approvals \ {a} => b \in Related(a)
        BY DEF ByDelegates, Related
      <4>2. \A b \in ByDelegates' : b \in Approvals
        BY DEF ByDelegates
      <4> QED
        BY <2>4, <4>1, <4>2
    <3> HIDE DEF S
    <3> QED
      BY <2>1, <3>6, <3>7, <3>8, <3>9, <3>10, WithinALimit
  <2> QED
    BY <2>6, <2>7
<1> QED
  BY <1>1, <1>2, NextSplits

LEMMA LimitInvInit == Init => LimitInv
<1> SUFFICES ASSUME Init PROVE LimitInv
  OBVIOUS
<1>1. \A a \in Approvals : approval[a].status = "absent"
  BY DEF Init
<1>2. ByDelegates = {}
  BY <1>1 DEF ByDelegates
<1> QED
  BY <1>2, ChainTypeInit DEF LimitInv

\* No splitting: when every chain without a limit ends with an owner, what delegates
\* approve of one task without one stays, taken together, within the largest limit of any
\* rule, and holds no unknown amount (approval_routing.py, related amounts; main.py,
\* _decide_in_unit).
THEOREM DelegatesStayWithinLimit ==
  ASSUME DelegationsAreLimited
  PROVE  Spec => []DelegatedWithinLimit
<1>1. LimitInv /\ [Next]_vars => LimitInv'
  BY LimitInvStep
<1> QED
  BY <1>1, LimitInvInit, LimitInvGives, PTL DEF Spec
=============================================================================
