---------------------------- MODULE ApprovalChain ----------------------------
(***************************************************************************)
(* Who may approve the approvals of one task, and how many people it takes *)
(* (main.py, _decide_in_unit; approval_routing.py; tool_governance.py).    *)
(* The organization's rules, the workspace's two-person switch and the     *)
(* amounts of the task's other approvals are read again at every decision, *)
(* while the approvals recorded so far stay.  Each decision is one unit    *)
(* under the task's row lock.  All approvals are of one tool, so every     *)
(* rule of a rulebook matches every one of them; of the conditions a rule  *)
(* may carry the amount band is kept.                                      *)
(***************************************************************************)
EXTENDS Integers, Sequences, FiniteSetsExt

CONSTANTS
  People, Owners, Members, OrgAdmins,  \* owners hold approval:decide
  Requesters,   \* the task's creator and the user whose run asked
  Approvals,    \* the approvals the task may come to
  Amounts,      \* the amounts a call may be for
  Unknown,      \* missing, not a number, or another currency
  NoLimit,      \* a band without amount_at_most
  Rulebooks,    \* the sets of enabled rules an administrator may leave behind
  MaxChanges    \* bound: edits of the rules and the switch

ASSUME ChainAssumption ==
  /\ Owners \cup Members \cup OrgAdmins \cup Requesters \subseteq People
  /\ Unknown \notin Nat /\ NoLimit \notin Nat
  /\ Amounts \subseteq Nat \cup {Unknown}
  /\ MaxChanges \in Nat

\* Whom a step may name: a role of the workspace or the organization, or one person.
Approver == {"owner", "member", "org_admin"} \cup People

\* A rule: its amount band (above = -1: no amount_above), approver steps and
\* minimum_approvers.
GovernanceApprovalRule ==
  [band : [above : Int, atMost : Nat \cup {NoLimit}], steps : Seq(SUBSET Approver),
   minimum : Nat \ {0}]

ASSUME RulebookAssumption ==
  /\ People \cap {"owner", "member", "org_admin"} = {}
  /\ IsFiniteSet(Approvals) /\ IsFiniteSet(UNION Rulebooks)
  /\ UNION Rulebooks \subseteq GovernanceApprovalRule

VARIABLES
  rules,      \* the enabled rules that match
  twoPerson,  \* the workspace's two-person switch (high risk only)
  approval,   \* [Approvals -> status, recorded approvers and amount]
  changes

vars == <<rules, twoPerson, approval, changes>>

\* lapsed: pending, but past expires_at.
Status == {"absent", "pending", "lapsed", "approved", "rejected", "expired"}

Approval == [status : Status, approvers : Seq(People), amount : Amounts \cup {Unknown}]

Init ==
  /\ rules \in Rulebooks
  /\ twoPerson \in BOOLEAN
  /\ approval = [a \in Approvals |->
                   [status |-> "absent", approvers |-> <<>>, amount |-> Unknown]]
  /\ changes = 0

-----------------------------------------------------------------------------
(* build_route: the steps an approval has to go through *)

\* Mutant of Related: approved ones are left out.
RelatedPending(a) == {b \in Approvals \ {a} : approval[b].status = "pending"}

Related(a) == {b \in Approvals \ {a} : approval[b].status \in {"pending", "approved"}}

\* No splitting: the related amounts are added, and one unknown amount spoils the sum.
Total(a) ==
  LET counted == Related(a) \cup {a} IN
  IF \E b \in counted : approval[b].amount = Unknown THEN Unknown
  ELSE MapThenSumSet(LAMBDA b : approval[b].amount, counted)

\* Fail closed: an unknown total is above every threshold.
InBand(band, total) ==
  IF total = Unknown THEN band.atMost = NoLimit
  ELSE total > band.above /\ (band.atMost = NoLimit \/ total <= band.atMost)

Banded(rule) == rule.band # [above |-> -1, atMost |-> NoLimit]

\* A minimum of 2 is the two-person rule: the one who asked is the first of the two.
RequiredApprovals(minimum) == IF minimum > 2 THEN minimum ELSE 1

\* A step is a set of approver sets; a decider must be in every one of them.
StepsOf(rule) ==
  IF rule.steps # <<>> THEN [i \in DOMAIN rule.steps |-> {rule.steps[i]}]
  ELSE [i \in 1..RequiredApprovals(rule.minimum) |-> {{"owner"}}]

Applicable(a) == {r \in rules : Banded(r) => InBand(r.band, Total(a))}

Routed == \E r \in rules : Banded(r) \/ r.steps # <<>>

\* Without an applicable rule the owners decide.
Steps(a) ==
  LET merged == {StepsOf(r) : r \in Applicable(a)}
      depth == Max({Len(s) : s \in merged}) IN
  IF merged = {} THEN <<{{"owner"}}>>
  ELSE [i \in 1..depth |-> UNION {s[i] : s \in {t \in merged : i <= Len(t)}}]

TwoPersonRoute(a) == \E r \in Applicable(a) : r.steps = <<>> /\ r.minimum >= 2

Minimum == Max({1} \cup {r.minimum : r \in rules})

-----------------------------------------------------------------------------
(* The decider *)

Owner(p) == p \in Owners

OwnRequest(p) == p \in Requesters

Holds(p, approver) ==
  \/ approver = "org_admin" /\ p \in OrgAdmins
  \/ approver = "owner" /\ p \in Owners
  \/ approver = "member" /\ p \in Members
  \/ approver = p /\ p \in Owners \cup Members

EligibleFor(p, step) == \A S \in step : \E approver \in S : Holds(p, approver)

Recorded(a) == {approval[a].approvers[i] : i \in DOMAIN approval[a].approvers}

CurrentStep(a) ==
  Steps(a)[Min({Len(approval[a].approvers) + 1, Len(Steps(a))})]

\* A delegation never approves its own request, an owner unless it takes two people.
SelfApprovalRefused(p, a) == OwnRequest(p) /\ (TwoPersonRoute(a) \/ ~Owner(p))

\* _delegated_refusal, for an approve and for a reject
MayApprove(p, a) ==
  Owner(p) \/ (Routed /\ (EligibleFor(p, CurrentStep(a)) \/ p \in Recorded(a)))

MayReject(p, a) ==
  Owner(p) \/ (Routed /\ \E i \in DOMAIN Steps(a) : EligibleFor(p, Steps(a)[i]))

\* _routing_refusal, or _governance_decision_refusal without a route
RulesAllow(p, a) ==
  IF Routed THEN EligibleFor(p, CurrentStep(a)) /\ ~SelfApprovalRefused(p, a)
  ELSE Minimum >= 2 => ~OwnRequest(p)

\* Mutant of SwitchAllows: the switch is only read when no rule routes the approval.
SwitchAllowsRouted(p) == twoPerson /\ ~Routed => ~OwnRequest(p)

SwitchAllows(p) == twoPerson => ~OwnRequest(p)

\* Mutant of Counts: a second approve by the same person is counted.
CountsAgain(p, a) == a \in Approvals /\ p \in People

\* One approval per person: a second one answers 409.
Counts(p, a) == p \notin Recorded(a)

Accepted(p, a) ==
  MayApprove(p, a) /\ RulesAllow(p, a) /\ SwitchAllows(p) /\ Counts(p, a)

Required(a) == IF Routed THEN Len(Steps(a)) ELSE RequiredApprovals(Minimum)

\* _routing_view: what a client is shown of a routed approval it may still decide
CanApprove(p, a) ==
  /\ Owner(p) \/ p \in Members \cup OrgAdmins
  /\ p \notin Recorded(a)
  /\ EligibleFor(p, CurrentStep(a))
  /\ ~SelfApprovalRefused(p, a)
  /\ ~(twoPerson /\ OwnRequest(p) /\ Owner(p))

-----------------------------------------------------------------------------
(* Actions *)

SetApproval(a, status, approvers) ==
  /\ approval' = [approval EXCEPT ![a].status = status, ![a].approvers = approvers]
  /\ UNCHANGED <<rules, twoPerson, changes>>

Becomes(a, status) == SetApproval(a, status, approval[a].approvers)

\* A run of the task pauses for a call.
Propose(a, amount) ==
  /\ approval[a].status = "absent"
  /\ approval' = [approval EXCEPT ![a].status = "pending", ![a].amount = amount]
  /\ UNCHANGED <<rules, twoPerson, changes>>

\* expires_at passes.
Lapse(a) == approval[a].status = "pending" /\ Becomes(a, "lapsed")

\* The task is cancelled: its pending approvals expire (main.py, cancel_task_record).
CancelTask ==
  /\ \E a \in Approvals : approval[a].status \in {"pending", "lapsed"}
  /\ approval' = [a \in Approvals |->
       IF approval[a].status \in {"pending", "lapsed"}
       THEN [approval[a] EXCEPT !.status = "expired"] ELSE approval[a]]
  /\ UNCHANGED <<rules, twoPerson, changes>>

\* expire_if_due: the decision comes too late, whatever it was.
DecideLapsed(p, a) ==
  /\ approval[a].status = "lapsed"
  /\ MayApprove(p, a) \/ MayReject(p, a)
  /\ Becomes(a, "expired")

StatusAfter(n, required) == IF n < required THEN "pending" ELSE "approved"

\* The approve is recorded; the last one of the chain decides.
Approve(p, a) ==
  /\ approval[a].status = "pending" /\ Accepted(p, a)
  /\ LET approvers == Append(approval[a].approvers, p) IN
     SetApproval(a, StatusAfter(Len(approvers), Required(a)), approvers)

\* refuse_changed_target: an allowed approve finds another integration target.
RefuseChangedTarget(p, a) ==
  /\ approval[a].status = "pending"
  /\ MayApprove(p, a) /\ SwitchAllows(p)
  /\ RulesAllow(p, a) \/ (Routed /\ p \in Recorded(a))
  /\ Becomes(a, "expired")

Reject(p, a) ==
  /\ approval[a].status = "pending" /\ MayReject(p, a)
  /\ Becomes(a, "rejected")

\* An organization administrator edits the rules; an owner turns the switch.
EditRules(book) ==
  /\ changes < MaxChanges /\ book # rules
  /\ rules' = book /\ changes' = changes + 1
  /\ UNCHANGED <<twoPerson, approval>>

TurnSwitch ==
  /\ changes < MaxChanges
  /\ twoPerson' = ~twoPerson /\ changes' = changes + 1
  /\ UNCHANGED <<rules, approval>>

Decide(p, a) ==
  Approve(p, a) \/ RefuseChangedTarget(p, a) \/ Reject(p, a) \/ DecideLapsed(p, a)

Next ==
  \/ \E a \in Approvals : Lapse(a) \/ \E amount \in Amounts : Propose(a, amount)
  \/ \E a \in Approvals, p \in People : Decide(p, a)
  \/ CancelTask
  \/ \E book \in Rulebooks : EditRules(book)
  \/ TurnSwitch

Spec == Init /\ [][Next]_vars

-----------------------------------------------------------------------------
(* Correctness *)

ChainTypeOK ==
  /\ rules \in Rulebooks
  /\ twoPerson \in BOOLEAN
  /\ approval \in [Approvals -> Approval]
  /\ changes \in 0..MaxChanges

ByDelegates ==
  {a \in Approvals : approval[a].status = "approved" /\ Recorded(a) \cap Owners = {}}

\* The most any rule in force so far may leave to people who are not owners.
Delegated == {r.band.atMost : r \in {q \in UNION Rulebooks : q.band.atMost # NoLimit}}

\* Approvals keep their types; no splitting: what delegates approve of one task without an owner stays, taken
\* together, within the largest delegation, and no unknown amount is among it, in
\* whatever order approvals are asked for, decided and dropped and rules edited.
DelegatedWithinLimit ==
  /\ ChainTypeOK
  /\ ByDelegates # {} =>
       /\ \A a \in ByDelegates : approval[a].amount # Unknown
       /\ MapThenSumSet(LAMBDA a : approval[a].amount, ByDelegates) <= Max(Delegated)

\* The last step of a rule without amount_at_most asks for an owner: what no amount
\* limits is not left to delegates.
DelegationsAreLimited ==
  \A r \in UNION Rulebooks : r.band.atMost = NoLimit /\ r.steps # <<>> =>
    \A approver \in r.steps[Len(r.steps)] : \A p \in People \ Owners : ~Holds(p, approver)

Completes(a) == approval[a].status = "pending" /\ approval'[a].status = "approved"

\* An approval is approved only by as many different people as the rules ask for at
\* that moment, and never by one who asked for it while the switch is on or a rule for
\* two people applies; rules and bands may have changed since the first of them.
DecidedByEnough ==
  [][\A a \in Approvals : Completes(a) =>
       /\ Cardinality({approval'[a].approvers[i] : i \in DOMAIN approval'[a].approvers})
            >= Required(a)
       /\ LET last == approval'[a].approvers[Len(approval'[a].approvers)] IN
          twoPerson \/ TwoPersonRoute(a) => last \notin Requesters]_vars

\* What the card of a routed approval shows (can_approve) is what a decision answers,
\* in every state: the two are separate code (main.py, _routing_view and the refusals).
RoutedViewIsTrue ==
  Routed => \A a \in Approvals, p \in People :
    approval[a].status = "pending" => (CanApprove(p, a) <=> Accepted(p, a))
=============================================================================
