--------------------------- MODULE MCApprovalChain ---------------------------
(* ApprovalChain on a small instance: refunds, and the rules for them. *)
EXTENDS ApprovalChain, TLC

CONSTANTS a1, a2, boss, o1, o2, o3, care, aide

NoBand == [above |-> -1, atMost |-> NoLimit]

UpTo(n) == [above |-> -1, atMost |-> n]

Above(n) == [above |-> n, atMost |-> NoLimit]

Rule(band, steps, minimum) == [band |-> band, steps |-> steps, minimum |-> minimum]

\* Small refunds are delegated; large ones go to an owner after a member or an owner.
Delegation == {Rule(UpTo(3), <<{care}>>, 1),
               Rule(Above(3), <<{"member", "owner"}, {"owner"}>>, 1)}

\* Half the limit, the rest to the owners (no band).
Smaller == {Rule(UpTo(2), <<{"member"}>>, 1)}

\* Three people; two people beside a delegation.
Chain == {Rule(NoBand, <<>>, 3)}
TwoPeople == {Rule(UpTo(3), <<{care, "org_admin"}>>, 1), Rule(Above(2), <<>>, 2)}

Books == {Delegation, Smaller, Chain, TwoPeople}

\* What no amount limits ends with an owner.
ASSUME BooksAssumption == DelegationsAreLimited

Symmetric == Permutations({o1, o2, o3}) \cup Permutations(Approvals)
=============================================================================
