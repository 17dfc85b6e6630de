--------------------------- MODULE MCSmsCampaign ---------------------------
(* Instances of SmsCampaign for TLC. *)
EXTENDS SmsCampaign, TLC

CONSTANTS c1, l1, l2, l3, p1, p2, k1, k2, k3, r1, r2, r3

\* One seller, whose listings carry one number.
MCPhoneOf == [l \in Listings |-> p1]
\* A campaign with no pre-assigned listing takes all of them.
MCScopeOf == [l \in Listings |-> None]

\* Requests, keys and listings of one phone only name who did what: the order
\* of the runs lives in "born".
Symmetric == Permutations(Requests) \cup Permutations(Keys) \cup Permutations(Listings)
=============================================================================
