----------------------------- MODULE MCCampaigns -----------------------------
(* Instances of Campaigns for TLC. *)
EXTENDS Campaigns, TLC

CONSTANTS p1, p2, p3, p4

\* Every call may be any handler.
AnyHandler == [p \in Calls |-> Handlers]

\* A start, a second one or a suspension or resumption, and calls that report
\* failures.
StartAndReports ==
    [p \in Calls |-> CASE p = p1 -> {"start", "suspend"}
                       [] p = p2 -> {"start", "suspend", "resume", "webhook"}
                       [] p = p3 -> {"resume", "webhook", "check"}
                       [] p = p4 -> {"webhook", "suspend"}]

Symmetry == Permutations(Recipients) \cup Permutations(Ticks)
=============================================================================
