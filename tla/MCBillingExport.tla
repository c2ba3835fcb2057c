--------------------------- MODULE MCBillingExport ----------------------------
(* Instances of BillingExport for TLC. *)
EXTENDS BillingExport, TLC

CONSTANTS s1, p1, p2

(* One scope that lists two invoice summaries. *)
OneScope == {s1}
TwoSummaries == {p1, p2}
OneWindow == [s \in OneScope |-> TwoSummaries]

(* The smallest window, for longer chains of requests. *)
OneSummary == {p1}
NarrowWindow == [s \in OneScope |-> OneSummary]

Everything == {"create", "cancel"} \cup RecoveryActions

Interchangeable ==
    Permutations(Workers) \cup Permutations(Operators) \cup Permutations(TwoSummaries)

===============================================================================
