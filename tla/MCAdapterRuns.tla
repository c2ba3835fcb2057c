----------------------------- MODULE MCAdapterRuns -----------------------------
(* Instances of AdapterRuns for TLC. *)
EXTENDS AdapterRuns, TLC

(* Every source row has a cursor of its own. *)
Distinct == [x \in Rows |-> x]

Everything == Actions

Interchangeable ==
    Permutations(Processors) \cup Permutations(Operators)

================================================================================
