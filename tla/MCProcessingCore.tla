--------------------------- MODULE MCProcessingCore ---------------------------
(* Small instances of the processing core.  A reading is a model value whose *)
(* anomaly MCAnomaly gives; an instance takes the readings it needs.         *)
EXTENDS ProcessingCore, TLC

CONSTANTS negative, high, zero, clean, other

MCAnomaly == [v \in Readings |-> IF v = negative THEN "negative"
                                 ELSE IF v = high THEN "high"
                                 ELSE IF v = zero THEN "zero"
                                 ELSE None]

Symmetry == Permutations(Operators)

===============================================================================
