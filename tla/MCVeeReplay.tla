------------------------------ MODULE MCVeeReplay ------------------------------
(* A small instance of VeeReplay for TLC: a head-end system that holds two   *)
(* measurements and an ingest batch that holds one of them.                  *)
EXTENDS VeeReplay, TLC

CONSTANTS hes, batch, m1, m2

TwoScopes == {hes, batch}
TwoMeasurements == {m1, m2}
Overlapping == [s \in TwoScopes |-> IF s = hes THEN TwoMeasurements ELSE {m1}]

================================================================================
