------------------------------ MODULE MCDownstream ------------------------------
(* A small instance of Downstream for TLC: two intervals, one of which has    *)
(* two measurements, a reading and an estimate, one billing context.          *)
EXTENDS Downstream, TLC

CONSTANTS i1, i2, m1, m2, m3, read, estimate, home, kwh, utc, local, won

IntervalOfMeasurement == m1 :> i1 @@ m2 :> i1 @@ m3 :> i2
TwoReadings == {read, estimate}
AmountOf == read :> 1 @@ estimate :> 1
UnitOf == read :> kwh @@ estimate :> kwh
ZoneOf == home :> local
CurrencyOf == home :> won

Symmetry == Permutations({m1, m2}) \cup Permutations(Operators)

================================================================================
