--------------------------- MODULE MCIntervalWindows ---------------------------
(* A small instance of IntervalWindows for TLC: three windows of two slots.     *)
EXTENDS IntervalWindows, TLC

ThreeWindows == {1, 2, 3}

(* No definition tells the slots apart. *)
SlotSymmetry == Permutations(Slots)

================================================================================
