----------------------------- MODULE OrderedIntake -----------------------------
(***************************************************************************)
(* What polling promises those who use the data: every source is read from *)
(* front to back, and each of its rows is taken by exactly one reader, all *)
(* rows up to the point reached and none beyond.  Locks, retries and       *)
(* restarts are details of an implementation.  AdapterRuns implements this *)
(* module.                                                                 *)
(***************************************************************************)
EXTENDS Naturals

CONSTANTS Sources, Rows, Readers,
          Position         \* where a row stands in its source, from 1

VARIABLES upto,    \* upto[s]: the position up to which source s has been read
          taken    \* taken[s][x]: who has taken row x of s

intake == <<upto, taken>>

IntakeInit ==
    /\ upto = [s \in Sources |-> 0]
    /\ taken = [s \in Sources |-> [x \in Rows |-> {}]]

(* Reads on in s, or leaves it as it is. *)
ReadsOn(s) ==
    /\ upto[s] <= upto'[s]
    /\ \A x \in Rows :
          IF upto[s] < Position[x] /\ Position[x] <= upto'[s]
          THEN taken[s][x] = {} /\ \E r \in Readers : taken'[s][x] = {r}
          ELSE taken'[s][x] = taken[s][x]

(* One transaction may read on in several sources. *)
IntakeNext == \A s \in Sources : ReadsOn(s)

IntakeSpec == IntakeInit /\ [][IntakeNext]_intake

================================================================================
