------------------------------ MODULE MCMasterData ------------------------------
(* A small instance of MasterData for TLC.  In a behaviour only one page moves, *)
(* so that their states add up and do not multiply.  The windows and the        *)
(* registry share no state.  In the registry, changes overlap on two pages: one *)
(* has the installations and imports no references, so that there are no        *)
(* alerts; one has alerts, and head-end system and devices keep their code.  On *)
(* the third one, codes change and one change is under way at a time.           *)
EXTENDS MasterData, TLC

VARIABLE page

MCInit ==
    /\ Init
    /\ Windows!Init
    /\ page \in {"windows", "installations", "alerts", "codes"}

(* No edit of the code, and no device of another head-end system. *)
KeepsCodes(o) ==
    /\ tx[o].change.what # "recode"
    /\ tx[o].change.what = "device" => tx[o].change.system = data.hes_code

MCRegistry ==
    /\ Next
    /\ page = "installations" => data'.references = {}
    /\ page \in {"alerts", "codes"} => Len(data'.installations) <= 1
    /\ page = "alerts" => \A o \in Operators : KeepsCodes(o)'
    /\ page = "codes" => Cardinality({o \in Operators : Writing(o)'}) <= 1

MCNext ==
    \/ page = "windows" /\ Windows!Next /\ UNCHANGED vars /\ UNCHANGED page
    \/ page # "windows" /\ MCRegistry /\ UNCHANGED windowVars /\ UNCHANGED page

MCSpec == MCInit /\ [][MCNext]_<<vars, windowVars, page>>

(* The operators are interchangeable in both modules, the codes in the registry. *)
Interchangeable == Permutations(Operators) \cup Permutations(SourceSystems)

================================================================================
