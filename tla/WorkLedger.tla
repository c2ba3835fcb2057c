------------------------------ MODULE WorkLedger ------------------------------
(***************************************************************************)
(* What a database-backed work queue promises about the units of work it   *)
(* hands out, whatever its requests are called or counted as.  A request   *)
(* is registered with all its units at once.  It is taken at most once, by *)
(* one worker; only while that worker holds it do its units move, one unit *)
(* at a time; a unit that has been closed keeps its outcome for ever; and  *)
(* a request that was let go is never picked up again.                     *)
(*                                                                         *)
(* Status words, counters, pipeline runs, cancellation and recovery are    *)
(* details of an implementation.  BillingExport and VeeReplay implement     *)
(* this module.                                                            *)
(***************************************************************************)
CONSTANTS Requests, Units, Workers, Nobody, Released

VARIABLES entry,    \* entry[r][u]: where unit u of request r stands
          holder    \* holder[r]: the worker holding r, Nobody yet, or Released

ledgerVars == <<entry, holder>>

Closed == {"done", "failed", "skipped"}
Entries == {"absent", "open", "taken"} \cup Closed

LedgerInit ==
    /\ entry = [r \in Requests |-> [u \in Units |-> "absent"]]
    /\ holder = [r \in Requests |-> Nobody]

(* A request appears with its whole set of units, some of them skipped at once. *)
Register(r, open, skip) ==
    /\ holder[r] = Nobody
    /\ \A u \in Units : entry[r][u] = "absent"
    /\ open \cap skip = {}
    /\ entry' = [entry EXCEPT ![r] =
                    [u \in Units |-> IF u \in open THEN "open"
                                     ELSE IF u \in skip THEN "skipped"
                                     ELSE "absent"]]
    /\ UNCHANGED holder

(* A worker takes a request nobody has ever held; no unit of it was touched. *)
Take(r, w) ==
    /\ holder[r] = Nobody
    /\ \A u \in Units : entry[r][u] \in {"absent", "open", "skipped"}
    /\ holder' = [holder EXCEPT ![r] = w]
    /\ UNCHANGED entry

(* The holder starts one unit, and only when no other unit is under way. *)
Start(r, u) ==
    /\ holder[r] \in Workers
    /\ entry[r][u] = "open"
    /\ \A v \in Units : entry[r][v] # "taken"
    /\ entry' = [entry EXCEPT ![r][u] = "taken"]
    /\ UNCHANGED holder

(* The holder closes the unit it started. *)
Close(r, u) ==
    /\ holder[r] \in Workers
    /\ entry[r][u] = "taken"
    /\ \E outcome \in {"done", "failed"} :
          entry' = [entry EXCEPT ![r][u] = outcome]
    /\ UNCHANGED holder

(* The holder is through with the request, or died: nobody holds it again. *)
LetGo(r) ==
    /\ holder[r] \in Workers
    /\ holder' = [holder EXCEPT ![r] = Released]
    /\ UNCHANGED entry

LedgerNext ==
    \E r \in Requests :
        \/ \E open, skip \in SUBSET Units : Register(r, open, skip)
        \/ \E w \in Workers : Take(r, w)
        \/ \E u \in Units : Start(r, u) \/ Close(r, u)
        \/ LetGo(r)

LedgerSpec == LedgerInit /\ [][LedgerNext]_ledgerVars

===============================================================================
