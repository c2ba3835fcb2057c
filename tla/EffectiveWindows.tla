---------------------------- MODULE EffectiveWindows ----------------------------
(***************************************************************************)
(* The billing contexts of one service point                               *)
(* (app/services/billing_contexts.py).  A creation closes the current row  *)
(* and becomes the current one; an edit moves any row.  Tariff assignments *)
(* (app/services/tariff_assignments.py) are kept by the same code line for *)
(* line under another table name: the module stands for both, and takes    *)
(* each definition from one of the two.                                    *)
(*                                                                         *)
(* Postgres, READ COMMITTED: a transaction sees what is committed, an      *)
(* UPDATE holds its row until the end, the flush writes changed columns.   *)
(* A definition X_Reason is X with a mistake in it, used by no other one.  *)
(***************************************************************************)
EXTENDS Naturals, FiniteSets

CONSTANTS MaxRows,      \* bound on the rows of the service point
          MaxTime,      \* bound on the points in time
          Operators

BoundsAreNumbers == MaxRows \in Nat /\ MaxTime \in Nat

VARIABLES rows,         \* the table, by id
          tx,           \* the transaction of each operator
          editBeside    \* history: an edit ran beside another transaction

vars == <<rows, tx, editBeside>>

Times == 1..MaxTime

Forever == MaxTime + 1

(* The payloads that pass the validation. *)
Window == {w \in [from : Times, to : 2..Forever] : w.from < w.to}

RowType == {r \in [from : Times, to : 2..Forever, current : BOOLEAN] : r.from < r.to}

NoRow == [from |-> 0, to |-> 0, current |-> FALSE]

Free == [pc |-> "idle", id |-> 0, loaded |-> NoRow, window |-> NoRow]

Stored == {i \in DOMAIN rows : rows[i] # NoRow}

Current == {i \in Stored : rows[i].current}

Init ==
    /\ rows = [i \in 1..MaxRows |-> NoRow]
    /\ tx = [o \in Operators |-> Free]
    /\ editBeside = FALSE

Overlap(a, b) == a.from < b.to /\ b.from < a.to

(* Variant: only rows that are still open are compared. *)
Clashes_Open(R, w, i) == \E j \in DOMAIN R \ {i} : R[j].to = Forever /\ Overlap(R[j], w)

(* _ensure_no_overlapping_context, with exclude_id. *)
Clashes(R, w, i) == \E j \in DOMAIN R \ {i} : R[j] # NoRow /\ Overlap(R[j], w)

Busy(o) == \E p \in Operators \ {o} : tx[p].pc # "idle"

BusyEdit(o) == \E p \in Operators \ {o} : tx[p].pc = "update"

(* The columns whose value differs from the one loaded are written. *)
Flushed(now, loaded, new) ==
    [f \in DOMAIN now |-> IF new[f] = loaded[f] THEN now[f] ELSE new[f]]

(* The row of the transaction as its flush leaves it. *)
Written(o) ==
    LET t == tx[o]
        new == IF t.pc = "update"
               THEN [t.loaded EXCEPT !.from = t.window.from, !.to = t.window.to]
               ELSE [t.loaded EXCEPT !.current = FALSE,
                                     !.to = IF @ > t.window.from THEN t.window.from ELSE @]
    IN  Flushed(rows[t.id], t.loaded, new)

(* The table as the transaction sees it after its flush. *)
Seen(o) == IF tx[o].id = 0 THEN rows ELSE [rows EXCEPT ![tx[o].id] = Written(o)]

(* The check constraint effective_from < effective_to. *)
InOrder(r) == r.from < r.to

Locked(i) == \E o \in Operators : tx[o].pc = "insert" /\ tx[o].id = i

-------------------------------------------------------------------------------
StartsAfter(w, i) == w.from > rows[i].from

(* create_billing_context, up to the row it will close. *)
BeginCreate(o, w) ==
    /\ tx[o].pc = "idle"
    /\ \A i \in Current : StartsAfter(w, i)
    /\ \E i \in IF Current = {} THEN {0} ELSE Current :
          tx' = [tx EXCEPT ![o] = [pc |-> "close", id |-> i, window |-> w,
                                   loaded |-> IF i = 0 THEN NoRow ELSE rows[i]]]
    /\ editBeside' = (editBeside \/ BusyEdit(o))
    /\ UNCHANGED rows

(* The current row is closed, its lock taken, then the windows are compared. *)
Close(o) ==
    /\ tx[o].pc = "close"
    /\ tx[o].id # 0 => ~ Locked(tx[o].id) /\ InOrder(Written(o))
    /\ ~ Clashes(Seen(o), tx[o].window, 0)
    /\ tx' = [tx EXCEPT ![o].pc = "insert"]
    /\ UNCHANGED <<rows, editBeside>>

(* uq_service_point_billing_context_current_service_point *)
Unique(R) == \A i, j \in DOMAIN R : R[i].current /\ R[j].current => i = j

Insert(o) ==
    LET i == Cardinality(Stored) + 1
        new == [from |-> tx[o].window.from, to |-> tx[o].window.to, current |-> TRUE]
        R == [Seen(o) EXCEPT ![i] = new]
    IN
    /\ tx[o].pc = "insert"
    /\ i <= MaxRows
    /\ Unique(R)
    /\ rows' = R
    /\ tx' = [tx EXCEPT ![o] = Free]
    /\ UNCHANGED editBeside

(* update_billing_context, up to its check. *)
BeginUpdate(o, i, w) ==
    /\ tx[o].pc = "idle"
    /\ i \in Stored
    /\ ~ Clashes(rows, w, i)
    /\ tx' = [tx EXCEPT ![o] = [pc |-> "update", id |-> i, loaded |-> rows[i], window |-> w]]
    /\ editBeside' = (editBeside \/ Busy(o))
    /\ UNCHANGED rows

Update(o) ==
    /\ tx[o].pc = "update"
    /\ ~ Locked(tx[o].id)
    /\ InOrder(Written(o))
    /\ rows' = Seen(o)
    /\ tx' = [tx EXCEPT ![o] = Free]
    /\ UNCHANGED editBeside

RollBack(o) ==
    /\ tx[o].pc # "idle"
    /\ tx' = [tx EXCEPT ![o] = Free]
    /\ UNCHANGED <<rows, editBeside>>

Next ==
    \/ \E o \in Operators, w \in Window : BeginCreate(o, w)
    \/ \E o \in Operators : Close(o)
    \/ \E o \in Operators : Insert(o)
    \/ \E o \in Operators, i \in 1..MaxRows, w \in Window : BeginUpdate(o, i, w)
    \/ \E o \in Operators : Update(o)
    \/ \E o \in Operators : RollBack(o)

Spec == Init /\ [][Next]_vars

-------------------------------------------------------------------------------
(* find_applicable_tariff_assignment, _find_billing_context: the rows that   *)
(* apply at a time, of which the code takes one.                             *)
Applicable(t) == {i \in Stored : rows[i].from <= t /\ t < rows[i].to}

TxType == [pc : {"idle", "close", "insert", "update"}, id : 0..MaxRows,
           loaded : RowType \cup {NoRow}, window : Window \cup {NoRow}]

TypeOK ==
    /\ rows \in [1..MaxRows -> RowType \cup {NoRow}]
    /\ tx \in [Operators -> TxType]
    /\ editBeside \in BOOLEAN

(* A billing period has one context and one tariff: the windows of a service *)
(* point do not overlap ("Billing context periods must not overlap for the   *)
(* same service point") and one row is current.  Creations may overlap, the  *)
(* lock of the row they close and the unique index decide; an edit beside    *)
(* another transaction may break the first half, never the second.           *)
OneWindowAtATime ==
    /\ TypeOK
    /\ Cardinality(Current) <= 1
    /\ editBeside \/ \A t \in Times : Cardinality(Applicable(t)) <= 1

--------------------------------------------------------------------------------
(* The inductive invariant behind this property. *)

(* Rows get the next id; one is current as soon as there are any.             *)
TableInv ==
    /\ \E n \in 0..MaxRows : Stored = 1..n
    /\ Unique(rows)
    /\ Stored # {} => Current # {}

(* The row a transaction works on is there; once a creation holds its lock it *)
(* stays as it was when the check constraint was satisfied.                   *)
TxInv(o) ==
    LET t == tx[o] IN
    t.pc # "idle" =>
        /\ t.window \in Window
        /\ t.id # 0 => t.id \in Stored /\ t.loaded \in RowType
        /\ t.pc = "update" => t.id # 0
        /\ t.pc # "update" /\ t.id # 0 => t.loaded.current /\ t.window.from > t.loaded.from
        /\ t.pc = "insert" /\ t.id # 0 => InOrder(Written(o))

LocksInv ==
    \A o, p \in Operators :
        tx[o].pc = "insert" /\ tx[p].pc = "insert" /\ tx[o].id # 0 /\ tx[o].id = tx[p].id
            => o = p

(* While no edit has run beside another transaction: an edit is on its own    *)
(* and its check still holds; of the creations under way the one that will    *)
(* pass the unique index has compared itself with all there is.               *)
CheckedInv(o) ==
    LET t == tx[o] IN
    /\ t.pc = "update" => ~ Busy(o) /\ ~ Clashes(rows, t.window, t.id)
                         /\ t.loaded = rows[t.id]
    /\ t.pc \in {"close", "insert"} /\ t.id \in Current => t.loaded = rows[t.id]
    /\ t.pc = "insert" => Current \ {t.id} # {} \/ ~ Clashes(Seen(o), t.window, 0)

Apart(R) == \A i, j \in DOMAIN R : i # j /\ R[i] # NoRow /\ R[j] # NoRow => ~ Overlap(R[i], R[j])

WindowsInv ==
    /\ TypeOK
    /\ TableInv
    /\ \A o \in Operators : TxInv(o)
    /\ LocksInv
    /\ editBeside \/ (Apart(rows) /\ \A o \in Operators : CheckedInv(o))

================================================================================
