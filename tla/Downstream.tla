------------------------------ MODULE Downstream ------------------------------
(***************************************************************************)
(* From final measurements to the invoice: the usage, bill determinant and *)
(* bill charge of one measuring component in one billing period            *)
(* (app/services/usage.py, bill_determinants.py, bill_charges.py,          *)
(* downstream_recalculation.py, processing_replay.py,                      *)
(* invoice_summaries.py).                                                  *)
(*                                                                         *)
(* A correction (manual edit, estimation) writes a final measurement and   *)
(* recalculates usage, determinant and charge in one transaction at READ   *)
(* COMMITTED; a VEE replay recalculates the usage only, and batch          *)
(* finalization nothing.  The update of the usage row is the first write   *)
(* that two transactions of a period have in common: the second one waits  *)
(* there for the end of the first, with the finals it has read before.     *)
(* Daily usage is computed by the same code and read by nobody here.       *)
(* A definition X_Reason is X with a mistake in it, used by no other one.  *)
(***************************************************************************)
EXTENDS Naturals, Sequences, FiniteSetsExt

CONSTANTS MaxRevisions,   \* bound on the revisions of one bill
          Operators,
          Intervals,      \* of the billing period
          Measurements,   \* the initial measurements of the period
          IntervalOf,     \* IntervalOf[m]: the interval m was read or estimated for
          Readings,       \* what a final measurement says
          Amount,         \* Amount[v]: its value
          Unit,           \* Unit[v]: its unit of measure
          Estimated,      \* readings whose quality code is not OK
          Contexts,       \* billing contexts of the service point
          Calendar,       \* those whose cycle is the calendar month
          Zone,           \* Zone[c]: the time zone of the context
          Currency,       \* Currency[c]: its currency, or None
          UsageZone,      \* the time zone of the meter's head-end
          Rate,           \* the rate of the first calculation
          None

ASSUME DownstreamAssumption ==
    /\ MaxRevisions \in Nat \ {0}
    /\ Intervals # {} /\ IsFiniteSet(Intervals)
    /\ IsFiniteSet(Measurements)
    /\ IntervalOf \in [Measurements -> Intervals]
    /\ None \notin Readings \cup Contexts \cup {Rate, UsageZone}
    /\ Amount \in [Readings -> Nat]
    /\ Estimated \subseteq Readings
    /\ Calendar \subseteq Contexts

VARIABLES final,          \* final[m]: the current final measurement of m
          usage,          \* the usage_transaction of the period
          determinants,   \* the bill_determinants, oldest first
          charges,        \* the bill_charges, oldest first
          context,        \* the billing context of the period
          tariff,         \* whether a tariff is assigned
          work            \* the transaction of each operator

vars == <<final, usage, determinants, charges, context, tariff, work>>

Statuses == {"complete", "partial", "blocked"}
UsageQualities == {"all_finalized", "mixed_quality", "missing_intervals", "blocked_mixed_uom"}
Qualities == UsageQualities \cup
    {"blocked_missing_billing_context", "blocked_unsupported_billing_cycle_mode",
     "blocked_source_determinant", "blocked_missing_tariff_assignment",
     "blocked_missing_tariff_rate", "blocked_missing_currency_code"}

NoUsage == [sum |-> 0, unit |-> None, missing |-> 0, quality |-> "none", status |-> "none"]

UsageType == [sum : Nat, unit : {Unit[v] : v \in Readings} \cup {None},
              missing : 0..Cardinality(Intervals), status : Statuses,
              quality : UsageQualities]

BillType == [quantity : Nat, status : Statuses, quality : Qualities, current : BOOLEAN,
             revision : 1..MaxRevisions, supersedes : 0..MaxRevisions]

(* What a determinant says; details are kept, but not compared. *)
DeterminantType == [bill : BillType, unit : {Unit[v] : v \in Readings} \cup {None},
                    zone : {Zone[c] : c \in Contexts} \cup {UsageZone},
                    currency : {Currency[c] : c \in Contexts} \cup {None}]

ChargeType == [bill : BillType, determinant : 1..MaxRevisions, assigned : BOOLEAN,
               rate : {Rate, None}, currency : {Currency[c] : c \in Contexts} \cup {None}]

NoChange == [old |-> 0, new |-> None]

Idle == [pc |-> "idle", kind |-> None, at |-> None, value |-> None, usage |-> NoUsage,
         created |-> FALSE, determinant |-> NoChange, charge |-> NoChange]

-------------------------------------------------------------------------------
(* usage_transaction. *)

(* The current finals of the period; an interval may have several of them.    *)
Found(f) == {m \in Measurements : f[m] # None}

Total(f, found) == MapThenSumSet(LAMBDA m : Amount[f[m]], found)

(* Variant: a period with a gap is good enough. *)
UsageOf_IgnoresGaps(f) ==
    [sum |-> Total(f, Found(f)),
     unit |-> Unit[f[CHOOSE m \in Found(f) : TRUE]], missing |-> 0,
     quality |-> "all_finalized", status |-> "complete"]

(* What is missing is counted: expected intervals less finals, at least 0.    *)
Missing(found) ==
    IF Cardinality(found) >= Cardinality(Intervals) THEN 0
    ELSE Cardinality(Intervals) - Cardinality(found)

(* _build_usage_row_payload, for the finals f of the period. *)
UsageOf(f) ==
    LET found == Found(f)
        missing == Missing(found)
        units == {Unit[f[m]] : m \in found}
        Row(s, m, q, st) == [sum |-> s, unit |-> CHOOSE u \in units : TRUE, missing |-> m,
                             quality |-> q, status |-> st]
    IN
    IF Cardinality(units) # 1
    THEN [Row(0, 0, "blocked_mixed_uom", "blocked") EXCEPT !.unit = None]
    ELSE IF missing > 0 THEN Row(Total(f, found), missing, "missing_intervals", "partial")
    ELSE IF \E m \in found : f[m] \in Estimated THEN Row(Total(f, found), 0, "mixed_quality", "partial")
    ELSE Row(Total(f, found), 0, "all_finalized", "complete")

-------------------------------------------------------------------------------
(* Current-and-history rows.  A payload is a row without its place in the    *)
(* history; same are the rows _same_snapshot finds equal to a payload.        *)

CurrentRows(rows) == {n \in DOMAIN rows : rows[n].bill.current}

CurrentRow(rows) == CHOOSE n \in CurrentRows(rows) : TRUE

Placed(payload, revision, superseded) ==
    [payload EXCEPT !.bill = [@ EXCEPT !.current = TRUE, !.revision = revision,
                                       !.supersedes = superseded]]

(* What a calculation does to the rows: nothing when the current row says    *)
(* the same, a first revision, or one that supersedes the current row.       *)
Change(rows, payload, same) ==
    LET n == CurrentRow(rows) IN
    IF CurrentRows(rows) = {} THEN [old |-> 0, new |-> Placed(payload, 1, 0)]
    ELSE IF n \in same THEN NoChange
    ELSE [old |-> n, new |-> Placed(payload, rows[n].bill.revision + 1, n)]

Superseded(row) == [row EXCEPT !.bill.current = FALSE]

Changed(rows, change) ==
    IF change.new = None THEN rows
    ELSE Append(IF change.old = 0 THEN rows
                ELSE [rows EXCEPT ![change.old] = Superseded(@)], change.new)

Bill(q, st, ql) == [quantity |-> q, status |-> st, quality |-> ql, current |-> FALSE,
                    revision |-> 1, supersedes |-> 0]

Says(row) == <<row.bill.quantity, row.bill.status, row.bill.quality>>

(* _build_bill_determinant_payload *)
DeterminantOf(u, c) ==
    LET Row(bill, zone, currency) ==
            [bill |-> bill, unit |-> u.unit, zone |-> zone, currency |-> currency]
    IN
    IF c = None
    THEN Row(Bill(u.sum, "blocked", "blocked_missing_billing_context"), UsageZone, None)
    ELSE IF c \notin Calendar
    THEN Row(Bill(u.sum, "blocked", "blocked_unsupported_billing_cycle_mode"), UsageZone,
             Currency[c])
    ELSE Row(Bill(u.sum, u.status, u.quality), Zone[c], Currency[c])

SameDeterminant(row, new) ==
    Says(row) = Says(new) /\ row.unit = new.unit /\ row.zone = new.zone

(* calculate_bill_determinants. *)
Determined(rows, u, c) ==
    LET new == DeterminantOf(u, c) IN
    Change(rows, new, {n \in DOMAIN rows : SameDeterminant(rows[n], new)})

(* _build_bill_charge_payload, for the determinant at place n. *)
ChargeOf(dets, n, rate, assigned) ==
    LET d == dets[n]
        blocked(q) == Bill(d.bill.quantity, "blocked", q)
    IN
    [determinant |-> n, assigned |-> assigned, rate |-> rate, currency |-> d.currency,
     bill |-> IF d.bill.status = "blocked" THEN blocked("blocked_source_determinant")
              ELSE IF ~ assigned THEN blocked("blocked_missing_tariff_assignment")
              ELSE IF rate = None THEN blocked("blocked_missing_tariff_rate")
              ELSE IF d.currency = None THEN blocked("blocked_missing_currency_code")
              ELSE Bill(d.bill.quantity, d.bill.status, d.bill.quality)]

(* Variant: the charge of an equal determinant is as good. *)
SameCharge_AnyDeterminant(row, new) ==
    /\ Says(row) = Says(new)
    /\ <<row.assigned, row.rate, row.currency>> = <<new.assigned, new.rate, new.currency>>

SameCharge(row, new) ==
    /\ Says(row) = Says(new)
    /\ <<row.determinant, row.assigned, row.rate, row.currency>>
          = <<new.determinant, new.assigned, new.rate, new.currency>>

(* calculate_bill_charges; dets holds the determinants as flushed. *)
Charged(rows, dets, rate, assigned) ==
    LET new == ChargeOf(dets, CurrentRow(dets), rate, assigned) IN
    Change(rows, new, {n \in DOMAIN rows : SameCharge(rows[n], new)})

(* Variant: the rate is looked up at the charge of the new determinant. *)
ExistingRate_OfDeterminant(rows, dets) ==
    LET found == {n \in CurrentRows(rows) : rows[n].determinant = CurrentRow(dets)} IN
    IF found = {} THEN None ELSE rows[CHOOSE n \in found : TRUE].rate

(* _find_current_flat_charge_rate; dets is what the determinants will be. *)
ExistingRate(rows, dets) ==
    IF CurrentRows(rows) = {} THEN None ELSE rows[CurrentRow(rows)].rate

-------------------------------------------------------------------------------
TypeOK ==
    /\ final \in [Measurements -> Readings \cup {None}]
    /\ usage \in UsageType \cup {NoUsage}
    /\ \A n \in DOMAIN determinants : determinants[n] \in DeterminantType
    /\ \A n \in DOMAIN charges : charges[n] \in ChargeType
    /\ context \in Contexts \cup {None}
    /\ tariff \in BOOLEAN
    /\ \A o \in Operators : work[o].pc \in {"idle", "read", "stored", "billed"}

(* Nothing is calculated yet, or a first calculation with a rate has run. *)
Init ==
    /\ final \in [Measurements -> Readings \cup {None}]
    /\ context \in Contexts \cup {None}
    /\ tariff \in BOOLEAN
    /\ work = [o \in Operators |-> Idle]
    /\ \/ usage = NoUsage /\ determinants = <<>> /\ charges = <<>>
       \/ /\ Found(final) # {}
          /\ usage = UsageOf(final)
          /\ determinants = Changed(<<>>, Determined(<<>>, usage, context))
          /\ charges = Changed(<<>>, Charged(<<>>, determinants, Rate, tariff))

(* A final measurement is written: the finals are read with it. *)
Begin(o, kind, m, v) ==
    /\ work[o].pc = "idle"
    /\ final[m] # v
    /\ \A p \in Operators : work[p].at # m
    /\ work' = [work EXCEPT ![o] =
                   [Idle EXCEPT !.pc = "read", !.kind = kind, !.at = m, !.value = v,
                                !.usage = UsageOf([final EXCEPT ![m] = v]),
                                !.created = (usage = NoUsage)]]
    /\ UNCHANGED <<final, usage, determinants, charges, context, tariff>>

(* Variant: the update of the usage row waits for nobody. *)
MayStore_NoLock(o) == TRUE

(* The row is locked by whoever has stored it, and unique. *)
MayStore(o) ==
    /\ \A p \in Operators \ {o} : work[p].pc \notin {"stored", "billed"}
    /\ work[o].created => usage = NoUsage

Store(o) ==
    /\ work[o].pc = "read"
    /\ MayStore(o)
    /\ work' = [work EXCEPT ![o].pc = "stored"]
    /\ UNCHANGED <<final, usage, determinants, charges, context, tariff>>

(* recalculate_downstream_artifacts, after the usage. *)
Recalculate(o) ==
    /\ work[o].pc = "stored"
    /\ work[o].kind = "correction"
    /\ LET change == Determined(determinants, work[o].usage, context)
           dets == Changed(determinants, change)
       IN
       work' = [work EXCEPT ![o] =
                   [@ EXCEPT !.pc = "billed", !.determinant = change,
                             !.charge = Charged(charges, dets, ExistingRate(charges, dets),
                                                tariff)]]
    /\ UNCHANGED <<final, usage, determinants, charges, context, tariff>>

Write(o) ==
    /\ final' = [final EXCEPT ![work[o].at] = work[o].value]
    /\ usage' = work[o].usage
    /\ work' = [work EXCEPT ![o] = Idle]
    /\ UNCHANGED <<context, tariff>>

CommitCorrection(o) ==
    /\ work[o].pc = "billed"
    /\ Write(o)
    /\ determinants' = Changed(determinants, work[o].determinant)
    /\ charges' = Changed(charges, work[o].charge)
    /\ Len(determinants') <= MaxRevisions
    /\ Len(charges') <= MaxRevisions

CommitReplay(o) ==
    /\ work[o].pc = "stored"
    /\ work[o].kind = "replay"
    /\ Write(o)
    /\ UNCHANGED <<determinants, charges>>

RollBack(o) ==
    /\ work[o].pc # "idle"
    /\ work' = [work EXCEPT ![o] = Idle]
    /\ UNCHANGED <<final, usage, determinants, charges, context, tariff>>

(* Batch finalization recalculates nothing. *)
Finalize(m, v) ==
    /\ final[m] = None
    /\ \A p \in Operators : work[p].at # m
    /\ final' = [final EXCEPT ![m] = v]
    /\ UNCHANGED <<usage, determinants, charges, context, tariff, work>>

SetContext(c) ==
    /\ context' = c
    /\ UNCHANGED <<final, usage, determinants, charges, tariff, work>>

AssignTariff ==
    /\ tariff' = TRUE
    /\ UNCHANGED <<final, usage, determinants, charges, context, work>>

Next ==
    \/ \E o \in Operators, k \in {"correction", "replay"}, m \in Measurements, v \in Readings :
          Begin(o, k, m, v)
    \/ \E o \in Operators : Store(o)
    \/ \E o \in Operators : Recalculate(o)
    \/ \E o \in Operators : CommitCorrection(o)
    \/ \E o \in Operators : CommitReplay(o)
    \/ \E o \in Operators : RollBack(o)
    \/ \E m \in Measurements, v \in Readings : Finalize(m, v)
    \/ \E c \in Contexts : SetContext(c)
    \/ AssignTariff

Spec == Init /\ [][Next]_vars

-------------------------------------------------------------------------------
(* list_invoice_summaries: a period is ready for export when its charge is   *)
(* complete.                                                                 *)
ExportEligible ==
    /\ CurrentRows(charges) # {}
    /\ \A n \in CurrentRows(charges) : charges[n].bill.status = "complete"

(* The rows are well formed, and "bill_charge must be derived from           *)
(* bill_determinant": the charge that counts is the one of the determinant   *)
(* that counts, although each is superseded by a comparison of its own and   *)
(* corrections overlap.                                                      *)
ChargeOfCurrentDeterminant ==
    /\ TypeOK
    /\ \A n \in CurrentRows(charges) :
          LET d == charges[n].determinant IN
          /\ CurrentRows(determinants) = {d}
          /\ charges[n].bill.quantity = determinants[d].bill.quantity

HasFinal(i) == \E m \in Found(final) : IntervalOf[m] = i

HasTwoFinals(i) ==
    \E m, n \in Found(final) : m # n /\ IntervalOf[m] = i /\ IntervalOf[n] = i

(* "missing rate input must produce blocked, not 0", and a period is billed  *)
(* only when it is measured: what is eligible for export has a tariff, a     *)
(* rate and a currency on the charge and as many finals as intervals, also   *)
(* when two corrections lose each other's usage.  Finals are counted, not    *)
(* placed (_UsageBucket.source_final_count): an interval may be without one  *)
(* only if another interval has two.                                         *)
EligibleMeansMeasured ==
    ExportEligible =>
        /\ Cardinality(Found(final)) >= Cardinality(Intervals)
        /\ (\A i \in Intervals : HasFinal(i)) \/ (\E i \in Intervals : HasTwoFinals(i))
        /\ \A n \in CurrentRows(charges) :
              charges[n].assigned /\ charges[n].rate # None /\ charges[n].currency # None

(* Corrections carry the rate over: "reuse the existing current              *)
(* bill_charge.unit_rate_value".  Once a period has a rate it keeps it.      *)
RateSurvives ==
    [][\A n \in CurrentRows(charges) :
          charges[n].rate # None =>
              \E m \in CurrentRows(charges)' : charges'[m].rate = charges[n].rate]_vars

(* A chain of revisions of which the last one is current and each differs    *)
(* from the one it supersedes.                                               *)
Chain(rows, Same(_, _)) ==
    \A n \in DOMAIN rows :
        /\ rows[n].bill.revision = n
        /\ rows[n].bill.supersedes = n - 1
        /\ rows[n].bill.current <=> n = Len(rows)
        /\ n > 1 => ~ Same(rows[n - 1], rows[n])

DeterminantChain(rows) == Chain(rows, SameDeterminant)
ChargeChain(rows) == Chain(rows, SameCharge)

(* "One current determinant row per determinant business key; later          *)
(* recalculation supersedes the old current row rather than overwriting it": *)
(* the determinants and the charges are chains of revisions of which the     *)
(* last one is current, and a revision differs from the one it supersedes.   *)
(* No unique index says so; the lock on the usage row, taken first, does.    *)
OneChainOfRevisions == DeterminantChain(determinants) /\ ChargeChain(charges)

-------------------------------------------------------------------------------
(* The inductive invariant behind these properties. *)

(* Rows whose place in the history is not bounded yet.                       *)
BillRow == [quantity : Nat, status : Statuses, quality : Qualities, current : BOOLEAN,
            revision : Nat, supersedes : Nat]

DeterminantRow == [bill : BillRow, unit : {Unit[v] : v \in Readings} \cup {None},
                   zone : {Zone[c] : c \in Contexts} \cup {UsageZone},
                   currency : {Currency[c] : c \in Contexts} \cup {None}]

ChargeRow == [bill : BillRow, determinant : Nat, assigned : BOOLEAN,
              rate : {Rate, None}, currency : {Currency[c] : c \in Contexts} \cup {None}]

ASSUME NoneIsNoRow == None \notin DeterminantRow \cup ChargeRow

WorkType == [pc : {"idle", "read", "stored", "billed"}, kind : {"correction", "replay", None},
             at : Measurements \cup {None}, value : Readings \cup {None},
             usage : UsageType \cup {NoUsage}, created : BOOLEAN,
             determinant : [old : Nat, new : DeterminantRow \cup {None}],
             charge : [old : Nat, new : ChargeRow \cup {None}]]

Last(rows) == rows[Len(rows)]

(* What the determinants dets and the charges chs of a period say together.  *)
Ledger(dets, chs) ==
    /\ dets \in Seq(DeterminantRow) /\ chs \in Seq(ChargeRow)
    /\ DeterminantChain(dets) /\ ChargeChain(chs)
    /\ \A n \in DOMAIN chs :
          /\ chs[n].determinant \in DOMAIN dets
          /\ chs[n].bill.status = "complete" =>
                chs[n].assigned /\ chs[n].rate # None /\ chs[n].currency # None
    /\ Len(chs) > 0 =>
          /\ Last(chs).determinant = Len(dets)
          /\ Last(chs).bill.quantity = Last(dets).bill.quantity

Paid(chs) == \E n \in DOMAIN chs : chs[n].bill.status = "complete"

(* Finals enough for the period. *)
Enough(found) == Cardinality(found) >= Cardinality(Intervals)

(* Enough of them once o has committed. *)
MeasuredWith(o) == Enough(Found(final) \cup {work[o].at})

DataInv ==
    /\ final \in [Measurements -> Readings \cup {None}]
    /\ usage \in UsageType \cup {NoUsage}
    /\ context \in Contexts \cup {None}
    /\ tariff \in BOOLEAN
    /\ Ledger(determinants, charges)
    /\ Len(determinants) <= MaxRevisions /\ Len(charges) <= MaxRevisions
    /\ Paid(charges) => Enough(Found(final))

(* The lock on the usage row. *)
Holds(o) == work[o].pc \in {"stored", "billed"}

LockInv == \A o, p \in Operators : Holds(o) /\ Holds(p) => o = p

(* A transaction that has calculated the usage. *)
ReadInv(o) ==
    work[o].pc # "idle" =>
        /\ work[o].at \in Measurements /\ work[o].value \in Readings
        /\ work[o].usage \in UsageType
        /\ work[o].usage.status = "complete" => MeasuredWith(o)

(* What a correction has calculated is right when it is committed.           *)
BilledInv(o) ==
    work[o].pc = "billed" =>
        LET chs == Changed(charges, work[o].charge) IN
        /\ Ledger(Changed(determinants, work[o].determinant), chs)
        /\ Len(chs) > 0
        /\ Paid(chs) => MeasuredWith(o)
        /\ Len(charges) > 0 /\ Last(charges).rate # None => Last(chs).rate = Last(charges).rate

DownstreamInv ==
    /\ DataInv
    /\ work \in [Operators -> WorkType]
    /\ LockInv
    /\ \A o \in Operators : ReadInv(o) /\ BilledInv(o)

===============================================================================
