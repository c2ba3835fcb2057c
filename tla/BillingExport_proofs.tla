------------------------- MODULE BillingExport_proofs -------------------------
(***************************************************************************)
(* Proofs about BillingExport, for every number of requests, workers,      *)
(* operators, scopes and summaries.                                        *)
(***************************************************************************)
EXTENDS BillingExport, FiniteSetTheorems, TLAPS

LEMMA InitType == Init => TypeOK
<1>1. Init => RowsOK
    BY DEF Init, RowsOK, Counts, NoCounts, ItemStatuses
<1>2. Init => WorkersOK
    BY DEF Init, WorkersOK, IdleWorker
<1>3. Init => OperatorsOK
    BY DEF Init, OperatorsOK, IdleOperator, RecoveryActions
<1>. QED
    BY <1>1, <1>2, <1>3 DEF TypeOK

(* What a set of skipped items can be counted as. *)
LEMMA CountsAtInsertType ==
    ASSUME NEW skipped \in SUBSET Summaries
    PROVE  CountsAtInsert(skipped) \in Counts
<1>1. IsFiniteSet(skipped)
    BY ExportAssumption, FS_Subset
<1>2. Cardinality(skipped) \in Nat
    BY <1>1, FS_CardinalityType
<1>. QED
    BY <1>2 DEF CountsAtInsert, NoCounts, Counts

(* An insert adds a well-formed row and well-formed items. *)
LEMMA InsertType ==
    ASSUME RowsOK,
           NEW s \in Scopes \cup {None}, NEW q \in Requests \cup {None},
           NEW a \in RecoveryActions \cup {None},
           NEW pending \in SUBSET Summaries, NEW skipped \in SUBSET Summaries,
           Insert(s, q, a, pending, skipped)
    PROVE  RowsOK'
<1>1. PICK r \in Requests :
        /\ status' = [status EXCEPT ![r] = StatusAtInsert(pending)]
        /\ scope' = [scope EXCEPT ![r] = s]
        /\ source' = [source EXCEPT ![r] = q]
        /\ action' = [action EXCEPT ![r] = a]
        /\ count' = [count EXCEPT ![r] = CountsAtInsert(skipped)]
        /\ item' = [item EXCEPT ![r] =
                      [p \in Summaries |-> IF p \in pending THEN "pending"
                                           ELSE IF p \in skipped THEN "skipped"
                                           ELSE "absent"]]
        /\ UNCHANGED <<claimed_by, run, worker>>
    BY DEF Insert
<1>2. CountsAtInsert(skipped) \in Counts
    BY CountsAtInsertType
<1>3. StatusAtInsert(pending) \in Active \cup Terminal
    BY DEF StatusAtInsert, Active, Terminal
<1>4. item' \in [Requests -> [Summaries -> ItemStatuses]]
    BY <1>1 DEF RowsOK, ItemStatuses
<1>. QED
    BY <1>1, <1>2, <1>3, <1>4 DEF RowsOK

(* What a transaction notes down when it begins, and forgets when it ends. *)
LEMMA BeginsType ==
    ASSUME TypeOK, NEW o \in Operators, NEW pc \in {"create", "cancel"} \cup RecoveryActions,
           NEW s \in Scopes \cup {None}, NEW r \in Requests \cup {None},
           pc = "create" => s # None,
           pc # "create" => r # None,
           Begins(o, pc, s, r)
    PROVE  TypeOK'
<1>1. RowsOK' /\ WorkersOK'
    BY DEF Begins, rows, TypeOK, RowsOK, WorkersOK
<1>2. OperatorsOK'
    BY DEF Begins, TypeOK, OperatorsOK, RecoveryActions
<1>. QED
    BY <1>1, <1>2 DEF TypeOK

(* An insert touches no worker. *)
LEMMA InsertWorkers ==
    ASSUME WorkersOK, NEW s, NEW q, NEW a, NEW pending, NEW skipped,
           Insert(s, q, a, pending, skipped)
    PROVE  WorkersOK'
BY DEF Insert, WorkersOK

LEMMA EndsType ==
    ASSUME OperatorsOK, NEW o \in Operators, Ends(o)
    PROVE  OperatorsOK'
BY DEF Ends, IdleOperator, OperatorsOK, RecoveryActions

(* Operators keep everything well formed. *)
LEMMA OperatorType ==
    ASSUME TypeOK, NEW o \in Operators, OperatorNext(o)
    PROVE  TypeOK'
<1>. DEFINE q == operator[o].req
<1>1. CASE \E s \in Scopes : BeginCreate(o, s)
    BY <1>1, BeginsType, ExportAssumption DEF BeginCreate
<1>2. CASE \E r \in Requests, a \in RecoveryActions : BeginRecovery(o, r, a)
    <2>1. PICK r \in Requests, a \in RecoveryActions : BeginRecovery(o, r, a)
        BY <1>2
    <2>2. scope[r] \in Scopes \cup {None} /\ r # None /\ a # "create"
        BY ExportAssumption DEF TypeOK, RowsOK, RecoveryActions, Requests
    <2>. QED
        BY <2>1, <2>2, BeginsType DEF BeginRecovery
<1>3. CASE \E r \in Requests : BeginCancel(o, r)
    <2>1. PICK r \in Requests : BeginCancel(o, r)
        BY <1>3
    <2>2. scope[r] \in Scopes \cup {None} /\ r # None
        BY ExportAssumption DEF TypeOK, RowsOK, Requests
    <2>. QED
        BY <2>1, <2>2, BeginsType DEF BeginCancel
<1>4. ASSUME operator[o].pc \in {"cancel"} \cup RecoveryActions
      PROVE  q \in Requests /\ scope[q] \in Scopes \cup {None}
             /\ Retryable(q) \in SUBSET Summaries
    BY <1>4 DEF TypeOK, OperatorsOK, RowsOK, Retryable
<1>5. CASE Create(o)
    <2>1. operator[o].scope \in Scopes
        BY <1>5 DEF Create, TypeOK, OperatorsOK
    <2>2. PICK listed \in (SUBSET Window[operator[o].scope]) \ {{}} :
            \E exportable \in SUBSET listed :
              Insert(operator[o].scope, None, None, exportable, listed \ exportable)
        BY <1>5 DEF Create
    <2>3. PICK exportable \in SUBSET listed :
            Insert(operator[o].scope, None, None, exportable, listed \ exportable)
        BY <2>2
    <2>4. listed \in SUBSET Summaries
        BY <2>1, ExportAssumption
    <2>5. exportable \in SUBSET Summaries /\ listed \ exportable \in SUBSET Summaries
        BY <2>4
    <2>6. RowsOK' /\ WorkersOK'
        BY <2>1, <2>3, <2>5, InsertType, InsertWorkers DEF TypeOK
    <2>. QED
        BY <1>5, <2>6, EndsType DEF Create, TypeOK
<1>6. CASE Rerun(o)
    <2>1. Insert(scope[q], q, "rerun", Retryable(q), {})
        BY <1>6 DEF Rerun, InsertRecovery
    <2>2. RowsOK' /\ WorkersOK'
        BY <1>4, <1>6, <2>1, InsertType, InsertWorkers DEF Rerun, InsertRecovery, TypeOK, RecoveryActions
    <2>. QED
        BY <1>6, <2>2, EndsType DEF Rerun, InsertRecovery, TypeOK
<1>7. CASE Recreate(o)
    <2>1. PICK exportable \in SUBSET Retryable(q) :
            Insert(scope[q], q, "recreate", exportable, Retryable(q) \ exportable)
        BY <1>7 DEF Recreate, InsertRecovery
    <2>2. RowsOK' /\ WorkersOK'
        BY <1>4, <1>7, <2>1, InsertType, InsertWorkers DEF Recreate, InsertRecovery, TypeOK, RecoveryActions
    <2>. QED
        BY <1>7, <2>2, EndsType DEF Recreate, InsertRecovery, TypeOK
<1>8. CASE Cancel(o)
    <2>1. RowsOK' /\ WorkersOK'
        BY <1>8 DEF Cancel, TypeOK, RowsOK, WorkersOK, Terminal
    <2>. QED
        BY <1>8, <2>1, EndsType DEF Cancel, TypeOK
<1>9. CASE RollBack(o)
    <2>1. RowsOK' /\ WorkersOK'
        BY <1>9 DEF RollBack, rows, TypeOK, RowsOK, WorkersOK
    <2>. QED
        BY <1>9, <2>1, EndsType DEF RollBack, TypeOK
<1>. QED
    BY <1>1, <1>2, <1>3, <1>5, <1>6, <1>7, <1>8, <1>9 DEF OperatorNext

LEMMA CountType ==
    ASSUME NEW c \in Counts
    PROVE  CountSuccess(c) \in Counts /\ CountFailure(c) \in Counts
<1>1. /\ c.processed + 1 \in Nat /\ c.succeeded + 1 \in Nat /\ c.failed + 1 \in Nat
    BY DEF Counts
<1>. QED
    BY <1>1 DEF Counts, CountSuccess, CountFailure

(* Workers keep everything well formed. *)
LEMMA WorkerType ==
    ASSUME TypeOK, NEW w \in Workers, WorkerStep(w) \/ Crash(w)
    PROVE  TypeOK'
<1>. DEFINE r == worker[w].req
<1>. USE DEF TypeOK
<1>1. worker[w].pc # "idle" => r \in Requests
    BY DEF WorkersOK
<1>2. CASE \E q \in Requests : Claim(w, q)
    <2>1. PICK q \in Requests : Claim(w, q)
        BY <1>2
    <2>2. RowsOK' /\ OperatorsOK'
        BY <2>1 DEF Claim, ClaimBy, RowsOK, OperatorsOK, Active
    <2>3. WorkersOK'
        <3>1. worker' = [worker EXCEPT ![w] =
                 [pc |-> "claimed", req |-> q, todo |-> {}, current |-> None]]
            BY <2>1 DEF Claim, ClaimBy
        <3>2. q # None
            BY ExportAssumption DEF Requests
        <3>. QED
            BY <3>1, <3>2 DEF WorkersOK
    <2>. QED
        BY <2>2, <2>3
<1>3. CASE StartRun(w)
    <2>1. RowsOK' /\ OperatorsOK'
        BY <1>1, <1>3 DEF StartRun, RowsOK, OperatorsOK
    <2>2. WorkersOK'
        BY <1>3 DEF StartRun, WorkersOK, PendingItems
    <2>. QED
        BY <2>1, <2>2
<1>4. CASE \E p \in Summaries : MarkItem(w, p)
    <2>1. PICK p \in Summaries : MarkItem(w, p)
        BY <1>4
    <2>2. RowsOK' /\ OperatorsOK'
        BY <1>1, <2>1 DEF MarkItem, RowsOK, OperatorsOK, ItemStatuses
    <2>3. WorkersOK'
        BY <2>1, ExportAssumption DEF MarkItem, WorkersOK
    <2>. QED
        BY <2>2, <2>3
<1>5. ASSUME NEW outcome \in {"completed", "failed"}, NEW c \in Counts,
             CloseItem(w, outcome, c)
      PROVE  TypeOK'
    <2>. DEFINE p == worker[w].current
    <2>1. r \in Requests /\ p \in Summaries
        BY <1>1, <1>5 DEF CloseItem, WorkersOK
    <2>2. item' = [item EXCEPT ![r][p] = outcome] /\ count' = [count EXCEPT ![r] = c]
        BY <1>5 DEF CloseItem
    <2>3. item' \in [Requests -> [Summaries -> ItemStatuses]]
        BY <2>1, <2>2 DEF RowsOK, ItemStatuses
    <2>4. RowsOK' /\ OperatorsOK'
        BY <1>5, <2>1, <2>2, <2>3 DEF CloseItem, RowsOK, OperatorsOK
    <2>5. WorkersOK'
        BY <1>5 DEF CloseItem, WorkersOK
    <2>. QED
        BY <2>4, <2>5
<1>6. CASE ItemSucceeds(w)
    <2>1. count[r] \in Counts
        BY <1>1, <1>6 DEF ItemSucceeds, CloseItem, RowsOK
    <2>2. CountSuccess(count[r]) \in Counts
        BY <2>1, CountType
    <2>. QED
        BY <1>5, <1>6, <2>2 DEF ItemSucceeds
<1>7. CASE ItemFails(w)
    <2>1. count[r] \in Counts
        BY <1>1, <1>7 DEF ItemFails, CloseItem, RowsOK
    <2>2. CountFailure(count[r]) \in Counts
        BY <2>1, CountType
    <2>. QED
        BY <1>5, <1>7, <2>2 DEF ItemFails
<1>8. ASSUME worker' = [worker EXCEPT ![w] = IdleWorker] PROVE WorkersOK'
    BY <1>8 DEF WorkersOK, IdleWorker
<1>9. CASE Finalize(w)
    <2>1. Outcome(r) \in {"completed", "failed"}
        BY DEF Outcome
    <2>2. r \in Requests /\ status' = [status EXCEPT ![r] = Outcome(r)]
          /\ run' = [run EXCEPT ![r] = Outcome(r)]
        BY <1>1, <1>9 DEF Finalize, RunEnds
    <2>3. RowsOK' /\ OperatorsOK'
        BY <1>9, <2>1, <2>2 DEF Finalize, RunEnds, RowsOK, OperatorsOK, Terminal
    <2>. QED
        BY <1>8, <1>9, <2>3 DEF Finalize, RunEnds
<1>10. CASE RequestFails(w)
    <2>1. RowsOK' /\ OperatorsOK'
        BY <1>1, <1>10 DEF RequestFails, RunEnds, RowsOK, OperatorsOK, Terminal
    <2>. QED
        BY <1>8, <1>10, <2>1 DEF RequestFails, RunEnds
<1>11. CASE Crash(w)
    <2>1. RowsOK' /\ OperatorsOK'
        BY <1>11 DEF Crash, rows, RowsOK, OperatorsOK
    <2>. QED
        BY <1>8, <1>11, <2>1 DEF Crash
<1>. QED
    BY <1>2, <1>3, <1>4, <1>6, <1>7, <1>9, <1>10, <1>11 DEF WorkerStep

(* The rows, workers and operators are well formed in every reachable state. *)
THEOREM TypeCorrect == Spec => []TypeOK
<1>1. TypeOK /\ [Next]_vars => TypeOK'
    <2>1. CASE UNCHANGED vars
        BY <2>1 DEF vars, TypeOK, RowsOK, WorkersOK, OperatorsOK
    <2>. QED
        BY <2>1, OperatorType, WorkerType DEF Next
<1>. QED
    BY InitType, <1>1, PTL DEF Spec

-------------------------------------------------------------------------------
(* The ledger invariant. *)

LEMMA InitLedgerInv == Init => LedgerInv
BY ExportAssumption
DEF Init, LedgerInv, RequestsInv, HoldersInv, HoldsRightly, IdleWorker, Requests

(* An insert fills a row that nobody has claimed. *)
LEMMA InsertLedgerInv ==
    ASSUME TypeOK, LedgerInv,
           NEW s \in Scopes \cup {None}, NEW q \in Requests \cup {None},
           NEW a \in RecoveryActions \cup {None},
           NEW pending \in SUBSET Summaries, NEW skipped \in SUBSET Summaries,
           Insert(s, q, a, pending, skipped)
    PROVE  LedgerInv'
<1>1. PICK r \in Requests :
        /\ status[r] = "absent"
        /\ status' = [status EXCEPT ![r] = StatusAtInsert(pending)]
        /\ item' = [item EXCEPT ![r] =
                      [p \in Summaries |-> IF p \in pending THEN "pending"
                                           ELSE IF p \in skipped THEN "skipped"
                                           ELSE "absent"]]
        /\ claimed_by' = claimed_by /\ worker' = worker
    BY DEF Insert, IsNextId
<1>2. claimed_by[r] = None
    BY <1>1 DEF LedgerInv, RequestsInv
<1>3. status'[r] # "absent"
    BY <1>1 DEF StatusAtInsert, TypeOK, RowsOK
<1>4. \A p \in Summaries : item'[r][p] \in {"absent", "pending", "skipped"}
    BY <1>1 DEF TypeOK, RowsOK
<1>5. \A t \in Requests : t # r => item'[t] = item[t] /\ status'[t] = status[t]
    BY <1>1 DEF TypeOK, RowsOK
<1>6. RequestsInv'
    BY <1>1, <1>2, <1>3, <1>4, <1>5 DEF LedgerInv, RequestsInv
<1>7. \A w \in Workers : worker[w].req # r
    BY <1>2, ExportAssumption DEF LedgerInv, HoldersInv, HoldsRightly
<1>8. HoldersInv'
    BY <1>1, <1>5, <1>7 DEF LedgerInv, HoldersInv, HoldsRightly
<1>. QED
    BY <1>6, <1>8 DEF LedgerInv

(* What an operator's step does to rows and workers: nothing, an insert, or *)
(* a cancel that changes one status.                                        *)
LEMMA OperatorRows ==
    ASSUME TypeOK, NEW o \in Operators, OperatorNext(o)
    PROVE  \/ UNCHANGED <<rows, worker>>
           \/ \E s \in Scopes \cup {None}, q \in Requests \cup {None},
                 a \in RecoveryActions \cup {None},
                 pending \in SUBSET Summaries, skipped \in SUBSET Summaries :
                    pending \cap skipped = {} /\ Insert(s, q, a, pending, skipped)
           \/ /\ \E r \in Requests : status' = [status EXCEPT ![r] = "cancelled"]
              /\ UNCHANGED <<claimed_by, item, worker>>
<1>. DEFINE q == operator[o].req
<1>1. CASE \E s \in Scopes : BeginCreate(o, s)
    BY <1>1 DEF BeginCreate, Begins
<1>2. CASE \E r \in Requests, a \in RecoveryActions : BeginRecovery(o, r, a)
    BY <1>2 DEF BeginRecovery, Begins
<1>3. CASE \E r \in Requests : BeginCancel(o, r)
    BY <1>3 DEF BeginCancel, Begins
<1>4. ASSUME operator[o].pc \in {"cancel"} \cup RecoveryActions
      PROVE  q \in Requests /\ scope[q] \in Scopes \cup {None}
             /\ Retryable(q) \in SUBSET Summaries
    BY <1>4 DEF TypeOK, OperatorsOK, RowsOK, Retryable
<1>5. CASE Create(o)
    <2>1. operator[o].scope \in Scopes
        BY <1>5 DEF Create, TypeOK, OperatorsOK
    <2>2. PICK listed \in (SUBSET Window[operator[o].scope]) \ {{}} :
            \E exportable \in SUBSET listed :
              Insert(operator[o].scope, None, None, exportable, listed \ exportable)
        BY <1>5 DEF Create
    <2>3. PICK exportable \in SUBSET listed :
            Insert(operator[o].scope, None, None, exportable, listed \ exportable)
        BY <2>2
    <2>4. /\ exportable \in SUBSET Summaries
          /\ listed \ exportable \in SUBSET Summaries
          /\ exportable \cap (listed \ exportable) = {}
        BY <2>1, ExportAssumption
    <2>. QED
        BY <2>1, <2>3, <2>4
<1>6. CASE Rerun(o)
    BY <1>4, <1>6 DEF Rerun, InsertRecovery, RecoveryActions
<1>7. CASE Recreate(o)
    <2>1. PICK exportable \in SUBSET Retryable(q) :
            Insert(scope[q], q, "recreate", exportable, Retryable(q) \ exportable)
        BY <1>7 DEF Recreate, InsertRecovery
    <2>2. q \in Requests /\ scope[q] \in Scopes \cup {None}
          /\ Retryable(q) \in SUBSET Summaries
        BY <1>4, <1>7 DEF Recreate, InsertRecovery, RecoveryActions
    <2>3. /\ exportable \in SUBSET Summaries
          /\ Retryable(q) \ exportable \in SUBSET Summaries
          /\ exportable \cap (Retryable(q) \ exportable) = {}
        BY <2>2
    <2>. QED
        BY <2>1, <2>2, <2>3 DEF RecoveryActions
<1>8. CASE Cancel(o)
    BY <1>4, <1>8 DEF Cancel
<1>9. CASE RollBack(o)
    BY <1>9 DEF RollBack
<1>. QED
    BY <1>1, <1>2, <1>3, <1>5, <1>6, <1>7, <1>8, <1>9 DEF OperatorNext

LEMMA OperatorLedgerInv ==
    ASSUME TypeOK, LedgerInv, NEW o \in Operators, OperatorNext(o)
    PROVE  LedgerInv'
<1>1. CASE UNCHANGED <<rows, worker>>
    BY <1>1 DEF rows, LedgerInv, RequestsInv, HoldersInv, HoldsRightly
<1>2. CASE /\ \E r \in Requests : status' = [status EXCEPT ![r] = "cancelled"]
           /\ UNCHANGED <<claimed_by, item, worker>>
    BY <1>2 DEF LedgerInv, RequestsInv, HoldersInv, HoldsRightly, TypeOK, RowsOK
<1>. QED
    BY <1>1, <1>2, OperatorRows, InsertLedgerInv

(* A worker that holds a request is the only one that does. *)
LEMMA Alone ==
    ASSUME TypeOK, HoldersInv, NEW w \in Workers, worker[w].pc # "idle"
    PROVE  /\ worker[w].req \in Requests
           /\ claimed_by[worker[w].req] = w
           /\ \A v \in Workers : v # w => worker[v].req # worker[w].req
BY DEF TypeOK, WorkersOK, HoldersInv, HoldsRightly

(* Letting go of a request keeps the invariant, whatever terminal status *)
(* the request is given.                                                 *)
LEMMA LetGoLedgerInv ==
    ASSUME TypeOK, LedgerInv, NEW w \in Workers, worker[w].pc # "idle",
           worker' = [worker EXCEPT ![w] = IdleWorker],
           \/ status' = status
           \/ \E t \in Terminal : status' = [status EXCEPT ![worker[w].req] = t],
           UNCHANGED <<claimed_by, item>>
    PROVE  LedgerInv'
<1>1. RequestsInv'
    BY DEF LedgerInv, RequestsInv, TypeOK, RowsOK, Terminal
<1>2. HoldersInv'
    BY ExportAssumption
    DEF LedgerInv, HoldersInv, HoldsRightly, IdleWorker, TypeOK, WorkersOK, Requests
<1>. QED
    BY <1>1, <1>2 DEF LedgerInv

LEMMA WorkerLedgerInv ==
    ASSUME TypeOK, LedgerInv, NEW w \in Workers, WorkerStep(w) \/ Crash(w)
    PROVE  LedgerInv'
<1>. DEFINE r == worker[w].req
<1>. USE DEF LedgerInv
<1>1. CASE \E q \in Requests : Claim(w, q)
    <2>1. PICK q \in Requests : Claim(w, q)
        BY <1>1
    <2>2. claimed_by[q] = None /\ \A v \in Workers : worker[v].req # q
        BY <2>1, ExportAssumption DEF Claim, RequestsInv, HoldersInv, HoldsRightly
    <2>3. \A p \in Summaries : item[q][p] \in {"absent", "pending", "skipped"}
        BY <2>2 DEF RequestsInv
    <2>4. RequestsInv'
        <3>1. status'[q] = "processing" /\ claimed_by'[q] = w /\ item' = item
            BY <2>1 DEF Claim, ClaimBy, TypeOK, RowsOK
        <3>2. \A t \in Requests : t # q =>
                 status'[t] = status[t] /\ claimed_by'[t] = claimed_by[t]
            BY <2>1 DEF Claim, ClaimBy, TypeOK, RowsOK
        <3>. QED
            BY <3>1, <3>2, ExportAssumption DEF RequestsInv
    <2>5. HoldersInv'
        <3>1. /\ worker'[w].pc = "claimed" /\ worker'[w].req = q
              /\ claimed_by'[q] = w /\ item' = item
            BY <2>1 DEF Claim, ClaimBy, TypeOK, WorkersOK, RowsOK
        <3>2. \A v \in Workers : v # w => worker'[v] = worker[v]
            BY <2>1 DEF Claim, ClaimBy, TypeOK, WorkersOK
        <3>3. \A t \in Requests : t # q => claimed_by'[t] = claimed_by[t]
            BY <2>1 DEF Claim, ClaimBy, TypeOK, RowsOK
        <3>. QED
            BY <2>2, <2>3, <3>1, <3>2, <3>3 DEF HoldersInv, HoldsRightly
    <2>. QED
        BY <2>4, <2>5
<1>2. CASE StartRun(w)
    <2>1. RequestsInv'
        BY <1>2 DEF StartRun, RequestsInv
    <2>2. HoldersInv'
        BY <1>2 DEF StartRun, PendingItems, HoldersInv, HoldsRightly, TypeOK, WorkersOK
    <2>. QED
        BY <2>1, <2>2
<1>3. CASE \E p \in Summaries : MarkItem(w, p)
    <2>1. PICK p \in Summaries : MarkItem(w, p)
        BY <1>3
    <2>2. /\ r \in Requests /\ claimed_by[r] = w
          /\ \A v \in Workers : v # w => worker[v].req # r
        BY <2>1, Alone DEF MarkItem
    <2>3. /\ item' = [item EXCEPT ![r][p] = "processing"]
          /\ worker' = [worker EXCEPT ![w].pc = "item", ![w].current = p,
                                      ![w].todo = @ \ {p}]
          /\ status' = status /\ claimed_by' = claimed_by
          /\ worker[w].pc = "items"
        BY <2>1 DEF MarkItem
    <2>4. /\ item'[r][p] = "processing"
          /\ \A u \in Summaries : u # p => item'[r][u] = item[r][u]
          /\ \A t \in Requests : t # r => item'[t] = item[t]
        BY <2>2, <2>3 DEF TypeOK, RowsOK
    <2>5. RequestsInv'
        BY <2>2, <2>3, <2>4, ExportAssumption
        DEF RequestsInv, TypeOK, RowsOK
    <2>6. /\ worker'[w].pc = "item" /\ worker'[w].current = p /\ worker'[w].req = r
          /\ worker'[w].todo = worker[w].todo \ {p}
          /\ \A v \in Workers : v # w => worker'[v] = worker[v]
        BY <2>3 DEF TypeOK, WorkersOK
    <2>7. HoldersInv'
        BY <2>2, <2>3, <2>4, <2>6 DEF HoldersInv, HoldsRightly, TypeOK, WorkersOK
    <2>. QED
        BY <2>5, <2>7
<1>4. ASSUME NEW outcome \in {"completed", "failed"}, NEW c, CloseItem(w, outcome, c)
      PROVE  LedgerInv'
    <2>. DEFINE p == worker[w].current
    <2>1. /\ r \in Requests /\ claimed_by[r] = w
          /\ \A v \in Workers : v # w => worker[v].req # r
        BY <1>4, Alone DEF CloseItem
    <2>2. /\ item' = [item EXCEPT ![r][p] = outcome]
          /\ worker' = [worker EXCEPT ![w].pc = "items", ![w].current = None]
          /\ status' = status /\ claimed_by' = claimed_by
          /\ worker[w].pc = "item" /\ p \in Summaries
        BY <1>4 DEF CloseItem, TypeOK, WorkersOK
    <2>3. /\ item'[r][p] = outcome
          /\ \A u \in Summaries : u # p => item'[r][u] = item[r][u]
          /\ \A t \in Requests : t # r => item'[t] = item[t]
        BY <2>1, <2>2 DEF TypeOK, RowsOK
    <2>4. RequestsInv'
        BY <2>1, <2>2, <2>3, ExportAssumption
        DEF RequestsInv, TypeOK, RowsOK
    <2>5. /\ worker'[w].pc = "items" /\ worker'[w].req = r
          /\ worker'[w].todo = worker[w].todo
          /\ \A v \in Workers : v # w => worker'[v] = worker[v]
        BY <2>2 DEF TypeOK, WorkersOK
    <2>6. /\ \A u \in Summaries : item[r][u] = "processing" <=> u = p
          /\ \A u \in worker[w].todo : item[r][u] = "pending"
          /\ worker[w].todo \in SUBSET Summaries
        BY <2>1, <2>2 DEF HoldersInv, HoldsRightly, TypeOK, WorkersOK
    <2>7. /\ \A u \in Summaries : item'[r][u] # "processing"
          /\ \A u \in worker[w].todo : item'[r][u] = "pending"
        BY <2>3, <2>6
    <2>8. ASSUME NEW v \in Workers, v # w, NEW t \in Requests, worker[v].req = t
          PROVE  item'[t] = item[t] /\ worker'[v] = worker[v]
        BY <2>1, <2>3, <2>5, <2>8
    <2>9. HoldsRightly(w, r)'
        BY <2>1, <2>2, <2>5, <2>7 DEF HoldsRightly
    <2>10. ASSUME NEW v \in Workers, v # w, NEW t \in Requests, worker[v].req = t
           PROVE  HoldsRightly(v, t)'
        <3>1. HoldsRightly(v, t)
            BY <2>10 DEF HoldersInv
        <3>2. item'[t] = item[t] /\ worker'[v] = worker[v] /\ claimed_by' = claimed_by
            BY <2>2, <2>8, <2>10
        <3>. QED
            BY <3>1, <3>2 DEF HoldsRightly
    <2>11. HoldersInv'
        BY <2>5, <2>9, <2>10 DEF HoldersInv
    <2>. QED
        BY <2>4, <2>11
<1>5. CASE ItemSucceeds(w) \/ ItemFails(w)
    BY <1>4, <1>5 DEF ItemSucceeds, ItemFails
<1>6. CASE Finalize(w)
    <2>1. Outcome(r) \in Terminal
        BY DEF Outcome, Terminal
    <2>. QED
        BY <1>6, <2>1, LetGoLedgerInv DEF Finalize, RunEnds
<1>7. CASE RequestFails(w)
    BY <1>7, LetGoLedgerInv DEF RequestFails, RunEnds, Terminal
<1>8. CASE Crash(w)
    BY <1>8, LetGoLedgerInv DEF Crash, rows
<1>. QED
    BY <1>1, <1>2, <1>3, <1>5, <1>6, <1>7, <1>8 DEF WorkerStep

(* In every reachable state the items of a request are untouched until one  *)
(* worker claims it, and only the worker named in claimed_by is at work.    *)
THEOREM LedgerInvariant == Spec => []LedgerInv
<1>1. TypeOK /\ LedgerInv /\ [Next]_vars => LedgerInv'
    <2>1. CASE UNCHANGED vars
        BY <2>1 DEF vars, LedgerInv, RequestsInv, HoldersInv, HoldsRightly
    <2>. QED
        BY <2>1, OperatorLedgerInv, WorkerLedgerInv DEF Next
<1>. QED
    BY TypeCorrect, InitLedgerInv, <1>1, PTL DEF Spec

(* No two workers ever process the same billing export request, whatever   *)
(* cancels, crashes, restarts and recoveries happen around them.           *)
THEOREM ExclusiveClaim == Spec => []OneWorkerPerRequest
<1>1. TypeOK /\ LedgerInv => OneWorkerPerRequest
    BY DEF TypeOK, WorkersOK, LedgerInv, HoldersInv, HoldsRightly, OneWorkerPerRequest
<1>. QED
    BY TypeCorrect, LedgerInvariant, <1>1, PTL

-------------------------------------------------------------------------------
(* The queue implements the work ledger. *)

LEMMA EntryOfStatus ==
    /\ EntryOf["absent"] = "absent"
    /\ EntryOf["pending"] = "open"
    /\ EntryOf["processing"] = "taken"
    /\ EntryOf["completed"] = "done"
    /\ EntryOf["failed"] = "failed"
    /\ EntryOf["skipped"] = "skipped"
BY DEF EntryOf

(* Items and holders that do not change are a stutter of the ledger. *)
LEMMA Stutter ==
    ASSUME item' = item, \A r \in Requests : HolderOf(r)' = HolderOf(r)
    PROVE  UNCHANGED Ledger!ledgerVars
BY DEF Ledger!ledgerVars, LedgerEntry, LedgerHolder

LEMMA InsertRegisters ==
    ASSUME TypeOK, LedgerInv, NEW s, NEW q, NEW a,
           NEW pending \in SUBSET Summaries, NEW skipped \in SUBSET Summaries,
           pending \cap skipped = {},
           Insert(s, q, a, pending, skipped)
    PROVE  \E r \in Requests : Ledger!Register(r, pending, skipped)
<1>1. PICK r \in Requests :
        /\ status[r] = "absent"
        /\ item' = [item EXCEPT ![r] =
                      [p \in Summaries |-> IF p \in pending THEN "pending"
                                           ELSE IF p \in skipped THEN "skipped"
                                           ELSE "absent"]]
        /\ claimed_by' = claimed_by /\ worker' = worker
    BY DEF Insert, IsNextId
<1>2. HolderOf(r) = None
    BY <1>1 DEF LedgerInv, RequestsInv, HolderOf
<1>3. \A p \in Summaries : LedgerEntry[r][p] = "absent"
    BY <1>1, EntryOfStatus DEF LedgerInv, RequestsInv, LedgerEntry
<1>4. LedgerEntry' = [LedgerEntry EXCEPT ![r] =
                  [p \in Summaries |-> IF p \in pending THEN "open"
                                       ELSE IF p \in skipped THEN "skipped"
                                       ELSE "absent"]]
    BY <1>1, EntryOfStatus DEF LedgerEntry, TypeOK, RowsOK
<1>5. LedgerHolder' = LedgerHolder
    BY <1>1 DEF LedgerHolder, HolderOf
<1>. QED
    BY <1>2, <1>3, <1>4, <1>5 DEF Ledger!Register, LedgerEntry, LedgerHolder

LEMMA OperatorImplements ==
    ASSUME TypeOK, LedgerInv, NEW o \in Operators, OperatorNext(o)
    PROVE  [Ledger!LedgerNext]_(Ledger!ledgerVars)
<1>1. CASE UNCHANGED <<rows, worker>>
    BY <1>1, Stutter DEF rows, HolderOf
<1>2. CASE \E s \in Scopes \cup {None}, q \in Requests \cup {None},
              a \in RecoveryActions \cup {None},
              pending \in SUBSET Summaries, skipped \in SUBSET Summaries :
                 pending \cap skipped = {} /\ Insert(s, q, a, pending, skipped)
    BY <1>2, InsertRegisters DEF Ledger!LedgerNext
<1>3. CASE UNCHANGED <<claimed_by, item, worker>>
    BY <1>3, Stutter DEF HolderOf
<1>. QED
    BY <1>1, <1>2, <1>3, OperatorRows

(* A worker that becomes idle lets go of the request it held. *)
LEMMA IdleLetsGo ==
    ASSUME TypeOK, LedgerInv, NEW w \in Workers, worker[w].pc # "idle",
           worker' = [worker EXCEPT ![w] = IdleWorker],
           UNCHANGED <<claimed_by, item>>
    PROVE  Ledger!LetGo(worker[w].req)
<1>1. PICK r \in Requests : r = worker[w].req /\ claimed_by[r] = w /\ w # None
    BY Alone, ExportAssumption DEF LedgerInv
<1>2. /\ worker'[w].req = None
      /\ \A v \in Workers : v # w => worker'[v] = worker[v]
    BY DEF IdleWorker, TypeOK, WorkersOK
<1>3. HolderOf(r) = w
    BY <1>1 DEF HolderOf
<1>4. HolderOf(r)' = Released
    BY <1>1, <1>2, ExportAssumption DEF HolderOf, Requests
<1>5. ASSUME NEW t \in Requests, t # r PROVE HolderOf(t)' = HolderOf(t)
    <2>1. t # None /\ claimed_by[t] \in Workers \cup {None}
        BY ExportAssumption DEF Requests, TypeOK, RowsOK
    <2>. QED
        BY <1>1, <1>2, <1>5, <2>1 DEF HolderOf
<1>6. LedgerHolder' = [LedgerHolder EXCEPT ![r] = Released]
    BY <1>1, <1>4, <1>5 DEF LedgerHolder
<1>. QED
    BY <1>1, <1>3, <1>6 DEF Ledger!LetGo, LedgerHolder, LedgerEntry

LEMMA WorkerImplements ==
    ASSUME TypeOK, LedgerInv, NEW w \in Workers, WorkerStep(w) \/ Crash(w)
    PROVE  [Ledger!LedgerNext]_(Ledger!ledgerVars)
<1>. DEFINE r == worker[w].req
<1>1. worker[w].pc # "idle" =>
        /\ r \in Requests /\ claimed_by[r] = w
        /\ \A v \in Workers : v # w => worker[v].req # r
        /\ LedgerHolder[r] = w
    BY Alone, ExportAssumption DEF LedgerInv, LedgerHolder, HolderOf
<1>2. CASE \E q \in Requests : Claim(w, q)
    <2>1. PICK q \in Requests : Claim(w, q)
        BY <1>2
    <2>2. claimed_by[q] = None
        BY <2>1 DEF Claim, LedgerInv, RequestsInv
    <2>3. LedgerHolder[q] = None
        BY <2>2 DEF LedgerHolder, HolderOf
    <2>4. \A p \in Summaries : LedgerEntry[q][p] \in {"absent", "open", "skipped"}
        BY <2>2, EntryOfStatus DEF LedgerInv, RequestsInv, LedgerEntry
    <2>5. HolderOf(q)' = w
        BY <2>1, ExportAssumption
        DEF Claim, ClaimBy, HolderOf, TypeOK, WorkersOK, RowsOK
    <2>6. ASSUME NEW t \in Requests, t # q PROVE HolderOf(t)' = HolderOf(t)
        <3>1. claimed_by'[t] = claimed_by[t]
            BY <2>1, <2>6 DEF Claim, ClaimBy, TypeOK, RowsOK
        <3>2. worker[w].req = None /\ worker'[w].req = q
            BY <2>1 DEF Claim, ClaimBy, TypeOK, WorkersOK
        <3>3. \A v \in Workers : v # w => worker'[v] = worker[v]
            BY <2>1 DEF Claim, ClaimBy, TypeOK, WorkersOK
        <3>4. t # None /\ claimed_by[t] \in Workers \cup {None}
            BY ExportAssumption DEF Requests, TypeOK, RowsOK
        <3>. QED
            BY <2>6, <3>1, <3>2, <3>3, <3>4 DEF HolderOf
    <2>7. LedgerHolder' = [LedgerHolder EXCEPT ![q] = w]
        BY <2>5, <2>6 DEF LedgerHolder
    <2>8. LedgerEntry' = LedgerEntry
        BY <2>1 DEF Claim, ClaimBy, LedgerEntry
    <2>9. Ledger!Take(q, w)
        BY <2>3, <2>4, <2>7, <2>8 DEF Ledger!Take
    <2>. QED
        BY <2>9 DEF Ledger!LedgerNext
<1>3. CASE StartRun(w)
    <2>1. \A t \in Requests : HolderOf(t)' = HolderOf(t)
        BY <1>3 DEF StartRun, HolderOf, TypeOK, WorkersOK, RowsOK
    <2>. QED
        BY <1>3, <2>1, Stutter DEF StartRun
<1>4. CASE \E p \in Summaries : MarkItem(w, p)
    <2>1. PICK p \in Summaries : MarkItem(w, p)
        BY <1>4
    <2>2. worker[w].pc = "items" /\ r \in Requests
        BY <1>1, <2>1 DEF MarkItem
    <2>3. item[r][p] = "pending" /\ \A u \in Summaries : item[r][u] # "processing"
        BY <2>1, <2>2 DEF MarkItem, LedgerInv, HoldersInv, HoldsRightly
    <2>4. \A u \in Summaries : LedgerEntry[r][u] # "taken"
        BY <2>2, <2>3, EntryOfStatus DEF LedgerEntry, TypeOK, RowsOK, ItemStatuses
    <2>5. LedgerEntry[r][p] = "open"
        BY <2>2, <2>3, EntryOfStatus DEF LedgerEntry
    <2>6. LedgerEntry' = [LedgerEntry EXCEPT ![r][p] = "taken"]
        BY <2>1, <2>2, EntryOfStatus DEF MarkItem, LedgerEntry, TypeOK, RowsOK
    <2>7. LedgerHolder' = LedgerHolder
        BY <2>1 DEF MarkItem, LedgerHolder, HolderOf, TypeOK, WorkersOK, RowsOK
    <2>8. Ledger!Start(r, p)
        BY <1>1, <2>2, <2>4, <2>5, <2>6, <2>7 DEF Ledger!Start
    <2>. QED
        BY <2>2, <2>8 DEF Ledger!LedgerNext
<1>5. ASSUME NEW outcome \in {"completed", "failed"}, NEW c, CloseItem(w, outcome, c)
      PROVE  Ledger!LedgerNext
    <2>. DEFINE p == worker[w].current
    <2>1. worker[w].pc = "item" /\ r \in Requests /\ p \in Summaries
        BY <1>1, <1>5 DEF CloseItem, TypeOK, WorkersOK
    <2>2. item[r][p] = "processing"
        BY <2>1 DEF LedgerInv, HoldersInv, HoldsRightly
    <2>3. LedgerEntry[r][p] = "taken"
        BY <2>1, <2>2, EntryOfStatus DEF LedgerEntry
    <2>4. LedgerEntry' = [LedgerEntry EXCEPT ![r][p] = EntryOf[outcome]]
        BY <1>5, <2>1 DEF CloseItem, LedgerEntry, TypeOK, RowsOK
    <2>5. LedgerHolder' = LedgerHolder
        BY <1>5 DEF CloseItem, LedgerHolder, HolderOf, TypeOK, WorkersOK, RowsOK
    <2>6. Ledger!Close(r, p)
        BY <1>1, <2>1, <2>3, <2>4, <2>5, EntryOfStatus DEF Ledger!Close
    <2>. QED
        BY <2>1, <2>6 DEF Ledger!LedgerNext
<1>6. CASE ItemSucceeds(w) \/ ItemFails(w)
    BY <1>5, <1>6 DEF ItemSucceeds, ItemFails
<1>7. CASE Finalize(w) \/ RequestFails(w) \/ Crash(w)
    <2>1. Ledger!LetGo(r) /\ r \in Requests
        BY <1>1, <1>7, IdleLetsGo DEF Finalize, RunEnds, RequestFails, Crash, rows
    <2>. QED
        BY <2>1 DEF Ledger!LedgerNext
<1>. QED
    BY <1>2, <1>3, <1>4, <1>6, <1>7 DEF WorkerStep

(* The export queue is a work ledger: a request is claimed at most once, by *)
(* one worker; its items move one at a time and only while that worker has  *)
(* it; a closed item keeps its outcome; an orphan is never picked up again. *)
THEOREM Refinement == Spec => ImplementsLedger
<1>1. Init => Ledger!LedgerInit
    BY EntryOfStatus
    DEF Init, Ledger!LedgerInit, LedgerEntry, LedgerHolder, HolderOf
<1>2. TypeOK /\ LedgerInv /\ [Next]_vars => [Ledger!LedgerNext]_(Ledger!ledgerVars)
    <2>1. CASE UNCHANGED vars
        BY <2>1, Stutter DEF vars, HolderOf
    <2>. QED
        BY <2>1, OperatorImplements, WorkerImplements DEF Next
<1>. QED
    BY TypeCorrect, LedgerInvariant, <1>1, <1>2, PTL
    DEF Spec, ImplementsLedger, Ledger!LedgerSpec

-------------------------------------------------------------------------------
(* What a step does to the requests, row by row. *)

Untouched(t) ==
    /\ status'[t] = status[t] /\ scope'[t] = scope[t] /\ source'[t] = source[t]
    /\ claimed_by'[t] = claimed_by[t] /\ count'[t] = count[t]
    /\ item'[t] = item[t] /\ run'[t] = run[t]

Others(r) == \A t \in Requests : t # r => Untouched(t)
OtherWorkers(w) == \A v \in Workers : v # w => worker'[v] = worker[v]

ItemsOf(pending, skipped) ==
    [p \in Summaries |-> IF p \in pending THEN "pending"
                         ELSE IF p \in skipped THEN "skipped" ELSE "absent"]

Inserted(r, s, q, pending, skipped) ==
    /\ r \in Requests /\ status[r] = "absent" /\ Others(r) /\ worker' = worker
    /\ pending \in SUBSET Summaries /\ skipped \in SUBSET Summaries
    /\ pending \cap skipped = {}
    /\ q # None => q \in Requests /\ Ended(q) /\ pending \cup skipped \subseteq Retryable(q)
    /\ status'[r] = StatusAtInsert(pending) /\ scope'[r] = s /\ source'[r] = q
    /\ count'[r] = CountsAtInsert(skipped) /\ item'[r] = ItemsOf(pending, skipped)
    /\ claimed_by'[r] = claimed_by[r] /\ run'[r] = run[r]

Cancelled(r) ==
    /\ r \in Requests /\ Others(r) /\ worker' = worker
    /\ claimed_by[r] = None => status[r] \in {"queued", "cancelled"}
    /\ status'[r] = "cancelled" /\ scope'[r] = scope[r] /\ source'[r] = source[r]
    /\ claimed_by'[r] = claimed_by[r] /\ count'[r] = count[r]
    /\ item'[r] = item[r] /\ run'[r] = run[r]

Claimed(w, r) ==
    /\ w \in Workers /\ r \in Requests /\ Others(r) /\ OtherWorkers(w)
    /\ status[r] = "queued" /\ claimed_by[r] = None
    /\ \A v \in Workers : worker[v].req # r
    /\ status'[r] = "processing" /\ claimed_by'[r] = w
    /\ scope'[r] = scope[r] /\ source'[r] = source[r] /\ count'[r] = count[r]
    /\ item'[r] = item[r] /\ run'[r] = run[r]
    /\ worker[w].req = None /\ worker'[w].pc = "claimed" /\ worker'[w].req = r

(* Worker w goes on with the request r it holds. *)
Continues(w, r) ==
    /\ w \in Workers /\ r \in Requests /\ Others(r) /\ OtherWorkers(w)
    /\ worker[w].req = r /\ HoldsRightly(w, r) /\ InHand(w, r)
    /\ \A v \in Workers : v # w => worker[v].req # r
    /\ scope'[r] = scope[r] /\ source'[r] = source[r] /\ claimed_by'[r] = claimed_by[r]

Opened(w, r) ==
    /\ Continues(w, r) /\ status'[r] = status[r] /\ count'[r] = count[r] /\ item'[r] = item[r]
    /\ worker[w].pc = "claimed" /\ run'[r] = "running"
    /\ worker'[w].pc = "items" /\ worker'[w].req = r /\ worker'[w].todo = PendingItems(r)

ItemTurns(r, p, from, to) ==
    /\ p \in Summaries /\ item[r][p] = from /\ item'[r][p] = to
    /\ \A u \in Summaries : u # p => item'[r][u] = item[r][u]

Marked(w, r, p) ==
    /\ Continues(w, r) /\ status'[r] = status[r] /\ count'[r] = count[r] /\ run'[r] = run[r]
    /\ worker[w].pc = "items" /\ ItemTurns(r, p, "pending", "processing")
    /\ worker'[w].pc = "item" /\ worker'[w].req = r /\ worker'[w].todo = worker[w].todo \ {p}

Closed(w, r, p, outcome, c) ==
    /\ Continues(w, r) /\ status'[r] = status[r] /\ run'[r] = run[r]
    /\ worker[w].pc = "item" /\ ItemTurns(r, p, "processing", outcome)
    /\ \/ outcome = "completed" /\ c = CountSuccess(count[r])
       \/ outcome = "failed" /\ c = CountFailure(count[r])
    /\ count'[r] = c
    /\ worker'[w].pc = "items" /\ worker'[w].req = r /\ worker'[w].todo = worker[w].todo

LetGo(w, r) ==
    /\ Continues(w, r) /\ count'[r] = count[r] /\ item'[r] = item[r]
    /\ worker[w].pc # "idle" /\ worker'[w].pc = "idle" /\ worker'[w].req = None
    /\ \/ status'[r] = status[r] /\ run'[r] = run[r]
       \/ status'[r] = "failed" /\ run'[r] = IF run[r] = "running" THEN "failed" ELSE run[r]
       \/ /\ worker[w].pc = "items" /\ worker[w].todo = {}
          /\ status'[r] = Outcome(r) /\ run'[r] = Outcome(r)

QueueStep ==
    \/ UNCHANGED <<rows, worker>>
    \/ \E r \in Requests : Cancelled(r)
    \/ \E r, s, q, pending, skipped : Inserted(r, s, q, pending, skipped)
    \/ \E w \in Workers, r \in Requests :
          \/ Claimed(w, r) \/ Opened(w, r) \/ LetGo(w, r)
          \/ \E p \in Summaries : Marked(w, r, p)
          \/ \E p, outcome, c : Closed(w, r, p, outcome, c)

LEMMA InsertedRow ==
    ASSUME RowsOK, NEW s, NEW q, NEW a,
           NEW pending \in SUBSET Summaries, NEW skipped \in SUBSET Summaries,
           pending \cap skipped = {}, Insert(s, q, a, pending, skipped),
           q # None => q \in Requests /\ Ended(q) /\ pending \cup skipped \subseteq Retryable(q)
    PROVE  \E r : Inserted(r, s, q, pending, skipped)
<1>1. PICK r \in Requests :
        /\ status[r] = "absent"
        /\ status' = [status EXCEPT ![r] = StatusAtInsert(pending)]
        /\ scope' = [scope EXCEPT ![r] = s]
        /\ source' = [source EXCEPT ![r] = q]
        /\ count' = [count EXCEPT ![r] = CountsAtInsert(skipped)]
        /\ item' = [item EXCEPT ![r] = ItemsOf(pending, skipped)]
        /\ UNCHANGED <<claimed_by, run, worker>>
    BY DEF Insert, IsNextId, ItemsOf
<1>2. Others(r)
    BY <1>1 DEF Others, Untouched, RowsOK
<1>3. /\ status'[r] = StatusAtInsert(pending) /\ scope'[r] = s /\ source'[r] = q
      /\ count'[r] = CountsAtInsert(skipped) /\ item'[r] = ItemsOf(pending, skipped)
    BY <1>1 DEF RowsOK
<1>. QED  BY <1>1, <1>2, <1>3 DEF Inserted

LEMMA OperatorStep ==
    ASSUME TypeOK, NEW o \in Operators, OperatorInv(o), OperatorNext(o)
    PROVE  QueueStep
<1>. DEFINE q == operator[o].req
<1>1. CASE (\E s \in Scopes : BeginCreate(o, s)) \/ (\E r \in Requests : BeginCancel(o, r))
           \/ (\E r \in Requests, a \in RecoveryActions : BeginRecovery(o, r, a)) \/ RollBack(o)
    BY <1>1 DEF BeginCreate, BeginCancel, BeginRecovery, RollBack, Begins, QueueStep
<1>2. CASE Create(o)
    <2>1. PICK listed \in (SUBSET Window[operator[o].scope]) \ {{}} :
            \E exportable \in SUBSET listed :
              Insert(operator[o].scope, None, None, exportable, listed \ exportable)
        BY <1>2 DEF Create
    <2>2. PICK exportable \in SUBSET listed :
            Insert(operator[o].scope, None, None, exportable, listed \ exportable)
        BY <2>1
    <2>3. /\ exportable \in SUBSET Summaries
          /\ listed \ exportable \in SUBSET Summaries
          /\ exportable \cap (listed \ exportable) = {}
        BY <1>2, <2>1, ExportAssumption DEF Create, TypeOK, OperatorsOK
    <2>. QED  BY <2>2, <2>3, InsertedRow DEF TypeOK, QueueStep
<1>3. ASSUME operator[o].pc \in RecoveryActions
      PROVE  q \in Requests /\ Ended(q) /\ Retryable(q) \in SUBSET Summaries
    BY <1>3 DEF TypeOK, OperatorsOK, Retryable, OperatorInv
<1>4. CASE Rerun(o)
    <2>1. operator[o].pc \in RecoveryActions /\ Insert(scope[q], q, "rerun", Retryable(q), {})
        BY <1>4 DEF Rerun, InsertRecovery, RecoveryActions
    <2>2. Retryable(q) \cap {} = {} /\ {} \in SUBSET Summaries /\ Retryable(q) \cup {} = Retryable(q)
        OBVIOUS
    <2>. QED  BY <1>3, <2>1, <2>2, InsertedRow DEF TypeOK, QueueStep
<1>5. CASE Recreate(o)
    <2>1. operator[o].pc \in RecoveryActions
        BY <1>5 DEF Recreate, RecoveryActions
    <2>2. PICK exportable \in SUBSET Retryable(q) :
            Insert(scope[q], q, "recreate", exportable, Retryable(q) \ exportable)
        BY <1>5 DEF Recreate, InsertRecovery
    <2>3. /\ exportable \in SUBSET Summaries
          /\ Retryable(q) \ exportable \in SUBSET Summaries
          /\ exportable \cap (Retryable(q) \ exportable) = {}
          /\ exportable \cup (Retryable(q) \ exportable) \subseteq Retryable(q)
        BY <1>3, <2>1
    <2>. QED  BY <1>3, <2>1, <2>2, <2>3, InsertedRow DEF TypeOK, QueueStep
<1>6. CASE Cancel(o)
    <2>1. q \in Requests /\ status' = [status EXCEPT ![q] = "cancelled"]
          /\ UNCHANGED <<scope, source, action, claimed_by, count, item, run, worker>>
          /\ (claimed_by[q] = None => status[q] \in {"queued", "cancelled"})
        BY <1>6 DEF Cancel, TypeOK, OperatorsOK, OperatorInv
    <2>2. Cancelled(q)
        BY <2>1 DEF Cancelled, Others, Untouched, TypeOK, RowsOK
    <2>. QED  BY <2>1, <2>2 DEF QueueStep
<1>. QED  BY <1>1, <1>2, <1>4, <1>5, <1>6 DEF OperatorNext

LEMMA WorkerSteps ==
    ASSUME TypeOK, LedgerInv, WorkInv, NEW w \in Workers, WorkerStep(w) \/ Crash(w)
    PROVE  QueueStep
<1>1. CASE \E q \in Requests : Claim(w, q)
    <2>1. PICK q \in Requests : Claim(w, q)
        BY <1>1
    <2>2. claimed_by[q] = None /\ \A v \in Workers : worker[v].req # q
        BY <2>1, ExportAssumption DEF Claim, LedgerInv, RequestsInv, HoldersInv, HoldsRightly
    <2>3. /\ worker[w].req = None /\ worker'[w].pc = "claimed" /\ worker'[w].req = q
          /\ OtherWorkers(w)
        BY <2>1 DEF Claim, ClaimBy, TypeOK, WorkersOK, OtherWorkers
    <2>4. Others(q) /\ status'[q] = "processing" /\ claimed_by'[q] = w
        BY <2>1 DEF Claim, ClaimBy, TypeOK, RowsOK, Others, Untouched
    <2>5. Claimed(w, q)
        BY <2>1, <2>2, <2>3, <2>4 DEF Claimed, Claim, ClaimBy
    <2>. QED  BY <2>5 DEF QueueStep
<1>2. ASSUME worker[w].pc # "idle"
      PROVE  \E r \in Requests :
                /\ r = worker[w].req /\ HoldsRightly(w, r) /\ InHand(w, r)
                /\ \A v \in Workers : v # w => worker[v].req # r
    BY <1>2, Alone DEF LedgerInv, HoldersInv, WorkInv
<1>3. CASE worker[w].pc # "idle"
    <2>1. PICK r \in Requests :
                /\ r = worker[w].req /\ HoldsRightly(w, r) /\ InHand(w, r)
                /\ \A v \in Workers : v # w => worker[v].req # r
        BY <1>2, <1>3
    <2>2. CASE StartRun(w)
        <3>1. Others(r) /\ run'[r] = "running"
            BY <2>1, <2>2 DEF StartRun, Others, Untouched, TypeOK, RowsOK
        <3>2. /\ OtherWorkers(w) /\ worker'[w].pc = "items" /\ worker'[w].req = r
              /\ worker'[w].todo = PendingItems(r) /\ worker[w].pc = "claimed"
            BY <2>1, <2>2 DEF StartRun, OtherWorkers, TypeOK, WorkersOK
        <3>3. Opened(w, r)
            BY <2>1, <2>2, <3>1, <3>2 DEF StartRun, Opened, Continues
        <3>. QED  BY <3>3 DEF QueueStep
    <2>3. CASE \E p \in Summaries : MarkItem(w, p)
        <3>1. PICK p \in Summaries : MarkItem(w, p)
            BY <2>3
        <3>2. /\ OtherWorkers(w) /\ worker'[w].pc = "item" /\ worker'[w].req = r
              /\ worker'[w].todo = worker[w].todo \ {p} /\ worker[w].pc = "items"
              /\ p \in worker[w].todo
            BY <2>1, <3>1 DEF MarkItem, OtherWorkers, TypeOK, WorkersOK
        <3>3. Others(r) /\ ItemTurns(r, p, "pending", "processing")
            BY <2>1, <3>1, <3>2 DEF MarkItem, Others, Untouched, ItemTurns, HoldsRightly, TypeOK, RowsOK
        <3>4. Marked(w, r, p)
            BY <2>1, <3>1, <3>2, <3>3 DEF MarkItem, Marked, Continues
        <3>. QED  BY <3>4 DEF QueueStep
    <2>4. ASSUME NEW outcome, NEW c, CloseItem(w, outcome, c),
                 \/ outcome = "completed" /\ c = CountSuccess(count[r])
                 \/ outcome = "failed" /\ c = CountFailure(count[r])
          PROVE  QueueStep
        <3>1. PICK p : p = worker[w].current
            OBVIOUS
        <3>2. /\ OtherWorkers(w) /\ worker'[w].pc = "items" /\ worker'[w].req = r
              /\ worker'[w].todo = worker[w].todo /\ worker[w].pc = "item" /\ p \in Summaries
            BY <2>1, <2>4, <3>1 DEF CloseItem, OtherWorkers, TypeOK, WorkersOK
        <3>3. Others(r) /\ ItemTurns(r, p, "processing", outcome) /\ count'[r] = c
            BY <2>1, <2>4, <3>1, <3>2
            DEF CloseItem, Others, Untouched, ItemTurns, HoldsRightly, TypeOK, RowsOK
        <3>4. Closed(w, r, p, outcome, c)
            BY <2>1, <2>4, <3>2, <3>3 DEF CloseItem, Closed, Continues
        <3>. QED  BY <3>4 DEF QueueStep
    <2>5. CASE ItemSucceeds(w) \/ ItemFails(w)
        BY <2>1, <2>4, <2>5 DEF ItemSucceeds, ItemFails
    <2>6. CASE Finalize(w) \/ RequestFails(w) \/ Crash(w)
        <3>1. /\ OtherWorkers(w) /\ worker'[w].pc = "idle" /\ worker'[w].req = None
            BY <2>6 DEF Finalize, RequestFails, Crash, OtherWorkers, IdleWorker, TypeOK, WorkersOK
        <3>2. Others(r)
            BY <2>1, <2>6 DEF Finalize, RequestFails, RunEnds, Crash, rows, Others, Untouched, TypeOK, RowsOK
        <3>3. \/ status'[r] = status[r] /\ run'[r] = run[r]
              \/ status'[r] = "failed" /\ run'[r] = IF run[r] = "running" THEN "failed" ELSE run[r]
              \/ /\ worker[w].pc = "items" /\ worker[w].todo = {}
                 /\ status'[r] = Outcome(r) /\ run'[r] = Outcome(r)
            BY <2>1, <2>6 DEF Finalize, RequestFails, RunEnds, Crash, rows, TypeOK, RowsOK
        <3>4. LetGo(w, r)
            BY <1>3, <2>1, <2>6, <3>1, <3>2, <3>3 DEF LetGo, Continues, Finalize, RequestFails, RunEnds, Crash, rows
        <3>. QED  BY <3>4 DEF QueueStep
    <2>. QED  BY <1>3, <2>2, <2>3, <2>5, <2>6 DEF WorkerStep, Claim, ClaimBy
<1>4. CASE worker[w].pc = "idle"
    BY <1>1, <1>4 DEF WorkerStep, StartRun, MarkItem, ItemSucceeds, ItemFails, CloseItem, Finalize,
                      RequestFails, Crash
<1>. QED  BY <1>3, <1>4

-------------------------------------------------------------------------------
(* Requests in hand, and requests that have ended. *)

LEMMA EndedStays ==
    ASSUME LedgerInv, QueueStep, NEW q \in Requests, Ended(q)
    PROVE  Ended(q)'
<1>1. CASE UNCHANGED <<rows, worker>>
    BY <1>1 DEF rows, Ended
<1>2. CASE \E r \in Requests : Cancelled(r)
    BY <1>2 DEF Cancelled, Others, Untouched, Ended
<1>3. CASE \E r, s, t, pending, skipped : Inserted(r, s, t, pending, skipped)
    BY <1>3 DEF Inserted, Others, Untouched, Ended
<1>4. CASE \E w \in Workers, r \in Requests : Claimed(w, r)
    BY <1>4 DEF Claimed, Others, OtherWorkers, Untouched, Ended
<1>5. ASSUME NEW w \in Workers, NEW r \in Requests, Continues(w, r),
             worker'[w].req \in {r, None}
      PROVE  Ended(q)'
    BY <1>5, ExportAssumption DEF Continues, Others, OtherWorkers, Untouched, Ended, Requests
<1>6. CASE \E w \in Workers, r \in Requests :
              \/ Opened(w, r) \/ LetGo(w, r)
              \/ \E p \in Summaries : Marked(w, r, p)
              \/ \E p, outcome, c : Closed(w, r, p, outcome, c)
    BY <1>5, <1>6 DEF Opened, LetGo, Marked, Closed
<1>. QED  BY <1>1, <1>2, <1>3, <1>4, <1>6 DEF QueueStep

LEMMA InHandStays ==
    ASSUME NEW v \in Workers, NEW t \in Requests, InHand(v, t),
           worker'[v] = worker[v], Untouched(t)
    PROVE  InHand(v, t)'
BY DEF InHand, Untouched, PendingItems

LEMMA WorkStep ==
    ASSUME TypeOK, LedgerInv, WorkInv, RunAgreesWithRequest, QueueStep
    PROVE  WorkInv'
<1>1. ASSUME NEW v \in Workers, NEW t \in Requests, worker'[v].req = t
      PROVE  InHand(v, t)'
    <2>1. ASSUME worker[v].req = t, worker'[v] = worker[v], Untouched(t) PROVE InHand(v, t)'
        BY <2>1, InHandStays DEF WorkInv
    <2>2. worker[v].req = t => status[t] \in {"processing", "cancelled"} /\ InHand(v, t)
        BY DEF WorkInv, InHand
    <2>3. CASE UNCHANGED <<rows, worker>>
        BY <1>1, <2>1, <2>3 DEF rows, Untouched
    <2>4. CASE \E r \in Requests : Cancelled(r)
        <3>1. PICK r \in Requests : Cancelled(r)
            BY <2>4
        <3>2. CASE t = r
            BY <1>1, <2>2, <3>1, <3>2 DEF Cancelled, InHand, PendingItems
        <3>3. CASE t # r
            BY <1>1, <2>1, <3>1, <3>3 DEF Cancelled, Others
        <3>. QED  BY <3>2, <3>3
    <2>5. CASE \E r, s, q, pending, skipped : Inserted(r, s, q, pending, skipped)
        BY <1>1, <2>1, <2>2, <2>5 DEF Inserted, Others
    <2>6. CASE \E w \in Workers, r \in Requests : Claimed(w, r)
        <3>1. PICK w \in Workers, r \in Requests : Claimed(w, r)
            BY <2>6
        <3>2. CASE v = w
            <4>1. t = r /\ status'[r] = "processing" /\ worker'[v].pc = "claimed" /\ run'[r] = run[r]
                BY <1>1, <3>1, <3>2 DEF Claimed
            <4>2. run[r] = "none"
                BY <3>1 DEF Claimed, RunAgreesWithRequest, TypeOK, RowsOK
            <4>. QED  BY <4>1, <4>2 DEF InHand
        <3>3. CASE v # w
            BY <1>1, <2>1, <3>1, <3>3 DEF Claimed, Others, OtherWorkers
        <3>. QED  BY <3>2, <3>3
    <2>7. ASSUME NEW w \in Workers, NEW r \in Requests, Continues(w, r), v # w
          PROVE  InHand(v, t)'
        BY <1>1, <2>1, <2>7 DEF Continues, Others, OtherWorkers
    <2>8. ASSUME NEW w \in Workers, NEW r \in Requests, Opened(w, r) PROVE InHand(v, t)'
        <3>1. CASE v = w
            BY <1>1, <2>2, <2>8, <3>1 DEF Opened, Continues, InHand, PendingItems
        <3>. QED  BY <2>7, <2>8, <3>1 DEF Opened
    <2>9. ASSUME NEW w \in Workers, NEW r \in Requests, NEW p \in Summaries, Marked(w, r, p)
          PROVE  InHand(v, t)'
        <3>1. CASE v = w
            <4>1. t = r /\ InHand(w, r) /\ worker[w].pc = "items"
                BY <1>1, <2>9, <3>1 DEF Marked, Continues
            <4>2. PendingItems(r)' \subseteq PendingItems(r) \ {p}
                BY <2>9 DEF Marked, ItemTurns, PendingItems
            <4>. QED  BY <2>9, <3>1, <4>1, <4>2 DEF Marked, InHand
        <3>. QED  BY <2>7, <2>9, <3>1 DEF Marked
    <2>10. ASSUME NEW w \in Workers, NEW r \in Requests, NEW p, NEW outcome, NEW c,
                  Closed(w, r, p, outcome, c)
           PROVE  InHand(v, t)'
        <3>1. CASE v = w
            <4>1. t = r /\ InHand(w, r) /\ worker[w].pc = "item" /\ outcome # "pending"
                BY <1>1, <2>10, <3>1 DEF Closed, Continues
            <4>2. PendingItems(r)' \subseteq PendingItems(r)
                BY <2>10, <4>1 DEF Closed, ItemTurns, PendingItems
            <4>. QED  BY <2>10, <3>1, <4>1, <4>2 DEF Closed, InHand
        <3>. QED  BY <2>7, <2>10, <3>1 DEF Closed
    <2>11. ASSUME NEW w \in Workers, NEW r \in Requests, LetGo(w, r) PROVE InHand(v, t)'
        <3>1. v # w
            BY <1>1, <2>11, ExportAssumption DEF LetGo, Requests
        <3>. QED  BY <2>7, <2>11, <3>1 DEF LetGo
    <2>. QED  BY <2>3, <2>4, <2>5, <2>6, <2>8, <2>9, <2>10, <2>11 DEF QueueStep
<1>2. ASSUME NEW t \in Requests, status'[t] = "failed" PROVE Ended(t)'
    <2>1. CASE status[t] = "failed"
        BY <2>1, EndedStays DEF WorkInv
    <2>2. CASE status[t] # "failed"
        <3>1. PICK w \in Workers : LetGo(w, t)
            BY <1>2, <2>2 DEF QueueStep, rows, Cancelled, Inserted, StatusAtInsert, Claimed, Opened,
                              Marked, Closed, LetGo, Continues, Others, Untouched
        <3>. QED  BY <3>1, ExportAssumption
                  DEF LetGo, Continues, HoldsRightly, OtherWorkers, Ended, Requests
    <2>. QED  BY <2>1, <2>2
<1>. QED  BY <1>1, <1>2 DEF WorkInv

(* The pipeline run and the request tell the same outcome. *)
LEMMA RunStep ==
    ASSUME TypeOK, WorkInv, RunAgreesWithRequest, QueueStep
    PROVE  RunAgreesWithRequest'
<1>. SUFFICES ASSUME NEW t \in Requests
              PROVE  /\ run'[t] \in {"completed", "failed"} => status'[t] \in {run'[t], "cancelled"}
                     /\ run'[t] = "running" => status'[t] \in {"processing", "cancelled"}
    BY DEF RunAgreesWithRequest
<1>1. /\ run[t] \in {"completed", "failed"} => status[t] \in {run[t], "cancelled"}
      /\ run[t] = "running" => status[t] \in {"processing", "cancelled"}
      /\ run[t] \in {"none", "running", "completed", "failed"}
    BY DEF RunAgreesWithRequest, TypeOK, RowsOK
<1>2. ASSUME Untouched(t) \/ UNCHANGED <<status, run>>
      PROVE  run'[t] = run[t] /\ status'[t] = status[t]
    BY <1>2 DEF Untouched
<1>3. CASE UNCHANGED <<rows, worker>>
    BY <1>1, <1>3 DEF rows
<1>4. CASE \E r \in Requests : Cancelled(r)
    BY <1>1, <1>4 DEF Cancelled, Others, Untouched
<1>5. CASE \E r, s, q, pending, skipped : Inserted(r, s, q, pending, skipped)
    BY <1>1, <1>5 DEF Inserted, Others, Untouched
<1>6. CASE \E w \in Workers, r \in Requests : Claimed(w, r)
    BY <1>1, <1>6 DEF Claimed, Others, Untouched
<1>7. ASSUME NEW w \in Workers, NEW r \in Requests, Opened(w, r) \/ LetGo(w, r)
      PROVE  /\ run'[t] \in {"completed", "failed"} => status'[t] \in {run'[t], "cancelled"}
             /\ run'[t] = "running" => status'[t] \in {"processing", "cancelled"}
    BY <1>1, <1>7 DEF Opened, LetGo, Continues, InHand, Others, Untouched, Outcome
<1>8. CASE \E w \in Workers, r \in Requests :
              \/ \E p \in Summaries : Marked(w, r, p)
              \/ \E p, outcome, c : Closed(w, r, p, outcome, c)
    BY <1>1, <1>8 DEF Marked, Closed, Continues, Others, Untouched
<1>. QED  BY <1>3, <1>4, <1>5, <1>6, <1>7, <1>8 DEF QueueStep

-------------------------------------------------------------------------------
(* The counters and the items. *)

Among(S, items) == Cardinality({p \in Summaries : items[p] \in S})

CountsOf(items) ==
    [processed |-> Among({"completed", "failed", "skipped"}, items),
     succeeded |-> Among({"completed"}, items),
     failed    |-> Among({"failed"}, items),
     skipped   |-> Among({"skipped"}, items)]

LEMMA CountersAreCounts ==
    CountersMatchItems <=> \A r \in Requests : count[r] = CountsOf(item[r])
BY DEF CountersMatchItems, CountsOf, Among

LEMMA CountersAreCountsNext ==
    CountersMatchItems' <=> \A r \in Requests : count'[r] = CountsOf(item'[r])
BY DEF CountersMatchItems, CountsOf, Among

LEMMA AmongIsNumber ==
    ASSUME NEW S, NEW items
    PROVE  /\ IsFiniteSet({p \in Summaries : items[p] \in S}) /\ Among(S, items) \in Nat
           /\ Among(S, items) = 0 => \A p \in Summaries : items[p] \notin S
<1>1. IsFiniteSet({p \in Summaries : items[p] \in S})
    BY ExportAssumption, FS_Subset
<1>. QED  BY <1>1, FS_CardinalityType, FS_EmptySet DEF Among

LEMMA OneMore ==
    ASSUME NEW S, NEW old, NEW new, NEW p \in Summaries, old[p] \notin S, new[p] \in S,
           \A u \in Summaries : u # p => new[u] = old[u]
    PROVE  Among(S, new) = Among(S, old) + 1
<1>1. {u \in Summaries : new[u] \in S} = {u \in Summaries : old[u] \in S} \cup {p}
    OBVIOUS
<1>2. p \notin {u \in Summaries : old[u] \in S}
    OBVIOUS
<1>. QED  BY <1>1, <1>2, AmongIsNumber, FS_AddElement DEF Among

LEMMA AsMany ==
    ASSUME NEW S, NEW old, NEW new, \A u \in Summaries : new[u] \in S <=> old[u] \in S
    PROVE  Among(S, new) = Among(S, old)
<1>1. {u \in Summaries : new[u] \in S} = {u \in Summaries : old[u] \in S}
    OBVIOUS
<1>. QED  BY <1>1 DEF Among

\* What the inserts write into the counters of a request with k skipped items.
LEMMA TwoCountersWritten ==
    ASSUME NEW k \in Nat, NEW c, c = [NoCounts EXCEPT !.processed = k, !.skipped = k]
    PROVE  c = [processed |-> k, succeeded |-> 0, failed |-> 0, skipped |-> k]
<1>1. NoCounts \in [processed : Nat, succeeded : Nat, failed : Nat, skipped : Nat]
    BY DEF NoCounts
<1>2. c \in [processed : Nat, succeeded : Nat, failed : Nat, skipped : Nat]
    BY <1>1
<1>3. /\ c.processed = k /\ c.succeeded = 0
      /\ c.failed = 0 /\ c.skipped = k
    BY DEF NoCounts
<1>. QED  BY <1>2, <1>3

LEMMA CountsOfInserted ==
    ASSUME NEW pending \in SUBSET Summaries, NEW skipped \in SUBSET Summaries,
           pending \cap skipped = {}
    PROVE  CountsAtInsert(skipped) = CountsOf(ItemsOf(pending, skipped))
<1>1. PICK items : items = ItemsOf(pending, skipped)
    OBVIOUS
<1>2. /\ {p \in Summaries : items[p] \in {"completed", "failed", "skipped"}} = skipped
      /\ {p \in Summaries : items[p] \in {"skipped"}} = skipped
      /\ {p \in Summaries : items[p] \in {"completed"}} = {}
      /\ {p \in Summaries : items[p] \in {"failed"}} = {}
    BY <1>1 DEF ItemsOf
<1>3. /\ Among({"completed", "failed", "skipped"}, items) = Cardinality(skipped)
      /\ Among({"skipped"}, items) = Cardinality(skipped)
      /\ Among({"completed"}, items) = 0 /\ Among({"failed"}, items) = 0
    BY <1>2, FS_EmptySet DEF Among
<1>4. PICK k : k = Cardinality(skipped)
    OBVIOUS
<1>4n. k \in Nat
    BY <1>4, ExportAssumption, FS_Subset, FS_CardinalityType
<1>5. CountsAtInsert(skipped) = [processed |-> k, succeeded |-> 0, failed |-> 0, skipped |-> k]
    <2>1. CountsAtInsert(skipped) = [NoCounts EXCEPT !.processed = k, !.skipped = k]
        BY <1>4, Zenon DEF CountsAtInsert
    <2>. QED  BY <2>1, <1>4n, TwoCountersWritten, Zenon
<1>6. CountsOf(items) = [processed |-> k, succeeded |-> 0, failed |-> 0, skipped |-> k]
    BY <1>3, <1>4 DEF CountsOf
<1>. QED  BY <1>1, <1>5, <1>6

LEMMA CountsOfClosed ==
    ASSUME NEW old, NEW new, NEW p \in Summaries, old[p] = "processing",
           new[p] \in {"completed", "failed"}, \A u \in Summaries : u # p => new[u] = old[u]
    PROVE  CountsOf(new) = IF new[p] = "completed" THEN CountSuccess(CountsOf(old))
                           ELSE CountFailure(CountsOf(old))
<1>1. Among({"completed", "failed", "skipped"}, new) = Among({"completed", "failed", "skipped"}, old) + 1
    BY OneMore
<1>2. Among({"skipped"}, new) = Among({"skipped"}, old)
    BY AsMany
<1>3. CASE new[p] = "completed"
    <2>1. Among({"completed"}, new) = Among({"completed"}, old) + 1
        BY <1>3, OneMore
    <2>2. Among({"failed"}, new) = Among({"failed"}, old)
        BY <1>3, AsMany
    <2>. QED  BY <1>1, <1>2, <1>3, <2>1, <2>2 DEF CountsOf, CountSuccess
<1>4. CASE new[p] = "failed"
    <2>1. Among({"failed"}, new) = Among({"failed"}, old) + 1
        BY <1>4, OneMore
    <2>2. Among({"completed"}, new) = Among({"completed"}, old)
        BY <1>4, AsMany
    <2>. QED  BY <1>1, <1>2, <1>4, <2>1, <2>2 DEF CountsOf, CountFailure
<1>. QED  BY <1>3, <1>4

LEMMA CountsOfMarked ==
    ASSUME NEW old, NEW new, NEW p \in Summaries, old[p] = "pending", new[p] = "processing",
           \A u \in Summaries : u # p => new[u] = old[u]
    PROVE  CountsOf(new) = CountsOf(old)
<1>1. \A S \in {{"completed", "failed", "skipped"}, {"completed"}, {"failed"}, {"skipped"}} :
          Among(S, new) = Among(S, old)
    <2>. TAKE S \in {{"completed", "failed", "skipped"}, {"completed"}, {"failed"}, {"skipped"}}
    <2>1. "pending" \notin S /\ "processing" \notin S
        OBVIOUS
    <2>. QED  BY <2>1, AsMany
<1>. QED  BY <1>1 DEF CountsOf

LEMMA CountersStep ==
    ASSUME CountersMatchItems, QueueStep
    PROVE  CountersMatchItems'
<1>. SUFFICES ASSUME NEW t \in Requests PROVE count'[t] = CountsOf(item'[t])
    BY CountersAreCountsNext
<1>1. count[t] = CountsOf(item[t])
    BY CountersAreCounts
<1>2. CASE count'[t] = count[t] /\ item'[t] = item[t]
    BY <1>1, <1>2
<1>3. CASE \E s, q, pending, skipped : Inserted(t, s, q, pending, skipped)
    BY <1>3, CountsOfInserted DEF Inserted
<1>4. CASE \E w \in Workers, p \in Summaries : Marked(w, t, p)
    BY <1>1, <1>4, CountsOfMarked DEF Marked, ItemTurns
<1>5. CASE \E w \in Workers : \E p, outcome, c : Closed(w, t, p, outcome, c)
    BY <1>1, <1>5, CountsOfClosed DEF Closed, ItemTurns
<1>6. \/ count'[t] = count[t] /\ item'[t] = item[t]
      \/ \E s, q, pending, skipped : Inserted(t, s, q, pending, skipped)
      \/ \E w \in Workers, p \in Summaries : Marked(w, t, p)
      \/ \E w \in Workers : \E p, outcome, c : Closed(w, t, p, outcome, c)
    BY DEF QueueStep, rows, Cancelled, Inserted, Claimed, Opened, Marked, Closed, LetGo, Continues,
           Others, Untouched
<1>. QED  BY <1>2, <1>3, <1>4, <1>5, <1>6

(* A request reported completed left nothing behind. *)
LEMMA CompletedStep ==
    ASSUME TypeOK, CountersMatchItems, CompletedMeansDelivered, QueueStep
    PROVE  CompletedMeansDelivered'
<1>. SUFFICES ASSUME NEW t \in Requests, status'[t] = "completed"
              PROVE  \A p \in Summaries : item'[t][p] \in {"absent", "completed", "skipped"}
    BY DEF CompletedMeansDelivered
<1>1. CASE status[t] = "completed" /\ item'[t] = item[t]
    BY <1>1 DEF CompletedMeansDelivered
<1>2. CASE \E s, q, pending, skipped : Inserted(t, s, q, pending, skipped)
    BY <1>2 DEF Inserted, StatusAtInsert, ItemsOf
<1>3. CASE \E w \in Workers : /\ LetGo(w, t) /\ worker[w].pc = "items" /\ worker[w].todo = {}
                              /\ Outcome(t) = "completed"
    <2>1. PICK w \in Workers : /\ LetGo(w, t) /\ worker[w].pc = "items" /\ worker[w].todo = {}
                               /\ Outcome(t) = "completed"
        BY <1>3
    <2>2. count[t].failed = 0 /\ item'[t] = item[t]
        BY <2>1 DEF Outcome, LetGo
    <2>3. \A p \in Summaries : item[t][p] # "failed"
        <3>1. Among({"failed"}, item[t]) = 0
            <4>1. count[t] = CountsOf(item[t])
                BY CountersAreCounts
            <4>. QED  BY <2>2, <4>1 DEF CountsOf
        <3>. QED  BY <3>1, AmongIsNumber
    <2>4. \A p \in Summaries : item[t][p] \notin {"pending", "processing"}
        BY <2>1 DEF LetGo, Continues, InHand, HoldsRightly, PendingItems
    <2>. QED  BY <2>2, <2>3, <2>4 DEF TypeOK, RowsOK, ItemStatuses
<1>4. \/ status[t] = "completed" /\ item'[t] = item[t]
      \/ \E s, q, pending, skipped : Inserted(t, s, q, pending, skipped)
      \/ \E w \in Workers : /\ LetGo(w, t) /\ worker[w].pc = "items" /\ worker[w].todo = {}
                            /\ Outcome(t) = "completed"
    <2>1. ASSUME NEW w \in Workers, NEW r \in Requests, LetGo(w, r)
          PROVE  \/ status[t] = "completed" /\ item'[t] = item[t]
                 \/ r = t /\ worker[w].pc = "items" /\ worker[w].todo = {}
                          /\ Outcome(t) = "completed"
        BY <2>1 DEF LetGo, Continues, Others, Untouched
    <2>. QED  BY <2>1 DEF QueueStep, rows, Cancelled, Inserted, Claimed, Opened, Marked, Closed,
                          Continues, InHand, Others, Untouched
<1>. QED  BY <1>1, <1>2, <1>3, <1>4

-------------------------------------------------------------------------------
(* Recoveries. *)

LEMMA EndedIsFrozen ==
    ASSUME LedgerInv, QueueStep, NEW q \in Requests, Ended(q)
    PROVE  item'[q] = item[q]
<1>1. status[q] # "absent"
    BY DEF LedgerInv, RequestsInv, Ended
<1>. QED  BY <1>1 DEF QueueStep, rows, Cancelled, Inserted, Claimed, Opened, Marked, Closed, LetGo,
                      Continues, Others, Untouched, Ended

(* A row that is not new keeps its source, and its items stay items. *)
LEMMA SourceKept ==
    ASSUME QueueStep, NEW r \in Requests
    PROVE  \/ \E s, q, pending, skipped : Inserted(r, s, q, pending, skipped)
           \/ /\ source'[r] = source[r]
              /\ \A p \in Summaries : item'[r][p] # "absent" => item[r][p] # "absent"
BY DEF QueueStep, rows, Cancelled, Inserted, Claimed, Opened, Marked, Closed, LetGo, ItemTurns,
       Continues, Others, Untouched

LEMMA RecoveryStep ==
    ASSUME TypeOK, LedgerInv, SourcesInv, RecoveryRetriesUnfinishedWork, QueueStep
    PROVE  SourcesInv' /\ RecoveryRetriesUnfinishedWork'
<1>1. ASSUME NEW r \in Requests, NEW q, q = source'[r], q # None
      PROVE  /\ q \in Requests /\ Ended(q)'
             /\ \A p \in Summaries : item'[r][p] # "absent" => item'[q][p] \in {"failed", "pending"}
    <2>1. CASE \E s, t, pending, skipped : Inserted(r, s, t, pending, skipped)
        <3>1. PICK s, t, pending, skipped : Inserted(r, s, t, pending, skipped)
            BY <2>1
        <3>2. t = q /\ q \in Requests /\ Ended(q)
            BY <1>1, <3>1 DEF Inserted
        <3>3. item'[q] = item[q] /\ Ended(q)'
            BY <3>2, EndedIsFrozen, EndedStays
        <3>4. \A p \in Summaries : item'[r][p] # "absent" => item[q][p] \in {"failed", "pending"}
            BY <1>1, <3>1, <3>2 DEF Inserted, ItemsOf, Retryable, RetryableStatuses
        <3>. QED  BY <3>2, <3>3, <3>4
    <2>2. CASE /\ source'[r] = source[r]
               /\ \A p \in Summaries : item'[r][p] # "absent" => item[r][p] # "absent"
        <3>1. q \in Requests /\ q = source[r]
            BY <1>1, <2>2 DEF TypeOK, RowsOK
        <3>2. Ended(q) /\ \A p \in Summaries : item[r][p] # "absent" => item[q][p] \in {"failed", "pending"}
            BY <1>1, <3>1 DEF SourcesInv, RecoveryRetriesUnfinishedWork
        <3>3. item'[q] = item[q] /\ Ended(q)'
            BY <3>1, <3>2, EndedIsFrozen, EndedStays
        <3>. QED  BY <2>2, <3>1, <3>2, <3>3
    <2>. QED  BY <2>1, <2>2, SourceKept
<1>2. SourcesInv'
    BY <1>1 DEF SourcesInv, Ended
<1>3. RecoveryRetriesUnfinishedWork'
    <2>. SUFFICES ASSUME NEW r \in Requests, source'[r] # None
                  PROVE  /\ claimed_by'[source'[r]] # None
                         /\ \A p \in Summaries : item'[r][p] # "absent" =>
                               item'[source'[r]][p] \in {"failed", "pending"}
        BY DEF RecoveryRetriesUnfinishedWork
    <2>1. PICK q : q = source'[r] /\ q # None
        OBVIOUS
    <2>2. Ended(q)' /\ \A p \in Summaries : item'[r][p] # "absent" => item'[q][p] \in {"failed", "pending"}
        BY <1>1, <2>1
    <2>. QED  BY <2>1, <2>2 DEF Ended
<1>. QED  BY <1>2, <1>3

(* A request that nobody has claimed changes by a cancel or a claim only.     *)
LEMMA UnclaimedStep ==
    ASSUME QueueStep, NEW r \in Requests, claimed_by[r] = None, status[r] # "absent"
    PROVE  \/ status'[r] = status[r] /\ claimed_by'[r] = claimed_by[r]
           \/ status[r] \in {"queued", "cancelled"} /\ status'[r] = "cancelled"
                                                   /\ claimed_by'[r] = claimed_by[r]
           \/ status[r] = "queued" /\ claimed_by'[r] # None
BY ExportAssumption
DEF QueueStep, rows, Cancelled, Inserted, Claimed, Opened, Marked, Closed, LetGo, Continues,
    HoldsRightly, Others, Untouched

LEMMA ClaimsStay ==
    ASSUME QueueStep, NEW r \in Requests, claimed_by'[r] = None
    PROVE  claimed_by[r] = None
BY ExportAssumption
DEF QueueStep, rows, Cancelled, Inserted, Claimed, Opened, Marked, Closed, LetGo, Continues,
    Others, Untouched

(* What the operators have found after a step. *)
LEMMA OperatorsAfter ==
    ASSUME TypeOK, Next, NEW p \in Operators
    PROVE  \/ operator'[p] = operator[p]
           \/ operator'[p].pc \in {"idle", "create"}
           \/ /\ operator'[p].req \in Requests /\ UNCHANGED <<rows, worker>>
              /\ \/ /\ operator'[p].pc \in RecoveryActions
                    /\ status[operator'[p].req] = "failed"
                 \/ operator'[p].pc = "cancel" /\ status[operator'[p].req] = "queued"
<1>1. ASSUME NEW w \in Workers, WorkerStep(w) \/ Crash(w) PROVE operator' = operator
    BY <1>1 DEF WorkerStep, Claim, ClaimBy, StartRun, MarkItem, ItemSucceeds, ItemFails, CloseItem,
                Finalize, RequestFails, Crash
<1>2. ASSUME NEW o \in Operators, OperatorNext(o)
      PROVE  \/ operator'[p] = operator[p]
             \/ operator'[p].pc \in {"idle", "create"}
             \/ /\ operator'[p].req \in Requests /\ UNCHANGED <<rows, worker>>
                /\ \/ /\ operator'[p].pc \in RecoveryActions
                      /\ status[operator'[p].req] = "failed"
                   \/ operator'[p].pc = "cancel" /\ status[operator'[p].req] = "queued"
    <2>1. CASE Ends(o)
        BY <2>1 DEF Ends, IdleOperator, TypeOK, OperatorsOK
    <2>2. CASE \E s \in Scopes : BeginCreate(o, s)
        BY <2>2 DEF BeginCreate, Begins, TypeOK, OperatorsOK
    <2>3. CASE \E q \in Requests, a \in RecoveryActions : BeginRecovery(o, q, a)
        BY <2>3 DEF BeginRecovery, Begins, TypeOK, OperatorsOK
    <2>4. CASE \E r \in Requests : BeginCancel(o, r)
        BY <2>4 DEF BeginCancel, Begins, TypeOK, OperatorsOK
    <2>. QED  BY <1>2, <2>1, <2>2, <2>3, <2>4
              DEF OperatorNext, Create, Rerun, Recreate, Cancel, RollBack
<1>. QED  BY <1>1, <1>2 DEF Next

LEMMA OperatorsStep ==
    ASSUME TypeOK, LedgerInv, WorkInv, \A o \in Operators : OperatorInv(o), Next, QueueStep,
           NEW p \in Operators
    PROVE  OperatorInv(p)'
<1>. DEFINE q == operator[p].req
<1>1. CASE operator'[p] = operator[p]
    <2>1. CASE operator[p].pc \in RecoveryActions
        <3>1. q \in Requests /\ Ended(q)
            BY <2>1 DEF TypeOK, OperatorsOK, OperatorInv
        <3>2. operator[p].pc # "cancel"
            BY <2>1 DEF RecoveryActions
        <3>. QED  BY <1>1, <3>1, <3>2, EndedStays DEF OperatorInv, Ended
    <2>2. CASE operator[p].pc = "cancel"
        <3>1. q \in Requests /\ (claimed_by[q] = None => status[q] \in {"queued", "cancelled"})
            BY <2>2 DEF TypeOK, OperatorsOK, OperatorInv
        <3>2. claimed_by'[q] = None => status'[q] \in {"queued", "cancelled"}
            BY <3>1, UnclaimedStep, ClaimsStay
        <3>. QED  BY <1>1, <2>2, <3>2 DEF OperatorInv, RecoveryActions
    <2>. QED  BY <1>1, <2>1, <2>2 DEF OperatorInv
<1>2. CASE operator'[p].pc \in {"idle", "create"}
    BY <1>2 DEF OperatorInv, RecoveryActions
<1>3. ASSUME operator'[p].req \in Requests, UNCHANGED <<rows, worker>>,
             \/ /\ operator'[p].pc \in RecoveryActions
                /\ status[operator'[p].req] = "failed"
             \/ operator'[p].pc = "cancel" /\ status[operator'[p].req] = "queued"
      PROVE  OperatorInv(p)'
    BY <1>3 DEF OperatorInv, RecoveryActions, WorkInv, Ended, rows
<1>. QED  BY <1>1, <1>2, <1>3, OperatorsAfter

LEMMA QueueInit == Init => QueueInv
<1>. SUFFICES ASSUME Init PROVE QueueInv
    OBVIOUS
<1>1. WorkInv /\ SourcesInv /\ CompletedMeansDelivered /\ RunAgreesWithRequest
      /\ RecoveryRetriesUnfinishedWork
    BY ExportAssumption
    DEF Init, WorkInv, SourcesInv, CompletedMeansDelivered, RunAgreesWithRequest, IdleWorker,
        RecoveryRetriesUnfinishedWork, Requests
<1>2. \A o \in Operators : OperatorInv(o)
    BY DEF Init, OperatorInv, IdleOperator, RecoveryActions
<1>3. CountersMatchItems
    <2>1. ASSUME NEW r \in Requests PROVE count[r] = CountsOf(item[r])
        <3>1. \A S \in {{"completed", "failed", "skipped"}, {"completed"}, {"failed"}, {"skipped"}} :
                  {p \in Summaries : item[r][p] \in S} = {}
            BY DEF Init
        <3>2. \A S \in {{"completed", "failed", "skipped"}, {"completed"}, {"failed"}, {"skipped"}} :
                  Among(S, item[r]) = 0
            BY <3>1, FS_EmptySet DEF Among
        <3>. QED  BY <3>2 DEF Init, CountsOf, NoCounts
    <2>. QED  BY <2>1, CountersAreCounts
<1>. QED  BY <1>1, <1>2, <1>3 DEF QueueInv

LEMMA NextIsQueueStep ==
    ASSUME TypeOK, LedgerInv, QueueInv, [Next]_vars
    PROVE  QueueStep
<1>1. CASE UNCHANGED vars
    BY <1>1 DEF vars, rows, QueueStep
<1>. QED  BY <1>1, OperatorStep, WorkerSteps DEF QueueInv, Next

LEMMA QueueNext == TypeOK /\ LedgerInv /\ QueueInv /\ [Next]_vars => QueueInv'
<1>. SUFFICES ASSUME TypeOK, LedgerInv, QueueInv, [Next]_vars PROVE QueueInv'
    OBVIOUS
<1>1. QueueStep
    BY NextIsQueueStep
<1>2. WorkInv' /\ SourcesInv' /\ RunAgreesWithRequest' /\ RecoveryRetriesUnfinishedWork'
    BY <1>1, WorkStep, RunStep, RecoveryStep DEF QueueInv
<1>3. CountersMatchItems' /\ CompletedMeansDelivered'
    BY <1>1, CountersStep, CompletedStep DEF QueueInv
<1>4. ASSUME NEW p \in Operators PROVE OperatorInv(p)'
    <2>1. CASE Next
        BY <1>1, <2>1, OperatorsStep DEF QueueInv
    <2>2. CASE UNCHANGED vars
        BY <2>2 DEF vars, QueueInv, OperatorInv, Ended
    <2>. QED  BY <2>1, <2>2
<1>. QED  BY <1>2, <1>3, <1>4 DEF QueueInv

(* What every reachable state of the queue satisfies: requests in a hand,     *)
(* requests that have ended, and what operators have found, fit together.     *)
THEOREM QueueInvariant == Spec => []QueueInv
<1>. QED  BY TypeCorrect, LedgerInvariant, QueueInit, QueueNext, PTL DEF Spec

(* The four counters of a request count its items, failures included.         *)
THEOREM CountersAreRight == Spec => []CountersMatchItems
<1>1. QueueInv => CountersMatchItems
    BY DEF QueueInv
<1>. QED  BY QueueInvariant, <1>1, PTL

(* Each item of a request reported completed was staged or skipped.           *)
THEOREM CompletedIsDelivered == Spec => []CompletedMeansDelivered
<1>1. QueueInv => CompletedMeansDelivered
    BY DEF QueueInv
<1>. QED  BY QueueInvariant, <1>1, PTL

(* The pipeline run tells the outcome of its request, or a cancel hides it.   *)
THEOREM RunTellsOutcome == Spec => []RunAgreesWithRequest
<1>1. QueueInv => RunAgreesWithRequest
    BY DEF QueueInv
<1>. QED  BY QueueInvariant, <1>1, PTL

(* A recovery holds only what its source, claimed once and never again, has   *)
(* left failed or pending.                                                    *)
THEOREM RecoveryIsSound == Spec => []RecoveryRetriesUnfinishedWork
<1>1. QueueInv => RecoveryRetriesUnfinishedWork
    BY DEF QueueInv
<1>. QED  BY QueueInvariant, <1>1, PTL

(* A request that ended unclaimed keeps its status.                           *)
THEOREM UnclaimedStaysEnded == Spec => UnclaimedEndIsFinal
<1>1. TypeOK /\ LedgerInv /\ QueueInv /\ [Next]_vars =>
        [\A r \in Requests :
          status[r] \in Terminal /\ claimed_by[r] = None => status'[r] = status[r]]_vars
    BY NextIsQueueStep, UnclaimedStep DEF Terminal
<1>. QED  BY TypeCorrect, LedgerInvariant, QueueInvariant, <1>1, PTL DEF Spec, UnclaimedEndIsFinal

-------------------------------------------------------------------------------
(* One request on each scope, where creations of it do not overlap. *)

SingleScope ==
    \A r, t \in Requests :
        status[r] \in Active /\ status[t] \in Active /\ scope[r] = scope[t] => r = t

(* Nothing but an insert makes a request active, and workers insert nothing.  *)
LEMMA WorkersActivateNothing ==
    ASSUME TypeOK, LedgerInv, NEW w \in Workers, WorkerStep(w) \/ Crash(w)
    PROVE  /\ scope' = scope /\ operator' = operator
           /\ \A t \in Requests : /\ status'[t] \in Active => status[t] \in Active
                                  /\ status[t] # "absent" => status'[t] # "absent"
<1>1. worker[w].pc # "idle" => worker[w].req \in Requests
    BY Alone DEF LedgerInv
<1>2. CASE \E q \in Requests : Claim(w, q)
    BY <1>2 DEF Claim, ClaimBy, TypeOK, RowsOK, Active
<1>3. CASE StartRun(w) \/ (\E p \in Summaries : MarkItem(w, p)) \/ ItemSucceeds(w) \/ ItemFails(w)
           \/ Crash(w)
    BY <1>3 DEF StartRun, MarkItem, ItemSucceeds, ItemFails, CloseItem, Crash, rows
<1>4. CASE Finalize(w) \/ RequestFails(w)
    BY <1>1, <1>4 DEF Finalize, RequestFails, Outcome, TypeOK, RowsOK, Active
<1>. QED  BY <1>2, <1>3, <1>4 DEF WorkerStep

(* An operator inserts a request of the scope it has found free. *)
LEMMA InsertsOnFreeScope ==
    ASSUME TypeOK, NEW o \in Operators, FreeScope(o), NEW q, NEW a, NEW pending, NEW skipped,
           operator[o].pc \in {"create"} \cup RecoveryActions,
           Insert(operator[o].scope, q, a, pending, skipped), SingleScope
    PROVE  SingleScope'
<1>1. PICK s : s = operator[o].scope
    OBVIOUS
<1>2. PICK r \in Requests :
        /\ status' = [status EXCEPT ![r] = StatusAtInsert(pending)]
        /\ scope' = [scope EXCEPT ![r] = s]
    BY <1>1 DEF Insert
<1>3. scope'[r] = s /\ \A t \in Requests : t # r => status'[t] = status[t] /\ scope'[t] = scope[t]
    BY <1>2 DEF TypeOK, RowsOK
<1>4. \A t \in Requests : status[t] \in Active => scope[t] # s
    BY <1>1 DEF FreeScope, ActiveOn
<1>. QED  BY <1>3, <1>4 DEF SingleScope

(* Creations and recoveries that do not overlap: no two of one scope are open *)
(* at a time.  Cancels and workers may come in between as they like.          *)
Creating(o) == operator[o].pc \in {"create"} \cup RecoveryActions

Apart ==
    \A o, p \in Operators :
        o # p /\ Creating(o) /\ Creating(p) => operator[o].scope # operator[p].scope

(* An operator activates at most a request of the scope it is about.          *)
LEMMA OperatorsActivateTheirOwn ==
    ASSUME TypeOK, NEW o \in Operators, FreeScope(o), OperatorNext(o)
    PROVE  /\ \A p \in Operators : p # o => operator'[p] = operator[p]
           /\ \A t \in Requests : status[t] # "absent" =>
                 status'[t] # "absent" /\ scope'[t] = scope[t]
           /\ \A t \in Requests : status'[t] \in Active =>
                 \/ status[t] \in Active /\ scope'[t] = scope[t]
                 \/ Creating(o) /\ scope'[t] = operator[o].scope
<1>1. ASSUME NEW s, NEW q, NEW a, NEW pending, NEW skipped, Insert(s, q, a, pending, skipped)
      PROVE  \A t \in Requests :
                /\ status[t] # "absent" => status'[t] # "absent" /\ scope'[t] = scope[t]
                /\ status'[t] \in Active =>
                      (status[t] \in Active /\ scope'[t] = scope[t]) \/ scope'[t] = s
    <2>1. PICK r \in Requests :
            /\ IsNextId(r)
            /\ status' = [status EXCEPT ![r] = StatusAtInsert(pending)]
            /\ scope' = [scope EXCEPT ![r] = s]
        BY <1>1 DEF Insert
    <2>2. scope'[r] = s
          /\ \A t \in Requests : t # r => status'[t] = status[t] /\ scope'[t] = scope[t]
        BY <2>1 DEF TypeOK, RowsOK
    <2>3. status[r] = "absent"
        BY <2>1 DEF IsNextId
    <2>. QED  BY <2>2, <2>3
<1>2. CASE Create(o)
    BY <1>1, <1>2 DEF Create, Ends, Creating, TypeOK, OperatorsOK
<1>3. CASE Rerun(o) \/ Recreate(o)
    <2>1. operator[o].pc \in RecoveryActions /\ operator[o].pc # "create"
        BY <1>3 DEF Rerun, Recreate, RecoveryActions
    <2>2. operator[o].scope = scope[operator[o].req] /\ Creating(o)
        BY <2>1 DEF FreeScope, Creating
    <2>3. \E q, a, pending, skipped : Insert(operator[o].scope, q, a, pending, skipped)
        BY <1>3, <2>2 DEF Rerun, Recreate, InsertRecovery
    <2>4. Ends(o)
        BY <1>3 DEF Rerun, Recreate, InsertRecovery
    <2>. QED  BY <1>1, <2>2, <2>3, <2>4 DEF Ends, TypeOK, OperatorsOK
<1>4. CASE Cancel(o)
    BY <1>4 DEF Cancel, Ends, TypeOK, RowsOK, OperatorsOK, Active
<1>5. CASE UNCHANGED <<rows, worker>>
    BY <1>5 DEF rows, OperatorNext, BeginCreate, BeginRecovery, BeginCancel, Begins, Create,
           Rerun, Recreate, InsertRecovery, Cancel, RollBack, Ends, TypeOK, OperatorsOK
<1>. QED  BY <1>2, <1>3, <1>4, <1>5
          DEF OperatorNext, BeginCreate, BeginRecovery, BeginCancel, Begins, RollBack

LEMMA OthersStayFree ==
    ASSUME TypeOK, Apart, NEW o \in Operators, FreeScope(o), OperatorNext(o),
           NEW p \in Operators, p # o, FreeScope(p)
    PROVE  FreeScope(p)'
<1>1. /\ operator'[p] = operator[p]
      /\ \A t \in Requests : status[t] # "absent" =>
            status'[t] # "absent" /\ scope'[t] = scope[t]
      /\ \A t \in Requests : status'[t] \in Active =>
            \/ status[t] \in Active /\ scope'[t] = scope[t]
            \/ Creating(o) /\ scope'[t] = operator[o].scope
    BY OperatorsActivateTheirOwn
<1>2. ASSUME Creating(p) PROVE ActiveOn(operator[p].scope)' = {}
    BY <1>1, <1>2 DEF Apart, FreeScope, Creating, ActiveOn
<1>3. operator[p].pc \in RecoveryActions => operator[p].req \in Requests
    BY DEF TypeOK, OperatorsOK
<1>. QED  BY <1>1, <1>2, <1>3 DEF FreeScope, Creating

LEMMA ScopeStep ==
    ASSUME Apart,
           TypeOK, LedgerInv, SingleScope, \A o \in Operators : FreeScope(o), [Next]_vars
    PROVE  SingleScope' /\ \A o \in Operators : FreeScope(o)'
<1>1. CASE UNCHANGED vars
    BY <1>1 DEF vars, SingleScope, FreeScope, ActiveOn
<1>2. ASSUME NEW w \in Workers, WorkerStep(w) \/ Crash(w)
      PROVE  SingleScope' /\ \A o \in Operators : FreeScope(o)'
    <2>1. /\ scope' = scope /\ operator' = operator
          /\ \A t \in Requests : /\ status'[t] \in Active => status[t] \in Active
                                 /\ status[t] # "absent" => status'[t] # "absent"
        BY <1>2, WorkersActivateNothing
    <2>2. SingleScope'
        BY <2>1 DEF SingleScope
    <2>3. ASSUME NEW o \in Operators, operator[o].pc \in {"create"} \cup RecoveryActions
          PROVE  ActiveOn(operator[o].scope)' = {}
        BY <2>1, <2>3 DEF FreeScope, ActiveOn
    <2>4. \A o \in Operators : operator[o].pc \in RecoveryActions => operator[o].req \in Requests
        BY DEF TypeOK, OperatorsOK
    <2>. QED  BY <2>1, <2>2, <2>3, <2>4 DEF FreeScope
<1>3. ASSUME NEW o \in Operators, OperatorNext(o)
      PROVE  SingleScope' /\ \A p \in Operators : FreeScope(p)'
    <2>1. ASSUME FreeScope(o)' PROVE \A p \in Operators : FreeScope(p)'
        BY <1>3, <2>1, OthersStayFree
    <2>2. CASE Ends(o)
        <3>1. FreeScope(o)'
            BY <2>2 DEF Ends, IdleOperator, FreeScope, TypeOK, OperatorsOK, RecoveryActions
        <3>2. SingleScope'
            <4>1. ASSUME Create(o) PROVE SingleScope'
                BY <4>1, InsertsOnFreeScope DEF Create
            <4>2. ASSUME Rerun(o) \/ Recreate(o) PROVE SingleScope'
                <5>1. operator[o].pc \in RecoveryActions /\ operator[o].pc # "create"
                    BY <4>2 DEF Rerun, Recreate, RecoveryActions
                <5>2. operator[o].scope = scope[operator[o].req]
                    BY <5>1 DEF FreeScope
                <5>. QED  BY <4>2, <5>1, <5>2, InsertsOnFreeScope DEF Rerun, Recreate, InsertRecovery
            <4>3. ASSUME Cancel(o) PROVE SingleScope'
                BY <4>3 DEF Cancel, SingleScope, TypeOK, RowsOK, OperatorsOK, Active
            <4>4. ASSUME UNCHANGED <<rows, worker>> PROVE SingleScope'
                BY <4>4 DEF rows, SingleScope
            <4>. QED  BY <1>3, <4>1, <4>2, <4>3, <4>4
                      DEF OperatorNext, BeginCreate, BeginRecovery, BeginCancel, Begins, RollBack
        <3>. QED  BY <2>1, <3>1, <3>2
    <2>3. CASE \E s \in Scopes : BeginCreate(o, s)
        <3>1. PICK s \in Scopes : BeginCreate(o, s)
            BY <2>3
        <3>2. operator'[o].pc = "create" /\ operator'[o].scope = s /\ ActiveOn(s) = {}
              /\ UNCHANGED <<rows, worker>>
            BY <3>1 DEF BeginCreate, Begins, TypeOK, OperatorsOK
        <3>3. ActiveOn(s)' = {}
            BY <3>2 DEF ActiveOn, rows
        <3>4. SingleScope' /\ FreeScope(o)'
            BY <3>2, <3>3 DEF SingleScope, rows, FreeScope
        <3>. QED  BY <2>1, <3>4
    <2>4. CASE \E q \in Requests, a \in RecoveryActions : BeginRecovery(o, q, a)
        <3>1. PICK q \in Requests, a \in RecoveryActions : BeginRecovery(o, q, a)
            BY <2>4
        <3>2. operator'[o].pc = a /\ operator'[o].scope = scope[q] /\ operator'[o].req = q
              /\ ActiveOn(scope[q]) = {} /\ status[q] = "failed" /\ UNCHANGED <<rows, worker>>
            BY <3>1 DEF BeginRecovery, Begins, TypeOK, OperatorsOK
        <3>3. ActiveOn(scope[q])' = {}
            BY <3>2 DEF ActiveOn, rows
        <3>4. SingleScope' /\ FreeScope(o)'
            BY <3>2, <3>3 DEF SingleScope, rows, FreeScope
        <3>. QED  BY <2>1, <3>4
    <2>5. CASE \E r \in Requests : BeginCancel(o, r)
        <3>1. operator'[o].pc = "cancel" /\ UNCHANGED <<rows, worker>>
            BY <2>5 DEF BeginCancel, Begins, TypeOK, OperatorsOK
        <3>2. SingleScope' /\ FreeScope(o)'
            BY <3>1 DEF SingleScope, rows, FreeScope, RecoveryActions
        <3>. QED  BY <2>1, <3>2
    <2>. QED  BY <1>3, <2>2, <2>3, <2>4, <2>5 DEF OperatorNext, Create, Rerun, Recreate, Cancel, RollBack
<1>. QED  BY <1>1, <1>2, <1>3 DEF Next

(* Where creations of one scope do not overlap, no scope has two requests      *)
(* queued or processing: a late cancel or a dying worker only ever ends one.   *)
THEOREM ScopesStaySingle == Spec /\ []Apart => []OneActivePerScope
<1>1. Init => SingleScope /\ \A o \in Operators : FreeScope(o)
    BY DEF Init, SingleScope, Active, FreeScope, IdleOperator, RecoveryActions
<1>2. TypeOK /\ LedgerInv /\ Apart
        /\ (SingleScope /\ \A o \in Operators : FreeScope(o)) /\ [Next]_vars
        => (SingleScope /\ \A o \in Operators : FreeScope(o))'
    BY ScopeStep
<1>3. SingleScope => OneActivePerScope
    <2>. SUFFICES ASSUME SingleScope, NEW s \in Scopes PROVE Cardinality(ActiveOn(s)) <= 1
        BY DEF OneActivePerScope
    <2>1. CASE ActiveOn(s) = {}
        BY <2>1, FS_EmptySet
    <2>2. CASE ActiveOn(s) # {}
        <3>1. PICK r \in Requests : ActiveOn(s) = {r}
            BY <2>2 DEF ActiveOn, SingleScope
        <3>2. Cardinality({r}) = 1
            BY FS_Singleton
        <3>. QED  BY <3>1, <3>2
    <2>. QED  BY <2>1, <2>2
<1>. QED  BY TypeCorrect, LedgerInvariant, <1>1, <1>2, <1>3, PTL DEF Spec

===============================================================================
