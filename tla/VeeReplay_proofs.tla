---------------------------- MODULE VeeReplay_proofs ----------------------------
(***************************************************************************)
(* Proofs about VeeReplay, for every number of requests, workers,          *)
(* operators, scopes and measurements.                                     *)
(***************************************************************************)
EXTENDS VeeReplay, FiniteSetTheorems, TLAPS

LEMMA InitType == Init => TypeOK
<1>1. Init => RowsOK
    BY DEF Init, RowsOK, Counts, NoCounts, ItemStatuses
<1>2. Init => WorkersOK
    BY DEF Init, WorkersOK, IdleWorker
<1>3. Init => OperatorsOK
    BY DEF Init, OperatorsOK, IdleOperator
<1>. QED
    BY <1>1, <1>2, <1>3 DEF TypeOK

(* What a transaction reads before it writes leaves rows and workers alone. *)
LEMMA BeginsType ==
    ASSUME TypeOK, NEW o \in Operators, NEW pc \in {"create", "cancel"},
           NEW s \in Scopes \cup {None}, NEW r \in Requests \cup {None},
           NEW T \in SUBSET Measurements,
           pc = "create" => s # None,
           pc = "cancel" => r # None,
           Begins(o, [pc |-> pc, scope |-> s, req |-> r, targets |-> T])
    PROVE  TypeOK'
<1>1. RowsOK' /\ WorkersOK'
    BY DEF Begins, rows, TypeOK, RowsOK, WorkersOK
<1>2. OperatorsOK'
    BY DEF Begins, TypeOK, OperatorsOK
<1>. QED
    BY <1>1, <1>2 DEF TypeOK

LEMMA EndsType ==
    ASSUME OperatorsOK, NEW o \in Operators, Ends(o)
    PROVE  OperatorsOK'
BY DEF Ends, IdleOperator, OperatorsOK

(* Operators keep everything well formed. *)
LEMMA OperatorType ==
    ASSUME TypeOK, NEW o \in Operators, OperatorNext(o)
    PROVE  TypeOK'
<1>1. CASE \E s \in Scopes : BeginCreate(o, s)
    <2>1. PICK s \in Scopes : BeginCreate(o, s)
        BY <1>1
    <2>2. PICK T \in TargetSets(s) :
             Begins(o, [pc |-> "create", scope |-> s, req |-> None, targets |-> T])
        BY <2>1 DEF BeginCreate
    <2>3. T \in SUBSET Measurements /\ s # None
        BY ReplayAssumption DEF TargetSets
    <2>. QED
        BY <2>2, <2>3, BeginsType
<1>2. CASE \E r \in Requests : BeginCancel(o, r)
    <2>1. PICK r \in Requests : BeginCancel(o, r)
        BY <1>2
    <2>2. r # None
        BY ReplayAssumption DEF Requests
    <2>. QED
        BY <2>1, <2>2, BeginsType DEF BeginCancel
<1>3. CASE Create(o)
    <2>1. PICK r \in Requests :
            /\ status' = [status EXCEPT ![r] = "queued"]
            /\ scope' = [scope EXCEPT ![r] = operator[o].scope]
            /\ item' = [item EXCEPT ![r] =
                           [m \in Measurements |->
                               IF m \in operator[o].targets THEN "pending" ELSE "absent"]]
        BY <1>3 DEF Create
    <2>2. operator[o].scope \in Scopes \cup {None}
        BY DEF TypeOK, OperatorsOK
    <2>3. item' \in [Requests -> [Measurements -> ItemStatuses]]
        BY <2>1 DEF TypeOK, RowsOK, ItemStatuses
    <2>4. RowsOK' /\ WorkersOK'
        BY <1>3, <2>1, <2>2, <2>3 DEF Create, TypeOK, RowsOK, WorkersOK, Active
    <2>. QED
        BY <1>3, <2>4, EndsType DEF Create, TypeOK
<1>4. CASE Cancel(o)
    <2>1. RowsOK' /\ WorkersOK'
        BY <1>4 DEF Cancel, TypeOK, RowsOK, WorkersOK, Terminal
    <2>. QED
        BY <1>4, <2>1, EndsType DEF Cancel, TypeOK
<1>5. CASE RollBack(o)
    <2>1. RowsOK' /\ WorkersOK'
        BY <1>5 DEF RollBack, rows, TypeOK, RowsOK, WorkersOK
    <2>. QED
        BY <1>5, <2>1, EndsType DEF RollBack, TypeOK
<1>. QED
    BY <1>1, <1>2, <1>3, <1>4, <1>5 DEF OperatorNext

(* Counting one more item. *)
LEMMA CountType ==
    ASSUME NEW c \in Counts, NEW code
    PROVE  /\ CountResult(c, code) \in Counts
           /\ [c EXCEPT !.processed = @ + 1, !.failed = @ + 1] \in Counts
<1>1. /\ c.processed + 1 \in Nat /\ c.succeeded + 1 \in Nat /\ c.failed + 1 \in Nat
      /\ c.reopened \in Nat /\ c.cleared \in Nat
    BY DEF Counts
<1>2. \A n \in Nat : \A b \in BOOLEAN : n + One(b) \in Nat
    BY DEF One
<1>3. /\ c.reopened + One(code = "exception_reopened") \in Nat
      /\ c.cleared + One(code = "exception_cleared") \in Nat
    BY <1>1, <1>2
<1>. QED
    BY <1>1, <1>3 DEF Counts, CountResult

(* Workers keep everything well formed. *)
LEMMA WorkerType ==
    ASSUME TypeOK, NEW w \in Workers, WorkerStep(w) \/ Crash(w)
    PROVE  TypeOK'
<1>. DEFINE r == worker[w].req
<1>. USE DEF TypeOK
<1>1. worker[w].pc # "idle" => r \in Requests
    BY DEF WorkersOK
<1>2. CASE \E q \in Requests : Claim(w, q)
    <2>1. PICK q \in Requests : Claim(w, q)
        BY <1>2
    <2>2. RowsOK' /\ OperatorsOK'
        BY <2>1 DEF Claim, RowsOK, OperatorsOK, Active
    <2>3. WorkersOK'
        BY <2>1, ReplayAssumption DEF Claim, WorkersOK, Requests
    <2>. QED
        BY <2>2, <2>3
<1>3. CASE StartRun(w)
    <2>1. RowsOK' /\ OperatorsOK'
        BY <1>1, <1>3 DEF StartRun, RowsOK, OperatorsOK
    <2>2. WorkersOK'
        BY <1>3 DEF StartRun, WorkersOK, PendingItems
    <2>. QED
        BY <2>1, <2>2
<1>4. CASE \E m \in Measurements : MarkItem(w, m)
    <2>1. PICK m \in Measurements : MarkItem(w, m)
        BY <1>4
    <2>2. RowsOK' /\ OperatorsOK'
        BY <1>1, <2>1 DEF MarkItem, RowsOK, OperatorsOK, ItemStatuses
    <2>3. WorkersOK'
        BY <2>1, ReplayAssumption DEF MarkItem, WorkersOK
    <2>. QED
        BY <2>2, <2>3
<1>5. ASSUME NEW outcome \in {"completed", "failed"}, NEW code \in ResultCodes,
             NEW c \in Counts, CloseItem(w, outcome, code, c)
      PROVE  TypeOK'
    <2>. DEFINE m == worker[w].current
    <2>1. r \in Requests /\ m \in Measurements
        BY <1>1, <1>5 DEF CloseItem, WorkersOK
    <2>2. /\ item' = [item EXCEPT ![r][m] = outcome]
          /\ result' = [result EXCEPT ![r][m] = code]
          /\ count' = [count EXCEPT ![r] = c]
        BY <1>5 DEF CloseItem
    <2>3. /\ item' \in [Requests -> [Measurements -> ItemStatuses]]
          /\ result' \in [Requests -> [Measurements -> ResultCodes \cup {None}]]
        BY <2>1, <2>2 DEF RowsOK, ItemStatuses
    <2>4. RowsOK' /\ OperatorsOK'
        BY <1>5, <2>1, <2>2, <2>3 DEF CloseItem, RowsOK, OperatorsOK
    <2>5. WorkersOK'
        BY <1>5 DEF CloseItem, WorkersOK
    <2>. QED
        BY <2>4, <2>5
<1>6. CASE ItemSucceeds(w)
    <2>1. PICK code \in SuccessCodes :
             CloseItem(w, "completed", code, CountResult(count[r], code))
        BY <1>6 DEF ItemSucceeds
    <2>2. count[r] \in Counts
        BY <1>1, <2>1 DEF CloseItem, RowsOK
    <2>3. CountResult(count[r], code) \in Counts /\ code \in ResultCodes
        BY <2>2, CountType DEF ResultCodes
    <2>. QED
        BY <1>5, <2>1, <2>3
<1>7. CASE ItemFails(w)
    <2>1. count[r] \in Counts
        BY <1>1, <1>7 DEF ItemFails, CloseItem, RowsOK
    <2>2. [count[r] EXCEPT !.processed = @ + 1, !.failed = @ + 1] \in Counts
        BY <2>1, CountType
    <2>. QED
        BY <1>5, <1>7, <2>2 DEF ItemFails, ResultCodes
<1>8. ASSUME worker' = [worker EXCEPT ![w] = IdleWorker] PROVE WorkersOK'
    BY <1>8 DEF WorkersOK, IdleWorker
<1>9. CASE Finalize(w)
    <2>1. Outcome(r) \in {"completed", "failed"}
        BY DEF Outcome
    <2>2. RowsOK' /\ OperatorsOK'
        BY <1>1, <1>9, <2>1 DEF Finalize, RowsOK, OperatorsOK, Terminal
    <2>. QED
        BY <1>8, <1>9, <2>2 DEF Finalize
<1>10. CASE RequestFails(w)
    <2>1. RowsOK' /\ OperatorsOK'
        BY <1>1, <1>10 DEF RequestFails, RowsOK, OperatorsOK, Terminal
    <2>. QED
        BY <1>8, <1>10, <2>1 DEF RequestFails
<1>11. CASE Crash(w)
    <2>1. RowsOK' /\ OperatorsOK'
        BY <1>11 DEF Crash, rows, RowsOK, OperatorsOK
    <2>. QED
        BY <1>8, <1>11, <2>1 DEF Crash
<1>. QED
    BY <1>2, <1>3, <1>4, <1>6, <1>7, <1>9, <1>10, <1>11 DEF WorkerStep

(* The rows, workers and operators are well formed in every reachable state. *)
THEOREM TypeCorrect == Spec => []TypeOK
<1>1. TypeOK /\ [Next]_vars => TypeOK'
    <2>1. CASE UNCHANGED vars
        BY <2>1 DEF vars, rows, TypeOK, RowsOK, WorkersOK, OperatorsOK
    <2>. QED
        BY <2>1, OperatorType, WorkerType DEF Next
<1>. QED
    BY InitType, <1>1, PTL DEF Spec

-------------------------------------------------------------------------------
(* The ledger invariant. *)

LEMMA InitLedgerInv == Init => LedgerInv
BY ReplayAssumption
DEF Init, LedgerInv, RequestsInv, HoldersInv, HoldsRightly, IdleWorker, Requests

(* An insert fills a row that has not been started. *)
LEMMA CreateLedgerInv ==
    ASSUME TypeOK, LedgerInv, NEW o \in Operators, Create(o)
    PROVE  LedgerInv'
<1>1. PICK r \in Requests :
        /\ status[r] = "absent"
        /\ status' = [status EXCEPT ![r] = "queued"]
        /\ item' = [item EXCEPT ![r] =
                       [m \in Measurements |->
                           IF m \in operator[o].targets THEN "pending" ELSE "absent"]]
        /\ started' = started /\ worker' = worker
    BY DEF Create, IsNextId
<1>2. ~ started[r]
    BY <1>1 DEF LedgerInv, RequestsInv
<1>3. /\ status'[r] = "queued"
      /\ \A m \in Measurements : item'[r][m] \in {"absent", "pending"}
    BY <1>1 DEF TypeOK, RowsOK
<1>4. \A t \in Requests : t # r => item'[t] = item[t] /\ status'[t] = status[t]
    BY <1>1 DEF TypeOK, RowsOK
<1>5. RequestsInv'
    BY <1>1, <1>2, <1>3, <1>4 DEF LedgerInv, RequestsInv
<1>6. \A w \in Workers : worker[w].req # r
    BY <1>2 DEF LedgerInv, HoldersInv, HoldsRightly
<1>7. HoldersInv'
    BY <1>1, <1>4, <1>6 DEF LedgerInv, HoldersInv, HoldsRightly
<1>. QED
    BY <1>5, <1>7 DEF LedgerInv

LEMMA OperatorLedgerInv ==
    ASSUME TypeOK, LedgerInv, NEW o \in Operators, OperatorNext(o)
    PROVE  LedgerInv'
<1>1. CASE UNCHANGED <<rows, worker>>
    BY <1>1 DEF rows, LedgerInv, RequestsInv, HoldersInv, HoldsRightly
<1>2. CASE (\E s \in Scopes : BeginCreate(o, s)) \/ (\E r \in Requests : BeginCancel(o, r))
    BY <1>1, <1>2 DEF BeginCreate, BeginCancel, Begins
<1>3. CASE Cancel(o)
    <2>1. /\ status' = [status EXCEPT ![operator[o].req] = "cancelled"]
          /\ item' = item /\ started' = started /\ worker' = worker
        BY <1>3 DEF Cancel
    <2>2. RequestsInv'
        BY <2>1 DEF LedgerInv, RequestsInv, TypeOK, RowsOK
    <2>3. HoldersInv'
        BY <2>1 DEF LedgerInv, HoldersInv, HoldsRightly
    <2>. QED
        BY <2>2, <2>3 DEF LedgerInv
<1>4. CASE RollBack(o)
    BY <1>1, <1>4 DEF RollBack
<1>. QED
    BY <1>2, <1>3, <1>4, CreateLedgerInv DEF OperatorNext

(* A worker at work holds a request, and it is the only one that does. *)
LEMMA Alone ==
    ASSUME TypeOK, HoldersInv, NEW w \in Workers, worker[w].pc # "idle"
    PROVE  /\ worker[w].req \in Requests
           /\ started[worker[w].req]
           /\ HoldsRightly(w, worker[w].req)
           /\ \A v \in Workers : v # w => worker[v].req # worker[w].req
BY DEF TypeOK, WorkersOK, HoldersInv, HoldsRightly

(* Letting go of a request keeps the invariant, whatever terminal status *)
(* the request is given.                                                 *)
LEMMA LetGoLedgerInv ==
    ASSUME TypeOK, LedgerInv, NEW w \in Workers, worker[w].pc # "idle",
           worker' = [worker EXCEPT ![w] = IdleWorker],
           \/ status' = status
           \/ \E t \in Terminal : status' = [status EXCEPT ![worker[w].req] = t],
           UNCHANGED <<started, item>>
    PROVE  LedgerInv'
<1>1. RequestsInv'
    BY DEF LedgerInv, RequestsInv, TypeOK, RowsOK, Terminal
<1>2. HoldersInv'
    BY ReplayAssumption
    DEF LedgerInv, HoldersInv, HoldsRightly, IdleWorker, TypeOK, WorkersOK, Requests
<1>. QED
    BY <1>1, <1>2 DEF LedgerInv

(* Of a request a worker takes it is the only holder. *)
LEMMA ClaimLedgerInv ==
    ASSUME TypeOK, LedgerInv, NEW w \in Workers, NEW q \in Requests, Claim(w, q)
    PROVE  LedgerInv'
<1>1. ~ started[q] /\ \A m \in Measurements : item[q][m] \in {"absent", "pending"}
    BY DEF Claim, IsClaimable, LedgerInv, RequestsInv
<1>2. \A v \in Workers : worker[v].req # q
    BY <1>1 DEF LedgerInv, HoldersInv, HoldsRightly
<1>3. /\ status'[q] = "processing" /\ started'[q] /\ item' = item
      /\ \A t \in Requests : t # q => status'[t] = status[t] /\ started'[t] = started[t]
    BY DEF Claim, TypeOK, RowsOK
<1>4. RequestsInv'
    BY <1>3 DEF LedgerInv, RequestsInv
<1>5. /\ worker'[w].pc = "claimed" /\ worker'[w].req = q
      /\ \A v \in Workers : v # w => worker'[v] = worker[v]
    BY DEF Claim, TypeOK, WorkersOK
<1>6. HoldersInv'
    BY <1>1, <1>2, <1>3, <1>5 DEF LedgerInv, HoldersInv, HoldsRightly
<1>. QED
    BY <1>4, <1>6 DEF LedgerInv

(* A worker that goes on with its request, and changes at most one item of it. *)
LEMMA GoesOnLedgerInv ==
    ASSUME TypeOK, LedgerInv, NEW w \in Workers, NEW r \in Requests,
           worker[w].req = r,
           worker'[w].req = r,
           \A v \in Workers : v # w => worker'[v] = worker[v],
           \A t \in Requests : t # r => item'[t] = item[t],
           UNCHANGED <<status, started>>,
           started[r],
           HoldsRightly(w, r)'
    PROVE  LedgerInv'
<1>1. RequestsInv'
    <2>1. ASSUME NEW t \in Requests
          PROVE  /\ status'[t] \in {"absent", "queued"} => ~ started'[t]
                 /\ status'[t] = "absent" => \A m \in Measurements : item'[t][m] = "absent"
                 /\ ~ started'[t] => \A m \in Measurements : item'[t][m] \in {"absent", "pending"}
        <3>1. CASE t = r
            BY <3>1 DEF LedgerInv, RequestsInv
        <3>2. CASE t # r
            BY <3>2 DEF LedgerInv, RequestsInv
        <3>. QED
            BY <3>1, <3>2
    <2>. QED
        BY <2>1 DEF RequestsInv
<1>2. ASSUME NEW v \in Workers, v # w, NEW t \in Requests, worker'[v].req = t
      PROVE  HoldsRightly(v, t)'
    <2>1. worker[v].req = t /\ t # r
        BY <1>2, ReplayAssumption DEF LedgerInv, HoldersInv, Requests
    <2>2. HoldsRightly(v, t) /\ item'[t] = item[t] /\ worker'[v] = worker[v]
        BY <1>2, <2>1 DEF LedgerInv, HoldersInv
    <2>. QED
        BY <2>2 DEF HoldsRightly
<1>3. ASSUME NEW u \in Workers, NEW v \in Workers,
             worker'[u].req # None, worker'[u].req = worker'[v].req
      PROVE  u = v
    <2>1. worker'[u].req = worker[u].req /\ worker'[v].req = worker[v].req
        OBVIOUS
    <2>. QED
        BY <1>3, <2>1 DEF LedgerInv, HoldersInv
<1>4. HoldersInv'
    BY <1>2, <1>3 DEF HoldersInv
<1>. QED
    BY <1>1, <1>4 DEF LedgerInv

LEMMA WorkerLedgerInv ==
    ASSUME TypeOK, LedgerInv, NEW w \in Workers, WorkerStep(w) \/ Crash(w)
    PROVE  LedgerInv'
<1>. DEFINE r == worker[w].req
<1>1. CASE \E q \in Requests : Claim(w, q)
    BY <1>1, ClaimLedgerInv
<1>2. worker[w].pc # "idle" =>
        /\ r \in Requests /\ started[r] /\ HoldsRightly(w, r)
        /\ \A v \in Workers : v # w => worker[v].req # r
    BY Alone DEF LedgerInv
<1>3. CASE StartRun(w)
    <2>0. PICK q \in Requests :
             /\ q = r /\ started[q] /\ HoldsRightly(w, q)
             /\ \A v \in Workers : v # w => worker[v].req # q
        BY <1>2, <1>3 DEF StartRun
    <2>1. /\ worker[w].pc = "claimed" /\ item' = item
          /\ worker'[w].pc = "items" /\ worker'[w].todo = PendingItems(q)
          /\ worker'[w].req = q
          /\ \A v \in Workers : v # w => worker'[v] = worker[v]
        BY <1>3, <2>0 DEF StartRun, TypeOK, WorkersOK
    <2>2. HoldsRightly(w, q)'
        BY <1>3, <2>0, <2>1 DEF StartRun, HoldsRightly, PendingItems
    <2>. QED
        BY <1>3, <2>0, <2>1, <2>2, GoesOnLedgerInv DEF StartRun
<1>4. CASE \E m \in Measurements : MarkItem(w, m)
    <2>1. PICK m \in Measurements : MarkItem(w, m)
        BY <1>4
    <2>0. PICK q \in Requests :
             /\ q = r /\ started[q] /\ HoldsRightly(w, q)
             /\ \A v \in Workers : v # w => worker[v].req # q
        BY <1>2, <2>1 DEF MarkItem
    <2>2. /\ worker[w].pc = "items" /\ worker'[w].pc = "item"
          /\ worker'[w].current = m /\ worker'[w].req = q
          /\ worker'[w].todo = worker[w].todo \ {m}
          /\ worker[w].todo \in SUBSET Measurements
          /\ \A v \in Workers : v # w => worker'[v] = worker[v]
        BY <2>0, <2>1 DEF MarkItem, TypeOK, WorkersOK
    <2>3. /\ item'[q][m] = "processing"
          /\ \A u \in Measurements : u # m => item'[q][u] = item[q][u]
          /\ \A t \in Requests : t # q => item'[t] = item[t]
          /\ started' = started
        BY <2>0, <2>1, <2>2 DEF MarkItem, TypeOK, RowsOK
    <2>4. HoldsRightly(w, q)'
        <3>1. /\ \A u \in Measurements : item[q][u] # "processing"
              /\ \A u \in worker[w].todo : item[q][u] = "pending"
            BY <2>0, <2>2 DEF HoldsRightly
        <3>2. /\ \A u \in Measurements : item'[q][u] = "processing" <=> u = m
              /\ \A u \in worker'[w].todo : item'[q][u] = "pending"
            BY <2>2, <2>3, <3>1
        <3>. QED
            BY <2>0, <2>2, <2>3, <3>2 DEF HoldsRightly
    <2>. QED
        BY <2>0, <2>1, <2>2, <2>3, <2>4, GoesOnLedgerInv DEF MarkItem
<1>5. ASSUME NEW outcome \in {"completed", "failed"}, NEW code, NEW c,
             CloseItem(w, outcome, code, c)
      PROVE  LedgerInv'
    <2>. DEFINE m == worker[w].current
    <2>0. PICK q \in Requests :
             /\ q = r /\ started[q] /\ HoldsRightly(w, q)
             /\ \A v \in Workers : v # w => worker[v].req # q
        BY <1>2, <1>5 DEF CloseItem
    <2>1. /\ worker[w].pc = "item" /\ worker'[w].pc = "items" /\ worker'[w].req = q
          /\ worker'[w].todo = worker[w].todo /\ m \in Measurements
          /\ worker[w].todo \in SUBSET Measurements
          /\ \A v \in Workers : v # w => worker'[v] = worker[v]
        BY <1>5, <2>0 DEF CloseItem, TypeOK, WorkersOK
    <2>2. /\ item'[q][m] = outcome
          /\ \A u \in Measurements : u # m => item'[q][u] = item[q][u]
          /\ \A t \in Requests : t # q => item'[t] = item[t]
          /\ started' = started
        BY <1>5, <2>0, <2>1 DEF CloseItem, TypeOK, RowsOK
    <2>3. /\ \A u \in Measurements : item[q][u] = "processing" <=> u = m
          /\ \A u \in worker[w].todo : item[q][u] = "pending"
        BY <2>0, <2>1 DEF HoldsRightly
    <2>4. HoldsRightly(w, q)'
        <3>1. /\ \A u \in Measurements : item'[q][u] # "processing"
              /\ \A u \in worker'[w].todo : item'[q][u] = "pending"
            BY <2>1, <2>2, <2>3
        <3>. QED
            BY <2>0, <2>1, <2>2, <3>1 DEF HoldsRightly
    <2>. QED
        BY <1>5, <2>0, <2>1, <2>2, <2>4, GoesOnLedgerInv DEF CloseItem
<1>6. CASE ItemSucceeds(w) \/ ItemFails(w)
    BY <1>5, <1>6 DEF ItemSucceeds, ItemFails
<1>7. CASE Finalize(w)
    <2>1. Outcome(r) \in Terminal
        BY DEF Outcome, Terminal
    <2>. QED
        BY <1>7, <2>1, LetGoLedgerInv DEF Finalize
<1>8. CASE RequestFails(w)
    BY <1>8, LetGoLedgerInv DEF RequestFails, Terminal
<1>9. CASE Crash(w)
    BY <1>9, LetGoLedgerInv DEF Crash, rows
<1>. QED
    BY <1>1, <1>3, <1>4, <1>6, <1>7, <1>8, <1>9 DEF WorkerStep

(* In every reachable state a request is untouched until it is started, and *)
(* one worker at most is at work on it.                                     *)
THEOREM LedgerInvariant == Spec => []LedgerInv
<1>1. TypeOK /\ LedgerInv /\ [Next]_vars => LedgerInv'
    <2>1. CASE UNCHANGED vars
        BY <2>1 DEF vars, rows, LedgerInv, RequestsInv, HoldersInv, HoldsRightly
    <2>. QED
        BY <2>1, OperatorLedgerInv, WorkerLedgerInv DEF Next
<1>. QED
    BY TypeCorrect, InitLedgerInv, <1>1, PTL DEF Spec

-------------------------------------------------------------------------------
(* The queue implements the work ledger. *)

LEMMA EntryOfStatus ==
    /\ EntryOf["absent"] = "absent"
    /\ EntryOf["pending"] = "open"
    /\ EntryOf["processing"] = "taken"
    /\ EntryOf["completed"] = "done"
    /\ EntryOf["failed"] = "failed"
BY DEF EntryOf

(* Who holds a request that one worker works on, and who one without. *)
LEMMA Held ==
    ASSUME HoldersInv, NEW r \in Requests, NEW w \in Workers, worker[w].req = r
    PROVE  HolderOf(r) = w
<1>1. \A v \in Workers : worker[v].req = r => v = w
    BY ReplayAssumption DEF HoldersInv, Requests
<1>. DEFINE h == CHOOSE v \in Workers : worker[v].req = r
<1>2. h \in Workers /\ worker[h].req = r
    OBVIOUS
<1>3. h = w
    BY <1>1, <1>2
<1>. QED
    BY <1>3 DEF HolderOf

LEMMA HeldNext ==
    ASSUME HoldersInv', NEW r \in Requests, NEW w \in Workers, worker'[w].req = r
    PROVE  HolderOf(r)' = w
<1>1. \A v \in Workers : worker'[v].req = r => v = w
    BY ReplayAssumption DEF HoldersInv, Requests
<1>. DEFINE h == CHOOSE v \in Workers : worker'[v].req = r
<1>2. h \in Workers /\ worker'[h].req = r
    OBVIOUS
<1>3. h = w
    BY <1>1, <1>2
<1>. QED
    BY <1>3 DEF HolderOf

(* A request in the same hand and as much started as before has the same     *)
(* holder.                                                                   *)
LEMMA SameHolder ==
    ASSUME HoldersInv, HoldersInv', NEW r \in Requests,
           \A w \in Workers : worker'[w].req = r <=> worker[w].req = r,
           started'[r] = started[r]
    PROVE  HolderOf(r)' = HolderOf(r)
<1>1. CASE \E w \in Workers : worker[w].req = r
    BY <1>1, Held, HeldNext
<1>2. CASE ~ \E w \in Workers : worker[w].req = r
    BY <1>2 DEF HolderOf
<1>. QED
    BY <1>1, <1>2

(* Items and holders that do not change are a stutter of the ledger. *)
LEMMA Stutter ==
    ASSUME HoldersInv, HoldersInv', item' = item, started' = started,
           \A w \in Workers : worker'[w].req = worker[w].req
    PROVE  UNCHANGED Ledger!ledgerVars
<1>1. \A r \in Requests : HolderOf(r)' = HolderOf(r)
    BY SameHolder
<1>. QED
    BY <1>1 DEF Ledger!ledgerVars, LedgerEntry, LedgerHolder

LEMMA CreateRegisters ==
    ASSUME TypeOK, LedgerInv, LedgerInv', NEW o \in Operators, Create(o)
    PROVE  Ledger!LedgerNext
<1>. DEFINE T == operator[o].targets
<1>1. PICK r \in Requests :
        /\ status[r] = "absent"
        /\ item' = [item EXCEPT ![r] =
                       [m \in Measurements |-> IF m \in T THEN "pending" ELSE "absent"]]
        /\ started' = started /\ worker' = worker
    BY DEF Create, IsNextId
<1>2. T \in SUBSET Measurements
    BY DEF TypeOK, OperatorsOK
<1>3. \A w \in Workers : worker[w].req # r
    BY <1>1 DEF LedgerInv, RequestsInv, HoldersInv, HoldsRightly
<1>4. HolderOf(r) = None
    BY <1>1, <1>3 DEF LedgerInv, RequestsInv, HolderOf
<1>5. \A m \in Measurements : LedgerEntry[r][m] = "absent"
    BY <1>1, EntryOfStatus DEF LedgerInv, RequestsInv, LedgerEntry
<1>6. LedgerEntry' = [LedgerEntry EXCEPT ![r] =
                  [m \in Measurements |-> IF m \in T THEN "open"
                                          ELSE IF m \in {} THEN "skipped"
                                          ELSE "absent"]]
    BY <1>1, EntryOfStatus DEF LedgerEntry, TypeOK, RowsOK
<1>7. \A t \in Requests : HolderOf(t)' = HolderOf(t)
    BY <1>1, SameHolder DEF LedgerInv
<1>8. LedgerHolder' = LedgerHolder
    BY <1>7 DEF LedgerHolder
<1>9. Ledger!Register(r, T, {})
    BY <1>4, <1>5, <1>6, <1>8 DEF Ledger!Register, LedgerHolder
<1>. QED
    BY <1>2, <1>9 DEF Ledger!LedgerNext

LEMMA OperatorImplements ==
    ASSUME TypeOK, LedgerInv, LedgerInv', NEW o \in Operators, OperatorNext(o)
    PROVE  [Ledger!LedgerNext]_(Ledger!ledgerVars)
<1>1. CASE UNCHANGED <<item, started, worker>>
    BY <1>1, Stutter DEF LedgerInv
<1>2. CASE (\E s \in Scopes : BeginCreate(o, s)) \/ (\E r \in Requests : BeginCancel(o, r))
    BY <1>1, <1>2 DEF BeginCreate, BeginCancel, Begins, rows
<1>3. CASE Cancel(o) \/ RollBack(o)
    BY <1>1, <1>3 DEF Cancel, RollBack, rows
<1>. QED
    BY <1>2, <1>3, CreateRegisters DEF OperatorNext

(* A worker that becomes idle lets go of the request it held. *)
LEMMA IdleLetsGo ==
    ASSUME TypeOK, LedgerInv, LedgerInv', NEW w \in Workers, worker[w].pc # "idle",
           worker' = [worker EXCEPT ![w] = IdleWorker],
           UNCHANGED <<started, item>>
    PROVE  Ledger!LedgerNext
<1>1. PICK r \in Requests :
        /\ r = worker[w].req /\ started[r]
        /\ \A v \in Workers : v # w => worker[v].req # r
    BY Alone DEF LedgerInv
<1>2. /\ worker'[w].req = None
      /\ \A v \in Workers : v # w => worker'[v] = worker[v]
      /\ \A t \in Requests : t # None
    BY ReplayAssumption DEF IdleWorker, TypeOK, WorkersOK, Requests
<1>3. HolderOf(r) = w
    BY <1>1, Held DEF LedgerInv
<1>4. \A v \in Workers : worker'[v].req # r
    BY <1>1, <1>2
<1>5. HolderOf(r)' = Released
    BY <1>1, <1>4 DEF HolderOf
<1>6. ASSUME NEW t \in Requests, t # r PROVE HolderOf(t)' = HolderOf(t)
    <2>1. \A v \in Workers : worker'[v].req = t <=> worker[v].req = t
        BY <1>1, <1>2, <1>6
    <2>. QED
        BY <2>1, SameHolder DEF LedgerInv
<1>7. LedgerHolder' = [LedgerHolder EXCEPT ![r] = Released]
    BY <1>5, <1>6 DEF LedgerHolder
<1>8. LedgerHolder[r] \in Workers
    BY <1>3 DEF LedgerHolder
<1>9. Ledger!LetGo(r)
    BY <1>7, <1>8 DEF Ledger!LetGo, LedgerEntry
<1>. QED
    BY <1>9 DEF Ledger!LedgerNext

LEMMA ClaimTakes ==
    ASSUME TypeOK, LedgerInv, LedgerInv', NEW w \in Workers, NEW q \in Requests,
           Claim(w, q)
    PROVE  Ledger!LedgerNext
<1>1. ~ started[q] /\ \A m \in Measurements : item[q][m] \in {"absent", "pending"}
    BY DEF Claim, IsClaimable, LedgerInv, RequestsInv
<1>2. \A v \in Workers : worker[v].req # q
    BY <1>1 DEF LedgerInv, HoldersInv, HoldsRightly
<1>3. LedgerHolder[q] = None
    BY <1>1, <1>2 DEF LedgerHolder, HolderOf
<1>4. \A m \in Measurements : LedgerEntry[q][m] \in {"absent", "open", "skipped"}
    BY <1>1, EntryOfStatus DEF LedgerEntry
<1>5. /\ worker[w].req = None /\ worker'[w].req = q
      /\ \A v \in Workers : v # w => worker'[v] = worker[v]
    BY DEF Claim, TypeOK, WorkersOK
<1>6. HolderOf(q)' = w
    BY <1>5, HeldNext DEF LedgerInv
<1>7. ASSUME NEW t \in Requests, t # q PROVE HolderOf(t)' = HolderOf(t)
    <2>1. \A v \in Workers : worker'[v].req = t <=> worker[v].req = t
        BY <1>5, <1>7, ReplayAssumption DEF Requests
    <2>2. started'[t] = started[t]
        BY <1>7 DEF Claim, TypeOK, RowsOK
    <2>. QED
        BY <2>1, <2>2, SameHolder DEF LedgerInv
<1>8. LedgerHolder' = [LedgerHolder EXCEPT ![q] = w]
    BY <1>6, <1>7 DEF LedgerHolder
<1>9. LedgerEntry' = LedgerEntry
    BY DEF Claim, LedgerEntry
<1>10. Ledger!Take(q, w)
    BY <1>3, <1>4, <1>8, <1>9 DEF Ledger!Take
<1>. QED
    BY <1>10 DEF Ledger!LedgerNext

LEMMA WorkerImplements ==
    ASSUME TypeOK, LedgerInv, LedgerInv', NEW w \in Workers, WorkerStep(w) \/ Crash(w)
    PROVE  [Ledger!LedgerNext]_(Ledger!ledgerVars)
<1>. DEFINE r == worker[w].req
<1>1. worker[w].pc # "idle" =>
        r \in Requests /\ HoldsRightly(w, r) /\ LedgerHolder[r] = w
    BY Alone, Held DEF LedgerInv, LedgerHolder
<1>2. CASE \E q \in Requests : Claim(w, q)
    BY <1>2, ClaimTakes
<1>3. CASE StartRun(w)
    BY <1>3, Stutter DEF StartRun, LedgerInv, TypeOK, WorkersOK
<1>4. ASSUME started' = started, \A v \in Workers : worker'[v].req = worker[v].req
      PROVE  LedgerHolder' = LedgerHolder
    BY <1>4, SameHolder DEF LedgerInv, LedgerHolder
<1>5. CASE \E m \in Measurements : MarkItem(w, m)
    <2>1. PICK m \in Measurements : MarkItem(w, m)
        BY <1>5
    <2>2. worker[w].pc = "items" /\ r \in Requests /\ m \in worker[w].todo
        BY <1>1, <2>1 DEF MarkItem
    <2>3. item[r][m] = "pending" /\ \A u \in Measurements : item[r][u] # "processing"
        BY <1>1, <2>2 DEF HoldsRightly
    <2>4. \A u \in Measurements : LedgerEntry[r][u] # "taken"
        BY <2>2, <2>3, EntryOfStatus DEF LedgerEntry, TypeOK, RowsOK, ItemStatuses
    <2>5. LedgerEntry[r][m] = "open"
        BY <2>2, <2>3, EntryOfStatus DEF LedgerEntry
    <2>6. LedgerEntry' = [LedgerEntry EXCEPT ![r][m] = "taken"]
        BY <2>1, <2>2, EntryOfStatus DEF MarkItem, LedgerEntry, TypeOK, RowsOK
    <2>7. LedgerHolder' = LedgerHolder
        BY <1>4, <2>1 DEF MarkItem, TypeOK, WorkersOK
    <2>8. Ledger!Start(r, m)
        BY <1>1, <2>2, <2>4, <2>5, <2>6, <2>7 DEF Ledger!Start
    <2>. QED
        BY <2>2, <2>8 DEF Ledger!LedgerNext
<1>6. ASSUME NEW outcome \in {"completed", "failed"}, NEW code, NEW c,
             CloseItem(w, outcome, code, c)
      PROVE  Ledger!LedgerNext
    <2>. DEFINE m == worker[w].current
    <2>1. worker[w].pc = "item" /\ r \in Requests /\ m \in Measurements
        BY <1>1, <1>6 DEF CloseItem, TypeOK, WorkersOK
    <2>2. item[r][m] = "processing"
        BY <1>1, <2>1 DEF HoldsRightly
    <2>3. LedgerEntry[r][m] = "taken"
        BY <2>1, <2>2, EntryOfStatus DEF LedgerEntry
    <2>4. LedgerEntry' = [LedgerEntry EXCEPT ![r][m] = EntryOf[outcome]]
        BY <1>6, <2>1 DEF CloseItem, LedgerEntry, TypeOK, RowsOK
    <2>5. LedgerHolder' = LedgerHolder
        BY <1>4, <1>6 DEF CloseItem, TypeOK, WorkersOK
    <2>6. Ledger!Close(r, m)
        BY <1>1, <2>1, <2>3, <2>4, <2>5, EntryOfStatus DEF Ledger!Close
    <2>. QED
        BY <2>1, <2>6 DEF Ledger!LedgerNext
<1>7. CASE ItemSucceeds(w) \/ ItemFails(w)
    BY <1>6, <1>7 DEF ItemSucceeds, ItemFails
<1>8. CASE Finalize(w) \/ RequestFails(w) \/ Crash(w)
    BY <1>8, IdleLetsGo DEF Finalize, RequestFails, Crash, rows
<1>. QED
    BY <1>2, <1>3, <1>5, <1>7, <1>8 DEF WorkerStep

(* The replay queue is a work ledger: a request is claimed at most once, by *)
(* one worker; its items move one at a time and only while that worker has  *)
(* it; a closed item keeps its outcome; an orphan is never picked up again. *)
THEOREM Refinement == Spec => ImplementsLedger
<1>1. Init => Ledger!LedgerInit
    <2>1. ASSUME Init, NEW r \in Requests PROVE HolderOf(r) = None
        BY <2>1, ReplayAssumption DEF Init, HolderOf, IdleWorker, Requests
    <2>. QED
        BY <2>1, EntryOfStatus DEF Init, Ledger!LedgerInit, LedgerEntry, LedgerHolder
<1>2. /\ TypeOK /\ LedgerInv /\ LedgerInv'
      /\ [Next]_vars
      => [Ledger!LedgerNext]_(Ledger!ledgerVars)
    <2>1. CASE UNCHANGED vars
        BY <2>1, Stutter DEF vars, rows, LedgerInv
    <2>. QED
        BY <2>1, OperatorImplements, WorkerImplements DEF Next
<1>. QED
    BY TypeCorrect, LedgerInvariant, <1>1, <1>2, PTL
    DEF Spec, ImplementsLedger, Ledger!LedgerSpec

-------------------------------------------------------------------------------
(* The results of the items. *)

LEMMA ResultsInit == Init => ResultsInv
BY DEF Init, ResultsInv

(* Measurement m of request r gets its result, the counters become c. *)
GetsResult(r, m, outcome, code, c) ==
    /\ result[r][m] = None /\ result'[r][m] = code
    /\ \A u \in Measurements : u # m => result'[r][u] = result[r][u]
    /\ item' = [item EXCEPT ![r][m] = outcome]
    /\ count'[r] = c
    /\ \A t \in Requests : t # r => result'[t] = result[t] /\ count'[t] = count[t]

LEMMA CloseResult ==
    ASSUME TypeOK, LedgerInv, ResultsInv, NEW w \in Workers,
           NEW outcome \in {"completed", "failed"}, NEW code \in ResultCodes, NEW c,
           CloseItem(w, outcome, code, c)
    PROVE  \E r \in Requests, m \in Measurements :
              r = worker[w].req /\ GetsResult(r, m, outcome, code, c)
<1>1. PICK r \in Requests : r = worker[w].req /\ HoldsRightly(w, r)
    BY Alone DEF CloseItem, LedgerInv
<1>2. PICK m \in Measurements : m = worker[w].current
    BY DEF CloseItem, TypeOK, WorkersOK
<1>3. item[r][m] = "processing"
    BY <1>1, <1>2 DEF CloseItem, HoldsRightly
<1>4. result[r][m] = None
    BY <1>3 DEF ResultsInv
<1>5. /\ item' = [item EXCEPT ![r][m] = outcome]
      /\ result' = [result EXCEPT ![r][m] = code]
      /\ count' = [count EXCEPT ![r] = c]
    BY <1>1, <1>2 DEF CloseItem
<1>6. GetsResult(r, m, outcome, code, c)
    BY <1>4, <1>5 DEF GetsResult, TypeOK, RowsOK
<1>. QED  BY <1>1, <1>6

LEMMA ResultsStep ==
    ASSUME TypeOK, LedgerInv, ResultsInv, [Next]_vars
    PROVE  ResultsInv'
<1>1. CASE result' = result /\ item' = item
    BY <1>1 DEF ResultsInv
<1>2. CASE \E o \in Operators : Create(o)
    <2>1. PICK o \in Operators : Create(o)
        BY <1>2
    <2>2. PICK T : T = operator[o].targets
        OBVIOUS
    <2>3. PICK r \in Requests :
            /\ status[r] = "absent" /\ result' = result
            /\ item' = [item EXCEPT ![r] =
                           [m \in Measurements |-> IF m \in T THEN "pending" ELSE "absent"]]
        BY <2>1, <2>2 DEF Create, IsNextId
    <2>4. \A m \in Measurements : result[r][m] = None
        BY <2>3 DEF LedgerInv, RequestsInv, ResultsInv
    <2>5. \A t \in Requests : t # r => item'[t] = item[t]
        BY <2>3 DEF TypeOK, RowsOK
    <2>. QED  BY <2>3, <2>4, <2>5 DEF ResultsInv
<1>3. CASE \E w \in Workers, m \in Measurements : MarkItem(w, m)
    <2>1. PICK w \in Workers, m \in Measurements : MarkItem(w, m)
        BY <1>3
    <2>2. PICK r \in Requests : r = worker[w].req /\ HoldsRightly(w, r)
        BY <2>1, Alone DEF MarkItem, LedgerInv
    <2>3. item[r][m] = "pending"
        BY <2>1, <2>2 DEF MarkItem, HoldsRightly
    <2>4. result[r][m] = None
        BY <2>3 DEF ResultsInv
    <2>5. result' = result /\ item' = [item EXCEPT ![r][m] = "processing"]
        BY <2>1, <2>2 DEF MarkItem
    <2>. QED  BY <2>4, <2>5 DEF ResultsInv, TypeOK, RowsOK
<1>4. ASSUME NEW w \in Workers, NEW outcome \in {"completed", "failed"},
             NEW code \in ResultCodes, NEW c, CloseItem(w, outcome, code, c)
      PROVE  ResultsInv'
    <2>1. PICK r \in Requests, m \in Measurements : GetsResult(r, m, outcome, code, c)
        BY <1>4, CloseResult
    <2>. QED  BY <2>1 DEF GetsResult, ResultsInv, TypeOK, RowsOK
<1>5. CASE \E w \in Workers : ItemSucceeds(w) \/ ItemFails(w)
    BY <1>4, <1>5 DEF ItemSucceeds, ItemFails, ResultCodes
<1>6. \/ result' = result /\ item' = item
      \/ \E o \in Operators : Create(o)
      \/ \E w \in Workers, m \in Measurements : MarkItem(w, m)
      \/ \E w \in Workers : ItemSucceeds(w) \/ ItemFails(w)
    BY DEF Next, OperatorNext, WorkerStep, BeginCreate, BeginCancel, Begins, Cancel, RollBack,
           Claim, StartRun, Finalize, RequestFails, Crash, rows, vars
<1>. QED  BY <1>1, <1>2, <1>3, <1>5, <1>6

(* An item has a result only when it is closed. *)
THEOREM ResultsInvariant == Spec => []ResultsInv
<1>. QED  BY TypeCorrect, LedgerInvariant, ResultsInit, ResultsStep, PTL DEF Spec

-------------------------------------------------------------------------------
(* The counters of a request and the results of its items. *)

With(S, res) == Cardinality({m \in Measurements : res[m] \in S})

CountsOf(res) ==
    [processed |-> With(ResultCodes, res),
     succeeded |-> With(SuccessCodes, res),
     failed    |-> With({"processing_error"}, res),
     reopened  |-> With({"exception_reopened"}, res),
     cleared   |-> With({"exception_cleared"}, res)]

LEMMA CountersAreCounts ==
    CountersMatchItems <=> TypeOK /\ \A r \in Requests : count[r] = CountsOf(result[r])
BY DEF CountersMatchItems, CountsOf, With

LEMMA CountersAreCountsNext ==
    CountersMatchItems' <=> TypeOK' /\ \A r \in Requests : count'[r] = CountsOf(result'[r])
BY DEF CountersMatchItems, CountsOf, With

LEMMA WithIsNumber ==
    ASSUME NEW S, NEW res
    PROVE  IsFiniteSet({m \in Measurements : res[m] \in S}) /\ With(S, res) \in Nat
<1>1. IsFiniteSet({m \in Measurements : res[m] \in S})
    BY ReplayAssumption, FS_Subset
<1>. QED  BY <1>1, FS_CardinalityType DEF With

LEMMA OneMore ==
    ASSUME NEW S, NEW old, NEW new, NEW m \in Measurements, old[m] \notin S, new[m] \in S,
           \A u \in Measurements : u # m => new[u] = old[u]
    PROVE  With(S, new) = With(S, old) + 1
<1>1. PICK X : X = {u \in Measurements : old[u] \in S}
    OBVIOUS
<1>2. {u \in Measurements : new[u] \in S} = X \cup {m} /\ m \notin X
    BY <1>1
<1>3. IsFiniteSet(X)
    BY <1>1, WithIsNumber
<1>4. Cardinality(X \cup {m}) = Cardinality(X) + 1
    BY <1>2, <1>3, FS_AddElement
<1>. QED  BY <1>1, <1>2, <1>4 DEF With

LEMMA AsMany ==
    ASSUME NEW S, NEW old, NEW new, \A u \in Measurements : new[u] \in S <=> old[u] \in S
    PROVE  With(S, new) = With(S, old)
<1>1. {u \in Measurements : new[u] \in S} = {u \in Measurements : old[u] \in S}
    OBVIOUS
<1>. QED  BY <1>1 DEF With

(* A result more: which counters count it. *)
LEMMA CountsOfClosed ==
    ASSUME NEW old, NEW new, NEW m \in Measurements, old[m] = None, new[m] \in ResultCodes,
           \A u \in Measurements : u # m => new[u] = old[u]
    PROVE  \A S \in SUBSET ResultCodes :
              With(S, new) = IF new[m] \in S THEN With(S, old) + 1 ELSE With(S, old)
<1>. TAKE S \in SUBSET ResultCodes
<1>1. old[m] \notin S
    BY ReplayAssumption
<1>2. CASE new[m] \in S
    BY <1>1, <1>2, OneMore
<1>3. CASE new[m] \notin S
    <2>1. \A u \in Measurements : new[u] \in S <=> old[u] \in S
        BY <1>1, <1>3
    <2>. QED  BY <1>3, <2>1, AsMany
<1>. QED  BY <1>2, <1>3

LEMMA CountsType ==
    ASSUME NEW res
    PROVE  /\ CountsOf(res) \in Counts
           /\ CountsOf(res).processed = With(ResultCodes, res)
           /\ CountsOf(res).succeeded = With(SuccessCodes, res)
           /\ CountsOf(res).failed = With({"processing_error"}, res)
           /\ CountsOf(res).reopened = With({"exception_reopened"}, res)
           /\ CountsOf(res).cleared = With({"exception_cleared"}, res)
BY WithIsNumber DEF CountsOf, Counts

LEMMA SameCounts ==
    ASSUME NEW c \in Counts, NEW d \in Counts,
           c.processed = d.processed, c.succeeded = d.succeeded, c.failed = d.failed,
           c.reopened = d.reopened, c.cleared = d.cleared
    PROVE  c = d
BY DEF Counts

LEMMA ResultCounted ==
    ASSUME NEW c \in Counts, NEW d \in Counts, NEW code,
           d.processed = c.processed + 1, d.succeeded = c.succeeded + 1, d.failed = c.failed,
           d.reopened = c.reopened + One(code = "exception_reopened"),
           d.cleared = c.cleared + One(code = "exception_cleared")
    PROVE  d = CountResult(c, code)
<1>1. PICK a, b : a = One(code = "exception_reopened") /\ b = One(code = "exception_cleared")
    OBVIOUS
<1>2. a \in Nat /\ b \in Nat
    BY <1>1 DEF One
<1>3. PICK e : e = CountResult(c, code)
    OBVIOUS
<1>4. e = [c EXCEPT !.processed = @ + 1, !.succeeded = @ + 1, !.reopened = @ + a, !.cleared = @ + b]
    BY <1>1, <1>3 DEF CountResult
<1>5. e \in Counts
    <2>1. PICK p, s, u, v : /\ p = c.processed + 1 /\ s = c.succeeded + 1
                            /\ u = c.reopened + a /\ v = c.cleared + b
        OBVIOUS
    <2>2. p \in Nat /\ s \in Nat /\ u \in Nat /\ v \in Nat
        BY <1>2, <2>1 DEF Counts
    <2>3. e = [c EXCEPT !.processed = p, !.succeeded = s, !.reopened = u, !.cleared = v]
        BY <1>4, <2>1
    <2>. QED  BY <2>2, <2>3 DEF Counts
<1>6. /\ e.processed = c.processed + 1 /\ e.succeeded = c.succeeded + 1 /\ e.failed = c.failed
      /\ e.reopened = c.reopened + a /\ e.cleared = c.cleared + b
    BY <1>4 DEF Counts
<1>. QED  BY <1>1, <1>3, <1>5, <1>6, SameCounts

CountError(c) == [c EXCEPT !.processed = @ + 1, !.failed = @ + 1]

LEMMA FailureCounted ==
    ASSUME NEW c \in Counts, NEW d \in Counts,
           d.processed = c.processed + 1, d.failed = c.failed + 1, d.succeeded = c.succeeded,
           d.reopened = c.reopened, d.cleared = c.cleared
    PROVE  d = CountError(c)
<1>0. PICK e : e = CountError(c)
    OBVIOUS
<1>1. e = [c EXCEPT !.processed = @ + 1, !.failed = @ + 1]
    BY <1>0 DEF CountError
<1>2. e \in Counts
    BY <1>1 DEF Counts
<1>3. /\ e.processed = c.processed + 1 /\ e.failed = c.failed + 1 /\ e.succeeded = c.succeeded
      /\ e.reopened = c.reopened /\ e.cleared = c.cleared
    BY <1>1 DEF Counts
<1>. QED  BY <1>0, <1>2, <1>3, SameCounts

LEMMA CountsOfSucceeded ==
    ASSUME NEW old, NEW new, NEW m \in Measurements, old[m] = None, NEW code \in SuccessCodes,
           new[m] = code, \A u \in Measurements : u # m => new[u] = old[u]
    PROVE  CountsOf(new) = CountResult(CountsOf(old), code)
<1>1. \A S \in SUBSET ResultCodes :
          With(S, new) = IF code \in S THEN With(S, old) + 1 ELSE With(S, old)
    BY CountsOfClosed DEF ResultCodes
<1>2. /\ With(ResultCodes, new) = With(ResultCodes, old) + 1
      /\ With(SuccessCodes, new) = With(SuccessCodes, old) + 1
      /\ With({"processing_error"}, new) = With({"processing_error"}, old)
    BY <1>1 DEF ResultCodes, SuccessCodes
<1>3. /\ With({"exception_reopened"}, new) =
            With({"exception_reopened"}, old) + One(code = "exception_reopened")
      /\ With({"exception_cleared"}, new) =
            With({"exception_cleared"}, old) + One(code = "exception_cleared")
    <2>1. /\ With({"exception_reopened"}, old) \in Nat
          /\ With({"exception_cleared"}, old) \in Nat
        BY WithIsNumber
    <2>. QED  BY <1>1, <2>1 DEF ResultCodes, SuccessCodes, One
<1>. QED  BY <1>2, <1>3, CountsType, ResultCounted

LEMMA CountsOfFailed ==
    ASSUME NEW old, NEW new, NEW m \in Measurements, old[m] = None, new[m] = "processing_error",
           \A u \in Measurements : u # m => new[u] = old[u]
    PROVE  CountsOf(new) = CountError(CountsOf(old))
<1>1. \A S \in SUBSET ResultCodes :
          With(S, new) = IF "processing_error" \in S THEN With(S, old) + 1 ELSE With(S, old)
    BY CountsOfClosed DEF ResultCodes
<1>2. /\ With(ResultCodes, new) = With(ResultCodes, old) + 1
      /\ With(SuccessCodes, new) = With(SuccessCodes, old)
      /\ With({"processing_error"}, new) = With({"processing_error"}, old) + 1
      /\ With({"exception_reopened"}, new) = With({"exception_reopened"}, old)
      /\ With({"exception_cleared"}, new) = With({"exception_cleared"}, old)
    BY <1>1 DEF ResultCodes, SuccessCodes
<1>. QED  BY <1>2, CountsType, FailureCounted

LEMMA CountersInit == Init => CountersMatchItems
<1>. SUFFICES ASSUME Init PROVE TypeOK /\ \A r \in Requests : count[r] = CountsOf(result[r])
    BY CountersAreCounts
<1>1. ASSUME NEW r \in Requests PROVE count[r] = CountsOf(result[r])
    <2>1. \A S \in SUBSET ResultCodes : {m \in Measurements : result[r][m] \in S} = {}
        BY ReplayAssumption DEF Init
    <2>2. \A S \in SUBSET ResultCodes : With(S, result[r]) = 0
        BY <2>1, FS_EmptySet DEF With
    <2>3. /\ With(ResultCodes, result[r]) = 0 /\ With(SuccessCodes, result[r]) = 0
          /\ With({"processing_error"}, result[r]) = 0
          /\ With({"exception_reopened"}, result[r]) = 0
          /\ With({"exception_cleared"}, result[r]) = 0
        BY <2>2 DEF ResultCodes, SuccessCodes
    <2>. QED  BY <2>3 DEF Init, CountsOf, NoCounts
<1>. QED  BY <1>1, InitType

LEMMA CountersStep ==
    ASSUME TypeOK, TypeOK', LedgerInv, ResultsInv, CountersMatchItems, [Next]_vars
    PROVE  CountersMatchItems'
<1>. SUFFICES ASSUME NEW t \in Requests PROVE count'[t] = CountsOf(result'[t])
    BY CountersAreCountsNext
<1>1. \A r \in Requests : count[r] = CountsOf(result[r])
    BY CountersAreCounts
<1>2. CASE count'[t] = count[t] /\ result'[t] = result[t]
    BY <1>1, <1>2
<1>3. CASE \E w \in Workers : ItemSucceeds(w)
    <2>1. PICK w \in Workers, code \in SuccessCodes :
            CloseItem(w, "completed", code, CountResult(count[worker[w].req], code))
        BY <1>3 DEF ItemSucceeds
    <2>2. PICK c : c = CountResult(count[worker[w].req], code)
        OBVIOUS
    <2>3. PICK r \in Requests, m \in Measurements :
              r = worker[w].req /\ GetsResult(r, m, "completed", code, c)
        BY <2>1, <2>2, CloseResult DEF ResultCodes
    <2>4. CountsOf(result'[r]) = CountResult(CountsOf(result[r]), code)
        BY <2>3, CountsOfSucceeded DEF GetsResult
    <2>5. CountsOf(result'[r]) = c
        BY <1>1, <2>2, <2>3, <2>4
    <2>. QED  BY <1>2, <2>3, <2>5 DEF GetsResult
<1>4. CASE \E w \in Workers : ItemFails(w)
    <2>1. PICK w \in Workers : ItemFails(w)
        BY <1>4
    <2>2. PICK d : d = count[worker[w].req]
        OBVIOUS
    <2>3. PICK c : c = CountError(d)
        OBVIOUS
    <2>4. CloseItem(w, "failed", "processing_error", c)
        BY <2>1, <2>2, <2>3 DEF ItemFails, CountError
    <2>5. PICK r \in Requests, m \in Measurements :
              r = worker[w].req /\ GetsResult(r, m, "failed", "processing_error", c)
        BY <2>4, CloseResult DEF ResultCodes
    <2>6. CountsOf(result'[r]) = c
        <3>1. d = CountsOf(result[r])
            BY <1>1, <2>2, <2>5
        <3>2. CountsOf(result'[r]) = CountError(d)
            BY <2>5, <3>1, CountsOfFailed DEF GetsResult
        <3>. QED  BY <2>3, <3>2
    <2>. QED  BY <1>2, <2>5, <2>6 DEF GetsResult
<1>5. \/ count'[t] = count[t] /\ result'[t] = result[t]
      \/ \E w \in Workers : ItemSucceeds(w) \/ ItemFails(w)
    BY DEF Next, OperatorNext, WorkerStep, BeginCreate, BeginCancel, Begins, Create, Cancel,
           RollBack, Claim, StartRun, MarkItem, Finalize, RequestFails, Crash, rows, vars
<1>. QED  BY <1>2, <1>3, <1>4, <1>5

(* The counters the request page shows count the results of its items, over  *)
(* failed replays, cancels and crashes.                                      *)
THEOREM CountersAreRight == Spec => []CountersMatchItems
<1>. QED  BY TypeCorrect, LedgerInvariant, ResultsInvariant, CountersInit, CountersStep, PTL DEF Spec

-------------------------------------------------------------------------------
(* One request on each scope, where creations do not overlap. *)

SingleScope ==
    \A r, t \in Requests :
        status[r] \in Active /\ status[t] \in Active /\ scope[r] = scope[t] => r = t

(* Workers make no request active. *)
LEMMA WorkersActivateNothing ==
    ASSUME TypeOK, LedgerInv, NEW w \in Workers, WorkerStep(w) \/ Crash(w)
    PROVE  /\ scope' = scope /\ operator' = operator
           /\ \A t \in Requests : status'[t] \in Active => status[t] \in Active
<1>1. worker[w].pc # "idle" => worker[w].req \in Requests
    BY Alone DEF LedgerInv
<1>2. CASE \E q \in Requests : Claim(w, q)
    BY <1>2 DEF Claim, IsClaimable, TypeOK, RowsOK, Active
<1>3. CASE StartRun(w) \/ (\E m \in Measurements : MarkItem(w, m)) \/ ItemSucceeds(w)
           \/ ItemFails(w) \/ Crash(w)
    BY <1>3 DEF StartRun, MarkItem, ItemSucceeds, ItemFails, CloseItem, Crash, rows
<1>4. CASE Finalize(w) \/ RequestFails(w)
    BY <1>1, <1>4 DEF Finalize, RequestFails, Outcome, TypeOK, RowsOK, Active
<1>. QED  BY <1>2, <1>3, <1>4 DEF WorkerStep

(* Creations that do not overlap: no two of one scope are open at a time.     *)
(* Cancels and workers may come in between as they like.                      *)
Creating(o) == operator[o].pc = "create"

Apart ==
    \A o, p \in Operators :
        o # p /\ Creating(o) /\ Creating(p) => operator[o].scope # operator[p].scope

(* An operator activates at most a request of the scope it is about.          *)
LEMMA OperatorsActivateTheirOwn ==
    ASSUME TypeOK, NEW o \in Operators, OperatorNext(o)
    PROVE  /\ \A p \in Operators : p # o => operator'[p] = operator[p]
           /\ \A t \in Requests : status'[t] \in Active =>
                 \/ status[t] \in Active /\ scope'[t] = scope[t]
                 \/ Creating(o) /\ scope'[t] = operator[o].scope
<1>1. CASE Create(o)
    <2>1. PICK s : s = operator[o].scope
        OBVIOUS
    <2>2. PICK r \in Requests :
            /\ status' = [status EXCEPT ![r] = "queued"]
            /\ scope' = [scope EXCEPT ![r] = s]
        BY <1>1, <2>1 DEF Create
    <2>3. scope'[r] = s
          /\ \A t \in Requests : t # r => status'[t] = status[t] /\ scope'[t] = scope[t]
        BY <2>2 DEF TypeOK, RowsOK
    <2>4. Creating(o) /\ Ends(o)
        BY <1>1 DEF Create, Creating
    <2>. QED  BY <2>1, <2>3, <2>4 DEF Ends, TypeOK, OperatorsOK
<1>2. CASE Cancel(o)
    BY <1>2 DEF Cancel, Ends, TypeOK, RowsOK, OperatorsOK, Active
<1>3. CASE UNCHANGED <<rows, worker>>
    BY <1>3 DEF rows, OperatorNext, BeginCreate, BeginCancel, Begins, Create, Cancel, RollBack,
           Ends, TypeOK, OperatorsOK
<1>. QED  BY <1>1, <1>2, <1>3 DEF OperatorNext, BeginCreate, BeginCancel, Begins, RollBack

LEMMA OthersStayFree ==
    ASSUME TypeOK, Apart, NEW o \in Operators, OperatorNext(o),
           NEW p \in Operators, p # o, FreeScope(p)
    PROVE  FreeScope(p)'
<1>1. /\ operator'[p] = operator[p]
      /\ \A t \in Requests : status'[t] \in Active =>
            \/ status[t] \in Active /\ scope'[t] = scope[t]
            \/ Creating(o) /\ scope'[t] = operator[o].scope
    BY OperatorsActivateTheirOwn
<1>2. ASSUME Creating(p) PROVE ActiveOn(operator[p].scope)' = {}
    BY <1>1, <1>2 DEF Apart, FreeScope, Creating, ActiveOn
<1>. QED  BY <1>1, <1>2 DEF FreeScope, Creating

LEMMA ScopeStep ==
    ASSUME Apart,
           TypeOK, LedgerInv, SingleScope, \A o \in Operators : FreeScope(o), [Next]_vars
    PROVE  SingleScope' /\ \A o \in Operators : FreeScope(o)'
<1>1. CASE UNCHANGED vars
    BY <1>1 DEF vars, rows, SingleScope, FreeScope, ActiveOn
<1>2. ASSUME NEW w \in Workers, WorkerStep(w) \/ Crash(w)
      PROVE  SingleScope' /\ \A o \in Operators : FreeScope(o)'
    <2>1. /\ scope' = scope /\ operator' = operator
          /\ \A t \in Requests : status'[t] \in Active => status[t] \in Active
        BY <1>2, WorkersActivateNothing
    <2>. QED  BY <2>1 DEF SingleScope, FreeScope, ActiveOn
<1>3. ASSUME NEW o \in Operators, OperatorNext(o)
      PROVE  SingleScope' /\ \A p \in Operators : FreeScope(p)'
    <2>1. ASSUME FreeScope(o)' PROVE \A p \in Operators : FreeScope(p)'
        BY <1>3, <2>1, OthersStayFree
    <2>2. ASSUME Ends(o) PROVE FreeScope(o)'
        BY <2>2 DEF Ends, IdleOperator, FreeScope, TypeOK, OperatorsOK
    <2>3. CASE Create(o)
        <3>1. PICK s : s = operator[o].scope
            OBVIOUS
        <3>2. PICK r \in Requests :
                /\ status' = [status EXCEPT ![r] = "queued"]
                /\ scope' = [scope EXCEPT ![r] = s]
            BY <2>3, <3>1 DEF Create
        <3>3. scope'[r] = s /\ \A t \in Requests : t # r => status'[t] = status[t] /\ scope'[t] = scope[t]
            BY <3>2 DEF TypeOK, RowsOK
        <3>4. \A t \in Requests : status[t] \in Active => scope[t] # s
            BY <2>3, <3>1 DEF Create, FreeScope, ActiveOn
        <3>5. SingleScope'
            BY <3>3, <3>4 DEF SingleScope
        <3>. QED  BY <2>1, <2>2, <2>3, <3>5 DEF Create
    <2>4. CASE Cancel(o)
        <3>1. SingleScope'
            BY <2>4 DEF Cancel, SingleScope, TypeOK, RowsOK, OperatorsOK, Active
        <3>. QED  BY <2>1, <2>2, <2>4, <3>1 DEF Cancel
    <2>5. CASE RollBack(o)
        <3>1. SingleScope'
            BY <2>5 DEF RollBack, rows, SingleScope
        <3>. QED  BY <2>1, <2>2, <2>5, <3>1 DEF RollBack
    <2>6. CASE \E s \in Scopes : BeginCreate(o, s)
        <3>1. PICK s \in Scopes : BeginCreate(o, s)
            BY <2>6
        <3>2. /\ operator'[o].pc = "create" /\ operator'[o].scope = s
              /\ ActiveOn(s) = {} /\ UNCHANGED <<rows, worker>>
            BY <3>1 DEF BeginCreate, Begins, TypeOK, OperatorsOK
        <3>3. ActiveOn(s)' = {}
            BY <3>2 DEF ActiveOn, rows
        <3>4. SingleScope' /\ FreeScope(o)'
            BY <3>2, <3>3 DEF SingleScope, rows, FreeScope
        <3>. QED  BY <2>1, <3>4
    <2>7. CASE \E r \in Requests : BeginCancel(o, r)
        <3>1. operator'[o].pc = "cancel" /\ UNCHANGED <<rows, worker>>
            BY <2>7 DEF BeginCancel, Begins, TypeOK, OperatorsOK
        <3>2. SingleScope' /\ FreeScope(o)'
            BY <3>1 DEF SingleScope, rows, FreeScope
        <3>. QED  BY <2>1, <3>2
    <2>. QED  BY <1>3, <2>3, <2>4, <2>5, <2>6, <2>7 DEF OperatorNext
<1>. QED  BY <1>1, <1>2, <1>3 DEF Next

(* Where creations of one scope do not overlap, no scope has two requests      *)
(* queued or processing: a late cancel or a dying worker only ever ends one.   *)
THEOREM ScopesStaySingle == Spec /\ []Apart => []OneActivePerScope
<1>1. Init => SingleScope /\ \A o \in Operators : FreeScope(o)
    BY DEF Init, SingleScope, Active, FreeScope, IdleOperator
<1>2. TypeOK /\ LedgerInv /\ Apart
        /\ (SingleScope /\ \A o \in Operators : FreeScope(o)) /\ [Next]_vars
        => (SingleScope /\ \A o \in Operators : FreeScope(o))'
    BY ScopeStep
<1>3. SingleScope => OneActivePerScope
    <2>. SUFFICES ASSUME SingleScope, NEW s \in Scopes PROVE Cardinality(ActiveOn(s)) <= 1
        BY DEF OneActivePerScope
    <2>1. CASE ActiveOn(s) = {}
        BY <2>1, FS_EmptySet
    <2>2. CASE ActiveOn(s) # {}
        <3>1. PICK r \in Requests : ActiveOn(s) = {r}
            BY <2>2 DEF ActiveOn, SingleScope
        <3>2. Cardinality({r}) = 1
            BY FS_Singleton
        <3>. QED  BY <3>1, <3>2
    <2>. QED  BY <2>1, <2>2
<1>. QED  BY TypeCorrect, LedgerInvariant, <1>1, <1>2, <1>3, PTL DEF Spec

================================================================================
