---------------------------- MODULE BillingExport -----------------------------
(***************************************************************************)
(* The billing export queue: operators create, rerun, recreate and cancel  *)
(* requests (app/services/billing_export_requests.py); worker processes    *)
(* claim queued requests and work through their items                      *)
(* (app/services/billing_export_processor.py).                             *)
(*                                                                         *)
(* The variables of the first group are committed rows.  Every action is   *)
(* one committed transaction, or one read a transaction does before it     *)
(* commits: PostgreSQL runs READ COMMITTED, so what an operator's          *)
(* transaction read may be out of date when it writes.                     *)
(***************************************************************************)
EXTENDS Naturals, FiniteSets

CONSTANTS MaxRequests,    \* bound on the rows of billing_export_request
          Workers,        \* worker processes
          Operators,      \* sessions of the web console and the API
          Scopes,         \* (service point, period window, target, format)
          Summaries,      \* invoice summary keys: one item per key and request
          Window,         \* Window[s]: the summary keys inside scope s
          OperatorActions,\* what the operators of an instance may do
          None, Released

Requests == 1..MaxRequests
RecoveryActions == {"rerun", "recreate"}

ASSUME ExportAssumption ==
    /\ MaxRequests \in Nat
    /\ Window \in [Scopes -> SUBSET Summaries]
    /\ OperatorActions \subseteq {"create", "cancel"} \cup RecoveryActions
    /\ None \notin Workers \cup Scopes \cup Summaries
    /\ None \notin Nat
    /\ Released \notin Workers \cup {None}
    /\ IsFiniteSet(Summaries)

VARIABLES status,      \* billing_export_request.status, "absent" before the insert
          scope,       \* the columns that identify what is exported
          source,      \* source_billing_export_request_id
          action,      \* recovery_action_code
          claimed_by,  \* billing_export_request.claimed_by
          count,       \* processed_count, succeeded_count, failed_count, skipped_count
          item,        \* item[r][p]: billing_export_item.status
          run,         \* status of the pipeline run of the request
          worker,      \* program counter and locals of each worker
          operator     \* transaction of each operator that has read and not written

rows == <<status, scope, source, action, claimed_by, count, item, run>>
vars == <<status, scope, source, action, claimed_by, count, item, run,
          worker, operator>>

Active == {"queued", "processing"}
Terminal == {"completed", "failed", "cancelled"}

(* Variant: finished items are offered for recovery too. *)
RetryableStatuses_Finished == {"failed", "pending", "completed"}

RetryableStatuses == {"failed", "pending"}
ItemStatuses == {"absent", "pending", "processing", "completed", "failed", "skipped"}

Counts == [processed : Nat, succeeded : Nat, failed : Nat, skipped : Nat]
NoCounts == [processed |-> 0, succeeded |-> 0, failed |-> 0, skipped |-> 0]

IdleWorker == [pc |-> "idle", req |-> None, todo |-> {}, current |-> None]
IdleOperator == [pc |-> "idle", scope |-> None, req |-> None]

RowsOK ==
    /\ status \in [Requests -> {"absent"} \cup Active \cup Terminal]
    /\ scope \in [Requests -> Scopes \cup {None}]
    /\ source \in [Requests -> Requests \cup {None}]
    /\ action \in [Requests -> RecoveryActions \cup {None}]
    /\ claimed_by \in [Requests -> Workers \cup {None}]
    /\ count \in [Requests -> Counts]
    /\ item \in [Requests -> [Summaries -> ItemStatuses]]
    /\ run \in [Requests -> {"none", "running", "completed", "failed"}]

WorkersOK ==
    /\ worker \in [Workers -> [pc : {"idle", "claimed", "items", "item"},
                               req : Requests \cup {None},
                               todo : SUBSET Summaries,
                               current : Summaries \cup {None}]]
    /\ \A w \in Workers : /\ worker[w].pc = "idle" <=> worker[w].req = None
                          /\ worker[w].pc = "item" <=> worker[w].current # None

OperatorsOK ==
    /\ operator \in [Operators -> [pc : {"idle", "create", "cancel"} \cup RecoveryActions,
                                   scope : Scopes \cup {None},
                                   req : Requests \cup {None}]]
    /\ \A o \in Operators : /\ operator[o].pc = "create" => operator[o].scope # None
                            /\ operator[o].pc \in {"cancel"} \cup RecoveryActions
                                  => operator[o].req # None

(* The rows and the locals of the processes are well formed; a process that *)
(* is under way knows what it works on.                                     *)
TypeOK == RowsOK /\ WorkersOK /\ OperatorsOK

Init ==
    /\ status = [r \in Requests |-> "absent"]
    /\ scope = [r \in Requests |-> None]
    /\ source = [r \in Requests |-> None]
    /\ action = [r \in Requests |-> None]
    /\ claimed_by = [r \in Requests |-> None]
    /\ count = [r \in Requests |-> NoCounts]
    /\ item = [r \in Requests |-> [p \in Summaries |-> "absent"]]
    /\ run = [r \in Requests |-> "none"]
    /\ worker = [w \in Workers |-> IdleWorker]
    /\ operator = [o \in Operators |-> IdleOperator]

-------------------------------------------------------------------------------
(* Queries of the request service. *)

ActiveOn(s) == {r \in Requests : status[r] \in Active /\ scope[r] = s}

ActiveRecoveryOf(q, a) ==
    {r \in Requests : status[r] \in Active /\ source[r] = q /\ action[r] = a}

Retryable(q) == {p \in Summaries : item[q][p] \in RetryableStatuses}

(* The primary key the next insert gets. *)
IsNextId(r) ==
    /\ status[r] = "absent"
    /\ \A q \in 1..(r - 1) : status[q] # "absent"

(* The insert of a request with its items.  Skipped items count as         *)
(* processed from the start, and a request with nothing to export is       *)
(* completed by the transaction that creates it.                           *)
StatusAtInsert(pending) == IF pending = {} THEN "completed" ELSE "queued"

CountsAtInsert(skipped) ==
    [NoCounts EXCEPT !.processed = Cardinality(skipped), !.skipped = Cardinality(skipped)]

Insert(s, q, a, pending, skipped) ==
    \E r \in Requests :
        /\ IsNextId(r)
        /\ status' = [status EXCEPT ![r] = StatusAtInsert(pending)]
        /\ scope' = [scope EXCEPT ![r] = s]
        /\ source' = [source EXCEPT ![r] = q]
        /\ action' = [action EXCEPT ![r] = a]
        /\ count' = [count EXCEPT ![r] = CountsAtInsert(skipped)]
        /\ item' = [item EXCEPT ![r] =
                      [p \in Summaries |-> IF p \in pending THEN "pending"
                                           ELSE IF p \in skipped THEN "skipped"
                                           ELSE "absent"]]
        /\ UNCHANGED <<claimed_by, run, worker>>

-------------------------------------------------------------------------------
(* Operators.  Begin* is what a transaction checks, the action after it    *)
(* what it writes and commits.                                             *)

Begins(o, pc, s, r) ==
    /\ operator[o].pc = "idle"
    /\ pc \in OperatorActions
    /\ operator' = [operator EXCEPT ![o] = [pc |-> pc, scope |-> s, req |-> r]]
    /\ UNCHANGED <<rows, worker>>

Ends(o) == operator' = [operator EXCEPT ![o] = IdleOperator]

BeginCreate(o, s) ==
    /\ ActiveOn(s) = {}
    /\ Begins(o, "create", s, None)

(* listed: the summaries found in the window; exportable: the complete ones.  *)
(* Both come from the usage and charge tables, which change on their own.     *)
Create(o) ==
    /\ operator[o].pc = "create"
    /\ \E listed \in (SUBSET Window[operator[o].scope]) \ {{}} :
         \E exportable \in SUBSET listed :
            Insert(operator[o].scope, None, None, exportable, listed \ exportable)
    /\ Ends(o)

(* Variant: only recoveries of the same kind are looked for. *)
BeginRecovery_SameActionOnly(o, q, a) ==
    /\ status[q] = "failed"
    /\ ActiveRecoveryOf(q, a) = {}
    /\ Retryable(q) # {}
    /\ Begins(o, a, scope[q], q)

BeginRecovery(o, q, a) ==
    /\ status[q] = "failed"
    /\ ActiveRecoveryOf(q, a) = {}
    /\ ActiveOn(scope[q]) = {}
    /\ Retryable(q) # {}
    /\ Begins(o, a, scope[q], q)

(* _create_recovery_request: a request for the scope of q that names it. *)
InsertRecovery(q, a, pending, skipped) == Insert(scope[q], q, a, pending, skipped)

(* A rerun copies the payloads of the retryable items of the failed request. *)
Rerun(o) ==
    LET q == operator[o].req IN
    /\ operator[o].pc = "rerun"
    /\ InsertRecovery(q, "rerun", Retryable(q), {})
    /\ Ends(o)

(* A recreate looks up today's summary of each retryable item; an item     *)
(* without one, or with one that is not exportable, is skipped.            *)
Recreate(o) ==
    LET q == operator[o].req IN
    /\ operator[o].pc = "recreate"
    /\ \E exportable \in SUBSET Retryable(q) :
          InsertRecovery(q, "recreate", exportable, Retryable(q) \ exportable)
    /\ Ends(o)

(* Variant: only a second cancel is refused. *)
BeginCancel_NotCancelled(o, r) ==
    /\ status[r] \notin {"absent", "cancelled"}
    /\ Begins(o, "cancel", scope[r], r)

BeginCancel(o, r) ==
    /\ status[r] = "queued"
    /\ Begins(o, "cancel", scope[r], r)

(* The UPDATE names the row by its key only: it waits for the row lock of a *)
(* claim and then overwrites what the claim wrote.                          *)
Cancel(o) ==
    /\ operator[o].pc = "cancel"
    /\ status' = [status EXCEPT ![operator[o].req] = "cancelled"]
    /\ Ends(o)
    /\ UNCHANGED <<scope, source, action, claimed_by, count, item, run, worker>>

(* No summary in the window, a lost connection: the transaction rolls back. *)
RollBack(o) ==
    /\ operator[o].pc # "idle"
    /\ Ends(o)
    /\ UNCHANGED <<rows, worker>>

OperatorNext(o) ==
    \/ \E s \in Scopes : BeginCreate(o, s)
    \/ \E q \in Requests, a \in RecoveryActions : BeginRecovery(o, q, a)
    \/ \E r \in Requests : BeginCancel(o, r)
    \/ Create(o)
    \/ Rerun(o)
    \/ Recreate(o)
    \/ Cancel(o)
    \/ RollBack(o)

-------------------------------------------------------------------------------
(* Workers: process_queued_billing_export_requests commits between the steps. *)

ClaimBy(w, r) ==
    /\ worker[w].pc = "idle"
    /\ status' = [status EXCEPT ![r] = "processing"]
    /\ claimed_by' = [claimed_by EXCEPT ![r] = w]
    /\ worker' = [worker EXCEPT ![w] =
                    [pc |-> "claimed", req |-> r, todo |-> {}, current |-> None]]
    /\ UNCHANGED <<scope, source, action, count, item, run, operator>>

(* Variants: requests under way are offered again; recoveries are not. *)
Claim_AnyActive(w, r) == status[r] \in Active /\ ClaimBy(w, r)
Claim_FirstTryOnly(w, r) == status[r] = "queued" /\ source[r] = None /\ ClaimBy(w, r)

(* SELECT ... FOR UPDATE SKIP LOCKED on a queued row and the commit that     *)
(* follows.  A worker takes the oldest queued request, or the one the caller *)
(* names, so any queued request may be next.                                 *)
Claim(w, r) == status[r] = "queued" /\ ClaimBy(w, r)

(* Variant: every item of the request is listed. *)
PendingItems_All(r) == {p \in Summaries : item[r][p] # "absent"}

PendingItems(r) == {p \in Summaries : item[r][p] = "pending"}

(* Opens the pipeline run, commits, and lists the pending items once. *)
StartRun(w) ==
    LET r == worker[w].req IN
    /\ worker[w].pc = "claimed"
    /\ run' = [run EXCEPT ![r] = "running"]
    /\ worker' = [worker EXCEPT ![w].pc = "items", ![w].todo = PendingItems(r)]
    /\ UNCHANGED <<status, scope, source, action, claimed_by, count, item, operator>>

(* The listed items are taken one after the other; their order is left open. *)
MarkItem(w, p) ==
    LET r == worker[w].req IN
    /\ worker[w].pc = "items"
    /\ p \in worker[w].todo
    /\ item' = [item EXCEPT ![r][p] = "processing"]
    /\ worker' = [worker EXCEPT ![w].pc = "item", ![w].current = p,
                                ![w].todo = @ \ {p}]
    /\ UNCHANGED <<status, scope, source, action, claimed_by, count, run, operator>>

CountSuccess(c) == [c EXCEPT !.processed = @ + 1, !.succeeded = @ + 1]

(* Variant: a failed item is not counted as processed. *)
CountFailure_NotProcessed(c) == [c EXCEPT !.failed = @ + 1]

CountFailure(c) == [c EXCEPT !.processed = @ + 1, !.failed = @ + 1]

CloseItem(w, outcome, newCount) ==
    LET r == worker[w].req IN
    /\ worker[w].pc = "item"
    /\ item' = [item EXCEPT ![r][worker[w].current] = outcome]
    /\ count' = [count EXCEPT ![r] = newCount]
    /\ worker' = [worker EXCEPT ![w].pc = "items", ![w].current = None]
    /\ UNCHANGED <<status, scope, source, action, claimed_by, run, operator>>

ItemSucceeds(w) == CloseItem(w, "completed", CountSuccess(count[worker[w].req]))

(* Staging the payload raised: roll back, then record the failure. *)
ItemFails(w) == CloseItem(w, "failed", CountFailure(count[worker[w].req]))

(* Variant: one staged item is enough. *)
Outcome_AnySuccess(r) == IF count[r].succeeded > 0 THEN "completed" ELSE "failed"

(* _finalize_request writes the status from the counters alone; a status *)
(* committed by someone else since the claim is overwritten.             *)
Outcome(r) == IF count[r].failed = 0 THEN "completed" ELSE "failed"

(* complete_pipeline_run, fail_pipeline_run *)
RunEnds(r, s) == run' = [run EXCEPT ![r] = s]

Finalize(w) ==
    LET r == worker[w].req IN
    /\ worker[w].pc = "items"
    /\ worker[w].todo = {}
    /\ status' = [status EXCEPT ![r] = Outcome(r)]
    /\ RunEnds(r, Outcome(r))
    /\ worker' = [worker EXCEPT ![w] = IdleWorker]
    /\ UNCHANGED <<scope, source, action, claimed_by, count, item, operator>>

(* Variant: the pipeline run is left open. *)
RequestFails_RunLeftOpen(w) ==
    LET r == worker[w].req IN
    /\ worker[w].pc # "idle"
    /\ status' = [status EXCEPT ![r] = "failed"]
    /\ worker' = [worker EXCEPT ![w] = IdleWorker]
    /\ UNCHANGED <<scope, source, action, claimed_by, count, item, run, operator>>

(* An exception outside the processing of an item, or while its failure is *)
(* recorded: the outer handler fails the request and leaves the items as   *)
(* they were committed.                                                    *)
RequestFails(w) ==
    LET r == worker[w].req IN
    /\ worker[w].pc # "idle"
    /\ status' = [status EXCEPT ![r] = "failed"]
    /\ RunEnds(r, IF run[r] = "running" THEN "failed" ELSE run[r])
    /\ worker' = [worker EXCEPT ![w] = IdleWorker]
    /\ UNCHANGED <<scope, source, action, claimed_by, count, item, operator>>

(* The process is killed or loses the database for good.  The next process *)
(* of this worker starts idle; nothing reclaims the request.               *)
Crash(w) ==
    /\ worker[w].pc # "idle"
    /\ worker' = [worker EXCEPT ![w] = IdleWorker]
    /\ UNCHANGED <<rows, operator>>

WorkerStep(w) ==
    \/ \E r \in Requests : Claim(w, r)
    \/ StartRun(w)
    \/ \E p \in Summaries : MarkItem(w, p)
    \/ ItemSucceeds(w)
    \/ ItemFails(w)
    \/ Finalize(w)
    \/ RequestFails(w)

Next ==
    \/ \E o \in Operators : OperatorNext(o)
    \/ \E w \in Workers : WorkerStep(w) \/ Crash(w)

Spec == Init /\ [][Next]_vars

(* A worker process is a loop without waits: it goes on until it is done or *)
(* dies, and it is started again as long as requests are queued.  Operators *)
(* owe nothing.                                                             *)
FairSpec == Spec /\ \A w \in Workers : WF_vars(WorkerStep(w))

-------------------------------------------------------------------------------
(* Safety. *)

(* The four counters of a request always count its items: each commit of the *)
(* worker moves one item and the counters together, failures included        *)
(* (_apply_successful_item_result, _apply_failed_item_result).               *)
CountersMatchItems ==
    \A r \in Requests :
        LET In(S) == Cardinality({p \in Summaries : item[r][p] \in S}) IN
        count[r] = [processed |-> In({"completed", "failed", "skipped"}),
                    succeeded |-> In({"completed"}),
                    failed    |-> In({"failed"}),
                    skipped   |-> In({"skipped"})]

(* A request reported completed left nothing behind: each of its items was *)
(* staged or was skipped (_finalize_request, create with no eligible item).  *)
CompletedMeansDelivered ==
    \A r \in Requests : status[r] = "completed" =>
        \A p \in Summaries : item[r][p] \in {"absent", "completed", "skipped"}

(* Two workers never work on one request (SKIP LOCKED claim), whatever      *)
(* cancels, crashes and restarts happen around them.                        *)
OneWorkerPerRequest ==
    \A v, w \in Workers :
        v # w /\ worker[v].req # None => worker[v].req # worker[w].req

(* A recovery request holds only work its source left unfinished, and the   *)
(* source still shows it as unfinished: recovering never repeats an item    *)
(* its source exported, nor rewrites the source.                            *)
RecoveryRetriesUnfinishedWork ==
    \A r \in Requests : source[r] # None =>
        /\ claimed_by[source[r]] # None
        /\ \A p \in Summaries :
              item[r][p] # "absent" => item[source[r]][p] \in {"failed", "pending"}

(* The pipeline run an operator sees tells the outcome of its request; only *)
(* a cancel that overtook the worker can hide it.                           *)
RunAgreesWithRequest ==
    \A r \in Requests :
        /\ run[r] \in {"completed", "failed"} => status[r] \in {run[r], "cancelled"}
        /\ run[r] = "running" => status[r] \in {"processing", "cancelled"}

(* No scope has two requests queued or processing.  This needs operators    *)
(* that do not overlap: nothing in the schema enforces it.                  *)
OneActivePerScope == \A s \in Scopes : Cardinality(ActiveOn(s)) <= 1

(* A request that ended without having been claimed, by a cancel or because *)
(* it had nothing to export, never changes again: no worker picks it up.    *)
UnclaimedEndIsFinal ==
    [][\A r \in Requests :
          status[r] \in Terminal /\ claimed_by[r] = None => status'[r] = status[r]]_vars

(* Progress: a queued request ends, unless the worker that claimed it died; *)
(* no other worker takes an orphan over.                                    *)
Orphaned(r) == status[r] = "processing" /\ \A w \in Workers : worker[w].req # r

QueuedRequestsEnd ==
    \A r \in Requests :
        status[r] = "queued" ~> status[r] \in Terminal \/ Orphaned(r)

-------------------------------------------------------------------------------
(* The queue as a work ledger: items are units, and a request is held by the *)
(* worker that claimed it until that worker is through with it or dies.      *)

EntryOf == [absent     |-> "absent",
            pending    |-> "open",
            processing |-> "taken",
            completed  |-> "done",
            failed     |-> "failed",
            skipped    |-> "skipped"]

HolderOf(r) ==
    IF claimed_by[r] = None THEN None
    ELSE IF worker[claimed_by[r]].req = r THEN claimed_by[r]
    ELSE Released

LedgerEntry == [r \in Requests |-> [p \in Summaries |-> EntryOf[item[r][p]]]]
LedgerHolder == [r \in Requests |-> HolderOf(r)]

Ledger == INSTANCE WorkLedger WITH
    Requests <- Requests,
    Units    <- Summaries,
    Workers  <- Workers,
    Nobody   <- None,
    Released <- Released,
    entry    <- LedgerEntry,
    holder   <- LedgerHolder

(* Every behaviour of the queue is one of the ledger: a request is claimed  *)
(* once, its items move one at a time while its worker holds it, and what   *)
(* is closed stays closed.                                                  *)
ImplementsLedger == Ledger!LedgerSpec

(* The inductive invariant behind the refinement and OneWorkerPerRequest.   *)
(* Before a request is claimed nobody has touched its items; afterwards     *)
(* claimed_by names the one worker that may.                                *)
RequestsInv ==
    \A r \in Requests :
        /\ status[r] \in {"absent", "queued"} => claimed_by[r] = None
        /\ status[r] = "absent" => \A p \in Summaries : item[r][p] = "absent"
        /\ claimed_by[r] = None =>
              \A p \in Summaries : item[r][p] \in {"absent", "pending", "skipped"}

HoldsRightly(w, r) ==
    /\ claimed_by[r] = w
    /\ worker[w].pc \in {"claimed", "items"} =>
          \A p \in Summaries : item[r][p] # "processing"
    /\ worker[w].pc \in {"items", "item"} =>
          \A p \in worker[w].todo : item[r][p] = "pending"
    /\ worker[w].pc = "item" =>
          \A p \in Summaries : item[r][p] = "processing" <=> p = worker[w].current

HoldersInv ==
    \A w \in Workers : \A r \in Requests : worker[w].req = r => HoldsRightly(w, r)

LedgerInv == RequestsInv /\ HoldersInv

(* The inductive invariant behind the other properties.  A request in the    *)
(* hand of a worker has not ended, its run says how far the worker is, and   *)
(* no item still pending is forgotten.                                       *)
InHand(w, r) ==
    /\ status[r] \in {"processing", "cancelled"}
    /\ run[r] = IF worker[w].pc = "claimed" THEN "none" ELSE "running"
    /\ worker[w].pc # "claimed" => PendingItems(r) \subseteq worker[w].todo

(* A request that was claimed and let go: nobody touches its items again.    *)
Ended(q) == claimed_by[q] # None /\ \A w \in Workers : worker[w].req # q

WorkInv ==
    /\ \A w \in Workers, r \in Requests : worker[w].req = r => InHand(w, r)
    /\ \A r \in Requests : status[r] = "failed" => Ended(r)

(* What an operator has found and not written yet.                           *)
OperatorInv(o) ==
    /\ operator[o].pc \in RecoveryActions => Ended(operator[o].req)
    /\ operator[o].pc = "cancel" /\ claimed_by[operator[o].req] = None =>
          status[operator[o].req] \in {"queued", "cancelled"}

SourcesInv == \A r \in Requests : source[r] # None => Ended(source[r])

QueueInv ==
    /\ WorkInv /\ SourcesInv
    /\ \A o \in Operators : OperatorInv(o)
    /\ CountersMatchItems /\ CompletedMeansDelivered
    /\ RunAgreesWithRequest /\ RecoveryRetriesUnfinishedWork

(* With one operator at a time: the scope it has found free stays free.      *)
FreeScope(o) ==
    operator[o].pc \in {"create"} \cup RecoveryActions =>
        /\ ActiveOn(operator[o].scope) = {}
        /\ operator[o].pc # "create" =>
              /\ operator[o].scope = scope[operator[o].req]
              /\ status[operator[o].req] # "absent"

===============================================================================
