------------------------------- MODULE VeeReplay -------------------------------
(***************************************************************************)
(* The VEE replay queue: an operator queues the re-evaluation of every     *)
(* initial measurement of a scope that has an active exception             *)
(* (app/services/vee_replay_requests.py); worker processes claim requests  *)
(* and replay their items one transaction at a time                        *)
(* (app/services/vee_replay_processor.py, processing_replay.py).           *)
(*                                                                         *)
(* Scopes overlap: a head-end system, an ingest batch and a date range may *)
(* hold the same measurement, so two requests can replay it.  What happens *)
(* to a measurement inside one replay is ProcessingCore's: here which      *)
(* measurements have an active exception, and what a replay of one ends    *)
(* with, is left open, because the console changes both at any time.       *)
(* A definition X_Reason is X with a mistake in it, used by no other one.  *)
(***************************************************************************)
EXTENDS Naturals, FiniteSets

CONSTANTS MaxRequests,    \* bound on the rows of vee_replay_request
          Workers,        \* worker processes
          Operators,      \* sessions of the web console
          Scopes,         \* request_scope with the columns that go with it
          Measurements,   \* initial measurements
          Covers,         \* Covers[s]: the measurements inside scope s
          None, Released

Requests == 1..MaxRequests

SuccessCodes == {"exception_reopened", "exception_cleared"}
ResultCodes == SuccessCodes \cup {"processing_error"}

ASSUME ReplayAssumption ==
    /\ MaxRequests \in Nat
    /\ Covers \in [Scopes -> SUBSET Measurements]
    /\ None \notin Workers \cup Scopes \cup Measurements
    /\ None \notin Nat \cup ResultCodes
    /\ Released \notin Workers \cup {None}
    /\ IsFiniteSet(Measurements)

VARIABLES status,     \* vee_replay_request.status, "absent" before the insert
          scope,      \* request_scope and its columns
          started,    \* started_at is set
          count,      \* the counters of the request
          item,       \* item[r][m]: vee_replay_request_item.status
          result,     \* result[r][m]: its result_code
          run,        \* status of the pipeline run of the request
          worker,     \* program counter and locals of each worker
          operator    \* what each operator's transaction has read

rows == <<status, scope, started, count, item, result, run>>
vars == <<rows, worker, operator>>

Active == {"queued", "processing"}
Terminal == {"completed", "failed", "cancelled"}
ItemStatuses == {"absent", "pending", "processing", "completed", "failed"}

Counts == [processed : Nat, succeeded : Nat, failed : Nat,
           reopened : Nat, cleared : Nat]
NoCounts == [processed |-> 0, succeeded |-> 0, failed |-> 0,
             reopened |-> 0, cleared |-> 0]

IdleWorker == [pc |-> "idle", req |-> None, todo |-> {}, current |-> None]
IdleOperator == [pc |-> "idle", scope |-> None, req |-> None, targets |-> {}]

RowsOK ==
    /\ status \in [Requests -> {"absent"} \cup Active \cup Terminal]
    /\ scope \in [Requests -> Scopes \cup {None}]
    /\ started \in [Requests -> BOOLEAN]
    /\ count \in [Requests -> Counts]
    /\ item \in [Requests -> [Measurements -> ItemStatuses]]
    /\ result \in [Requests -> [Measurements -> ResultCodes \cup {None}]]
    /\ run \in [Requests -> {"none", "running", "completed", "failed"}]

WorkersOK ==
    /\ worker \in [Workers -> [pc : {"idle", "claimed", "items", "item"},
                               req : Requests \cup {None},
                               todo : SUBSET Measurements,
                               current : Measurements \cup {None}]]
    /\ \A w \in Workers : /\ worker[w].pc = "idle" <=> worker[w].req = None
                          /\ worker[w].pc = "item" <=> worker[w].current # None

OperatorsOK ==
    /\ operator \in [Operators -> [pc : {"idle", "create", "cancel"},
                                   scope : Scopes \cup {None},
                                   req : Requests \cup {None},
                                   targets : SUBSET Measurements]]
    /\ \A o \in Operators : /\ operator[o].pc = "create" => operator[o].scope # None
                            /\ operator[o].pc = "cancel" => operator[o].req # None

(* The rows and the locals of the processes are well formed; a process that *)
(* is under way knows what it works on.                                     *)
TypeOK == RowsOK /\ WorkersOK /\ OperatorsOK

Init ==
    /\ status = [r \in Requests |-> "absent"]
    /\ scope = [r \in Requests |-> None]
    /\ started = [r \in Requests |-> FALSE]
    /\ count = [r \in Requests |-> NoCounts]
    /\ item = [r \in Requests |-> [m \in Measurements |-> "absent"]]
    /\ result = [r \in Requests |-> [m \in Measurements |-> None]]
    /\ run = [r \in Requests |-> "none"]
    /\ worker = [w \in Workers |-> IdleWorker]
    /\ operator = [o \in Operators |-> IdleOperator]

-------------------------------------------------------------------------------
(* Operators.  Begin* is what a transaction reads and checks, the action    *)
(* after it what it writes and commits.                                     *)

ActiveOn(s) == {r \in Requests : status[r] \in Active /\ scope[r] = s}

(* The measurements of the scope with an active exception: one target for  *)
(* each, whatever the number of its exceptions.                            *)
TargetSets(s) == (SUBSET Covers[s]) \ {{}}

(* The primary key the next insert gets. *)
IsNextId(r) ==
    /\ status[r] = "absent"
    /\ \A q \in 1..(r - 1) : status[q] # "absent"

Begins(o, t) ==
    /\ operator[o].pc = "idle"
    /\ operator' = [operator EXCEPT ![o] = t]
    /\ UNCHANGED <<rows, worker>>

Ends(o) == operator' = [operator EXCEPT ![o] = IdleOperator]

(* Variant: a request under way does not count as active. *)
BeginCreate_QueuedOnly(o, s) ==
    /\ \A r \in ActiveOn(s) : status[r] = "processing"
    /\ \E T \in TargetSets(s) :
          Begins(o, [pc |-> "create", scope |-> s, req |-> None, targets |-> T])

BeginCreate(o, s) ==
    /\ ActiveOn(s) = {}
    /\ \E T \in TargetSets(s) :
          Begins(o, [pc |-> "create", scope |-> s, req |-> None, targets |-> T])

Create(o) ==
    /\ operator[o].pc = "create"
    /\ \E r \in Requests :
        /\ IsNextId(r)
        /\ status' = [status EXCEPT ![r] = "queued"]
        /\ scope' = [scope EXCEPT ![r] = operator[o].scope]
        /\ item' = [item EXCEPT ![r] =
                       [m \in Measurements |->
                           IF m \in operator[o].targets THEN "pending" ELSE "absent"]]
    /\ Ends(o)
    /\ UNCHANGED <<started, count, result, run, worker>>

(* Variant: whatever has not been cancelled yet. *)
BeginCancel_NotCancelled(o, r) ==
    /\ status[r] \notin {"absent", "cancelled"}
    /\ Begins(o, [pc |-> "cancel", scope |-> None, req |-> r, targets |-> {}])

BeginCancel(o, r) ==
    /\ status[r] = "queued"
    /\ Begins(o, [pc |-> "cancel", scope |-> None, req |-> r, targets |-> {}])

(* The UPDATE names the row by its key: it overwrites a claim committed    *)
(* since the status was read.                                              *)
Cancel(o) ==
    /\ operator[o].pc = "cancel"
    /\ status' = [status EXCEPT ![operator[o].req] = "cancelled"]
    /\ Ends(o)
    /\ UNCHANGED <<scope, started, count, item, result, run, worker>>

RollBack(o) ==
    /\ operator[o].pc # "idle"
    /\ Ends(o)
    /\ UNCHANGED <<rows, worker>>

OperatorNext(o) ==
    \/ \E s \in Scopes : BeginCreate(o, s)
    \/ \E r \in Requests : BeginCancel(o, r)
    \/ Create(o)
    \/ Cancel(o)
    \/ RollBack(o)

-------------------------------------------------------------------------------
(* Workers: process_queued_vee_replay_requests commits between the steps. *)

(* Variants: requests under way are offered again; the last request waits  *)
(* for a newer one.                                                        *)
IsClaimable_AnyActive(r) == status[r] \in Active
IsClaimable_NotFirst(r) == status[r] = "queued" /\ r > 1

(* SELECT ... FOR UPDATE SKIP LOCKED on a queued row: the oldest, or the one *)
(* the caller names, so any queued request may be next.                      *)
IsClaimable(r) == status[r] = "queued"

Claim(w, r) ==
    /\ worker[w].pc = "idle"
    /\ IsClaimable(r)
    /\ status' = [status EXCEPT ![r] = "processing"]
    /\ started' = [started EXCEPT ![r] = TRUE]
    /\ worker' = [worker EXCEPT ![w] =
                    [pc |-> "claimed", req |-> r, todo |-> {}, current |-> None]]
    /\ UNCHANGED <<scope, count, item, result, run, operator>>

PendingItems(r) == {m \in Measurements : item[r][m] = "pending"}

(* Opens the pipeline run, commits, and lists the pending items once. *)
StartRun(w) ==
    LET r == worker[w].req IN
    /\ worker[w].pc = "claimed"
    /\ run' = [run EXCEPT ![r] = "running"]
    /\ worker' = [worker EXCEPT ![w].pc = "items", ![w].todo = PendingItems(r)]
    /\ UNCHANGED <<status, scope, started, count, item, result, operator>>

MarkItem(w, m) ==
    LET r == worker[w].req IN
    /\ worker[w].pc = "items"
    /\ m \in worker[w].todo
    /\ item' = [item EXCEPT ![r][m] = "processing"]
    /\ worker' = [worker EXCEPT ![w].pc = "item", ![w].current = m, ![w].todo = @ \ {m}]
    /\ UNCHANGED <<status, scope, started, count, result, run, operator>>

CloseItem(w, outcome, code, newCount) ==
    LET r == worker[w].req
        m == worker[w].current
    IN
    /\ worker[w].pc = "item"
    /\ item' = [item EXCEPT ![r][m] = outcome]
    /\ result' = [result EXCEPT ![r][m] = code]
    /\ count' = [count EXCEPT ![r] = newCount]
    /\ worker' = [worker EXCEPT ![w].pc = "items", ![w].current = None]
    /\ UNCHANGED <<status, scope, started, run, operator>>

(* A replay resolves every active exception and evaluates again: the rules   *)
(* find something (reopened) or nothing (cleared).  What a cleared item did  *)
(* to finals and usage has its own codes and two more counters, left out.    *)
One(b) == IF b THEN 1 ELSE 0

(* Variant: resolving the former exceptions is taken for clearing them. *)
CountResult_AllCleared(c, code) ==
    [c EXCEPT !.processed = @ + 1,
              !.succeeded = @ + 1,
              !.reopened = @ + One(code = "exception_reopened"),
              !.cleared = @ + 1]

CountResult(c, code) ==
    [c EXCEPT !.processed = @ + 1,
              !.succeeded = @ + 1,
              !.reopened = @ + One(code = "exception_reopened"),
              !.cleared = @ + One(code = "exception_cleared")]

(* The replay and the counting of it are one transaction. *)
ItemSucceeds(w) ==
    \E code \in SuccessCodes :
        CloseItem(w, "completed", code, CountResult(count[worker[w].req], code))

(* The replay raised: its transaction is rolled back, the failure recorded. *)
ItemFails(w) ==
    LET c == count[worker[w].req] IN
    CloseItem(w, "failed", "processing_error",
              [c EXCEPT !.processed = @ + 1, !.failed = @ + 1])

(* _finalize_request writes the status from the counters alone. *)
Outcome(r) == IF count[r].failed = 0 THEN "completed" ELSE "failed"

Finalize(w) ==
    LET r == worker[w].req IN
    /\ worker[w].pc = "items"
    /\ worker[w].todo = {}
    /\ status' = [status EXCEPT ![r] = Outcome(r)]
    /\ run' = [run EXCEPT ![r] = Outcome(r)]
    /\ worker' = [worker EXCEPT ![w] = IdleWorker]
    /\ UNCHANGED <<scope, started, count, item, result, operator>>

(* An exception outside the replay of an item: the request fails and its   *)
(* items stay as they were committed.                                      *)
RequestFails(w) ==
    LET r == worker[w].req IN
    /\ worker[w].pc # "idle"
    /\ status' = [status EXCEPT ![r] = "failed"]
    /\ run' = [run EXCEPT ![r] = IF @ = "running" THEN "failed" ELSE @]
    /\ worker' = [worker EXCEPT ![w] = IdleWorker]
    /\ UNCHANGED <<scope, started, count, item, result, operator>>

(* The process is killed.  Nothing reclaims its request. *)
Crash(w) ==
    /\ worker[w].pc # "idle"
    /\ worker' = [worker EXCEPT ![w] = IdleWorker]
    /\ UNCHANGED <<rows, operator>>

WorkerStep(w) ==
    \/ \E r \in Requests : Claim(w, r)
    \/ StartRun(w)
    \/ \E m \in Measurements : MarkItem(w, m)
    \/ ItemSucceeds(w)
    \/ ItemFails(w)
    \/ Finalize(w)
    \/ RequestFails(w)

Next ==
    \/ \E o \in Operators : OperatorNext(o)
    \/ \E w \in Workers : WorkerStep(w) \/ Crash(w)

Spec == Init /\ [][Next]_vars

(* A worker is a loop without waits and is started again as long as requests *)
(* are queued.  Operators owe nothing.                                       *)
FairSpec == Spec /\ \A w \in Workers : WF_vars(WorkerStep(w))

-------------------------------------------------------------------------------
(* What the request page reports is what its items say, over failures that *)
(* roll a replay back and over crashes between two items: each succeeded    *)
(* item either reopened or cleared (_apply_successful_item_result).         *)
CountersMatchItems ==
    /\ TypeOK
    /\ \A r \in Requests :
          LET With(codes) == Cardinality({m \in Measurements : result[r][m] \in codes})
          IN  count[r] = [processed |-> With(ResultCodes),
                          succeeded |-> With(SuccessCodes),
                          failed    |-> With({"processing_error"}),
                          reopened  |-> With({"exception_reopened"}),
                          cleared   |-> With({"exception_cleared"})]

(* No scope has two requests queued or processing, also while a late cancel *)
(* overwrites a claim and workers die.  It takes creations that do not      *)
(* overlap: nothing in the schema enforces it.                              *)
OneActivePerScope == \A s \in Scopes : Cardinality(ActiveOn(s)) <= 1

(* Progress: a queued request ends, unless the worker that claimed it died; *)
(* no other worker takes an orphan over.                                    *)
Orphaned(r) == status[r] = "processing" /\ \A w \in Workers : worker[w].req # r

QueuedRequestsEnd ==
    \A r \in Requests :
        status[r] = "queued" ~> status[r] \in Terminal \/ Orphaned(r)

-------------------------------------------------------------------------------
(* The queue as a work ledger.  There is no claimed_by column: a started    *)
(* request that no process works on has been let go.                        *)

EntryOf == [absent     |-> "absent",
            pending    |-> "open",
            processing |-> "taken",
            completed  |-> "done",
            failed     |-> "failed"]

HolderOf(r) ==
    IF \E w \in Workers : worker[w].req = r
    THEN CHOOSE w \in Workers : worker[w].req = r
    ELSE IF started[r] THEN Released ELSE None

LedgerEntry == [r \in Requests |-> [m \in Measurements |-> EntryOf[item[r][m]]]]
LedgerHolder == [r \in Requests |-> HolderOf(r)]

Ledger == INSTANCE WorkLedger WITH
    Requests <- Requests,
    Units    <- Measurements,
    Workers  <- Workers,
    Nobody   <- None,
    Released <- Released,
    entry    <- LedgerEntry,
    holder   <- LedgerHolder

(* "one vee_replay_request may be claimed by only one worker": it is taken   *)
(* once, its items move one at a time while its worker holds it, a closed    *)
(* item stays closed, and a request that was let go is not resumed.          *)
ImplementsLedger == Ledger!LedgerSpec

(* The inductive invariant behind the refinement.  A request that has not    *)
(* started is untouched and in no hand; a started one is in one hand at most. *)
RequestsInv ==
    \A r \in Requests :
        /\ status[r] \in {"absent", "queued"} => ~ started[r]
        /\ status[r] = "absent" => \A m \in Measurements : item[r][m] = "absent"
        /\ ~ started[r] => \A m \in Measurements : item[r][m] \in {"absent", "pending"}

HoldsRightly(w, r) ==
    /\ started[r]
    /\ worker[w].pc \in {"claimed", "items"} =>
          \A m \in Measurements : item[r][m] # "processing"
    /\ worker[w].pc \in {"items", "item"} =>
          \A m \in worker[w].todo : item[r][m] = "pending"
    /\ worker[w].pc = "item" =>
          \A m \in Measurements : item[r][m] = "processing" <=> m = worker[w].current

HoldersInv ==
    /\ \A w \in Workers : \A r \in Requests : worker[w].req = r => HoldsRightly(w, r)
    /\ \A v, w \in Workers :
          worker[v].req # None /\ worker[v].req = worker[w].req => v = w

LedgerInv == RequestsInv /\ HoldersInv

(* An item has a result once it is closed.  With it, the counters count the  *)
(* results of the items.                                                     *)
ResultsInv ==
    \A r \in Requests, m \in Measurements :
        result[r][m] # None => item[r][m] \in {"completed", "failed"}

(* With one operator at a time: the scope it has found free stays free.      *)
FreeScope(o) == operator[o].pc = "create" => ActiveOn(operator[o].scope) = {}

================================================================================
