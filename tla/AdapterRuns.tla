------------------------------ MODULE AdapterRuns ------------------------------
(***************************************************************************)
(* The polling runtime: adapter_instance, adapter_run, adapter_watermark   *)
(* (app/services/adapters.py, app/services/adapter_execution.py).          *)
(*                                                                         *)
(* Operators and a scheduler queue runs; processors take them.  A command  *)
(* process-adapter-runs is ONE transaction: it takes up to Limit runs one  *)
(* after the other, keeps the row locks of their instances, and commits    *)
(* all of it or nothing.  The savepoint around a run only decides whether  *)
(* the rows it read stay.  Nothing of a transaction is seen by another one *)
(* before its commit, so nobody ever sees a run in status running.         *)
(*                                                                         *)
(* A source is a table outside the system that grows in cursor order.  Its *)
(* rows are numbered in that order; Cursor gives the value the watermark   *)
(* compares (a timestamp, or write date, hour, meter and channel).         *)
(* X_Reason is a variant of X that some plausible mistake would produce.   *)
(***************************************************************************)
EXTENDS Naturals, FiniteSets, FiniteSetsExt, Functions

CONSTANTS Instances,       \* polling adapter instances
          Processors,      \* processes that run process-adapter-runs
          Operators,       \* web requests and enqueue-scheduled-adapter-runs
          OperatorActions, \* what the operators of an instance may do
          MaxRuns,         \* bound on adapter_run rows
          MaxRows,         \* bound on the rows of a source
          Cursor,          \* Cursor[x]: the cursor of source row x
          BatchSize,       \* adapter_instance.batch_size
          Limit,           \* runs per command
          None

Runs == 1..MaxRuns
Rows == 1..MaxRows
AdminStates == {"enabled", "paused"}
Actions == {"run_once", "schedule", "set"}

RunRow == [on : Instances \cup {None},
           status : {"absent", "waiting", "completed", "failed"},
           before : Nat \cup {None}, after : Nat \cup {None},
           reads : SUBSET Rows]
InstanceRow == [state : AdminStates, next : {None, "later", "due"}]

ASSUME AdapterAssumption ==
    /\ MaxRuns \in Nat
    /\ MaxRows \in Nat
    /\ BatchSize \in Nat \ {0}
    /\ Limit \in Nat \ {0}
    /\ Cursor \in [Rows -> Nat \ {0}]
    /\ \A x, y \in Rows : x <= y => Cursor[x] <= Cursor[y]
    /\ OperatorActions \subseteq Actions
    /\ None \notin Nat \cup Instances \cup AdminStates \cup RunRow \cup InstanceRow

VARIABLES admin_state,   \* adapter_instance.admin_state
          next_run_at,   \* adapter_instance.next_run_at: None, "later" or "due"
          run,           \* run[r]: the adapter_run and the raw reads linked to it
          watermark,     \* adapter_watermark.cursor_value, 0 before the first poll
          source,        \* source[a]: how many rows the source of a has so far
          processor,     \* the open transaction of each processor
          operator       \* the open transaction of each operator

rows == <<admin_state, next_run_at, run, watermark>>
vars == <<rows, source, processor, operator>>

NoRun == [on |-> None, status |-> "absent", before |-> None, after |-> None, reads |-> {}]

(* ended: the runs the transaction has finished and not committed; seen: the *)
(* instance row as it loaded it; mark: the watermark as it left it, None as  *)
(* long as it holds no lock on the instance.                                 *)
Transaction == [pc : {"idle", "claimed", "running", "open"},
                run : Runs \cup {None},
                ended : [Runs -> RunRow \cup {None}],
                seen : [Instances -> InstanceRow \cup {None}],
                mark : [Instances -> Nat \cup {None}]]
Idle == [pc |-> "idle", run |-> None,
         ended |-> [r \in Runs |-> None],
         seen |-> [a \in Instances |-> None],
         mark |-> [a \in Instances |-> None]]
IdleOperator == [pc |-> "idle", on |-> {}, target |-> None]

RowsOK ==
    /\ admin_state \in [Instances -> AdminStates]
    /\ next_run_at \in [Instances -> {None, "later", "due"}]
    /\ run \in [Runs -> RunRow]
    /\ watermark \in [Instances -> Nat]

(* The rows are well formed; an open transaction knows what it works on. *)
TypeOK ==
    /\ RowsOK
    /\ source \in [Instances -> 0..MaxRows]
    /\ processor \in [Processors -> Transaction]
    /\ operator \in [Operators -> [pc : {"idle"} \cup Actions, on : SUBSET Instances,
                                   target : AdminStates \cup {None}]]
    /\ \A r \in Runs : run[r].status # "absent" <=> run[r].on # None
    /\ \A p \in Processors : processor[p].pc \in {"claimed", "running"} <=> processor[p].run # None
    /\ \A o \in Operators : operator[o].pc = "set" <=> operator[o].target # None

Init ==
    /\ admin_state = [a \in Instances |-> "enabled"]
    /\ next_run_at = [a \in Instances |-> "later"]
    /\ run = [r \in Runs |-> NoRun]
    /\ watermark = [a \in Instances |-> 0]
    /\ source = [a \in Instances |-> 0]
    /\ processor = [p \in Processors |-> Idle]
    /\ operator = [o \in Operators |-> IdleOperator]


--------------------------------------------------------------------------------
(* Queueing runs.  Begin* is what a transaction checks, the action after it *)
(* what it writes and commits.                                              *)

(* A run in progress is still waiting for everyone but its processor. *)
ActiveOn(a) == {r \in Runs : run[r].on = a /\ run[r].status = "waiting"}

Begins(o, pc, on, target) ==
    /\ operator[o].pc = "idle"
    /\ pc \in OperatorActions
    /\ operator' = [operator EXCEPT ![o] = [pc |-> pc, on |-> on, target |-> target]]
    /\ UNCHANGED <<rows, source, processor>>

Ends(o) == operator' = [operator EXCEPT ![o] = IdleOperator]

BeginRunOnce(o, a) == ActiveOn(a) = {} /\ Begins(o, "run_once", {a}, None)

(* Variant: an instance with a queued run is not skipped. *)
Eligible_Queued == {a \in Instances : admin_state[a] = "enabled" /\ next_run_at[a] = "due"}

(* The scheduler takes every enabled instance that is due and has no run. *)
Eligible == {a \in Instances : /\ admin_state[a] = "enabled"
                               /\ next_run_at[a] = "due"
                               /\ ActiveOn(a) = {}}

BeginSchedule(o) == Eligible # {} /\ Begins(o, "schedule", Eligible, None)

Unused == {r \in Runs : run[r].status = "absent"}

(* The inserts get the next primary keys. *)
NextIds(n) == {r \in Unused : Cardinality({q \in Unused : q < r}) < n}

Queue(o) ==
    LET on == operator[o].on
        n == Cardinality(on) IN
    /\ operator[o].pc \in {"run_once", "schedule"}
    /\ n <= Cardinality(Unused)
    /\ \E a \in [NextIds(n) -> on] :
          /\ IsInjective(a)
          /\ run' = [r \in Runs |-> IF r \in NextIds(n)
                                    THEN [NoRun EXCEPT !.on = a[r], !.status = "waiting"]
                                    ELSE run[r]]
    /\ Ends(o)
    /\ UNCHANGED <<admin_state, next_run_at, watermark, source, processor>>

BeginSet(o, a, target) ==
    /\ admin_state[a] # target
    /\ Begins(o, "set", {a}, target)

(* Variant: the row of an instance is not locked by what was written to it. *)
Free_NoLock(a, p) == TRUE

(* Nobody but p has written the row of instance a and not committed. *)
Free(a, p) == \A q \in Processors \ {p} : processor[q].mark[a] = None

(* Enable or pause: next_run_at is left as it is. *)
Set(o) ==
    /\ operator[o].pc = "set"
    /\ \A a \in operator[o].on : Free(a, None)
    /\ admin_state' = [a \in Instances |-> IF a \in operator[o].on THEN operator[o].target
                                           ELSE admin_state[a]]
    /\ Ends(o)
    /\ UNCHANGED <<next_run_at, run, watermark, source, processor>>

RollBack(o) ==
    /\ operator[o].pc # "idle"
    /\ Ends(o)
    /\ UNCHANGED <<rows, source, processor>>

OperatorNext(o) ==
    \/ \E a \in Instances : BeginRunOnce(o, a)
    \/ BeginSchedule(o)
    \/ \E a \in Instances, target \in AdminStates : BeginSet(o, a, target)
    \/ Queue(o)
    \/ Set(o)
    \/ RollBack(o)

--------------------------------------------------------------------------------
(* Processors. *)

InHand(p, r) == processor[p].run = r \/ processor[p].ended[r] # None

(* Variants: a locked run is waited for; runs of paused instances are left. *)
Claimable_Locked(p) == {r \in Runs : run[r].status = "waiting" /\ ~InHand(p, r)}
Claimable_EnabledOnly(p) == {r \in Runs : /\ run[r].status = "waiting"
                                          /\ admin_state[run[r].on] = "enabled"
                                          /\ \A q \in Processors : ~InHand(q, r)}

(* SELECT ... FOR UPDATE SKIP LOCKED: waiting runs no transaction has taken. *)
Claimable(p) == {r \in Runs : /\ run[r].status = "waiting"
                              /\ \A q \in Processors : ~InHand(q, r)}

Finished(p) == {r \in Runs : processor[p].ended[r] # None}

MayClaim(p) == Cardinality(Finished(p)) < Limit /\ Claimable(p) # {}

(* What is loaded once stays. *)
Once(old, new) == IF old = None THEN new ELSE old

Loaded(a) == [state |-> admin_state[a], next |-> next_run_at[a]]

(* Takes a run and loads it with its instance; an instance that is already  *)
(* in the session keeps the attributes it was loaded with.  The oldest run  *)
(* is taken, or the one the caller names, so any may be next.               *)
Claim(p) ==
    /\ processor[p].pc \in {"idle", "open"}
    /\ MayClaim(p)
    /\ \E r \in Claimable(p) :
          processor' = [processor EXCEPT ![p].pc = "claimed", ![p].run = r,
                            
                            ![p].seen[run[r].on] = Once(processor[p].seen[run[r].on],
                                                        Loaded(run[r].on))]
    /\ UNCHANGED <<rows, source, operator>>

(* The flush of status running and of the heartbeat waits for the row lock  *)
(* of the instance (and for the unique index on running runs).  Only then   *)
(* is the watermark loaded.                                                 *)
Lock(p) ==
    LET a == run[processor[p].run].on IN
    /\ processor[p].pc = "claimed"
    /\ Free(a, p)
    /\ processor' = [processor EXCEPT ![p].pc = "running",
                         ![p].mark[a] = Once(processor[p].mark[a], watermark[a])]
    /\ UNCHANGED <<rows, source, operator>>

(* What a poll fetches: the first BatchSize rows beyond the watermark. *)
Batch(a, mark) ==
    LET new == {x \in 1..source[a] : Cursor[x] > mark} IN
    {x \in new : Cardinality({y \in new : y < x}) < BatchSize}

(* The cursor of the last row fetched. *)
Reached(mark, batch) == IF batch = {} THEN mark ELSE Cursor[Max(batch)]

Closes(p, row, mark) ==
    /\ processor' = [processor EXCEPT ![p].pc = "open", ![p].run = None,
                         ![p].ended[processor[p].run] = row,
                         ![p].mark[run[processor[p].run].on] = mark]
    /\ UNCHANGED <<rows, source, operator>>

Complete(p) ==
    LET r == processor[p].run
        a == run[r].on
        mark == processor[p].mark[a]
        batch == Batch(a, mark) IN
    /\ processor[p].pc = "running"
    /\ Closes(p, [run[r] EXCEPT !.status = "completed", !.before = mark,
                                !.after = Reached(mark, batch), !.reads = batch],
              Reached(mark, batch))

(* Variant: the watermark is moved before the outcome is known. *)
Fail_Advances(p) ==
    LET r == processor[p].run
        mark == processor[p].mark[run[r].on]
        reached == Reached(mark, Batch(run[r].on, mark)) IN
    /\ processor[p].pc = "running"
    /\ Closes(p, [run[r] EXCEPT !.status = "failed", !.before = mark, !.after = reached], reached)

(* Fetching, ingesting or merging the windows raised: the savepoint takes   *)
(* the rows back.  The run notes the watermarks of its envelope if it had   *)
(* come to have one; the watermark itself stays.                            *)
Fail(p) ==
    LET r == processor[p].run
        mark == processor[p].mark[run[r].on] IN
    /\ processor[p].pc = "running"
    /\ \E fetched \in BOOLEAN :
          Closes(p, [run[r] EXCEPT !.status = "failed",
                         !.before = IF fetched THEN mark ELSE None,
                         !.after = IF fetched THEN Reached(mark, Batch(run[r].on, mark)) ELSE None],
                 mark)

(* Only an instance that was enabled is scheduled again; an empty date that  *)
(* stays empty is not written.                                               *)
NextRun(a, seen) == CASE seen.state = "enabled" -> "later"
                      [] seen.state = "paused" /\ seen.next # None -> None
                      [] OTHER -> next_run_at[a]

Touched(p) == {run[r].on : r \in Finished(p)}

Commit(p) ==
    /\ processor[p].pc = "open"
    /\ ~MayClaim(p)
    /\ run' = [r \in Runs |-> IF r \in Finished(p) THEN processor[p].ended[r] ELSE run[r]]
    /\ watermark' = [a \in Instances |-> IF a \in Touched(p) THEN processor[p].mark[a]
                                         ELSE watermark[a]]
    /\ next_run_at' = [a \in Instances |-> IF a \in Touched(p) THEN NextRun(a, processor[p].seen[a])
                                           ELSE next_run_at[a]]
    /\ processor' = [processor EXCEPT ![p] = Idle]
    /\ UNCHANGED <<admin_state, source, operator>>

(* The process is killed, the connection is lost, or the database breaks a  *)
(* deadlock: everything since the first claim is undone.                    *)
Crash(p) ==
    /\ processor[p].pc # "idle"
    /\ processor' = [processor EXCEPT ![p] = Idle]
    /\ UNCHANGED <<rows, source, operator>>

ProcessorStep(p) ==
    \/ Claim(p)
    \/ Lock(p)
    \/ Complete(p)
    \/ Fail(p)
    \/ Commit(p)

--------------------------------------------------------------------------------
(* The world outside: time passes, sources grow. *)

Tick(a) ==
    /\ next_run_at[a] = "later"
    /\ next_run_at' = [next_run_at EXCEPT ![a] = "due"]
    /\ UNCHANGED <<admin_state, run, watermark, source, processor, operator>>

Arrive(a) ==
    /\ source[a] < MaxRows
    /\ source' = [source EXCEPT ![a] = @ + 1]
    /\ UNCHANGED <<rows, processor, operator>>

Next ==
    \/ \E p \in Processors : ProcessorStep(p) \/ Crash(p)
    \/ \E o \in Operators : OperatorNext(o)
    \/ \E a \in Instances : Tick(a) \/ Arrive(a)

Spec == Init /\ [][Next]_vars

(* A timer starts every processor again and again; crashes come to an end. *)
FairSpec ==
    /\ Spec
    /\ \A p \in Processors : WF_vars(ProcessorStep(p))
    /\ <>[][\A p \in Processors : ~Crash(p)]_vars

--------------------------------------------------------------------------------
(* Properties. *)

Completed(a) == {r \in Runs : run[r].on = a /\ run[r].status = "completed"}

(* The runs an operator reads tell how the watermark came about: each one   *)
(* starts where another one ended, the watermark is where the last one      *)
(* ended, and rows belong only to runs that moved it.                       *)
WatermarkTrail ==
    \A a \in Instances :
        LET ends == {run[r].after : r \in Completed(a)} \cup {0} IN
        /\ watermark[a] \in ends
        /\ \A r \in Completed(a) : /\ run[r].before \in ends
                                   /\ run[r].after <= watermark[a]
        /\ \A r \in Runs : run[r].on = a /\ run[r].reads # {} =>
              run[r].status = "completed" /\ run[r].before < run[r].after

(* A run is in the hands of one processor, which has loaded its instance,   *)
(* and which holds the lock on it once the run goes on; nobody else does.   *)
Holds(p, a) == processor[p].mark[a] # None

Exclusive ==
    /\ \A p, q \in Processors, a \in Instances : Holds(p, a) /\ Holds(q, a) => p = q
    /\ \A p, q \in Processors, r \in Runs : InHand(p, r) /\ InHand(q, r) => p = q
    /\ \A p \in Processors, r \in Runs : InHand(p, r) =>
          run[r].status = "waiting" /\ processor[p].seen[run[r].on] # None
    /\ \A p \in Processors, r \in Runs : processor[p].ended[r] # None =>
          /\ processor[p].run # r
          /\ processor[p].ended[r].on = run[r].on
          /\ processor[p].ended[r].status \in {"completed", "failed"}
          /\ Holds(p, run[r].on)
    /\ \A p \in Processors : processor[p].pc = "running" => Holds(p, run[processor[p].run].on)

(* What an open transaction has read of a source and who read it. *)
Takers(p, a, x) == {r \in Runs : /\ processor[p].ended[r] # None
                                 /\ processor[p].ended[r].on = a
                                 /\ x \in processor[p].ended[r].reads}

(* Rows that belong to a run are behind the watermark, and the watermark is *)
(* behind the end of the source; so it is within an open transaction, which *)
(* has given each row it went past to exactly one of its runs.              *)
MarksCover ==
    /\ \A a \in Instances, x \in Rows : Cursor[x] <= watermark[a] => x <= source[a]
    /\ \A r \in Runs : \A x \in run[r].reads :
          run[r].status = "completed" /\ Cursor[x] <= watermark[run[r].on]
    /\ \A p \in Processors, r \in Runs :
          processor[p].ended[r] # None /\ processor[p].ended[r].reads # {} =>
              processor[p].ended[r].status = "completed"
    /\ \A p \in Processors, a \in Instances : Holds(p, a) =>
          /\ watermark[a] <= processor[p].mark[a]
          /\ \A x \in Rows :
                /\ Cursor[x] <= processor[p].mark[a] => x <= source[a]
                /\ IF watermark[a] < Cursor[x] /\ Cursor[x] <= processor[p].mark[a]
                   THEN \E r \in Runs : Takers(p, a, x) = {r}
                   ELSE Takers(p, a, x) = {}

(* The cursors of a source tell its rows apart.  Those of LP_EM do; the     *)
(* timestamps of the sample source may not.                                 *)
NoTies == \A x, y \in Rows : x < y => Cursor[x] < Cursor[y]

(* The two together are what makes polling exactly-once. *)
PollInv == Exclusive /\ MarksCover

(* No source row is read by two runs, and none up to the watermark is       *)
(* skipped, whatever overlaps, fails or crashes: the refinement below.      *)
Intake == INSTANCE OrderedIntake WITH
    Sources <- Instances, Readers <- Runs, Position <- Cursor, upto <- watermark,
    taken <- [a \in Instances |-> [x \in Rows |->
                 {r \in Runs : run[r].on = a /\ x \in run[r].reads}]]

ImplementsIntake == Intake!IntakeSpec

(* An instance has at most one run that is waiting or in progress.  Nothing *)
(* in the schema says so: operators must not overlap.                       *)
OneActiveRun == \A a \in Instances : Cardinality(ActiveOn(a)) <= 1

(* Processors never wait for each other's instances in a circle: the        *)
(* database never has to kill one of them.                                  *)
WaitsFor(p, q) ==
    /\ p # q
    /\ processor[p].pc = "claimed"
    /\ processor[q].mark[run[processor[p].run].on] # None

NoWaitCycle == \A p, q \in Processors : ~(WaitsFor(p, q) /\ WaitsFor(q, p))

(* A queued run ends, completed or failed: a crash leaves it queued.     *)
QueuedRunsEnd ==
    \A r \in Runs : run[r].status = "waiting" ~> run[r].status \in {"completed", "failed"}

(* Behind WatermarkTrail: what the rows tell is also what a transaction that *)
(* holds an instance has added to them so far.                               *)
EndsAt(row, a, n) == row.on = a /\ row.status = "completed" /\ row.after = n

Shown(a, n) == n = 0 \/ \E r \in Runs : EndsAt(run[r], a, n)

SeenBy(p, a, n) ==
    \/ Shown(a, n)
    \/ \E r \in Runs : processor[p].ended[r] # None /\ EndsAt(processor[p].ended[r], a, n)

RowTold(row) ==
    /\ row.status = "completed" => row.before \in Nat /\ row.after \in Nat
    /\ row.reads # {} => row.status = "completed" /\ row.before < row.after

RunTold(r) ==
    /\ RowTold(run[r])
    /\ run[r].status = "completed" => /\ Shown(run[r].on, run[r].before)
                                      /\ run[r].after <= watermark[run[r].on]

MarkTold(p, a) ==
    Holds(p, a) => SeenBy(p, a, processor[p].mark[a]) /\ watermark[a] <= processor[p].mark[a]

EndedTold(p, r) ==
    LET row == processor[p].ended[r] IN
    row # None =>
        /\ RowTold(row)
        /\ row.status = "completed" => /\ SeenBy(p, row.on, row.before)
                                       /\ row.after <= processor[p].mark[row.on]

TrailInv ==
    /\ \A a \in Instances : Shown(a, watermark[a])
    /\ \A r \in Runs : RunTold(r)
    /\ \A p \in Processors, a \in Instances : MarkTold(p, a)
    /\ \A p \in Processors, r \in Runs : EndedTold(p, r)

(* Behind OneActiveRun, with one operator at a time: the instances it has    *)
(* found free stay free; and a lock is held for a run in hand.               *)
FoundFree(o) ==
    operator[o].pc \in {"run_once", "schedule"} =>
        \A a \in operator[o].on : ActiveOn(a) = {}

LocksAreForRuns ==
    \A p \in Processors, a \in Instances : Holds(p, a) =>
        \E r \in Runs : InHand(p, r) /\ run[r].on = a

================================================================================
