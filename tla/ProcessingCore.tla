---------------------------- MODULE ProcessingCore ----------------------------
(***************************************************************************)
(* The processing core: an initial measurement is validated (VEE), its     *)
(* exceptions are acknowledged, resolved, re-evaluated or corrected by     *)
(* operators, and its reading is promoted to a chain of final measurement  *)
(* revisions (app/services: vee.py, processing_core.py, finalization.py,   *)
(* processing_replay.py, manual_edits.py, estimation.py).                  *)
(*                                                                         *)
(* An operation is one transaction at READ COMMITTED without row versions. *)
(* Begin* loads the rows into the session (SQLAlchemy keeps what it loaded *)
(* for the whole transaction), the action of the same name decides on that *)
(* copy, flushes the columns it changed and commits.  Evaluations of one   *)
(* initial measurement wait for each other on its row, which each of them  *)
(* updates before it looks for active exceptions.                          *)
(* A definition X_Reason is X with a mistake in it, used by no other one.  *)
(***************************************************************************)
EXTENDS Naturals, FiniteSets

CONSTANTS Initials,        \* initial measurements
          Operators,       \* sessions: console users, replay workers, the CLI
          Readings,        \* (value, quality code, status code)
          Anomaly,         \* Anomaly[v]: what the value rules find in reading v
          MaxGenerations,  \* bound on the exceptions of one code and measurement
          MaxRevisions,    \* bound on the final measurements of one initial
          Surroundings,    \* what an evaluation may find around a reading
          OperatorActions, \* what the operators of an instance may do
          None

(* Codes: the value rules, and "gap" for the rules that look at rows around  *)
(* the reading (interval window, multiplier, unit, interval size, duplicate). *)
ValueCodes == {"negative", "high", "zero"}
Codes == ValueCodes \cup {"gap"}
Generations == 1..MaxGenerations
Revisions == 1..MaxRevisions
Corrections == {"edit", "estimate"}
Actions == {"acknowledge", "resolve", "replay", "finalize"} \cup Corrections

ASSUME CoreAssumption ==
    /\ MaxGenerations \in Nat
    /\ MaxRevisions \in Nat
    /\ Anomaly \in [Readings -> ValueCodes \cup {None}]
    /\ Surroundings \subseteq {"gap", "tamper"}
    /\ OperatorActions \subseteq Actions
    /\ None \notin Readings \cup ValueCodes
    /\ None \notin Nat

VARIABLES reading,         \* value, quality_code and status_code of the initial
          initial_status,  \* initial_measurement.initial_status, "absent" before
          exception,       \* exception[i][c][k]: the k-th vee_exception of code c
          final,           \* final[i][k]: the k-th final_measurement of i
          operator         \* the transaction of each operator

rows == <<reading, initial_status, exception, final>>
vars == <<reading, initial_status, exception, final, operator>>

InitialStatuses == {"absent", "accepted", "exception"}

ExceptionRow == [status : {"absent", "open", "acknowledged", "resolved"},
                 blocking : BOOLEAN]
ExceptionTable == [Codes -> [Generations -> ExceptionRow]]
NoExceptions == [c \in Codes |-> [k \in Generations |->
                    [status |-> "absent", blocking |-> FALSE]]]

FinalRow == [status : {"absent", "finalized", "superseded"},
             is_current : BOOLEAN,
             reading : Readings \cup {None},
             revision : Nat,
             supersedes : Revisions \cup {None}]
FinalTable == [Revisions -> FinalRow]
NoFinal == [status |-> "absent", is_current |-> FALSE, reading |-> None,
            revision |-> 0, supersedes |-> None]

Snapshot == [reading : Readings \cup {None},
             status : InitialStatuses,
             exception : ExceptionTable,
             current : Revisions \cup {None}]

Transaction == [pc : Actions, on : SUBSET Initials, code : Codes \cup {None},
                row : Generations \cup {None}, read : [Initials -> Snapshot \cup {None}]]
Idle == [pc |-> "idle", on |-> {}, code |-> None, row |-> None,
         read |-> [i \in Initials |-> None]]

RowsOK ==
    /\ reading \in [Initials -> Readings \cup {None}]
    /\ initial_status \in [Initials -> InitialStatuses]
    /\ exception \in [Initials -> ExceptionTable]
    /\ final \in [Initials -> FinalTable]

TransactionOK(t) ==
    /\ t \in Transaction
    /\ \A i \in t.on : t.read[i] \in Snapshot /\ t.read[i].reading \in Readings
    /\ t.pc \in {"acknowledge", "resolve"} \cup Corrections =>
          t.code \in Codes /\ t.row \in Generations

TypeOK ==
    /\ RowsOK
    /\ \A i \in Initials : initial_status[i] # "absent" => reading[i] \in Readings
    /\ DOMAIN operator = Operators
    /\ \A o \in Operators : operator[o] = Idle \/ TransactionOK(operator[o])

Init ==
    /\ reading = [i \in Initials |-> None]
    /\ initial_status = [i \in Initials |-> "absent"]
    /\ exception = [i \in Initials |-> NoExceptions]
    /\ final = [i \in Initials |-> [k \in Revisions |-> NoFinal]]
    /\ operator = [o \in Operators |-> Idle]

-------------------------------------------------------------------------------
(* VEE: the rules and the exceptions of one measurement. *)

IsActive(row) == row.status \in {"open", "acknowledged"}
BlocksNow(row) == IsActive(row) /\ row.blocking

NoneActive(table) == \A c \in Codes, k \in Generations : ~IsActive(table[c][k])
NoneBlocking(table) == \A c \in Codes, k \in Generations : ~BlocksNow(table[c][k])

(* The unit of work writes a column only when its new value differs from the *)
(* loaded one; otherwise what others committed meanwhile stays.              *)
Flushed(loaded, now, new) == IF new = loaded THEN now ELSE new

HitCodes(v, around) ==
    {c \in Codes : c = Anomaly[v] \/ (c = "gap" /\ "gap" \in around)}

Blocks(c, around) == c \in {"negative", "gap"} \/ (c = "high" /\ "tamper" \in around)

VeeStatus(v, around) ==
    IF \E c \in HitCodes(v, around) : Blocks(c, around) THEN "exception" ELSE "accepted"

(* refresh_initial_measurement_status *)
Refreshed(status, table) ==
    IF ~NoneBlocking(table) THEN "exception"
    ELSE IF status = "exception" THEN "accepted" ELSE status

IsNextRow(list, k) ==
    /\ list[k].status = "absent"
    /\ \A j \in DOMAIN list : j < k => list[j].status # "absent"

(* The active exception of a code that an evaluation reuses: the oldest. *)
IsReused(list, k) ==
    /\ IsActive(list[k])
    /\ \A j \in DOMAIN list : IsActive(list[j]) => k <= j

(* Variant: no reuse. *)
HasActive_Never(list) == FALSE

HasActive(list) == \E k \in DOMAIN list : IsActive(list[k])

(* Variant: an exception found again is opened in its resolved row. *)
Opened_Reopens(table, loaded, v, around) ==
    [c \in Codes |-> [k \in Generations |->
        IF /\ c \in HitCodes(v, around)
           /\ table[c][k].status = "resolved" \/ IsNextRow(table[c], k)
        THEN [status |-> "open", blocking |-> Blocks(c, around)]
        ELSE table[c][k]]]

(* create_or_get_vee_exception for every hit: an active exception of the code *)
(* takes the new blocking flag, otherwise a new one is opened.                *)
Opened(table, loaded, v, around) ==
    [c \in Codes |-> [k \in Generations |->
        IF c \in HitCodes(v, around) /\ HasActive(table[c]) /\ IsReused(table[c], k)
        THEN [status |-> table[c][k].status,
              blocking |-> IF loaded[c][k].status = "absent" THEN Blocks(c, around)
                           ELSE Flushed(loaded[c][k].blocking, table[c][k].blocking,
                                        Blocks(c, around))]
        ELSE IF c \in HitCodes(v, around) /\ ~HasActive(table[c]) /\ IsNextRow(table[c], k)
        THEN [status |-> "open", blocking |-> Blocks(c, around)]
        ELSE table[c][k]]]

(* The bound MaxGenerations. *)
HasRoom(table, v, around) ==
    \A c \in HitCodes(v, around) :
        HasActive(table[c]) \/ \E k \in Generations : table[c][k].status = "absent"

WithStatus(table, c, k, s) ==
    [table EXCEPT ![c][k] = [status |-> s, blocking |-> table[c][k].blocking]]

(* Every exception the session found active is resolved (re_evaluated_superseded). *)
Superseded(table, loaded) ==
    [c \in Codes |-> [k \in Generations |->
        IF IsActive(loaded[c][k])
        THEN [status |-> "resolved", blocking |-> table[c][k].blocking]
        ELSE table[c][k]]]

-------------------------------------------------------------------------------
(* Final measurements. *)

CurrentOf(table) ==
    IF \E k \in Revisions : table[k].is_current
    THEN CHOOSE k \in Revisions : table[k].is_current
    ELSE None

(* Variants: a reading is published again; a revision keeps the former        *)
(* reading.                                                                   *)
FinalsAfter_Republish(table, cur, v) ==
    [k \in Revisions |->
        IF IsNextRow(table, k)
        THEN [status |-> "finalized", is_current |-> TRUE, reading |-> v,
              revision |-> IF cur = None THEN 1 ELSE table[cur].revision + 1,
              supersedes |-> cur]
        ELSE IF k = cur THEN [table[k] EXCEPT !.status = "superseded", !.is_current = FALSE]
        ELSE table[k]]
FinalsAfter_KeepsReading(table, cur, v) ==
    IF cur # None /\ table[cur].reading = v THEN table
    ELSE [k \in Revisions |->
            IF IsNextRow(table, k)
            THEN [status |-> "finalized", is_current |-> TRUE,
                  reading |-> IF cur = None THEN v ELSE table[cur].reading,
                  revision |-> IF cur = None THEN 1 ELSE table[cur].revision + 1,
                  supersedes |-> cur]
            ELSE IF k = cur THEN [table[k] EXCEPT !.status = "superseded", !.is_current = FALSE]
            ELSE table[k]]

(* create_or_get_final_measurement with cur as the current final it found. *)
FinalsAfter(table, cur, v) ==
    IF cur # None /\ table[cur].reading = v THEN table
    ELSE [k \in Revisions |->
            IF IsNextRow(table, k)
            THEN [status |-> "finalized", is_current |-> TRUE, reading |-> v,
                  revision |-> IF cur = None THEN 1 ELSE table[cur].revision + 1,
                  supersedes |-> cur]
            ELSE IF k = cur
            THEN [status |-> "superseded", is_current |-> FALSE,
                  reading |-> table[k].reading, revision |-> table[k].revision,
                  supersedes |-> table[k].supersedes]
            ELSE table[k]]

(* Variant: without the index. *)
UniqueCurrent_NoIndex(table) == TRUE

(* The partial unique index on the current final of an initial measurement: *)
(* the INSERT of a second one fails and the transaction rolls back.         *)
UniqueCurrent(table) ==
    \A j, k \in Revisions : table[j].is_current /\ table[k].is_current => j = k

(* Promotes v[i] for every i of P.  The current final is looked up after the *)
(* session was loaded and before it flushes: anywhere in between.            *)
Promote(P, v, read) ==
    \E cur \in [P -> Revisions \cup {None}] :
        /\ \A i \in P : cur[i] \in {read[i].current, CurrentOf(final[i])}
        /\ final' = [i \in Initials |->
                       IF i \in P THEN FinalsAfter(final[i], cur[i], v[i]) ELSE final[i]]
        /\ \A i \in P : UniqueCurrent(final'[i])

(* The bound MaxRevisions. *)
CanRevise(P) == \A i \in P : \E k \in Revisions : final[i][k].status = "absent"

-------------------------------------------------------------------------------
(* Receipt: the transaction that creates the canonical row creates the initial *)
(* measurement and evaluates it; a canonical row has one initial measurement.  *)
Receive(i, v, around) ==
    /\ initial_status[i] = "absent"
    /\ HasRoom(exception[i], v, around)
    /\ reading' = [reading EXCEPT ![i] = v]
    /\ initial_status' = [initial_status EXCEPT ![i] = VeeStatus(v, around)]
    /\ exception' = [exception EXCEPT ![i] = Opened(@, @, v, around)]
    /\ UNCHANGED <<final, operator>>

(* What an operator's transaction loads. *)
Loaded(i) == [reading |-> reading[i], status |-> initial_status[i],
              exception |-> exception[i], current |-> CurrentOf(final[i])]

Begins(o, pc, S, c, k) ==
    /\ operator[o].pc = "idle"
    /\ pc \in OperatorActions
    /\ \A i \in S : initial_status[i] # "absent"
    /\ operator' = [operator EXCEPT ![o] =
            [pc |-> pc, on |-> S, code |-> c, row |-> k,
             read |-> [i \in Initials |-> IF i \in S THEN Loaded(i) ELSE None]]]
    /\ UNCHANGED rows

Ends(o) == operator' = [operator EXCEPT ![o] = Idle]

BeginAcknowledge(o, i, c, k) ==
    /\ exception[i][c][k].status = "open"
    /\ Begins(o, "acknowledge", {i}, c, k)

Acknowledge(o, i) ==
    LET t == operator[o]
        loaded == t.read[i]
    IN
    /\ t.pc = "acknowledge"
    /\ i \in t.on
    /\ exception' = [exception EXCEPT ![i] = WithStatus(@, t.code, t.row, "acknowledged")]
    /\ initial_status' = [initial_status EXCEPT ![i] =
            Flushed(loaded.status, @,
                    IF loaded.exception[t.code][t.row].blocking THEN "exception"
                    ELSE Refreshed(loaded.status, loaded.exception))]
    /\ UNCHANGED <<reading, final>>
    /\ Ends(o)

BeginResolve(o, i, c, k) ==
    /\ IsActive(exception[i][c][k])
    /\ Begins(o, "resolve", {i}, c, k)

(* Variant: the status of the measurement is not refreshed. *)
Resolve_NoRefresh(o, i) ==
    /\ operator[o].pc = "resolve"
    /\ i \in operator[o].on
    /\ exception' = [exception EXCEPT ![i] =
            WithStatus(@, operator[o].code, operator[o].row, "resolved")]
    /\ UNCHANGED <<reading, initial_status, final>>
    /\ Ends(o)

Resolve(o, i) ==
    LET t == operator[o]
        loaded == t.read[i]
    IN
    /\ t.pc = "resolve"
    /\ i \in t.on
    /\ exception' = [exception EXCEPT ![i] = WithStatus(@, t.code, t.row, "resolved")]
    /\ initial_status' = [initial_status EXCEPT ![i] =
            Flushed(loaded.status, @,
                    Refreshed(loaded.status,
                              WithStatus(loaded.exception, t.code, t.row, "resolved")))]
    /\ UNCHANGED <<reading, final>>
    /\ Ends(o)

(* Re-evaluation starts from an exception of any status. *)
BeginReplay(o, i) ==
    /\ \E c \in Codes, k \in Generations : exception[i][c][k].status # "absent"
    /\ Begins(o, "replay", {i}, None, None)

(* reevaluate_vee_exception_and_replay.  Only a measurement left without any *)
(* active exception is promoted, and then no rule has hit: it is accepted.   *)
Replay(o, i, around) ==
    LET loaded == operator[o].read[i]
        before == Superseded(exception[i], loaded.exception)
        after  == Opened(before, loaded.exception, loaded.reading, around)
        P      == IF NoneActive(after) THEN {i} ELSE {}
    IN
    /\ operator[o].pc = "replay"
    /\ i \in operator[o].on
    /\ HasRoom(before, loaded.reading, around)
    /\ CanRevise(P)
    /\ exception' = [exception EXCEPT ![i] = after]
    /\ initial_status' = [initial_status EXCEPT ![i] = VeeStatus(loaded.reading, around)]
    /\ Promote(P, [j \in Initials |-> loaded.reading], operator[o].read)
    /\ UNCHANGED reading
    /\ Ends(o)

(* _build_manual_edit_result: the exceptions a value can be edited for. *)
MayEdit(c) == c \in {"negative", "high", "zero"}

(* _build_estimation_result: a tamper event forbids to estimate, and then the *)
(* high value blocks.                                                         *)
MayEstimate(row, c) == c \in {"negative", "high"} /\ (c = "high" => ~row.blocking)

(* Manual edits and estimations start from an active exception on the value. *)
BeginCorrect(o, i, c, k, how) ==
    /\ IsActive(exception[i][c][k])
    /\ how = "edit" => MayEdit(c)
    /\ how = "estimate" => MayEstimate(exception[i][c][k], c)
    /\ Begins(o, how, {i}, c, k)

(* What a correction still sees blocking: it looks at the active rows of the  *)
(* table and at the exceptions of its session, but of a row it had loaded it  *)
(* knows the blocking flag it loaded.  A row it has just hit is not blocking, *)
(* for it asks only when no hit blocks.                                       *)
SeesBlocking(mine, before, after, hits) ==
    \E c \in Codes, k \in Generations :
        /\ ~(c \in hits /\ HasActive(before[c]) /\ IsReused(before[c], k))
        /\ IF mine[c][k].status = "absent" THEN BlocksNow(after[c][k])
           ELSE mine[c][k].blocking /\ (IsActive(after[c][k]) \/ IsActive(mine[c][k]))

(* apply_manual_edit_from_vee_exception, apply_estimation_from_vee_exception: *)
(* change the working copy, resolve the exception, evaluate, promote.  Other  *)
(* active exceptions are neither resolved nor asked for the new status.       *)
Correct(o, i, v, around) ==
    LET t      == operator[o]
        loaded == t.read[i]
        mine   == WithStatus(loaded.exception, t.code, t.row, "resolved")
        before == WithStatus(exception[i], t.code, t.row, "resolved")
        after  == Opened(before, loaded.exception, v, around)
        status == VeeStatus(v, around)
        P      == IF /\ status = "accepted"
                     /\ ~SeesBlocking(mine, before, after, HitCodes(v, around))
                  THEN {i} ELSE {}
    IN
    /\ t.pc \in Corrections
    /\ i \in t.on
    /\ HasRoom(before, v, around)
    /\ CanRevise(P)
    /\ reading' = [reading EXCEPT ![i] = Flushed(loaded.reading, @, v)]
    /\ exception' = [exception EXCEPT ![i] = after]
    /\ initial_status' = [initial_status EXCEPT ![i] =
            IF Refreshed(loaded.status, mine) = loaded.status
            THEN Flushed(loaded.status, @, status) ELSE status]
    /\ Promote(P, [j \in Initials |-> v], t.read)
    /\ Ends(o)

(* An edit must change the value. *)
Edit(o, i, v, around) ==
    /\ operator[o].pc = "edit"
    /\ v # operator[o].read[i].reading
    /\ Correct(o, i, v, around)

Estimate(o, i, v, around) ==
    /\ operator[o].pc = "estimate"
    /\ Correct(o, i, v, around)

(* Batch finalization: one transaction over the selected measurements. *)
BeginFinalize(o, S) == Begins(o, "finalize", S, None, None)

(* Variant: the status alone decides. *)
IsFinalizable_StatusOnly(loaded) == loaded.status = "accepted"

IsFinalizable(loaded) == loaded.status = "accepted" /\ NoneBlocking(loaded.exception)

Finalize(o) ==
    LET t == operator[o]
        P == {i \in t.on : IsFinalizable(t.read[i])}
    IN
    /\ t.pc = "finalize"
    /\ CanRevise(P)
    /\ Promote(P, [i \in Initials |-> IF i \in P THEN t.read[i].reading ELSE None], t.read)
    /\ UNCHANGED <<reading, initial_status, exception>>
    /\ Ends(o)

(* A refused correction, a unique violation, a lost connection. *)
RollBack(o) ==
    /\ operator[o].pc # "idle"
    /\ Ends(o)
    /\ UNCHANGED rows

OperatorBegins(o) ==
    \/ \E i \in Initials :
          \/ BeginReplay(o, i)
          \/ \E c \in Codes, k \in Generations :
                \/ BeginAcknowledge(o, i, c, k)
                \/ BeginResolve(o, i, c, k)
                \/ \E how \in Corrections : BeginCorrect(o, i, c, k, how)
    \/ \E S \in (SUBSET Initials) \ {{}} : BeginFinalize(o, S)

OperatorCommits(o) ==
    \/ \E i \in Initials :
          \/ Acknowledge(o, i)
          \/ Resolve(o, i)
          \/ \E around \in SUBSET Surroundings :
                \/ Replay(o, i, around)
                \/ \E v \in Readings : Edit(o, i, v, around) \/ Estimate(o, i, v, around)
    \/ Finalize(o)

Next ==
    \/ \E i \in Initials, v \in Readings, around \in SUBSET Surroundings :
          Receive(i, v, around)
    \/ \E o \in Operators : OperatorBegins(o) \/ OperatorCommits(o) \/ RollBack(o)

Spec == Init /\ [][Next]_vars

-------------------------------------------------------------------------------
(* Safety that holds whatever the operators interleave. *)

(* The finals of a measurement form one chain: numbered without gaps, each    *)
(* superseding the one before, the last and only the last current.  Looking   *)
(* for the current final and inserting the next is a race; the unique index   *)
(* and the rollback decide it (create_or_get_final_measurement).              *)
RevisionChain ==
    \A i \in Initials : \A k \in Revisions :
        LET row == final[i][k]
            last == k = MaxRevisions \/ (k < MaxRevisions /\ final[i][k + 1].status = "absent")
        IN  row.status # "absent" =>
                /\ row.revision = k
                /\ k > 1 => final[i][k - 1].status # "absent"
                /\ row.supersedes = IF k = 1 THEN None ELSE k - 1
                /\ row.is_current <=> last
                /\ row.status = IF last THEN "finalized" ELSE "superseded"

(* The chain seen from its readers: an append-only history. *)
History == INSTANCE RevisionHistory WITH
    Subjects <- Initials,
    Values   <- Readings,
    Length   <- MaxRevisions,
    Nothing  <- None,
    entry    <- [i \in Initials |-> [k \in 1..MaxRevisions |-> final[i][k].reading]],
    current  <- [i \in Initials |-> IF CurrentOf(final[i]) = None THEN 0
                                    ELSE CurrentOf(final[i])]

(* Promotion only ever appends: no published reading is changed or withdrawn, *)
(* and none is published twice in a row.                                      *)
ImplementsHistory == History!HistorySpec

(* A measurement has at most one active exception of a code: an evaluation    *)
(* reuses it or has resolved it before, and evaluations of one measurement    *)
(* wait for each other (create_or_get_vee_exception).  A second one is always *)
(* an older exception that an acknowledgement has brought back.              *)
OneActivePerCode ==
    \A i \in Initials, c \in Codes, j, k \in Generations :
        j < k /\ IsActive(exception[i][c][j]) /\ IsActive(exception[i][c][k])
            => exception[i][c][j].status = "acknowledged"

(* The transaction of o is to acknowledge this exception, and has read it     *)
(* open.                                                                     *)
Acknowledging(o, i, c, k) ==
    /\ operator[o].pc = "acknowledge" /\ operator[o].on = {i}
    /\ operator[o].code = c /\ operator[o].row = k
    /\ operator[o].read[i].exception[c][k].status = "open"

(* Resolving is final, and what is found again is opened anew: "The selected  *)
(* VEE exception is already resolved." (acknowledge_vee_exception).  One      *)
(* operation brings an exception back: an acknowledgement that has read it    *)
(* open and commits after the resolution; then it is acknowledged, never open *)
(* again, and one such transaction brings back one exception.                *)
ReopenedOnlyByLateAcknowledgement ==
    [][\A i \in Initials, c \in Codes, k \in Generations :
          exception[i][c][k].status = "resolved" /\ exception'[i][c][k].status # "resolved"
              => /\ exception'[i][c][k].status = "acknowledged"
                 /\ \E o \in Operators : Acknowledging(o, i, c, k) /\ operator'[o] = Idle]_vars

-------------------------------------------------------------------------------
(* Safety that needs operators that do not overlap. *)

Published(i, k) == final[i][k].status = "absent" /\ final'[i][k].status # "absent"

(* "A final_measurement may be created only when initial_status = 'accepted'  *)
(* and no open blocking vee_exception exists", over edits that leave other    *)
(* exceptions open, resolutions, re-evaluations and batch promotions.         *)
FinalOnlyWhenClear ==
    [][\A i \in Initials, k \in Revisions : Published(i, k) =>
          initial_status'[i] = "accepted" /\ NoneBlocking(exception'[i])]_vars

(* What is published is the working copy as it then stands: a promotion never *)
(* drifts back to a reading that was corrected before.                        *)
FinalTakesWorkingCopy ==
    [][\A i \in Initials, k \in Revisions :
          Published(i, k) => final'[i][k].reading = reading'[i]]_vars

(* "exception should mean at least one open blocking processing issue exists": *)
(* otherwise a measurement could neither be promoted nor have anything left   *)
(* to resolve.                                                                *)
ExceptionMeansBlocked ==
    \A i \in Initials :
        initial_status[i] = "exception" => ~NoneBlocking(exception[i])

(* "accepted should mean eligible for final promotion". *)
AcceptedMeansEligible ==
    \A i \in Initials :
        initial_status[i] = "accepted" => NoneBlocking(exception[i])

===============================================================================
