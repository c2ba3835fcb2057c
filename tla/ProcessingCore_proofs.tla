------------------------- MODULE ProcessingCore_proofs ------------------------
(***************************************************************************)
(* Proofs about ProcessingCore, for every number of measurements,          *)
(* operators and readings: the types, the chain of final revisions, and    *)
(* that promotions implement RevisionHistory.                              *)
(***************************************************************************)
EXTENDS ProcessingCore, WellFoundedInduction, TLAPS

(***************************************************************************)
(* The inductive invariant.  A chain is described by its length, so that   *)
(* no induction over revisions is needed.                                  *)
(***************************************************************************)
ChainOfLength(table, n) ==
    \A k \in Revisions :
        /\ table[k].status = IF k < n THEN "superseded"
                             ELSE IF k = n THEN "finalized" ELSE "absent"
        /\ table[k].is_current <=> k = n
        /\ k <= n => table[k].revision = k
        /\ k <= n => table[k].supersedes = IF k = 1 THEN None ELSE k - 1

Chained == \A i \in Initials : \E n \in 0..MaxRevisions : ChainOfLength(final[i], n)

(* What a transaction works on had been received when it was loaded, and the  *)
(* current final it noted exists: neither is ever taken back.                 *)
PastCopies ==
    \A o \in Operators : \A i \in operator[o].on :
        /\ initial_status[i] # "absent"
        /\ operator[o].read[i].status # "absent"
        /\ operator[o].read[i].current # None
              => final[i][operator[o].read[i].current].status # "absent"

IInv == TypeOK /\ PastCopies /\ Chained

-------------------------------------------------------------------------------
(* Types of the operators. *)

LEMMA StatusType ==
    ASSUME NEW v \in Readings, NEW around \in SUBSET Surroundings
    PROVE  VeeStatus(v, around) \in {"accepted", "exception"}
BY DEF VeeStatus

LEMMA RefreshedType ==
    ASSUME NEW s \in InitialStatuses, NEW table \in ExceptionTable
    PROVE  /\ Refreshed(s, table) \in InitialStatuses
           /\ s # "absent" => Refreshed(s, table) # "absent"
BY DEF Refreshed, InitialStatuses

LEMMA FlushedStatusType ==
    ASSUME NEW loaded, NEW now \in InitialStatuses, NEW new \in InitialStatuses,
           now # "absent", new # "absent"
    PROVE  /\ Flushed(loaded, now, new) \in InitialStatuses
           /\ Flushed(loaded, now, new) # "absent"
BY DEF Flushed

LEMMA BlocksType ==
    ASSUME NEW c \in Codes, NEW around \in SUBSET Surroundings
    PROVE  Blocks(c, around) \in BOOLEAN
BY DEF Blocks

LEMMA WithStatusType ==
    ASSUME NEW table \in ExceptionTable, NEW c \in Codes, NEW k \in Generations,
           NEW s \in {"acknowledged", "resolved"}
    PROVE  WithStatus(table, c, k, s) \in ExceptionTable
<1>1. table[c] \in [Generations -> ExceptionRow]
    BY DEF ExceptionTable
<1>2. [status |-> s, blocking |-> table[c][k].blocking] \in ExceptionRow
    BY <1>1 DEF ExceptionRow
<1>. QED
    BY <1>1, <1>2 DEF WithStatus, ExceptionTable

LEMMA SupersededType ==
    ASSUME NEW table \in ExceptionTable, NEW loaded \in ExceptionTable
    PROVE  Superseded(table, loaded) \in ExceptionTable
<1>1. ASSUME NEW c \in Codes, NEW k \in Generations
      PROVE  Superseded(table, loaded)[c][k] \in ExceptionRow
    <2>1. table[c][k] \in ExceptionRow
        BY DEF ExceptionTable
    <2>. QED
        BY <2>1 DEF Superseded, ExceptionRow
<1>. QED
    BY <1>1 DEF Superseded, ExceptionTable

LEMMA OpenedType ==
    ASSUME NEW table \in ExceptionTable, NEW loaded \in ExceptionTable,
           NEW v \in Readings, NEW around \in SUBSET Surroundings
    PROVE  Opened(table, loaded, v, around) \in ExceptionTable
<1>1. ASSUME NEW c \in Codes, NEW k \in Generations
      PROVE  Opened(table, loaded, v, around)[c][k] \in ExceptionRow
    <2>1. table[c][k] \in ExceptionRow
        BY DEF ExceptionTable
    <2>2. Blocks(c, around) \in BOOLEAN
        BY BlocksType
    <2>3. Flushed(loaded[c][k].blocking, table[c][k].blocking, Blocks(c, around)) \in BOOLEAN
        BY <2>1, <2>2 DEF Flushed, ExceptionRow
    <2>4. table[c][k].status \in {"absent", "open", "acknowledged", "resolved"}
        BY <2>1 DEF ExceptionRow
    <2>5. [status |-> table[c][k].status,
           blocking |-> IF loaded[c][k].status = "absent" THEN Blocks(c, around)
                        ELSE Flushed(loaded[c][k].blocking, table[c][k].blocking,
                                     Blocks(c, around))] \in ExceptionRow
        BY <2>2, <2>3, <2>4 DEF ExceptionRow
    <2>6. [status |-> "open", blocking |-> Blocks(c, around)] \in ExceptionRow
        BY <2>2 DEF ExceptionRow
    <2>. QED
        BY <2>1, <2>5, <2>6 DEF Opened
<1>2. Opened(table, loaded, v, around)
        = [c \in Codes |-> [k \in Generations |-> Opened(table, loaded, v, around)[c][k]]]
    BY DEF Opened
<1>. QED
    BY <1>1, <1>2 DEF ExceptionTable

LEMMA FinalsType ==
    ASSUME NEW table \in FinalTable, NEW cur \in Revisions \cup {None}, NEW v \in Readings
    PROVE  FinalsAfter(table, cur, v) \in FinalTable
<1>1. ASSUME NEW k \in Revisions
      PROVE  /\ [status |-> "finalized", is_current |-> TRUE, reading |-> v,
                 revision |-> IF cur = None THEN 1 ELSE table[cur].revision + 1,
                 supersedes |-> cur] \in FinalRow
             /\ [status |-> "superseded", is_current |-> FALSE,
                 reading |-> table[k].reading, revision |-> table[k].revision,
                 supersedes |-> table[k].supersedes] \in FinalRow
             /\ table[k] \in FinalRow
    <2>1. table[k] \in FinalRow
        BY DEF FinalTable
    <2>2. cur # None => table[cur] \in FinalRow
        BY DEF FinalTable
    <2>3. (IF cur = None THEN 1 ELSE table[cur].revision + 1) \in Nat
        BY <2>2 DEF FinalRow
    <2>. QED
        BY <2>1, <2>3 DEF FinalRow
<1>2. CASE cur # None /\ table[cur].reading = v
    BY <1>2 DEF FinalsAfter
<1>3. CASE ~(cur # None /\ table[cur].reading = v)
    BY <1>1, <1>3 DEF FinalsAfter, FinalTable
<1>. QED
    BY <1>2, <1>3

LEMMA CurrentType ==
    ASSUME NEW table
    PROVE  CurrentOf(table) \in Revisions \cup {None}
BY DEF CurrentOf

-------------------------------------------------------------------------------
(* Chains. *)

LEMMA EmptyChain == ChainOfLength([k \in Revisions |-> NoFinal], 0)
BY CoreAssumption DEF ChainOfLength, NoFinal, Revisions

(* The next row of a chain and its current one. *)
LEMMA ChainEnds ==
    ASSUME NEW table \in FinalTable, NEW n \in 0..MaxRevisions, ChainOfLength(table, n)
    PROVE  /\ \A k \in Revisions : IsNextRow(table, k) <=> k = n + 1
           /\ CurrentOf(table) = IF n = 0 THEN None ELSE n
<1>. USE CoreAssumption DEF Revisions
<1>1. \A k \in Revisions : table[k].status = "absent" <=> k > n
    BY DEF ChainOfLength
<1>2. DOMAIN table = Revisions
    BY DEF FinalTable
<1>3. \A k \in Revisions : IsNextRow(table, k) <=> k = n + 1
    BY <1>1, <1>2 DEF IsNextRow
<1>4. \A k \in Revisions : table[k].is_current <=> k = n
    BY DEF ChainOfLength
<1>5. CASE n = 0
    <2>1. ~ \E k \in Revisions : table[k].is_current
        BY <1>4, <1>5
    <2>2. CurrentOf(table) = None
        BY <2>1, Zenon DEF CurrentOf
    <2>. QED
        BY <1>3, <1>5, <2>2
<1>6. CASE n # 0
    <2>1. n \in Revisions /\ table[n].is_current
        BY <1>4, <1>6
    <2>2. \E k \in Revisions : table[k].is_current
        BY <2>1
    <2>3. CurrentOf(table) = CHOOSE k \in Revisions : table[k].is_current
        BY <2>2, Zenon DEF CurrentOf
    <2>4. CurrentOf(table) \in Revisions /\ table[CurrentOf(table)].is_current
        BY <2>2, <2>3, Zenon
    <2>. QED
        BY <1>3, <1>4, <1>6, <2>4
<1>. QED
    BY <1>3, <1>5, <1>6

(* One promotion of one measurement that the unique index lets through: it    *)
(* finds its reading published already, or it has found the end of the chain  *)
(* and extends it.                                                            *)
Extends(old, new, n, v) ==
    /\ n < MaxRevisions
    /\ n > 0 => old[n].reading # v
    /\ ChainOfLength(new, n + 1)
    /\ \A k \in Revisions : new[k].reading = IF k = n + 1 THEN v ELSE old[k].reading

LEMMA PromotionExtends ==
    ASSUME NEW table \in FinalTable, NEW n \in 0..MaxRevisions, ChainOfLength(table, n),
           NEW cur \in Revisions \cup {None}, NEW v \in Readings,
           cur # None => table[cur].status # "absent",
           \E k \in Revisions : table[k].status = "absent",
           UniqueCurrent(FinalsAfter(table, cur, v))
    PROVE  FinalsAfter(table, cur, v) = table \/ Extends(table, FinalsAfter(table, cur, v), n, v)
<1>. USE CoreAssumption DEF Revisions
<1>1. CASE cur # None /\ table[cur].reading = v
    BY <1>1 DEF FinalsAfter
<1>2. CASE ~(cur # None /\ table[cur].reading = v)
    <2>. DEFINE new == FinalsAfter(table, cur, v)
    <2>1. n < MaxRevisions
        BY DEF ChainOfLength
    <2>2. \A k \in Revisions : IsNextRow(table, k) <=> k = n + 1
        BY ChainEnds
    <2>3. new = [k \in Revisions |->
            IF k = n + 1
            THEN [status |-> "finalized", is_current |-> TRUE, reading |-> v,
                  revision |-> IF cur = None THEN 1 ELSE table[cur].revision + 1,
                  supersedes |-> cur]
            ELSE IF k = cur
            THEN [status |-> "superseded", is_current |-> FALSE,
                  reading |-> table[k].reading, revision |-> table[k].revision,
                  supersedes |-> table[k].supersedes]
            ELSE table[k]]
        BY <1>2, <2>2 DEF FinalsAfter
    <2>4. n + 1 \in Revisions
        BY <2>1
    <2>. HIDE DEF new
    <2>5. /\ new[n + 1].status = "finalized"
          /\ new[n + 1].is_current
          /\ new[n + 1].reading = v
          /\ new[n + 1].revision = IF cur = None THEN 1 ELSE table[cur].revision + 1
          /\ new[n + 1].supersedes = cur
        BY <2>3, <2>4
    <2>6. ASSUME NEW k \in Revisions, k # n + 1, k = cur
          PROVE  /\ new[k].status = "superseded"
                 /\ ~new[k].is_current
                 /\ new[k].reading = table[k].reading
                 /\ new[k].revision = table[k].revision
                 /\ new[k].supersedes = table[k].supersedes
        BY <2>3, <2>6
    <2>7. ASSUME NEW k \in Revisions, k # n + 1, k # cur
          PROVE  new[k] = table[k]
        BY <2>3, <2>7
    <2>8. UniqueCurrent(new)
        BY DEF new
    <2>9. cur = IF n = 0 THEN None ELSE n
        <3>1. CASE n = 0
            BY <3>1 DEF ChainOfLength
        <3>2. CASE n # 0
            <4>1. n \in Revisions /\ n # n + 1 /\ table[n].is_current
                BY <3>2 DEF ChainOfLength
            <4>2. ~new[n].is_current
                BY <2>4, <2>5, <2>8, <4>1 DEF UniqueCurrent
            <4>3. new[n] # table[n]
                BY <4>1, <4>2
            <4>. QED
                BY <2>7, <3>2, <4>1, <4>3
        <3>. QED
            BY <3>1, <3>2
    <2>10. ChainOfLength(new, n + 1)
        <3>1. ASSUME NEW k \in Revisions, k <= n
              PROVE  /\ new[k].status = "superseded"
                     /\ ~new[k].is_current
                     /\ new[k].revision = k
                     /\ new[k].supersedes = IF k = 1 THEN None ELSE k - 1
            <4>1. /\ k # n + 1
                  /\ table[k].revision = k
                  /\ table[k].supersedes = IF k = 1 THEN None ELSE k - 1
                BY <3>1 DEF ChainOfLength
            <4>2. CASE k = n
                BY <2>6, <2>9, <4>1, <4>2
            <4>3. CASE k # n
                <5>1. k # cur
                    BY <2>9, <3>1, <4>3
                <5>2. new[k] = table[k]
                    BY <2>7, <4>1, <5>1
                <5>3. table[k].status = "superseded" /\ ~table[k].is_current
                    BY <3>1, <4>3 DEF ChainOfLength
                <5>. QED
                    BY <4>1, <5>2, <5>3
            <4>. QED
                BY <4>2, <4>3
        <3>2. new[n + 1].revision = n + 1
            <4>1. n > 0 => n \in Revisions /\ table[n].revision = n
                BY DEF ChainOfLength
            <4>. QED
                BY <2>5, <2>9, <4>1
        <3>3. new[n + 1].supersedes = IF n + 1 = 1 THEN None ELSE (n + 1) - 1
            BY <2>5, <2>9
        <3>4. ASSUME NEW k \in Revisions, k > n + 1
              PROVE  new[k].status = "absent" /\ ~new[k].is_current
            <4>1. k # n + 1 /\ k # cur
                BY <2>9, <3>4
            <4>2. table[k].status = "absent" /\ ~table[k].is_current
                BY <3>4 DEF ChainOfLength
            <4>. QED
                BY <2>7, <4>1, <4>2
        <3>5. ASSUME NEW k \in Revisions
              PROVE  /\ new[k].status = IF k < n + 1 THEN "superseded"
                                        ELSE IF k = n + 1 THEN "finalized" ELSE "absent"
                     /\ new[k].is_current <=> k = n + 1
                     /\ k <= n + 1 => new[k].revision = k
                     /\ k <= n + 1 => new[k].supersedes = IF k = 1 THEN None ELSE k - 1
            <4>1. CASE k <= n
                BY <3>1, <4>1
            <4>2. CASE k = n + 1
                BY <2>5, <3>2, <3>3, <4>2
            <4>3. CASE k > n + 1
                BY <3>4, <4>3
            <4>. QED
                BY <4>1, <4>2, <4>3
        <3>. QED
            BY <3>5 DEF ChainOfLength
    <2>11. ASSUME NEW k \in Revisions
           PROVE  new[k].reading = IF k = n + 1 THEN v ELSE table[k].reading
        BY <2>5, <2>6, <2>7
    <2>12. n > 0 => table[n].reading # v
        BY <1>2, <2>9
    <2>13. Extends(table, new, n, v)
        BY <2>1, <2>10, <2>11, <2>12 DEF Extends
    <2>. QED
        BY <2>13 DEF new
<1>. QED
    BY <1>1, <1>2

(* What any step does to the finals. *)
FinalsStep ==
    /\ final' \in [Initials -> FinalTable]
    /\ \A i \in Initials :
          \/ final'[i] = final[i]
          \/ \E n \in 0..MaxRevisions, v \in Readings :
                ChainOfLength(final[i], n) /\ Extends(final[i], final'[i], n, v)

LEMMA StepKeepsChains ==
    ASSUME Chained, FinalsStep
    PROVE  Chained'
<1>1. ASSUME NEW i \in Initials
      PROVE  \E n \in 0..MaxRevisions : ChainOfLength(final'[i], n)
    <2>1. CASE final'[i] = final[i]
        BY <2>1 DEF Chained
    <2>2. CASE \E n \in 0..MaxRevisions, v \in Readings :
                  ChainOfLength(final[i], n) /\ Extends(final[i], final'[i], n, v)
        <3>1. PICK n \in 0..MaxRevisions, v \in Readings : Extends(final[i], final'[i], n, v)
            BY <2>2
        <3>2. n + 1 \in 0..MaxRevisions /\ ChainOfLength(final'[i], n + 1)
            BY <3>1, CoreAssumption DEF Extends
        <3>. QED
            BY <3>2
    <2>. QED
        BY <2>1, <2>2 DEF FinalsStep
<1>. QED
    BY <1>1 DEF Chained, ChainOfLength

(* No final is ever deleted. *)
LEMMA StepKeepsFinals ==
    ASSUME FinalsStep, NEW i \in Initials, NEW k \in Revisions,
           final[i][k].status # "absent"
    PROVE  final'[i][k].status # "absent"
<1>1. CASE final'[i] = final[i]
    BY <1>1
<1>2. CASE \E n \in 0..MaxRevisions, v \in Readings :
              ChainOfLength(final[i], n) /\ Extends(final[i], final'[i], n, v)
    <2>1. PICK n \in 0..MaxRevisions, v \in Readings :
              ChainOfLength(final[i], n) /\ Extends(final[i], final'[i], n, v)
        BY <1>2
    <2>2. k <= n
        BY <2>1, CoreAssumption DEF ChainOfLength, Revisions
    <2>. QED
        BY <2>1, <2>2, CoreAssumption DEF Extends, ChainOfLength, Revisions
<1>. QED
    BY <1>1, <1>2 DEF FinalsStep

LEMMA UnchangedFinals ==
    ASSUME TypeOK, final' = final
    PROVE  FinalsStep
BY DEF FinalsStep, TypeOK, RowsOK

(* Any set of measurements promoted in one transaction, each with the current *)
(* final found when the session was loaded or later.                          *)
LEMMA PromoteStep ==
    ASSUME TypeOK, Chained, NEW P \in SUBSET Initials, NEW v, NEW read,
           \A i \in P : /\ v[i] \in Readings
                        /\ read[i].current \in Revisions \cup {None}
                        /\ read[i].current # None
                              => final[i][read[i].current].status # "absent",
           CanRevise(P), Promote(P, v, read)
    PROVE  FinalsStep
<1>1. PICK cur \in [P -> Revisions \cup {None}] :
        /\ \A i \in P : cur[i] \in {read[i].current, CurrentOf(final[i])}
        /\ final' = [i \in Initials |->
                       IF i \in P THEN FinalsAfter(final[i], cur[i], v[i]) ELSE final[i]]
        /\ \A i \in P : UniqueCurrent(final'[i])
    BY DEF Promote
<1>2. \A i \in Initials : final[i] \in FinalTable
    BY DEF TypeOK, RowsOK
<1>3. ASSUME NEW i \in P
      PROVE  /\ final'[i] \in FinalTable
             /\ \/ final'[i] = final[i]
                \/ \E n \in 0..MaxRevisions, w \in Readings :
                      ChainOfLength(final[i], n) /\ Extends(final[i], final'[i], n, w)
    <2>1. PICK n \in 0..MaxRevisions : ChainOfLength(final[i], n)
        BY DEF Chained
    <2>2. final[i] \in FinalTable /\ v[i] \in Readings /\ cur[i] \in Revisions \cup {None}
        BY <1>1, <1>2
    <2>3. final'[i] = FinalsAfter(final[i], cur[i], v[i])
        BY <1>1
    <2>4. UniqueCurrent(FinalsAfter(final[i], cur[i], v[i]))
        BY <1>1, <2>3
    <2>5. CurrentOf(final[i]) = IF n = 0 THEN None ELSE n
        BY <2>1, <2>2, ChainEnds
    <2>6. n # 0 => final[i][n].status # "absent"
        BY <2>1, CoreAssumption DEF ChainOfLength, Revisions
    <2>7. cur[i] # None => final[i][cur[i]].status # "absent"
        BY <1>1, <2>5, <2>6
    <2>8. \E k \in Revisions : final[i][k].status = "absent"
        BY DEF CanRevise
    <2>9. FinalsAfter(final[i], cur[i], v[i]) = final[i]
            \/ Extends(final[i], FinalsAfter(final[i], cur[i], v[i]), n, v[i])
        BY <2>1, <2>2, <2>4, <2>7, <2>8, PromotionExtends
    <2>10. FinalsAfter(final[i], cur[i], v[i]) \in FinalTable
        BY <2>2, FinalsType
    <2>. QED
        BY <2>1, <2>2, <2>3, <2>9, <2>10
<1>4. \A i \in Initials : i \notin P => final'[i] = final[i]
    BY <1>1
<1>5. final' \in [Initials -> FinalTable]
    BY <1>1, <1>2, <1>3, <1>4
<1>. QED
    BY <1>3, <1>4, <1>5 DEF FinalsStep

-------------------------------------------------------------------------------
(* What any step does to the rows, and each kind of transaction step. *)

RowsStep ==
    /\ reading' \in [Initials -> Readings \cup {None}]
    /\ initial_status' \in [Initials -> InitialStatuses]
    /\ exception' \in [Initials -> ExceptionTable]
    /\ \A i \in Initials : initial_status'[i] # "absent" => reading'[i] \in Readings
    /\ \A i \in Initials : initial_status[i] # "absent" => initial_status'[i] # "absent"
    /\ FinalsStep

OperatorsOK ==
    /\ DOMAIN operator = Operators
    /\ \A o \in Operators : operator[o] = Idle \/ TransactionOK(operator[o])

LEMMA UnchangedRows ==
    ASSUME TypeOK, UNCHANGED rows
    PROVE  RowsStep
<1>1. FinalsStep
    BY UnchangedFinals DEF rows
<1>. QED
    BY <1>1 DEF RowsStep, rows, TypeOK, RowsOK

(* A busy operator and what it has loaded. *)
LEMMA Working ==
    ASSUME IInv, NEW o \in Operators, operator[o].pc # "idle"
    PROVE  /\ TransactionOK(operator[o])
           /\ operator[o].on \subseteq Initials
           /\ \A i \in operator[o].on :
                /\ operator[o].read[i].reading \in Readings
                /\ operator[o].read[i].status \in InitialStatuses \ {"absent"}
                /\ operator[o].read[i].exception \in ExceptionTable
                /\ operator[o].read[i].current \in Revisions \cup {None}
                /\ operator[o].read[i].current # None
                      => final[i][operator[o].read[i].current].status # "absent"
                /\ initial_status[i] \in InitialStatuses \ {"absent"}
                /\ reading[i] \in Readings
<1>1. TransactionOK(operator[o])
    BY DEF IInv, TypeOK, Idle
<1>2. operator[o].on \subseteq Initials
    BY <1>1 DEF TransactionOK, Transaction
<1>3. ASSUME NEW i \in operator[o].on
      PROVE  /\ operator[o].read[i].reading \in Readings
             /\ operator[o].read[i].status \in InitialStatuses
             /\ operator[o].read[i].exception \in ExceptionTable
             /\ operator[o].read[i].current \in Revisions \cup {None}
    BY <1>1 DEF TransactionOK, Snapshot
<1>4. ASSUME NEW i \in operator[o].on
      PROVE  initial_status[i] \in InitialStatuses
    BY <1>2 DEF IInv, TypeOK, RowsOK
<1>5. ASSUME NEW i \in operator[o].on
      PROVE  reading[i] \in Readings
    BY <1>2 DEF IInv, TypeOK, PastCopies
<1>. QED
    BY <1>1, <1>2, <1>3, <1>4, <1>5 DEF IInv, PastCopies

LEMMA EndsType ==
    ASSUME IInv, NEW o \in Operators, Ends(o), RowsStep
    PROVE  IInv'
<1>1. OperatorsOK'
    BY DEF IInv, TypeOK, OperatorsOK, Ends, TransactionOK
<1>2. TypeOK'
    BY <1>1 DEF TypeOK, RowsOK, RowsStep, FinalsStep, OperatorsOK
<1>3. Chained'
    BY StepKeepsChains DEF IInv, RowsStep
<1>4. ASSUME NEW p \in Operators, NEW i \in operator'[p].on
      PROVE  /\ initial_status'[i] # "absent"
             /\ operator'[p].read[i].status # "absent"
             /\ operator'[p].read[i].current # None
                   => final'[i][operator'[p].read[i].current].status # "absent"
    <2>1. p # o /\ operator'[p] = operator[p]
        BY <1>4 DEF Ends, IInv, TypeOK, Idle
    <2>2. operator[p].pc # "idle"
        BY <2>1 DEF IInv, TypeOK, Idle, TransactionOK, Transaction, Actions, Corrections
    <2>3. i \in Initials /\ operator[p].read[i].current \in Revisions \cup {None}
        BY <2>1, <2>2, Working
    <2>4. /\ initial_status[i] # "absent"
          /\ operator[p].read[i].status # "absent"
          /\ operator[p].read[i].current # None
                => final[i][operator[p].read[i].current].status # "absent"
        BY <2>1 DEF IInv, PastCopies
    <2>. QED
        BY <2>1, <2>3, <2>4, StepKeepsFinals DEF RowsStep
<1>5. PastCopies'
    BY <1>4 DEF PastCopies
<1>. QED
    BY <1>2, <1>3, <1>5 DEF IInv

LEMMA BeginsType ==
    ASSUME IInv, NEW o \in Operators, NEW pc \in Actions, NEW S \in SUBSET Initials,
           NEW c \in Codes \cup {None}, NEW k \in Generations \cup {None},
           pc \in {"acknowledge", "resolve"} \cup Corrections
              => c \in Codes /\ k \in Generations,
           Begins(o, pc, S, c, k)
    PROVE  IInv'
<1>1. RowsStep
    BY UnchangedRows DEF Begins, IInv
<1>2. PICK t : /\ t = [pc |-> pc, on |-> S, code |-> c, row |-> k,
                       read |-> [i \in Initials |-> IF i \in S THEN Loaded(i) ELSE None]]
               /\ operator' = [operator EXCEPT ![o] = t]
    BY DEF Begins
<1>3. ASSUME NEW i \in S
      PROVE  /\ Loaded(i) \in Snapshot
             /\ Loaded(i).reading \in Readings
             /\ Loaded(i).status # "absent"
             /\ Loaded(i).current # None => final[i][Loaded(i).current].status # "absent"
    <2>1. i \in Initials /\ initial_status[i] # "absent"
        BY DEF Begins
    <2>2. reading[i] \in Readings /\ initial_status[i] \in InitialStatuses
          /\ exception[i] \in ExceptionTable /\ final[i] \in FinalTable
        BY <2>1 DEF IInv, TypeOK, RowsOK
    <2>3. CurrentOf(final[i]) \in Revisions \cup {None}
        BY CurrentType
    <2>4. PICK n \in 0..MaxRevisions : ChainOfLength(final[i], n)
        BY <2>1 DEF IInv, Chained
    <2>5. CurrentOf(final[i]) = IF n = 0 THEN None ELSE n
        BY <2>2, <2>4, ChainEnds
    <2>6. n # 0 => final[i][n].status # "absent"
        BY <2>4, CoreAssumption DEF ChainOfLength, Revisions
    <2>. QED
        BY <2>1, <2>2, <2>3, <2>5, <2>6 DEF Loaded, Snapshot
<1>4. TransactionOK(t)
    <2>1. [i \in Initials |-> IF i \in S THEN Loaded(i) ELSE None]
              \in [Initials -> Snapshot \cup {None}]
        BY <1>3
    <2>2. t \in Transaction
        BY <1>2, <2>1 DEF Transaction
    <2>. QED
        BY <1>2, <1>3, <2>2 DEF TransactionOK
<1>5. OperatorsOK'
    BY <1>2, <1>4 DEF IInv, TypeOK, OperatorsOK, TransactionOK
<1>6. TypeOK'
    BY <1>1, <1>5 DEF TypeOK, RowsOK, RowsStep, FinalsStep, OperatorsOK
<1>7. Chained'
    BY <1>1, StepKeepsChains DEF IInv, RowsStep
<1>8. ASSUME NEW p \in Operators, NEW i \in operator'[p].on
      PROVE  /\ initial_status'[i] # "absent"
             /\ operator'[p].read[i].status # "absent"
             /\ operator'[p].read[i].current # None
                   => final'[i][operator'[p].read[i].current].status # "absent"
    <2>0. UNCHANGED rows
        BY DEF Begins
    <2>1. CASE p = o
        <3>1. operator'[p] = t
            BY <1>2, <2>1 DEF IInv, TypeOK
        <3>2. i \in S /\ operator'[p].read[i] = Loaded(i)
            BY <1>2, <3>1
        <3>. QED
            BY <1>3, <2>0, <3>2 DEF Begins, rows
    <2>2. CASE p # o
        <3>1. operator'[p] = operator[p]
            BY <1>2, <2>2 DEF IInv, TypeOK
        <3>. QED
            BY <2>0, <3>1 DEF IInv, PastCopies, rows
    <2>. QED
        BY <2>1, <2>2
<1>9. PastCopies'
    BY <1>8 DEF PastCopies
<1>. QED
    BY <1>6, <1>7, <1>9 DEF IInv

(* The rows of one measurement change, and no final. *)
LEMMA OneMeasurementStep ==
    ASSUME IInv, NEW i \in Initials, NEW v \in Readings,
           NEW s \in InitialStatuses \ {"absent"}, NEW table \in ExceptionTable,
           reading' = [reading EXCEPT ![i] = v],
           initial_status' = [initial_status EXCEPT ![i] = s],
           exception' = [exception EXCEPT ![i] = table],
           FinalsStep
    PROVE  RowsStep
BY DEF IInv, TypeOK, RowsOK, RowsStep

LEMMA ReceiveStep ==
    ASSUME IInv, NEW i \in Initials, NEW v \in Readings, NEW around \in SUBSET Surroundings,
           Receive(i, v, around)
    PROVE  IInv'
<1>1. exception[i] \in ExceptionTable
    BY DEF IInv, TypeOK, RowsOK
<1>2. Opened(exception[i], exception[i], v, around) \in ExceptionTable
    BY <1>1, OpenedType
<1>3. VeeStatus(v, around) \in InitialStatuses \ {"absent"}
    BY StatusType DEF InitialStatuses
<1>4. FinalsStep
    BY UnchangedFinals DEF Receive, IInv
<1>5. exception' = [exception EXCEPT ![i] = Opened(exception[i], exception[i], v, around)]
    BY DEF Receive
<1>6. RowsStep
    BY <1>2, <1>3, <1>4, <1>5, OneMeasurementStep DEF Receive
<1>7. TypeOK'
    BY <1>6 DEF Receive, IInv, TypeOK, RowsOK, RowsStep, FinalsStep, TransactionOK
<1>8. Chained'
    BY <1>6, StepKeepsChains DEF IInv, RowsStep
<1>9. PastCopies'
    <2>1. operator' = operator /\ final' = final
        BY DEF Receive
    <2>2. \A o \in Operators : \A j \in operator[o].on :
              initial_status[j] # "absent" => initial_status'[j] # "absent"
        <3>1. ASSUME NEW o \in Operators, NEW j \in operator[o].on
              PROVE  j \in Initials
            <4>1. operator[o].pc # "idle"
                BY <3>1 DEF IInv, TypeOK, Idle, TransactionOK, Transaction, Actions, Corrections
            <4>. QED
                BY <3>1, <4>1, Working
        <3>. QED
            BY <1>6, <3>1 DEF RowsStep
    <2>. QED
        BY <2>1, <2>2 DEF IInv, PastCopies
<1>. QED
    BY <1>7, <1>8, <1>9 DEF IInv

LEMMA AcknowledgeStep ==
    ASSUME IInv, NEW o \in Operators, NEW i \in Initials, Acknowledge(o, i)
    PROVE  RowsStep
<1>. DEFINE loaded == operator[o].read[i]
            c == operator[o].code
            k == operator[o].row
            new == IF loaded.exception[c][k].blocking THEN "exception"
                   ELSE Refreshed(loaded.status, loaded.exception)
<1>1. operator[o].pc = "acknowledge" /\ i \in operator[o].on
    BY DEF Acknowledge
<1>2. /\ TransactionOK(operator[o])
      /\ loaded.status \in InitialStatuses \ {"absent"}
      /\ loaded.exception \in ExceptionTable
      /\ initial_status[i] \in InitialStatuses \ {"absent"}
      /\ reading[i] \in Readings
    BY <1>1, Working
<1>3. c \in Codes /\ k \in Generations
    BY <1>1, <1>2 DEF TransactionOK
<1>4. WithStatus(exception[i], c, k, "acknowledged") \in ExceptionTable
    BY <1>3, WithStatusType DEF IInv, TypeOK, RowsOK
<1>5. new \in InitialStatuses \ {"absent"}
    BY <1>2, RefreshedType DEF InitialStatuses
<1>6. Flushed(loaded.status, initial_status[i], new) \in InitialStatuses \ {"absent"}
    BY <1>2, <1>5, FlushedStatusType
<1>7. FinalsStep
    BY UnchangedFinals DEF Acknowledge, IInv
<1>8. /\ reading' = [reading EXCEPT ![i] = reading[i]]
      /\ initial_status' = [initial_status EXCEPT ![i] =
                               Flushed(loaded.status, initial_status[i], new)]
      /\ exception' = [exception EXCEPT ![i] =
                               WithStatus(exception[i], c, k, "acknowledged")]
    BY DEF Acknowledge, IInv, TypeOK, RowsOK
<1>. QED
    BY <1>2, <1>4, <1>6, <1>7, <1>8, OneMeasurementStep

LEMMA ResolveStep ==
    ASSUME IInv, NEW o \in Operators, NEW i \in Initials, Resolve(o, i)
    PROVE  RowsStep
<1>. DEFINE loaded == operator[o].read[i]
            c == operator[o].code
            k == operator[o].row
            new == Refreshed(loaded.status, WithStatus(loaded.exception, c, k, "resolved"))
<1>1. operator[o].pc = "resolve" /\ i \in operator[o].on
    BY DEF Resolve
<1>2. /\ TransactionOK(operator[o])
      /\ loaded.status \in InitialStatuses \ {"absent"}
      /\ loaded.exception \in ExceptionTable
      /\ initial_status[i] \in InitialStatuses \ {"absent"}
      /\ reading[i] \in Readings
    BY <1>1, Working
<1>3. c \in Codes /\ k \in Generations
    BY <1>1, <1>2 DEF TransactionOK
<1>4. WithStatus(exception[i], c, k, "resolved") \in ExceptionTable
    BY <1>3, WithStatusType DEF IInv, TypeOK, RowsOK
<1>5. new \in InitialStatuses \ {"absent"}
    BY <1>2, <1>3, RefreshedType, WithStatusType
<1>6. Flushed(loaded.status, initial_status[i], new) \in InitialStatuses \ {"absent"}
    BY <1>2, <1>5, FlushedStatusType
<1>7. FinalsStep
    BY UnchangedFinals DEF Resolve, IInv
<1>8. /\ reading' = [reading EXCEPT ![i] = reading[i]]
      /\ initial_status' = [initial_status EXCEPT ![i] =
                               Flushed(loaded.status, initial_status[i], new)]
      /\ exception' = [exception EXCEPT ![i] =
                               WithStatus(exception[i], c, k, "resolved")]
    BY DEF Resolve, IInv, TypeOK, RowsOK
<1>. QED
    BY <1>2, <1>4, <1>6, <1>7, <1>8, OneMeasurementStep

LEMMA ReplayStep ==
    ASSUME IInv, NEW o \in Operators, NEW i \in Initials,
           NEW around \in SUBSET Surroundings, Replay(o, i, around)
    PROVE  RowsStep
<1>. DEFINE loaded == operator[o].read[i]
            before == Superseded(exception[i], loaded.exception)
            after  == Opened(before, loaded.exception, loaded.reading, around)
            P      == IF NoneActive(after) THEN {i} ELSE {}
            v      == [j \in Initials |-> loaded.reading]
<1>1. operator[o].pc = "replay" /\ i \in operator[o].on
    BY DEF Replay
<1>2. /\ loaded.reading \in Readings
      /\ loaded.exception \in ExceptionTable
      /\ loaded.current \in Revisions \cup {None}
      /\ loaded.current # None => final[i][loaded.current].status # "absent"
      /\ reading[i] \in Readings
    BY <1>1, Working
<1>3. before \in ExceptionTable
    BY <1>2, SupersededType DEF IInv, TypeOK, RowsOK
<1>4. after \in ExceptionTable
    BY <1>2, <1>3, OpenedType
<1>5. VeeStatus(loaded.reading, around) \in InitialStatuses \ {"absent"}
    BY <1>2, StatusType DEF InitialStatuses
<1>6. /\ CanRevise(P)
      /\ Promote(P, v, operator[o].read)
      /\ reading' = [reading EXCEPT ![i] = reading[i]]
      /\ initial_status' = [initial_status EXCEPT ![i] = VeeStatus(loaded.reading, around)]
      /\ exception' = [exception EXCEPT ![i] = after]
    BY DEF Replay, IInv, TypeOK, RowsOK
<1>7. P \in SUBSET Initials /\ \A j \in P : j = i
    OBVIOUS
<1>8. FinalsStep
    <2>. HIDE DEF P
    <2>1. \A j \in P : v[j] = loaded.reading
        BY <1>7
    <2>. HIDE DEF v
    <2>. QED
        BY <1>2, <1>6, <1>7, <2>1, PromoteStep DEF IInv
<1>. QED
    BY <1>2, <1>4, <1>5, <1>6, <1>8, OneMeasurementStep

LEMMA CorrectStep ==
    ASSUME IInv, NEW o \in Operators, NEW i \in Initials, NEW v \in Readings,
           NEW around \in SUBSET Surroundings, Correct(o, i, v, around)
    PROVE  RowsStep
<1>. DEFINE loaded == operator[o].read[i]
            c      == operator[o].code
            k      == operator[o].row
            mine   == WithStatus(loaded.exception, c, k, "resolved")
            before == WithStatus(exception[i], c, k, "resolved")
            after  == Opened(before, loaded.exception, v, around)
            status == VeeStatus(v, around)
            new    == IF Refreshed(loaded.status, mine) = loaded.status
                      THEN Flushed(loaded.status, initial_status[i], status) ELSE status
            P      == IF /\ status = "accepted"
                         /\ ~SeesBlocking(mine, before, after, HitCodes(v, around))
                      THEN {i} ELSE {}
            w      == [j \in Initials |-> v]
<1>1. operator[o].pc \in Corrections /\ i \in operator[o].on
    BY DEF Correct
<1>2. /\ TransactionOK(operator[o])
      /\ loaded.reading \in Readings
      /\ loaded.exception \in ExceptionTable
      /\ loaded.current \in Revisions \cup {None}
      /\ loaded.current # None => final[i][loaded.current].status # "absent"
      /\ initial_status[i] \in InitialStatuses \ {"absent"}
      /\ reading[i] \in Readings
    BY <1>1, Working DEF Corrections
<1>3. c \in Codes /\ k \in Generations
    BY <1>1, <1>2 DEF TransactionOK
<1>4. before \in ExceptionTable
    BY <1>3, WithStatusType DEF IInv, TypeOK, RowsOK
<1>5. after \in ExceptionTable
    BY <1>2, <1>4, OpenedType
<1>6. status \in InitialStatuses \ {"absent"}
    BY StatusType DEF InitialStatuses
<1>7. new \in InitialStatuses \ {"absent"}
    BY <1>2, <1>6, FlushedStatusType
<1>8. Flushed(loaded.reading, reading[i], v) \in Readings
    BY <1>2 DEF Flushed
<1>9. /\ CanRevise(P)
      /\ Promote(P, w, operator[o].read)
      /\ reading' = [reading EXCEPT ![i] = Flushed(loaded.reading, reading[i], v)]
      /\ initial_status' = [initial_status EXCEPT ![i] = new]
      /\ exception' = [exception EXCEPT ![i] = after]
    BY DEF Correct
<1>10. P \in SUBSET Initials /\ \A j \in P : j = i
    OBVIOUS
<1>11. FinalsStep
    <2>. HIDE DEF P
    <2>1. \A j \in P : w[j] = v
        BY <1>10
    <2>. HIDE DEF w
    <2>. QED
        BY <1>2, <1>9, <1>10, <2>1, PromoteStep DEF IInv
<1>. HIDE DEF new, after
<1>. QED
    BY <1>5, <1>7, <1>8, <1>9, <1>11, OneMeasurementStep

LEMMA FinalizeStep ==
    ASSUME IInv, NEW o \in Operators, Finalize(o)
    PROVE  RowsStep
<1>. DEFINE P == {i \in operator[o].on : IsFinalizable(operator[o].read[i])}
            v == [i \in Initials |-> IF i \in P THEN operator[o].read[i].reading ELSE None]
<1>1. /\ operator[o].pc = "finalize"
      /\ CanRevise(P)
      /\ Promote(P, v, operator[o].read)
      /\ UNCHANGED <<reading, initial_status, exception>>
    BY DEF Finalize
<1>2. P \in SUBSET Initials
    BY <1>1, Working
<1>3. \A i \in P : /\ v[i] \in Readings
                   /\ operator[o].read[i].current \in Revisions \cup {None}
                   /\ operator[o].read[i].current # None
                         => final[i][operator[o].read[i].current].status # "absent"
    BY <1>1, <1>2, Working
<1>. HIDE DEF P, v
<1>4. FinalsStep
    BY <1>1, <1>2, <1>3, PromoteStep DEF IInv
<1>. QED
    BY <1>1, <1>4 DEF IInv, TypeOK, RowsOK, RowsStep

-------------------------------------------------------------------------------
(* The invariant. *)

LEMMA InitInv == Init => IInv
<1>. SUFFICES ASSUME Init PROVE IInv
    OBVIOUS
<1>1. NoExceptions \in ExceptionTable
    BY DEF NoExceptions, ExceptionTable, ExceptionRow
<1>2. [k \in Revisions |-> NoFinal] \in FinalTable
    BY DEF NoFinal, FinalTable, FinalRow
<1>3. TypeOK
    BY <1>1, <1>2 DEF Init, TypeOK, RowsOK, InitialStatuses
<1>4. PastCopies
    BY DEF Init, PastCopies, Idle
<1>5. Chained
    BY EmptyChain, CoreAssumption DEF Init, Chained
<1>. QED
    BY <1>3, <1>4, <1>5 DEF IInv

LEMMA OperatorBeginsStep ==
    ASSUME IInv, NEW o \in Operators, OperatorBegins(o)
    PROVE  IInv'
<1>1. ASSUME NEW i \in Initials, BeginReplay(o, i) PROVE IInv'
    BY <1>1, BeginsType DEF BeginReplay, Actions, Corrections
<1>2. ASSUME NEW i \in Initials, NEW c \in Codes, NEW k \in Generations,
             BeginAcknowledge(o, i, c, k) PROVE IInv'
    BY <1>2, BeginsType DEF BeginAcknowledge, Actions
<1>3. ASSUME NEW i \in Initials, NEW c \in Codes, NEW k \in Generations,
             BeginResolve(o, i, c, k) PROVE IInv'
    BY <1>3, BeginsType DEF BeginResolve, Actions
<1>4. ASSUME NEW i \in Initials, NEW c \in Codes, NEW k \in Generations,
             NEW how \in Corrections, BeginCorrect(o, i, c, k, how) PROVE IInv'
    BY <1>4, BeginsType DEF BeginCorrect, Actions
<1>5. ASSUME NEW S \in SUBSET Initials, BeginFinalize(o, S) PROVE IInv'
    BY <1>5, BeginsType DEF BeginFinalize, Actions, Corrections
<1>. QED
    BY <1>1, <1>2, <1>3, <1>4, <1>5 DEF OperatorBegins

LEMMA OperatorCommitsStep ==
    ASSUME IInv, NEW o \in Operators, OperatorCommits(o)
    PROVE  RowsStep /\ Ends(o)
<1>1. ASSUME NEW i \in Initials, Acknowledge(o, i) PROVE RowsStep /\ Ends(o)
    BY <1>1, AcknowledgeStep DEF Acknowledge
<1>2. ASSUME NEW i \in Initials, Resolve(o, i) PROVE RowsStep /\ Ends(o)
    BY <1>2, ResolveStep DEF Resolve
<1>3. ASSUME NEW i \in Initials, NEW around \in SUBSET Surroundings, Replay(o, i, around)
      PROVE  RowsStep /\ Ends(o)
    BY <1>3, ReplayStep DEF Replay
<1>4. ASSUME NEW i \in Initials, NEW around \in SUBSET Surroundings, NEW v \in Readings,
             Correct(o, i, v, around)
      PROVE  RowsStep /\ Ends(o)
    BY <1>4, CorrectStep DEF Correct
<1>5. ASSUME Finalize(o) PROVE RowsStep /\ Ends(o)
    BY <1>5, FinalizeStep DEF Finalize
<1>. QED
    BY <1>1, <1>2, <1>3, <1>4, <1>5 DEF OperatorCommits, Edit, Estimate

LEMMA NextInv == IInv /\ [Next]_vars => IInv'
<1>. SUFFICES ASSUME IInv, [Next]_vars PROVE IInv'
    OBVIOUS
<1>1. ASSUME NEW i \in Initials, NEW v \in Readings, NEW around \in SUBSET Surroundings,
             Receive(i, v, around)
      PROVE  IInv'
    BY <1>1, ReceiveStep
<1>2. ASSUME NEW o \in Operators, OperatorBegins(o) PROVE IInv'
    BY <1>2, OperatorBeginsStep
<1>3. ASSUME NEW o \in Operators, OperatorCommits(o) PROVE IInv'
    BY <1>3, OperatorCommitsStep, EndsType
<1>4. ASSUME NEW o \in Operators, RollBack(o) PROVE IInv'
    BY <1>4, UnchangedRows, EndsType DEF RollBack, IInv
<1>5. CASE UNCHANGED vars
    BY <1>5 DEF vars, IInv, TypeOK, RowsOK, TransactionOK, PastCopies, Chained
<1>. QED
    BY <1>1, <1>2, <1>3, <1>4, <1>5 DEF Next

THEOREM Invariance == Spec => []IInv
BY InitInv, NextInv, PTL DEF Spec

(* Every variable keeps its type, whatever the operators interleave. *)
THEOREM TypeCorrect == Spec => []TypeOK
<1>1. IInv => TypeOK
    BY DEF IInv
<1>. QED
    BY <1>1, Invariance, PTL

(* The finals of every measurement form one chain, numbered without gaps and  *)
(* current only at its end, although looking for the current final and        *)
(* inserting the next is a race (create_or_get_final_measurement).            *)
THEOREM ChainCorrect == Spec => []RevisionChain
<1>1. ASSUME Chained PROVE RevisionChain
    <2>1. ASSUME NEW i \in Initials, NEW k \in Revisions, final[i][k].status # "absent"
          PROVE  LET last == k = MaxRevisions
                             \/ (k < MaxRevisions /\ final[i][k + 1].status = "absent")
                 IN  /\ final[i][k].revision = k
                     /\ k > 1 => final[i][k - 1].status # "absent"
                     /\ final[i][k].supersedes = IF k = 1 THEN None ELSE k - 1
                     /\ final[i][k].is_current <=> last
                     /\ final[i][k].status = IF last THEN "finalized" ELSE "superseded"
        <3>. USE CoreAssumption DEF Revisions
        <3>1. PICK n \in 0..MaxRevisions : ChainOfLength(final[i], n)
            BY <1>1 DEF Chained
        <3>2. k <= n
            BY <2>1, <3>1 DEF ChainOfLength
        <3>3. k > 1 => k - 1 \in Revisions /\ final[i][k - 1].status # "absent"
            BY <3>1, <3>2 DEF ChainOfLength
        <3>4. k < MaxRevisions => (final[i][k + 1].status = "absent" <=> k + 1 > n)
            BY <3>1 DEF ChainOfLength
        <3>5. (k = MaxRevisions \/ (k < MaxRevisions /\ final[i][k + 1].status = "absent"))
                 <=> k = n
            BY <3>2, <3>4
        <3>. QED
            BY <3>1, <3>2, <3>3, <3>5 DEF ChainOfLength
    <2>. QED
        BY <2>1 DEF RevisionChain
<1>2. IInv => RevisionChain
    BY <1>1 DEF IInv
<1>. QED
    BY <1>2, Invariance, PTL

-------------------------------------------------------------------------------
(* The finals implement RevisionHistory. *)

LEMMA CurrentIsLength ==
    ASSUME NEW table \in FinalTable, NEW n \in 0..MaxRevisions, ChainOfLength(table, n)
    PROVE  (IF CurrentOf(table) = None THEN 0 ELSE CurrentOf(table)) = n
<1>1. CurrentOf(table) = IF n = 0 THEN None ELSE n
    BY ChainEnds
<1>. QED
    BY <1>1, CoreAssumption

LEMMA InitHistory == Init => History!HistoryInit
<1>. SUFFICES ASSUME Init PROVE History!HistoryInit
    OBVIOUS
<1>1. \A i \in Initials : final[i] = [k \in Revisions |-> NoFinal]
    BY DEF Init
<1>2. ASSUME NEW i \in Initials
      PROVE  (IF CurrentOf(final[i]) = None THEN 0 ELSE CurrentOf(final[i])) = 0
    <2>0. final[i] = [k \in Revisions |-> NoFinal]
        BY <1>1
    <2>1. final[i] \in FinalTable /\ ChainOfLength(final[i], 0)
        BY <2>0, EmptyChain, InitInv DEF IInv, TypeOK, RowsOK
    <2>2. 0 \in 0..MaxRevisions
        BY CoreAssumption
    <2>. QED
        BY <2>1, <2>2, CurrentIsLength
<1>3. ASSUME NEW i \in Initials, NEW k \in 1..MaxRevisions
      PROVE  final[i][k].reading = None
    <2>1. k \in Revisions /\ final[i] = [n \in Revisions |-> NoFinal]
        BY <1>1 DEF Revisions
    <2>2. final[i][k] = NoFinal
        BY <2>1
    <2>. QED
        BY <2>2 DEF NoFinal
<1>. QED
    BY <1>2, <1>3 DEF History!HistoryInit, History!Blank

LEMMA StepHistory ==
    ASSUME IInv, FinalsStep
    PROVE  History!HistoryNext
<1>1. ASSUME NEW i \in Initials
      PROVE  History!Keeps(i) \/ \E v \in Readings : History!Records(i, v)
    <2>1. final[i] \in FinalTable /\ final'[i] \in FinalTable
        BY DEF FinalsStep, IInv, TypeOK, RowsOK
    <2>2. CASE final'[i] = final[i]
        BY <2>2 DEF History!Keeps
    <2>3. CASE \E n \in 0..MaxRevisions, v \in Readings :
                  ChainOfLength(final[i], n) /\ Extends(final[i], final'[i], n, v)
        <3>1. PICK n \in 0..MaxRevisions, v \in Readings :
                  ChainOfLength(final[i], n) /\ Extends(final[i], final'[i], n, v)
            BY <2>3
        <3>2. n + 1 \in 0..MaxRevisions
            BY <3>1, CoreAssumption DEF Extends
        <3>3. (IF CurrentOf(final[i]) = None THEN 0 ELSE CurrentOf(final[i])) = n
            BY <2>1, <3>1, CurrentIsLength
        <3>4. (IF CurrentOf(final'[i]) = None THEN 0 ELSE CurrentOf(final'[i])) = n + 1
            BY <2>1, <3>1, <3>2, CurrentIsLength DEF Extends
        <3>5. History!Records(i, v)
            BY <3>1, <3>3, <3>4, CoreAssumption DEF Extends, History!Records, Revisions
        <3>. QED
            BY <3>5
    <2>. QED
        BY <2>2, <2>3 DEF FinalsStep
<1>. QED
    BY <1>1 DEF History!HistoryNext

LEMMA NextFinals ==
    ASSUME IInv, [Next]_vars
    PROVE  FinalsStep
<1>1. ASSUME final' = final PROVE FinalsStep
    BY <1>1, UnchangedFinals DEF IInv
<1>2. ASSUME NEW i \in Initials, NEW v \in Readings, NEW around \in SUBSET Surroundings,
             Receive(i, v, around)
      PROVE  FinalsStep
    BY <1>1, <1>2 DEF Receive
<1>3. ASSUME NEW o \in Operators, OperatorBegins(o) PROVE FinalsStep
    <2>1. final' = final
        BY <1>3 DEF OperatorBegins, BeginReplay, BeginAcknowledge, BeginResolve,
                    BeginCorrect, BeginFinalize, Begins, rows
    <2>. QED
        BY <1>1, <2>1
<1>4. ASSUME NEW o \in Operators, OperatorCommits(o) PROVE FinalsStep
    BY <1>4, OperatorCommitsStep DEF RowsStep
<1>5. ASSUME NEW o \in Operators, RollBack(o) PROVE FinalsStep
    BY <1>1, <1>5 DEF RollBack, rows
<1>6. CASE UNCHANGED vars
    BY <1>1, <1>6 DEF vars
<1>. QED
    BY <1>2, <1>3, <1>4, <1>5, <1>6 DEF Next

(* The published readings of every measurement are an append-only history: no *)
(* interleaving of operators changes, withdraws or repeats one.               *)
THEOREM Refinement == Spec => ImplementsHistory
<1>1. IInv /\ [Next]_vars => [History!HistoryNext]_(History!history)
    BY NextFinals, StepHistory
<1>. QED
    BY <1>1, InitHistory, Invariance, PTL DEF Spec, ImplementsHistory, History!HistorySpec

-------------------------------------------------------------------------------
(* Exceptions.  An acknowledgement alone writes the status of an exception     *)
(* whatever it has become, and is taken apart.                                *)

AtMostOneActive(table) ==
    \A c \in Codes, j, k \in Generations :
        IsActive(table[c][j]) /\ IsActive(table[c][k]) => j = k

KeepsResolved(old, new) ==
    \A c \in Codes, k \in Generations :
        old[c][k].status = "resolved" => new[c][k].status = "resolved"

(* No row becomes active. *)
OnlyResolves(old, new) ==
    \A c \in Codes, k \in Generations :
        new[c][k].status = "resolved" \/ new[c][k].status = old[c][k].status

LEMMA ResolvingIsSafe ==
    ASSUME NEW old, NEW new, OnlyResolves(old, new)
    PROVE  /\ KeepsResolved(old, new)
           /\ AtMostOneActive(old) => AtMostOneActive(new)
BY DEF OnlyResolves, KeepsResolved, AtMostOneActive, IsActive

LEMMA WithStatusResolves ==
    ASSUME NEW table \in ExceptionTable, NEW c \in Codes, NEW k \in Generations
    PROVE  OnlyResolves(table, WithStatus(table, c, k, "resolved"))
BY DEF OnlyResolves, WithStatus, ExceptionTable

LEMMA SupersededResolves ==
    ASSUME NEW table \in ExceptionTable, NEW loaded
    PROVE  OnlyResolves(table, Superseded(table, loaded))
BY DEF OnlyResolves, Superseded

(* An evaluation opens a row of a code only when the code has none active. *)
LEMMA OpenedIsSafe ==
    ASSUME NEW table \in ExceptionTable, NEW loaded, NEW v, NEW around
    PROVE  /\ KeepsResolved(table, Opened(table, loaded, v, around))
           /\ AtMostOneActive(table) => AtMostOneActive(Opened(table, loaded, v, around))
<1>. DEFINE new == Opened(table, loaded, v, around)
<1>1. ASSUME NEW c \in Codes, NEW k \in Generations
      PROVE  \/ new[c][k].status = table[c][k].status
             \/ ~HasActive(table[c]) /\ IsNextRow(table[c], k)
    BY DEF Opened
<1>2. \A c \in Codes : DOMAIN table[c] = Generations
    BY DEF ExceptionTable
<1>. HIDE DEF new
<1>3. KeepsResolved(table, new)
    BY <1>1 DEF KeepsResolved, IsNextRow
<1>4. ASSUME AtMostOneActive(table), NEW c \in Codes, NEW j \in Generations,
             NEW k \in Generations, IsActive(new[c][j]), IsActive(new[c][k])
      PROVE  j = k
    <2>1. CASE HasActive(table[c])
        <3>1. new[c][j].status = table[c][j].status /\ new[c][k].status = table[c][k].status
            BY <1>1, <2>1
        <3>. QED
            BY <1>4, <3>1 DEF AtMostOneActive, IsActive
    <2>2. CASE ~HasActive(table[c])
        <3>1. ~IsActive(table[c][j]) /\ ~IsActive(table[c][k])
            BY <1>2, <2>2 DEF HasActive
        <3>2. IsNextRow(table[c], j) /\ IsNextRow(table[c], k)
            BY <1>1, <1>4, <3>1 DEF IsActive
        <3>3. ~(j < k) /\ ~(k < j)
            BY <1>2, <3>2 DEF IsNextRow
        <3>. QED
            BY <3>3, CoreAssumption DEF Generations
    <2>. QED
        BY <2>1, <2>2
<1>. QED
    BY <1>3, <1>4 DEF AtMostOneActive, new

KeepsExceptionsSafe ==
    \A i \in Initials :
        /\ KeepsResolved(exception[i], exception'[i])
        /\ AtMostOneActive(exception[i]) => AtMostOneActive(exception'[i])

LEMMA UnchangedExceptions ==
    ASSUME exception' = exception
    PROVE  KeepsExceptionsSafe
BY DEF KeepsExceptionsSafe, KeepsResolved

LEMMA OneTableStep ==
    ASSUME TypeOK, NEW i \in Initials, NEW new,
           exception' = [exception EXCEPT ![i] = new],
           KeepsResolved(exception[i], new),
           AtMostOneActive(exception[i]) => AtMostOneActive(new)
    PROVE  KeepsExceptionsSafe
<1>1. ASSUME NEW j \in Initials
      PROVE  exception'[j] = IF j = i THEN new ELSE exception[j]
    BY DEF TypeOK, RowsOK
<1>2. ASSUME NEW j \in Initials
      PROVE  /\ KeepsResolved(exception[j], exception'[j])
             /\ AtMostOneActive(exception[j]) => AtMostOneActive(exception'[j])
    <2>1. CASE j = i
        <3>1. exception'[j] = new
            BY <1>1, <2>1
        <3>. QED
            BY <2>1, <3>1
    <2>2. CASE j # i
        <3>1. exception'[j] = exception[j]
            BY <1>1, <2>2
        <3>. QED
            BY <3>1 DEF KeepsResolved
    <2>. QED
        BY <2>1, <2>2
<1>. QED
    BY <1>2 DEF KeepsExceptionsSafe

LEMMA ReceiveKeeps ==
    ASSUME IInv, NEW i \in Initials, NEW v \in Readings, NEW around \in SUBSET Surroundings,
           Receive(i, v, around)
    PROVE  KeepsExceptionsSafe
<1>1. exception[i] \in ExceptionTable
    BY DEF IInv, TypeOK, RowsOK
<1>2. exception' = [exception EXCEPT ![i] = Opened(exception[i], exception[i], v, around)]
    BY DEF Receive
<1>. QED
    BY <1>1, <1>2, OpenedIsSafe, OneTableStep DEF IInv

LEMMA ResolveKeeps ==
    ASSUME IInv, NEW o \in Operators, NEW i \in Initials, Resolve(o, i)
    PROVE  KeepsExceptionsSafe
<1>. DEFINE new == WithStatus(exception[i], operator[o].code, operator[o].row, "resolved")
<1>1. operator[o].code \in Codes /\ operator[o].row \in Generations
    BY Working DEF Resolve, TransactionOK
<1>2. exception[i] \in ExceptionTable
    BY DEF IInv, TypeOK, RowsOK
<1>3. OnlyResolves(exception[i], new)
    BY <1>1, <1>2, WithStatusResolves
<1>4. exception' = [exception EXCEPT ![i] = new]
    BY DEF Resolve
<1>. HIDE DEF new
<1>. QED
    BY <1>3, <1>4, ResolvingIsSafe, OneTableStep DEF IInv

LEMMA ReplayKeeps ==
    ASSUME IInv, NEW o \in Operators, NEW i \in Initials,
           NEW around \in SUBSET Surroundings, Replay(o, i, around)
    PROVE  KeepsExceptionsSafe
<1>. DEFINE loaded == operator[o].read[i]
            before == Superseded(exception[i], loaded.exception)
            after  == Opened(before, loaded.exception, loaded.reading, around)
<1>1. exception[i] \in ExceptionTable /\ loaded.exception \in ExceptionTable
    BY Working DEF Replay, IInv, TypeOK, RowsOK
<1>2. OnlyResolves(exception[i], before) /\ before \in ExceptionTable
    BY <1>1, SupersededResolves, SupersededType
<1>3. /\ KeepsResolved(exception[i], before)
      /\ AtMostOneActive(exception[i]) => AtMostOneActive(before)
    BY <1>2, ResolvingIsSafe
<1>4. /\ KeepsResolved(before, after)
      /\ AtMostOneActive(before) => AtMostOneActive(after)
    BY <1>2, OpenedIsSafe
<1>5. exception' = [exception EXCEPT ![i] = after]
    BY DEF Replay
<1>. HIDE DEF before, after
<1>6. KeepsResolved(exception[i], after)
    BY <1>3, <1>4 DEF KeepsResolved
<1>. QED
    BY <1>3, <1>4, <1>5, <1>6, OneTableStep DEF IInv

LEMMA CorrectKeeps ==
    ASSUME IInv, NEW o \in Operators, NEW i \in Initials, NEW v \in Readings,
           NEW around \in SUBSET Surroundings, Correct(o, i, v, around)
    PROVE  KeepsExceptionsSafe
<1>. DEFINE before == WithStatus(exception[i], operator[o].code, operator[o].row, "resolved")
            after  == Opened(before, operator[o].read[i].exception, v, around)
<1>1. operator[o].code \in Codes /\ operator[o].row \in Generations
    BY Working DEF Correct, Corrections, TransactionOK
<1>2. exception[i] \in ExceptionTable
    BY DEF IInv, TypeOK, RowsOK
<1>3. OnlyResolves(exception[i], before) /\ before \in ExceptionTable
    BY <1>1, <1>2, WithStatusResolves, WithStatusType
<1>4. /\ KeepsResolved(exception[i], before)
      /\ AtMostOneActive(exception[i]) => AtMostOneActive(before)
    BY <1>3, ResolvingIsSafe
<1>5. /\ KeepsResolved(before, after)
      /\ AtMostOneActive(before) => AtMostOneActive(after)
    BY <1>3, OpenedIsSafe
<1>6. exception' = [exception EXCEPT ![i] = after]
    BY DEF Correct
<1>. HIDE DEF before, after
<1>7. KeepsResolved(exception[i], after)
    BY <1>4, <1>5 DEF KeepsResolved
<1>. QED
    BY <1>4, <1>5, <1>6, <1>7, OneTableStep DEF IInv

LEMMA StepKeepsExceptionsSafe ==
    ASSUME IInv, [Next]_vars,
           \A o \in Operators, i \in Initials : Acknowledge(o, i) => KeepsExceptionsSafe
    PROVE  KeepsExceptionsSafe
<1>1. ASSUME NEW i \in Initials, NEW v \in Readings, NEW around \in SUBSET Surroundings,
             Receive(i, v, around)
      PROVE  KeepsExceptionsSafe
    BY <1>1, ReceiveKeeps
<1>2. ASSUME NEW o \in Operators, OperatorBegins(o) PROVE KeepsExceptionsSafe
    BY <1>2, UnchangedExceptions
    DEF OperatorBegins, BeginReplay, BeginAcknowledge, BeginResolve, BeginCorrect,
        BeginFinalize, Begins, rows
<1>3. ASSUME NEW o \in Operators, OperatorCommits(o) PROVE KeepsExceptionsSafe
    <2>1. ASSUME NEW i \in Initials, Acknowledge(o, i) PROVE KeepsExceptionsSafe
        BY <2>1
    <2>2. ASSUME Finalize(o) PROVE KeepsExceptionsSafe
        BY <2>2, UnchangedExceptions DEF Finalize
    <2>. QED
        BY <1>3, <2>1, <2>2, ResolveKeeps, ReplayKeeps, CorrectKeeps
        DEF OperatorCommits, Edit, Estimate
<1>4. ASSUME NEW o \in Operators, RollBack(o) PROVE KeepsExceptionsSafe
    BY <1>4, UnchangedExceptions DEF RollBack, rows
<1>5. CASE UNCHANGED vars
    BY <1>5, UnchangedExceptions DEF vars
<1>. QED
    BY <1>1, <1>2, <1>3, <1>4, <1>5 DEF Next

(* Exceptions over time: a row that is there stays, and of the rows of one    *)
(* code only the newest is open.                                             *)
InOrder(table) ==
    \A c \in Codes, j, k \in Generations :
        j < k /\ table[c][k].status # "absent" => table[c][j].status \notin {"absent", "open"}

Grows(old, new) ==
    /\ \A c \in Codes, k \in Generations :
          old[c][k].status # "absent" => new[c][k].status # "absent"
    /\ InOrder(old) => InOrder(new)

(* Rows that are there are acknowledged or resolved. *)
Revises(old, new) ==
    \A c \in Codes, k \in Generations :
        \/ new[c][k].status = old[c][k].status
        \/ old[c][k].status # "absent" /\ new[c][k].status \in {"acknowledged", "resolved"}

LEMMA RevisingGrows ==
    ASSUME NEW old, NEW new, Revises(old, new)
    PROVE  Grows(old, new)
BY DEF Revises, Grows, InOrder

LEMMA GrowsOn ==
    ASSUME NEW old, NEW mid, NEW new, Grows(old, mid), Grows(mid, new)
    PROVE  Grows(old, new)
BY DEF Grows

LEMMA WithStatusRevises ==
    ASSUME NEW table \in ExceptionTable, NEW c \in Codes, NEW k \in Generations,
           NEW s \in {"acknowledged", "resolved"}, table[c][k].status # "absent"
    PROVE  Revises(table, WithStatus(table, c, k, s))
BY DEF Revises, WithStatus, ExceptionTable

LEMMA SupersededRevises ==
    ASSUME NEW table \in ExceptionTable, NEW loaded,
           \A c \in Codes, k \in Generations :
              loaded[c][k].status # "absent" => table[c][k].status # "absent"
    PROVE  Revises(table, Superseded(table, loaded))
BY DEF Revises, Superseded, IsActive

LEMMA OpenedGrows ==
    ASSUME NEW table \in ExceptionTable, NEW loaded, NEW v, NEW around
    PROVE  Grows(table, Opened(table, loaded, v, around))
<1>. DEFINE new == Opened(table, loaded, v, around)
<1>1. ASSUME NEW c \in Codes, NEW k \in Generations
      PROVE  \/ new[c][k].status = table[c][k].status
             \/ ~HasActive(table[c]) /\ IsNextRow(table[c], k) /\ new[c][k].status = "open"
    BY DEF Opened
<1>2. \A c \in Codes : /\ DOMAIN table[c] = Generations
                       /\ \A k \in Generations : table[c][k] \in ExceptionRow
    BY DEF ExceptionTable
<1>. HIDE DEF new
<1>3. ASSUME NEW c \in Codes, NEW k \in Generations, table[c][k].status # "absent"
      PROVE  new[c][k].status = table[c][k].status
    BY <1>1, <1>3 DEF IsNextRow
<1>4. ASSUME InOrder(table), NEW c \in Codes, NEW j \in Generations, NEW k \in Generations,
             j < k, new[c][k].status # "absent"
      PROVE  new[c][j].status \notin {"absent", "open"}
    <2>1. table[c][j].status \notin {"absent", "open"}
        <3>1. CASE table[c][k].status # "absent"
            BY <1>4, <3>1 DEF InOrder
        <3>2. CASE table[c][k].status = "absent"
            <4>1. ~HasActive(table[c]) /\ IsNextRow(table[c], k)
                BY <1>1, <1>4, <3>2
            <4>2. table[c][j].status # "absent" /\ ~ IsActive(table[c][j])
                BY <1>2, <1>4, <4>1 DEF HasActive, IsNextRow
            <4>. QED
                BY <4>2 DEF IsActive
        <3>. QED
            BY <3>1, <3>2
    <2>. QED
        BY <1>3, <2>1
<1>. QED
    BY <1>3, <1>4 DEF Grows, InOrder, new

AllGrow == \A i \in Initials : Grows(exception[i], exception'[i])

LEMMA UnchangedGrows == ASSUME exception' = exception PROVE AllGrow
BY DEF AllGrow, Grows

LEMMA OneTableGrows ==
    ASSUME TypeOK, NEW i \in Initials, NEW new, Grows(exception[i], new),
           exception' = [exception EXCEPT ![i] = new]
    PROVE  AllGrow
<1>1. ASSUME NEW j \in Initials PROVE Grows(exception[j], exception'[j])
    <2>1. exception'[j] = IF j = i THEN new ELSE exception[j]
        BY DEF TypeOK, RowsOK
    <2>2. CASE j = i
        BY <2>1, <2>2
    <2>3. CASE j # i
        BY <2>1, <2>3 DEF Grows
    <2>. QED
        BY <2>2, <2>3
<1>. QED
    BY <1>1 DEF AllGrow

(* What a transaction has loaded is still there, the exception it is about    *)
(* was active when it was loaded, and open for an acknowledgement.            *)
StillThere(t, i, loaded, table) ==
    /\ \A c \in Codes, k \in Generations :
          loaded[c][k].status # "absent" => table[c][k].status # "absent"
    /\ t.pc \in {"acknowledge", "resolve"} \cup Corrections
          => loaded[t.code][t.row].status # "absent"
    /\ t.pc = "acknowledge" => t.on = {i} /\ loaded[t.code][t.row].status = "open"

PastExceptions ==
    \A o \in Operators : \A i \in operator[o].on :
        StillThere(operator[o], i, operator[o].read[i].exception, exception[i])

LEMMA AcknowledgeGrows ==
    ASSUME IInv, PastExceptions, NEW o \in Operators, NEW i \in Initials, Acknowledge(o, i)
    PROVE  AllGrow
<1>1. operator[o].pc = "acknowledge" /\ i \in operator[o].on
    BY DEF Acknowledge
<1>2. PICK c \in Codes, k \in Generations : c = operator[o].code /\ k = operator[o].row
    BY <1>1, Working DEF TransactionOK
<1>3. exception[i] \in ExceptionTable /\ exception[i][c][k].status # "absent"
    BY <1>1, <1>2 DEF IInv, TypeOK, RowsOK, PastExceptions, StillThere
<1>4. Grows(exception[i], WithStatus(exception[i], c, k, "acknowledged"))
    BY <1>3, WithStatusRevises, RevisingGrows
<1>. QED
    BY <1>2, <1>4, OneTableGrows DEF Acknowledge, IInv

LEMMA ResolveGrows ==
    ASSUME IInv, PastExceptions, NEW o \in Operators, NEW i \in Initials, Resolve(o, i)
    PROVE  AllGrow
<1>1. operator[o].pc = "resolve" /\ i \in operator[o].on
    BY DEF Resolve
<1>2. PICK c \in Codes, k \in Generations : c = operator[o].code /\ k = operator[o].row
    BY <1>1, Working DEF TransactionOK
<1>3. exception[i] \in ExceptionTable /\ exception[i][c][k].status # "absent"
    BY <1>1, <1>2 DEF IInv, TypeOK, RowsOK, PastExceptions, StillThere
<1>4. Grows(exception[i], WithStatus(exception[i], c, k, "resolved"))
    BY <1>3, WithStatusRevises, RevisingGrows
<1>. QED
    BY <1>2, <1>4, OneTableGrows DEF Resolve, IInv

LEMMA ReplayGrows ==
    ASSUME IInv, PastExceptions, NEW o \in Operators, NEW i \in Initials,
           NEW around \in SUBSET Surroundings, Replay(o, i, around)
    PROVE  AllGrow
<1>. DEFINE loaded == operator[o].read[i]
            before == Superseded(exception[i], loaded.exception)
            after  == Opened(before, loaded.exception, loaded.reading, around)
<1>1. /\ exception[i] \in ExceptionTable /\ loaded.exception \in ExceptionTable
      /\ i \in operator[o].on
    BY Working DEF Replay, IInv, TypeOK, RowsOK
<1>2. Grows(exception[i], before) /\ before \in ExceptionTable
    BY <1>1, SupersededRevises, RevisingGrows, SupersededType DEF PastExceptions, StillThere
<1>3. Grows(before, after)
    BY <1>2, OpenedGrows
<1>4. exception' = [exception EXCEPT ![i] = after]
    BY DEF Replay
<1>. HIDE DEF before, after
<1>. QED
    BY <1>2, <1>3, <1>4, GrowsOn, OneTableGrows DEF IInv

LEMMA CorrectGrows ==
    ASSUME IInv, PastExceptions, NEW o \in Operators, NEW i \in Initials, NEW v \in Readings,
           NEW around \in SUBSET Surroundings, Correct(o, i, v, around)
    PROVE  AllGrow
<1>1. operator[o].pc \in Corrections /\ i \in operator[o].on
    BY DEF Correct
<1>2. PICK c \in Codes, k \in Generations : c = operator[o].code /\ k = operator[o].row
    BY <1>1, Working DEF Corrections, TransactionOK
<1>3. exception[i] \in ExceptionTable /\ exception[i][c][k].status # "absent"
    <2>1. StillThere(operator[o], i, operator[o].read[i].exception, exception[i])
        BY <1>1 DEF PastExceptions
    <2>2. operator[o].read[i].exception[c][k].status # "absent"
        BY <1>1, <1>2, <2>1 DEF StillThere
    <2>. QED
        BY <2>1, <2>2 DEF StillThere, IInv, TypeOK, RowsOK
<1>. DEFINE before == WithStatus(exception[i], c, k, "resolved")
            after  == Opened(before, operator[o].read[i].exception, v, around)
<1>4. Grows(exception[i], before) /\ before \in ExceptionTable
    BY <1>3, WithStatusRevises, RevisingGrows, WithStatusType
<1>5. Grows(before, after)
    BY <1>4, OpenedGrows
<1>6. exception' = [exception EXCEPT ![i] = after]
    BY <1>2 DEF Correct
<1>. HIDE DEF before, after
<1>. QED
    BY <1>4, <1>5, <1>6, GrowsOn, OneTableGrows DEF IInv

LEMMA ReceiveGrows ==
    ASSUME IInv, NEW i \in Initials, NEW v \in Readings, NEW around \in SUBSET Surroundings,
           Receive(i, v, around)
    PROVE  AllGrow
<1>1. exception[i] \in ExceptionTable
    BY DEF IInv, TypeOK, RowsOK
<1>2. exception' = [exception EXCEPT ![i] = Opened(exception[i], exception[i], v, around)]
    BY DEF Receive
<1>. QED
    BY <1>1, <1>2, OpenedGrows, OneTableGrows DEF IInv

LEMMA CommitsGrow ==
    ASSUME IInv, PastExceptions, NEW o \in Operators, OperatorCommits(o)
    PROVE  AllGrow
<1>1. ASSUME Finalize(o) PROVE AllGrow
    BY <1>1, UnchangedGrows DEF Finalize
<1>. QED
    BY <1>1, AcknowledgeGrows, ResolveGrows, ReplayGrows, CorrectGrows
    DEF OperatorCommits, Edit, Estimate

LEMMA StaysThere ==
    ASSUME NEW t, NEW i, NEW loaded, NEW old, NEW new,
           StillThere(t, i, loaded, old), Grows(old, new)
    PROVE  StillThere(t, i, loaded, new)
BY DEF StillThere, Grows

LEMMA EndsPast ==
    ASSUME IInv, PastExceptions, AllGrow, NEW o \in Operators, Ends(o)
    PROVE  PastExceptions'
<1>1. ASSUME NEW p \in Operators, NEW i \in operator'[p].on
      PROVE  p # o /\ operator'[p] = operator[p] /\ i \in Initials
    <2>1. p # o /\ operator'[p] = operator[p]
        BY <1>1 DEF Ends, IInv, TypeOK, Idle
    <2>2. i \in Initials
        BY <1>1, <2>1 DEF IInv, TypeOK, Idle, TransactionOK, Transaction
    <2>. QED
        BY <2>1, <2>2
<1>. QED
    BY <1>1, StaysThere DEF PastExceptions, AllGrow

LEMMA BeginsPast ==
    ASSUME IInv, PastExceptions, NEW o \in Operators, NEW pc, NEW S, NEW c, NEW k,
           Begins(o, pc, S, c, k), S \subseteq Initials,
           pc \in {"acknowledge", "resolve"} \cup Corrections
              => \A i \in S : exception[i][c][k].status # "absent",
           pc = "acknowledge" => \A i \in S : S = {i} /\ exception[i][c][k].status = "open"
    PROVE  PastExceptions'
<1>1. /\ \A p \in Operators : p # o => operator'[p] = operator[p]
      /\ operator'[o] = [pc |-> pc, on |-> S, code |-> c, row |-> k,
                         read |-> [i \in Initials |-> IF i \in S THEN Loaded(i) ELSE None]]
      /\ exception' = exception
    BY DEF Begins, IInv, TypeOK, rows
<1>2. PICK t : t = operator'[o]
    OBVIOUS
<1>3. t.pc = pc /\ t.on = S /\ t.code = c /\ t.row = k
    BY <1>1, <1>2
<1>4. ASSUME NEW i \in S PROVE t.read[i].exception = exception[i]
    BY <1>1, <1>2 DEF Loaded
<1>5. ASSUME NEW i \in S PROVE StillThere(t, i, exception[i], exception[i])
    BY <1>3 DEF StillThere
<1>6. ASSUME NEW p \in Operators, NEW i \in operator'[p].on
      PROVE  StillThere(operator'[p], i, operator'[p].read[i].exception, exception'[i])
    <2>1. CASE p = o
        <3>1. i \in S
            BY <1>2, <1>3, <1>6, <2>1
        <3>. QED
            BY <1>1, <1>2, <1>4, <1>5, <2>1, <3>1
    <2>2. CASE p # o
        BY <1>1, <1>6, <2>2 DEF PastExceptions
    <2>. QED
        BY <2>1, <2>2
<1>. QED
    BY <1>6 DEF PastExceptions

LEMMA OperatorBeginsPast ==
    ASSUME IInv, PastExceptions, NEW o \in Operators, OperatorBegins(o)
    PROVE  PastExceptions'
<1>1. ASSUME NEW i \in Initials, BeginReplay(o, i) PROVE PastExceptions'
    <2>1. Begins(o, "replay", {i}, None, None)
        BY <1>1 DEF BeginReplay
    <2>. QED
        BY <2>1, BeginsPast DEF Corrections
<1>2. ASSUME NEW i \in Initials, NEW c \in Codes, NEW k \in Generations,
             BeginAcknowledge(o, i, c, k)
      PROVE  PastExceptions'
    BY <1>2, BeginsPast DEF BeginAcknowledge
<1>3. ASSUME NEW i \in Initials, NEW c \in Codes, NEW k \in Generations, BeginResolve(o, i, c, k)
      PROVE  PastExceptions'
    BY <1>3, BeginsPast DEF BeginResolve, IsActive
<1>4. ASSUME NEW i \in Initials, NEW c \in Codes, NEW k \in Generations, NEW how \in Corrections,
             BeginCorrect(o, i, c, k, how)
      PROVE  PastExceptions'
    BY <1>4, BeginsPast DEF BeginCorrect, IsActive, Corrections
<1>5. ASSUME NEW S \in (SUBSET Initials) \ {{}}, BeginFinalize(o, S) PROVE PastExceptions'
    BY <1>5, BeginsPast DEF BeginFinalize, Corrections
<1>. QED
    BY <1>1, <1>2, <1>3, <1>4, <1>5 DEF OperatorBegins

Ordered == \A i \in Initials : InOrder(exception[i])

LEMMA PastStep ==
    ASSUME IInv, PastExceptions, [Next]_vars
    PROVE  PastExceptions' /\ AllGrow
<1>1. ASSUME NEW i \in Initials, NEW v \in Readings, NEW around \in SUBSET Surroundings,
             Receive(i, v, around)
      PROVE  PastExceptions' /\ AllGrow
    <2>1. AllGrow /\ operator' = operator
        BY <1>1, ReceiveGrows DEF Receive
    <2>2. \A o \in Operators : operator[o].on \subseteq Initials
        BY DEF IInv, TypeOK, Idle, TransactionOK, Transaction
    <2>. QED
        BY <2>1, <2>2, StaysThere DEF PastExceptions, AllGrow
<1>2. ASSUME NEW o \in Operators, OperatorBegins(o) PROVE PastExceptions' /\ AllGrow
    <2>1. AllGrow
        BY <1>2, UnchangedGrows
        DEF OperatorBegins, BeginReplay, BeginAcknowledge, BeginResolve, BeginCorrect,
            BeginFinalize, Begins, rows
    <2>. QED
        BY <1>2, <2>1, OperatorBeginsPast
<1>3. ASSUME NEW o \in Operators, OperatorCommits(o) PROVE PastExceptions' /\ AllGrow
    <2>1. Ends(o)
        <3>1. \A i \in Initials : Acknowledge(o, i) \/ Resolve(o, i) => Ends(o)
            BY DEF Acknowledge, Resolve
        <3>2. \A i \in Initials, around \in SUBSET Surroundings : Replay(o, i, around) => Ends(o)
            BY Zenon DEF Replay
        <3>3. ASSUME NEW i \in Initials, NEW around \in SUBSET Surroundings, NEW v \in Readings,
                     Edit(o, i, v, around) \/ Estimate(o, i, v, around)
              PROVE  Ends(o)
            <4>1. Correct(o, i, v, around)
                BY <3>3 DEF Edit, Estimate
            <4>. QED
                BY <4>1, Zenon DEF Correct
        <3>4. Finalize(o) => Ends(o)
            BY DEF Finalize
        <3>. QED
            BY <1>3, <3>1, <3>2, <3>3, <3>4 DEF OperatorCommits
    <2>. QED
        BY <1>3, <2>1, CommitsGrow, EndsPast
<1>4. ASSUME NEW o \in Operators, RollBack(o) PROVE PastExceptions' /\ AllGrow
    BY <1>4, UnchangedGrows, EndsPast DEF RollBack, rows
<1>5. CASE UNCHANGED vars
    BY <1>5, UnchangedGrows DEF vars, PastExceptions
<1>. QED
    BY <1>1, <1>2, <1>3, <1>4, <1>5 DEF Next

LEMMA PastInvariance == Spec => [](PastExceptions /\ Ordered)
<1>1. Init => PastExceptions /\ Ordered
    BY DEF Init, PastExceptions, Ordered, InOrder, NoExceptions, Idle
<1>2. IInv /\ PastExceptions /\ Ordered /\ [Next]_vars => (PastExceptions /\ Ordered)'
    BY PastStep DEF Ordered, AllGrow, Grows
<1>. QED
    BY <1>1, <1>2, Invariance, PTL DEF Spec

(* Whatever operators interleave, a code of a measurement has a second active *)
(* exception only where an acknowledgement has brought back an older one: an  *)
(* evaluation never leaves two open (create_or_get_vee_exception).            *)
THEOREM ExceptionsSingle == Spec => []OneActivePerCode
<1>1. IInv /\ Ordered => OneActivePerCode
    BY DEF Ordered, InOrder, OneActivePerCode, IsActive
<1>. QED
    BY <1>1, Invariance, PastInvariance, PTL

(* Whatever operators interleave, a resolved exception becomes active again   *)
(* only by an acknowledgement of it that has read it open and commits later   *)
(* than the resolution (acknowledge_vee_exception).                           *)
THEOREM ResolutionsStand == Spec => ReopenedOnlyByLateAcknowledgement
<1>. DEFINE Late ==
         \A i \in Initials, c \in Codes, k \in Generations :
             exception[i][c][k].status = "resolved" /\ exception'[i][c][k].status # "resolved"
                 => /\ exception'[i][c][k].status = "acknowledged"
                    /\ \E o \in Operators : Acknowledging(o, i, c, k) /\ operator'[o] = Idle
<1>1. ASSUME IInv, PastExceptions, NEW o \in Operators, NEW i \in Initials, Acknowledge(o, i)
      PROVE  Late
    <2>1. operator[o].pc = "acknowledge" /\ i \in operator[o].on
        BY <1>1 DEF Acknowledge
    <2>2. PICK d \in Codes, m \in Generations : d = operator[o].code /\ m = operator[o].row
        BY <1>1, <2>1, Working DEF TransactionOK
    <2>3. Acknowledging(o, i, d, m)
        BY <1>1, <2>1, <2>2 DEF PastExceptions, StillThere, Acknowledging
    <2>4. operator'[o] = Idle
        BY <1>1 DEF Acknowledge, Ends, IInv, TypeOK
    <2>5. PICK new : /\ new = WithStatus(exception[i], d, m, "acknowledged")
                     /\ exception' = [exception EXCEPT ![i] = new]
        BY <1>1, <2>2 DEF Acknowledge
    <2>6. \A j \in Initials : exception'[j] = IF j = i THEN new ELSE exception[j]
        BY <1>1, <2>5 DEF IInv, TypeOK, RowsOK
    <2>7. \A c \in Codes, k \in Generations :
             new[c][k] = IF c = d /\ k = m
                         THEN [status |-> "acknowledged", blocking |-> exception[i][d][m].blocking]
                         ELSE exception[i][c][k]
        BY <1>1, <2>5 DEF IInv, TypeOK, RowsOK, ExceptionTable, WithStatus
    <2>. QED
        BY <2>3, <2>4, <2>6, <2>7
<1>2. ASSUME IInv, [Next]_vars, ~ \E o \in Operators, i \in Initials : Acknowledge(o, i)
      PROVE  Late
    BY <1>2, StepKeepsExceptionsSafe DEF KeepsExceptionsSafe, KeepsResolved
<1>3. IInv /\ PastExceptions /\ [Next]_vars => [Late]_vars
    BY <1>1, <1>2
<1>. QED
    BY <1>3, Invariance, PastInvariance, PTL DEF Spec, ReopenedOnlyByLateAcknowledgement

-------------------------------------------------------------------------------
(* What an evaluation leaves behind when nobody has written in between: the   *)
(* flags its session loaded are those of the table.                           *)

SameFlags(table, loaded) ==
    \A c \in Codes, k \in Generations : table[c][k].blocking = loaded[c][k].blocking

(* A non-empty set of numbers has a least one.                                *)
LEMMA Least ==
    ASSUME NEW T \in SUBSET Nat, T # {}
    PROVE  \E n \in T : \A m \in T : n <= m
<1>1. PICK n \in T : \A m \in T : ~ (<<m, n>> \in OpToRel(<, Nat))
    BY NatLessThanWellFounded, WFMin
<1>2. \A m \in T : ~ (m < n)
    BY <1>1 DEF OpToRel
<1>. QED
    BY <1>2

LEMMA FlushedWrites ==
    ASSUME NEW loaded, NEW new
    PROVE  Flushed(loaded, loaded, new) = new
BY DEF Flushed

(* Every code that hits has an active exception afterwards, with the flag of  *)
(* this evaluation.                                                           *)
LEMMA HitShows ==
    ASSUME NEW table \in ExceptionTable, NEW loaded \in ExceptionTable,
           NEW v \in Readings, NEW around \in SUBSET Surroundings,
           SameFlags(table, loaded), HasRoom(table, v, around),
           NEW c \in HitCodes(v, around)
    PROVE  \E k \in Generations :
              /\ IsActive(Opened(table, loaded, v, around)[c][k])
              /\ Opened(table, loaded, v, around)[c][k].blocking = Blocks(c, around)
<1>. DEFINE new == Opened(table, loaded, v, around)
<1>1. c \in Codes /\ DOMAIN table[c] = Generations /\ Generations \subseteq Nat
    BY CoreAssumption DEF HitCodes, ExceptionTable, Generations
<1>2. CASE HasActive(table[c])
    <2>1. PICK k \in Generations : /\ IsActive(table[c][k])
                                   /\ \A j \in Generations : IsActive(table[c][j]) => k <= j
        <3>. DEFINE T == {k \in Generations : IsActive(table[c][k])}
        <3>1. T \in SUBSET Nat /\ T # {}
            BY <1>1, <1>2 DEF HasActive
        <3>2. PICK k \in T : \A j \in T : k <= j
            BY <3>1, Least
        <3>. QED
            BY <3>2
    <2>2. IsReused(table[c], k)
        BY <1>1, <2>1 DEF IsReused
    <2>3. new[c][k] = [status |-> table[c][k].status,
                       blocking |-> IF loaded[c][k].status = "absent" THEN Blocks(c, around)
                                    ELSE Flushed(loaded[c][k].blocking, table[c][k].blocking,
                                                 Blocks(c, around))]
        BY <1>1, <1>2, <2>2 DEF Opened
    <2>4. Flushed(loaded[c][k].blocking, table[c][k].blocking, Blocks(c, around))
              = Blocks(c, around)
        BY <1>1, FlushedWrites DEF SameFlags
    <2>5. new[c][k].blocking = Blocks(c, around) /\ new[c][k].status = table[c][k].status
        BY <2>3, <2>4
    <2>. QED
        BY <2>1, <2>5 DEF IsActive
<1>3. CASE ~HasActive(table[c])
    <2>1. PICK k \in Generations : /\ table[c][k].status = "absent"
                                   /\ \A j \in Generations :
                                         table[c][j].status = "absent" => k <= j
        <3>. DEFINE T == {k \in Generations : table[c][k].status = "absent"}
        <3>1. T \in SUBSET Nat /\ T # {}
            BY <1>1, <1>3 DEF HasRoom
        <3>2. PICK k \in T : \A j \in T : k <= j
            BY <3>1, Least
        <3>. QED
            BY <3>2
    <2>2. IsNextRow(table[c], k)
        <3>1. k \in Nat /\ Generations \subseteq Nat
            BY <1>1
        <3>2. ASSUME NEW j \in Generations, j < k PROVE table[c][j].status # "absent"
            BY <2>1, <3>1, <3>2
        <3>. QED
            BY <1>1, <2>1, <3>2 DEF IsNextRow
    <2>3. new[c][k] = [status |-> "open", blocking |-> Blocks(c, around)]
        BY <1>1, <1>3, <2>2 DEF Opened
    <2>. QED
        BY <2>3 DEF IsActive
<1>. QED
    BY <1>2, <1>3

(* What blocks afterwards was found now, or stood there and was not found.    *)
LEMMA BlockedBy ==
    ASSUME NEW table \in ExceptionTable, NEW loaded \in ExceptionTable,
           NEW v \in Readings, NEW around \in SUBSET Surroundings,
           SameFlags(table, loaded), NEW c \in Codes, NEW k \in Generations,
           BlocksNow(Opened(table, loaded, v, around)[c][k])
    PROVE  \/ c \in HitCodes(v, around) /\ Blocks(c, around)
           \/ /\ Opened(table, loaded, v, around)[c][k] = table[c][k]
              /\ ~(c \in HitCodes(v, around) /\ HasActive(table[c]) /\ IsReused(table[c], k))
<1>. DEFINE new == Opened(table, loaded, v, around)
<1>1. CASE c \in HitCodes(v, around) /\ HasActive(table[c]) /\ IsReused(table[c], k)
    <2>1. new[c][k] = [status |-> table[c][k].status,
                       blocking |-> IF loaded[c][k].status = "absent" THEN Blocks(c, around)
                                    ELSE Flushed(loaded[c][k].blocking, table[c][k].blocking,
                                                 Blocks(c, around))]
        BY <1>1 DEF Opened
    <2>2. Flushed(loaded[c][k].blocking, table[c][k].blocking, Blocks(c, around))
              = Blocks(c, around)
        BY FlushedWrites DEF SameFlags
    <2>3. new[c][k].blocking = Blocks(c, around)
        BY <2>1, <2>2
    <2>. QED
        BY <1>1, <2>3 DEF BlocksNow
<1>2. CASE c \in HitCodes(v, around) /\ ~HasActive(table[c]) /\ IsNextRow(table[c], k)
    <2>1. new[c][k] = [status |-> "open", blocking |-> Blocks(c, around)]
        BY <1>2 DEF Opened
    <2>. QED
        BY <1>2, <2>1 DEF BlocksNow
<1>3. CASE /\ ~(c \in HitCodes(v, around) /\ HasActive(table[c]) /\ IsReused(table[c], k))
           /\ ~(c \in HitCodes(v, around) /\ ~HasActive(table[c]) /\ IsNextRow(table[c], k))
    BY <1>3 DEF Opened
<1>. QED
    BY <1>1, <1>2, <1>3

(* A verdict of "exception" leaves something that blocks.                     *)
LEMMA VerdictShows ==
    ASSUME NEW table \in ExceptionTable, NEW loaded \in ExceptionTable,
           NEW v \in Readings, NEW around \in SUBSET Surroundings,
           SameFlags(table, loaded), HasRoom(table, v, around),
           VeeStatus(v, around) = "exception"
    PROVE  ~NoneBlocking(Opened(table, loaded, v, around))
<1>1. PICK c \in HitCodes(v, around) : Blocks(c, around)
    BY DEF VeeStatus
<1>2. PICK k \in Generations :
          /\ IsActive(Opened(table, loaded, v, around)[c][k])
          /\ Opened(table, loaded, v, around)[c][k].blocking = Blocks(c, around)
    BY HitShows
<1>. QED
    BY <1>1, <1>2 DEF NoneBlocking, BlocksNow, HitCodes

LEMMA ResolvingKeepsFlags ==
    ASSUME NEW table \in ExceptionTable
    PROVE  /\ SameFlags(table, table)
           /\ SameFlags(Superseded(table, table), table)
           /\ \A c \in Codes, k \in Generations, s \in {"acknowledged", "resolved"} :
                 SameFlags(WithStatus(table, c, k, s), table)
<1>1. SameFlags(Superseded(table, table), table)
    BY DEF SameFlags, Superseded
<1>2. ASSUME NEW c \in Codes, NEW k \in Generations, NEW s \in {"acknowledged", "resolved"}
      PROVE  SameFlags(WithStatus(table, c, k, s), table)
    BY DEF SameFlags, WithStatus, ExceptionTable
<1>. QED
    BY <1>1, <1>2 DEF SameFlags

(* A re-evaluation that leaves nothing active has found nothing.              *)
LEMMA ClearMeansAccepted ==
    ASSUME NEW table \in ExceptionTable, NEW loaded \in ExceptionTable,
           NEW v \in Readings, NEW around \in SUBSET Surroundings,
           SameFlags(table, loaded), HasRoom(table, v, around),
           NoneActive(Opened(table, loaded, v, around))
    PROVE  VeeStatus(v, around) = "accepted" /\ NoneBlocking(Opened(table, loaded, v, around))
<1>1. NoneBlocking(Opened(table, loaded, v, around))
    BY DEF NoneActive, NoneBlocking, BlocksNow
<1>. QED
    BY <1>1, VerdictShows, StatusType

(* Nothing blocks after a correction that is accepted and sees nothing block. *)
LEMMA SeenClearIsClear ==
    ASSUME NEW before \in ExceptionTable, NEW loaded \in ExceptionTable,
           NEW v \in Readings, NEW around \in SUBSET Surroundings,
           SameFlags(before, loaded), VeeStatus(v, around) = "accepted",
           ~SeesBlocking(before, before, Opened(before, loaded, v, around),
                         HitCodes(v, around))
    PROVE  NoneBlocking(Opened(before, loaded, v, around))
<1>. DEFINE after == Opened(before, loaded, v, around)
<1>1. ASSUME NEW c \in Codes, NEW k \in Generations, BlocksNow(after[c][k]) PROVE FALSE
    <2>1. ~(c \in HitCodes(v, around) /\ Blocks(c, around))
        BY DEF VeeStatus
    <2>2. /\ after[c][k] = before[c][k]
          /\ ~(c \in HitCodes(v, around) /\ HasActive(before[c]) /\ IsReused(before[c], k))
        BY <1>1, <2>1, BlockedBy
    <2>. HIDE DEF after
    <2>3. IF before[c][k].status = "absent" THEN BlocksNow(after[c][k])
          ELSE before[c][k].blocking /\ (IsActive(after[c][k]) \/ IsActive(before[c][k]))
        BY <1>1, <2>2 DEF BlocksNow
    <2>4. SeesBlocking(before, before, after, HitCodes(v, around))
        BY <2>2, <2>3 DEF SeesBlocking
    <2>. QED
        BY <2>4 DEF after
<1>. QED
    BY <1>1 DEF NoneBlocking

-------------------------------------------------------------------------------
(* Operators that do not overlap: no two have open transactions about one     *)
(* measurement.  Others may work on others, and receipts come in between.     *)

Apart == \A o, p \in Operators : o # p => operator[o].on \cap operator[p].on = {}

(* A transaction works on what is in the tables, and an acknowledgement on an *)
(* exception that is open.                                                    *)
UpToDate ==
    \A o \in Operators : \A i \in operator[o].on :
        /\ operator[o].read[i] = Loaded(i)
        /\ operator[o].pc = "acknowledge"
              => exception[i][operator[o].code][operator[o].row].status = "open"

SerialInv == IInv /\ UpToDate /\ ExceptionMeansBlocked

(* What a step does to one measurement where operators do not overlap: its    *)
(* status says "exception" only with cause, and a reading is published only   *)
(* while nothing blocks, as the measurement then has it.                      *)
SoundStep(i) ==
    /\ initial_status'[i] = "exception" => ~NoneBlocking(exception'[i])
    /\ \A k \in Revisions : Published(i, k) =>
          /\ initial_status'[i] = "accepted"
          /\ NoneBlocking(exception'[i])
          /\ final'[i][k].reading = reading'[i]

(* A promotion publishes in a row that was free, and only what it was given.  *)
LEMMA PromotePublishes ==
    ASSUME IInv, NEW P \in SUBSET Initials, NEW v, NEW read,
           \A i \in P : /\ read[i].current \in Revisions \cup {None}
                        /\ read[i].current # None
                              => final[i][read[i].current].status # "absent",
           Promote(P, v, read)
    PROVE  \A i \in Initials, k \in Revisions :
              Published(i, k) => i \in P /\ final'[i][k].reading = v[i]
<1>1. PICK cur \in [P -> Revisions \cup {None}] :
        /\ \A i \in P : cur[i] \in {read[i].current, CurrentOf(final[i])}
        /\ final' = [i \in Initials |->
                       IF i \in P THEN FinalsAfter(final[i], cur[i], v[i]) ELSE final[i]]
    BY DEF Promote
<1>2. ASSUME NEW i \in Initials, NEW k \in Revisions, Published(i, k)
      PROVE  i \in P /\ final'[i][k].reading = v[i]
    <2>1. i \in P
        BY <1>1, <1>2 DEF Published
    <2>2. final'[i] = FinalsAfter(final[i], cur[i], v[i])
        BY <1>1, <2>1
    <2>3. PICK n \in 0..MaxRevisions : ChainOfLength(final[i], n)
        BY DEF IInv, Chained
    <2>4. CurrentOf(final[i]) = IF n = 0 THEN None ELSE n
        BY <2>3, ChainEnds DEF IInv, TypeOK, RowsOK
    <2>5. n # 0 => final[i][n].status # "absent"
        BY <2>3, CoreAssumption DEF ChainOfLength, Revisions
    <2>6. cur[i] # None => final[i][cur[i]].status # "absent"
        BY <1>1, <2>1, <2>4, <2>5
    <2>7. PICK c : c = cur[i]
        OBVIOUS
    <2>8. PICK w : w = v[i]
        OBVIOUS
    <2>9. c # None => final[i][c].status # "absent"
        BY <2>6, <2>7
    <2>10. final'[i] = FinalsAfter(final[i], c, w)
        BY <2>2, <2>7, <2>8
    <2>11. final[i][k].status = "absent" /\ final'[i][k].status # "absent"
        BY <1>2 DEF Published
    <2>12. CASE c # None /\ final[i][c].reading = w
        BY <2>10, <2>11, <2>12 DEF FinalsAfter
    <2>13. CASE ~(c # None /\ final[i][c].reading = w)
        <3>1. k # c
            BY <2>9, <2>11, CoreAssumption DEF Revisions
        <3>2. IsNextRow(final[i], k)
            BY <2>10, <2>11, <2>13, <3>1 DEF FinalsAfter
        <3>3. final'[i][k] = [status |-> "finalized", is_current |-> TRUE, reading |-> w,
                              revision |-> IF c = None THEN 1 ELSE final[i][c].revision + 1,
                              supersedes |-> c]
            BY <2>10, <2>13, <3>2 DEF FinalsAfter
        <3>. QED
            BY <2>1, <2>8, <3>3
    <2>. QED
        BY <2>12, <2>13
<1>. QED
    BY <1>2

(* The rows of one measurement and no other. *)
OnlyTouches(i) ==
    \A j \in Initials \ {i} :
        /\ initial_status'[j] = initial_status[j]
        /\ exception'[j] = exception[j]
        /\ final'[j] = final[j]

LEMMA OthersAreSound ==
    ASSUME ExceptionMeansBlocked, NEW i \in Initials, OnlyTouches(i), SoundStep(i)
    PROVE  \A j \in Initials : SoundStep(j)
<1>1. ASSUME NEW j \in Initials \ {i} PROVE SoundStep(j)
    <2>1. /\ initial_status'[j] = initial_status[j]
          /\ exception'[j] = exception[j]
          /\ final'[j] = final[j]
        BY DEF OnlyTouches
    <2>2. \A k \in Revisions : ~Published(j, k)
        BY <2>1 DEF Published
    <2>. QED
        BY <2>1, <2>2 DEF SoundStep, ExceptionMeansBlocked
<1>. QED
    BY <1>1

LEMMA UnchangedIsSound ==
    ASSUME ExceptionMeansBlocked, UNCHANGED rows
    PROVE  \A j \in Initials : SoundStep(j)
<1>1. ASSUME NEW j \in Initials PROVE SoundStep(j)
    <2>1. \A k \in Revisions : ~Published(j, k)
        BY DEF Published, rows
    <2>. QED
        BY <2>1 DEF SoundStep, ExceptionMeansBlocked, rows
<1>. QED
    BY <1>1

LEMMA ReceiveIsSound ==
    ASSUME SerialInv, NEW i \in Initials, NEW v \in Readings,
           NEW around \in SUBSET Surroundings, Receive(i, v, around)
    PROVE  \A j \in Initials : SoundStep(j)
<1>1. /\ exception[i] \in ExceptionTable
      /\ exception \in [Initials -> ExceptionTable]
      /\ initial_status \in [Initials -> InitialStatuses]
    BY DEF SerialInv, IInv, TypeOK, RowsOK
<1>2. PICK after : after = Opened(exception[i], exception[i], v, around)
    OBVIOUS
<1>3. exception'[i] = after /\ initial_status'[i] = VeeStatus(v, around)
    BY <1>1, <1>2 DEF Receive
<1>4. \A k \in Revisions : ~Published(i, k)
    BY DEF Receive, Published
<1>5. OnlyTouches(i)
    BY <1>1 DEF Receive, OnlyTouches
<1>6. VeeStatus(v, around) = "exception" => ~NoneBlocking(after)
    BY <1>1, <1>2, VerdictShows, ResolvingKeepsFlags DEF Receive
<1>. QED
    BY <1>3, <1>4, <1>5, <1>6, OthersAreSound DEF SerialInv, SoundStep

(* A busy operator has loaded the rows as they are.                           *)
LEMMA LoadedNow ==
    ASSUME SerialInv, NEW o \in Operators, NEW i \in operator[o].on
    PROVE  /\ i \in Initials
           /\ operator[o].read[i].reading = reading[i]
           /\ operator[o].read[i].status = initial_status[i]
           /\ operator[o].read[i].exception = exception[i]
           /\ operator[o].read[i].current = CurrentOf(final[i])
           /\ exception[i] \in ExceptionTable
           /\ initial_status[i] \in InitialStatuses \ {"absent"}
           /\ reading[i] \in Readings
<1>1. operator[o].pc # "idle"
    BY DEF SerialInv, IInv, TypeOK, Idle, TransactionOK, Transaction, Actions, Corrections
<1>2. i \in Initials
    BY <1>1, Working DEF SerialInv
<1>3. operator[o].read[i] = Loaded(i)
    BY DEF SerialInv, UpToDate
<1>4. exception[i] \in ExceptionTable
    BY <1>2 DEF SerialInv, IInv, TypeOK, RowsOK
<1>5. initial_status[i] \in InitialStatuses \ {"absent"} /\ reading[i] \in Readings
    BY <1>1, Working DEF SerialInv
<1>. QED
    BY <1>2, <1>3, <1>4, <1>5 DEF Loaded

LEMMA AcknowledgeIsSound ==
    ASSUME SerialInv, NEW o \in Operators, NEW i \in Initials, Acknowledge(o, i)
    PROVE  \A j \in Initials : SoundStep(j)
<1>. DEFINE c == operator[o].code
            k == operator[o].row
<1>1. operator[o].pc = "acknowledge" /\ i \in operator[o].on
    BY DEF Acknowledge
<1>2. c \in Codes /\ k \in Generations
    BY <1>1, Working DEF SerialInv, TransactionOK
<1>3. /\ exception \in [Initials -> ExceptionTable]
      /\ initial_status \in [Initials -> InitialStatuses]
    BY DEF SerialInv, IInv, TypeOK, RowsOK
<1>4. exception[i][c][k].status = "open"
    BY <1>1 DEF SerialInv, UpToDate
<1>5. PICK status : status = IF exception[i][c][k].blocking THEN "exception"
                             ELSE Refreshed(initial_status[i], exception[i])
    OBVIOUS
<1>6. /\ exception' = [exception EXCEPT ![i] = WithStatus(exception[i], c, k, "acknowledged")]
      /\ initial_status' = [initial_status EXCEPT ![i] =
                               Flushed(initial_status[i], initial_status[i], status)]
    BY <1>1, <1>5, LoadedNow DEF Acknowledge
<1>. HIDE DEF c, k
<1>7. initial_status'[i] = status
    BY <1>3, <1>6, FlushedWrites
<1>8. exception'[i] = WithStatus(exception[i], c, k, "acknowledged")
    BY <1>3, <1>6
<1>9. ASSUME NEW d \in Codes, NEW m \in Generations
      PROVE  BlocksNow(exception'[i][d][m]) <=> BlocksNow(exception[i][d][m])
    <2>1. exception[i] \in ExceptionTable
        BY <1>3
    <2>2. CASE d = c /\ m = k
        <3>1. exception'[i][d][m]
                = [status |-> "acknowledged", blocking |-> exception[i][c][k].blocking]
            BY <1>2, <1>8, <2>1, <2>2 DEF WithStatus, ExceptionTable
        <3>. QED
            BY <1>4, <2>2, <3>1 DEF BlocksNow, IsActive
    <2>3. CASE ~(d = c /\ m = k)
        <3>1. exception'[i][d][m] = exception[i][d][m]
            BY <1>2, <1>8, <2>1, <2>3 DEF WithStatus, ExceptionTable
        <3>. QED
            BY <3>1
    <2>. QED
        BY <2>2, <2>3
<1>10. status = "exception" => ~NoneBlocking(exception[i])
    <2>1. CASE exception[i][c][k].blocking
        BY <1>2, <1>4, <2>1 DEF NoneBlocking, BlocksNow, IsActive
    <2>2. CASE ~exception[i][c][k].blocking
        BY <1>5, <2>2 DEF Refreshed
    <2>. QED
        BY <2>1, <2>2
<1>11. status = "exception" => ~NoneBlocking(exception'[i])
    BY <1>9, <1>10 DEF NoneBlocking
<1>12. OnlyTouches(i)
    BY <1>3, <1>6 DEF Acknowledge, OnlyTouches
<1>13. \A m \in Revisions : ~Published(i, m)
    BY DEF Acknowledge, Published
<1>. QED
    BY <1>7, <1>11, <1>12, <1>13, OthersAreSound DEF SerialInv, SoundStep

LEMMA ResolveIsSound ==
    ASSUME SerialInv, NEW o \in Operators, NEW i \in Initials, Resolve(o, i)
    PROVE  \A j \in Initials : SoundStep(j)
<1>1. operator[o].pc = "resolve" /\ i \in operator[o].on
    BY DEF Resolve
<1>2. /\ exception \in [Initials -> ExceptionTable]
      /\ initial_status \in [Initials -> InitialStatuses]
    BY DEF SerialInv, IInv, TypeOK, RowsOK
<1>3. PICK table : table = WithStatus(exception[i], operator[o].code, operator[o].row, "resolved")
    OBVIOUS
<1>4. PICK status : status = Refreshed(initial_status[i], table)
    OBVIOUS
<1>5. /\ exception' = [exception EXCEPT ![i] = table]
      /\ initial_status' = [initial_status EXCEPT ![i] =
                               Flushed(initial_status[i], initial_status[i], status)]
    BY <1>1, <1>3, <1>4, LoadedNow DEF Resolve
<1>6. initial_status'[i] = status /\ exception'[i] = table
    BY <1>2, <1>5, FlushedWrites
<1>7. status = "exception" => ~NoneBlocking(table)
    BY <1>4 DEF Refreshed
<1>8. OnlyTouches(i)
    BY <1>2, <1>5 DEF Resolve, OnlyTouches
<1>9. \A m \in Revisions : ~Published(i, m)
    BY DEF Resolve, Published
<1>. QED
    BY <1>6, <1>7, <1>8, <1>9, OthersAreSound DEF SerialInv, SoundStep

(* What a promotion of the one measurement publishes.                         *)
LEMMA PromotesOne ==
    ASSUME SerialInv, NEW o \in Operators, NEW i \in operator[o].on, NEW P \in SUBSET {i},
           NEW w, NEW v, v = [j \in Initials |-> w], Promote(P, v, operator[o].read)
    PROVE  /\ \A k \in Revisions : Published(i, k) => P = {i} /\ final'[i][k].reading = w
           /\ \A j \in Initials \ {i} : final'[j] = final[j]
<1>1. i \in Initials /\ P \in SUBSET Initials
    BY LoadedNow
<1>2. operator[o].pc # "idle"
    BY DEF SerialInv, IInv, TypeOK, Idle, TransactionOK, Transaction, Actions, Corrections
<1>3. \A j \in P : /\ operator[o].read[j].current \in Revisions \cup {None}
                   /\ operator[o].read[j].current # None
                         => final[j][operator[o].read[j].current].status # "absent"
    BY <1>2, Working DEF SerialInv
<1>4. \A j \in Initials, k \in Revisions :
          Published(j, k) => j \in P /\ final'[j][k].reading = v[j]
    BY <1>1, <1>3, PromotePublishes DEF SerialInv
<1>5. v[i] = w
    BY <1>1
<1>6. \A j \in Initials : j \notin P => final'[j] = final[j]
    BY DEF Promote
<1>7. P = {i} \/ i \notin P
    OBVIOUS
<1>. QED
    BY <1>1, <1>4, <1>5, <1>6, <1>7

LEMMA ReplayIsSound ==
    ASSUME SerialInv, NEW o \in Operators, NEW i \in Initials,
           NEW around \in SUBSET Surroundings, Replay(o, i, around)
    PROVE  \A j \in Initials : SoundStep(j)
<1>1. operator[o].pc = "replay" /\ i \in operator[o].on
    BY DEF Replay
<1>2. /\ exception \in [Initials -> ExceptionTable]
      /\ initial_status \in [Initials -> InitialStatuses]
      /\ reading[i] \in Readings
      /\ exception[i] \in ExceptionTable
    BY <1>1, LoadedNow DEF SerialInv, IInv, TypeOK, RowsOK
<1>3. PICK before : before = Superseded(exception[i], exception[i])
    OBVIOUS
<1>4. PICK after : after = Opened(before, exception[i], reading[i], around)
    OBVIOUS
<1>5. PICK P, w, v : /\ P = IF NoneActive(after) THEN {i} ELSE {}
                     /\ w = reading[i]
                     /\ v = [j \in Initials |-> w]
    OBVIOUS
<1>6. /\ HasRoom(before, reading[i], around)
      /\ exception' = [exception EXCEPT ![i] = after]
      /\ initial_status' = [initial_status EXCEPT ![i] = VeeStatus(reading[i], around)]
      /\ Promote(P, v, operator[o].read)
    BY <1>1, <1>3, <1>4, <1>5, LoadedNow DEF Replay
<1>7. before \in ExceptionTable /\ SameFlags(before, exception[i])
    BY <1>2, <1>3, SupersededType, ResolvingKeepsFlags
<1>8. initial_status'[i] = VeeStatus(reading[i], around) /\ exception'[i] = after
    BY <1>2, <1>6
<1>9. VeeStatus(reading[i], around) = "exception" => ~NoneBlocking(after)
    BY <1>2, <1>4, <1>6, <1>7, VerdictShows
<1>10. NoneActive(after) => VeeStatus(reading[i], around) = "accepted" /\ NoneBlocking(after)
    BY <1>2, <1>4, <1>6, <1>7, ClearMeansAccepted
<1>11. P \in SUBSET {i} /\ (P = {i} => NoneActive(after))
    BY <1>5
<1>12. /\ \A k \in Revisions : Published(i, k) => P = {i} /\ final'[i][k].reading = w
       /\ \A j \in Initials \ {i} : final'[j] = final[j]
    <2>1. v = [j \in Initials |-> w] /\ Promote(P, v, operator[o].read)
        BY <1>5, <1>6
    <2>2. P \in SUBSET {i}
        BY <1>11
    <2>. QED
        BY <1>1, <2>1, <2>2, PromotesOne
<1>13. OnlyTouches(i)
    BY <1>2, <1>6, <1>12 DEF OnlyTouches
<1>14. reading' = reading
    BY DEF Replay
<1>15. SoundStep(i)
    BY <1>5, <1>8, <1>9, <1>10, <1>11, <1>12, <1>14 DEF SoundStep
<1>. QED
    BY <1>13, <1>15, OthersAreSound DEF SerialInv

LEMMA CorrectIsSound ==
    ASSUME SerialInv, NEW o \in Operators, NEW i \in Initials, NEW v \in Readings,
           NEW around \in SUBSET Surroundings, Correct(o, i, v, around)
    PROVE  \A j \in Initials : SoundStep(j)
<1>1. operator[o].pc \in Corrections /\ i \in operator[o].on
    BY DEF Correct
<1>2. /\ exception \in [Initials -> ExceptionTable]
      /\ initial_status \in [Initials -> InitialStatuses]
      /\ reading \in [Initials -> Readings \cup {None}]
      /\ exception[i] \in ExceptionTable
    BY DEF SerialInv, IInv, TypeOK, RowsOK
<1>3. operator[o].code \in Codes /\ operator[o].row \in Generations
    BY <1>1, Working DEF SerialInv, TransactionOK, Corrections
<1>4. PICK before : before = WithStatus(exception[i], operator[o].code, operator[o].row, "resolved")
    OBVIOUS
<1>5. PICK after : after = Opened(before, exception[i], v, around)
    OBVIOUS
<1>6. PICK status : status = VeeStatus(v, around)
    OBVIOUS
<1>7. PICK P, w : /\ P = IF /\ status = "accepted"
                            /\ ~SeesBlocking(before, before, after, HitCodes(v, around))
                         THEN {i} ELSE {}
                  /\ w = [j \in Initials |-> v]
    OBVIOUS
<1>8. PICK verdict : verdict = IF Refreshed(initial_status[i], before) = initial_status[i]
                               THEN Flushed(initial_status[i], initial_status[i], status)
                               ELSE status
    OBVIOUS
<1>9. /\ HasRoom(before, v, around)
      /\ reading' = [reading EXCEPT ![i] = Flushed(reading[i], reading[i], v)]
      /\ exception' = [exception EXCEPT ![i] = after]
      /\ initial_status' = [initial_status EXCEPT ![i] = verdict]
      /\ Promote(P, w, operator[o].read)
    BY <1>1, <1>4, <1>5, <1>6, <1>7, <1>8, LoadedNow DEF Correct
<1>10. verdict = status /\ Flushed(reading[i], reading[i], v) = v
    BY <1>8, FlushedWrites
<1>11. initial_status'[i] = status /\ exception'[i] = after /\ reading'[i] = v
    BY <1>2, <1>9, <1>10
<1>12. before \in ExceptionTable /\ SameFlags(before, exception[i])
    BY <1>2, <1>3, <1>4, WithStatusType, ResolvingKeepsFlags
<1>13. status = "exception" => ~NoneBlocking(after)
    BY <1>2, <1>5, <1>6, <1>9, <1>12, VerdictShows
<1>14. P \in SUBSET {i}
    BY <1>7
<1>15. P = {i} => status = "accepted" /\ NoneBlocking(after)
    BY <1>2, <1>5, <1>6, <1>7, <1>12, SeenClearIsClear
<1>16. /\ \A k \in Revisions : Published(i, k) => P = {i} /\ final'[i][k].reading = v
       /\ \A j \in Initials \ {i} : final'[j] = final[j]
    BY <1>1, <1>7, <1>9, <1>14, PromotesOne
<1>17. OnlyTouches(i)
    BY <1>2, <1>9, <1>16 DEF OnlyTouches
<1>18. SoundStep(i)
    BY <1>11, <1>13, <1>15, <1>16 DEF SoundStep
<1>. QED
    BY <1>17, <1>18, OthersAreSound DEF SerialInv

LEMMA FinalizeIsSound ==
    ASSUME SerialInv, NEW o \in Operators, Finalize(o)
    PROVE  \A j \in Initials : SoundStep(j)
<1>. DEFINE P == {i \in operator[o].on : IsFinalizable(operator[o].read[i])}
            v == [i \in Initials |-> IF i \in P THEN operator[o].read[i].reading ELSE None]
<1>1. /\ operator[o].pc = "finalize"
      /\ Promote(P, v, operator[o].read)
      /\ UNCHANGED <<reading, initial_status, exception>>
    BY DEF Finalize
<1>2. \A i \in P : i \in operator[o].on /\ i \in Initials
    BY LoadedNow
<1>3. ASSUME NEW i \in P
      PROVE  /\ v[i] = reading[i]
             /\ initial_status[i] = "accepted"
             /\ NoneBlocking(exception[i])
             /\ operator[o].read[i].current \in Revisions \cup {None}
             /\ operator[o].read[i].current # None
                   => final[i][operator[o].read[i].current].status # "absent"
    <2>1. i \in operator[o].on /\ i \in Initials
        BY <1>2
    <2>2. v[i] = operator[o].read[i].reading /\ IsFinalizable(operator[o].read[i])
        BY <2>1
    <2>. HIDE DEF P, v
    <2>3. v[i] = reading[i] /\ initial_status[i] = "accepted" /\ NoneBlocking(exception[i])
        BY <2>1, <2>2, LoadedNow DEF IsFinalizable
    <2>. QED
        BY <1>1, <2>1, <2>3, Working DEF SerialInv
<1>. HIDE DEF P, v
<1>4. \A i \in Initials, k \in Revisions :
          Published(i, k) => i \in P /\ final'[i][k].reading = v[i]
    BY <1>1, <1>2, <1>3, PromotePublishes DEF SerialInv
<1>5. ASSUME NEW j \in Initials PROVE SoundStep(j)
    BY <1>1, <1>3, <1>4 DEF SoundStep, SerialInv, ExceptionMeansBlocked
<1>. QED
    BY <1>5

LEMMA SerialSound ==
    ASSUME SerialInv, [Next]_vars
    PROVE  \A j \in Initials : SoundStep(j)
<1>. DEFINE Sound == \A j \in Initials : SoundStep(j)
<1>1. ASSUME UNCHANGED rows PROVE Sound
    BY <1>1, UnchangedIsSound DEF SerialInv
<1>2. ASSUME NEW i \in Initials, NEW v \in Readings, NEW around \in SUBSET Surroundings,
             Receive(i, v, around)
      PROVE  Sound
    BY <1>2, ReceiveIsSound
<1>3. ASSUME NEW i \in Initials, NEW v \in Readings, NEW around \in SUBSET Surroundings,
             NEW o \in Operators, Edit(o, i, v, around) \/ Estimate(o, i, v, around)
      PROVE  Sound
    BY <1>3, CorrectIsSound DEF Edit, Estimate
<1>4. ASSUME NEW i \in Initials, NEW o \in Operators, NEW around \in SUBSET Surroundings,
             Replay(o, i, around)
      PROVE  Sound
    BY <1>4, ReplayIsSound
<1>5. ASSUME NEW o \in Operators, OperatorBegins(o) PROVE UNCHANGED rows
    BY <1>5 DEF OperatorBegins, BeginReplay, BeginAcknowledge, BeginResolve,
                BeginCorrect, BeginFinalize, Begins
<1>. HIDE DEF Sound
<1>6. ASSUME NEW o \in Operators, OperatorCommits(o) PROVE Sound
    <2>1. ASSUME NEW i \in Initials, Acknowledge(o, i) PROVE Sound
        BY <2>1, AcknowledgeIsSound DEF Sound
    <2>2. ASSUME NEW i \in Initials, Resolve(o, i) PROVE Sound
        BY <2>2, ResolveIsSound DEF Sound
    <2>3. ASSUME Finalize(o) PROVE Sound
        BY <2>3, FinalizeIsSound DEF Sound
    <2>. QED
        BY <1>3, <1>4, <1>6, <2>1, <2>2, <2>3 DEF OperatorCommits
<1>7. ASSUME NEW o \in Operators, RollBack(o) PROVE Sound
    BY <1>1, <1>7 DEF RollBack
<1>8. ASSUME UNCHANGED vars PROVE Sound
    BY <1>1, <1>8 DEF vars, rows
<1>9. Sound
    BY <1>1, <1>2, <1>5, <1>6, <1>7, <1>8 DEF Next
<1>. QED
    BY <1>9 DEF Sound

(* An operation touches the measurements it is about and no others.           *)
KeepsOther(j) ==
    /\ reading'[j] = reading[j]
    /\ initial_status'[j] = initial_status[j]
    /\ exception'[j] = exception[j]
    /\ final'[j] = final[j]

LEMMA CommitsTouchTheirOwn ==
    ASSUME SerialInv, NEW o \in Operators, OperatorCommits(o) \/ RollBack(o)
    PROVE  \A j \in Initials : j \notin operator[o].on => KeepsOther(j)
<1>. SUFFICES ASSUME NEW j \in Initials, j \notin operator[o].on PROVE KeepsOther(j)
    OBVIOUS
<1>1. /\ reading \in [Initials -> Readings \cup {None}]
      /\ initial_status \in [Initials -> InitialStatuses]
      /\ exception \in [Initials -> ExceptionTable]
      /\ final \in [Initials -> FinalTable]
    BY DEF SerialInv, IInv, TypeOK, RowsOK
<1>2. ASSUME NEW P, NEW v, NEW read, j \notin P, Promote(P, v, read)
      PROVE  final'[j] = final[j]
    BY <1>2 DEF Promote
<1>3. ASSUME NEW i \in Initials, NEW v, NEW around, Correct(o, i, v, around)
      PROVE  KeepsOther(j)
    <2>1. j # i
        BY <1>3 DEF Correct
    <2>2. reading'[j] = reading[j] /\ exception'[j] = exception[j]
          /\ initial_status'[j] = initial_status[j]
        BY <1>1, <1>3, <2>1 DEF Correct
    <2>3. \E P, w, read : j \notin P /\ Promote(P, w, read)
        BY <1>3, <2>1 DEF Correct
    <2>. QED
        BY <1>2, <2>2, <2>3 DEF KeepsOther
<1>4. ASSUME NEW i \in Initials, NEW around, Replay(o, i, around)
      PROVE  KeepsOther(j)
    <2>1. j # i
        BY <1>4 DEF Replay
    <2>2. reading'[j] = reading[j] /\ exception'[j] = exception[j]
          /\ initial_status'[j] = initial_status[j]
        BY <1>1, <1>4, <2>1 DEF Replay
    <2>3. \E P, w, read : j \notin P /\ Promote(P, w, read)
        BY <1>4, <2>1 DEF Replay
    <2>. QED
        BY <1>2, <2>2, <2>3 DEF KeepsOther
<1>5. ASSUME Finalize(o) PROVE KeepsOther(j)
    <2>1. \E P, w, read : j \notin P /\ Promote(P, w, read)
        BY <1>5 DEF Finalize
    <2>2. UNCHANGED <<reading, initial_status, exception>>
        BY <1>5 DEF Finalize
    <2>. QED
        BY <1>2, <2>1, <2>2 DEF KeepsOther
<1>6. ASSUME NEW i \in Initials, Acknowledge(o, i) \/ Resolve(o, i) PROVE KeepsOther(j)
    <2>1. j # i
        BY <1>6 DEF Acknowledge, Resolve
    <2>. QED
        BY <1>1, <1>6, <2>1 DEF Acknowledge, Resolve, KeepsOther
<1>7. ASSUME RollBack(o) PROVE KeepsOther(j)
    BY <1>7 DEF RollBack, rows, KeepsOther
<1>. QED
    BY <1>3, <1>4, <1>5, <1>6, <1>7 DEF OperatorCommits, Edit, Estimate

(* A transaction that has just loaded is up to date, one that has ended works *)
(* on nothing, and what others or receipts write is of other measurements.    *)
LEMMA StaysUpToDate ==
    ASSUME Apart, SerialInv, [Next]_vars
    PROVE  UpToDate'
<1>0. ASSUME NEW o \in Operators, NEW j \in operator[o].on, KeepsOther(j)
      PROVE  /\ operator[o].read[j] = Loaded(j)'
             /\ operator[o].pc = "acknowledge"
                   => exception'[j][operator[o].code][operator[o].row].status = "open"
    BY <1>0 DEF KeepsOther, Loaded, CurrentOf, SerialInv, UpToDate
<1>1. DOMAIN operator = Operators
    BY DEF SerialInv, IInv, TypeOK
<1>2. ASSUME NEW o \in Operators, Ends(o), OperatorCommits(o) \/ RollBack(o) PROVE UpToDate'
    <2>1. ASSUME NEW p \in Operators, NEW j \in operator'[p].on
          PROVE  operator'[p] = operator[p] /\ KeepsOther(j)
        <3>1. p # o /\ operator'[p] = operator[p]
            BY <1>1, <1>2, <2>1 DEF Ends, Idle
        <3>2. j \in Initials /\ j \notin operator[o].on
            BY <2>1, <3>1, LoadedNow DEF Apart
        <3>. QED
            BY <1>2, <3>1, <3>2, CommitsTouchTheirOwn
    <2>. QED
        BY <1>0, <2>1 DEF UpToDate
<1>3. ASSUME NEW o \in Operators, NEW pc, NEW S \in SUBSET Initials, NEW c, NEW k,
             Begins(o, pc, S, c, k),
             pc = "acknowledge" => \A i \in S : exception[i][c][k].status = "open"
      PROVE  UpToDate'
    <2>1. PICK t : /\ t = [pc |-> pc, on |-> S, code |-> c, row |-> k,
                           read |-> [i \in Initials |-> IF i \in S THEN Loaded(i) ELSE None]]
                   /\ operator' = [operator EXCEPT ![o] = t]
        BY <1>3 DEF Begins
    <2>2. \A p \in Operators : operator'[p] = IF p = o THEN t ELSE operator[p]
        BY <1>1, <2>1
    <2>3. ASSUME NEW i \in S PROVE t.read[i] = Loaded(i) /\ Loaded(i)' = Loaded(i)
        BY <1>3, <2>1, <2>3 DEF Begins, rows, Loaded, CurrentOf
    <2>4. exception' = exception
        BY <1>3 DEF Begins, rows
    <2>5. t.pc = pc /\ t.on = S /\ t.code = c /\ t.row = k
        BY <2>1
    <2>6. ASSUME NEW p \in Operators, NEW i \in operator'[p].on
          PROVE  /\ operator'[p].read[i] = Loaded(i)'
                 /\ operator'[p].pc = "acknowledge"
                       => exception'[i][operator'[p].code][operator'[p].row].status = "open"
        <3>1. CASE p = o
            BY <1>3, <2>2, <2>3, <2>4, <2>5, <2>6, <3>1
        <3>2. CASE p # o
            <4>1. operator'[p] = operator[p] /\ KeepsOther(i)
                BY <1>3, <2>2, <3>2 DEF Begins, rows, KeepsOther
            <4>. QED
                BY <1>0, <2>6, <4>1
        <3>. QED
            BY <3>1, <3>2
    <2>. QED
        BY <2>6 DEF UpToDate
<1>4. ASSUME NEW i \in Initials, NEW v \in Readings, NEW around \in SUBSET Surroundings,
             Receive(i, v, around)
      PROVE  UpToDate'
    <2>1. operator' = operator /\ final' = final /\ initial_status[i] = "absent"
        BY <1>4 DEF Receive
    <2>2. ASSUME NEW o \in Operators, NEW j \in operator[o].on
          PROVE  KeepsOther(j)
        <3>1. j # i /\ j \in Initials
            BY <2>1, LoadedNow
        <3>. QED
            BY <1>4, <3>1 DEF Receive, SerialInv, IInv, TypeOK, RowsOK, KeepsOther
    <2>. QED
        BY <1>0, <2>1, <2>2 DEF UpToDate
<1>5. ASSUME NEW o \in Operators, OperatorBegins(o) PROVE UpToDate'
    <2>1. ASSUME NEW i \in Initials, BeginReplay(o, i) PROVE UpToDate'
        BY <1>3, <2>1 DEF BeginReplay
    <2>2. ASSUME NEW i \in Initials, NEW c \in Codes, NEW k \in Generations,
                 BeginAcknowledge(o, i, c, k)
          PROVE  UpToDate'
        BY <1>3, <2>2 DEF BeginAcknowledge
    <2>3. ASSUME NEW i \in Initials, NEW c \in Codes, NEW k \in Generations,
                 BeginResolve(o, i, c, k)
          PROVE  UpToDate'
        BY <1>3, <2>3 DEF BeginResolve
    <2>4. ASSUME NEW i \in Initials, NEW c \in Codes, NEW k \in Generations,
                 NEW how \in Corrections, BeginCorrect(o, i, c, k, how)
          PROVE  UpToDate'
        BY <1>3, <2>4 DEF BeginCorrect, Corrections
    <2>5. ASSUME NEW S \in SUBSET Initials, BeginFinalize(o, S) PROVE UpToDate'
        BY <1>3, <2>5 DEF BeginFinalize
    <2>. QED
        BY <1>5, <2>1, <2>2, <2>3, <2>4, <2>5 DEF OperatorBegins
<1>6. ASSUME NEW o \in Operators, OperatorCommits(o) PROVE UpToDate'
    BY <1>2, <1>6, OperatorCommitsStep DEF SerialInv
<1>7. ASSUME NEW o \in Operators, RollBack(o) PROVE UpToDate'
    BY <1>2, <1>7 DEF RollBack
<1>8. CASE UNCHANGED vars
    BY <1>8 DEF vars, SerialInv, UpToDate, Loaded, CurrentOf
<1>. QED
    BY <1>4, <1>5, <1>6, <1>7, <1>8 DEF Next

LEMMA SerialInvariance ==
    Spec /\ []Apart => []SerialInv
<1>1. Init => SerialInv
    <2>1. Init => UpToDate
        BY DEF Init, UpToDate, Idle
    <2>2. Init => ExceptionMeansBlocked
        BY DEF Init, ExceptionMeansBlocked
    <2>. QED
        BY <2>1, <2>2, InitInv DEF SerialInv
<1>2. SerialInv /\ Apart /\ [Next]_vars => SerialInv'
    <2>1. ASSUME SerialInv, [Next]_vars PROVE IInv'
        BY <2>1, NextInv DEF SerialInv
    <2>2. ASSUME SerialInv, [Next]_vars PROVE ExceptionMeansBlocked'
        BY <2>2, SerialSound DEF SoundStep, ExceptionMeansBlocked
    <2>. QED
        BY <2>1, <2>2, StaysUpToDate DEF SerialInv
<1>. QED
    BY <1>1, <1>2, PTL DEF Spec

(* Where operators do not overlap, a measurement in exception always has an   *)
(* active exception that blocks it: there is something to resolve, and its    *)
(* resolution releases the measurement (refresh_initial_measurement_status).  *)
THEOREM ExceptionHasCause == Spec /\ []Apart => []ExceptionMeansBlocked
<1>1. SerialInv => ExceptionMeansBlocked
    BY DEF SerialInv
<1>. QED
    BY <1>1, SerialInvariance, PTL

(* Where operators do not overlap, nothing is published of a measurement that *)
(* something blocks, although an edit may have accepted it: what a promotion  *)
(* asks differs with the operation that leads to it.                          *)
THEOREM PublishedWhenClear == Spec /\ []Apart => FinalOnlyWhenClear
<1>1. SerialInv /\ [Next]_vars
        => [\A i \in Initials, k \in Revisions : Published(i, k) =>
              initial_status'[i] = "accepted" /\ NoneBlocking(exception'[i])]_vars
    BY SerialSound DEF SoundStep
<1>. QED
    BY <1>1, SerialInvariance, PTL DEF Spec, FinalOnlyWhenClear

(* Where operators do not overlap, what is published is the working copy as   *)
(* the publishing transaction leaves it.                                      *)
THEOREM PublishedIsWorkingCopy == Spec /\ []Apart => FinalTakesWorkingCopy
<1>1. SerialInv /\ [Next]_vars
        => [\A i \in Initials, k \in Revisions :
              Published(i, k) => final'[i][k].reading = reading'[i]]_vars
    BY SerialSound DEF SoundStep
<1>. QED
    BY <1>1, SerialInvariance, PTL DEF Spec, FinalTakesWorkingCopy

-------------------------------------------------------------------------------
(* Exceptions with acknowledgements, of operators that do not overlap.        *)

LEMMA AcknowledgeKeeps ==
    ASSUME SerialInv, NEW o \in Operators, NEW i \in Initials, Acknowledge(o, i)
    PROVE  KeepsExceptionsSafe
<1>1. operator[o].pc = "acknowledge" /\ i \in operator[o].on
    BY DEF Acknowledge
<1>2. PICK c \in Codes, k \in Generations : c = operator[o].code /\ k = operator[o].row
    BY <1>1, Working DEF SerialInv, TransactionOK
<1>3. exception[i][c][k].status = "open" /\ exception[i] \in ExceptionTable
    BY <1>1, <1>2, LoadedNow DEF SerialInv, UpToDate
<1>4. PICK new : new = WithStatus(exception[i], c, k, "acknowledged")
    OBVIOUS
<1>5. exception' = [exception EXCEPT ![i] = new]
    BY <1>2, <1>4 DEF Acknowledge
<1>6. ASSUME NEW d \in Codes, NEW m \in Generations
      PROVE  /\ IsActive(new[d][m]) <=> IsActive(exception[i][d][m])
             /\ exception[i][d][m].status = "resolved" => new[d][m].status = "resolved"
    <2>1. CASE d = c /\ m = k
        <3>1. new[d][m] = [status |-> "acknowledged", blocking |-> exception[i][c][k].blocking]
            BY <1>3, <1>4, <2>1 DEF WithStatus, ExceptionTable
        <3>. QED
            BY <1>3, <2>1, <3>1 DEF IsActive
    <2>2. CASE ~(d = c /\ m = k)
        <3>1. new[d][m] = exception[i][d][m]
            BY <1>3, <1>4, <2>2 DEF WithStatus, ExceptionTable
        <3>. QED
            BY <3>1
    <2>. QED
        BY <2>1, <2>2
<1>7. /\ KeepsResolved(exception[i], new)
      /\ AtMostOneActive(exception[i]) => AtMostOneActive(new)
    BY <1>6 DEF KeepsResolved, AtMostOneActive
<1>. QED
    BY <1>5, <1>7, OneTableStep DEF SerialInv, IInv

LEMMA SerialKeepsExceptionsSafe ==
    ASSUME SerialInv, [Next]_vars
    PROVE  KeepsExceptionsSafe
BY AcknowledgeKeeps, StepKeepsExceptionsSafe DEF SerialInv

(* Resolving is final. *)
ResolvedIsFinal ==
    [][\A i \in Initials, c \in Codes, k \in Generations :
          exception[i][c][k].status = "resolved"
              => exception'[i][c][k].status = "resolved"]_vars

(* Where operators do not overlap a resolved exception stays resolved, with   *)
(* acknowledgements too: each is of an exception that is still open.          *)
THEOREM ResolutionsStandSerially == Spec /\ []Apart => ResolvedIsFinal
<1>1. SerialInv /\ [Next]_vars
        => [\A i \in Initials, c \in Codes, k \in Generations :
              exception[i][c][k].status = "resolved"
                  => exception'[i][c][k].status = "resolved"]_vars
    BY SerialKeepsExceptionsSafe DEF KeepsExceptionsSafe, KeepsResolved
<1>. QED
    BY <1>1, SerialInvariance, PTL DEF Spec, ResolvedIsFinal

(* No code of a measurement has two active exceptions. *)
SingleActive == \A i \in Initials : AtMostOneActive(exception[i])

(* Where operators do not overlap no code of a measurement has two active     *)
(* exceptions, with acknowledgements too.                                     *)
THEOREM ExceptionsSingleSerially == Spec /\ []Apart => []SingleActive
<1>1. Init => SingleActive
    BY DEF Init, SingleActive, AtMostOneActive, NoExceptions, IsActive
<1>2. SerialInv /\ SingleActive /\ [Next]_vars => SingleActive'
    BY SerialKeepsExceptionsSafe DEF KeepsExceptionsSafe, AtMostOneActive, SingleActive
<1>. QED
    BY <1>1, <1>2, SerialInvariance, PTL DEF Spec

===============================================================================
