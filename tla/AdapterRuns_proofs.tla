--------------------------- MODULE AdapterRuns_proofs ---------------------------
EXTENDS AdapterRuns, FiniteSetTheorems, WellFoundedInduction, TLAPS

(* The order of numbers as a relation. *)
Less == {p \in Nat \X Nat : p[1] < p[2]}

LEMMA LessWellFounded == IsWellFoundedOn(Less, Nat)
BY NatLessThanWellFounded DEF OpToRel, Less

(* A set of numbers that has a bound and an element has a largest element. *)
LEMMA LargestExists ==
    ASSUME NEW S \in SUBSET Nat, S # {}, NEW n \in Nat, \A x \in S : x <= n
    PROVE  /\ Max(S) \in S
           /\ \A y \in S : y <= Max(S)
<1> DEFINE T == {n - x : x \in S}
<1>0. \A x \in S : x \in Nat /\ n - x \in Nat
  OBVIOUS
<1>1. T \in SUBSET Nat /\ T # {}
  BY <1>0
<1>2. PICK t \in T : \A u \in T : ~(<<u, t>> \in Less)
  <2> HIDE DEF T
  <2> QED  BY <1>1, LessWellFounded, WFMin
<1>3. \A u \in T : t <= u
  <2> HIDE DEF T
  <2> TAKE u \in T
  <2>1. u \in Nat /\ t \in Nat
    BY <1>1
  <2>2. ~(u < t)
    BY <2>1, <1>2 DEF Less
  <2> QED  BY <2>1, <2>2
<1>4. PICK x \in S : t = n - x
  OBVIOUS
<1>5. \A y \in S : x >= y
  <2> TAKE y \in S
  <2>1. n - y \in T
    OBVIOUS
  <2>2. n - x <= n - y
    BY <2>1, <1>3, <1>4
  <2> QED  BY <2>2
<1>6. Max(S) \in S /\ \A y \in S : Max(S) >= y
  BY <1>5, Zenon DEF Max
<1> QED  BY <1>6

--------------------------------------------------------------------------------
(* What the transaction of a processor knows after each of its steps. *)

LEMMA NoneIsNoValue ==
    /\ None \notin Nat /\ None \notin Runs /\ None \notin Instances
    /\ None \notin AdminStates /\ None \notin RunRow /\ None \notin InstanceRow
    /\ \A r \in RunRow, a \in InstanceRow : r # None /\ a # None
BY AdapterAssumption DEF Runs

LEMMA ClaimEffect ==
    ASSUME TypeOK, NEW p \in Processors, Claim(p)
    PROVE  \E r \in Claimable(p) :
              /\ run[r].on \in Instances
              /\ processor'[p].pc = "claimed"
              /\ processor'[p].run = r
              /\ processor'[p].ended = processor[p].ended
              /\ processor'[p].mark = processor[p].mark
              /\ processor'[p].seen[run[r].on] \in InstanceRow
              /\ \A a \in Instances : processor[p].seen[a] # None =>
                    processor'[p].seen[a] = processor[p].seen[a]
              /\ processor'[p] \in Transaction
              /\ \A q \in Processors \ {p} : processor'[q] = processor[q]
              /\ processor' \in [Processors -> Transaction]
<1>1. PICK r \in Claimable(p) :
          processor' = [processor EXCEPT ![p].pc = "claimed", ![p].run = r,
                            ![p].seen[run[r].on] = Once(processor[p].seen[run[r].on],
                                                        Loaded(run[r].on))]
  BY DEF Claim
<1>2. r \in Runs /\ run[r].on \in Instances
  BY NoneIsNoValue DEF Claimable, TypeOK, RowsOK, RunRow
<1>3. processor[p] \in Transaction /\ processor \in [Processors -> Transaction]
  BY DEF TypeOK
<1> DEFINE a == run[r].on
           row == Once(processor[p].seen[a], Loaded(a))
<1>4. row \in InstanceRow /\ (processor[p].seen[a] # None => row = processor[p].seen[a])
  <2>1. processor[p].seen[a] \in InstanceRow \cup {None}
    BY <1>2, <1>3 DEF Transaction
  <2>2. Loaded(a) \in InstanceRow
    BY <1>2 DEF TypeOK, RowsOK, Loaded, InstanceRow
  <2> QED  BY <2>1, <2>2, NoneIsNoValue DEF Once
<1>5. processor'[p] = [processor[p] EXCEPT !.pc = "claimed", !.run = r, !.seen[a] = row]
  BY <1>1, <1>3
<1>6. \A q \in Processors \ {p} : processor'[q] = processor[q]
  BY <1>1, <1>3
<1>7. processor'[p] \in Transaction
  <2> DEFINE seen == [processor[p].seen EXCEPT ![a] = row]
  <2>1. seen \in [Instances -> InstanceRow \cup {None}]
    BY <1>3, <1>4 DEF Transaction
  <2>2. processor'[p] = [processor[p] EXCEPT !.pc = "claimed", !.run = r, !.seen = seen]
    BY <1>5
  <2> HIDE DEF seen
  <2> QED  BY <1>2, <1>3, <2>1, <2>2 DEF Transaction
<1>8. processor'[p].seen[a] = row /\ \A b \in Instances \ {a} : processor'[p].seen[b] = processor[p].seen[b]
  <2> HIDE DEF row
  <2> QED  BY <1>2, <1>3, <1>5 DEF Transaction
<1>9. processor' \in [Processors -> Transaction]
  BY <1>1, <1>3, <1>6, <1>7
<1>10. /\ processor'[p].pc = "claimed" /\ processor'[p].run = r
       /\ processor'[p].ended = processor[p].ended /\ processor'[p].mark = processor[p].mark
  BY <1>3, <1>5 DEF Transaction
<1> HIDE DEF row
<1> QED  BY <1>2, <1>4, <1>6, <1>7, <1>8, <1>9, <1>10

LEMMA LockEffect ==
    ASSUME TypeOK, NEW p \in Processors, Lock(p)
    PROVE  /\ processor[p].pc = "claimed" /\ processor[p].run \in Runs
           /\ processor'[p].pc = "running"
           /\ processor'[p].run = processor[p].run
           /\ processor'[p].ended = processor[p].ended
           /\ processor'[p].seen = processor[p].seen
           /\ \A a \in Instances :
                 processor'[p].mark[a] = IF a = run[processor[p].run].on
                                         THEN Once(processor[p].mark[a], watermark[a])
                                         ELSE processor[p].mark[a]
           /\ processor'[p] \in Transaction
           /\ \A q \in Processors \ {p} : processor'[q] = processor[q]
           /\ processor' \in [Processors -> Transaction]
<1> DEFINE a == run[processor[p].run].on
           mark == Once(processor[p].mark[a], watermark[a])
<1>1. processor[p] \in Transaction /\ processor \in [Processors -> Transaction]
  BY DEF TypeOK
<1>2. processor[p].pc = "claimed" /\ processor[p].run \in Runs
  BY <1>1, NoneIsNoValue DEF Lock, TypeOK, Transaction
<1>3. processor' = [processor EXCEPT ![p].pc = "running", ![p].mark[a] = mark]
  BY DEF Lock
<1>4. a \in Instances => mark \in Nat \cup {None}
  BY <1>1 DEF TypeOK, RowsOK, Transaction, Once
<1>5. processor'[p] = [processor[p] EXCEPT !.pc = "running", !.mark[a] = mark]
  BY <1>1, <1>3
<1>6. \A q \in Processors \ {p} : processor'[q] = processor[q]
  BY <1>1, <1>3
<1>7. \A b \in Instances : processor'[p].mark[b] = IF b = a THEN mark ELSE processor[p].mark[b]
  <2> HIDE DEF mark, a
  <2> QED  BY <1>1, <1>5 DEF Transaction
<1>8. processor'[p] \in Transaction
  <2> DEFINE marks == [processor[p].mark EXCEPT ![a] = mark]
  <2>1. marks \in [Instances -> Nat \cup {None}]
    <3> HIDE DEF mark, a
    <3> QED  BY <1>1, <1>4 DEF Transaction
  <2>2. processor'[p] = [processor[p] EXCEPT !.pc = "running", !.mark = marks]
    BY <1>5
  <2> HIDE DEF marks
  <2> QED  BY <1>1, <2>1, <2>2 DEF Transaction
<1>9. processor' \in [Processors -> Transaction]
  BY <1>1, <1>3, <1>6, <1>8
<1>10. /\ processor'[p].pc = "running" /\ processor'[p].run = processor[p].run
       /\ processor'[p].ended = processor[p].ended /\ processor'[p].seen = processor[p].seen
  <2> HIDE DEF mark, a
  <2> QED  BY <1>1, <1>5 DEF Transaction
<1> QED  BY <1>2, <1>6, <1>7, <1>8, <1>9, <1>10

LEMMA ClosesEffect ==
    ASSUME TypeOK, NEW p \in Processors, processor[p].run \in Runs,
           run[processor[p].run].on \in Instances,
           NEW row \in RunRow, NEW mark \in Nat, Closes(p, row, mark)
    PROVE  /\ processor'[p].pc = "open"
           /\ processor'[p].run = None
           /\ processor'[p].seen = processor[p].seen
           /\ \A r \in Runs : processor'[p].ended[r] =
                 IF r = processor[p].run THEN row ELSE processor[p].ended[r]
           /\ \A a \in Instances : processor'[p].mark[a] =
                 IF a = run[processor[p].run].on THEN mark ELSE processor[p].mark[a]
           /\ processor'[p] \in Transaction
           /\ \A q \in Processors \ {p} : processor'[q] = processor[q]
           /\ processor' \in [Processors -> Transaction]
<1> DEFINE s == processor[p].run
           a == run[processor[p].run].on
<1>1. processor[p] \in Transaction /\ processor \in [Processors -> Transaction]
  BY DEF TypeOK
<1>2. processor' = [processor EXCEPT ![p].pc = "open", ![p].run = None,
                                     ![p].ended[s] = row, ![p].mark[a] = mark]
  BY DEF Closes
<1>3. processor'[p] = [processor[p] EXCEPT !.pc = "open", !.run = None,
                                           !.ended[s] = row, !.mark[a] = mark]
  BY <1>1, <1>2
<1>4. \A q \in Processors \ {p} : processor'[q] = processor[q]
  BY <1>1, <1>2
<1>5. /\ processor'[p].pc = "open" /\ processor'[p].run = None
      /\ processor'[p].seen = processor[p].seen
      /\ \A r \in Runs : processor'[p].ended[r] = IF r = s THEN row ELSE processor[p].ended[r]
      /\ \A b \in Instances : processor'[p].mark[b] = IF b = a THEN mark ELSE processor[p].mark[b]
  <2> HIDE DEF a, s
  <2> QED  BY <1>1, <1>3 DEF Transaction
<1>6. processor'[p] \in Transaction
  <2> DEFINE ended == [processor[p].ended EXCEPT ![s] = row]
             marks == [processor[p].mark EXCEPT ![a] = mark]
  <2>1. /\ ended \in [Runs -> RunRow \cup {None}]
        /\ marks \in [Instances -> Nat \cup {None}]
    BY <1>1 DEF Transaction
  <2>2. processor'[p] = [processor[p] EXCEPT !.pc = "open", !.run = None,
                                             !.ended = ended, !.mark = marks]
    BY <1>3
  <2> HIDE DEF ended, marks
  <2> QED  BY <1>1, <2>1, <2>2 DEF Transaction
<1>7. processor' \in [Processors -> Transaction]
  BY <1>1, <1>2, <1>4, <1>6
<1> QED  BY <1>4, <1>5, <1>6, <1>7

LEMMA IdleEffect ==
    ASSUME TypeOK, NEW p \in Processors, processor' = [processor EXCEPT ![p] = Idle]
    PROVE  /\ processor'[p] = Idle
           /\ Idle \in Transaction
           /\ \A q \in Processors \ {p} : processor'[q] = processor[q]
           /\ processor' \in [Processors -> Transaction]
<1>1. processor \in [Processors -> Transaction]
  BY DEF TypeOK
<1>2. Idle \in Transaction
  BY DEF Idle, Transaction
<1> QED  BY <1>1, <1>2

--------------------------------------------------------------------------------
(* Types and exclusion, action by action. *)

LEMMA InitExclusive == Init => TypeOK /\ Exclusive
<1> SUFFICES ASSUME Init PROVE TypeOK /\ Exclusive
  OBVIOUS
<1>1. Idle \in Transaction /\ NoRun \in RunRow
  BY DEF Idle, Transaction, NoRun, RunRow
<1>2. RowsOK
  BY <1>1 DEF RowsOK, Init, AdminStates
<1>3. \A p \in Processors : /\ processor[p].pc = "idle" /\ processor[p].run = None
                            /\ \A r \in Runs : processor[p].ended[r] = None
                            /\ \A a \in Instances : processor[p].mark[a] = None
  BY DEF Init, Idle
<1>4. \A r \in Runs : run[r].status = "absent" /\ run[r].on = None
  BY DEF Init, NoRun
<1>5. operator \in [Operators -> [pc : {"idle"} \cup Actions, on : SUBSET Instances,
                                   target : AdminStates \cup {None}]]
      /\ \A o \in Operators : operator[o].pc = "idle" /\ operator[o].target = None
  BY DEF Init, IdleOperator
<1>6. source \in [Instances -> 0..MaxRows] /\ processor \in [Processors -> Transaction]
  BY <1>1, AdapterAssumption DEF Init
<1>7. TypeOK
  BY <1>2, <1>3, <1>4, <1>5, <1>6 DEF TypeOK
<1>8. \A p \in Processors, r \in Runs : ~InHand(p, r)
  BY <1>3, NoneIsNoValue DEF InHand
<1>9. Exclusive
  BY <1>3, <1>8 DEF Exclusive, Holds
<1> QED  BY <1>7, <1>9

(* A step that leaves runs and processors alone leaves Exclusive alone. *)
LEMMA ExclusiveKept == Exclusive /\ UNCHANGED <<run, processor>> => Exclusive'
BY DEF Exclusive, Holds, InHand

LEMMA BeginsExclusive ==
    ASSUME TypeOK, Exclusive, NEW o \in Operators, NEW pc \in Actions,
           NEW on \in SUBSET Instances, NEW target \in AdminStates \cup {None},
           pc = "set" <=> target # None, Begins(o, pc, on, target)
    PROVE  TypeOK' /\ Exclusive'
<1>1. UNCHANGED <<rows, source, processor>>
      /\ operator' = [operator EXCEPT ![o] = [pc |-> pc, on |-> on, target |-> target]]
  BY DEF Begins
<1>2. TypeOK'
  BY <1>1 DEF TypeOK, RowsOK, rows
<1> QED  BY <1>1, <1>2, ExclusiveKept DEF rows

LEMMA OperatorIdles ==
    ASSUME TypeOK, NEW o \in Operators, Ends(o)
    PROVE  /\ operator' \in [Operators -> [pc : {"idle"} \cup Actions, on : SUBSET Instances,
                                          target : AdminStates \cup {None}]]
           /\ \A q \in Operators : operator'[q].pc = "set" <=> operator'[q].target # None
BY DEF TypeOK, Ends, IdleOperator

LEMMA QueueExclusive ==
    ASSUME TypeOK, Exclusive, NEW o \in Operators, Queue(o)
    PROVE  TypeOK' /\ Exclusive'
<1>1. PICK new \in SUBSET Unused : \E a \in [new -> Instances] :
          run' = [r \in Runs |-> IF r \in new
                                 THEN [NoRun EXCEPT !.on = a[r], !.status = "waiting"]
                                 ELSE run[r]]
  <2> DEFINE new == NextIds(Cardinality(operator[o].on))
  <2>1. PICK a \in [new -> operator[o].on] :
            run' = [r \in Runs |-> IF r \in new
                                   THEN [NoRun EXCEPT !.on = a[r], !.status = "waiting"]
                                   ELSE run[r]]
    BY DEF Queue
  <2>2. new \in SUBSET Unused
    BY DEF NextIds
  <2>3. operator[o].on \in SUBSET Instances
    BY DEF TypeOK
  <2>4. a \in [new -> Instances]
    <3> HIDE DEF new
    <3> QED  BY <2>1, <2>3
  <2> HIDE DEF new
  <2> QED  BY <2>1, <2>2, <2>4
<1>2. PICK a \in [new -> Instances] :
          run' = [r \in Runs |-> IF r \in new
                                 THEN [NoRun EXCEPT !.on = a[r], !.status = "waiting"]
                                 ELSE run[r]]
  BY <1>1
<1>3. \A r \in new : run[r].status = "absent" /\ r \in Runs
  BY DEF Unused
<1>4. \A r \in Runs : IF r \in new
                      THEN /\ run'[r].on = a[r] /\ run'[r].on \in Instances
                           /\ run'[r].status = "waiting"
                           /\ run'[r] \in RunRow
                      ELSE run'[r] = run[r]
  BY <1>2 DEF NoRun, RunRow
<1>5. run' \in [Runs -> RunRow] /\ \A r \in Runs : run'[r].status # "absent" <=> run'[r].on # None
  BY <1>2, <1>4, NoneIsNoValue DEF TypeOK, RowsOK
<1>6. UNCHANGED <<admin_state, next_run_at, watermark, source, processor>>
  BY DEF Queue
<1>7. TypeOK'
  BY <1>5, <1>6, OperatorIdles DEF TypeOK, RowsOK, Queue
<1>8. \A p \in Processors, r \in Runs : InHand(p, r) => run'[r] = run[r]
  BY <1>3, <1>4 DEF Exclusive
<1>9. \A p \in Processors : processor[p].pc = "running" =>
          processor[p].run \in Runs /\ InHand(p, processor[p].run)
  BY NoneIsNoValue DEF TypeOK, Transaction, InHand
<1>10. \A p \in Processors, r \in Runs : InHand(p, r)' <=> InHand(p, r)
  BY <1>6 DEF InHand
<1>11. Exclusive'
  <2>1. \A p, q \in Processors, a1 \in Instances : Holds(p, a1)' /\ Holds(q, a1)' => p = q
    BY <1>6 DEF Exclusive, Holds
  <2>2. \A p, q \in Processors, r \in Runs : InHand(p, r)' /\ InHand(q, r)' => p = q
    BY <1>10 DEF Exclusive
  <2>3. \A p \in Processors, r \in Runs : InHand(p, r)' =>
            run'[r].status = "waiting" /\ processor'[p].seen[run'[r].on] # None
    BY <1>6, <1>8, <1>10 DEF Exclusive
  <2>4. \A p \in Processors, r \in Runs : processor[p].ended[r] # None => run'[r] = run[r]
    BY <1>8 DEF InHand
  <2>5. \A p \in Processors : processor[p].pc = "running" => Holds(p, run[processor[p].run].on)'
    BY <1>6, <1>8, <1>9 DEF Exclusive, Holds
  <2> QED  BY <1>6, <2>1, <2>2, <2>3, <2>4, <2>5 DEF Exclusive, Holds
<1> QED  BY <1>7, <1>11

LEMMA OperatorExclusive ==
    ASSUME TypeOK, Exclusive, NEW o \in Operators, OperatorNext(o)
    PROVE  TypeOK' /\ Exclusive'
<1>1. ASSUME NEW a \in Instances, BeginRunOnce(o, a) PROVE TypeOK' /\ Exclusive'
  BY <1>1, BeginsExclusive DEF BeginRunOnce, Actions
<1>2. CASE BeginSchedule(o)
  <2>1. Eligible \in SUBSET Instances
    BY DEF Eligible
  <2> QED  BY <1>2, <2>1, BeginsExclusive DEF BeginSchedule, Actions
<1>3. ASSUME NEW a \in Instances, NEW target \in AdminStates, BeginSet(o, a, target)
      PROVE  TypeOK' /\ Exclusive'
  BY <1>3, BeginsExclusive, NoneIsNoValue DEF BeginSet, Actions
<1>4. CASE Queue(o)
  BY <1>4, QueueExclusive
<1>5. CASE Set(o)
  <2>1. operator[o].target \in AdminStates
    BY <1>5 DEF Set, TypeOK
  <2>2. admin_state' \in [Instances -> AdminStates]
    BY <1>5, <2>1 DEF Set, TypeOK, RowsOK
  <2>3. UNCHANGED <<next_run_at, run, watermark, source, processor>>
    BY <1>5 DEF Set
  <2>4. TypeOK'
    BY <1>5, <2>2, <2>3, OperatorIdles DEF TypeOK, RowsOK, Set
  <2> QED  BY <2>3, <2>4, ExclusiveKept
<1>6. CASE RollBack(o)
  <2>1. UNCHANGED <<rows, source, processor>> /\ Ends(o)
    BY <1>6 DEF RollBack
  <2>2. TypeOK'
    BY <2>1, OperatorIdles DEF TypeOK, RowsOK, rows
  <2> QED  BY <2>1, <2>2, ExclusiveKept DEF rows
<1> QED  BY <1>1, <1>2, <1>3, <1>4, <1>5, <1>6 DEF OperatorNext

LEMMA WorldExclusive ==
    ASSUME TypeOK, Exclusive, NEW a \in Instances, Tick(a) \/ Arrive(a)
    PROVE  TypeOK' /\ Exclusive'
<1>1. UNCHANGED <<run, processor>>
  BY DEF Tick, Arrive, rows
<1>2. CASE Tick(a)
  <2>1. next_run_at' \in [Instances -> {None, "later", "due"}]
    BY <1>2 DEF Tick, TypeOK, RowsOK
  <2>2. UNCHANGED <<admin_state, run, watermark, source, processor, operator>>
    BY <1>2 DEF Tick
  <2> QED  BY <2>1, <2>2, <1>1, ExclusiveKept DEF TypeOK, RowsOK
<1>3. CASE Arrive(a)
  <2>1. source' \in [Instances -> 0..MaxRows]
    BY <1>3, AdapterAssumption DEF Arrive, TypeOK
  <2>2. UNCHANGED <<admin_state, next_run_at, run, watermark, processor, operator>>
    BY <1>3 DEF Arrive, rows
  <2> QED  BY <2>1, <2>2, <1>1, ExclusiveKept DEF TypeOK, RowsOK
<1> QED  BY <1>2, <1>3

LEMMA ClaimExclusive ==
    ASSUME TypeOK, Exclusive, NEW p \in Processors, Claim(p)
    PROVE  TypeOK' /\ Exclusive'
<1>1. PICK r \in Claimable(p) :
          /\ run[r].on \in Instances
          /\ processor'[p].pc = "claimed"
          /\ processor'[p].run = r
          /\ processor'[p].ended = processor[p].ended
          /\ processor'[p].mark = processor[p].mark
          /\ processor'[p].seen[run[r].on] \in InstanceRow
          /\ \A a \in Instances : processor[p].seen[a] # None =>
                processor'[p].seen[a] = processor[p].seen[a]
          /\ processor'[p] \in Transaction
          /\ \A q \in Processors \ {p} : processor'[q] = processor[q]
          /\ processor' \in [Processors -> Transaction]
  BY ClaimEffect
<1>2. UNCHANGED <<rows, source, operator>> /\ processor[p].pc \in {"idle", "open"}
  BY DEF Claim
<1>3. r \in Runs /\ run[r].status = "waiting" /\ \A q \in Processors : ~InHand(q, r)
  BY DEF Claimable
<1>4. processor[p].run = None
  BY <1>2 DEF TypeOK
<1>5. TypeOK'
  <2>1. \A q \in Processors : processor'[q].pc \in {"claimed", "running"} <=> processor'[q].run # None
    BY <1>1, <1>3, NoneIsNoValue DEF TypeOK
  <2> QED  BY <1>1, <1>2, <2>1 DEF TypeOK, RowsOK, rows
<1>6. \A q \in Processors, t \in Runs : InHand(q, t)' <=> InHand(q, t) \/ (q = p /\ t = r)
  BY <1>1, <1>4, NoneIsNoValue DEF InHand
<1>7. \A q \in Processors, a \in Instances : Holds(q, a)' <=> Holds(q, a)
  BY <1>1 DEF Holds
<1>8. run' = run
  BY <1>2 DEF rows
<1>9. \A t \in Runs : run[t].status = "waiting" => run[t].on \in Instances
  BY NoneIsNoValue DEF TypeOK, RowsOK, RunRow
<1>10. \A q \in Processors, t \in Runs : InHand(q, t)' =>
          run[t].status = "waiting" /\ processor'[q].seen[run[t].on] # None
  <2> TAKE q \in Processors, t \in Runs
  <2>1. CASE q = p /\ t = r
    BY <1>1, <1>3, <2>1, NoneIsNoValue
  <2>2. CASE InHand(q, t)
    <3>1. run[t].status = "waiting" /\ processor[q].seen[run[t].on] # None
      BY <2>2 DEF Exclusive
    <3> QED  BY <1>1, <1>9, <3>1
  <2> QED  BY <1>6, <2>1, <2>2
<1>11. \A q \in Processors, t \in Runs : processor'[q].ended[t] # None =>
          processor[q].ended[t] = processor'[q].ended[t] /\ processor'[q].run # t
  <2> TAKE q \in Processors, t \in Runs
  <2>1. processor'[q].ended[t] = processor[q].ended[t]
    BY <1>1
  <2>2. processor'[q].ended[t] # None => InHand(q, t)
    BY <2>1 DEF InHand
  <2> QED  BY <1>1, <1>3, <2>1, <2>2 DEF Exclusive
<1>12. Exclusive'
  <2>1. \A q \in Processors : processor'[q].pc = "running" =>
            q # p /\ processor[q].pc = "running" /\ processor[q].run \in Runs
            /\ run[processor[q].run].on \in Instances
    BY <1>1, <1>9, NoneIsNoValue DEF TypeOK, Transaction, Exclusive, InHand
  <2>2. \A q \in Processors : processor'[q].pc = "running" => Holds(q, run[processor[q].run].on)'
    BY <1>1, <1>7, <1>8, <2>1 DEF Exclusive, Holds
  <2>3. \A q1, q2 \in Processors, t \in Runs : InHand(q1, t)' /\ InHand(q2, t)' => q1 = q2
    BY <1>3, <1>6 DEF Exclusive
  <2>4. \A q \in Processors, t \in Runs : processor'[q].ended[t] # None =>
            /\ processor'[q].ended[t].on = run[t].on
            /\ processor'[q].ended[t].status \in {"completed", "failed"}
            /\ Holds(q, run[t].on)'
    BY <1>1, <1>8, <1>11 DEF Exclusive, Holds
  <2> QED  BY <1>1, <1>7, <1>8, <1>10, <1>11, <2>1, <2>2, <2>3, <2>4 DEF Exclusive, Holds
<1> QED  BY <1>5, <1>12

LEMMA LockExclusive ==
    ASSUME TypeOK, Exclusive, NEW p \in Processors, Lock(p)
    PROVE  TypeOK' /\ Exclusive'
<1> DEFINE a == run[processor[p].run].on
<1>1. /\ processor[p].pc = "claimed" /\ processor[p].run \in Runs
      /\ processor'[p].pc = "running"
      /\ processor'[p].run = processor[p].run
      /\ processor'[p].ended = processor[p].ended
      /\ processor'[p].seen = processor[p].seen
      /\ \A b \in Instances : processor'[p].mark[b] = IF b = a
                                                      THEN Once(processor[p].mark[b], watermark[b])
                                                      ELSE processor[p].mark[b]
      /\ processor'[p] \in Transaction
      /\ \A q \in Processors \ {p} : processor'[q] = processor[q]
      /\ processor' \in [Processors -> Transaction]
  BY LockEffect
<1>2. UNCHANGED <<rows, source, operator>> /\ Free(a, p)
  BY DEF Lock
<1>3. InHand(p, processor[p].run)
  BY DEF InHand
<1>4. a \in Instances
  BY <1>1, <1>3, NoneIsNoValue DEF TypeOK, RowsOK, RunRow, Exclusive
<1>5. TypeOK'
  <2>1. \A q \in Processors : processor'[q].pc \in {"claimed", "running"} <=> processor'[q].run # None
    BY <1>1, NoneIsNoValue DEF TypeOK
  <2> QED  BY <1>1, <1>2, <2>1 DEF TypeOK, RowsOK, rows
<1>6. \A q \in Processors, t \in Runs : InHand(q, t)' <=> InHand(q, t)
  BY <1>1 DEF InHand
<1>7. Once(processor[p].mark[a], watermark[a]) # None
  BY <1>4, NoneIsNoValue DEF Once, TypeOK, RowsOK
<1>8. \A q \in Processors, b \in Instances : Holds(q, b)' <=> Holds(q, b) \/ (q = p /\ b = a)
  <2> HIDE DEF a
  <2> QED  BY <1>1, <1>4, <1>7 DEF Holds
<1>9. \A q \in Processors : Holds(q, a) => q = p
  BY <1>2 DEF Holds, Free
<1>10. run' = run
  BY <1>2 DEF rows
<1>11. Exclusive'
  <2>1. \A q1, q2 \in Processors, b \in Instances : Holds(q1, b)' /\ Holds(q2, b)' => q1 = q2
    <3> HIDE DEF a
    <3> QED  BY <1>8, <1>9 DEF Exclusive
  <2>2. \A q1, q2 \in Processors, t \in Runs : InHand(q1, t)' /\ InHand(q2, t)' => q1 = q2
    BY <1>6 DEF Exclusive
  <2>3. \A q \in Processors, t \in Runs : InHand(q, t)' =>
            run[t].status = "waiting" /\ processor'[q].seen[run[t].on] # None
    BY <1>1, <1>6 DEF Exclusive
  <2>4. \A t \in Runs : run[t].status = "waiting" => run[t].on \in Instances
    BY NoneIsNoValue DEF TypeOK, RowsOK, RunRow
  <2>5. \A q \in Processors, t \in Runs : processor'[q].ended[t] # None =>
            /\ processor'[q].run # t
            /\ processor'[q].ended[t].on = run[t].on
            /\ processor'[q].ended[t].status \in {"completed", "failed"}
            /\ Holds(q, run[t].on)'
    <3> TAKE q \in Processors, t \in Runs
    <3>1. processor'[q].ended[t] = processor[q].ended[t] /\ processor'[q].run = processor[q].run
      BY <1>1
    <3>2. processor[q].ended[t] # None => InHand(q, t)
      BY DEF InHand
    <3>3. processor[q].ended[t] # None => Holds(q, run[t].on) /\ run[t].on \in Instances
      BY <2>4, <3>2 DEF Exclusive
    <3> QED  BY <1>8, <1>10, <3>1, <3>3 DEF Exclusive
  <2>6. \A q \in Processors : processor'[q].pc = "running" => Holds(q, run[processor[q].run].on)'
    <3> TAKE q \in Processors
    <3>1. CASE q = p
      <4>1. processor'[q].run = processor[p].run /\ processor'[q].mark[a] # None
        BY <1>1, <1>4, <1>7, <3>1
      <4> QED  BY <1>10, <4>1 DEF Holds
    <3>2. CASE q # p
      <4>1. processor'[q] = processor[q]
        BY <1>1, <3>2
      <4> QED  BY <1>10, <4>1 DEF Exclusive, Holds
    <3> QED  BY <3>1, <3>2
  <2> QED  BY <1>10, <2>1, <2>2, <2>3, <2>5, <2>6 DEF Exclusive
<1> QED  BY <1>5, <1>11

LEMMA ClosesExclusive ==
    ASSUME TypeOK, Exclusive, NEW p \in Processors, processor[p].pc = "running",
           NEW row \in RunRow, row.on = run[processor[p].run].on,
           row.status \in {"completed", "failed"},
           NEW mark \in Nat, Closes(p, row, mark)
    PROVE  TypeOK' /\ Exclusive'
<1> DEFINE s == processor[p].run
           a == run[processor[p].run].on
<1>1. s \in Runs /\ InHand(p, s)
  BY NoneIsNoValue DEF TypeOK, Transaction, InHand
<1>2. a \in Instances /\ Holds(p, a) /\ run[s].status = "waiting"
  BY <1>1, NoneIsNoValue DEF TypeOK, RowsOK, RunRow, Exclusive
<1>3. /\ processor'[p].pc = "open"
      /\ processor'[p].run = None
      /\ processor'[p].seen = processor[p].seen
      /\ \A r \in Runs : processor'[p].ended[r] = IF r = s THEN row ELSE processor[p].ended[r]
      /\ \A b \in Instances : processor'[p].mark[b] = IF b = a THEN mark ELSE processor[p].mark[b]
      /\ processor'[p] \in Transaction
      /\ \A q \in Processors \ {p} : processor'[q] = processor[q]
      /\ processor' \in [Processors -> Transaction]
  BY <1>1, <1>2, ClosesEffect
<1>4. UNCHANGED <<rows, source, operator>>
  BY DEF Closes
<1>5. TypeOK'
  <2>1. \A q \in Processors : processor'[q].pc \in {"claimed", "running"} <=> processor'[q].run # None
    BY <1>3 DEF TypeOK
  <2> QED  BY <1>3, <1>4, <2>1 DEF TypeOK, RowsOK, rows
<1> HIDE DEF a, s
<1>6. row # None /\ mark # None
  BY NoneIsNoValue
<1>7. \A q \in Processors, t \in Runs : InHand(q, t)' <=> InHand(q, t)
  <2> TAKE q \in Processors, t \in Runs
  <2>1. CASE q # p
    BY <1>3, <2>1 DEF InHand
  <2>2. CASE q = p /\ t = s
    BY <1>1, <1>3, <1>6, <2>2 DEF InHand
  <2>3. CASE q = p /\ t # s
    BY <1>3, <2>3, NoneIsNoValue DEF InHand, s
  <2> QED  BY <2>1, <2>2, <2>3
<1>8. \A q \in Processors, b \in Instances : Holds(q, b)' <=> Holds(q, b)
  BY <1>2, <1>3, <1>6 DEF Holds
<1>9. run' = run
  BY <1>4 DEF rows
<1>10. \A t \in Runs : run[t].status = "waiting" => run[t].on \in Instances
  BY NoneIsNoValue DEF TypeOK, RowsOK, RunRow
<1>11. \A q \in Processors, t \in Runs : processor'[q].ended[t] # None =>
          /\ processor'[q].run # t
          /\ processor'[q].ended[t].on = run[t].on
          /\ processor'[q].ended[t].status \in {"completed", "failed"}
          /\ Holds(q, run[t].on)
  <2> TAKE q \in Processors, t \in Runs
  <2>1. CASE q = p /\ t = s
    BY <1>2, <1>3, <2>1, NoneIsNoValue DEF s, a
  <2>2. CASE q # p \/ t # s
    BY <1>3, <2>2, NoneIsNoValue DEF Exclusive
  <2> QED  BY <2>1, <2>2
<1>12. \A q \in Processors : processor'[q].pc = "running" =>
          /\ q # p /\ processor'[q] = processor[q]
          /\ processor[q].run \in Runs /\ InHand(q, processor[q].run)
          /\ Holds(q, run[processor[q].run].on)
  BY <1>3, NoneIsNoValue DEF TypeOK, Transaction, InHand, Exclusive
<1>13. Exclusive'
  <2>1. \A q \in Processors, t \in Runs : InHand(q, t)' =>
            run[t].status = "waiting" /\ processor'[q].seen[run[t].on] # None
    BY <1>3, <1>7 DEF Exclusive
  <2>2. \A q \in Processors, t \in Runs : processor'[q].ended[t] # None => Holds(q, run[t].on)'
    <3> TAKE q \in Processors, t \in Runs
    <3>1. processor'[q].ended[t] # None => InHand(q, t)'
      BY DEF InHand
    <3> QED  BY <1>8, <1>9, <1>10, <1>11, <2>1, <3>1
  <2>3. \A q \in Processors : processor'[q].pc = "running" => Holds(q, run[processor[q].run].on)'
    <3> TAKE q \in Processors
    <3>1. processor'[q].pc = "running" => run[processor[q].run].on \in Instances
      BY <1>10, <1>12 DEF Exclusive
    <3> QED  BY <1>8, <1>9, <1>12, <3>1
  <2>4. \A q1, q2 \in Processors, b \in Instances : Holds(q1, b)' /\ Holds(q2, b)' => q1 = q2
    BY <1>8 DEF Exclusive
  <2>5. \A q1, q2 \in Processors, t \in Runs : InHand(q1, t)' /\ InHand(q2, t)' => q1 = q2
    BY <1>7 DEF Exclusive
  <2> QED  BY <1>9, <1>11, <2>1, <2>2, <2>3, <2>4, <2>5 DEF Exclusive
<1> QED  BY <1>5, <1>13

(* What a poll fetches is rows, and reaches a number. *)
LEMMA BatchIsRows ==
    ASSUME TypeOK, NEW a \in Instances, NEW mark \in Nat
    PROVE  /\ Batch(a, mark) \in SUBSET Rows
           /\ Batch(a, mark) # {} => Max(Batch(a, mark)) \in Batch(a, mark)
                                     /\ \A y \in Batch(a, mark) : y <= Max(Batch(a, mark))
           /\ Reached(mark, Batch(a, mark)) \in Nat
<1> DEFINE batch == Batch(a, mark)
<1>1. source[a] \in 0..MaxRows /\ MaxRows \in Nat
  BY AdapterAssumption DEF TypeOK
<1>2. batch \in SUBSET Rows
  BY <1>1 DEF Batch, Rows
<1> HIDE DEF batch
<1>3. batch \in SUBSET Nat /\ \A x \in batch : x <= MaxRows
  BY <1>1, <1>2 DEF Rows
<1>4. batch # {} => Max(batch) \in batch /\ \A y \in batch : y <= Max(batch)
  BY <1>1, <1>3, LargestExists
<1>5. Reached(mark, batch) \in Nat
  BY <1>2, <1>4, AdapterAssumption DEF Reached
<1> QED  BY <1>2, <1>4, <1>5 DEF batch

LEMMA RunningKnows ==
    ASSUME TypeOK, Exclusive, NEW p \in Processors, processor[p].pc = "running"
    PROVE  /\ processor[p].run \in Runs
           /\ InHand(p, processor[p].run)
           /\ run[processor[p].run] \in RunRow
           /\ run[processor[p].run].status = "waiting"
           /\ run[processor[p].run].on \in Instances
           /\ processor[p].ended[processor[p].run] = None
           /\ processor[p].mark[run[processor[p].run].on] \in Nat
<1> DEFINE s == processor[p].run
<1>1. s \in Runs /\ InHand(p, s) /\ processor[p] \in Transaction
  BY NoneIsNoValue DEF TypeOK, Transaction, InHand
<1>2. run[s] \in RunRow /\ run[s].status = "waiting" /\ run[s].on \in Instances
  BY <1>1, NoneIsNoValue DEF TypeOK, RowsOK, RunRow, Exclusive
<1>3. processor[p].mark[run[s].on] \in Nat
  BY <1>1, <1>2 DEF Exclusive, Holds, Transaction
<1>4. processor[p].ended[s] = None
  BY <1>1 DEF Exclusive
<1> QED  BY <1>1, <1>2, <1>3, <1>4

LEMMA CompleteExclusive ==
    ASSUME TypeOK, Exclusive, NEW p \in Processors, Complete(p)
    PROVE  TypeOK' /\ Exclusive'
<1> DEFINE r == processor[p].run
           a == run[r].on
           mark == processor[p].mark[a]
           batch == Batch(a, mark)
           row == [run[r] EXCEPT !.status = "completed", !.before = mark,
                                 !.after = Reached(mark, batch), !.reads = batch]
<1>1. processor[p].pc = "running" /\ Closes(p, row, Reached(mark, batch))
  BY DEF Complete
<1>2. run[r] \in RunRow /\ a \in Instances /\ mark \in Nat
  BY <1>1, RunningKnows
<1>3. batch \in SUBSET Rows /\ Reached(mark, batch) \in Nat
  BY <1>2, BatchIsRows
<1>4. row \in RunRow /\ row.on = a /\ row.status = "completed"
  <2> HIDE DEF batch, mark
  <2> QED  BY <1>2, <1>3 DEF RunRow
<1> HIDE DEF batch, mark, row
<1> QED  BY <1>1, <1>3, <1>4, ClosesExclusive

LEMMA FailExclusive ==
    ASSUME TypeOK, Exclusive, NEW p \in Processors, Fail(p)
    PROVE  TypeOK' /\ Exclusive'
<1> DEFINE r == processor[p].run
           a == run[r].on
           mark == processor[p].mark[a]
           reached == Reached(mark, Batch(a, mark))
<1>1. PICK fetched \in BOOLEAN :
          Closes(p, [run[r] EXCEPT !.status = "failed",
                         !.before = IF fetched THEN mark ELSE None,
                         !.after = IF fetched THEN reached ELSE None], mark)
  BY DEF Fail
<1> DEFINE row == [run[r] EXCEPT !.status = "failed",
                         !.before = IF fetched THEN mark ELSE None,
                         !.after = IF fetched THEN reached ELSE None]
<1>2. processor[p].pc = "running"
  BY DEF Fail
<1>3. run[r] \in RunRow /\ a \in Instances /\ mark \in Nat
  BY <1>2, RunningKnows
<1>4. reached \in Nat
  BY <1>3, BatchIsRows
<1>5. row \in RunRow /\ row.on = a /\ row.status = "failed"
  <2> HIDE DEF reached, mark
  <2> QED  BY <1>3, <1>4 DEF RunRow
<1>6. Closes(p, row, mark)
  BY <1>1
<1> HIDE DEF reached, mark, row
<1> QED  BY <1>2, <1>3, <1>5, <1>6, ClosesExclusive

LEMMA CommitExclusive ==
    ASSUME TypeOK, Exclusive, NEW p \in Processors, Commit(p)
    PROVE  TypeOK' /\ Exclusive'
<1>1. processor' = [processor EXCEPT ![p] = Idle] /\ UNCHANGED <<admin_state, source, operator>>
  BY DEF Commit
<1>2. /\ processor'[p] = Idle
      /\ Idle \in Transaction
      /\ \A q \in Processors \ {p} : processor'[q] = processor[q]
      /\ processor' \in [Processors -> Transaction]
  BY <1>1, IdleEffect
<1>3. processor[p] \in Transaction
  BY DEF TypeOK
<1>4. \A r \in Finished(p) : /\ r \in Runs /\ InHand(p, r)
                             /\ processor[p].ended[r] \in RunRow
                             /\ processor[p].ended[r].on = run[r].on
                             /\ processor[p].ended[r].status # "absent"
                             /\ run[r].on \in Instances
                             /\ Holds(p, run[r].on)
  <2> TAKE r \in Finished(p)
  <2>1. r \in Runs /\ processor[p].ended[r] # None /\ InHand(p, r)
    BY DEF Finished, InHand
  <2>2. run[r].status = "waiting"
    BY <2>1 DEF Exclusive
  <2>3. run[r].on \in Instances
    BY <2>1, <2>2, NoneIsNoValue DEF TypeOK, RowsOK, RunRow
  <2> QED  BY <1>3, <2>1, <2>3 DEF Exclusive, Transaction
<1>5. \A r \in Runs : run'[r] = IF r \in Finished(p) THEN processor[p].ended[r] ELSE run[r]
  BY DEF Commit
<1>6. run' \in [Runs -> RunRow] /\ \A r \in Runs : run'[r].status # "absent" <=> run'[r].on # None
  <2>1. run' \in [Runs -> RunRow]
    BY <1>4 DEF Commit, TypeOK, RowsOK
  <2> QED  BY <2>1, <1>4, <1>5, NoneIsNoValue DEF TypeOK
<1>7. watermark' \in [Instances -> Nat]
  <2>1. \A a \in Touched(p) : a \in Instances => processor[p].mark[a] \in Nat
    BY <1>3, <1>4 DEF Touched, Holds, Transaction
  <2>2. watermark' = [a \in Instances |-> IF a \in Touched(p) THEN processor[p].mark[a]
                                          ELSE watermark[a]]
    BY DEF Commit
  <2> QED  BY <2>1, <2>2 DEF TypeOK, RowsOK
<1>8. next_run_at' \in [Instances -> {None, "later", "due"}]
  <2>1. next_run_at' = [a \in Instances |-> IF a \in Touched(p)
                                            THEN NextRun(a, processor[p].seen[a])
                                            ELSE next_run_at[a]]
    BY DEF Commit
  <2>2. \A a \in Instances : next_run_at[a] \in {None, "later", "due"}
    BY DEF TypeOK, RowsOK
  <2>3. ASSUME NEW a \in Instances, NEW seen PROVE NextRun(a, seen) \in {None, "later", next_run_at[a]}
    BY DEF NextRun
  <2> QED  BY <2>1, <2>2, <2>3
<1>9. TypeOK'
  <2>1. \A q \in Processors : processor'[q].pc \in {"claimed", "running"} <=> processor'[q].run # None
    BY <1>2 DEF TypeOK, Idle
  <2> QED  BY <1>1, <1>2, <1>6, <1>7, <1>8, <2>1 DEF TypeOK, RowsOK
<1>10. \A q \in Processors, r \in Runs : InHand(q, r)' =>
          q # p /\ InHand(q, r) /\ run'[r] = run[r] /\ processor'[q] = processor[q]
  <2> TAKE q \in Processors, r \in Runs
  <2>1. InHand(q, r)' => q # p
    BY <1>2, NoneIsNoValue DEF InHand, Idle
  <2>2. q # p => processor'[q] = processor[q]
    BY <1>2
  <2>3. q # p /\ InHand(q, r) => run'[r] = run[r]
    BY <1>4, <1>5 DEF Exclusive
  <2> QED  BY <2>1, <2>2, <2>3 DEF InHand
<1>11. \A q \in Processors, a \in Instances : Holds(q, a)' => q # p /\ Holds(q, a)
  BY <1>2 DEF Holds, Idle
<1>12. \A q \in Processors : processor'[q].pc = "running" =>
          /\ q # p /\ processor'[q] = processor[q]
          /\ processor[q].run \in Runs /\ InHand(q, processor[q].run)
          /\ InHand(q, processor[q].run)'
          /\ Holds(q, run[processor[q].run].on)
  <2> TAKE q \in Processors
  <2>1. processor'[q].pc = "running" => q # p /\ processor'[q] = processor[q]
    BY <1>2 DEF Idle
  <2> QED  BY <2>1, RunningKnows DEF InHand, Exclusive
<1>13. Exclusive'
  <2>1. \A q \in Processors, r \in Runs : InHand(q, r)' =>
            run'[r].status = "waiting" /\ processor'[q].seen[run'[r].on] # None
    BY <1>10 DEF Exclusive
  <2>2. \A q \in Processors, r \in Runs : processor'[q].ended[r] # None =>
            /\ processor'[q].run # r
            /\ processor'[q].ended[r].on = run'[r].on
            /\ processor'[q].ended[r].status \in {"completed", "failed"}
            /\ processor'[q].mark[run'[r].on] # None
    <3> TAKE q \in Processors, r \in Runs
    <3>1. processor'[q].ended[r] # None => InHand(q, r)'
      BY DEF InHand
    <3> QED  BY <1>10, <3>1 DEF Exclusive, Holds
  <2>3. \A q \in Processors : processor'[q].pc = "running" => Holds(q, run[processor[q].run].on)'
    <3> TAKE q \in Processors
    <3>1. processor'[q].pc = "running" => run'[processor[q].run] = run[processor[q].run]
      BY <1>5, <1>12, <1>4 DEF Exclusive
    <3> QED  BY <1>12, <3>1 DEF Holds
  <2>4. \A q1, q2 \in Processors, a \in Instances : Holds(q1, a)' /\ Holds(q2, a)' => q1 = q2
    BY <1>11 DEF Exclusive
  <2>5. \A q1, q2 \in Processors, r \in Runs : InHand(q1, r)' /\ InHand(q2, r)' => q1 = q2
    BY <1>10 DEF Exclusive
  <2>6. \A q \in Processors, r \in Runs : processor'[q].ended[r] # None => Holds(q, run[r].on)'
    BY <2>2 DEF Holds
  <2> QED  BY <2>1, <2>2, <2>3, <2>4, <2>5, <2>6 DEF Exclusive
<1> QED  BY <1>9, <1>13

LEMMA CrashExclusive ==
    ASSUME TypeOK, Exclusive, NEW p \in Processors, Crash(p)
    PROVE  TypeOK' /\ Exclusive'
<1>1. processor' = [processor EXCEPT ![p] = Idle] /\ UNCHANGED <<rows, source, operator>>
  BY DEF Crash
<1>2. /\ processor'[p] = Idle
      /\ \A q \in Processors \ {p} : processor'[q] = processor[q]
      /\ processor' \in [Processors -> Transaction]
  BY <1>1, IdleEffect
<1>3. TypeOK'
  <2>1. \A q \in Processors : processor'[q].pc \in {"claimed", "running"} <=> processor'[q].run # None
    BY <1>2 DEF TypeOK, Idle
  <2> QED  BY <1>1, <1>2, <2>1 DEF TypeOK, RowsOK, rows
<1>4. \A q \in Processors, r \in Runs : InHand(q, r)' =>
          q # p /\ InHand(q, r) /\ processor'[q] = processor[q]
  BY <1>2, NoneIsNoValue DEF InHand, Idle
<1>5. \A q \in Processors, a \in Instances : Holds(q, a)' => q # p /\ Holds(q, a)
  BY <1>2 DEF Holds, Idle
<1>6. \A q \in Processors : processor'[q].pc = "running" => q # p /\ processor'[q] = processor[q]
  BY <1>2 DEF Idle
<1>7. \A q \in Processors, r \in Runs : processor'[q].ended[r] # None => InHand(q, r)'
  BY DEF InHand
<1>8. run' = run
  BY <1>1 DEF rows
<1> QED  BY <1>3, <1>4, <1>5, <1>6, <1>7, <1>8 DEF Exclusive, Holds

LEMMA ProcessorExclusive ==
    ASSUME TypeOK, Exclusive, NEW p \in Processors, ProcessorStep(p) \/ Crash(p)
    PROVE  TypeOK' /\ Exclusive'
BY ClaimExclusive, LockExclusive, CompleteExclusive, FailExclusive, CommitExclusive, CrashExclusive
   DEF ProcessorStep

LEMMA StepExclusive == TypeOK /\ Exclusive /\ [Next]_vars => TypeOK' /\ Exclusive'
<1> SUFFICES ASSUME TypeOK, Exclusive, [Next]_vars PROVE TypeOK' /\ Exclusive'
  OBVIOUS
<1>1. CASE UNCHANGED vars
  BY <1>1, ExclusiveKept DEF vars, rows, TypeOK, RowsOK
<1>2. CASE Next
  BY <1>2, ProcessorExclusive, OperatorExclusive, WorldExclusive DEF Next
<1> QED  BY <1>1, <1>2

(* Rows and open transactions stay well formed. *)
THEOREM TypeCorrect == Spec => []TypeOK
<1>1. Spec => [](TypeOK /\ Exclusive)
  BY InitExclusive, StepExclusive, PTL DEF Spec
<1> QED  BY <1>1, PTL

--------------------------------------------------------------------------------
(* Rows and watermarks. *)

(* A poll fetches exactly the rows between the watermark and where it ends. *)
LEMMA BatchCovers ==
    ASSUME TypeOK, NoTies, NEW a \in Instances, NEW mark \in Nat,
           \A x \in Rows : Cursor[x] <= mark => x <= source[a]
    PROVE  LET reached == Reached(mark, Batch(a, mark)) IN
           /\ mark <= reached
           /\ \A x \in Rows : x \in Batch(a, mark) <=> mark < Cursor[x] /\ Cursor[x] <= reached
           /\ \A x \in Rows : Cursor[x] <= reached => x <= source[a]
<1> DEFINE batch == Batch(a, mark)
           new == {x \in 1..source[a] : Cursor[x] > mark}
           reached == Reached(mark, batch)
<1>1. source[a] \in Nat /\ source[a] <= MaxRows /\ MaxRows \in Nat /\ BatchSize \in Nat
  BY AdapterAssumption DEF TypeOK
<1>2. \A x \in Rows : Cursor[x] \in Nat /\ x \in Nat /\ x >= 1
  BY AdapterAssumption DEF Rows
<1>3. new \in SUBSET Rows /\ IsFiniteSet(new)
  <2>1. new \subseteq 1..source[a]
    OBVIOUS
  <2>2. IsFiniteSet(1..source[a])
    BY <1>1, FS_Interval
  <2>3. new \in SUBSET Rows
    BY <1>1, <2>1 DEF Rows
  <2> QED  BY <2>1, <2>2, <2>3, FS_Subset
<1>4. batch = {x \in new : Cardinality({y \in new : y < x}) < BatchSize}
  BY DEF Batch
<1>5. CASE batch = {}
  <2>1. reached = mark
    BY <1>5 DEF Reached
  <2> QED  BY <1>2, <1>5, <2>1
<1>6. CASE batch # {}
  <2>1. PICK m \in batch : reached = Cursor[m] /\ \A y \in batch : y <= m
    BY <1>6, BatchIsRows DEF Reached
  <2>2. m \in new /\ m \in Rows /\ m <= source[a] /\ mark < Cursor[m]
    BY <1>1, <1>2, <1>3, <1>4, <2>1
  <2>3. \A x \in batch : x \in Rows /\ mark < Cursor[x] /\ Cursor[x] <= reached
    <3> TAKE x \in batch
    <3>1. x \in new /\ x \in Rows /\ mark < Cursor[x]
      BY <1>2, <1>3, <1>4
    <3>2. x <= m
      BY <2>1
    <3>3. Cursor[x] <= Cursor[m]
      BY <1>2, <2>2, <3>1, <3>2 DEF NoTies
    <3> QED  BY <2>1, <3>1, <3>3
  <2>4. \A x \in Rows : Cursor[x] <= reached => x <= m
    BY <1>2, <2>1, <2>2 DEF NoTies
  <2>5. \A x \in Rows : mark < Cursor[x] /\ Cursor[x] <= reached => x \in batch
    <3> SUFFICES ASSUME NEW x \in Rows, mark < Cursor[x], Cursor[x] <= reached
                 PROVE  x \in batch
      OBVIOUS
    <3>1. x <= m
      BY <2>4
    <3>2. x \in new
      BY <1>1, <1>2, <2>2, <3>1
    <3> DEFINE below(z) == {y \in new : y < z}
    <3> HIDE DEF new
    <3>3. below(x) \subseteq below(m)
      BY <1>2, <1>3, <2>2, <3>1
    <3>4. IsFiniteSet(below(m)) /\ IsFiniteSet(below(x))
      BY <1>3, FS_Subset
    <3>5. Cardinality(below(x)) <= Cardinality(below(m))
      BY <3>3, <3>4, FS_Subset
    <3>6. Cardinality(below(x)) \in Nat /\ Cardinality(below(m)) \in Nat
      BY <3>4, FS_CardinalityType
    <3>7. Cardinality(below(m)) < BatchSize
      BY <1>4, <2>1
    <3>8. Cardinality(below(x)) < BatchSize
      <4> HIDE DEF below
      <4> QED  BY <1>1, <3>5, <3>6, <3>7
    <3> QED  BY <1>4, <3>2, <3>8
  <2>6. \A x \in Rows : Cursor[x] <= reached => x <= source[a]
    BY <1>1, <1>2, <2>2, <2>4
  <2>7. mark <= reached
    BY <1>2, <2>1, <2>2
  <2> HIDE DEF batch, reached
  <2> QED  BY <2>3, <2>5, <2>6, <2>7 DEF batch, reached
<1> QED  BY <1>5, <1>6

(* Runs, watermarks and the work of open transactions unchanged. *)
LEMMA MarksKept ==
    MarksCover /\ UNCHANGED <<run, watermark, source, processor>> => MarksCover'
BY DEF MarksCover, Holds, Takers

LEMMA OperatorMarks ==
    ASSUME TypeOK, Exclusive, MarksCover, NEW o \in Operators, OperatorNext(o)
    PROVE  MarksCover'
<1>1. CASE Queue(o)
  <2> DEFINE new == NextIds(Cardinality(operator[o].on))
  <2>1. PICK a \in [new -> operator[o].on] :
            run' = [r \in Runs |-> IF r \in new
                                   THEN [NoRun EXCEPT !.on = a[r], !.status = "waiting"]
                                   ELSE run[r]]
    BY <1>1 DEF Queue
  <2>2. UNCHANGED <<watermark, source, processor>>
    BY <1>1 DEF Queue
  <2> HIDE DEF new
  <2>3. \A r \in Runs : run'[r] = run[r] \/ run'[r].reads = {}
    BY <2>1 DEF NoRun
  <2>4. \A r \in Runs : \A x \in run'[r].reads :
            run'[r].status = "completed" /\ Cursor[x] <= watermark'[run'[r].on]
    BY <2>2, <2>3 DEF MarksCover
  <2> QED  BY <2>2, <2>4 DEF MarksCover, Holds, Takers
<1>2. CASE ~Queue(o)
  <2>1. UNCHANGED <<run, watermark, source, processor>>
    BY <1>2 DEF OperatorNext, BeginRunOnce, BeginSchedule, BeginSet, Begins, Set, RollBack, rows
  <2> QED  BY <2>1, MarksKept
<1> QED  BY <1>1, <1>2

LEMMA WorldMarks ==
    ASSUME TypeOK, MarksCover, NEW a \in Instances, Tick(a) \/ Arrive(a)
    PROVE  MarksCover'
<1>1. CASE Tick(a)
  BY <1>1, MarksKept DEF Tick
<1>2. CASE Arrive(a)
  <2>1. UNCHANGED <<run, watermark, processor>>
    BY <1>2 DEF Arrive, rows
  <2>2. \A b \in Instances : source[b] \in Nat /\ source'[b] \in Nat /\ source[b] <= source'[b]
    BY <1>2, AdapterAssumption DEF Arrive, TypeOK
  <2>3. \A x \in Rows, b \in Instances : x <= source[b] => x <= source'[b]
    BY <2>2 DEF Rows
  <2> QED  BY <2>1, <2>3 DEF MarksCover, Holds, Takers
<1> QED  BY <1>1, <1>2

LEMMA ClaimMarks ==
    ASSUME TypeOK, Exclusive, MarksCover, NEW p \in Processors, Claim(p)
    PROVE  MarksCover'
<1>1. \A q \in Processors : processor'[q].ended = processor[q].ended
                            /\ processor'[q].mark = processor[q].mark
  BY ClaimEffect
<1>2. UNCHANGED <<run, watermark, source>>
  BY DEF Claim, rows
<1>3. \A q \in Processors, a \in Instances, x \in Rows : Takers(q, a, x)' = Takers(q, a, x)
  BY <1>1 DEF Takers
<1>4. \A q \in Processors, a \in Instances : Holds(q, a)' <=> Holds(q, a)
  BY <1>1 DEF Holds
<1> QED  BY <1>1, <1>2, <1>3, <1>4 DEF MarksCover

LEMMA LockMarks ==
    ASSUME TypeOK, Exclusive, MarksCover, NEW p \in Processors, Lock(p)
    PROVE  MarksCover'
<1> DEFINE a == run[processor[p].run].on
<1>1. \A q \in Processors : processor'[q].ended = processor[q].ended
  BY LockEffect
<1>2. /\ \A q \in Processors, b \in Instances :
            q # p \/ b # a => processor'[q].mark[b] = processor[q].mark[b]
      /\ a \in Instances => processor'[p].mark[a] = Once(processor[p].mark[a], watermark[a])
  <2> HIDE DEF a
  <2> QED  BY LockEffect DEF a
<1>3. UNCHANGED <<run, watermark, source>>
  BY DEF Lock, rows
<1>4. \A q \in Processors, b \in Instances, x \in Rows : Takers(q, b, x)' = Takers(q, b, x)
  BY <1>1 DEF Takers
<1>5. ASSUME NEW q \in Processors, NEW b \in Instances
      PROVE  \/ Holds(q, b) /\ processor'[q].mark[b] = processor[q].mark[b]
             \/ ~Holds(q, b) /\ processor'[q].mark[b] = None
             \/ ~Holds(q, b) /\ processor'[q].mark[b] = watermark[b]
  BY <1>2 DEF Once, Holds
<1>6. \A q \in Processors, b \in Instances, x \in Rows : ~Holds(q, b) => Takers(q, b, x) = {}
  BY DEF Takers, Exclusive
<1>7. \A b \in Instances : watermark[b] \in Nat
  BY DEF TypeOK, RowsOK
<1>8. \A x \in Rows : Cursor[x] \in Nat
  BY AdapterAssumption
<1>9. ASSUME NEW q \in Processors, NEW b \in Instances, Holds(q, b)'
      PROVE  /\ watermark[b] <= processor'[q].mark[b]
             /\ \A x \in Rows :
                   /\ Cursor[x] <= processor'[q].mark[b] => x <= source[b]
                   /\ IF watermark[b] < Cursor[x] /\ Cursor[x] <= processor'[q].mark[b]
                      THEN \E r \in Runs : Takers(q, b, x) = {r}
                      ELSE Takers(q, b, x) = {}
  <2>1. CASE Holds(q, b) /\ processor'[q].mark[b] = processor[q].mark[b]
    BY <2>1 DEF MarksCover
  <2>2. CASE ~Holds(q, b) /\ processor'[q].mark[b] = watermark[b]
    BY <1>6, <1>7, <1>8, <2>2 DEF MarksCover
  <2>3. processor'[q].mark[b] # None
    BY <1>9 DEF Holds
  <2> QED  BY <1>5, <2>1, <2>2, <2>3
<1>10. \A q \in Processors, b \in Instances : Holds(q, b)' =>
          /\ watermark'[b] <= processor'[q].mark[b]
          /\ \A x \in Rows :
                /\ Cursor[x] <= processor'[q].mark[b] => x <= source'[b]
                /\ IF watermark'[b] < Cursor[x] /\ Cursor[x] <= processor'[q].mark[b]
                   THEN \E r \in Runs : Takers(q, b, x)' = {r}
                   ELSE Takers(q, b, x)' = {}
  BY <1>3, <1>4, <1>9
<1> HIDE DEF a
<1> QED  BY <1>1, <1>3, <1>10 DEF MarksCover

(* A run ends with the rows a poll fetched, or with none. *)
LEMMA ClosesMarks ==
    ASSUME TypeOK, Exclusive, MarksCover, NEW p \in Processors, processor[p].pc = "running",
           NEW row \in RunRow, row.on = run[processor[p].run].on,
           row.reads # {} => row.status = "completed",
           NEW mark \in Nat, processor[p].mark[run[processor[p].run].on] <= mark,
           \A x \in Rows : x \in row.reads <=>
               processor[p].mark[run[processor[p].run].on] < Cursor[x] /\ Cursor[x] <= mark,
           \A x \in Rows : Cursor[x] <= mark => x <= source[run[processor[p].run].on],
           Closes(p, row, mark)
    PROVE  MarksCover'
<1> DEFINE s == processor[p].run
           a == run[s].on
           old == processor[p].mark[a]
<1>1. s \in Runs /\ a \in Instances /\ old \in Nat /\ processor[p].ended[s] = None /\ Holds(p, a)
  BY RunningKnows DEF Exclusive
<1>2. /\ \A r \in Runs : processor'[p].ended[r] = IF r = s THEN row ELSE processor[p].ended[r]
      /\ \A b \in Instances : processor'[p].mark[b] = IF b = a THEN mark ELSE processor[p].mark[b]
      /\ \A q \in Processors \ {p} : processor'[q] = processor[q]
  BY <1>1, ClosesEffect
<1>3. UNCHANGED <<run, watermark, source>>
  BY DEF Closes, rows
<1>4. \A x \in Rows : Cursor[x] \in Nat
  BY AdapterAssumption
<1>5. watermark[a] \in Nat /\ watermark[a] <= old
  BY <1>1 DEF MarksCover, TypeOK, RowsOK
<1>6. row # None
  BY NoneIsNoValue
<1> DEFINE taken(q, b, x) == {r \in Runs : /\ processor'[q].ended[r] # None
                                           /\ processor'[q].ended[r].on = b
                                           /\ x \in processor'[q].ended[r].reads}
<1>7. \A x \in Rows : taken(p, a, x) = IF x \in row.reads THEN Takers(p, a, x) \cup {s}
                                       ELSE Takers(p, a, x)
  <2> HIDE DEF old, a, s
  <2> QED  BY <1>1, <1>2, <1>6 DEF Takers, a, s
<1>8. \A q \in Processors, b \in Instances, x \in Rows : q # p \/ b # a =>
          taken(q, b, x) = Takers(q, b, x)
  <2> TAKE q \in Processors, b \in Instances, x \in Rows
  <2>1. CASE q # p
    BY <1>2, <2>1 DEF Takers
  <2>2. CASE q = p /\ b # a
    <3> HIDE DEF old, a, s
    <3> QED  BY <1>1, <1>2, <2>2 DEF Takers, a, s
  <2> QED  BY <2>1, <2>2
<1>9. \A x \in Rows : IF watermark[a] < Cursor[x] /\ Cursor[x] <= mark
                      THEN \E r \in Runs : taken(p, a, x) = {r}
                      ELSE taken(p, a, x) = {}
  <2> TAKE x \in Rows
  <2> HIDE DEF taken
  <2>1. IF watermark[a] < Cursor[x] /\ Cursor[x] <= old
        THEN \E r \in Runs : Takers(p, a, x) = {r}
        ELSE Takers(p, a, x) = {}
    BY <1>1 DEF MarksCover
  <2>2. x \in row.reads <=> old < Cursor[x] /\ Cursor[x] <= mark
    OBVIOUS
  <2>3. old <= mark
    OBVIOUS
  <2> HIDE DEF a, s, old
  <2>4. CASE x \in row.reads
    <3>1. Takers(p, a, x) = {} /\ taken(p, a, x) = {s}
      BY <1>1, <1>4, <1>5, <1>7, <2>1, <2>2, <2>4
    <3> QED  BY <1>1, <1>4, <1>5, <2>2, <2>4, <3>1
  <2>5. CASE x \notin row.reads
    <3>1. taken(p, a, x) = Takers(p, a, x)
      BY <1>7, <2>5
    <3>2. Cursor[x] <= mark <=> Cursor[x] <= old
      BY <1>1, <1>4, <2>2, <2>3, <2>5
    <3> QED  BY <2>1, <3>1, <3>2
  <2> QED  BY <2>4, <2>5
<1>10. ASSUME NEW q \in Processors, NEW b \in Instances, processor'[q].mark[b] # None
       PROVE  /\ watermark[b] <= processor'[q].mark[b]
              /\ \A x \in Rows :
                    /\ Cursor[x] <= processor'[q].mark[b] => x <= source[b]
                    /\ IF watermark[b] < Cursor[x] /\ Cursor[x] <= processor'[q].mark[b]
                       THEN \E r \in Runs : taken(q, b, x) = {r}
                       ELSE taken(q, b, x) = {}
  <2>1. CASE q = p /\ b = a
    <3>1. processor'[q].mark[b] = mark
      BY <1>1, <1>2, <2>1
    <3>2. watermark[a] <= mark
      <4>1. old <= mark
        OBVIOUS
      <4> HIDE DEF old, a, s
      <4> QED  BY <1>1, <1>5, <4>1
    <3>3. \A x \in Rows : Cursor[x] <= mark => x <= source[a]
      OBVIOUS
    <3> HIDE DEF old, a, s, taken
    <3> QED  BY <1>9, <2>1, <3>1, <3>2, <3>3
  <2>2. CASE q # p \/ b # a
    <3>1. processor'[q].mark[b] = processor[q].mark[b] /\ Holds(q, b)
      BY <1>2, <1>10, <2>2 DEF Holds
    <3> HIDE DEF old, a, s, taken
    <3> QED  BY <1>8, <2>2, <3>1 DEF MarksCover
  <2> QED  BY <2>1, <2>2
<1>11. \A q \in Processors, b \in Instances, x \in Rows : Takers(q, b, x)' = taken(q, b, x)
  BY DEF Takers
<1>12. \A q \in Processors, r \in Runs : processor'[q].ended[r] # None /\ processor'[q].ended[r].reads # {} =>
          processor'[q].ended[r].status = "completed"
  BY <1>2 DEF MarksCover
<1>13. \A q \in Processors, b \in Instances : Holds(q, b)' =>
          /\ watermark'[b] <= processor'[q].mark[b]
          /\ \A x \in Rows :
                /\ Cursor[x] <= processor'[q].mark[b] => x <= source'[b]
                /\ IF watermark'[b] < Cursor[x] /\ Cursor[x] <= processor'[q].mark[b]
                   THEN \E r \in Runs : Takers(q, b, x)' = {r}
                   ELSE Takers(q, b, x)' = {}
  <2> HIDE DEF taken, a, s, old
  <2> QED  BY <1>3, <1>10, <1>11 DEF Holds
<1> HIDE DEF taken, a, s, old
<1> QED  BY <1>3, <1>12, <1>13 DEF MarksCover

LEMMA CompleteMarks ==
    ASSUME TypeOK, Exclusive, MarksCover, NoTies, NEW p \in Processors, Complete(p)
    PROVE  MarksCover'
<1> DEFINE r == processor[p].run
           a == run[r].on
           mark == processor[p].mark[a]
           batch == Batch(a, mark)
           reached == Reached(mark, batch)
           row == [run[r] EXCEPT !.status = "completed", !.before = mark,
                                 !.after = reached, !.reads = batch]
<1>1. processor[p].pc = "running" /\ Closes(p, row, reached)
  BY DEF Complete
<1>2. run[r] \in RunRow /\ a \in Instances /\ mark \in Nat /\ r \in Runs
  BY <1>1, RunningKnows
<1>3. batch \in SUBSET Rows /\ reached \in Nat
  BY <1>2, BatchIsRows
<1>4. \A x \in Rows : Cursor[x] <= mark => x <= source[a]
  <2>1. Holds(p, a)
    BY <1>1 DEF Exclusive
  <2> QED  BY <1>2, <2>1 DEF MarksCover
<1>5. /\ mark <= reached
      /\ \A x \in Rows : x \in batch <=> mark < Cursor[x] /\ Cursor[x] <= reached
      /\ \A x \in Rows : Cursor[x] <= reached => x <= source[a]
  BY <1>2, <1>4, BatchCovers
<1>6. row \in RunRow /\ row.on = a /\ row.status = "completed" /\ row.reads = batch
  <2> HIDE DEF batch, mark, reached
  <2> QED  BY <1>2, <1>3 DEF RunRow
<1> HIDE DEF batch, reached, row
<1> QED  BY <1>1, <1>3, <1>5, <1>6, ClosesMarks

LEMMA FailMarks ==
    ASSUME TypeOK, Exclusive, MarksCover, NEW p \in Processors, Fail(p)
    PROVE  MarksCover'
<1> DEFINE r == processor[p].run
           a == run[r].on
           mark == processor[p].mark[a]
           reached == Reached(mark, Batch(a, mark))
<1>1. PICK fetched \in BOOLEAN :
          Closes(p, [run[r] EXCEPT !.status = "failed",
                         !.before = IF fetched THEN mark ELSE None,
                         !.after = IF fetched THEN reached ELSE None], mark)
  BY DEF Fail
<1> DEFINE row == [run[r] EXCEPT !.status = "failed",
                         !.before = IF fetched THEN mark ELSE None,
                         !.after = IF fetched THEN reached ELSE None]
<1>2. processor[p].pc = "running"
  BY DEF Fail
<1>3. run[r] \in RunRow /\ a \in Instances /\ mark \in Nat /\ r \in Runs /\ run[r].status = "waiting"
  BY <1>2, RunningKnows
<1>4. reached \in Nat
  BY <1>3, BatchIsRows
<1>5. run[r].reads = {}
  BY <1>3 DEF MarksCover
<1>6. row \in RunRow /\ row.on = a /\ row.reads = {}
  <2> HIDE DEF reached, mark
  <2> QED  BY <1>3, <1>4, <1>5 DEF RunRow
<1>7. \A x \in Rows : Cursor[x] <= mark => x <= source[a]
  <2>1. Holds(p, a)
    BY <1>2 DEF Exclusive
  <2> QED  BY <1>3, <2>1 DEF MarksCover
<1>8. Closes(p, row, mark)
  BY <1>1
<1>9. \A x \in Rows : Cursor[x] \in Nat
  BY AdapterAssumption
<1>10. \A x \in Rows : ~(mark < Cursor[x] /\ Cursor[x] <= mark)
  <2> HIDE DEF mark
  <2> QED  BY <1>3, <1>9
<1>11. mark <= mark
  <2> HIDE DEF mark
  <2> QED  BY <1>3
<1> HIDE DEF row
<1> QED  BY <1>2, <1>3, <1>6, <1>7, <1>8, <1>10, <1>11, ClosesMarks

(* What a commit does to the rows: it turns the work of the transaction into *)
(* the new state of the runs and watermarks.                                *)
LEMMA CommitEffect ==
    ASSUME TypeOK, Exclusive, MarksCover, NEW p \in Processors, Commit(p)
    PROVE  /\ \A a \in Instances : watermark'[a] = IF Holds(p, a) /\ a \in Touched(p)
                                                   THEN processor[p].mark[a] ELSE watermark[a]
           /\ Touched(p) \in SUBSET Instances
           /\ \A a \in Instances, x \in Rows :
                 {r \in Runs : run'[r].on = a /\ x \in run'[r].reads}
                    = {r \in Runs : run[r].on = a /\ x \in run[r].reads} \cup Takers(p, a, x)
           /\ \A a \in Instances, x \in Rows : a \notin Touched(p) => Takers(p, a, x) = {}
<1>1. \A r \in Finished(p) : /\ r \in Runs
                             /\ processor[p].ended[r] # None
                             /\ processor[p].ended[r].on = run[r].on
                             /\ run[r].status = "waiting"
                             /\ run[r].on \in Instances
                             /\ run[r].reads = {}
                             /\ Holds(p, run[r].on)
  <2> TAKE r \in Finished(p)
  <2>1. r \in Runs /\ processor[p].ended[r] # None /\ InHand(p, r)
    BY DEF Finished, InHand
  <2>2. run[r].status = "waiting"
    BY <2>1 DEF Exclusive
  <2>3. run[r].on \in Instances
    BY <2>1, <2>2, NoneIsNoValue DEF TypeOK, RowsOK, RunRow
  <2>4. run[r].reads = {}
    BY <2>1, <2>2 DEF MarksCover
  <2> QED  BY <2>1, <2>2, <2>3, <2>4 DEF Exclusive
<1>2. \A r \in Runs : run'[r] = IF r \in Finished(p) THEN processor[p].ended[r] ELSE run[r]
  BY DEF Commit
<1>3. \A r \in Runs : processor[p].ended[r] # None <=> r \in Finished(p)
  BY DEF Finished
<1>4. \A a \in Touched(p) : a \in Instances /\ Holds(p, a)
  BY <1>1 DEF Touched
<1>5. watermark' = [a \in Instances |-> IF a \in Touched(p) THEN processor[p].mark[a]
                                        ELSE watermark[a]]
  BY DEF Commit
<1>6. \A a \in Instances, x \in Rows :
          {r \in Runs : run'[r].on = a /\ x \in run'[r].reads}
             = {r \in Runs : run[r].on = a /\ x \in run[r].reads} \cup Takers(p, a, x)
  BY <1>1, <1>2, <1>3 DEF Takers
<1>7. \A a \in Instances, x \in Rows : a \notin Touched(p) => Takers(p, a, x) = {}
  BY <1>1, <1>3 DEF Takers, Touched
<1> QED  BY <1>4, <1>5, <1>6, <1>7

LEMMA CommitMarks ==
    ASSUME TypeOK, Exclusive, MarksCover, NEW p \in Processors, Commit(p)
    PROVE  MarksCover'
<1>1. \A a \in Instances, x \in Rows : Cursor[x] <= watermark'[a] => x <= source[a]
  BY CommitEffect DEF MarksCover
<1>2. \A r \in Runs : \A x \in run'[r].reads :
          run'[r].status = "completed" /\ Cursor[x] <= watermark'[run'[r].on]
  <2> TAKE r \in Runs
  <2> TAKE x \in run'[r].reads
  <2>1. run'[r] = IF r \in Finished(p) THEN processor[p].ended[r] ELSE run[r]
    BY DEF Commit
  <2>2. x \in Rows /\ run'[r].on \in Instances
    <3>1. run' \in [Runs -> RunRow]
      BY CommitExclusive DEF TypeOK, RowsOK
    <3>2. r \in Finished(p) => InHand(p, r) /\ processor[p].ended[r] # None
      BY DEF Finished, InHand
    <3>3. run'[r].status # "absent"
      BY <2>1, <3>2 DEF MarksCover
    <3>4. (\A q \in Runs : run[q].status # "absent" <=> run[q].on # None)'
      BY CommitExclusive DEF TypeOK
    <3> QED  BY <3>1, <3>3, <3>4 DEF RunRow
  <2> DEFINE a == run'[r].on
  <2>3. CASE r \in Finished(p)
    <3>1. processor[p].ended[r] # None /\ run'[r] = processor[p].ended[r]
      BY <2>1, <2>3 DEF Finished
    <3>2. r \in Takers(p, a, x)
      BY <3>1 DEF Takers
    <3>3. Holds(p, a) /\ a \in Touched(p)
      BY <2>2, <3>1, <3>2, CommitEffect DEF Exclusive
    <3>4. Cursor[x] <= processor[p].mark[a]
      BY <2>2, <3>2, <3>3 DEF MarksCover
    <3>5. watermark'[a] = processor[p].mark[a]
      BY <2>2, <3>3, CommitEffect
    <3>6. run'[r].status = "completed"
      BY <3>1 DEF MarksCover
    <3> QED  BY <3>4, <3>5, <3>6
  <2>4. CASE r \notin Finished(p)
    <3>1. run'[r] = run[r]
      BY <2>1, <2>4
    <3>2. run[r].status = "completed" /\ Cursor[x] <= watermark[a]
      BY <3>1 DEF MarksCover
    <3>3. watermark[a] <= watermark'[a]
      BY <2>2, CommitEffect DEF MarksCover, TypeOK, RowsOK
    <3>4. Cursor[x] \in Nat /\ watermark[a] \in Nat /\ watermark'[a] \in Nat
      BY <2>2, AdapterAssumption, CommitExclusive DEF TypeOK, RowsOK
    <3> HIDE DEF a
    <3>5. Cursor[x] <= watermark'[a]
      BY <3>2, <3>3, <3>4
    <3> QED  BY <3>1, <3>2, <3>5 DEF a
  <2> QED  BY <2>3, <2>4
<1>3. \A q \in Processors : q # p => processor'[q] = processor[q]
  BY IdleEffect DEF Commit
<1>4. /\ \A r \in Runs : processor'[p].ended[r] = None
      /\ \A a \in Instances : processor'[p].mark[a] = None
  BY IdleEffect DEF Commit, Idle
<1>5. ASSUME NEW q \in Processors, NEW a \in Instances, Holds(q, a)'
      PROVE  /\ watermark'[a] <= processor'[q].mark[a]
             /\ \A x \in Rows :
                   /\ Cursor[x] <= processor'[q].mark[a] => x <= source[a]
                   /\ IF watermark'[a] < Cursor[x] /\ Cursor[x] <= processor'[q].mark[a]
                      THEN \E r \in Runs : Takers(q, a, x)' = {r}
                      ELSE Takers(q, a, x)' = {}
  <2>1. q # p /\ processor'[q] = processor[q] /\ Holds(q, a)
    BY <1>3, <1>4, <1>5 DEF Holds
  <2>2. ~Holds(p, a)
    BY <2>1 DEF Exclusive
  <2>3. watermark'[a] = watermark[a]
    BY <2>2, CommitEffect
  <2>4. \A x \in Rows : Takers(q, a, x)' = Takers(q, a, x)
    BY <2>1 DEF Takers
  <2> QED  BY <2>1, <2>3, <2>4 DEF MarksCover
<1>6. \A q \in Processors, r \in Runs : processor'[q].ended[r] # None /\ processor'[q].ended[r].reads # {} =>
          processor'[q].ended[r].status = "completed"
  BY <1>3, <1>4 DEF MarksCover
<1>7. source' = source
  BY DEF Commit
<1> QED  BY <1>1, <1>2, <1>5, <1>6, <1>7 DEF MarksCover

LEMMA CrashMarks ==
    ASSUME TypeOK, Exclusive, MarksCover, NEW p \in Processors, Crash(p)
    PROVE  MarksCover'
<1>1. \A q \in Processors : q # p => processor'[q] = processor[q]
  BY IdleEffect DEF Crash
<1>2. /\ \A r \in Runs : processor'[p].ended[r] = None
      /\ \A a \in Instances : processor'[p].mark[a] = None
  BY IdleEffect DEF Crash, Idle
<1>3. UNCHANGED <<run, watermark, source>>
  BY DEF Crash, rows
<1>4. \A q \in Processors, a \in Instances : Holds(q, a)' => q # p /\ Holds(q, a)
  BY <1>1, <1>2 DEF Holds
<1>5. \A q \in Processors, a \in Instances, x \in Rows : q # p => Takers(q, a, x)' = Takers(q, a, x)
  BY <1>1 DEF Takers
<1>6. \A q \in Processors, r \in Runs : processor'[q].ended[r] # None /\ processor'[q].ended[r].reads # {} =>
          processor'[q].ended[r].status = "completed"
  BY <1>1, <1>2 DEF MarksCover
<1> QED  BY <1>1, <1>3, <1>4, <1>5, <1>6 DEF MarksCover

--------------------------------------------------------------------------------
(* The invariant and the refinement. *)

LEMMA InitMarks == Init => MarksCover
<1> SUFFICES ASSUME Init PROVE MarksCover
  OBVIOUS
<1>1. \A r \in Runs : run[r].reads = {}
  BY DEF Init, NoRun
<1>2. \A p \in Processors, a \in Instances : ~Holds(p, a)
  BY DEF Init, Idle, Holds
<1>3. \A p \in Processors, r \in Runs : processor[p].ended[r] = None
  BY DEF Init, Idle
<1>4. \A a \in Instances, x \in Rows : ~(Cursor[x] <= watermark[a])
  BY AdapterAssumption DEF Init
<1> QED  BY <1>1, <1>2, <1>3, <1>4 DEF MarksCover

LEMMA StepMarks ==
    ASSUME NoTies, TypeOK, Exclusive, MarksCover, [Next]_vars
    PROVE  MarksCover'
<1>1. CASE UNCHANGED vars
  BY <1>1, MarksKept DEF vars, rows
<1>2. ASSUME NEW p \in Processors, ProcessorStep(p) \/ Crash(p) PROVE MarksCover'
  BY <1>2, ClaimMarks, LockMarks, CompleteMarks, FailMarks, CommitMarks, CrashMarks
     DEF ProcessorStep
<1>3. CASE Next
  BY <1>2, <1>3, OperatorMarks, WorldMarks DEF Next
<1> QED  BY <1>1, <1>3

(* Whatever overlaps, fails or crashes: runs and instances are in one hand, *)
(* and every row between watermarks has exactly one run.                    *)
THEOREM PollInvariant == ASSUME NoTies PROVE Spec => []PollInv
<1>1. Init => TypeOK /\ Exclusive /\ MarksCover
  BY InitExclusive, InitMarks
<1>2. TypeOK /\ Exclusive /\ MarksCover /\ [Next]_vars => (TypeOK /\ Exclusive /\ MarksCover)'
  BY StepExclusive, StepMarks
<1>3. Exclusive /\ MarksCover => PollInv
  BY DEF PollInv
<1> QED  BY <1>1, <1>2, <1>3, PTL DEF Spec

(* A step that commits nothing leaves what readers see alone. *)
LEMMA OnlyCommitsShow ==
    ASSUME TypeOK, Exclusive, MarksCover, [Next]_vars,
           \A p \in Processors : ~Commit(p)
    PROVE  /\ watermark' = watermark
           /\ \A a \in Instances, x \in Rows :
                 {r \in Runs : run'[r].on = a /\ x \in run'[r].reads}
                    = {r \in Runs : run[r].on = a /\ x \in run[r].reads}
<1>1. CASE \E o \in Operators : Queue(o)
  <2>1. PICK o \in Operators : Queue(o)
    BY <1>1
  <2> DEFINE new == NextIds(Cardinality(operator[o].on))
  <2>2. PICK a \in [new -> operator[o].on] :
            run' = [r \in Runs |-> IF r \in new
                                   THEN [NoRun EXCEPT !.on = a[r], !.status = "waiting"]
                                   ELSE run[r]]
    BY <2>1 DEF Queue
  <2>3. \A r \in new : r \in Runs => run[r].status = "absent"
    BY DEF NextIds, Unused
  <2> HIDE DEF new
  <2>4. \A r \in Runs : run'[r] = run[r] \/ (run'[r].reads = {} /\ run[r].reads = {})
    BY <2>2, <2>3 DEF NoRun, MarksCover
  <2>5. watermark' = watermark
    BY <2>1 DEF Queue
  <2> QED  BY <2>4, <2>5
<1>2. CASE ~\E o \in Operators : Queue(o)
  <2>1. UNCHANGED <<run, watermark>>
    BY <1>2 DEF Next, vars, rows, ProcessorStep, Claim, Lock, Complete, Fail, Closes, Crash,
                OperatorNext, BeginRunOnce, BeginSchedule, BeginSet, Begins, Set, RollBack,
                Tick, Arrive
  <2> QED  BY <2>1
<1> QED  BY <1>1, <1>2

(* No source row is skipped and none is taken twice, for any number of      *)
(* processors, operators, instances and runs: polling is exactly-once.      *)
THEOREM Refinement == ASSUME NoTies PROVE Spec => ImplementsIntake
<1> DEFINE taken == [a \in Instances |-> [x \in Rows |->
                        {r \in Runs : run[r].on = a /\ x \in run[r].reads}]]
<1>1. Init => Intake!IntakeInit
  <2> SUFFICES ASSUME Init PROVE Intake!IntakeInit
    OBVIOUS
  <2>1. \A r \in Runs : run[r].reads = {}
    BY DEF Init, NoRun
  <2>2. taken = [a \in Instances |-> [x \in Rows |-> {}]]
    BY <2>1
  <2> QED  BY <2>2 DEF Init, Intake!IntakeInit
<1>2. ASSUME TypeOK, Exclusive, MarksCover, [Next]_vars
      PROVE  [Intake!IntakeNext]_(Intake!intake)
  <2>1. CASE \A p \in Processors : ~Commit(p)
    <3>1. watermark' = watermark
      BY <1>2, <2>1, OnlyCommitsShow
    <3>2. taken' = taken
      BY <1>2, <2>1, OnlyCommitsShow
    <3> QED  BY <3>1, <3>2 DEF Intake!intake
  <2>2. ASSUME NEW p \in Processors, Commit(p) PROVE Intake!IntakeNext
    <3> SUFFICES ASSUME NEW a \in Instances PROVE Intake!ReadsOn(a)
      BY DEF Intake!IntakeNext
    <3>1. taken \in [Instances -> [Rows -> SUBSET Runs]]
      OBVIOUS
    <3>2. \A x \in Rows : /\ taken[a][x] = {r \in Runs : run[r].on = a /\ x \in run[r].reads}
                          /\ taken'[a][x] = taken[a][x] \cup Takers(p, a, x)
      BY <1>2, <2>2, CommitEffect
    <3>3. \A x \in Rows : watermark[a] < Cursor[x] => taken[a][x] = {}
      <4> TAKE x \in Rows
      <4>1. \A r \in Runs : x \in run[r].reads => Cursor[x] <= watermark[run[r].on]
        BY <1>2 DEF MarksCover
      <4>2. Cursor[x] \in Nat /\ watermark[a] \in Nat
        BY <1>2, AdapterAssumption DEF TypeOK, RowsOK
      <4> QED  BY <4>1, <4>2
    <3>4. CASE a \in Touched(p) /\ Holds(p, a)
      <4>1. watermark'[a] = processor[p].mark[a] /\ watermark[a] <= watermark'[a]
        BY <1>2, <2>2, <3>4, CommitEffect DEF MarksCover
      <4>2. \A x \in Rows : IF watermark[a] < Cursor[x] /\ Cursor[x] <= watermark'[a]
                            THEN \E r \in Runs : Takers(p, a, x) = {r}
                            ELSE Takers(p, a, x) = {}
        BY <1>2, <3>4, <4>1 DEF MarksCover
      <4> HIDE DEF taken
      <4>3. \A x \in Rows : IF watermark[a] < Cursor[x] /\ Cursor[x] <= watermark'[a]
                            THEN taken[a][x] = {} /\ \E r \in Runs : taken'[a][x] = {r}
                            ELSE taken'[a][x] = taken[a][x]
        BY <3>2, <3>3, <4>2
      <4> QED  BY <4>1, <4>3 DEF Intake!ReadsOn, taken
    <3>5. CASE ~(a \in Touched(p) /\ Holds(p, a))
      <4>1. watermark'[a] = watermark[a] /\ watermark[a] \in Nat
        BY <1>2, <2>2, <3>5, CommitEffect DEF TypeOK, RowsOK
      <4>2. \A x \in Rows : Takers(p, a, x) = {}
        BY <1>2, <2>2, <3>5, CommitEffect DEF Takers, Exclusive
      <4>3. \A x \in Rows : taken'[a][x] = taken[a][x]
        BY <3>2, <4>2
      <4>4. \A x \in Rows : Cursor[x] \in Nat
        BY AdapterAssumption
      <4>5. \A x \in Rows : ~(watermark[a] < Cursor[x] /\ Cursor[x] <= watermark'[a])
        BY <4>1, <4>4
      <4> QED  BY <4>1, <4>3, <4>5 DEF Intake!ReadsOn
    <3> QED  BY <3>4, <3>5
  <2> QED  BY <2>1, <2>2
<1>3. Spec => [](TypeOK /\ PollInv)
  BY TypeCorrect, PollInvariant, PTL
<1>4. TypeOK /\ PollInv => TypeOK /\ Exclusive /\ MarksCover
  BY DEF PollInv
<1> HIDE DEF taken
<1>5. TypeOK /\ PollInv /\ [Next]_vars => [Intake!IntakeNext]_(Intake!intake)
  BY <1>2, <1>4
<1> QED  BY <1>1, <1>3, <1>5, PTL DEF Spec, ImplementsIntake, Intake!IntakeSpec

--------------------------------------------------------------------------------
(* The trail the runs leave.  It needs no order of the cursors beyond the one *)
(* the rows come in.                                                          *)

(* What a step may do to the rows that are not finished by it. *)
NothingEnds ==
    \A r \in Runs : run'[r] = run[r] \/ /\ run[r].status = "absent"
                                        /\ run'[r].status = "waiting" /\ run'[r].reads = {}

LEMMA QueueEndsNothing ==
    ASSUME NEW o \in Operators, Queue(o)
    PROVE  NothingEnds
<1> DEFINE new == NextIds(Cardinality(operator[o].on))
<1>1. PICK a \in [new -> operator[o].on] :
          run' = [r \in Runs |-> IF r \in new
                                 THEN [NoRun EXCEPT !.on = a[r], !.status = "waiting"]
                                 ELSE run[r]]
  BY DEF Queue
<1>2. \A r \in new : run[r].status = "absent"
  BY DEF NextIds, Unused
<1> HIDE DEF new
<1> QED  BY <1>1, <1>2 DEF NoRun, NothingEnds

LEMMA ShownStays ==
    ASSUME NothingEnds, NEW a, NEW n
    PROVE  Shown(a, n)' <=> Shown(a, n)
BY DEF NothingEnds, Shown, EndsAt

LEMMA SeenStays ==
    ASSUME NothingEnds, NEW p \in Processors, processor'[p].ended = processor[p].ended,
           NEW a, NEW n
    PROVE  SeenBy(p, a, n)' <=> SeenBy(p, a, n)
BY ShownStays DEF SeenBy

LEMMA RunToldStays ==
    ASSUME NothingEnds, watermark' = watermark, NEW r \in Runs, RunTold(r)
    PROVE  RunTold(r)'
<1>1. CASE run'[r] = run[r]
  <2>1. PICK row : row = run[r]
    OBVIOUS
  <2>2. row.status = "completed" => Shown(row.on, row.before)'
    BY <2>1, ShownStays DEF RunTold
  <2> QED  BY <1>1, <2>1, <2>2 DEF RunTold
<1>2. CASE run'[r].status = "waiting" /\ run'[r].reads = {}
  BY <1>2 DEF RunTold, RowTold
<1> QED  BY <1>1, <1>2 DEF NothingEnds

LEMMA EndedToldStays ==
    ASSUME NothingEnds, NEW p \in Processors, NEW r \in Runs, EndedTold(p, r),
           processor'[p].ended = processor[p].ended,
           processor[p].ended[r] # None =>
               processor'[p].mark[processor[p].ended[r].on] = processor[p].mark[processor[p].ended[r].on]
    PROVE  EndedTold(p, r)'
<1>1. PICK row : row = processor[p].ended[r]
  OBVIOUS
<1>2. row # None /\ row.status = "completed" => SeenBy(p, row.on, row.before)'
  BY <1>1, SeenStays DEF EndedTold
<1> QED  BY <1>1, <1>2 DEF EndedTold

LEMMA MarkToldStays ==
    ASSUME NothingEnds, watermark' = watermark, NEW p \in Processors, NEW a \in Instances,
           MarkTold(p, a), processor'[p].ended = processor[p].ended,
           processor'[p].mark[a] = processor[p].mark[a]
    PROVE  MarkTold(p, a)'
<1>1. PICK n : n = processor[p].mark[a]
  OBVIOUS
<1>2. Holds(p, a) => SeenBy(p, a, n)'
  BY <1>1, SeenStays DEF MarkTold
<1> QED  BY <1>1, <1>2 DEF MarkTold, Holds

(* Steps that end nothing and leave the locks as they are. *)
LEMMA QuietTrail ==
    ASSUME TrailInv, NothingEnds, watermark' = watermark,
           \A p \in Processors : /\ processor'[p].ended = processor[p].ended
                                 /\ processor'[p].mark = processor[p].mark
    PROVE  TrailInv'
<1>1. \A a \in Instances : Shown(a, watermark[a])'
  <2> TAKE a \in Instances
  <2>1. PICK n : n = watermark[a]
    OBVIOUS
  <2>2. Shown(a, n)'
    BY <2>1, ShownStays DEF TrailInv
  <2>3. n = watermark'[a]
    BY <2>1
  <2> QED  BY <2>2, <2>3
<1>2. \A r \in Runs : RunTold(r)'
  BY RunToldStays DEF TrailInv
<1>3. \A p \in Processors, a \in Instances : MarkTold(p, a)'
  BY MarkToldStays DEF TrailInv
<1>4. \A p \in Processors, r \in Runs : EndedTold(p, r)'
  BY EndedToldStays DEF TrailInv
<1> QED  BY <1>1, <1>2, <1>3, <1>4 DEF TrailInv

LEMMA SameProcessor ==
    ASSUME TrailInv, NothingEnds, watermark' = watermark, NEW q \in Processors,
           processor'[q] = processor[q]
    PROVE  /\ \A a \in Instances : MarkTold(q, a)'
           /\ \A r \in Runs : EndedTold(q, r)'
BY MarkToldStays, EndedToldStays DEF TrailInv

LEMMA SameRows ==
    ASSUME TrailInv, NothingEnds, watermark' = watermark
    PROVE  /\ \A a \in Instances : Shown(a, watermark[a])'
           /\ \A r \in Runs : RunTold(r)'
<1>1. \A r \in Runs : RunTold(r)'
  BY RunToldStays DEF TrailInv
<1>2. ASSUME NEW a \in Instances PROVE Shown(a, watermark[a])'
  <2>1. PICK n : n = watermark[a]
    OBVIOUS
  <2>2. Shown(a, n)'
    BY <2>1, ShownStays DEF TrailInv
  <2>3. n = watermark'[a]
    BY <2>1
  <2> QED  BY <2>2, <2>3
<1> QED  BY <1>1, <1>2

LEMMA LockTrail ==
    ASSUME TypeOK, Exclusive, TrailInv, NEW p \in Processors, Lock(p)
    PROVE  TrailInv'
<1>1. NothingEnds /\ watermark' = watermark
  BY DEF Lock, rows, NothingEnds
<1>2. PICK a : a = run[processor[p].run].on
  OBVIOUS
<1>3. /\ processor'[p].ended = processor[p].ended
      /\ \A b \in Instances : processor'[p].mark[b] = IF b = a
                                                      THEN Once(processor[p].mark[b], watermark[b])
                                                      ELSE processor[p].mark[b]
      /\ \A q \in Processors \ {p} : processor'[q] = processor[q]
  BY <1>2, LockEffect
<1>4. \A b \in Instances : Holds(p, b) => processor'[p].mark[b] = processor[p].mark[b]
  BY <1>3 DEF Holds, Once
<1>5. ASSUME NEW b \in Instances PROVE MarkTold(p, b)'
  <2>1. CASE processor'[p].mark[b] = processor[p].mark[b]
    BY <1>1, <1>3, <2>1, MarkToldStays DEF TrailInv
  <2>2. CASE processor'[p].mark[b] # processor[p].mark[b]
    <3>1. PICK n : n = watermark[b]
      OBVIOUS
    <3>2. processor'[p].mark[b] = n /\ n \in Nat
      BY <1>3, <2>2, <3>1 DEF Once, TypeOK, RowsOK
    <3>3. Shown(b, n)'
      BY <1>1, <3>1, ShownStays DEF TrailInv
    <3> QED  BY <1>1, <3>1, <3>2, <3>3 DEF MarkTold, SeenBy
  <2> QED  BY <2>1, <2>2
<1>6. ASSUME NEW r \in Runs PROVE EndedTold(p, r)'
  <2>1. processor[p].ended[r] # None =>
            /\ processor[p].ended[r].on = run[r].on
            /\ Holds(p, run[r].on) /\ run[r].on \in Instances
    BY NoneIsNoValue DEF Exclusive, InHand, TypeOK, RowsOK, RunRow
  <2> QED  BY <1>1, <1>3, <1>4, <2>1, EndedToldStays DEF TrailInv
<1> QED  BY <1>1, <1>3, <1>5, <1>6, SameProcessor, SameRows DEF TrailInv

LEMMA BatchReaches ==
    ASSUME TypeOK, NEW a \in Instances, NEW mark \in Nat
    PROVE  /\ mark <= Reached(mark, Batch(a, mark))
           /\ Batch(a, mark) # {} => mark < Reached(mark, Batch(a, mark))
<1> DEFINE batch == Batch(a, mark)
<1>1. CASE batch = {}
  BY <1>1 DEF Reached
<1>2. CASE batch # {}
  <2>1. Max(batch) \in batch /\ batch \in SUBSET Rows
    BY <1>2, BatchIsRows
  <2>2. PICK x : x = Max(batch)
    OBVIOUS
  <2>3. x \in Rows /\ Cursor[x] > mark
    BY <2>1, <2>2 DEF Batch
  <2>4. Reached(mark, batch) = Cursor[x]
    BY <1>2, <2>2 DEF Reached
  <2>5. Cursor[x] \in Nat
    BY <2>3, AdapterAssumption
  <2> HIDE DEF batch
  <2> QED  BY <2>3, <2>4, <2>5 DEF batch
<1> QED  BY <1>1, <1>2

(* A run that fails adds nothing; one that completes goes on where the last *)
(* one of the transaction, or the watermark, was.                           *)
Adds(row, old, mark) ==
    \/ row.status = "failed" /\ row.reads = {} /\ mark = old
    \/ /\ row.status = "completed" /\ row.before = old /\ row.after = mark
       /\ old <= mark
       /\ row.reads # {} => old < mark

LEMMA ClosesTrail ==
    ASSUME TypeOK, Exclusive, TrailInv, NEW p \in Processors, processor[p].pc = "running",
           NEW row \in RunRow, NEW a, a = run[processor[p].run].on, row.on = a,
           NEW mark \in Nat, NEW old, old = processor[p].mark[a], Adds(row, old, mark),
           Closes(p, row, mark)
    PROVE  TrailInv'
<1>1. PICK s : s = processor[p].run
  OBVIOUS
<1>2. s \in Runs /\ a \in Instances /\ old \in Nat /\ processor[p].ended[s] = None /\ Holds(p, a)
  BY <1>1, RunningKnows DEF Exclusive
<1>3. /\ \A r \in Runs : processor'[p].ended[r] = IF r = s THEN row ELSE processor[p].ended[r]
      /\ \A b \in Instances : processor'[p].mark[b] = IF b = a THEN mark ELSE processor[p].mark[b]
      /\ \A q \in Processors \ {p} : processor'[q] = processor[q]
  BY <1>1, <1>2, ClosesEffect
<1>4. NothingEnds /\ watermark' = watermark
  BY DEF Closes, rows, NothingEnds
<1>5. row # None /\ mark # None
  BY NoneIsNoValue
<1>6. old <= mark
  BY <1>2 DEF Adds
<1>7. ASSUME NEW b, NEW n, SeenBy(p, b, n) PROVE SeenBy(p, b, n)'
  <2>1. Shown(b, n)' <=> Shown(b, n)
    BY <1>4, ShownStays
  <2>2. ASSUME NEW r \in Runs, processor[p].ended[r] # None
        PROVE  processor'[p].ended[r] = processor[p].ended[r]
    BY <1>2, <1>3, <2>2
  <2> QED  BY <1>7, <2>1, <2>2 DEF SeenBy
<1>8. SeenBy(p, a, old) /\ watermark[a] <= old
  BY <1>2 DEF TrailInv, MarkTold
<1>9. SeenBy(p, a, mark)'
  <2>1. CASE mark = old
    BY <1>7, <1>8, <2>1
  <2>2. CASE EndsAt(row, a, mark)
    BY <1>2, <1>3, <1>5, <2>2 DEF SeenBy
  <2> QED  BY <2>1, <2>2 DEF Adds, EndsAt
<1>10. ASSUME NEW b \in Instances PROVE MarkTold(p, b)'
  <2>1. CASE b = a
    <3>1. processor'[p].mark[b] = mark
      BY <1>2, <1>3, <2>1
    <3>2. watermark'[b] <= mark
      BY <1>2, <1>4, <1>6, <1>8, <2>1 DEF TypeOK, RowsOK
    <3> QED  BY <1>9, <2>1, <3>1, <3>2 DEF MarkTold
  <2>2. CASE b # a
    <3>1. PICK n : n = processor[p].mark[b]
      OBVIOUS
    <3>2. processor'[p].mark[b] = n
      BY <1>3, <2>2, <3>1
    <3>3. Holds(p, b) => SeenBy(p, b, n)' /\ watermark[b] <= n
      BY <1>7, <3>1 DEF TrailInv, MarkTold
    <3> QED  BY <1>4, <3>1, <3>2, <3>3 DEF MarkTold, Holds
  <2> QED  BY <2>1, <2>2
<1>11. ASSUME NEW r \in Runs PROVE EndedTold(p, r)'
  <2>1. CASE r = s
    <3>1. processor'[p].ended[r] = row
      BY <1>3, <2>1
    <3>2. RowTold(row)
      BY <1>2 DEF Adds, RowTold
    <3>3. row.status = "completed" => SeenBy(p, row.on, row.before)'
      BY <1>7, <1>8 DEF Adds
    <3>4. row.status = "completed" => row.after <= processor'[p].mark[row.on]
      BY <1>2, <1>3 DEF Adds
    <3> QED  BY <3>1, <3>2, <3>3, <3>4 DEF EndedTold
  <2>2. CASE r # s /\ processor[p].ended[r] # None
    <3>1. PICK done : done = processor[p].ended[r] /\ done # None
      BY <2>2
    <3>2. processor'[p].ended[r] = done
      BY <1>3, <2>2, <3>1
    <3>3. /\ RowTold(done)
          /\ done.status = "completed" => /\ SeenBy(p, done.on, done.before)'
                                          /\ done.after <= processor[p].mark[done.on]
      BY <1>7, <3>1 DEF TrailInv, EndedTold
    <3>4. done.on \in Instances
      BY <2>2, <3>1, NoneIsNoValue DEF Exclusive, InHand, TypeOK, RowsOK, RunRow
    <3>5. done.status = "completed" => done.after <= processor'[p].mark[done.on]
      <4>1. CASE done.on = a
        BY <1>2, <1>3, <1>6, <3>3, <4>1 DEF RowTold
      <4>2. CASE done.on # a
        BY <1>3, <3>3, <3>4, <4>2
      <4> QED  BY <4>1, <4>2
    <3> QED  BY <3>2, <3>3, <3>5 DEF EndedTold
  <2>3. CASE r # s /\ processor[p].ended[r] = None
    BY <1>3, <2>3 DEF EndedTold
  <2> QED  BY <2>1, <2>2, <2>3
<1> QED  BY <1>3, <1>4, <1>10, <1>11, SameProcessor, SameRows DEF TrailInv

(* How a run is closed. *)
LEMMA CompleteCloses ==
    ASSUME TypeOK, Exclusive, NEW p \in Processors, Complete(p)
    PROVE  \E row \in RunRow, mark \in Nat :
              /\ processor[p].pc = "running" /\ Closes(p, row, mark)
              /\ row.on = run[processor[p].run].on
              /\ Adds(row, processor[p].mark[run[processor[p].run].on], mark)
<1>1. PICK r, a, mark, batch, reached :
        /\ r = processor[p].run /\ a = run[r].on /\ mark = processor[p].mark[a]
        /\ batch = Batch(a, mark) /\ reached = Reached(mark, batch)
  OBVIOUS
<1>2. PICK row : row = [run[r] EXCEPT !.status = "completed", !.before = mark,
                                      !.after = reached, !.reads = batch]
  OBVIOUS
<1>3. processor[p].pc = "running" /\ Closes(p, row, reached)
  BY <1>1, <1>2 DEF Complete
<1>4. run[r] \in RunRow /\ a \in Instances /\ mark \in Nat /\ r \in Runs
  BY <1>1, <1>3, RunningKnows
<1>5. batch \in SUBSET Rows /\ reached \in Nat
  BY <1>1, <1>4, BatchIsRows
<1>6. mark <= reached /\ (batch # {} => mark < reached)
  BY <1>1, <1>4, BatchReaches
<1>7. /\ row \in RunRow /\ row.on = a /\ row.status = "completed" /\ row.reads = batch
      /\ row.before = mark /\ row.after = reached
  BY <1>1, <1>2, <1>4, <1>5 DEF RunRow
<1>8. Adds(row, mark, reached)
  BY <1>6, <1>7 DEF Adds
<1> QED  BY <1>1, <1>3, <1>5, <1>7, <1>8

LEMMA FailCloses ==
    ASSUME TypeOK, Exclusive, NEW p \in Processors, Fail(p),
           \A r \in Runs : run[r].status = "waiting" => run[r].reads = {}
    PROVE  \E row \in RunRow, mark \in Nat :
              /\ processor[p].pc = "running" /\ Closes(p, row, mark)
              /\ row.on = run[processor[p].run].on
              /\ Adds(row, processor[p].mark[run[processor[p].run].on], mark)
<1>1. PICK r, a, mark : /\ r = processor[p].run /\ a = run[r].on /\ mark = processor[p].mark[a]
  OBVIOUS
<1>2. PICK fetched \in BOOLEAN :
          Closes(p, [run[r] EXCEPT !.status = "failed",
                         !.before = IF fetched THEN mark ELSE None,
                         !.after = IF fetched THEN Reached(mark, Batch(a, mark)) ELSE None],
                 mark)
  BY <1>1 DEF Fail
<1>3. PICK before, after : /\ before = IF fetched THEN mark ELSE None
                           /\ after = IF fetched THEN Reached(mark, Batch(a, mark)) ELSE None
  OBVIOUS
<1>4. PICK row : row = [run[r] EXCEPT !.status = "failed", !.before = before, !.after = after]
  OBVIOUS
<1>5. processor[p].pc = "running" /\ Closes(p, row, mark)
  BY <1>2, <1>3, <1>4 DEF Fail
<1>6. run[r] \in RunRow /\ a \in Instances /\ mark \in Nat /\ r \in Runs /\ run[r].reads = {}
  BY <1>1, <1>5, RunningKnows
<1>7. before \in Nat \cup {None} /\ after \in Nat \cup {None}
  BY <1>3, <1>6, BatchIsRows
<1>8. row \in RunRow /\ row.on = a /\ row.status = "failed" /\ row.reads = {}
  BY <1>1, <1>4, <1>6, <1>7 DEF RunRow
<1>9. Adds(row, mark, mark)
  BY <1>8 DEF Adds
<1> QED  BY <1>1, <1>5, <1>6, <1>8, <1>9

LEMMA CompleteTrail ==
    ASSUME TypeOK, Exclusive, TrailInv, NEW p \in Processors, Complete(p)
    PROVE  TrailInv'
BY CompleteCloses, ClosesTrail

LEMMA FailTrail ==
    ASSUME TypeOK, Exclusive, TrailInv, NEW p \in Processors, Fail(p)
    PROVE  TrailInv'
<1>1. \A r \in Runs : run[r].status = "waiting" => run[r].reads = {}
  BY DEF TrailInv, RunTold, RowTold
<1> QED  BY <1>1, FailCloses, ClosesTrail

(* What a commit does to the rows, run by run. *)
LEMMA CommitRows ==
    ASSUME TypeOK, Exclusive, NEW p \in Processors, Commit(p)
    PROVE  /\ \A r \in Runs : processor[p].ended[r] # None =>
                 /\ run'[r] = processor[p].ended[r] /\ run[r].status = "waiting"
                 /\ run[r].on \in Touched(p) /\ run'[r].on = run[r].on
                 /\ run[r].on \in Instances /\ Holds(p, run[r].on)
           /\ \A r \in Runs : processor[p].ended[r] = None => run'[r] = run[r]
           /\ \A a \in Touched(p) : a \in Instances /\ Holds(p, a)
           /\ \A a \in Instances : watermark'[a] = IF a \in Touched(p) THEN processor[p].mark[a]
                                                   ELSE watermark[a]
<1>1. \A r \in Runs : processor[p].ended[r] # None =>
          /\ run[r].status = "waiting" /\ run[r].on \in Instances /\ Holds(p, run[r].on)
          /\ processor[p].ended[r].on = run[r].on /\ r \in Finished(p)
  <2> TAKE r \in Runs
  <2>1. processor[p].ended[r] # None => run[r].status = "waiting"
    BY DEF Exclusive, InHand
  <2>2. run[r].status = "waiting" => run[r].on \in Instances
    BY NoneIsNoValue DEF TypeOK, RowsOK, RunRow
  <2> QED  BY <2>1, <2>2 DEF Exclusive, Finished
<1>2. \A r \in Finished(p) : r \in Runs /\ processor[p].ended[r] # None
  BY DEF Finished
<1> QED  BY <1>1, <1>2 DEF Commit, Touched

LEMMA CommitTrail ==
    ASSUME TypeOK, Exclusive, TrailInv, NEW p \in Processors, Commit(p)
    PROVE  TrailInv'
<1>1. ASSUME NEW a, NEW n PROVE Shown(a, n)' <=> SeenBy(p, a, n)
  <2>1. ASSUME NEW r \in Runs
        PROVE  EndsAt(run'[r], a, n) <=>
                   \/ EndsAt(run[r], a, n)
                   \/ processor[p].ended[r] # None /\ EndsAt(processor[p].ended[r], a, n)
    BY <2>1, CommitRows DEF EndsAt
  <2> QED  BY <2>1 DEF Shown, SeenBy
<1>2. ASSUME NEW a, NEW n, Shown(a, n) PROVE Shown(a, n)'
  BY <1>1, <1>2 DEF SeenBy
<1>3. \A a \in Instances : watermark[a] \in Nat /\ (Holds(p, a) => processor[p].mark[a] \in Nat)
  BY DEF TypeOK, RowsOK, Transaction, Holds
<1>4. \A a \in Instances : watermark[a] <= watermark'[a] /\ watermark'[a] \in Nat
  BY <1>3, CommitRows DEF TrailInv, MarkTold
<1>5. ASSUME NEW a \in Instances PROVE Shown(a, watermark[a])'
  <2>1. PICK n : n = watermark'[a]
    OBVIOUS
  <2>2. CASE a \in Touched(p)
    <3>1. SeenBy(p, a, n)
      BY <2>1, <2>2, CommitRows DEF TrailInv, MarkTold
    <3> QED  BY <1>1, <2>1, <3>1
  <2>3. CASE a \notin Touched(p)
    <3>1. Shown(a, n)
      BY <2>1, <2>3, CommitRows DEF TrailInv
    <3> QED  BY <1>2, <2>1, <3>1
  <2> QED  BY <2>2, <2>3
<1>6. ASSUME NEW r \in Runs PROVE RunTold(r)'
  <2>1. CASE processor[p].ended[r] # None
    <3>1. PICK row : row = processor[p].ended[r] /\ row # None
      BY <2>1
    <3>2. /\ run'[r] = row /\ row.on \in Touched(p) /\ row.on \in Instances
          /\ watermark'[row.on] = processor[p].mark[row.on]
      BY <2>1, <3>1, CommitRows
    <3>3. /\ RowTold(row)
          /\ row.status = "completed" => /\ SeenBy(p, row.on, row.before)
                                         /\ row.after <= processor[p].mark[row.on]
      BY <3>1 DEF TrailInv, EndedTold
    <3>4. row.status = "completed" => Shown(row.on, row.before)'
      BY <1>1, <3>3
    <3> QED  BY <3>2, <3>3, <3>4 DEF RunTold
  <2>2. CASE processor[p].ended[r] = None
    <3>1. PICK row : row = run[r]
      OBVIOUS
    <3>2. run'[r] = row
      BY <2>2, <3>1, CommitRows
    <3>3. RowTold(row) /\ (row.status = "completed" => Shown(row.on, row.before)
                                                      /\ row.after <= watermark[row.on])
      BY <3>1 DEF TrailInv, RunTold
    <3>4. row.status = "completed" => row.on \in Instances
      BY <3>1 DEF TypeOK, RowsOK, RunRow
    <3>5. row.status = "completed" => row.after <= watermark'[row.on]
      BY <1>3, <1>4, <3>3, <3>4 DEF RowTold
    <3> QED  BY <1>2, <3>2, <3>3, <3>5 DEF RunTold
  <2> QED  BY <2>1, <2>2
<1>7. /\ \A q \in Processors \ {p} : processor'[q] = processor[q]
      /\ \A r \in Runs : processor'[p].ended[r] = None
      /\ \A a \in Instances : processor'[p].mark[a] = None
  BY IdleEffect DEF Commit, Idle
<1>8. ASSUME NEW q \in Processors, q # p, NEW a, NEW n, SeenBy(q, a, n) PROVE SeenBy(q, a, n)'
  <2>1. processor'[q] = processor[q]
    BY <1>7, <1>8
  <2> QED  BY <1>2, <1>8, <2>1 DEF SeenBy
<1>9. ASSUME NEW q \in Processors, NEW a \in Instances PROVE MarkTold(q, a)'
  <2>1. CASE q = p
    BY <1>7, <2>1 DEF MarkTold, Holds
  <2>2. CASE q # p
    <3>1. PICK n : n = processor[q].mark[a] /\ n = processor'[q].mark[a]
      BY <1>7, <2>2
    <3>2. Holds(q, a) => watermark'[a] = watermark[a]
      BY <2>2, CommitRows DEF Exclusive
    <3>3. Holds(q, a) => SeenBy(q, a, n)' /\ watermark[a] <= n
      BY <1>8, <2>2, <3>1 DEF TrailInv, MarkTold
    <3> QED  BY <3>1, <3>2, <3>3 DEF MarkTold, Holds
  <2> QED  BY <2>1, <2>2
<1>10. ASSUME NEW q \in Processors, NEW r \in Runs PROVE EndedTold(q, r)'
  <2>1. CASE q = p
    BY <1>7, <2>1 DEF EndedTold
  <2>2. CASE q # p
    <3>1. PICK row : row = processor[q].ended[r]
      OBVIOUS
    <3>2. processor'[q] = processor[q]
      BY <1>7, <2>2
    <3>3. row # None => /\ RowTold(row)
                        /\ row.status = "completed" => /\ SeenBy(q, row.on, row.before)'
                                                       /\ row.after <= processor[q].mark[row.on]
      BY <1>8, <2>2, <3>1 DEF TrailInv, EndedTold
    <3> QED  BY <3>1, <3>2, <3>3 DEF EndedTold
  <2> QED  BY <2>1, <2>2
<1> QED  BY <1>5, <1>6, <1>9, <1>10 DEF TrailInv

LEMMA CrashTrail ==
    ASSUME TypeOK, TrailInv, NEW p \in Processors, Crash(p)
    PROVE  TrailInv'
<1>1. NothingEnds /\ watermark' = watermark
  BY DEF Crash, rows, NothingEnds
<1>2. /\ \A q \in Processors \ {p} : processor'[q] = processor[q]
      /\ \A r \in Runs : processor'[p].ended[r] = None
      /\ \A a \in Instances : processor'[p].mark[a] = None
  BY IdleEffect DEF Crash, Idle
<1>3. \A r \in Runs : EndedTold(p, r)'
  BY <1>2 DEF EndedTold
<1>4. \A a \in Instances : MarkTold(p, a)'
  BY <1>2 DEF MarkTold, Holds
<1> QED  BY <1>1, <1>2, <1>3, <1>4, SameProcessor, SameRows DEF TrailInv

LEMMA InitTrail == Init => TrailInv
<1> SUFFICES ASSUME Init PROVE TrailInv
  OBVIOUS
<1>1. \A a \in Instances : Shown(a, watermark[a])
  BY DEF Init, Shown
<1>2. \A r \in Runs : RunTold(r)
  BY DEF Init, NoRun, RunTold, RowTold
<1>3. \A p \in Processors, r \in Runs : processor[p].ended[r] = None
  BY DEF Init, Idle
<1>4. \A p \in Processors, a \in Instances : ~Holds(p, a)
  BY DEF Init, Idle, Holds
<1> QED  BY <1>1, <1>2, <1>3, <1>4 DEF TrailInv, MarkTold, EndedTold

LEMMA StepTrail ==
    ASSUME TypeOK, Exclusive, TrailInv, [Next]_vars
    PROVE  TrailInv'
<1>1. CASE UNCHANGED <<run, watermark, processor>>
  BY <1>1, QuietTrail DEF NothingEnds
<1>2. ASSUME NEW o \in Operators, OperatorNext(o) PROVE TrailInv'
  <2>1. CASE Queue(o)
    <3>1. watermark' = watermark /\ processor' = processor
      BY <2>1 DEF Queue
    <3> QED  BY <2>1, <3>1, QueueEndsNothing, QuietTrail
  <2>2. CASE ~Queue(o)
    BY <1>1, <1>2, <2>2 DEF OperatorNext, BeginRunOnce, BeginSchedule, BeginSet, Begins, Set,
                            RollBack, rows
  <2> QED  BY <2>1, <2>2
<1>3. ASSUME NEW p \in Processors, Claim(p) PROVE TrailInv'
  <2>1. NothingEnds /\ watermark' = watermark
    BY <1>3 DEF Claim, rows, NothingEnds
  <2>2. \A q \in Processors : processor'[q].ended = processor[q].ended
                              /\ processor'[q].mark = processor[q].mark
    BY <1>3, ClaimEffect
  <2> QED  BY <2>1, <2>2, QuietTrail
<1>5. ASSUME NEW p \in Processors, ProcessorStep(p) \/ Crash(p) PROVE TrailInv'
  BY <1>3, <1>5, LockTrail, CompleteTrail, FailTrail, CommitTrail, CrashTrail
     DEF ProcessorStep
<1>6. ASSUME NEW a \in Instances, Tick(a) \/ Arrive(a) PROVE TrailInv'
  BY <1>1, <1>6 DEF Tick, Arrive, rows
<1> QED  BY <1>1, <1>2, <1>5, <1>6 DEF Next, vars, rows

(* The runs an operator reads tell how the watermark came about.  It holds   *)
(* also when rows share a cursor: the trail is right where rows are skipped. *)
THEOREM TrailIsComplete == Spec => []WatermarkTrail
<1>1. Init => TypeOK /\ Exclusive /\ TrailInv
  BY InitExclusive, InitTrail
<1>2. TypeOK /\ Exclusive /\ TrailInv /\ [Next]_vars => (TypeOK /\ Exclusive /\ TrailInv)'
  BY StepExclusive, StepTrail
<1>3. TypeOK /\ TrailInv => WatermarkTrail
  <2> SUFFICES ASSUME TypeOK, TrailInv, NEW a \in Instances, NEW ends,
                      ends = {run[r].after : r \in Completed(a)} \cup {0}
               PROVE  /\ watermark[a] \in ends
                      /\ \A r \in Completed(a) : /\ run[r].before \in ends
                                                 /\ run[r].after <= watermark[a]
                      /\ \A r \in Runs : run[r].on = a /\ run[r].reads # {} =>
                            run[r].status = "completed" /\ run[r].before < run[r].after
    BY DEF WatermarkTrail
  <2>1. ASSUME NEW n, Shown(a, n) PROVE n \in ends
    BY <2>1 DEF Shown, EndsAt, Completed
  <2>2. watermark[a] \in ends
    BY <2>1 DEF TrailInv
  <2>3. \A r \in Completed(a) : run[r].before \in ends /\ run[r].after <= watermark[a]
    BY <2>1 DEF TrailInv, RunTold, Completed
  <2>4. \A r \in Runs : run[r].reads # {} => run[r].status = "completed" /\ run[r].before < run[r].after
    BY DEF TrailInv, RunTold, RowTold
  <2> QED  BY <2>2, <2>3, <2>4
<1> QED  BY <1>1, <1>2, <1>3, PTL DEF Spec

--------------------------------------------------------------------------------
(* One run at a time on each instance, where no two operators queue runs of  *)
(* it at a time.                                                             *)

(* Transactions that queue runs and do not overlap.                          *)
Queueing(o) == operator[o].pc \in {"run_once", "schedule"}

QueuesApart ==
    \A o, q \in Operators :
        o # q /\ Queueing(o) /\ Queueing(q) => operator[o].on \cap operator[q].on = {}

SingleRun ==
    \A r, t \in Runs :
        /\ run[r].status = "waiting" /\ run[t].status = "waiting"
        /\ run[r].on = run[t].on
        => r = t

(* What the operators make of the runs. *)
LEMMA QueueRows ==
    ASSUME NEW o \in Operators, Queue(o)
    PROVE  \E new \in SUBSET Runs :
              /\ \A r \in Runs \ new : run'[r] = run[r]
              /\ \A r \in new : run'[r].status = "waiting" /\ run'[r].on \in operator[o].on
              /\ \A r, t \in new : run'[r].on = run'[t].on => r = t
<1> DEFINE new == NextIds(Cardinality(operator[o].on))
<1>1. PICK a \in [new -> operator[o].on] :
          /\ IsInjective(a)
          /\ run' = [r \in Runs |-> IF r \in new
                                    THEN [NoRun EXCEPT !.on = a[r], !.status = "waiting"]
                                    ELSE run[r]]
  BY DEF Queue
<1>2. new \in SUBSET Runs
  BY DEF NextIds, Unused
<1> HIDE DEF new
<1>3. \A r \in new : run'[r].status = "waiting" /\ run'[r].on = a[r] /\ a[r] \in operator[o].on
  BY <1>1, <1>2 DEF NoRun
<1>4. \A r, t \in new : a[r] = a[t] => r = t
  BY <1>1 DEF IsInjective
<1>5. \A r \in Runs \ new : run'[r] = run[r]
  BY <1>1
<1>6. \A r, t \in new : run'[r].on = run'[t].on => r = t
  BY <1>3, <1>4
<1> QED  BY <1>2, <1>3, <1>5, <1>6

(* No step of a processor, and none of the world, queues a run. *)
LEMMA OnlyOperatorsQueue ==
    ASSUME TypeOK, Exclusive, [Next]_vars, \A o \in Operators : ~Queue(o)
    PROVE  \A r \in Runs : run'[r].status = "waiting" =>
              run[r].status = "waiting" /\ run'[r].on = run[r].on
<1>1. CASE \E p \in Processors : Commit(p)
  <2>1. PICK p \in Processors : Commit(p)
    BY <1>1
  <2>2. \A r \in Runs : processor[p].ended[r] # None =>
            run'[r] = processor[p].ended[r] /\ processor[p].ended[r].status # "waiting"
    BY <2>1, CommitRows DEF Exclusive
  <2>3. \A r \in Runs : processor[p].ended[r] = None => run'[r] = run[r]
    BY <2>1, CommitRows
  <2> QED  BY <2>2, <2>3
<1>2. CASE ~\E p \in Processors : Commit(p)
  <2>1. run' = run
    BY <1>2 DEF Next, vars, rows, ProcessorStep, Claim, Lock, Complete, Fail, Closes, Crash,
                OperatorNext, BeginRunOnce, BeginSchedule, BeginSet, Begins, Set, RollBack,
                Tick, Arrive
  <2> QED  BY <2>1
<1> QED  BY <1>1, <1>2

LEMMA OperatorAfter ==
    ASSUME TypeOK, [Next]_vars, NEW o \in Operators,
           operator'[o].pc \in {"run_once", "schedule"}
    PROVE  \/ operator'[o] = operator[o]
           \/ run' = run /\ \A a \in operator'[o].on : a \in Instances /\ ActiveOn(a) = {}
<1>1. CASE operator' = operator
  BY <1>1
<1>2. ASSUME NEW q \in Operators, Ends(q) PROVE operator'[o] = operator[o]
  BY <1>2 DEF Ends, IdleOperator, TypeOK
<1>3. ASSUME NEW q \in Operators, NEW pc, NEW on, NEW target, Begins(q, pc, on, target),
             pc \in {"run_once", "schedule"} => \A a \in on : a \in Instances /\ ActiveOn(a) = {}
      PROVE  \/ operator'[o] = operator[o]
             \/ run' = run /\ \A a \in operator'[o].on : a \in Instances /\ ActiveOn(a) = {}
  <2>1. /\ operator'[q] = [pc |-> pc, on |-> on, target |-> target]
        /\ \A v \in Operators \ {q} : operator'[v] = operator[v]
        /\ run' = run
    BY <1>3 DEF Begins, rows, TypeOK
  <2> QED  BY <1>3, <2>1
<1>4. ASSUME NEW q \in Operators, OperatorNext(q)
      PROVE  \/ operator'[o] = operator[o]
             \/ run' = run /\ \A a \in operator'[o].on : a \in Instances /\ ActiveOn(a) = {}
  <2>1. ASSUME NEW a \in Instances, BeginRunOnce(q, a)
        PROVE  \/ operator'[o] = operator[o]
               \/ run' = run /\ \A b \in operator'[o].on : b \in Instances /\ ActiveOn(b) = {}
    <3>1. Begins(q, "run_once", {a}, None) /\ \A b \in {a} : b \in Instances /\ ActiveOn(b) = {}
      BY <2>1 DEF BeginRunOnce
    <3> QED  BY <1>3, <3>1
  <2>2. CASE BeginSchedule(q)
    <3>1. PICK on : on = Eligible
      OBVIOUS
    <3>2. Begins(q, "schedule", on, None) /\ \A b \in on : b \in Instances /\ ActiveOn(b) = {}
      BY <2>2, <3>1 DEF BeginSchedule, Eligible
    <3> QED  BY <1>3, <3>2
  <2>3. ASSUME NEW a \in Instances, NEW target \in AdminStates, BeginSet(q, a, target)
        PROVE  \/ operator'[o] = operator[o]
               \/ run' = run /\ \A b \in operator'[o].on : b \in Instances /\ ActiveOn(b) = {}
    <3>1. Begins(q, "set", {a}, target)
      BY <2>3 DEF BeginSet
    <3> QED  BY <1>3, <3>1
  <2>4. CASE Queue(q) \/ Set(q) \/ RollBack(q)
    BY <1>2, <2>4 DEF Queue, Set, RollBack
  <2> QED  BY <1>4, <2>1, <2>2, <2>3, <2>4 DEF OperatorNext
<1>5. ASSUME NEW p \in Processors, ProcessorStep(p) \/ Crash(p) PROVE operator' = operator
  BY <1>5 DEF ProcessorStep, Claim, Lock, Complete, Fail, Closes, Commit, Crash
<1>6. ASSUME NEW a \in Instances, Tick(a) \/ Arrive(a) PROVE operator' = operator
  BY <1>6 DEF Tick, Arrive
<1>7. CASE UNCHANGED vars
  BY <1>1, <1>7 DEF vars
<1> QED  BY <1>1, <1>4, <1>5, <1>6, <1>7 DEF Next

LEMMA SingleStep ==
    ASSUME QueuesApart,
           TypeOK, Exclusive, SingleRun, \A o \in Operators : FoundFree(o), [Next]_vars
    PROVE  SingleRun' /\ \A o \in Operators : FoundFree(o)'
<1>1. CASE \E o \in Operators : Queue(o)
  <2>1. PICK o \in Operators : Queue(o)
    BY <1>1
  <2>2. PICK on : on = operator[o].on
    OBVIOUS
  <2>3. PICK new \in SUBSET Runs :
              /\ \A r \in Runs \ new : run'[r] = run[r]
              /\ \A r \in new : run'[r].status = "waiting" /\ run'[r].on \in on
              /\ \A r, t \in new : run'[r].on = run'[t].on => r = t
    BY <2>1, <2>2, QueueRows
  <2>4. \A r \in Runs : run[r].status = "waiting" => run[r].on \notin on
    BY <2>1, <2>2 DEF Queue, FoundFree, ActiveOn
  <2>5. SingleRun'
    BY <2>3, <2>4 DEF SingleRun
  <2>6. ~(operator'[o].pc \in {"run_once", "schedule"})
    BY <2>1 DEF Queue, Ends, IdleOperator, TypeOK
  <2>7. ASSUME NEW q \in Operators, operator'[q].pc \in {"run_once", "schedule"},
               NEW a \in operator'[q].on
        PROVE  ActiveOn(a)' = {}
    <3>1. q # o /\ operator'[q] = operator[q]
      BY <2>1, <2>6, <2>7 DEF Queue, Ends, TypeOK
    <3>2. a \notin on /\ ActiveOn(a) = {}
      BY <2>1, <2>2, <2>7, <3>1 DEF QueuesApart, Queueing, Queue, FoundFree
    <3>3. \A r \in Runs : run'[r].on = a /\ run'[r].status = "waiting" => FALSE
      BY <2>3, <3>2 DEF ActiveOn
    <3> QED  BY <3>3 DEF ActiveOn
  <2> QED  BY <2>5, <2>7 DEF FoundFree
<1>2. CASE \A o \in Operators : ~Queue(o)
  <2>1. \A r \in Runs : run'[r].status = "waiting" =>
              run[r].status = "waiting" /\ run'[r].on = run[r].on
    BY <1>2, OnlyOperatorsQueue
  <2>2. SingleRun'
    BY <2>1 DEF SingleRun
  <2>3. ASSUME NEW a, ActiveOn(a) = {} PROVE ActiveOn(a)' = {}
    BY <2>1, <2>3 DEF ActiveOn
  <2>4. ASSUME NEW o \in Operators, operator'[o].pc \in {"run_once", "schedule"},
               NEW a \in operator'[o].on
        PROVE  ActiveOn(a)' = {}
    <3>1. CASE operator'[o] = operator[o]
      BY <2>3, <2>4, <3>1 DEF FoundFree
    <3>2. CASE \A b \in operator'[o].on : b \in Instances /\ ActiveOn(b) = {}
      BY <2>3, <2>4, <3>2
    <3> QED  BY <2>4, <3>1, <3>2, OperatorAfter
  <2> QED  BY <2>2, <2>4 DEF FoundFree
<1> QED  BY <1>1, <1>2

LEMMA SingleInit == Init => SingleRun /\ \A o \in Operators : FoundFree(o)
BY DEF Init, SingleRun, NoRun, FoundFree, IdleOperator

(* Where no two operators queue runs of an instance at a time, it has one run *)
(* waiting or in progress, scheduled or asked for, whatever processors do      *)
(* with it and however they die.                                               *)
THEOREM RunsStaySingle == Spec /\ []QueuesApart => []OneActiveRun
<1>1. Init => TypeOK /\ Exclusive /\ (SingleRun /\ \A o \in Operators : FoundFree(o))
  BY InitExclusive, SingleInit
<1>2. TypeOK /\ Exclusive /\ (SingleRun /\ \A o \in Operators : FoundFree(o))
        /\ QueuesApart /\ [Next]_vars
        => TypeOK' /\ Exclusive' /\ (SingleRun /\ \A o \in Operators : FoundFree(o))'
  BY StepExclusive, SingleStep
<1>3. SingleRun => OneActiveRun
  <2> SUFFICES ASSUME SingleRun, NEW a \in Instances PROVE Cardinality(ActiveOn(a)) <= 1
    BY DEF OneActiveRun
  <2>1. CASE ActiveOn(a) = {}
    BY <2>1, FS_EmptySet
  <2>2. CASE ActiveOn(a) # {}
    <3>1. PICK r \in Runs : ActiveOn(a) = {r}
      BY <2>2 DEF ActiveOn, SingleRun
    <3>2. Cardinality({r}) = 1
      BY FS_Singleton
    <3> QED  BY <3>1, <3>2
  <2> QED  BY <2>1, <2>2
<1> QED  BY <1>1, <1>2, <1>3, PTL DEF Spec

--------------------------------------------------------------------------------
(* Locks. *)

LEMMA LocksInit == Init => LocksAreForRuns
BY DEF Init, Idle, LocksAreForRuns, Holds

LEMMA InstancesOfHand ==
    ASSUME TypeOK, Exclusive, NEW p \in Processors, NEW r \in Runs, InHand(p, r)
    PROVE  run[r].status = "waiting" /\ run[r].on \in Instances
BY NoneIsNoValue DEF TypeOK, RowsOK, RunRow, Exclusive

LEMMA LocksStep ==
    ASSUME TypeOK, Exclusive, TrailInv, LocksAreForRuns, [Next]_vars
    PROVE  LocksAreForRuns'
<1>1. ASSUME NEW p \in Processors, NEW a \in Instances, Holds(p, a), processor'[p] = processor[p],
             \A r \in Runs : InHand(p, r) => run'[r] = run[r]
      PROVE  \E r \in Runs : InHand(p, r)' /\ run'[r].on = a
  BY <1>1 DEF LocksAreForRuns, InHand
<1>2. CASE UNCHANGED <<run, processor>>
  BY <1>2 DEF LocksAreForRuns, Holds, InHand
<1>3. CASE \E o \in Operators : Queue(o)
  <2>1. PICK o \in Operators : Queue(o)
    BY <1>3
  <2>2. NothingEnds /\ processor' = processor
    BY <2>1, QueueEndsNothing DEF Queue
  <2>3. \A p \in Processors, r \in Runs : InHand(p, r) => run'[r] = run[r]
    BY <2>2 DEF NothingEnds, Exclusive
  <2> QED  BY <1>1, <2>2, <2>3 DEF LocksAreForRuns, Holds
<1>4. ASSUME NEW p \in Processors, run' = run, \A q \in Processors \ {p} : processor'[q] = processor[q],
             \A a \in Instances : Holds(p, a)' => \E r \in Runs : InHand(p, r)' /\ run'[r].on = a
      PROVE  LocksAreForRuns'
  <2> SUFFICES ASSUME NEW q \in Processors, NEW a \in Instances, Holds(q, a)'
               PROVE  \E r \in Runs : InHand(q, r)' /\ run'[r].on = a
    BY DEF LocksAreForRuns
  <2>1. CASE q = p
    BY <1>4, <2>1
  <2>2. CASE q # p
    <3>1. processor'[q] = processor[q] /\ Holds(q, a)
      BY <1>4, <2>2 DEF Holds
    <3> QED  BY <1>1, <1>4, <3>1
  <2> QED  BY <2>1, <2>2
<1>5. ASSUME NEW p \in Processors, Claim(p) PROVE LocksAreForRuns'
  <2>1. /\ processor'[p].ended = processor[p].ended /\ processor'[p].mark = processor[p].mark
        /\ \A q \in Processors \ {p} : processor'[q] = processor[q]
        /\ run' = run
    BY <1>5, ClaimEffect DEF Claim, rows
  <2>2. processor[p].run = None
    BY <1>5 DEF Claim, TypeOK
  <2>3. \A r \in Runs : InHand(p, r) => InHand(p, r)'
    BY <2>1, <2>2, NoneIsNoValue DEF InHand
  <2>4. \A a \in Instances : Holds(p, a)' => Holds(p, a)
    BY <2>1 DEF Holds
  <2>5. \A a \in Instances : Holds(p, a)' => \E r \in Runs : InHand(p, r)' /\ run'[r].on = a
    BY <2>1, <2>3, <2>4 DEF LocksAreForRuns
  <2> QED  BY <1>4, <2>1, <2>5
<1>6. ASSUME NEW p \in Processors, Lock(p) PROVE LocksAreForRuns'
  <2>1. PICK s, a : s = processor[p].run /\ a = run[s].on
    OBVIOUS
  <2>2. /\ s \in Runs /\ processor'[p].run = s /\ processor'[p].ended = processor[p].ended
        /\ \A b \in Instances : b # a => processor'[p].mark[b] = processor[p].mark[b]
        /\ \A q \in Processors \ {p} : processor'[q] = processor[q]
    BY <1>6, <2>1, LockEffect
  <2>0. run' = run
    BY <1>6 DEF Lock, rows
  <2>3. \A r \in Runs : InHand(p, r)' <=> InHand(p, r)
    BY <2>1, <2>2 DEF InHand
  <2>4. InHand(p, s)' /\ run'[s].on = a
    BY <2>0, <2>1, <2>2 DEF InHand
  <2>5. \A b \in Instances : b # a /\ Holds(p, b)' => Holds(p, b)
    BY <2>2 DEF Holds
  <2>6. \A b \in Instances : Holds(p, b)' => \E r \in Runs : InHand(p, r)' /\ run'[r].on = b
    BY <2>0, <2>2, <2>3, <2>4, <2>5 DEF LocksAreForRuns
  <2> QED  BY <1>4, <2>0, <2>2, <2>6
<1>7. ASSUME NEW p \in Processors, NEW row \in RunRow, NEW mark \in Nat, processor[p].pc = "running",
             Closes(p, row, mark)
      PROVE  LocksAreForRuns'
  <2>1. PICK s, a : s = processor[p].run /\ a = run[s].on
    OBVIOUS
  <2>2. s \in Runs /\ a \in Instances /\ Holds(p, a)
    BY <1>7, <2>1, RunningKnows DEF Exclusive
  <2>3. /\ \A r \in Runs : processor'[p].ended[r] = IF r = s THEN row ELSE processor[p].ended[r]
        /\ \A b \in Instances : processor'[p].mark[b] = IF b = a THEN mark ELSE processor[p].mark[b]
        /\ \A q \in Processors \ {p} : processor'[q] = processor[q]
    BY <1>7, <2>1, <2>2, ClosesEffect
  <2>0. run' = run
    BY <1>7 DEF Closes, rows
  <2>4. \A r \in Runs : InHand(p, r) => InHand(p, r)'
    BY <2>1, <2>2, <2>3, NoneIsNoValue DEF InHand
  <2>5. \A b \in Instances : Holds(p, b)' => Holds(p, b)
    BY <2>2, <2>3 DEF Holds
  <2>6. \A b \in Instances : Holds(p, b)' => \E r \in Runs : InHand(p, r)' /\ run'[r].on = b
    BY <2>0, <2>3, <2>4, <2>5 DEF LocksAreForRuns
  <2> QED  BY <1>4, <2>0, <2>3, <2>6
<1>8. ASSUME NEW p \in Processors, Complete(p) \/ Fail(p) PROVE LocksAreForRuns'
  <2>1. CASE Complete(p)
    <3>1. \E row \in RunRow, mark \in Nat : processor[p].pc = "running" /\ Closes(p, row, mark)
      BY <2>1, CompleteCloses
    <3> QED  BY <1>7, <3>1
  <2>2. CASE Fail(p)
    <3>1. \E row \in RunRow, mark \in Nat : processor[p].pc = "running" /\ Closes(p, row, mark)
      <4>1. \A r \in Runs : run[r].status = "waiting" => run[r].reads = {}
        BY DEF TrailInv, RunTold, RowTold
      <4> QED  BY <2>2, <4>1, FailCloses
    <3> QED  BY <1>7, <3>1
  <2> QED  BY <1>8, <2>1, <2>2
<1>9. ASSUME NEW p \in Processors, Crash(p) PROVE LocksAreForRuns'
  <2>1. /\ \A q \in Processors \ {p} : processor'[q] = processor[q]
        /\ \A a \in Instances : processor'[p].mark[a] = None
        /\ run' = run
    BY <1>9, IdleEffect DEF Crash, Idle, rows
  <2> QED  BY <1>4, <2>1 DEF Holds
<1>10. ASSUME NEW p \in Processors, Commit(p) PROVE LocksAreForRuns'
  <2>1. /\ \A q \in Processors \ {p} : processor'[q] = processor[q]
        /\ \A a \in Instances : processor'[p].mark[a] = None
    BY <1>10, IdleEffect DEF Commit, Idle
  <2>2. \A q \in Processors, r \in Runs : q # p /\ InHand(q, r) => run'[r] = run[r]
    BY <1>10, CommitRows DEF Exclusive, InHand
  <2> SUFFICES ASSUME NEW q \in Processors, NEW a \in Instances, Holds(q, a)'
               PROVE  \E r \in Runs : InHand(q, r)' /\ run'[r].on = a
    BY DEF LocksAreForRuns
  <2>3. q # p /\ processor'[q] = processor[q] /\ Holds(q, a)
    BY <2>1 DEF Holds
  <2> QED  BY <1>1, <2>2, <2>3
<1>11. ASSUME NEW o \in Operators, OperatorNext(o) PROVE LocksAreForRuns'
  BY <1>2, <1>3, <1>11 DEF OperatorNext, BeginRunOnce, BeginSchedule, BeginSet, Begins, Set,
                           RollBack, rows
<1>12. ASSUME NEW a \in Instances, Tick(a) \/ Arrive(a) PROVE LocksAreForRuns'
  BY <1>2, <1>12 DEF Tick, Arrive, rows
<1> QED  BY <1>2, <1>5, <1>6, <1>8, <1>9, <1>10, <1>11, <1>12 DEF Next, ProcessorStep, vars, rows

(* Nor does then any processor wait for the instance of another one: none    *)
(* waits in a circle and no transaction is killed.                           *)
THEOREM NobodyWaits == Spec /\ []QueuesApart => []NoWaitCycle
<1>1. Init => TypeOK /\ Exclusive /\ TrailInv /\ LocksAreForRuns
              /\ (SingleRun /\ \A o \in Operators : FoundFree(o))
  BY InitExclusive, InitTrail, LocksInit, SingleInit
<1>2. TypeOK /\ Exclusive /\ TrailInv /\ LocksAreForRuns /\ (SingleRun /\ \A o \in Operators : FoundFree(o))
        /\ QueuesApart /\ [Next]_vars
        => TypeOK' /\ Exclusive' /\ TrailInv' /\ LocksAreForRuns'
           /\ (SingleRun /\ \A o \in Operators : FoundFree(o))'
  BY StepExclusive, StepTrail, LocksStep, SingleStep
<1>3. TypeOK /\ Exclusive /\ LocksAreForRuns /\ SingleRun => NoWaitCycle
  <2> SUFFICES ASSUME TypeOK, Exclusive, LocksAreForRuns, SingleRun,
                      NEW p \in Processors, NEW q \in Processors, WaitsFor(p, q)
               PROVE  FALSE
    BY DEF NoWaitCycle
  <2>1. PICK r : r = processor[p].run
    OBVIOUS
  <2>2. r \in Runs /\ InHand(p, r)
    BY <2>1, NoneIsNoValue DEF WaitsFor, TypeOK, Transaction, InHand
  <2>3. run[r].status = "waiting" /\ run[r].on \in Instances /\ Holds(q, run[r].on)
    BY <2>1, <2>2, InstancesOfHand DEF WaitsFor, Holds
  <2>4. PICK t \in Runs : InHand(q, t) /\ run[t].on = run[r].on
    BY <2>3 DEF LocksAreForRuns
  <2>5. t = r
    BY <2>2, <2>3, <2>4, InstancesOfHand DEF SingleRun
  <2> QED  BY <2>2, <2>4, <2>5 DEF WaitsFor, Exclusive
<1> QED  BY <1>1, <1>2, <1>3, PTL DEF Spec

=================================================================================
