-------------------------- MODULE MasterData_proofs ---------------------------
(* Proofs about MasterData: the effective windows of a service point stay     *)
(* apart, a device has one open installation, and the alerts about meter      *)
(* references are right once settled.  The invariants are those at the end of *)
(* EffectiveWindows and of MeterRegistry.                                     *)
EXTENDS MasterData, FiniteSetTheorems, SequenceTheorems, TLAPS

--------------------------------------------------------------------------------
(* Counting. *)

LEMMA Counted ==
    ASSUME NEW n \in Nat, NEW S \in SUBSET (1..n)
    PROVE  IsFiniteSet(S) /\ Cardinality(S) \in Nat
<1>1. IsFiniteSet(1..n)
    BY FS_Interval
<1>2. IsFiniteSet(S)
    BY <1>1, FS_Subset
<1>. QED  BY <1>2, FS_CardinalityType

(* At most one element.                                                      *)
LEMMA AtMostOne ==
    ASSUME NEW n \in Nat, NEW S \in SUBSET (1..n), \A i, j \in S : i = j
    PROVE  IsFiniteSet(S) /\ Cardinality(S) \in Nat /\ Cardinality(S) <= 1
<1>1. CASE S = {}
    BY <1>1, FS_EmptySet
<1>2. ASSUME NEW i \in S PROVE IsFiniteSet(S) /\ Cardinality(S) = 1
    <2>1. S = {i}
        BY <1>2
    <2>. QED  BY <2>1, FS_Singleton
<1>. QED  BY <1>1, <1>2

LEMMA NotMoreThanOne ==
    ASSUME NEW n \in Nat, NEW S \in SUBSET (1..n), ~ (Cardinality(S) > 1),
           NEW i \in S, NEW j \in S
    PROVE  i = j
<1>1. IsFiniteSet(S)
    BY Counted
<1>2. SUFFICES ASSUME i # j PROVE FALSE
    OBVIOUS
<1>3. Cardinality({i}) = 1 /\ IsFiniteSet({i})
    BY FS_Singleton
<1>4. Cardinality({i} \cup {j}) = 2
    BY <1>2, <1>3, FS_AddElement
<1>5. Cardinality({i} \cup {j}) <= Cardinality(S) /\ Cardinality(S) \in Nat
    BY <1>1, FS_Subset, FS_CardinalityType
<1>. QED  BY <1>4, <1>5

--------------------------------------------------------------------------------
(* Effective windows: rows. *)

Ids == 1..MaxRows

(* A row of the table before the check constraint has seen it.               *)
Unchecked == [from : Windows!Times, to : 2..Windows!Forever, current : BOOLEAN]

(* EffectiveWindows counts with the module that everybody counts with.        *)
LEMMA SameCount == ASSUME NEW S PROVE Windows!Cardinality(S) = Cardinality(S)
BY DEF Windows!Cardinality, Cardinality

LEMMA WindowBounds == MaxRows \in Nat /\ MaxTime \in Nat
BY BoundsAreNumbers DEF Windows!BoundsAreNumbers

LEMMA RowFields ==
    ASSUME NEW r \in Unchecked
    PROVE  /\ DOMAIN r = {"from", "to", "current"}
           /\ r = [from |-> r.from, to |-> r.to, current |-> r.current]
           /\ r.from \in Nat /\ r.to \in Nat /\ r.current \in BOOLEAN
           /\ r # Windows!NoRow
           /\ Windows!InOrder(r) <=> r \in Windows!RowType
<1>1. r = [from |-> r.from, to |-> r.to, current |-> r.current]
    BY DEF Unchecked
<1>2. DOMAIN r = {"from", "to", "current"}
    BY <1>1
<1>3. r.from \in 1..MaxTime /\ r.to \in 2..(MaxTime + 1) /\ r.current \in BOOLEAN
    BY DEF Unchecked, Windows!Times, Windows!Forever
<1>4. r # Windows!NoRow
    BY <1>3, WindowBounds DEF Windows!NoRow
<1>5. Windows!InOrder(r) <=> r \in Windows!RowType
    BY DEF Windows!InOrder, Windows!RowType, Unchecked
<1>. QED  BY <1>1, <1>2, <1>3, <1>4, <1>5, WindowBounds

LEMMA RowTypes ==
    /\ Windows!RowType \subseteq Unchecked
    /\ Windows!NoRow \notin Windows!RowType
    /\ Windows!NoRow \notin Windows!Window
    /\ \A r \in Windows!RowType : r.from < r.to
    /\ \A w \in Windows!Window : /\ w.from \in Windows!Times /\ w.to \in 2..Windows!Forever
                                /\ w.from < w.to /\ w.from \in Nat /\ w.to \in Nat
<1>1. Windows!RowType \subseteq Unchecked
    BY DEF Windows!RowType, Unchecked
<1>2. \A w \in Windows!Window : /\ w.from \in Windows!Times /\ w.to \in 2..Windows!Forever
                               /\ w.from < w.to
    BY DEF Windows!Window
<1>3. \A w \in Windows!Window : w.from \in Nat /\ w.to \in Nat /\ w.from # 0
    BY <1>2, WindowBounds DEF Windows!Times, Windows!Forever
<1>4. Windows!NoRow \notin Windows!RowType
    BY <1>1, RowFields
<1>5. Windows!NoRow \notin Windows!Window
    BY <1>3 DEF Windows!NoRow
<1>6. \A r \in Windows!RowType : r.from < r.to
    BY DEF Windows!RowType
<1>. QED  BY <1>1, <1>2, <1>3, <1>4, <1>5, <1>6

LEMMA WindowFlushed ==
    ASSUME NEW now \in Unchecked, NEW loaded \in Unchecked, NEW new \in Unchecked
    PROVE  LET row == Windows!Flushed(now, loaded, new) IN
           /\ row \in Unchecked
           /\ row.current = IF new.current = loaded.current THEN now.current ELSE new.current
           /\ now = loaded => row = new
<1>1. Windows!Flushed(now, loaded, new) =
        [from |-> IF new.from = loaded.from THEN now.from ELSE new.from,
         to |-> IF new.to = loaded.to THEN now.to ELSE new.to,
         current |-> IF new.current = loaded.current THEN now.current ELSE new.current]
    BY RowFields DEF Windows!Flushed
<1>2. Windows!Flushed(now, loaded, new) \in Unchecked
    BY <1>1 DEF Unchecked
<1>3. now = loaded => Windows!Flushed(now, loaded, new) = new
    BY <1>1 DEF Unchecked
<1>. QED  BY <1>1, <1>2, <1>3

(* What a transaction writes to the row it has loaded.                       *)
LEMMA WrittenEffect ==
    ASSUME Windows!TypeOK, NEW o \in Operators, Windows!TxInv(o),
           edit[o].pc # "idle", edit[o].id # 0
    PROVE  LET t == edit[o]
               now == rows[edit[o].id]
               row == Windows!Written(o)
           IN
           /\ t.id \in Ids /\ now \in Unchecked /\ t.loaded \in Unchecked
           /\ row \in Unchecked
           /\ t.pc = "update" => row.current = now.current
           /\ t.pc # "update" => ~ row.current
           /\ now = t.loaded /\ t.pc = "update" => row.from = t.window.from /\ row.to = t.window.to
           /\ now = t.loaded /\ t.pc # "update" => row.from = now.from /\ row.to <= now.to
<1>. DEFINE t == edit[o]
            now == rows[edit[o].id]
<1>1. t.id \in Ids /\ now \in Unchecked /\ t.loaded \in Unchecked /\ t.window \in Windows!Window
    BY RowTypes DEF Windows!TxInv, Windows!Stored, Windows!TypeOK, Ids
<1>2. PICK l \in Unchecked : l = t.loaded
    BY <1>1
<1>3. PICK w \in Windows!Window : w = t.window
    BY <1>1
<1>4. w.from \in Windows!Times /\ w.to \in 2..Windows!Forever /\ w.from \in Nat /\ l.to \in Nat
    BY RowTypes, RowFields
<1>5. CASE t.pc = "update"
    <2>. DEFINE new == [l EXCEPT !.from = w.from, !.to = w.to]
    <2>1. new \in Unchecked /\ new.current = l.current /\ new.from = w.from /\ new.to = w.to
        BY <1>4 DEF Unchecked
    <2>2. Windows!Written(o) = Windows!Flushed(now, l, new)
        BY <1>2, <1>3, <1>5 DEF Windows!Written
    <2>. HIDE DEF new
    <2>. QED  BY <1>1, <1>2, <1>3, <1>5, <2>1, <2>2, WindowFlushed
<1>6. CASE t.pc # "update"
    <2>. DEFINE new == [l EXCEPT !.current = FALSE, !.to = IF @ > w.from THEN w.from ELSE @]
    <2>1. w.from \in 2..Windows!Forever
        <3>1. w.from > l.from
            BY <1>2, <1>3, <1>6 DEF Windows!TxInv
        <3>2. l.from \in Windows!Times
            BY DEF Unchecked
        <3>. QED  BY <1>4, <3>1, <3>2, WindowBounds DEF Windows!Times, Windows!Forever
    <2>2. new \in Unchecked /\ new.current = FALSE /\ new.from = l.from /\ new.to <= l.to
        <3>1. l.to \in 2..Windows!Forever
            BY DEF Unchecked
        <3>2. PICK e \in 2..Windows!Forever : /\ e = IF l.to > w.from THEN w.from ELSE l.to
                                             /\ e <= l.to
            BY <1>4, <2>1, <3>1
        <3>3. new = [l EXCEPT !.current = FALSE, !.to = e]
            BY <3>2
        <3>. HIDE DEF new
        <3>. QED  BY <3>2, <3>3 DEF Unchecked
    <2>3. Windows!Written(o) = Windows!Flushed(now, l, new)
        BY <1>2, <1>3, <1>6 DEF Windows!Written
    <2>4. l.current
        BY <1>2, <1>6 DEF Windows!TxInv
    <2>. HIDE DEF new
    <2>. QED  BY <1>1, <1>2, <1>3, <1>6, <2>2, <2>3, <2>4, WindowFlushed
<1>. QED  BY <1>5, <1>6

--------------------------------------------------------------------------------
(* Effective windows: the table as a transaction sees it. *)

LEMMA StoredRows ==
    ASSUME Windows!TypeOK
    PROVE  /\ DOMAIN rows = Ids
           /\ \A i \in Ids : rows[i] = Windows!NoRow \/ rows[i] \in Windows!RowType
           /\ \A i \in Ids : i \in Windows!Stored <=> rows[i] \in Windows!RowType
           /\ \A i \in Ids : rows[i].current => i \in Windows!Stored
           /\ Windows!Stored \subseteq Ids /\ Windows!Current \subseteq Windows!Stored
           /\ \A i : i \in Windows!Current <=> i \in Ids /\ rows[i].current
           /\ 0 \notin Ids
<1>1. Windows!NoRow.current = FALSE
    BY DEF Windows!NoRow
<1>2. /\ DOMAIN rows = Ids
      /\ \A i \in Ids : rows[i] = Windows!NoRow \/ rows[i] \in Windows!RowType
    BY DEF Windows!TypeOK, Ids
<1>3. \A i \in Ids : i \in Windows!Stored <=> rows[i] \in Windows!RowType
    BY <1>2, RowTypes DEF Windows!Stored
<1>4. \A i \in Ids : rows[i].current => rows[i] # Windows!NoRow
    BY <1>1
<1>5. \A i \in Ids : rows[i].current => i \in Windows!Stored
    BY <1>2, <1>3, <1>4
<1>6. Windows!Stored \subseteq Ids /\ Windows!Current \subseteq Windows!Stored
    BY <1>2 DEF Windows!Stored, Windows!Current
<1>7. \A i : i \in Windows!Current <=> i \in Ids /\ rows[i].current
    BY <1>5, <1>6 DEF Windows!Current
<1>8. 0 \notin Ids
    BY WindowBounds DEF Ids
<1>. QED  BY <1>2, <1>3, <1>5, <1>6, <1>7, <1>8

(* The table a transaction is about to leave, seen row by row.               *)
LEMMA SeenEffect ==
    ASSUME Windows!TypeOK, NEW o \in Operators, Windows!TxInv(o),
           edit[o].pc # "idle", edit[o].id # 0 => Windows!InOrder(Windows!Written(o))
    PROVE  LET S == Windows!Seen(o) IN
           /\ S \in [Ids -> Windows!RowType \cup {Windows!NoRow}]
           /\ \A i \in Ids : S[i] = IF i = edit[o].id THEN Windows!Written(o) ELSE rows[i]
           /\ \A i \in Ids : S[i] # Windows!NoRow <=> i \in Windows!Stored
<1>1. rows \in [Ids -> Windows!RowType \cup {Windows!NoRow}]
    BY DEF Windows!TypeOK, Ids
<1>2. CASE edit[o].id = 0
    BY <1>1, <1>2, StoredRows, RowTypes DEF Windows!Seen
<1>3. CASE edit[o].id # 0
    <2>1. edit[o].id \in Ids /\ edit[o].id \in Windows!Stored
        BY <1>3, WrittenEffect DEF Windows!TxInv
    <2>2. Windows!Written(o) \in Windows!RowType
        BY <1>3, WrittenEffect, RowFields
    <2>3. Windows!Seen(o) = [rows EXCEPT ![edit[o].id] = Windows!Written(o)]
        BY <1>3 DEF Windows!Seen
    <2>. QED  BY <1>1, <2>1, <2>2, <2>3, StoredRows, RowTypes
<1>. QED  BY <1>2, <1>3

(* A step that leaves the table and the transaction of an operator alone.     *)
LEMMA BystanderKeeps ==
    ASSUME NEW o \in Operators, UNCHANGED <<rows, edit[o]>>
    PROVE  /\ Windows!TxInv(o)' <=> Windows!TxInv(o)
           /\ Windows!Written(o)' = Windows!Written(o)
           /\ Windows!Seen(o)' = Windows!Seen(o)
           /\ Windows!Stored' = Windows!Stored /\ Windows!Current' = Windows!Current
           /\ Windows!TableInv' <=> Windows!TableInv
<1>1. Windows!Stored' = Windows!Stored /\ Windows!Current' = Windows!Current
    BY DEF Windows!Stored, Windows!Current
<1>2. Windows!Written(o)' = Windows!Written(o) /\ Windows!Seen(o)' = Windows!Seen(o)
    BY DEF Windows!Written, Windows!Seen
<1>3. Windows!TxInv(o)' <=> Windows!TxInv(o)
    BY <1>1, <1>2 DEF Windows!TxInv
<1>4. Windows!TableInv' <=> Windows!TableInv
    BY <1>1 DEF Windows!TableInv
<1>. QED  BY <1>1, <1>2, <1>3, <1>4

--------------------------------------------------------------------------------
(* Effective windows: the invariant. *)

LEMMA FreeTx == Windows!Free \in Windows!TxType /\ Windows!Free.pc = "idle"
BY WindowBounds DEF Windows!Free, Windows!TxType

LEMMA TxRecord ==
    ASSUME NEW pc \in {"idle", "close", "insert", "update"}, NEW i \in 0..MaxRows,
           NEW l \in Windows!RowType \cup {Windows!NoRow},
           NEW w \in Windows!Window \cup {Windows!NoRow}
    PROVE  \E t \in Windows!TxType :
              /\ t = [pc |-> pc, id |-> i, loaded |-> l, window |-> w]
              /\ t.pc = pc /\ t.id = i /\ t.loaded = l /\ t.window = w
<1>1. [pc |-> pc, id |-> i, loaded |-> l, window |-> w] \in Windows!TxType
    BY DEF Windows!TxType
<1>. WITNESS [pc |-> pc, id |-> i, loaded |-> l, window |-> w] \in Windows!TxType
<1>. QED  OBVIOUS

LEMMA WindowsInit == Windows!Init => Windows!WindowsInv
<1>. SUFFICES ASSUME Windows!Init PROVE Windows!WindowsInv
    OBVIOUS
<1>1. /\ rows = [i \in Ids |-> Windows!NoRow] /\ edit = [o \in Operators |-> Windows!Free]
      /\ editBeside = FALSE
    BY DEF Windows!Init, Ids
<1>2. Windows!TypeOK
    BY <1>1, FreeTx DEF Windows!TypeOK, Ids
<1>3. Windows!Stored = {} /\ Windows!Current = {}
    BY <1>1 DEF Windows!Stored, Windows!Current
<1>4. Windows!TableInv
    <2>1. \A i \in Ids : rows[i].current = FALSE
        BY <1>1 DEF Windows!NoRow
    <2>2. Windows!Stored = 1..0 /\ 0 \in 0..MaxRows
        BY <1>3, WindowBounds
    <2>. QED  BY <1>1, <1>3, <2>1, <2>2 DEF Windows!TableInv, Windows!Unique
<1>5. \A o \in Operators : edit[o].pc = "idle"
    BY <1>1, FreeTx
<1>6. Windows!Apart(rows)
    BY <1>1 DEF Windows!Apart
<1>. QED  BY <1>2, <1>4, <1>5, <1>6 DEF Windows!WindowsInv, Windows!TxInv, Windows!LocksInv,
                                        Windows!CheckedInv

(* A step that moves one transaction and leaves the table alone.              *)
LEMMA MoveKeeps ==
    ASSUME Windows!WindowsInv, NEW o \in Operators, NEW t \in Windows!TxType,
           edit' = [edit EXCEPT ![o] = t], rows' = rows,
           editBeside' \in BOOLEAN, editBeside => editBeside',
           Windows!TxInv(o)',
           t.pc = "insert" /\ t.id # 0 =>
               \A p \in Operators \ {o} : ~ (edit[p].pc = "insert" /\ edit[p].id = t.id),
           ~ editBeside' =>
               /\ Windows!CheckedInv(o)'
               /\ \A p \in Operators \ {o} : edit[p].pc = "update" => t.pc = "idle"
    PROVE  Windows!WindowsInv'
<1>1. \A p \in Operators : edit'[p] = IF p = o THEN t ELSE edit[p]
    BY DEF Windows!WindowsInv, Windows!TypeOK
<1>2. Windows!TypeOK'
    BY DEF Windows!WindowsInv, Windows!TypeOK
<1>3. Windows!TableInv'
    BY DEF Windows!WindowsInv, Windows!TableInv, Windows!Stored, Windows!Current
<1>4. ASSUME NEW p \in Operators PROVE Windows!TxInv(p)'
    <2>1. CASE p = o
        BY <2>1
    <2>2. CASE p # o
        BY <1>1, <2>2, BystanderKeeps DEF Windows!WindowsInv
    <2>. QED  BY <2>1, <2>2
<1>5. Windows!LocksInv'
    BY <1>1 DEF Windows!WindowsInv, Windows!LocksInv
<1>6. ASSUME ~ editBeside', NEW p \in Operators PROVE Windows!CheckedInv(p)'
    <2>1. CASE p = o
        BY <1>6, <2>1
    <2>2. CASE p # o
        <3>1. Windows!CheckedInv(p) /\ edit'[p] = edit[p]
            BY <1>1, <1>6, <2>2 DEF Windows!WindowsInv
        <3>2. edit[p].pc = "update" => ~ Windows!Busy(p)'
            BY <1>1, <1>6, <2>2, <3>1 DEF Windows!CheckedInv, Windows!Busy
        <3>3. Windows!Seen(p)' = Windows!Seen(p) /\ Windows!Current' = Windows!Current
            BY <3>1, BystanderKeeps
        <3>. QED  BY <3>1, <3>2, <3>3 DEF Windows!CheckedInv, Windows!Clashes
    <2>. QED  BY <2>1, <2>2
<1>7. ~ editBeside' => Windows!Apart(rows)'
    BY DEF Windows!WindowsInv, Windows!Apart
<1>. QED  BY <1>2, <1>3, <1>4, <1>5, <1>6, <1>7 DEF Windows!WindowsInv

LEMMA BeginCreateKeeps ==
    ASSUME Windows!WindowsInv, NEW o \in Operators, NEW w \in Windows!Window,
           Windows!BeginCreate(o, w)
    PROVE  Windows!WindowsInv'
<1>1. PICK i \in IF Windows!Current = {} THEN {0} ELSE Windows!Current :
         edit' = [edit EXCEPT ![o] = [pc |-> "close", id |-> i, window |-> w,
                     loaded |-> IF i = 0 THEN Windows!NoRow ELSE rows[i]]]
    BY DEF Windows!BeginCreate
<1>2. /\ edit[o].pc = "idle" /\ rows' = rows
      /\ editBeside' = (editBeside \/ Windows!BusyEdit(o))
      /\ \A j \in Windows!Current : w.from > rows[j].from
    BY DEF Windows!BeginCreate, Windows!StartsAfter
<1>3. Windows!TypeOK
    BY DEF Windows!WindowsInv
<1>4. i # 0 => i \in Windows!Current /\ i \in Windows!Stored /\ rows[i].current
               /\ rows[i] \in Windows!RowType
    BY <1>1, <1>3, StoredRows
<1>5. PICK l \in Windows!RowType \cup {Windows!NoRow} :
         l = IF i = 0 THEN Windows!NoRow ELSE rows[i]
    BY <1>4
<1>6. i \in 0..MaxRows
    BY <1>1, <1>3, StoredRows, WindowBounds DEF Ids
<1>7. PICK t \in Windows!TxType :
         /\ t = [pc |-> "close", id |-> i, loaded |-> l, window |-> w]
         /\ t.pc = "close" /\ t.id = i /\ t.loaded = l /\ t.window = w
    BY <1>6, TxRecord
<1>8. edit' = [edit EXCEPT ![o] = t] /\ edit'[o] = t
    BY <1>1, <1>3, <1>5, <1>7 DEF Windows!TypeOK
<1>9. Windows!Stored' = Windows!Stored /\ Windows!Current' = Windows!Current
    BY <1>2 DEF Windows!Stored, Windows!Current
<1>10. Windows!TxInv(o)'
    BY <1>2, <1>4, <1>5, <1>7, <1>8, <1>9 DEF Windows!TxInv
<1>11. Windows!CheckedInv(o)'
    BY <1>2, <1>4, <1>5, <1>7, <1>8, <1>9, <1>3, StoredRows DEF Windows!CheckedInv
<1>12. ~ editBeside' => \A p \in Operators \ {o} : edit[p].pc # "update"
    BY <1>2 DEF Windows!BusyEdit
<1>13. editBeside' \in BOOLEAN /\ (editBeside => editBeside')
    BY <1>2, <1>3 DEF Windows!TypeOK, Windows!BusyEdit
<1>. QED  BY <1>2, <1>5, <1>7, <1>8, <1>10, <1>11, <1>12, <1>13, MoveKeeps

LEMMA CloseKeeps ==
    ASSUME Windows!WindowsInv, NEW o \in Operators, Windows!Close(o)
    PROVE  Windows!WindowsInv'
<1>1. /\ edit[o].pc = "close" /\ edit' = [edit EXCEPT ![o].pc = "insert"]
      /\ edit[o].id # 0 => ~ Windows!Locked(edit[o].id) /\ Windows!InOrder(Windows!Written(o))
      /\ ~ Windows!Clashes(Windows!Seen(o), edit[o].window, 0)
      /\ UNCHANGED <<rows, editBeside>>
    BY DEF Windows!Close
<1>2. Windows!TypeOK /\ edit[o] \in Windows!TxType /\ Windows!TxInv(o)
    BY DEF Windows!WindowsInv, Windows!TypeOK
<1>3. PICK t \in Windows!TxType :
         /\ t = [edit[o] EXCEPT !.pc = "insert"] /\ t.pc = "insert" /\ t.id = edit[o].id
         /\ t.loaded = edit[o].loaded /\ t.window = edit[o].window
    <2>1. [edit[o] EXCEPT !.pc = "insert"] \in Windows!TxType
        BY <1>2 DEF Windows!TxType
    <2>2. PICK t \in Windows!TxType : t = [edit[o] EXCEPT !.pc = "insert"]
        BY <2>1
    <2>3. /\ t.pc = "insert" /\ t.id = edit[o].id
          /\ t.loaded = edit[o].loaded /\ t.window = edit[o].window
        BY <1>2, <2>2 DEF Windows!TxType
    <2>. QED  BY <2>2, <2>3
<1>4. edit' = [edit EXCEPT ![o] = t] /\ edit'[o] = t
    BY <1>1, <1>2, <1>3 DEF Windows!TypeOK
<1>5. Windows!Stored' = Windows!Stored /\ Windows!Current' = Windows!Current
    BY <1>1 DEF Windows!Stored, Windows!Current
<1>6. Windows!Written(o)' = Windows!Written(o)
    BY <1>1, <1>3, <1>4 DEF Windows!Written
<1>7. Windows!Seen(o)' = Windows!Seen(o)
    BY <1>1, <1>3, <1>4, <1>6 DEF Windows!Seen
<1>8. Windows!TxInv(o)'
    BY <1>1, <1>2, <1>3, <1>4, <1>5, <1>6 DEF Windows!TxInv, Windows!InOrder
<1>9. ~ editBeside' => Windows!CheckedInv(o)'
    BY <1>1, <1>3, <1>4, <1>5, <1>7 DEF Windows!WindowsInv, Windows!CheckedInv, Windows!Clashes
<1>10. t.pc = "insert" /\ t.id # 0 =>
          \A p \in Operators \ {o} : ~ (edit[p].pc = "insert" /\ edit[p].id = t.id)
    BY <1>1, <1>3 DEF Windows!Locked
<1>11. ~ editBeside' => \A p \in Operators \ {o} : edit[p].pc # "update"
    BY <1>1 DEF Windows!WindowsInv, Windows!CheckedInv, Windows!Busy
<1>12. editBeside' \in BOOLEAN /\ editBeside' = editBeside /\ rows' = rows
    BY <1>1, <1>2 DEF Windows!TypeOK
<1>. QED  BY <1>4, <1>8, <1>9, <1>10, <1>11, <1>12, MoveKeeps

LEMMA BeginUpdateKeeps ==
    ASSUME Windows!WindowsInv, NEW o \in Operators, NEW i \in Ids, NEW w \in Windows!Window,
           Windows!BeginUpdate(o, i, w)
    PROVE  Windows!WindowsInv'
<1>1. /\ edit[o].pc = "idle" /\ i \in Windows!Stored /\ ~ Windows!Clashes(rows, w, i)
      /\ edit' = [edit EXCEPT ![o] = [pc |-> "update", id |-> i, loaded |-> rows[i], window |-> w]]
      /\ editBeside' = (editBeside \/ Windows!Busy(o)) /\ rows' = rows
    BY DEF Windows!BeginUpdate
<1>2. Windows!TypeOK /\ rows[i] \in Windows!RowType
    BY <1>1, StoredRows DEF Windows!WindowsInv
<1>3. PICK t \in Windows!TxType :
         /\ t = [pc |-> "update", id |-> i, loaded |-> rows[i], window |-> w]
         /\ t.pc = "update" /\ t.id = i /\ t.window = w /\ t.loaded = rows[i]
    <2>1. i \in 0..MaxRows
        BY WindowBounds DEF Ids
    <2>. QED  BY <1>2, <2>1, TxRecord
<1>4. edit' = [edit EXCEPT ![o] = t] /\ edit'[o] = t
    BY <1>1, <1>2, <1>3 DEF Windows!TypeOK
<1>5. Windows!Stored' = Windows!Stored /\ i # 0
    BY <1>1, WindowBounds DEF Windows!Stored, Ids
<1>6. Windows!TxInv(o)'
    BY <1>1, <1>2, <1>3, <1>4, <1>5 DEF Windows!TxInv
<1>7. ~ editBeside' => \A p \in Operators \ {o} : edit[p].pc = "idle" /\ edit'[p] = edit[p]
    BY <1>1, <1>2 DEF Windows!Busy, Windows!TypeOK
<1>8. ~ editBeside' => Windows!CheckedInv(o)'
    BY <1>1, <1>3, <1>4, <1>7 DEF Windows!CheckedInv, Windows!Busy, Windows!Clashes
<1>9. editBeside' \in BOOLEAN /\ (editBeside => editBeside')
    BY <1>1, <1>2 DEF Windows!TypeOK, Windows!Busy
<1>. QED  BY <1>1, <1>3, <1>4, <1>6, <1>7, <1>8, <1>9, MoveKeeps

LEMMA WindowsRollBackKeeps ==
    ASSUME Windows!WindowsInv, NEW o \in Operators, Windows!RollBack(o)
    PROVE  Windows!WindowsInv'
<1>1. edit' = [edit EXCEPT ![o] = Windows!Free] /\ UNCHANGED <<rows, editBeside>>
    BY DEF Windows!RollBack
<1>2. Windows!TypeOK
    BY DEF Windows!WindowsInv
<1>3. edit'[o].pc = "idle"
    BY <1>1, <1>2, FreeTx DEF Windows!TypeOK
<1>4. Windows!TxInv(o)' /\ Windows!CheckedInv(o)'
    BY <1>3 DEF Windows!TxInv, Windows!CheckedInv
<1>5. editBeside' \in BOOLEAN
    BY <1>1, <1>2 DEF Windows!TypeOK
<1>. QED  BY <1>1, <1>4, <1>5, FreeTx, MoveKeeps

(* A step that ends one transaction with what it writes: the others keep what *)
(* they hold, as long as their rows are not among those written.              *)
LEMMA WriteKeepsOthers ==
    ASSUME Windows!WindowsInv, NEW o \in Operators, Windows!TypeOK',
           edit' = [edit EXCEPT ![o] = Windows!Free],
           Windows!Stored \subseteq Windows!Stored',
           \A p \in Operators \ {o} :
               edit[p].pc = "insert" /\ edit[p].id # 0 => rows'[edit[p].id] = rows[edit[p].id]
    PROVE  /\ \A p \in Operators : Windows!TxInv(p)'
           /\ Windows!LocksInv'
<1>1. \A p \in Operators : edit'[p] = IF p = o THEN Windows!Free ELSE edit[p]
    BY DEF Windows!WindowsInv, Windows!TypeOK
<1>2. ASSUME NEW p \in Operators PROVE Windows!TxInv(p)'
    <2>1. CASE p = o
        BY <1>1, <2>1, FreeTx DEF Windows!TxInv
    <2>2. CASE p # o
        <3>1. Windows!TxInv(p) /\ edit'[p] = edit[p]
            BY <1>1, <2>2 DEF Windows!WindowsInv
        <3>2. edit[p].pc = "insert" /\ edit[p].id # 0 => Windows!Written(p)' = Windows!Written(p)
            BY <2>2, <3>1 DEF Windows!Written
        <3>. QED  BY <3>1, <3>2 DEF Windows!TxInv, Windows!InOrder
    <2>. QED  BY <2>1, <2>2
<1>3. Windows!LocksInv'
    BY <1>1, FreeTx DEF Windows!WindowsInv, Windows!LocksInv
<1>. QED  BY <1>2, <1>3

LEMMA InsertKeeps ==
    ASSUME Windows!WindowsInv, NEW o \in Operators, Windows!Insert(o)
    PROVE  Windows!WindowsInv'
<1>1. /\ Windows!TypeOK /\ Windows!TableInv /\ Windows!TxInv(o) /\ Windows!LocksInv
      /\ Windows!Unique(rows)
    BY DEF Windows!WindowsInv, Windows!TableInv
<1>2. PICK n \in 0..MaxRows : Windows!Stored = 1..n
    BY <1>1 DEF Windows!TableInv
<1>3. Windows!Cardinality(Windows!Stored) = n
    BY <1>2, FS_Interval, SameCount, WindowBounds
<1>4. PICK new \in Windows!RowType :
         /\ new = [from |-> edit[o].window.from, to |-> edit[o].window.to, current |-> TRUE]
         /\ new.from = edit[o].window.from /\ new.to = edit[o].window.to /\ new.current = TRUE
    <2>1. edit[o].window \in Windows!Window
        BY <1>1 DEF Windows!TxInv, Windows!Insert
    <2>2. [from |-> edit[o].window.from, to |-> edit[o].window.to, current |-> TRUE]
             \in Windows!RowType
        BY <2>1, RowTypes DEF Windows!RowType
    <2>. QED  BY <2>2
<1>5. /\ edit[o].pc = "insert" /\ n + 1 <= MaxRows
      /\ rows' = [Windows!Seen(o) EXCEPT ![n + 1] = new]
      /\ Windows!Unique([Windows!Seen(o) EXCEPT ![n + 1] = new])
      /\ edit' = [edit EXCEPT ![o] = Windows!Free] /\ editBeside' = editBeside
    BY <1>3, <1>4 DEF Windows!Insert
<1>6. PICK S \in [Ids -> Windows!RowType \cup {Windows!NoRow}] :
         /\ S = Windows!Seen(o)
         /\ \A i \in Ids : S[i] = IF i = edit[o].id THEN Windows!Written(o) ELSE rows[i]
         /\ \A i \in Ids : S[i] # Windows!NoRow <=> i \in Windows!Stored
    BY <1>1, <1>5, SeenEffect DEF Windows!TxInv
<1>7. n + 1 \in Ids /\ n \in Nat /\ n + 1 \notin Windows!Stored
    BY <1>2, <1>5, WindowBounds DEF Ids
<1>8. /\ rows' \in [Ids -> Windows!RowType \cup {Windows!NoRow}]
      /\ \A i \in Ids : rows'[i] = IF i = n + 1 THEN new ELSE S[i]
    BY <1>5, <1>6, <1>7
<1>9. Windows!TypeOK'
    BY <1>1, <1>5, <1>8, FreeTx DEF Windows!TypeOK, Ids
<1>10. Windows!Stored' = 1..(n + 1)
    <2>1. \A i \in Ids : rows'[i] # Windows!NoRow <=> i \in Windows!Stored \/ i = n + 1
        <3>1. new # Windows!NoRow
            BY RowTypes
        <3>2. \A i \in Ids : S[i] # Windows!NoRow <=> i \in Windows!Stored
            BY <1>6
        <3>. QED  BY <1>8, <3>1, <3>2
    <2>2. \A i \in Ids : i \in Windows!Stored \/ i = n + 1 <=> i \in 1..(n + 1)
        BY <1>2, <1>7
    <2>3. 1..(n + 1) \subseteq Ids
        BY <1>7, WindowBounds DEF Ids
    <2>. QED  BY <1>8, <2>1, <2>2, <2>3 DEF Windows!Stored
<1>11. Windows!Unique(rows)' /\ n + 1 \in Windows!Current'
    <2>1. Windows!Unique(rows)'
        BY <1>5 DEF Windows!Unique
    <2>2. rows'[n + 1].current
        BY <1>4, <1>7, <1>8
    <2>. QED  BY <1>7, <1>10, <2>1, <2>2 DEF Windows!Current
<1>12. \A i \in Windows!Current' : i = n + 1
    BY <1>8, <1>11 DEF Windows!Unique, Windows!Current, Windows!Stored
<1>13. Windows!TableInv'
    <2>1. n + 1 \in 0..MaxRows
        BY <1>5, <1>7, WindowBounds
    <2>. QED  BY <1>10, <1>11, <2>1 DEF Windows!TableInv
<1>14. Windows!Stored \subseteq Windows!Stored'
    BY <1>2, <1>7, <1>10
<1>15. ASSUME NEW p \in Operators \ {o}, edit[p].pc = "insert", edit[p].id # 0
       PROVE  rows'[edit[p].id] = rows[edit[p].id]
    <2>1. edit[p].id \in Windows!Stored /\ edit[p].id \in Ids
        BY <1>1, <1>15, StoredRows DEF Windows!WindowsInv, Windows!TxInv
    <2>2. edit[p].id # edit[o].id
        BY <1>1, <1>5, <1>15 DEF Windows!LocksInv
    <2>. QED  BY <1>6, <1>7, <1>8, <2>1, <2>2
<1>16. (\A p \in Operators : Windows!TxInv(p)') /\ Windows!LocksInv'
    BY <1>5, <1>9, <1>14, <1>15, WriteKeepsOthers
<1>17. ASSUME ~ editBeside PROVE Windows!Apart(rows)'
    <2>1. Windows!Apart(rows) /\ Windows!CheckedInv(o)
        BY <1>17 DEF Windows!WindowsInv
    (* Of the rows the transaction has found current none but the one it closes
       is left: otherwise its insertion violates the unique index. *)
    <2>2. \A j \in Windows!Current : j = edit[o].id
        <3>. SUFFICES ASSUME NEW j \in Windows!Current, j # edit[o].id PROVE FALSE
            OBVIOUS
        <3>1. j \in Ids /\ rows[j].current /\ j # n + 1
            BY <1>1, <1>7, StoredRows
        <3>2. rows'[j].current
            BY <1>6, <1>8, <3>1
        <3>. QED  BY <1>8, <1>11, <3>1, <3>2, <1>7, <1>4 DEF Windows!Unique
    <2>3. ~ Windows!Clashes(S, edit[o].window, 0)
        BY <1>5, <1>6, <2>1, <2>2 DEF Windows!CheckedInv
    <2>4. \A i \in Windows!Stored :
             /\ i \in Ids /\ rows[i] \in Unchecked /\ S[i] \in Unchecked
             /\ S[i].from = rows[i].from /\ S[i].to <= rows[i].to
        <3>. SUFFICES ASSUME NEW i \in Windows!Stored
                      PROVE  /\ i \in Ids /\ rows[i] \in Unchecked /\ S[i] \in Unchecked
                             /\ S[i].from = rows[i].from /\ S[i].to <= rows[i].to
            OBVIOUS
        <3>1. i \in Ids /\ rows[i] \in Unchecked
            BY <1>1, StoredRows, RowTypes
        <3>2. CASE i # edit[o].id
            BY <1>6, <3>1, <3>2, RowFields
        <3>3. CASE i = edit[o].id
            <4>1. i # 0 /\ i \in Windows!Current
                BY <1>1, <2>2, <3>1, <3>3, StoredRows DEF Windows!TableInv
            <4>2. edit[o].loaded = rows[i]
                BY <1>5, <2>1, <3>3, <4>1 DEF Windows!CheckedInv
            <4>. QED  BY <1>1, <1>5, <1>6, <3>1, <3>3, <4>1, <4>2, WrittenEffect
        <3>. QED  BY <3>2, <3>3
    <2>5. \A i, j \in Windows!Stored : i # j => ~ Windows!Overlap(S[i], S[j])
        <3>. SUFFICES ASSUME NEW i \in Windows!Stored, NEW j \in Windows!Stored, i # j,
                             Windows!Overlap(S[i], S[j])
                      PROVE  FALSE
            OBVIOUS
        <3>1. Windows!Overlap(rows[i], rows[j])
            BY <2>4, RowFields DEF Windows!Overlap
        <3>. QED  BY <1>1, <2>1, <2>4, <3>1, StoredRows DEF Windows!Apart, Windows!Stored
    <2>6. \A i \in Windows!Stored : ~ Windows!Overlap(S[i], new) /\ ~ Windows!Overlap(new, S[i])
        <3>1. \A i \in Windows!Stored : i \in DOMAIN S \ {0} /\ S[i] # Windows!NoRow
            BY <1>1, <1>6, StoredRows
        <3>. QED  BY <1>4, <2>3, <3>1 DEF Windows!Clashes, Windows!Overlap
    <2>7. \A i \in DOMAIN rows' : rows'[i] # Windows!NoRow =>
             (i = n + 1 /\ rows'[i] = new) \/ (i \in Windows!Stored /\ rows'[i] = S[i])
        BY <1>6, <1>8
    <2>. QED  BY <2>5, <2>6, <2>7 DEF Windows!Apart
<1>18. ASSUME ~ editBeside, NEW p \in Operators PROVE Windows!CheckedInv(p)'
    <2>1. CASE p = o
        BY <1>1, <1>5, <2>1, FreeTx DEF Windows!CheckedInv, Windows!TypeOK
    <2>2. CASE p # o
        <3>1. edit'[p] = edit[p] /\ Windows!CheckedInv(p) /\ Windows!TxInv(p)
            BY <1>1, <1>5, <1>18, <2>2 DEF Windows!WindowsInv, Windows!TypeOK
        <3>2. edit[p].pc # "update"
            BY <1>5, <2>2, <3>1 DEF Windows!CheckedInv, Windows!Busy
        <3>3. edit[p].pc \in {"close", "insert"} => edit[p].id \in Windows!Stored \/ edit[p].id = 0
            BY <3>1 DEF Windows!TxInv
        <3>4. edit[p].pc \in {"close", "insert"} => edit[p].id # n + 1
            BY <1>7, <3>3
        <3>5. edit[p].pc \in {"close", "insert"} =>
                 edit[p].id \notin Windows!Current' /\ Windows!Current' \ {edit[p].id} # {}
            BY <1>11, <1>12, <3>4
        <3>. QED  BY <3>1, <3>2, <3>5 DEF Windows!CheckedInv
    <2>. QED  BY <2>1, <2>2
<1>. QED  BY <1>5, <1>9, <1>13, <1>16, <1>17, <1>18 DEF Windows!WindowsInv

LEMMA UpdateKeeps ==
    ASSUME Windows!WindowsInv, NEW o \in Operators, Windows!Update(o)
    PROVE  Windows!WindowsInv'
<1>1. /\ Windows!TypeOK /\ Windows!TableInv /\ Windows!TxInv(o) /\ Windows!LocksInv
      /\ Windows!Unique(rows)
    BY DEF Windows!WindowsInv, Windows!TableInv
<1>2. /\ edit[o].pc = "update" /\ ~ Windows!Locked(edit[o].id)
      /\ Windows!InOrder(Windows!Written(o)) /\ rows' = Windows!Seen(o)
      /\ edit' = [edit EXCEPT ![o] = Windows!Free] /\ editBeside' = editBeside
    BY DEF Windows!Update
<1>3. edit[o].id # 0 /\ edit[o].id \in Ids /\ edit[o].id \in Windows!Stored
      /\ edit[o].window \in Windows!Window
    BY <1>1, <1>2, StoredRows DEF Windows!TxInv
<1>4. /\ rows' \in [Ids -> Windows!RowType \cup {Windows!NoRow}]
      /\ \A i \in Ids : rows'[i] = IF i = edit[o].id THEN Windows!Written(o) ELSE rows[i]
      /\ \A i \in Ids : rows'[i] # Windows!NoRow <=> i \in Windows!Stored
    BY <1>1, <1>2, SeenEffect
<1>5. Windows!TypeOK'
    BY <1>1, <1>2, <1>4, FreeTx DEF Windows!TypeOK, Ids
<1>6. Windows!Stored' = Windows!Stored
    BY <1>1, <1>4, StoredRows DEF Windows!Stored
<1>7. \A i \in Ids : rows'[i].current = rows[i].current
    BY <1>1, <1>2, <1>3, <1>4, WrittenEffect
<1>8. Windows!Current' = Windows!Current
    BY <1>1, <1>6, <1>7, StoredRows DEF Windows!Current
<1>9. Windows!TableInv'
    <2>1. Windows!Unique(rows)'
        BY <1>1, <1>4, <1>7, StoredRows DEF Windows!Unique
    <2>. QED  BY <1>1, <1>6, <1>8, <2>1 DEF Windows!TableInv
<1>10. ASSUME NEW p \in Operators \ {o}, edit[p].pc = "insert", edit[p].id # 0
       PROVE  rows'[edit[p].id] = rows[edit[p].id]
    <2>1. edit[p].id \in Ids
        BY <1>1, <1>10, StoredRows DEF Windows!WindowsInv, Windows!TxInv
    <2>2. edit[p].id # edit[o].id
        BY <1>2, <1>10 DEF Windows!Locked
    <2>. QED  BY <1>4, <2>1, <2>2
<1>11. (\A p \in Operators : Windows!TxInv(p)') /\ Windows!LocksInv'
    BY <1>2, <1>5, <1>6, <1>10, WriteKeepsOthers
<1>12. ASSUME ~ editBeside PROVE Windows!Apart(rows)'
    <2>1. /\ Windows!Apart(rows) /\ ~ Windows!Clashes(rows, edit[o].window, edit[o].id)
          /\ edit[o].loaded = rows[edit[o].id]
        BY <1>2, <1>12 DEF Windows!WindowsInv, Windows!CheckedInv
    <2>2. /\ rows'[edit[o].id].from = edit[o].window.from
          /\ rows'[edit[o].id].to = edit[o].window.to
        BY <1>1, <1>2, <1>3, <1>4, <2>1, WrittenEffect
    <2>3. \A j \in Windows!Stored : j # edit[o].id =>
             /\ ~ Windows!Overlap(rows'[j], rows'[edit[o].id])
             /\ ~ Windows!Overlap(rows'[edit[o].id], rows'[j])
        <3>1. \A j \in Windows!Stored : j \in DOMAIN rows /\ j \in Ids /\ rows[j] # Windows!NoRow
            BY <1>1, StoredRows DEF Windows!Stored
        <3>. QED  BY <1>4, <2>1, <2>2, <3>1 DEF Windows!Clashes, Windows!Overlap
    <2>4. \A i, j \in Windows!Stored : i # j /\ i # edit[o].id /\ j # edit[o].id =>
             ~ Windows!Overlap(rows'[i], rows'[j])
        BY <1>1, <1>4, <2>1, StoredRows DEF Windows!Apart, Windows!Stored
    <2>5. \A i \in DOMAIN rows' : rows'[i] # Windows!NoRow => i \in Windows!Stored
        BY <1>4
    <2>. QED  BY <2>3, <2>4, <2>5 DEF Windows!Apart
<1>13. ASSUME ~ editBeside, NEW p \in Operators PROVE Windows!CheckedInv(p)'
    <2>1. \A q \in Operators \ {o} : edit[q].pc = "idle"
        BY <1>2, <1>13 DEF Windows!WindowsInv, Windows!CheckedInv, Windows!Busy
    <2>2. edit'[p].pc = "idle"
        BY <1>1, <1>2, <2>1, FreeTx DEF Windows!TypeOK
    <2>. QED  BY <2>2 DEF Windows!CheckedInv
<1>. QED  BY <1>2, <1>5, <1>9, <1>11, <1>12, <1>13 DEF Windows!WindowsInv

LEMMA WindowsStep == Windows!WindowsInv /\ [Windows!Next]_windowVars => Windows!WindowsInv'
<1>. SUFFICES ASSUME Windows!WindowsInv, [Windows!Next]_windowVars PROVE Windows!WindowsInv'
    OBVIOUS
<1>1. CASE UNCHANGED windowVars
    <2>1. rows' = rows /\ edit' = edit /\ editBeside' = editBeside
        BY <1>1 DEF windowVars
    <2>2. \A o \in Operators : Windows!TxInv(o)' <=> Windows!TxInv(o)
        BY <2>1, BystanderKeeps
    <2>3. Windows!TableInv' <=> Windows!TableInv
        BY <2>1 DEF Windows!TableInv, Windows!Stored, Windows!Current
    <2>4. \A o \in Operators : Windows!CheckedInv(o)' <=> Windows!CheckedInv(o)
        BY <2>1, BystanderKeeps DEF Windows!CheckedInv, Windows!Busy, Windows!Clashes
    <2>. QED  BY <2>1, <2>2, <2>3, <2>4 DEF Windows!WindowsInv, Windows!TypeOK, Windows!LocksInv,
                                             Windows!Apart
<1>2. CASE Windows!Next
    BY <1>2, BeginCreateKeeps, CloseKeeps, InsertKeeps, BeginUpdateKeeps, UpdateKeeps,
       WindowsRollBackKeeps DEF Windows!Next, Ids
<1>. QED  BY <1>1, <1>2

LEMMA WindowsInvImplies == Windows!WindowsInv => OneWindowAtATime
<1>. SUFFICES ASSUME Windows!WindowsInv PROVE OneWindowAtATime
    OBVIOUS
<1>1. Windows!TypeOK /\ Windows!Unique(rows)
    BY DEF Windows!WindowsInv, Windows!TableInv
<1>2. Cardinality(Windows!Current) <= 1
    <2>1. Windows!Current \in SUBSET (1..MaxRows)
        BY <1>1, StoredRows DEF Ids
    <2>2. \A i, j \in Windows!Current : i = j
        BY <1>1, StoredRows DEF Windows!Unique
    <2>. QED  BY <2>1, <2>2, AtMostOne, WindowBounds
<1>3. ASSUME ~ editBeside, NEW t \in Windows!Times PROVE Cardinality(Windows!Applicable(t)) <= 1
    <2>1. Windows!Applicable(t) \in SUBSET (1..MaxRows)
        BY <1>1, StoredRows DEF Windows!Applicable, Ids
    <2>2. ASSUME NEW i \in Windows!Applicable(t), NEW j \in Windows!Applicable(t), i # j
          PROVE  FALSE
        <3>1. /\ i \in Windows!Stored /\ j \in Windows!Stored
              /\ rows[i].from <= t /\ t < rows[i].to /\ rows[j].from <= t /\ t < rows[j].to
            BY DEF Windows!Applicable
        <3>2. rows[i] \in Unchecked /\ rows[j] \in Unchecked /\ t \in Nat
            BY <1>1, <3>1, StoredRows, RowTypes, WindowBounds DEF Windows!Times
        <3>3. Windows!Overlap(rows[i], rows[j])
            BY <3>1, <3>2, RowFields DEF Windows!Overlap
        <3>. QED  BY <1>3, <2>2, <3>1, <3>3 DEF Windows!WindowsInv, Windows!Apart, Windows!Stored
    <2>. QED  BY <2>1, <2>2, AtMostOne, WindowBounds
<1>. QED  BY <1>1, <1>2, <1>3, SameCount DEF OneWindowAtATime, Windows!OneWindowAtATime

(* In every execution of the windows one row of a service point is current,   *)
(* and as long as no edit runs beside another transaction no two windows      *)
(* overlap: of creations that overlap, the lock of the row they close and the *)
(* unique index leave one, and that one has compared itself with all rows.    *)
THEOREM WindowsStayApart == Windows!Spec => []OneWindowAtATime
<1>1. Windows!Spec => Windows!Init /\ [][Windows!Next]_windowVars
    BY PTL DEF Windows!Spec, Windows!vars, windowVars
<1>. QED  BY <1>1, WindowsInit, WindowsStep, WindowsInvImplies, PTL

--------------------------------------------------------------------------------
(* The registry: types. *)

LEMMA FreeRegistryTx ==
    /\ Free \in TxType /\ Free.pc = "idle" /\ Free.change = NoChange /\ NoChange.what = "none"
    /\ Free.id = 0 /\ Free.synced = FALSE /\ Free.opens = {} /\ Free.closes = {}
BY DEF Free, TxType, ChangeType, NoChange

LEMMA ChangeKinds ==
    ASSUME NEW c \in ChangeType
    PROVE  /\ c.what = "none" => c = NoChange
           /\ c.what = "device" => /\ c.device \in Devices /\ c.value \in Device
                                   /\ c.loaded \in Device \cup {Absent}
           /\ c.what = "component" => /\ c.id \in Components
                                      /\ c.loaded \in Component /\ c.value \in Component
           /\ c.what = "install" => c.value \in Installation
           /\ c.what = "reinstall" => /\ c.id \in 1..MaxInstallations
                                      /\ c.loaded \in Installation /\ c.value \in Installation
           /\ c.what = "import" => c.value \in SUBSET Listed /\ c.code \in SourceSystems
           /\ c.what = "recode" => c.value \in SourceSystems
           /\ c.what \in {"none", "device", "component", "install", "reinstall", "import",
                          "recode"}
<1>1. CASE c = NoChange
    BY <1>1 DEF NoChange
<1>2. CASE c \in [what : {"device"}, device : Devices, loaded : Device \cup {Absent},
                  value : Device, system : SourceSystems]
    BY <1>2
<1>3. CASE c \in [what : {"component"}, id : Components, loaded : Component,
                  value : Component, system : SourceSystems]
    BY <1>3
<1>4. CASE c \in [what : {"install"}, value : Installation, system : SourceSystems]
    BY <1>4
<1>5. CASE c \in [what : {"reinstall"}, id : 1..MaxInstallations, loaded : Installation,
                  value : Installation, system : SourceSystems]
    BY <1>5
<1>6. CASE c \in [what : {"import"}, value : SUBSET Listed, code : SourceSystems]
    BY <1>6
<1>7. CASE c \in [what : {"recode"}, value : SourceSystems]
    BY <1>7
<1>. QED  BY <1>1, <1>2, <1>3, <1>4, <1>5, <1>6, <1>7 DEF ChangeType

(* The rows a change leaves.                                                 *)
LEMMA AppliedEffect ==
    ASSUME NEW D \in DataType, NEW c \in ChangeType, IsThere(D, c)
    PROVE  LET E == Applied(D, c)
               old == D.installations
           IN
           /\ E \in DataType
           /\ \A d \in Devices : D.device[d] # Absent => E.device[d] # Absent
           /\ c.what # "import" => E.references = D.references
           /\ c.what # "recode" => E.hes_code = D.hes_code
           /\ c.what = "install" => E.installations = Append(old, c.value)
           /\ c.what = "reinstall" =>
                 /\ DOMAIN E.installations = DOMAIN old
                 /\ \A i \in DOMAIN old : i # c.id => E.installations[i] = old[i]
                 /\ c.loaded = old[c.id] => E.installations[c.id] = c.value
           /\ c.what \notin {"install", "reinstall"} => E.installations = old
           /\ Len(E.installations) >= Len(old)
<1>1. /\ D.hes_code \in SourceSystems /\ D.device \in [Devices -> Device \cup {Absent}]
      /\ D.component \in [Components -> Component]
      /\ D.installations \in Seq(Installation) /\ D.references \in SUBSET Listed
    BY DEF DataType
<1>2. CASE c.what = "none"
    BY <1>2 DEF Applied
<1>3. CASE c.what = "device"
    <2>1. /\ c.device \in Devices /\ c.value \in Device /\ c.loaded \in Device \cup {Absent}
          /\ D.device[c.device] \in Device \cup {Absent}
          /\ c.loaded # Absent => D.device[c.device] # Absent
        BY <1>1, <1>3, ChangeKinds DEF IsThere
    <2>2. PICK v \in Device :
             v = [system |-> Flushed(D.device[c.device].system, c.loaded.system, c.value.system),
                  meter |-> Flushed(D.device[c.device].meter, c.loaded.meter, c.value.meter)]
        <3>. DEFINE v == [system |-> Flushed(D.device[c.device].system, c.loaded.system,
                                             c.value.system),
                          meter |-> Flushed(D.device[c.device].meter, c.loaded.meter,
                                            c.value.meter)]
        <3>1. v.meter \in BOOLEAN
            BY <2>1 DEF Flushed, Device, Absent
        <3>2. CASE c.loaded = Absent
            <4>1. v.system = c.value.system
                BY <2>1, <3>2, RegistryAssumption DEF Flushed, Device, Absent
            <4>2. v \in Device
                BY <2>1, <3>1, <4>1 DEF Device
            <4>. QED  BY <4>2
        <3>3. CASE c.loaded # Absent
            <4>1. D.device[c.device] \in Device
                BY <2>1, <3>3
            <4>2. v.system \in SourceSystems
                BY <2>1, <4>1 DEF Flushed, Device
            <4>3. v \in Device
                BY <3>1, <4>2 DEF Device
            <4>. QED  BY <4>3
        <3>. QED  BY <3>2, <3>3
    <2>3. v # Absent
        BY RegistryAssumption DEF Device, Absent
    <2>4. PICK f \in [Devices -> Device \cup {Absent}] : f = [D.device EXCEPT ![c.device] = v]
        BY <1>1, <2>1
    <2>5. \A d \in Devices : D.device[d] # Absent => f[d] # Absent
        BY <1>1, <2>1, <2>3, <2>4
    <2>6. Applied(D, c) = [D EXCEPT !.device = f]
        BY <1>3, <2>2, <2>4 DEF Applied
    <2>. QED  BY <1>1, <1>3, <2>5, <2>6 DEF DataType
<1>4. CASE c.what = "component"
    <2>1. /\ c.id \in Components /\ c.value \in Component /\ c.loaded \in Component
          /\ D.component[c.id] \in Component
        BY <1>1, <1>4, ChangeKinds
    <2>2. PICK v \in Component :
             v = [device |-> Flushed(D.component[c.id].device, c.loaded.device, c.value.device),
                  active |-> Flushed(D.component[c.id].active, c.loaded.active, c.value.active)]
        <3>. DEFINE v == [device |-> Flushed(D.component[c.id].device, c.loaded.device,
                                             c.value.device),
                          active |-> Flushed(D.component[c.id].active, c.loaded.active,
                                             c.value.active)]
        <3>1. v \in Component
            BY <2>1 DEF Flushed, Component
        <3>. QED  BY <3>1
    <2>3. PICK f \in [Components -> Component] : f = [D.component EXCEPT ![c.id] = v]
        BY <1>1, <2>1
    <2>4. Applied(D, c) = [D EXCEPT !.component = f]
        BY <1>4, <2>2, <2>3 DEF Applied
    <2>. QED  BY <1>1, <1>4, <2>4 DEF DataType
<1>5. CASE c.what = "install"
    <2>1. c.value \in Installation
        BY <1>5, ChangeKinds
    <2>2. PICK q \in Seq(Installation) : q = Append(D.installations, c.value)
        <3>1. Append(D.installations, c.value) \in Seq(Installation)
            BY <1>1, <2>1
        <3>. QED  BY <3>1
    <2>3. Applied(D, c) = [D EXCEPT !.installations = q]
        BY <1>5, <2>2 DEF Applied
    <2>4. Len(q) >= Len(D.installations)
        BY <1>1, <2>1, <2>2
    <2>. QED  BY <1>1, <1>5, <2>2, <2>3, <2>4 DEF DataType
<1>6. CASE c.what = "reinstall"
    <2>1. c.value \in Installation /\ c.loaded \in Installation /\ c.id \in DOMAIN D.installations
        BY <1>6, ChangeKinds DEF IsThere
    <2>2. D.installations[c.id] \in Installation
        BY <1>1, <2>1
    <2>3. PICK v \in Installation :
             /\ v = [device |-> Flushed(D.installations[c.id].device, c.loaded.device, c.value.device),
                     open |-> Flushed(D.installations[c.id].open, c.loaded.open, c.value.open)]
             /\ c.loaded = D.installations[c.id] => v = c.value
        <3>. DEFINE v == [device |-> Flushed(D.installations[c.id].device, c.loaded.device,
                                             c.value.device),
                          open |-> Flushed(D.installations[c.id].open, c.loaded.open,
                                           c.value.open)]
        <3>1. v \in Installation
            BY <2>1, <2>2 DEF Flushed, Installation
        <3>2. c.loaded = D.installations[c.id] => v = c.value
            BY <2>1, <2>2 DEF Flushed, Installation
        <3>. QED  BY <3>1, <3>2
    <2>4. PICK q \in Seq(Installation) :
             /\ q = [D.installations EXCEPT ![c.id] = v]
             /\ DOMAIN q = DOMAIN D.installations /\ Len(q) = Len(D.installations)
        <3>. DEFINE q == [D.installations EXCEPT ![c.id] = v]
        <3>1. q \in Seq(Installation) /\ Len(q) = Len(D.installations)
            BY <1>1, <2>1, ExceptSeq
        <3>2. DOMAIN q = DOMAIN D.installations
            OBVIOUS
        <3>. QED  BY <3>1, <3>2
    <2>5. Applied(D, c) = [D EXCEPT !.installations = q]
        BY <1>6, <2>3, <2>4 DEF Applied
    <2>6. Len(q) >= Len(D.installations)
        BY <1>1, <2>4
    <2>. QED  BY <1>1, <1>6, <2>1, <2>3, <2>4, <2>5, <2>6 DEF DataType
<1>7. CASE c.what = "import"
    <2>1. PICK R \in SUBSET Listed : R = D.references \cup c.value
        BY <1>1, <1>7, ChangeKinds
    <2>2. Applied(D, c) = [D EXCEPT !.references = R]
        BY <1>7, <2>1 DEF Applied
    <2>. QED  BY <1>1, <1>7, <2>2 DEF DataType
<1>8. CASE c.what = "recode"
    <2>1. PICK h \in SourceSystems : h = c.value
        BY <1>8, ChangeKinds
    <2>2. Applied(D, c) = [D EXCEPT !.hes_code = h]
        BY <1>8, <2>1 DEF Applied
    <2>. QED  BY <1>1, <1>8, <2>2 DEF DataType
<1>. QED  BY <1>2, <1>3, <1>4, <1>5, <1>6, <1>7, <1>8, ChangeKinds

(* A synchronisation sees master data, and when the head-end system is as it  *)
(* was loaded, the master data its transaction leaves.                        *)
LEMMA ComparedData ==
    ASSUME RegistryInv, NEW c \in ChangeType, IsThere(data, c)
    PROVE  /\ Seen(c) \in DataType
           /\ c.what # "import" \/ c.code = data.hes_code => Seen(c) = Applied(data, c)
<1>1. /\ Applied(data, c) \in DataType
      /\ c.what = "import" => Applied(data, c).hes_code = data.hes_code
    <2>1. data \in DataType
        BY DEF RegistryInv, TypeOK
    <2>. QED  BY <2>1, AppliedEffect
<1>2. CASE c.what # "import"
    BY <1>1, <1>2 DEF Seen
<1>3. CASE c.what = "import"
    <2>1. PICK E \in DataType : E = Applied(data, c) /\ E.hes_code = data.hes_code
        BY <1>1, <1>3
    <2>2. PICK h \in SourceSystems : h = c.code
        BY <1>3, ChangeKinds
    <2>3. Seen(c) = [E EXCEPT !.hes_code = h]
        BY <1>3, <2>1, <2>2 DEF Seen
    <2>4. [E EXCEPT !.hes_code = h] \in DataType
        BY DEF DataType
    <2>5. E.hes_code = h => [E EXCEPT !.hes_code = h] = E
        BY DEF DataType
    <2>. QED  BY <1>3, <2>1, <2>2, <2>3, <2>4, <2>5
<1>. QED  BY <1>2, <1>3

LEMMA ComparedType ==
    ASSUME NEW D \in DataType, alerts \in Seq(Alert)
    PROVE  /\ Keys(D) \in SUBSET [meter : Listed, code : Codes]
           /\ ToOpen(D) \in SUBSET [meter : Listed, code : Codes]
           /\ ToClose(D) \in SUBSET Nat
<1>1. Keys(D) \in SUBSET [meter : Listed, code : Codes]
    BY DEF Keys, DataType
<1>2. DOMAIN alerts \subseteq Nat
    OBVIOUS
<1>. QED  BY <1>1, <1>2 DEF ToOpen, ToClose, Wanted, Resolved, Active

--------------------------------------------------------------------------------
(* The registry: what each step does. *)

LEMMA StartEffect ==
    ASSUME RegistryInv, NEW o \in Operators, NEW t \in TxType, Start(o, t)
    PROVE  /\ tx[o].pc = "idle" /\ UNCHANGED <<data, alerts>>
           /\ settled' = (settled /\ OthersIdle(o)) /\ settled' \in BOOLEAN
           /\ tx' \in [Operators -> TxType]
           /\ tx'[o].pc = t.pc /\ tx'[o].change = t.change /\ tx'[o].id = t.id
           /\ tx'[o].synced = t.synced /\ tx'[o].opens = t.opens /\ tx'[o].closes = t.closes
           /\ tx'[o].alone = (t.pc = "write" /\ OthersIdle(o))
           /\ \A p \in Operators \ {o} :
                 /\ tx'[p].pc = tx[p].pc /\ tx'[p].change = tx[p].change /\ tx'[p].id = tx[p].id
                 /\ IF tx[p].pc = "idle" THEN tx'[p] = tx[p] ELSE ~ tx'[p].alone
<1>. DEFINE busy == {p \in Operators : tx[p].pc # "idle"}
<1>1. /\ tx[o].pc = "idle" /\ UNCHANGED <<data, alerts>>
      /\ settled' = (settled /\ busy = {})
      /\ tx' = [p \in Operators |->
                    IF p = o THEN [t EXCEPT !.alone = (t.pc = "write" /\ busy = {})]
                    ELSE IF p \in busy THEN [tx[p] EXCEPT !.alone = FALSE] ELSE tx[p]]
    BY DEF Start
<1>2. tx \in [Operators -> TxType] /\ settled \in BOOLEAN
    BY DEF RegistryInv, TypeOK
<1>3. (busy = {}) <=> OthersIdle(o)
    BY <1>1 DEF OthersIdle
<1>4. PICK b \in BOOLEAN : b = (t.pc = "write" /\ busy = {})
    OBVIOUS
<1>5. PICK u \in TxType :
         /\ u = [t EXCEPT !.alone = b] /\ u.pc = t.pc /\ u.change = t.change /\ u.id = t.id
         /\ u.synced = t.synced /\ u.opens = t.opens /\ u.closes = t.closes /\ u.alone = b
    <2>1. [t EXCEPT !.alone = b] \in TxType
        BY DEF TxType
    <2>2. PICK u \in TxType : u = [t EXCEPT !.alone = b]
        BY <2>1
    <2>3. /\ u.pc = t.pc /\ u.change = t.change /\ u.id = t.id /\ u.alone = b
          /\ u.synced = t.synced /\ u.opens = t.opens /\ u.closes = t.closes
        BY <2>2 DEF TxType
    <2>. QED  BY <2>2, <2>3
<1>6. tx'[o] = u
    BY <1>1, <1>4, <1>5
<1>7. ASSUME NEW p \in Operators \ {o}
      PROVE  /\ tx'[p] \in TxType
             /\ tx'[p].pc = tx[p].pc /\ tx'[p].change = tx[p].change /\ tx'[p].id = tx[p].id
             /\ IF tx[p].pc = "idle" THEN tx'[p] = tx[p] ELSE ~ tx'[p].alone
    <2>1. CASE tx[p].pc = "idle"
        BY <1>1, <1>2, <2>1
    <2>2. CASE tx[p].pc # "idle"
        <3>1. PICK v \in TxType : v = tx[p]
            BY <1>2
        <3>2. tx'[p] = [v EXCEPT !.alone = FALSE]
            BY <1>1, <2>2, <3>1
        <3>. QED  BY <2>2, <3>1, <3>2 DEF TxType
    <2>. QED  BY <2>1, <2>2
<1>8. tx' \in [Operators -> TxType]
    <2>1. \A p \in Operators : tx'[p] \in TxType
        BY <1>6, <1>7
    <2>2. tx' = [p \in Operators |-> tx'[p]]
        BY <1>1
    <2>. QED  BY <2>1, <2>2
<1>. HIDE DEF busy
<1>. QED  BY <1>1, <1>2, <1>3, <1>4, <1>5, <1>6, <1>7, <1>8

(* A change of master data begins.                                           *)
LEMMA ChangeEffect ==
    ASSUME RegistryInv, NEW o \in Operators, NEW c \in ChangeType, Change(o, c)
    PROVE  \E t \in TxType : /\ t.pc = "write" /\ t.change = c /\ Start(o, t)
                            /\ t.synced = FALSE /\ t.opens = {} /\ t.closes = {}
<1>1. PICK f \in TxType : f = Free
    BY FreeRegistryTx
<1>2. [f EXCEPT !.pc = "write", !.change = c] \in TxType
    BY DEF TxType
<1>3. PICK t \in TxType : t = [f EXCEPT !.pc = "write", !.change = c]
    BY <1>2
<1>4. /\ t.pc = "write" /\ t.change = c
      /\ t.synced = f.synced /\ t.opens = f.opens /\ t.closes = f.closes
    BY <1>3 DEF TxType
<1>5. Start(o, t)
    BY <1>1, <1>3 DEF Change
<1>. QED  BY <1>1, <1>4, <1>5, FreeRegistryTx

(* The transaction of one who acknowledges or closes an alert.               *)
ByHand(pc, i) == [Free EXCEPT !.pc = pc, !.id = i]

LEMMA HandRecord ==
    ASSUME NEW i \in Nat, NEW pc \in {"acknowledge", "close"}
    PROVE  \E t \in TxType : /\ t = ByHand(pc, i)
                            /\ t.pc = pc /\ t.change = NoChange /\ t.id = i
<1>1. PICK f \in TxType : f = Free
    BY FreeRegistryTx
<1>2. [f EXCEPT !.pc = pc, !.id = i] \in TxType
    BY DEF TxType
<1>3. PICK t \in TxType : t = [f EXCEPT !.pc = pc, !.id = i]
    BY <1>2
<1>4. t.pc = pc /\ t.id = i /\ t.change = f.change
    BY <1>3 DEF TxType
<1>. QED  BY <1>1, <1>3, <1>4, FreeRegistryTx DEF ByHand

(* The beginnings of a change, in one.                                       *)
BeginsChange(o, c) ==
    /\ c \in ChangeType /\ Change(o, c) /\ IsThere(data, c)
    /\ c.what = "import" => c.code = data.hes_code
    /\ c.what = "install" => MayOpen(0, c.value)
    /\ c.what = "reinstall" => MayOpen(c.id, c.value) /\ c.loaded = data.installations[c.id]
    /\ installedBeside' = IF c.what \in {"install", "reinstall"}
                          THEN installedBeside \/ BusyInstalling(o) ELSE installedBeside

LEMMA Beginnings ==
    ASSUME RegistryInv, NEW o \in Operators,
           \/ \E d \in Devices, v \in Device : BeginDevice(o, d, v)
           \/ \E k \in Components, v \in Component, h \in SourceSystems :
                  BeginComponent(o, k, v, h)
           \/ \E v \in Installation : BeginInstall(o, v)
           \/ \E i \in 1..MaxInstallations, v \in Installation : BeginReinstall(o, i, v)
           \/ \E M \in SUBSET Listed : BeginImport(o, M)
           \/ \E h \in SourceSystems : BeginRecode(o, h)
    PROVE  \E c : BeginsChange(o, c)
<1>0. /\ data.device \in [Devices -> Device \cup {Absent}] /\ data.hes_code \in SourceSystems
      /\ data.component \in [Components -> Component]
      /\ data.installations \in Seq(Installation)
      /\ \A d \in Devices : data.device[d] # Absent => data.device[d].system \in SourceSystems
    BY DEF RegistryInv, TypeOK, DataType, Device
<1>1. ASSUME NEW d \in Devices, NEW v \in Device, BeginDevice(o, d, v)
      PROVE  BeginsChange(o, [what |-> "device", device |-> d, loaded |-> data.device[d],
                              value |-> v, system |-> v.system])
    <2>1. v.system \in SourceSystems
        BY DEF Device
    <2>2. [what |-> "device", device |-> d, loaded |-> data.device[d], value |-> v,
           system |-> v.system] \in ChangeType
        BY <1>0, <2>1 DEF ChangeType
    <2>. QED  BY <1>1, <2>2 DEF BeginDevice, BeginsChange, IsThere
<1>2. ASSUME NEW k \in Components, NEW v \in Component, NEW h \in SourceSystems,
             BeginComponent(o, k, v, h)
      PROVE  BeginsChange(o, [what |-> "component", id |-> k, loaded |-> data.component[k],
                              value |-> v, system |-> h])
    <2>1. [what |-> "component", id |-> k, loaded |-> data.component[k], value |-> v,
           system |-> h] \in ChangeType
        BY <1>0 DEF ChangeType
    <2>. QED  BY <1>2, <2>1 DEF BeginComponent, BeginsChange, IsThere
<1>3. ASSUME NEW v \in Installation, BeginInstall(o, v)
      PROVE  BeginsChange(o, [what |-> "install", value |-> v,
                              system |-> data.device[v.device].system])
    <2>1. data.device[v.device].system \in SourceSystems
        BY <1>0, <1>3 DEF BeginInstall, Installation
    <2>2. [what |-> "install", value |-> v, system |-> data.device[v.device].system]
             \in ChangeType
        BY <2>1 DEF ChangeType
    <2>. QED  BY <1>3, <2>2 DEF BeginInstall, BeginsChange, IsThere
<1>4. ASSUME NEW i \in 1..MaxInstallations, NEW v \in Installation, BeginReinstall(o, i, v)
      PROVE  BeginsChange(o, [what |-> "reinstall", id |-> i, loaded |-> data.installations[i],
                              value |-> v, system |-> data.device[v.device].system])
    <2>1. i \in DOMAIN data.installations /\ data.installations[i] \in Installation
        BY <1>0, <1>4 DEF BeginReinstall
    <2>2. data.device[v.device].system \in SourceSystems
        BY <1>0, <1>4 DEF BeginReinstall, Installation
    <2>3. [what |-> "reinstall", id |-> i, loaded |-> data.installations[i], value |-> v,
           system |-> data.device[v.device].system] \in ChangeType
        BY <2>1, <2>2 DEF ChangeType
    <2>. QED  BY <1>4, <2>1, <2>3 DEF BeginReinstall, BeginsChange, IsThere
<1>5. ASSUME NEW M \in SUBSET Listed, BeginImport(o, M)
      PROVE  BeginsChange(o, [what |-> "import", value |-> M, code |-> data.hes_code])
    <2>1. [what |-> "import", value |-> M, code |-> data.hes_code] \in ChangeType
        BY <1>0 DEF ChangeType
    <2>. QED  BY <1>5, <2>1 DEF BeginImport, BeginsChange, IsThere
<1>6. ASSUME NEW h \in SourceSystems, BeginRecode(o, h)
      PROVE  BeginsChange(o, [what |-> "recode", value |-> h])
    <2>1. [what |-> "recode", value |-> h] \in ChangeType
        BY DEF ChangeType
    <2>. QED  BY <1>6, <2>1 DEF BeginRecode, BeginsChange, IsThere
<1>. QED  BY <1>1, <1>2, <1>3, <1>4, <1>5, <1>6

(* The elements of a finite set in some order.                               *)
LEMMA InSomeOrder ==
    ASSUME NEW S, IsFiniteSet(S)
    PROVE  LET q == SetToSeq(S) IN
           /\ q \in Seq(S)
           /\ \A x \in S : \E i \in 1..Len(q) : q[i] = x
<1>1. Cardinality(S) \in Nat /\ ExistsBijection(1..Cardinality(S), S)
    BY FS_CardinalityType
<1>2. \E f \in [1..Cardinality(S) -> S] : IsInjective(f)
    BY <1>1 DEF ExistsBijection, Bijection, Injection
<1>3. PICK q \in [1..Cardinality(S) -> S] : q = SetToSeq(S) /\ IsInjective(q)
    BY <1>2 DEF SetToSeq
<1>4. q \in Seq(S) /\ Len(q) = Cardinality(S)
    BY <1>1, <1>3
<1>5. q \in Surjection(1..Cardinality(S), S)
    <2>1. q \in Injection(1..Cardinality(S), S)
        BY <1>3 DEF Injection
    <2>2. Cardinality(1..Cardinality(S)) = Cardinality(S)
        BY <1>1, FS_Interval
    <2>. QED  BY <2>1, <2>2, FS_Injection
<1>6. \A x \in S : \E i \in 1..Len(q) : q[i] = x
    BY <1>4, <1>5 DEF Surjection
<1>. QED  BY <1>3, <1>4, <1>6

LEMMA CompareEffect ==
    ASSUME RegistryInv, NEW o \in Operators, Compare(o) \/ PassOver(o)
    PROVE  \E u \in TxType :
              /\ tx[o].pc = "write" /\ UNCHANGED <<data, alerts, settled, installedBeside>>
              /\ tx' = [tx EXCEPT ![o] = u]
              /\ u.pc = "compared" /\ u.change = tx[o].change /\ u.alone = tx[o].alone
              /\ u.id = tx[o].id
              /\ \/ /\ u.synced
                    /\ u.opens = ToOpen(Seen(u.change))
                    /\ u.closes = ToClose(Seen(u.change))
                 \/ /\ u.synced = tx[o].synced /\ u.change.what # "import"
                    /\ u.opens = tx[o].opens /\ u.closes = tx[o].closes
<1>1. PICK t \in TxType : t = tx[o]
    BY DEF RegistryInv, TypeOK
<1>2. ASSUME PassOver(o)
      PROVE  \E u \in TxType :
                /\ tx' = [tx EXCEPT ![o] = u]
                /\ u.pc = "compared" /\ u.change = t.change /\ u.alone = t.alone /\ u.id = t.id
                /\ u.synced = t.synced /\ u.change.what # "import"
                /\ u.opens = t.opens /\ u.closes = t.closes
    <2>1. [t EXCEPT !.pc = "compared"] \in TxType
        BY DEF TxType
    <2>2. PICK u \in TxType : u = [t EXCEPT !.pc = "compared"]
        BY <2>1
    <2>3. /\ u.pc = "compared" /\ u.change = t.change /\ u.alone = t.alone /\ u.id = t.id
          /\ u.synced = t.synced /\ u.opens = t.opens /\ u.closes = t.closes
        BY <2>2 DEF TxType
    <2>4. tx' = [tx EXCEPT ![o] = u]
        BY <1>1, <1>2, <2>2 DEF PassOver
    <2>5. t.change.what # "import"
        BY <1>1, <1>2 DEF PassOver, Synchronises
    <2>. QED  BY <2>3, <2>4, <2>5
<1>3. ASSUME Compare(o)
      PROVE  \E u \in TxType :
                /\ tx' = [tx EXCEPT ![o] = u]
                /\ u.pc = "compared" /\ u.change = t.change /\ u.alone = t.alone /\ u.id = t.id
                /\ u.synced /\ u.opens = ToOpen(Seen(u.change))
                /\ u.closes = ToClose(Seen(u.change))
    <2>1. PICK D \in DataType : D = Seen(t.change)
        <3>1. t.change \in ChangeType /\ IsThere(data, t.change)
            BY <1>1 DEF RegistryInv, RowsInv, TxType
        <3>2. Seen(t.change) \in DataType
            BY <3>1, ComparedData
        <3>. QED  BY <3>2
    <2>2. ToOpen(D) \in SUBSET [meter : Listed, code : Codes] /\ ToClose(D) \in SUBSET Nat
        BY ComparedType DEF RegistryInv, TypeOK
    <2>3. [t EXCEPT !.pc = "compared", !.synced = TRUE, !.opens = ToOpen(D),
                    !.closes = ToClose(D)] \in TxType
        BY <2>2 DEF TxType
    <2>4. PICK u \in TxType :
             u = [t EXCEPT !.pc = "compared", !.synced = TRUE, !.opens = ToOpen(D),
                           !.closes = ToClose(D)]
        BY <2>3
    <2>5. /\ u.pc = "compared" /\ u.change = t.change /\ u.alone = t.alone /\ u.id = t.id
          /\ u.synced /\ u.opens = ToOpen(D) /\ u.closes = ToClose(D)
        BY <2>2, <2>4 DEF TxType
    <2>6. tx' = [tx EXCEPT ![o] = u]
        BY <1>1, <1>3, <2>1, <2>4 DEF Compare
    <2>. QED  BY <2>1, <2>5, <2>6
<1>4. tx[o].pc = "write" /\ UNCHANGED <<data, alerts, settled, installedBeside>>
    BY DEF Compare, PassOver
<1>. QED  BY <1>1, <1>2, <1>3, <1>4

LEMMA CommitEffect ==
    ASSUME RegistryInv, NEW o \in Operators, Commit(o)
    PROVE  /\ tx[o].pc = "compared" /\ tx' = [tx EXCEPT ![o] = Free]
           /\ data' = Applied(data, tx[o].change)
           /\ data' \in DataType /\ Len(data'.installations) >= Len(data.installations)
           /\ \A d \in Devices : data.device[d] # Absent => data'.device[d] # Absent
           /\ tx[o].change.what # "import" => data'.references = data.references
           /\ installedBeside' = StillBeside(o, data')
           /\ settled' = IF tx[o].synced THEN settled \/ tx[o].alone
                         ELSE settled /\ Unaffected(data, data')
           /\ alerts' \in Seq(Alert) /\ Len(alerts') >= Len(alerts)
           /\ \A i \in DOMAIN alerts :
                 alerts'[i] = IF i \in tx[o].closes THEN [alerts[i] EXCEPT !.status = "closed"]
                              ELSE alerts[i]
           /\ \A i \in DOMAIN alerts' \ DOMAIN alerts :
                 \E k \in tx[o].opens : alerts'[i] = [meter |-> k.meter, code |-> k.code,
                                                      status |-> "open"]
           /\ \A k \in tx[o].opens : \E i \in DOMAIN alerts' \ DOMAIN alerts :
                 alerts'[i] = [meter |-> k.meter, code |-> k.code, status |-> "open"]
<1>1. PICK t \in TxType : t = tx[o]
    BY DEF RegistryInv, TypeOK
<1>2. /\ alerts \in Seq(Alert) /\ data \in DataType /\ t.change \in ChangeType
      /\ t.opens \in SUBSET [meter : Listed, code : Codes]
      /\ IsThere(data, t.change)
    BY <1>1 DEF RegistryInv, TypeOK, RowsInv, TxType
<1>3. IsFiniteSet(t.opens)
    <2>. DEFINE f == [x \in Listed \X Codes |-> [meter |-> x[1], code |-> x[2]]]
                T == [meter : Listed, code : Codes]
    <2>1. IsFiniteSet(Codes)
        <3>1. Codes = (({} \cup {"missing_device"}) \cup {"missing_component"})
                        \cup {"missing_installation"}
            BY DEF Codes
        <3>. QED  BY <3>1, FS_EmptySet, FS_AddElement
    <2>2. IsFiniteSet(Listed \X Codes)
        BY <2>1, FS_Product, RegistryAssumption
    <2>3. f \in [Listed \X Codes -> T]
        OBVIOUS
    <2>4. ASSUME NEW k \in T PROVE \E x \in Listed \X Codes : f[x] = k
        <3>1. <<k.meter, k.code>> \in Listed \X Codes /\ k = [meter |-> k.meter, code |-> k.code]
            OBVIOUS
        <3>. QED  BY <3>1
    <2>5. f \in Surjection(Listed \X Codes, T)
        BY <2>3, <2>4 DEF Surjection
    <2>. HIDE DEF f, T
    <2>6. IsFiniteSet(T)
        BY <2>2, <2>5, FS_Surjection
    <2>7. t.opens \in SUBSET T
        BY <1>2 DEF T
    <2>. QED  BY <2>6, <2>7, FS_Subset
<1>4. PICK q \in Seq(t.opens) : q = SetToSeq(t.opens)
                                /\ \A x \in t.opens : \E i \in 1..Len(q) : q[i] = x
    BY <1>3, InSomeOrder
<1>5. Len(alerts) \in Nat /\ Len(q) \in Nat /\ DOMAIN alerts = 1..Len(alerts)
    BY <1>2, <1>4
<1>6. /\ t.pc = "compared" /\ tx' = [tx EXCEPT ![o] = Free]
      /\ data' = Applied(data, t.change) /\ installedBeside' = StillBeside(o, data')
      /\ settled' = IF t.synced THEN settled \/ t.alone ELSE settled /\ Unaffected(data, data')
      /\ alerts' = [i \in 1..(Len(alerts) + Len(q)) |->
                    IF i > Len(alerts)
                    THEN [meter |-> q[i - Len(alerts)].meter, code |-> q[i - Len(alerts)].code,
                          status |-> "open"]
                    ELSE IF i \in t.closes THEN [alerts[i] EXCEPT !.status = "closed"]
                    ELSE alerts[i]]
    BY <1>1, <1>4 DEF Commit
<1>7. /\ data' \in DataType /\ Len(data'.installations) >= Len(data.installations)
      /\ \A d \in Devices : data.device[d] # Absent => data'.device[d] # Absent
      /\ t.change.what # "import" => data'.references = data.references
    BY <1>2, <1>6, AppliedEffect
<1>8. ASSUME NEW i \in 1..(Len(alerts) + Len(q)), i > Len(alerts)
      PROVE  /\ q[i - Len(alerts)] \in t.opens /\ alerts'[i] \in Alert
             /\ alerts'[i] = [meter |-> q[i - Len(alerts)].meter,
                              code |-> q[i - Len(alerts)].code, status |-> "open"]
    <2>1. i - Len(alerts) \in 1..Len(q)
        BY <1>5, <1>8
    <2>2. q[i - Len(alerts)] \in t.opens
        BY <1>4, <2>1
    <2>3. q[i - Len(alerts)].meter \in Listed /\ q[i - Len(alerts)].code \in Codes
        BY <1>2, <2>2
    <2>. QED  BY <1>6, <1>8, <2>2, <2>3 DEF Alert
<1>9. ASSUME NEW i \in DOMAIN alerts
      PROVE  /\ alerts'[i] = IF i \in t.closes THEN [alerts[i] EXCEPT !.status = "closed"]
                             ELSE alerts[i]
             /\ alerts'[i] \in Alert
    <2>1. i \in 1..(Len(alerts) + Len(q)) /\ ~ (i > Len(alerts))
        BY <1>5, <1>9
    <2>2. alerts[i] \in Alert
        BY <1>2, <1>9
    <2>. QED  BY <1>6, <2>1, <2>2 DEF Alert
<1>10. DOMAIN alerts' = 1..(Len(alerts) + Len(q)) /\ Len(alerts) + Len(q) \in Nat
    BY <1>5, <1>6
<1>11. ASSUME NEW i \in DOMAIN alerts' PROVE alerts'[i] \in Alert
    <2>1. i \in 1..(Len(alerts) + Len(q))
        BY <1>10
    <2>2. i > Len(alerts) \/ i \in DOMAIN alerts
        BY <1>5, <2>1
    <2>. QED  BY <1>8, <1>9, <2>1, <2>2
<1>12. alerts' \in Seq(Alert) /\ Len(alerts') = Len(alerts) + Len(q)
    <2>1. alerts' = [i \in 1..(Len(alerts) + Len(q)) |-> alerts'[i]]
        BY <1>6
    <2>2. alerts' \in [1..(Len(alerts) + Len(q)) -> Alert]
        BY <1>10, <1>11, <2>1
    <2>. QED  BY <1>10, <2>2
<1>13. \A i \in DOMAIN alerts' \ DOMAIN alerts :
           \E k \in t.opens : alerts'[i] = [meter |-> k.meter, code |-> k.code, status |-> "open"]
    BY <1>5, <1>8, <1>10
<1>14. ASSUME NEW k \in t.opens
       PROVE  \E i \in DOMAIN alerts' \ DOMAIN alerts :
                 alerts'[i] = [meter |-> k.meter, code |-> k.code, status |-> "open"]
    <2>1. PICK j \in 1..Len(q) : q[j] = k
        BY <1>4
    <2>2. /\ j + Len(alerts) \in 1..(Len(alerts) + Len(q)) /\ j + Len(alerts) > Len(alerts)
          /\ j + Len(alerts) - Len(alerts) = j
        BY <1>5
    <2>3. PICK i \in 1..(Len(alerts) + Len(q)) : i = j + Len(alerts)
        BY <2>2
    <2>4. i > Len(alerts) /\ i - Len(alerts) = j
        BY <2>2, <2>3
    <2>5. i \in DOMAIN alerts' \ DOMAIN alerts
        BY <1>5, <1>10, <2>4
    <2>6. alerts'[i] = [meter |-> k.meter, code |-> k.code, status |-> "open"]
        BY <1>8, <2>1, <2>4
    <2>. QED  BY <2>5, <2>6
<1>15. Len(alerts') >= Len(alerts)
    BY <1>5, <1>12
<1>. QED  BY <1>1, <1>6, <1>7, <1>9, <1>12, <1>13, <1>14, <1>15

LEMMA HandWrites ==
    ASSUME alerts \in Seq(Alert), NEW i \in DOMAIN alerts, NEW s \in {"acknowledged", "closed"},
           alerts' = [alerts EXCEPT ![i].status = s]
    PROVE  /\ alerts' \in Seq(Alert) /\ DOMAIN alerts' = DOMAIN alerts
           /\ alerts'[i].status = s /\ alerts'[i].meter = alerts[i].meter
           /\ alerts'[i].code = alerts[i].code
           /\ \A j \in DOMAIN alerts : j # i => alerts'[j] = alerts[j]
<1>1. PICK a \in Alert : a = alerts[i]
    OBVIOUS
<1>2. [a EXCEPT !.status = s] \in Alert
    BY DEF Alert
<1>3. PICK b \in Alert : b = [a EXCEPT !.status = s]
    BY <1>2
<1>4. b.status = s /\ b.meter = a.meter /\ b.code = a.code
    BY <1>3 DEF Alert
<1>5. alerts' = [alerts EXCEPT ![i] = b]
    BY <1>1, <1>3
<1>6. alerts' \in Seq(Alert)
    BY <1>5, ExceptSeq
<1>. QED  BY <1>1, <1>4, <1>5, <1>6

LEMMA AcknowledgeEffect ==
    ASSUME RegistryInv, NEW o \in Operators, Acknowledge(o)
    PROVE  /\ tx[o].pc = "acknowledge" /\ tx[o].id \in DOMAIN alerts
           /\ tx' = [tx EXCEPT ![o] = Free]
           /\ UNCHANGED <<data, settled, installedBeside>>
           /\ alerts' \in Seq(Alert) /\ DOMAIN alerts' = DOMAIN alerts
           /\ alerts'[tx[o].id].status = "acknowledged"
           /\ \A j \in DOMAIN alerts :
                 /\ alerts'[j].meter = alerts[j].meter /\ alerts'[j].code = alerts[j].code
                 /\ j # tx[o].id => alerts'[j] = alerts[j]
<1>1. /\ tx[o].pc = "acknowledge" /\ tx' = [tx EXCEPT ![o] = Free]
      /\ alerts' = [alerts EXCEPT ![tx[o].id].status = "acknowledged"]
      /\ UNCHANGED <<data, settled, installedBeside>>
    BY DEF Acknowledge
<1>2. PICK i \in DOMAIN alerts : i = tx[o].id
    BY <1>1 DEF RegistryInv, RowsInv
<1>3. alerts \in Seq(Alert) /\ alerts' = [alerts EXCEPT ![i].status = "acknowledged"]
    BY <1>1, <1>2 DEF RegistryInv, TypeOK
<1>. QED  BY <1>1, <1>2, <1>3, HandWrites

LEMMA CloseEffect ==
    ASSUME RegistryInv, NEW o \in Operators, Close(o)
    PROVE  /\ tx' = [tx EXCEPT ![o] = Free]
           /\ UNCHANGED <<data, installedBeside>> /\ settled' = FALSE
           /\ tx[o].pc = "close" /\ alerts' \in Seq(Alert) /\ DOMAIN alerts' = DOMAIN alerts
<1>1. /\ tx[o].pc = "close" /\ tx' = [tx EXCEPT ![o] = Free] /\ settled' = FALSE
      /\ alerts' = [alerts EXCEPT ![tx[o].id].status = "closed"]
      /\ UNCHANGED <<data, installedBeside>>
    BY DEF Close
<1>2. PICK i \in DOMAIN alerts : i = tx[o].id
    BY <1>1 DEF RegistryInv, RowsInv
<1>3. alerts \in Seq(Alert) /\ alerts' = [alerts EXCEPT ![i].status = "closed"]
    BY <1>1, <1>2 DEF RegistryInv, TypeOK
<1>. QED  BY <1>1, <1>2, <1>3, HandWrites

--------------------------------------------------------------------------------
(* The registry: types and rows. *)

LEMMA RegistryInit == Init => RegistryInv
<1>. SUFFICES ASSUME Init PROVE RegistryInv
    OBVIOUS
<1>1. data \in DataType
    <2>1. PICK h \in SourceSystems, D \in [Devices -> Device \cup {Absent}],
               C \in [Components -> [device : Devices, active : {FALSE}]] :
             data = [hes_code |-> h, device |-> D, component |-> C,
                     installations |-> <<>>, references |-> {}]
        BY DEF Init
    <2>2. <<>> \in Seq(Installation)
        OBVIOUS
    <2>3. C \in [Components -> Component]
        BY DEF Component
    <2>. QED  BY <2>1, <2>2, <2>3 DEF DataType
<1>2. alerts \in Seq(Alert) /\ settled \in BOOLEAN /\ installedBeside \in BOOLEAN
    <2>1. <<>> \in Seq(Alert)
        OBVIOUS
    <2>. QED  BY <2>1 DEF Init
<1>3. tx \in [Operators -> TxType] /\ \A o \in Operators : tx[o] = Free
    BY FreeRegistryTx DEF Init
<1>. QED  BY <1>1, <1>2, <1>3, FreeRegistryTx DEF RegistryInv, TypeOK, RowsInv, IsThere

LEMMA StartKeepsRows ==
    ASSUME RegistryInv, NEW o \in Operators, NEW t \in TxType, Start(o, t),
           installedBeside' \in BOOLEAN, IsThere(data, t.change),
           t.pc \in {"acknowledge", "close"} => t.id \in DOMAIN alerts
    PROVE  RegistryInv'
<1>1. /\ tx' \in [Operators -> TxType] /\ UNCHANGED <<data, alerts>> /\ settled' \in BOOLEAN
      /\ tx'[o].pc = t.pc /\ tx'[o].change = t.change /\ tx'[o].id = t.id
      /\ \A p \in Operators \ {o} :
            tx'[p].pc = tx[p].pc /\ tx'[p].change = tx[p].change /\ tx'[p].id = tx[p].id
    BY StartEffect
<1>. QED  BY <1>1 DEF RegistryInv, TypeOK, RowsInv

(* A transaction ends, or goes on with what it has found.                     *)
LEMMA EndKeepsRows ==
    ASSUME RegistryInv, NEW o \in Operators, NEW u \in TxType, tx' = [tx EXCEPT ![o] = u],
           u = Free \/ (u.pc = "compared" /\ u.change = tx[o].change),
           data' \in DataType, Len(data'.installations) >= Len(data.installations),
           \A d \in Devices : data.device[d] # Absent => data'.device[d] # Absent,
           alerts' \in Seq(Alert), Len(alerts') >= Len(alerts),
           settled' \in BOOLEAN, installedBeside' \in BOOLEAN
    PROVE  RegistryInv'
<1>1. TypeOK'
    BY DEF RegistryInv, TypeOK
<1>2. DOMAIN data.installations \subseteq DOMAIN data'.installations
    <2>1. data.installations \in Seq(Installation) /\ data'.installations \in Seq(Installation)
        BY DEF RegistryInv, TypeOK, DataType
    <2>2. Len(data.installations) \in Nat /\ Len(data'.installations) \in Nat
        BY <2>1
    <2>. QED  BY <2>1, <2>2
<1>3. DOMAIN alerts \subseteq DOMAIN alerts'
    <2>1. alerts \in Seq(Alert) /\ Len(alerts) \in Nat /\ Len(alerts') \in Nat
        BY DEF RegistryInv, TypeOK
    <2>. QED  BY <2>1
<1>4. \A p \in Operators : tx'[p] = IF p = o THEN u ELSE tx[p]
    BY DEF RegistryInv, TypeOK
<1>5. ASSUME NEW c \in ChangeType, IsThere(data, c) PROVE IsThere(data', c)
    BY <1>2, <1>5, ChangeKinds DEF IsThere
<1>6. IsThere(data', Free.change)
    BY FreeRegistryTx DEF IsThere
<1>7. \A p \in Operators : tx[p].change \in ChangeType
    BY DEF RegistryInv, TypeOK, TxType
<1>. QED  BY <1>1, <1>3, <1>4, <1>5, <1>6, <1>7, FreeRegistryTx DEF RegistryInv, RowsInv

LEMMA RegistryStep == RegistryInv /\ [Next]_vars => RegistryInv'
<1>. SUFFICES ASSUME RegistryInv, [Next]_vars PROVE RegistryInv'
    OBVIOUS
<1>1. /\ data \in DataType /\ Len(data.installations) \in Nat /\ alerts \in Seq(Alert)
      /\ Len(alerts) \in Nat /\ settled \in BOOLEAN /\ installedBeside \in BOOLEAN
      /\ tx \in [Operators -> TxType]
    BY DEF RegistryInv, TypeOK, DataType
<1>2. ASSUME NEW o \in Operators, NEW c, BeginsChange(o, c) PROVE RegistryInv'
    <2>1. PICK t \in TxType : t.pc = "write" /\ t.change = c /\ Start(o, t)
        BY <1>2, ChangeEffect DEF BeginsChange
    <2>2. installedBeside' \in BOOLEAN
        BY <1>1, <1>2 DEF BeginsChange, BusyInstalling
    <2>. QED  BY <1>2, <2>1, <2>2, StartKeepsRows DEF BeginsChange
<1>3. ASSUME NEW o \in Operators, NEW i \in 1..MaxAlerts,
             BeginAcknowledge(o, i) \/ BeginClose(o, i)
      PROVE  RegistryInv'
    <2>1. PICK pc \in {"acknowledge", "close"} :
             i \in DOMAIN alerts /\ Start(o, ByHand(pc, i))
             /\ installedBeside' = installedBeside
        BY <1>3 DEF BeginAcknowledge, BeginClose, ByHand
    <2>2. PICK t \in TxType : /\ t = ByHand(pc, i)
                              /\ t.pc = pc /\ t.change = NoChange /\ t.id = i
        <3>1. i \in Nat
            BY RegistryAssumption
        <3>. QED  BY <3>1, HandRecord
    <2>3. Start(o, t) /\ IsThere(data, t.change)
        BY <2>1, <2>2, FreeRegistryTx DEF IsThere
    <2>. QED  BY <1>1, <2>1, <2>2, <2>3, StartKeepsRows
<1>4. ASSUME NEW o \in Operators, Compare(o) \/ PassOver(o) PROVE RegistryInv'
    BY <1>1, <1>4, CompareEffect, EndKeepsRows
<1>5. ASSUME NEW o \in Operators, Commit(o) PROVE RegistryInv'
    <2>1. settled' \in BOOLEAN
        <3>1. tx[o].alone \in BOOLEAN
            BY <1>1 DEF TxType
        <3>2. (settled \/ tx[o].alone) \in BOOLEAN
              /\ (settled /\ Unaffected(data, data')) \in BOOLEAN
            OBVIOUS
        <3>. QED  BY <1>5, <3>2, CommitEffect
    <2>2. installedBeside' \in BOOLEAN
        BY <1>1, <1>5, CommitEffect DEF StillBeside
    <2>. QED  BY <1>5, <2>1, <2>2, CommitEffect, FreeRegistryTx, EndKeepsRows
<1>6. ASSUME NEW o \in Operators, Acknowledge(o) \/ Close(o) PROVE RegistryInv'
    <2>1. /\ alerts' \in Seq(Alert) /\ DOMAIN alerts' = DOMAIN alerts
          /\ tx' = [tx EXCEPT ![o] = Free] /\ UNCHANGED <<data, installedBeside>>
          /\ settled' \in BOOLEAN
        BY <1>1, <1>6, AcknowledgeEffect, CloseEffect
    <2>2. Len(alerts') >= Len(alerts)
        BY <1>1, <2>1
    <2>3. data' \in DataType /\ Len(data'.installations) >= Len(data.installations)
          /\ installedBeside' \in BOOLEAN
        BY <1>1, <2>1
    <2>. QED  BY <2>1, <2>2, <2>3, FreeRegistryTx, EndKeepsRows
<1>7. ASSUME NEW o \in Operators, RollBack(o) PROVE RegistryInv'
    <2>1. tx' = [tx EXCEPT ![o] = Free] /\ UNCHANGED <<data, alerts, settled>>
          /\ installedBeside' \in BOOLEAN
        BY <1>1, <1>7 DEF RollBack, StillBeside
    <2>2. /\ data' \in DataType /\ Len(data'.installations) >= Len(data.installations)
          /\ alerts' \in Seq(Alert) /\ Len(alerts') >= Len(alerts) /\ settled' \in BOOLEAN
        BY <1>1, <2>1
    <2>. QED  BY <2>1, <2>2, FreeRegistryTx, EndKeepsRows
<1>8. CASE UNCHANGED vars
    BY <1>8 DEF vars, RegistryInv, TypeOK, RowsInv
<1>. QED  BY <1>2, <1>3, <1>4, <1>5, <1>6, <1>7, <1>8, Beginnings DEF Next

--------------------------------------------------------------------------------
(* The registry: installations. *)

LEMMA InstallationRows ==
    ASSUME NEW D \in DataType
    PROVE  /\ D.installations \in Seq(Installation) /\ Len(D.installations) \in Nat
           /\ DOMAIN D.installations = 1..Len(D.installations)
           /\ \A i \in DOMAIN D.installations :
                 D.installations[i].device \in Devices /\ D.installations[i].open \in BOOLEAN
<1>1. D.installations \in Seq(Installation)
    BY DEF DataType
<1>2. ASSUME NEW i \in DOMAIN D.installations
      PROVE  D.installations[i].device \in Devices /\ D.installations[i].open \in BOOLEAN
    <2>1. D.installations[i] \in Installation
        BY <1>1
    <2>. QED  BY <2>1 DEF Installation
<1>. QED  BY <1>1, <1>2

LEMMA OpenOnceCounts ==
    ASSUME data \in DataType
    PROVE  OpenOnce <=> \A d \in Devices : Cardinality(OpenOn(data, d)) <= 1
<1>. DEFINE n == Len(data.installations)
<1>1. n \in Nat /\ DOMAIN data.installations = 1..n
    BY InstallationRows
<1>2. \A d \in Devices : OpenOn(data, d) \in SUBSET (1..n)
    BY <1>1 DEF OpenOn
<1>3. ASSUME OpenOnce, NEW d \in Devices PROVE Cardinality(OpenOn(data, d)) <= 1
    <2>1. \A i, j \in OpenOn(data, d) : i = j
        BY <1>3 DEF OpenOnce, OpenOn
    <2>. QED  BY <1>1, <1>2, <2>1, AtMostOne
<1>4. ASSUME \A d \in Devices : ~ (Cardinality(OpenOn(data, d)) > 1) PROVE OpenOnce
    <2>. SUFFICES ASSUME NEW i \in DOMAIN data.installations, NEW j \in DOMAIN data.installations,
                         data.installations[i].open, data.installations[j].open,
                         data.installations[i].device = data.installations[j].device
                  PROVE  i = j
        BY DEF OpenOnce
    <2>1. PICK d \in Devices : d = data.installations[i].device
        BY InstallationRows
    <2>2. i \in OpenOn(data, d) /\ j \in OpenOn(data, d)
        BY <2>1 DEF OpenOn
    <2>. QED  BY <1>1, <1>2, <1>4, <2>2, NotMoreThanOne
<1>5. \A d \in Devices : Cardinality(OpenOn(data, d)) \in Nat
    BY <1>1, <1>2, Counted
<1>. QED  BY <1>3, <1>4, <1>5

LEMMA InstallInit == Init => InstallInv
<1>. SUFFICES ASSUME Init PROVE InstallInv
    OBVIOUS
<1>1. data.installations = <<>> /\ DOMAIN data.installations = {}
    BY DEF Init
<1>2. \A o \in Operators : ~ Installing(o)
    BY FreeRegistryTx DEF Init, Installing
<1>. QED  BY <1>1, <1>2 DEF InstallInv, OpenOnce

LEMMA StartKeepsInstall ==
    ASSUME RegistryInv, InstallInv, NEW o \in Operators, NEW t \in TxType, Start(o, t),
           t.change.what = "install" => MayOpen(0, t.change.value),
           t.change.what = "reinstall" => /\ MayOpen(t.change.id, t.change.value)
                                          /\ t.change.loaded = data.installations[t.change.id],
           installedBeside' = IF t.change.what \in {"install", "reinstall"}
                              THEN installedBeside \/ BusyInstalling(o) ELSE installedBeside
    PROVE  InstallInv'
<1>1. /\ data' = data /\ tx'[o].change = t.change
      /\ \A p \in Operators \ {o} : tx'[p].change = tx[p].change
    BY StartEffect
<1>. SUFFICES ASSUME ~ installedBeside'
              PROVE  OpenOnce' /\ \A p \in Operators :
                         Installing(p)' => ~ BusyInstalling(p)' /\ ChecksHold(p)'
    BY DEF InstallInv
<1>2. OpenOnce /\ \A p \in Operators : Installing(p) => ~ BusyInstalling(p) /\ ChecksHold(p)
    BY DEF InstallInv
<1>3. OpenOnce'
    BY <1>1, <1>2 DEF OpenOnce
<1>4. t.change.what \in {"install", "reinstall"} => ~ BusyInstalling(o)
    OBVIOUS
<1>5. Installing(o)' => ~ BusyInstalling(o)' /\ ChecksHold(o)'
    BY <1>1, <1>4 DEF Installing, BusyInstalling, ChecksHold, MayOpen, OpenOn
<1>6. ASSUME NEW p \in Operators \ {o}, Installing(p)' PROVE ~ BusyInstalling(p)' /\ ChecksHold(p)'
    <2>1. Installing(p) /\ ~ BusyInstalling(p) /\ ChecksHold(p)
        BY <1>1, <1>2, <1>6 DEF Installing
    <2>2. t.change.what \notin {"install", "reinstall"}
        BY <1>4, <2>1 DEF Installing, BusyInstalling
    <2>3. ~ BusyInstalling(p)'
        BY <1>1, <2>1, <2>2 DEF BusyInstalling
    <2>4. ChecksHold(p)'
        BY <1>1, <2>1 DEF ChecksHold, MayOpen, OpenOn
    <2>. QED  BY <2>3, <2>4
<1>. QED  BY <1>3, <1>5, <1>6

LEMMA EndKeepsInstall ==
    ASSUME RegistryInv, InstallInv, NEW o \in Operators, NEW u \in TxType,
           tx' = [tx EXCEPT ![o] = u], u.change = tx[o].change \/ u = Free,
           data'.installations = data.installations, data' \in DataType,
           \/ installedBeside' = installedBeside
           \/ u = Free /\ installedBeside' = StillBeside(o, data')
    PROVE  InstallInv'
<1>1. \A p \in Operators : tx'[p] = IF p = o THEN u ELSE tx[p]
    BY DEF RegistryInv, TypeOK
<1>2. \A p \in Operators : Installing(p)' => Installing(p) /\ tx'[p].change = tx[p].change
    BY <1>1, FreeRegistryTx DEF Installing
<1>3. \A p \in Operators : BusyInstalling(p)' => BusyInstalling(p)
    BY <1>2 DEF BusyInstalling, Installing
<1>4. ASSUME ~ installedBeside PROVE InstallInv'
    <2>1. OpenOnce /\ \A p \in Operators : Installing(p) => ~ BusyInstalling(p) /\ ChecksHold(p)
        BY <1>4 DEF InstallInv
    <2>2. OpenOnce'
        BY <2>1 DEF OpenOnce
    <2>3. \A p \in Operators : tx'[p].change = tx[p].change /\ ChecksHold(p) => ChecksHold(p)'
        BY DEF ChecksHold, MayOpen, OpenOn
    <2>. QED  BY <1>2, <1>3, <2>1, <2>2, <2>3 DEF InstallInv
<1>5. ASSUME installedBeside, ~ installedBeside' PROVE InstallInv'
    <2>1. /\ u = Free /\ ~ BusyInstalling(o)
          /\ \A d \in Devices : ~ (Cardinality(OpenOn(data', d)) > 1)
        BY <1>5 DEF StillBeside
    <2>2. \A d \in Devices : OpenOn(data', d) = OpenOn(data, d)
        BY DEF OpenOn
    <2>3. OpenOnce
        <3>1. data \in DataType
            BY DEF RegistryInv, TypeOK
        <3>2. \A d \in Devices : Cardinality(OpenOn(data, d)) <= 1
            <4>1. \A d \in Devices : OpenOn(data, d) \in SUBSET (1..Len(data.installations))
                BY <3>1, InstallationRows DEF OpenOn
            <4>2. \A d \in Devices : Cardinality(OpenOn(data, d)) \in Nat
                BY <3>1, <4>1, InstallationRows, Counted
            <4>. QED  BY <2>1, <2>2, <4>2
        <3>. QED  BY <3>1, <3>2, OpenOnceCounts
    <2>4. OpenOnce'
        BY <2>3 DEF OpenOnce
    <2>5. \A p \in Operators : ~ Installing(p)'
        BY <1>1, <2>1, FreeRegistryTx DEF Installing, BusyInstalling
    <2>. QED  BY <2>4, <2>5 DEF InstallInv
<1>. QED  BY <1>4, <1>5 DEF InstallInv

(* A committed change keeps to the rule when its check still holds.           *)
LEMMA CommitKeepsInstall ==
    ASSUME RegistryInv, InstallInv, NEW o \in Operators, Commit(o)
    PROVE  InstallInv'
<1>1. /\ tx' = [tx EXCEPT ![o] = Free] /\ data' = Applied(data, tx[o].change)
      /\ data' \in DataType /\ installedBeside' = StillBeside(o, data')
    BY CommitEffect
<1>2. PICK c \in ChangeType : c = tx[o].change
    BY DEF RegistryInv, TypeOK, TxType
<1>3. data \in DataType /\ IsThere(data, c)
    BY <1>2 DEF RegistryInv, TypeOK, RowsInv
<1>4. \A p \in Operators : tx'[p] = IF p = o THEN Free ELSE tx[p]
    BY <1>1 DEF RegistryInv, TypeOK
<1>5. CASE c.what \notin {"install", "reinstall"}
    <2>1. data'.installations = data.installations
        BY <1>1, <1>2, <1>3, <1>5, AppliedEffect
    <2>. QED  BY <1>1, <2>1, FreeRegistryTx, EndKeepsInstall
<1>6. ASSUME c.what \in {"install", "reinstall"}, ~ installedBeside' PROVE InstallInv'
    <2>1. \A p \in Operators : ~ Installing(p)'
        <3>1. installedBeside => ~ BusyInstalling(o)
            BY <1>1, <1>6 DEF StillBeside
        <3>2. ~ installedBeside => ~ BusyInstalling(o)
            BY <1>2, <1>6 DEF InstallInv, Installing
        <3>. QED  BY <1>4, <3>1, <3>2, FreeRegistryTx DEF Installing, BusyInstalling
    <2>2. CASE installedBeside
        <3>1. \A d \in Devices : ~ (Cardinality(OpenOn(data', d)) > 1)
            BY <1>1, <1>6, <2>2 DEF StillBeside
        <3>2. \A d \in Devices : OpenOn(data', d) \in SUBSET (1..Len(data'.installations))
            BY <1>1, InstallationRows DEF OpenOn
        <3>3. \A d \in Devices : \A i, j \in OpenOn(data', d) : i = j
            BY <1>1, <3>1, <3>2, InstallationRows, NotMoreThanOne
        <3>4. OpenOnce'
            <4>. SUFFICES ASSUME NEW i \in DOMAIN data'.installations,
                                 NEW j \in DOMAIN data'.installations,
                                 data'.installations[i].open, data'.installations[j].open,
                                 data'.installations[i].device = data'.installations[j].device
                          PROVE  i = j
                BY DEF OpenOnce
            <4>1. PICK d \in Devices : d = data'.installations[i].device
                BY <1>1, InstallationRows
            <4>. QED  BY <3>3, <4>1 DEF OpenOn
        <3>. QED  BY <2>1, <3>4 DEF InstallInv
    <2>3. CASE ~ installedBeside
        <3>1. OpenOnce /\ ChecksHold(o)
            BY <1>2, <1>6, <2>3 DEF InstallInv, Installing
        <3>2. CASE c.what = "install"
            <4>1. c.value.open => OpenOn(data, c.value.device) \ {0} = {}
                BY <1>2, <3>1, <3>2 DEF ChecksHold, MayOpen
            <4>2. data'.installations = Append(data.installations, c.value)
                BY <1>1, <1>2, <1>3, <3>2, AppliedEffect
            <4>3. /\ data.installations \in Seq(Installation)
                  /\ Len(data.installations) \in Nat
                  /\ DOMAIN data.installations = 1..Len(data.installations)
                BY <1>3, InstallationRows
            <4>4. /\ DOMAIN data'.installations = 1..(Len(data.installations) + 1)
                  /\ data'.installations[Len(data.installations) + 1] = c.value
                  /\ \A i \in DOMAIN data.installations :
                        data'.installations[i] = data.installations[i]
                BY <4>2, <4>3, <3>2, ChangeKinds
            <4>5. \A i \in DOMAIN data.installations :
                     c.value.open /\ data.installations[i].open
                       => data.installations[i].device # c.value.device
                BY <4>1, <4>3 DEF OpenOn
            <4>6. \A i \in DOMAIN data'.installations :
                     i \in DOMAIN data.installations \/ i = Len(data.installations) + 1
                BY <4>3, <4>4
            <4>7. OpenOnce'
                BY <3>1, <4>4, <4>5, <4>6 DEF OpenOnce
            <4>. QED  BY <2>1, <4>7 DEF InstallInv
        <3>3. CASE c.what = "reinstall"
            <4>1. /\ c.value.open => OpenOn(data, c.value.device) \ {c.id} = {}
                  /\ c.loaded = data.installations[c.id]
                BY <1>2, <3>1, <3>3 DEF ChecksHold, MayOpen
            <4>2. /\ DOMAIN data'.installations = DOMAIN data.installations
                  /\ \A i \in DOMAIN data.installations :
                        i # c.id => data'.installations[i] = data.installations[i]
                  /\ data'.installations[c.id] = c.value
                BY <1>1, <1>2, <1>3, <3>3, <4>1, AppliedEffect
            <4>3. \A i \in DOMAIN data.installations :
                     c.value.open /\ data.installations[i].open /\ i # c.id
                       => data.installations[i].device # c.value.device
                BY <4>1 DEF OpenOn
            <4>4. OpenOnce'
                BY <3>1, <4>2, <4>3 DEF OpenOnce
            <4>. QED  BY <2>1, <4>4 DEF InstallInv
        <3>. QED  BY <1>6, <3>2, <3>3
    <2>. QED  BY <2>2, <2>3
<1>. QED  BY <1>5, <1>6 DEF InstallInv

LEMMA InstallStep == RegistryInv /\ InstallInv /\ [Next]_vars => InstallInv'
<1>. SUFFICES ASSUME RegistryInv, InstallInv, [Next]_vars PROVE InstallInv'
    OBVIOUS
<1>0. data \in DataType /\ tx \in [Operators -> TxType]
    BY DEF RegistryInv, TypeOK
<1>1. ASSUME NEW o \in Operators, NEW c, BeginsChange(o, c) PROVE InstallInv'
    <2>1. PICK t \in TxType : t.pc = "write" /\ t.change = c /\ Start(o, t)
        BY <1>1, ChangeEffect DEF BeginsChange
    <2>. QED  BY <1>1, <2>1, StartKeepsInstall DEF BeginsChange
<1>2. ASSUME NEW o \in Operators, NEW i \in 1..MaxAlerts,
             BeginAcknowledge(o, i) \/ BeginClose(o, i)
      PROVE  InstallInv'
    <2>1. PICK pc \in {"acknowledge", "close"} :
             i \in DOMAIN alerts /\ Start(o, ByHand(pc, i))
             /\ installedBeside' = installedBeside
        BY <1>2 DEF BeginAcknowledge, BeginClose, ByHand
    <2>2. i \in Nat
        BY RegistryAssumption
    <2>3. PICK t \in TxType : /\ t = ByHand(pc, i)
                              /\ t.pc = pc /\ t.change = NoChange /\ t.id = i
        BY <2>2, HandRecord
    <2>4. Start(o, t)
        BY <2>1, <2>3
    <2>. QED  BY <2>1, <2>3, <2>4, FreeRegistryTx, StartKeepsInstall
<1>3. ASSUME NEW o \in Operators, Compare(o) \/ PassOver(o) PROVE InstallInv'
    BY <1>0, <1>3, CompareEffect, EndKeepsInstall
<1>4. ASSUME NEW o \in Operators, Acknowledge(o) \/ Close(o) PROVE InstallInv'
    <2>1. tx' = [tx EXCEPT ![o] = Free] /\ UNCHANGED <<data, installedBeside>>
        BY <1>4, AcknowledgeEffect, CloseEffect
    <2>2. data' \in DataType /\ data'.installations = data.installations
        BY <1>0, <2>1
    <2>. QED  BY <2>1, <2>2, FreeRegistryTx, EndKeepsInstall
<1>5. ASSUME NEW o \in Operators, RollBack(o) PROVE InstallInv'
    <2>1. /\ tx' = [tx EXCEPT ![o] = Free] /\ data' = data
          /\ installedBeside' = StillBeside(o, data)
        BY <1>5 DEF RollBack
    <2>2. /\ data' \in DataType /\ data'.installations = data.installations
          /\ installedBeside' = StillBeside(o, data')
        BY <1>0, <2>1
    <2>. QED  BY <2>1, <2>2, FreeRegistryTx, EndKeepsInstall
<1>6. CASE UNCHANGED vars
    BY <1>6 DEF vars, InstallInv, OpenOnce, Installing, BusyInstalling, ChecksHold, MayOpen, OpenOn
<1>. QED  BY <1>1, <1>2, <1>3, <1>4, <1>5, <1>6, CommitKeepsInstall, Beginnings DEF Next

(* In every execution a device has at most one open installation, over any    *)
(* sequence of rows created, closed, opened again and moved, unless two such  *)
(* changes have overlapped and what they have left is still there.            *)
THEOREM InstalledOnceOnly == Spec => []InstalledOnce
<1>1. RegistryInv /\ InstallInv => InstalledOnce
    BY OpenOnceCounts DEF RegistryInv, TypeOK, InstallInv, InstalledOnce
<1>2. (RegistryInv /\ InstallInv) /\ [Next]_vars => (RegistryInv /\ InstallInv)'
    BY RegistryStep, InstallStep
<1>. QED  BY <1>1, <1>2, RegistryInit, InstallInit, PTL DEF Spec

--------------------------------------------------------------------------------
(* The registry: alerts. *)

LEMMA SettledInit == Init => SettledInv
<1>. SUFFICES ASSUME Init PROVE SettledInv
    OBVIOUS
<1>1. data.references = {}
    BY DEF Init
<1>2. \A o \in Operators : tx[o].pc = "idle"
    BY FreeRegistryTx DEF Init
<1>. QED  BY <1>1, <1>2 DEF SettledInv, AloneInv, CalmInv, AlertsRight, Writing

LEMMA SameAlerts ==
    ASSUME UNCHANGED <<data, alerts>>
    PROVE  /\ AlertsRight' <=> AlertsRight
           /\ \A D : ToOpen(D)' = ToOpen(D) /\ ToClose(D)' = ToClose(D)
<1>1. \A m, c : Active(m, c)' = Active(m, c)
    BY DEF Active
<1>. QED  BY <1>1 DEF AlertsRight, ToOpen, ToClose, Wanted, Keys, Resolved

LEMMA StartKeepsSettled ==
    ASSUME RegistryInv, SettledInv, NEW o \in Operators, NEW t \in TxType, Start(o, t),
           t.pc \in {"write", "acknowledge", "close"},
           t.pc = "write" => /\ t.synced = FALSE /\ t.opens = {} /\ t.closes = {}
                             /\ t.change.what = "import" => t.change.code = data.hes_code,
           t.pc = "acknowledge" => alerts[t.id].status = "open"
    PROVE  SettledInv'
<1>1. /\ UNCHANGED <<data, alerts>> /\ settled' = (settled /\ OthersIdle(o))
      /\ tx'[o].pc = t.pc /\ tx'[o].id = t.id /\ tx'[o].change = t.change
      /\ tx'[o].synced = t.synced /\ tx'[o].opens = t.opens /\ tx'[o].closes = t.closes
      /\ tx'[o].alone = (t.pc = "write" /\ OthersIdle(o))
      /\ \A p \in Operators \ {o} :
            tx'[p].pc = tx[p].pc /\ (tx[p].pc # "idle" => ~ tx'[p].alone)
    BY StartEffect
<1>2. OthersIdle(o)' <=> OthersIdle(o)
    BY <1>1 DEF OthersIdle
<1>3. AloneInv'
    <2>. SUFFICES ASSUME NEW p \in Operators, Writing(p)', tx'[p].alone
                  PROVE  OthersIdle(p)' /\ Fresh(p)' /\ tx'[p].pc # "compared"
        BY DEF AloneInv
    <2>1. p = o
        BY <1>1 DEF Writing
    <2>2. Fresh(o)'
        BY <1>1, <2>1 DEF Fresh, Writing
    <2>. QED  BY <1>1, <1>2, <2>1, <2>2
<1>4. CalmInv'
    <2>. SUFFICES ASSUME settled', NEW p \in Operators, tx'[p].pc # "idle"
                  PROVE  /\ OthersIdle(p)' /\ (Writing(p)' => tx'[p].alone)
                         /\ tx'[p].pc = "acknowledge" => alerts'[tx'[p].id].status = "open"
        BY DEF CalmInv
    <2>1. p = o
        BY <1>1 DEF OthersIdle
    <2>. QED  BY <1>1, <1>2, <2>1 DEF Writing
<1>5. settled' => AlertsRight'
    BY <1>1, SameAlerts DEF SettledInv
<1>. QED  BY <1>3, <1>4, <1>5 DEF SettledInv

LEMMA CompareKeepsSettled ==
    ASSUME RegistryInv, SettledInv, NEW o \in Operators, Compare(o) \/ PassOver(o)
    PROVE  SettledInv'
<1>1. PICK u \in TxType :
         /\ tx[o].pc = "write" /\ UNCHANGED <<data, alerts, settled, installedBeside>>
         /\ tx' = [tx EXCEPT ![o] = u]
         /\ u.pc = "compared" /\ u.change = tx[o].change /\ u.alone = tx[o].alone
         /\ \/ /\ u.synced
               /\ u.opens = ToOpen(Seen(u.change)) /\ u.closes = ToClose(Seen(u.change))
            \/ /\ u.synced = tx[o].synced /\ u.change.what # "import"
               /\ u.opens = tx[o].opens /\ u.closes = tx[o].closes
    BY CompareEffect
<1>2. \A p \in Operators : tx'[p] = IF p = o THEN u ELSE tx[p]
    BY <1>1 DEF RegistryInv, TypeOK
<1>3. \A p \in Operators : (tx'[p].pc = "idle" <=> tx[p].pc = "idle")
                           /\ (OthersIdle(p)' <=> OthersIdle(p)) /\ (Writing(p)' <=> Writing(p))
    BY <1>1, <1>2 DEF OthersIdle, Writing
<1>4. ASSUME Fresh(o) PROVE Fresh(o)' /\ Decided(o)'
    <2>1. Fresh(o)'
        BY <1>1, <1>2, <1>4 DEF Fresh
    <2>2. u.change \in ChangeType /\ IsThere(data, u.change)
        BY <1>1 DEF RegistryInv, RowsInv, TxType
    <2>3. u.change.what # "import" \/ u.change.code = data.hes_code
        BY <1>1, <1>4 DEF Fresh
    <2>4. PICK E : E = Applied(data, u.change) /\ E = Seen(u.change)
        <3>1. Seen(u.change) = Applied(data, u.change)
            BY <2>2, <2>3, ComparedData
        <3>. QED  BY <3>1
    <2>5. ToOpen(E)' = ToOpen(E) /\ ToClose(E)' = ToClose(E)
        BY <1>1, SameAlerts
    <2>6. Applied(data, tx[o].change)' = E
        BY <1>1, <1>2, <2>4
    <2>7. CASE u.synced /\ u.opens = ToOpen(Seen(u.change)) /\ u.closes = ToClose(Seen(u.change))
        <3>1. tx'[o].synced /\ tx'[o].opens = ToOpen(E) /\ tx'[o].closes = ToClose(E)
            BY <1>2, <2>4, <2>7
        <3>2. Decided(o)'
            BY <2>5, <2>6, <3>1 DEF Decided
        <3>. QED  BY <2>1, <3>2
    <2>8. CASE /\ u.synced = tx[o].synced /\ u.change.what # "import"
               /\ u.opens = tx[o].opens /\ u.closes = tx[o].closes
        <3>1. /\ ~ tx'[o].synced /\ tx'[o].change.what # "import"
              /\ tx'[o].opens = {} /\ tx'[o].closes = {}
            BY <1>1, <1>2, <1>4, <2>8 DEF Fresh
        <3>2. Decided(o)'
            BY <3>1 DEF Decided
        <3>. QED  BY <2>1, <3>2
    <2>. QED  BY <1>1, <2>7, <2>8
<1>5. AloneInv'
    <2>. SUFFICES ASSUME NEW p \in Operators, Writing(p)', tx'[p].alone
                  PROVE  OthersIdle(p)' /\ Fresh(p)' /\ (tx'[p].pc = "compared" => Decided(p)')
        BY DEF AloneInv
    <2>1. Writing(p) /\ tx[p].alone /\ OthersIdle(p) /\ Fresh(p)
        BY <1>1, <1>2, <1>3 DEF SettledInv, AloneInv
    <2>2. p = o
        BY <1>1, <2>1 DEF OthersIdle
    <2>. QED  BY <1>3, <1>4, <2>1, <2>2
<1>6. CalmInv'
    BY <1>1, <1>2, <1>3 DEF SettledInv, CalmInv, Writing
<1>7. settled' => AlertsRight'
    BY <1>1, SameAlerts DEF SettledInv
<1>. QED  BY <1>5, <1>6, <1>7 DEF SettledInv

(* The end of a transaction that was alone, or ran while all was settled.     *)
LEMMA EndKeepsCalm ==
    ASSUME RegistryInv, SettledInv, NEW o \in Operators, tx' = [tx EXCEPT ![o] = Free],
           tx[o].pc # "idle", settled' => settled \/ (Writing(o) /\ tx[o].alone)
    PROVE  AloneInv' /\ CalmInv'
<1>1. \A p \in Operators : tx'[p] = IF p = o THEN Free ELSE tx[p]
    BY DEF RegistryInv, TypeOK
<1>2. AloneInv'
    <2>1. ASSUME NEW p \in Operators, Writing(p)', tx'[p].alone PROVE FALSE
        <3>1. p # o /\ Writing(p) /\ tx[p].alone
            BY <1>1, <2>1, FreeRegistryTx DEF Writing
        <3>. QED  BY <3>1 DEF SettledInv, AloneInv, OthersIdle
    <2>. QED  BY <2>1 DEF AloneInv
<1>3. CalmInv'
    <2>1. ASSUME settled', NEW p \in Operators, tx'[p].pc # "idle" PROVE FALSE
        <3>1. OthersIdle(o)
            BY <2>1 DEF SettledInv, AloneInv, CalmInv
        <3>. QED  BY <1>1, <2>1, <3>1, FreeRegistryTx DEF OthersIdle
    <2>. QED  BY <2>1 DEF CalmInv
<1>. QED  BY <1>2, <1>3

LEMMA CommitKeepsSettled ==
    ASSUME RegistryInv, SettledInv, NEW o \in Operators, Commit(o)
    PROVE  SettledInv'
<1>1. /\ tx[o].pc = "compared" /\ tx' = [tx EXCEPT ![o] = Free]
      /\ data' = Applied(data, tx[o].change) /\ data' \in DataType
      /\ tx[o].change.what # "import" => data'.references = data.references
      /\ settled' = IF tx[o].synced THEN settled \/ tx[o].alone
                    ELSE settled /\ Unaffected(data, data')
    BY CommitEffect
<1>2. /\ alerts' \in Seq(Alert) /\ Len(alerts') >= Len(alerts)
      /\ \A i \in DOMAIN alerts :
            alerts'[i] = IF i \in tx[o].closes THEN [alerts[i] EXCEPT !.status = "closed"]
                         ELSE alerts[i]
      /\ \A i \in DOMAIN alerts' \ DOMAIN alerts :
            \E k \in tx[o].opens : alerts'[i] = [meter |-> k.meter, code |-> k.code,
                                                 status |-> "open"]
      /\ \A k \in tx[o].opens : \E i \in DOMAIN alerts' \ DOMAIN alerts :
            alerts'[i] = [meter |-> k.meter, code |-> k.code, status |-> "open"]
    BY CommitEffect
<1>3. alerts \in Seq(Alert) /\ tx[o].synced \in BOOLEAN
    BY DEF RegistryInv, TypeOK, TxType
<1>4. DOMAIN alerts \subseteq DOMAIN alerts'
    <2>1. Len(alerts) \in Nat /\ Len(alerts') \in Nat
        BY <1>2, <1>3
    <2>. QED  BY <1>2, <1>3, <2>1
<1>5. ASSUME settled' PROVE tx[o].alone /\ Decided(o)
    <2>1. tx[o].alone
        BY <1>1, <1>3, <1>5 DEF SettledInv, CalmInv, Writing
    <2>. QED  BY <1>1, <2>1 DEF SettledInv, AloneInv, Writing
<1>6. AloneInv' /\ CalmInv'
    <2>1. settled' => settled \/ (Writing(o) /\ tx[o].alone)
        BY <1>1, <1>3, <1>5 DEF Writing
    <2>. QED  BY <1>1, <2>1, EndKeepsCalm
<1>7. ASSUME settled', ~ tx[o].synced PROVE AlertsRight'
    <2>1. /\ settled /\ Unaffected(data, data') /\ data'.references = data.references
          /\ tx[o].opens = {} /\ tx[o].closes = {}
        BY <1>1, <1>5, <1>7 DEF Decided
    <2>2. DOMAIN alerts' = DOMAIN alerts
        BY <1>2, <1>4, <2>1
    <2>3. \A m, c : Active(m, c)' = Active(m, c)
        BY <1>2, <2>1, <2>2 DEF Active
    <2>. QED  BY <2>1, <2>3 DEF SettledInv, AlertsRight, Unaffected
<1>8. ASSUME settled', tx[o].synced PROVE AlertsRight'
    <2>1. PICK D \in DataType : D = data' /\ tx[o].opens = ToOpen(D) /\ tx[o].closes = ToClose(D)
        BY <1>1, <1>5, <1>8 DEF Decided
    <2>2. \A i \in DOMAIN alerts : alerts[i] \in Alert
        BY <1>3
    <2>3. ASSUME NEW i \in DOMAIN alerts, i \in ToClose(D) PROVE alerts'[i].status = "closed"
        BY <1>2, <2>1, <2>2, <2>3 DEF Alert
    <2>4. ASSUME NEW i \in DOMAIN alerts, i \notin ToClose(D) PROVE alerts'[i] = alerts[i]
        BY <1>2, <2>1, <2>4
    <2>. SUFFICES ASSUME NEW m \in D.references, NEW c \in Codes
                  PROVE  Active(m, c)' # {} <=> Comparison(D, m) = c
        BY <2>1 DEF AlertsRight
    <2>5. PICK k \in Keys(D) : k.meter = m /\ k.code = c /\ k = [meter |-> m, code |-> c]
        <3>1. [meter |-> m, code |-> c] \in Keys(D)
            BY DEF Keys
        <3>. QED  BY <3>1
    <2>6. k \in Wanted(D) <=> Comparison(D, m) = c
        BY <2>5 DEF Wanted
    <2>7. \A h \in Keys(D) : h.meter = m /\ h.code = c => h = k
        BY <2>5 DEF Keys
    <2>8. ASSUME k \in Wanted(D) PROVE Active(m, c)' # {}
        <3>1. CASE Active(m, c) = {}
            <4>1. k \in ToOpen(D)
                BY <2>5, <2>8, <3>1 DEF ToOpen
            <4>2. PICK i \in DOMAIN alerts' \ DOMAIN alerts :
                     alerts'[i] = [meter |-> k.meter, code |-> k.code, status |-> "open"]
                BY <1>2, <2>1, <4>1
            <4>3. i \in Active(m, c)'
                BY <2>5, <4>2 DEF Active
            <4>. QED  BY <4>3
        <3>2. ASSUME NEW i \in Active(m, c) PROVE Active(m, c)' # {}
            <4>1. i \in DOMAIN alerts /\ alerts[i].meter = m /\ alerts[i].code = c
                  /\ alerts[i].status \in {"open", "acknowledged"}
                BY <3>2 DEF Active
            <4>2. i \notin ToClose(D)
                <5>. SUFFICES ASSUME i \in ToClose(D) PROVE FALSE
                    OBVIOUS
                <5>1. PICK h \in Keys(D) \ Wanted(D) : i \in Active(h.meter, h.code)
                    BY DEF ToClose, Resolved
                <5>2. h.meter = m /\ h.code = c
                    BY <4>1, <5>1 DEF Active
                <5>. QED  BY <2>7, <2>8, <5>1, <5>2
            <4>3. i \in Active(m, c)'
                BY <1>4, <2>4, <4>1, <4>2 DEF Active
            <4>. QED  BY <4>3
        <3>. QED  BY <3>1, <3>2
    <2>9. ASSUME k \notin Wanted(D), NEW i \in Active(m, c)' PROVE FALSE
        <3>1. /\ i \in DOMAIN alerts' /\ alerts'[i].meter = m /\ alerts'[i].code = c
              /\ alerts'[i].status \in {"open", "acknowledged"}
            BY <2>9 DEF Active
        <3>2. CASE i \in DOMAIN alerts
            <4>1. i \notin ToClose(D) /\ alerts'[i] = alerts[i]
                BY <2>3, <2>4, <3>1, <3>2
            <4>2. i \in Active(m, c)
                BY <3>1, <3>2, <4>1 DEF Active
            <4>3. i \in ToClose(D)
                BY <2>5, <2>9, <4>2 DEF ToClose, Resolved
            <4>. QED  BY <4>1, <4>3
        <3>3. CASE i \notin DOMAIN alerts
            <4>1. PICK h \in ToOpen(D) :
                     alerts'[i] = [meter |-> h.meter, code |-> h.code, status |-> "open"]
                BY <1>2, <2>1, <3>1, <3>3
            <4>2. h \in Wanted(D) /\ h \in Keys(D) /\ h.meter = m /\ h.code = c
                BY <3>1, <4>1 DEF ToOpen, Wanted
            <4>. QED  BY <2>7, <2>9, <4>2
        <3>. QED  BY <3>2, <3>3
    <2>. QED  BY <2>6, <2>8, <2>9
<1>. QED  BY <1>3, <1>6, <1>7, <1>8 DEF SettledInv

LEMMA HandKeepsSettled ==
    ASSUME RegistryInv, SettledInv, NEW o \in Operators,
           Acknowledge(o) \/ Close(o) \/ RollBack(o)
    PROVE  SettledInv'
<1>1. CASE Acknowledge(o)
    <2>1. /\ tx[o].pc = "acknowledge" /\ tx[o].id \in DOMAIN alerts
          /\ tx' = [tx EXCEPT ![o] = Free] /\ UNCHANGED <<data, settled>>
          /\ DOMAIN alerts' = DOMAIN alerts /\ alerts'[tx[o].id].status = "acknowledged"
          /\ \A j \in DOMAIN alerts :
                /\ alerts'[j].meter = alerts[j].meter /\ alerts'[j].code = alerts[j].code
                /\ j # tx[o].id => alerts'[j] = alerts[j]
        BY <1>1, AcknowledgeEffect
    <2>2. AloneInv' /\ CalmInv'
        BY <2>1, EndKeepsCalm
    <2>3. ASSUME settled' PROVE AlertsRight'
        <3>1. AlertsRight /\ alerts[tx[o].id].status = "open"
            BY <2>1, <2>3 DEF SettledInv, CalmInv
        <3>2. \A m, c : Active(m, c)' = Active(m, c)
            BY <2>1, <3>1 DEF Active
        <3>. QED  BY <2>1, <3>1, <3>2 DEF AlertsRight
    <2>. QED  BY <2>2, <2>3 DEF SettledInv
<1>2. CASE Close(o)
    <2>1. tx' = [tx EXCEPT ![o] = Free] /\ settled' = FALSE /\ tx[o].pc = "close"
        BY <1>2, CloseEffect
    <2>. QED  BY <2>1, EndKeepsCalm DEF SettledInv
<1>3. CASE RollBack(o)
    <2>1. /\ tx' = [tx EXCEPT ![o] = Free] /\ tx[o].pc # "idle"
          /\ UNCHANGED <<data, alerts>> /\ settled' = settled
        BY <1>3 DEF RollBack
    <2>. QED  BY <2>1, EndKeepsCalm, SameAlerts DEF SettledInv
<1>. QED  BY <1>1, <1>2, <1>3

LEMMA SettledStep == RegistryInv /\ SettledInv /\ [Next]_vars => SettledInv'
<1>. SUFFICES ASSUME RegistryInv, SettledInv, [Next]_vars PROVE SettledInv'
    OBVIOUS
<1>1. ASSUME NEW o \in Operators, NEW c, BeginsChange(o, c) PROVE SettledInv'
    <2>1. PICK t \in TxType : /\ t.pc = "write" /\ t.change = c /\ Start(o, t)
                              /\ t.synced = FALSE /\ t.opens = {} /\ t.closes = {}
        BY <1>1, ChangeEffect DEF BeginsChange
    <2>2. t.change.what = "import" => t.change.code = data.hes_code
        BY <1>1, <2>1 DEF BeginsChange
    <2>. QED  BY <2>1, <2>2, StartKeepsSettled
<1>2. ASSUME NEW o \in Operators, NEW i \in 1..MaxAlerts,
             BeginAcknowledge(o, i) \/ BeginClose(o, i)
      PROVE  SettledInv'
    <2>1. PICK pc \in {"acknowledge", "close"} :
             Start(o, ByHand(pc, i)) /\ (pc = "acknowledge" => alerts[i].status = "open")
        BY <1>2 DEF BeginAcknowledge, BeginClose, ByHand
    <2>2. i \in Nat
        BY RegistryAssumption
    <2>3. PICK t \in TxType : t = ByHand(pc, i) /\ t.pc = pc /\ t.id = i
        BY <2>2, HandRecord
    <2>4. Start(o, t)
        BY <2>1, <2>3
    <2>. QED  BY <2>1, <2>3, <2>4, StartKeepsSettled
<1>3. CASE UNCHANGED vars
    <2>1. UNCHANGED <<data, alerts, tx, settled>>
        BY <1>3 DEF vars
    <2>2. ASSUME NEW p \in Operators, Decided(p) PROVE Decided(p)'
        <3>1. PICK E : E = Applied(data, tx[p].change)
            OBVIOUS
        <3>2. ToOpen(E)' = ToOpen(E) /\ ToClose(E)' = ToClose(E)
            BY <2>1, SameAlerts
        <3>3. Applied(data, tx[p].change)' = E
            BY <2>1, <3>1
        <3>. QED  BY <2>1, <2>2, <3>1, <3>2, <3>3 DEF Decided
    <2>3. AloneInv' /\ CalmInv'
        BY <2>1, <2>2 DEF SettledInv, AloneInv, CalmInv, Writing, OthersIdle, Fresh
    <2>. QED  BY <2>1, <2>3, SameAlerts DEF SettledInv
<1>. QED  BY <1>1, <1>2, <1>3, CompareKeepsSettled, CommitKeepsSettled, HandKeepsSettled,
             Beginnings DEF Next

(* In every execution, once a synchronisation has run that nothing overlapped *)
(* and for as long as nothing overlaps, nobody closes an alert by hand and no *)
(* change of a comparison passes the head-end system over, a meter has an     *)
(* active alert of a code exactly when that is what the comparison says of    *)
(* it, whatever earlier transactions have left.                               *)
THEOREM SettledIsRight == Spec => []SettledMeansRight
<1>1. RegistryInv /\ SettledInv => SettledMeansRight
    BY DEF RegistryInv, SettledInv, AlertsRight, SettledMeansRight
<1>2. (RegistryInv /\ SettledInv) /\ [Next]_vars => (RegistryInv /\ SettledInv)'
    BY RegistryStep, SettledStep
<1>. QED  BY <1>1, <1>2, RegistryInit, SettledInit, PTL DEF Spec

================================================================================
