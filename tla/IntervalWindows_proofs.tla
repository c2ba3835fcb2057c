------------------------ MODULE IntervalWindows_proofs ------------------------
(***************************************************************************)
(* Proofs about IntervalWindows, for every number of windows, slots,       *)
(* seconds and operators and for every batch size.                         *)
(***************************************************************************)
EXTENDS IntervalWindows, FiniteSetTheorems, WellFoundedInduction, TLAPS

(* The order of numbers as a relation. *)
Less == {p \in Nat \X Nat : p[1] < p[2]}

LEMMA LessWellFounded == IsWellFoundedOn(Less, Nat)
BY NatLessThanWellFounded DEF OpToRel, Less

(* A set of numbers below a bound has a highest member. *)
LEMMA HighestExists ==
    ASSUME NEW S \in SUBSET Nat, S # {}, NEW n \in Nat, \A x \in S : x <= n
    PROVE  \E x \in S : \A y \in S : y <= x
<1>. DEFINE T == {n - x : x \in S}
<1>0. \A x \in S : x \in Nat /\ n - x \in Nat
    OBVIOUS
<1>1. T \in SUBSET Nat /\ T # {}
    BY <1>0
<1>2. PICK t \in T : \A u \in T : ~ (<<u, t>> \in Less)
    <2>. HIDE DEF T
    <2>. QED  BY <1>1, LessWellFounded, WFMin
<1>3. \A u \in T : t <= u
    <2>. HIDE DEF T
    <2>. TAKE u \in T
    <2>1. u \in Nat /\ t \in Nat
        BY <1>1
    <2>2. ~ (u < t)
        BY <2>1, <1>2 DEF Less
    <2>. QED  BY <2>1, <2>2
<1>4. PICK x \in S : t = n - x
    OBVIOUS
<1>5. \A y \in S : y <= x
    <2>. TAKE y \in S
    <2>1. n - x <= n - y
        BY <1>3, <1>4
    <2>. QED  BY <2>1, <1>0
<1>. QED  BY <1>5

(* A finite set of numbers has a bound: the smallest one without it would    *)
(* lose it with any of its members.                                          *)
LEMMA FiniteHasBound ==
    ASSUME NEW S \in SUBSET Nat, IsFiniteSet(S)
    PROVE  \E n \in Nat : \A x \in S : x <= n
<1>. DEFINE Bad(U) == ~ \E n \in Nat : \A x \in U : x <= n
            T == {Cardinality(U) : U \in {V \in SUBSET S : Bad(V)}}
<1>1. \A U \in SUBSET S : IsFiniteSet(U) /\ Cardinality(U) \in Nat
    BY FS_Subset, FS_CardinalityType
<1>2. SUFFICES ASSUME Bad(S) PROVE FALSE
    OBVIOUS
<1>3. T \in SUBSET Nat /\ T # {}
    BY <1>1, <1>2
<1>4. PICK t \in T : \A u \in T : ~ (<<u, t>> \in Less)
    <2>. HIDE DEF T
    <2>. QED  BY <1>3, LessWellFounded, WFMin
<1>5. PICK U \in SUBSET S : Bad(U) /\ t = Cardinality(U)
    OBVIOUS
<1>6. PICK x \in U : x \in Nat
    BY <1>5
<1>7. /\ Cardinality(U \ {x}) = Cardinality(U) - 1
      /\ Cardinality(U) \in Nat /\ Cardinality(U \ {x}) \in Nat /\ U \ {x} \in SUBSET S
    BY <1>1, <1>6, FS_RemoveElement
<1>8. <<Cardinality(U \ {x}), t>> \in Less
    BY <1>5, <1>7 DEF Less
<1>9. Cardinality(U \ {x}) \notin T
    BY <1>4, <1>8
<1>10. ~ Bad(U \ {x})
    BY <1>7, <1>9
<1>11. PICK n \in Nat : \A y \in U \ {x} : y <= n
    BY <1>10
<1>12. \A y \in U : y \in Nat /\ y <= n + x
    BY <1>6, <1>11
<1>13. n + x \in Nat
    BY <1>6
<1>. QED  BY <1>5, <1>12, <1>13

-------------------------------------------------------------------------------
(* The states of the windows. *)

Record == StateType \cup {NoState}

LEMMA SlotsFinite ==
    ASSUME NEW S \in SUBSET Slots
    PROVE  Cardinality(S) >= Cardinality(Slots) <=> S = Slots
<1>1. IsFiniteSet(Slots)
    BY WindowsAssumption
<1>2. /\ IsFiniteSet(S) /\ Cardinality(S) \in Nat /\ Cardinality(Slots) \in Nat
      /\ Cardinality(S) <= Cardinality(Slots)
      /\ Cardinality(S) = Cardinality(Slots) => S = Slots
    BY <1>1, FS_Subset, FS_CardinalityType
<1>. QED  BY <1>2

LEMMA FlushedFields ==
    ASSUME NEW now \in Record, NEW loaded \in Record, NEW new \in Record
    PROVE  Flushed(now, loaded, new) =
             [slots |-> IF new.slots = loaded.slots THEN now.slots ELSE new.slots,
              first |-> IF new.first = loaded.first THEN now.first ELSE new.first,
              last |-> IF new.last = loaded.last THEN now.last ELSE new.last,
              status |-> IF new.status = loaded.status THEN now.status ELSE new.status,
              late |-> IF new.late = loaded.late THEN now.late ELSE new.late]
<1>1. DOMAIN now = {"slots", "first", "last", "status", "late"}
    BY DEF Record, StateType, NoState
<1>. QED  BY <1>1 DEF Flushed

LEMMA MergedIsAState ==
    ASSUME NEW old \in Record, NEW b \in BlockType, Coherent(old)
    PROVE  /\ Merged(old, b) \in StateType
           /\ Merged(old, b).slots = old.slots \cup b.slots
           /\ Merged(old, b).status # "open"
           /\ Merged(old, b).status \in {"complete", "late_update"}
                 <=> Merged(old, b).slots = Slots
<1>. DEFINE all == old.slots \cup b.slots
            late == old.status \in {"complete", "late_update"} /\ b.stamp > old.last
<1>1. /\ old.slots \in SUBSET Slots /\ old.first \in Stamps /\ old.last \in Stamps
      /\ old.late \in Nat /\ MaxClock \in Nat
    BY WindowsAssumption DEF Record, StateType, NoState, Stamps
<1>2. /\ b.slots \in SUBSET Slots /\ b.stamp \in Nat /\ b.stamp \in 1..MaxClock
    BY <1>1 DEF BlockType
<1>3. all \in SUBSET Slots
    BY <1>1, <1>2
<1>4. Cardinality(all) >= Cardinality(Slots) <=> all = Slots
    BY <1>3, SlotsFinite
<1>5. late => all = Slots
    BY <1>2, <1>1 DEF Coherent
<1>6. /\ Smaller(old.first, b.stamp) \in Stamps /\ Larger(old.last, b.stamp) \in Stamps
      /\ b.stamp \in Stamps
    BY <1>1, <1>2 DEF Smaller, Larger, Stamps
<1>. HIDE DEF all, late
<1>7. Merged(old, b) =
        [slots |-> all,
         first |-> IF old = NoState THEN b.stamp ELSE Smaller(old.first, b.stamp),
         last |-> Larger(old.last, b.stamp),
         status |-> IF late THEN "late_update"
                    ELSE IF Cardinality(all) >= Cardinality(Slots) THEN "complete"
                    ELSE "partial",
         late |-> IF late THEN old.late + 1 ELSE old.late]
    BY DEF Merged, all, late
<1>. QED  BY <1>1, <1>3, <1>4, <1>5, <1>6, <1>7 DEF StateType, all

(* What a poll writes over the state of one of its windows: the slots it has *)
(* received are added to those that are there, although an estimate may have *)
(* been committed since the poll loaded the state.                           *)
LEMMA MergeEffect ==
    ASSUME NEW now \in Record, NEW loaded \in Record, NEW b \in BlockType,
           Coherent(now), Coherent(loaded),
           \/ now.slots = loaded.slots
           \/ now.slots = Slots /\ OneShort(loaded.slots)
    PROVE  /\ Flushed(now, loaded, Merged(loaded, b)) \in StateType
           /\ Coherent(Flushed(now, loaded, Merged(loaded, b)))
           /\ Flushed(now, loaded, Merged(loaded, b)).slots = now.slots \cup b.slots
<1>. DEFINE new == Merged(loaded, b)
            out == Flushed(now, loaded, new)
<1>1. /\ new \in StateType /\ new.slots = loaded.slots \cup b.slots
      /\ new.status # "open"
      /\ new.status \in {"complete", "late_update"} <=> new.slots = Slots
    BY MergedIsAState
<1>2. /\ b.slots \in SUBSET Slots /\ b.slots # {}
    BY DEF BlockType
<1>3. /\ now.slots \in SUBSET Slots /\ loaded.slots \in SUBSET Slots
      /\ now.first \in Stamps /\ now.last \in Stamps /\ now.late \in Nat
      /\ now # NoState => now \in StateType
    BY WindowsAssumption DEF Record, StateType, NoState, Stamps
<1>. HIDE DEF new
<1>4. out = [slots |-> IF new.slots = loaded.slots THEN now.slots ELSE new.slots,
             first |-> IF new.first = loaded.first THEN now.first ELSE new.first,
             last |-> IF new.last = loaded.last THEN now.last ELSE new.last,
             status |-> IF new.status = loaded.status THEN now.status ELSE new.status,
             late |-> IF new.late = loaded.late THEN now.late ELSE new.late]
    BY <1>1, FlushedFields DEF Record
<1>. HIDE DEF out
<1>5. out.slots = now.slots \cup b.slots
    BY <1>1, <1>2, <1>3, <1>4 DEF OneShort
<1>6. now = NoState => loaded = NoState
    BY <1>3, WindowsAssumption DEF Coherent, NoState
<1>7. out.status \in {"partial", "complete", "late_update"}
    <2>1. new.status \in {"partial", "complete", "late_update"}
        BY <1>1 DEF StateType
    <2>2. now # NoState => now.status \in {"partial", "complete", "late_update"}
        BY <1>3 DEF StateType, Coherent
    <2>3. now = NoState => new.status # loaded.status
        BY <1>6, <2>1 DEF NoState
    <2>. QED  BY <1>4, <2>1, <2>2, <2>3
<1>8. out \in StateType
    BY <1>1, <1>3, <1>4, <1>5, <1>7, <1>2 DEF StateType
<1>9. out.status \in {"complete", "late_update"} <=> out.slots = Slots
    <2>1. CASE now.slots = loaded.slots
        BY <2>1, <1>1, <1>4 DEF Coherent
    <2>2. CASE now.slots = Slots /\ OneShort(loaded.slots) /\ now.slots # loaded.slots
        <3>1. out.slots = Slots
            BY <2>2, <1>5, <1>2
        <3>2. now.status \in {"complete", "late_update"}
            BY <2>2 DEF Coherent
        <3>3. loaded.slots # {} => loaded.status \in {"partial"}
            BY <2>2, <1>3 DEF Coherent, Record, StateType, NoState
        <3>4. CASE new.slots = Slots
            BY <3>1, <3>2, <3>4, <1>1, <1>4
        <3>5. CASE new.slots # Slots
            <4>1. b.slots \subseteq loaded.slots
                BY <3>5, <1>1, <1>2, <1>3, <2>2 DEF OneShort
            <4>2. loaded.status = "partial" /\ new.status = "partial"
                BY <4>1, <1>2, <3>3, <3>5, <1>1 DEF StateType
            <4>. QED  BY <4>2, <3>1, <3>2, <1>4
        <3>. QED  BY <3>4, <3>5
    <2>. QED  BY <2>1, <2>2
<1>10. out # NoState /\ out.slots # {}
    BY <1>5, <1>2, <1>7 DEF NoState
<1>11. Coherent(out)
    BY <1>7, <1>9, <1>10 DEF Coherent
<1>. QED  BY <1>5, <1>8, <1>11 DEF new, out

(* What an estimate writes over the state of its window. *)
Done(e, now) == [e EXCEPT !.slots = Slots, !.status = "complete", !.last = now]

LEMMA EstimateEffect ==
    ASSUME NEW now \in Record, NEW loaded \in Record, NEW t \in Stamps, NEW s \in Slots,
           Coherent(now), Coherent(loaded), loaded # NoState, loaded.slots \subseteq now.slots,
           s \notin loaded.slots, loaded.slots \cup {s} = Slots
    PROVE  /\ Flushed(now, loaded, Done(loaded, t)) \in StateType
           /\ Coherent(Flushed(now, loaded, Done(loaded, t)))
           /\ Flushed(now, loaded, Done(loaded, t)).slots = Slots
<1>. DEFINE new == Done(loaded, t)
            out == Flushed(now, loaded, new)
<1>1. /\ loaded \in StateType /\ loaded.slots # Slots /\ loaded.slots # {}
      /\ loaded.status # "complete"
    BY DEF Coherent, Record
<1>2. /\ new \in StateType /\ new.slots = Slots /\ new.status = "complete"
      /\ new.first = loaded.first /\ new.late = loaded.late
    BY <1>1 DEF StateType, Done
<1>3. now \in StateType
    BY <1>1 DEF Coherent, Record, NoState
<1>. HIDE DEF new
<1>4. out = [slots |-> IF new.slots = loaded.slots THEN now.slots ELSE new.slots,
             first |-> IF new.first = loaded.first THEN now.first ELSE new.first,
             last |-> IF new.last = loaded.last THEN now.last ELSE new.last,
             status |-> IF new.status = loaded.status THEN now.status ELSE new.status,
             late |-> IF new.late = loaded.late THEN now.late ELSE new.late]
    BY <1>2, FlushedFields DEF Record
<1>. HIDE DEF out
<1>5. out \in StateType /\ out.slots = Slots /\ out.status = "complete"
    BY <1>1, <1>2, <1>3, <1>4 DEF StateType
<1>6. Coherent(out)
    BY <1>5, WindowsAssumption DEF Coherent, NoState
<1>. QED  BY <1>5, <1>6 DEF new, out

-------------------------------------------------------------------------------
(* Cursors. *)

CursorType == [stamp : Nat, window : Nat]

LEMMA BehindIsAnOrder ==
    ASSUME NEW a, NEW b, NEW c,
           a.stamp \in Nat, a.window \in Nat, b.stamp \in Nat, b.window \in Nat,
           c.stamp \in Nat, c.window \in Nat
    PROVE  /\ ~ Behind(a, a)
           /\ Behind(a, b) => ~ Behind(b, a)
           /\ Behind(a, b) /\ Behind(b, c) => Behind(a, c)
           /\ Behind(a, b) \/ Behind(b, a) \/ (a.stamp = b.stamp /\ a.window = b.window)
BY DEF Behind

LEMMA BlockFields ==
    ASSUME NEW b \in BlockType
    PROVE  /\ b.window \in Windows /\ b.window \in Nat /\ b.window # 0
           /\ b.stamp \in Nat /\ b.stamp # 0 /\ b.stamp <= MaxClock /\ b.stamp \in Stamps
           /\ b.slots \in SUBSET Slots /\ b.slots # {}
<1>1. /\ b.window \in Windows /\ b.stamp \in 1..MaxClock
      /\ b.slots \in (SUBSET Slots) \ {{}}
    BY DEF BlockType
<1>2. Windows \in SUBSET (Nat \ {0}) /\ MaxClock \in Nat
    BY WindowsAssumption
<1>3. b.window \in Nat /\ b.window # 0
    BY <1>1, <1>2
<1>4. b.stamp \in Nat /\ b.stamp # 0 /\ b.stamp <= MaxClock
    BY <1>1, <1>2
<1>. QED  BY <1>1, <1>2, <1>3, <1>4 DEF Stamps

(* Of blocks of different windows one has the last cursor: the cursors are    *)
(* ordered, and there are finitely many windows.                             *)
LEMMA LastOfBlocks ==
    ASSUME NEW B \in SUBSET BlockType, B # {},
           \A a, b \in B : a.window = b.window => a = b
    PROVE  /\ LastOf(B) \in B
           /\ \A a \in B \ {LastOf(B)} : Behind(a, LastOf(B))
<1>1. \A b \in B : /\ b.stamp \in Nat /\ b.stamp <= MaxClock
                   /\ b.window \in Nat /\ b.window \in Windows
    BY BlockFields
<1>2. PICK t \in {b.stamp : b \in B} : \A u \in {b.stamp : b \in B} : u <= t
    <2>1. {b.stamp : b \in B} \in SUBSET Nat /\ {b.stamp : b \in B} # {}
        BY <1>1
    <2>2. \A u \in {b.stamp : b \in B} : u <= MaxClock
        BY <1>1
    <2>3. MaxClock \in Nat
        BY WindowsAssumption
    <2>. QED  BY <2>1, <2>2, <2>3, HighestExists
<1>. DEFINE L == {b \in B : b.stamp = t}
            V == {b.window : b \in L}
<1>3. L # {} /\ V # {}
    BY <1>2
<1>4. V \in SUBSET Windows /\ V \in SUBSET Nat /\ IsFiniteSet(V)
    <2>1. V \in SUBSET Windows
        BY <1>1
    <2>. QED  BY <2>1, WindowsAssumption, FS_Subset
<1>5. PICK n \in Nat : \A v \in V : v <= n
    <2>. HIDE DEF V
    <2>. QED  BY <1>4, FiniteHasBound
<1>6. PICK v \in V : \A u \in V : u <= v
    <2>. HIDE DEF V
    <2>. QED  BY <1>3, <1>4, <1>5, HighestExists
<1>7. PICK l \in B : l.stamp = t /\ l.window = v
    OBVIOUS
<1>8. ASSUME NEW a \in B \ {l}
      PROVE  Behind(a, l)
    <2>1. a.stamp <= t /\ a.window # l.window
        BY <1>2
    <2>2. CASE a.stamp = t
        <3>1. a.window <= v
            BY <2>2, <1>6
        <3>. QED  BY <2>1, <2>2, <3>1, <1>1, <1>7 DEF Behind
    <2>3. CASE a.stamp # t
        BY <2>1, <2>3, <1>1, <1>7 DEF Behind
    <2>. QED  BY <2>2, <2>3
<1>9. \E b \in B : \A a \in B \ {b} : Behind(a, b)
    BY <1>8
<1>. QED  BY <1>9, Zenon DEF LastOf

-------------------------------------------------------------------------------
(* The invariant of the merge. *)

LEMMA MergeInit == Init => MergeInv
<1>. SUFFICES ASSUME Init PROVE MergeInv
    OBVIOUS
<1>1. 0 \notin Windows /\ MaxClock \in Nat /\ Slots # {}
    BY WindowsAssumption
<1>2. TypeOK
    <2>1. NoStates \in [Windows -> StateType \cup {NoState}]
        BY DEF NoStates
    <2>2. /\ clock \in Stamps \ {0} /\ landing \subseteq BlockType /\ raw \subseteq RowType
          /\ state \in [Windows -> StateType \cup {NoState}]
          /\ watermark \in [stamp : Stamps, window : Nat] /\ overtaken \subseteq Windows
        BY <1>1, <2>1, WindowsAssumption DEF Init, Stamps
    <2>3. source \in [Windows -> [stamp : Stamps, slots : SUBSET Slots]]
        BY <1>1 DEF Init, Stamps
    <2>4. poll \in [pc : {"idle", "ingested", "merging"}, blocks : SUBSET BlockType,
                    rows : SUBSET RowType, loaded : [Windows -> StateType \cup {NoState}]]
        BY <2>1 DEF Init, IdlePoll
    <2>5. estimate \in [Operators -> [pc : {"idle", "estimate"}, window : Windows \cup {0},
                                      slot : Slots \cup {0}, loaded : StateType \cup {NoState}]]
        BY DEF Init, Free
    <2>. QED  BY <2>2, <2>3, <2>4, <2>5 DEF TypeOK
<1>3. Coherent(NoState)
    BY <1>1 DEF Coherent, NoState
<1>4. SourceInv /\ StatesInv /\ PollInv /\ EstimatesInv
    BY <1>1, <1>3 DEF Init, SourceInv, StatesInv, PollInv, EstimatesInv, RowsAt, NoStates,
                      IdlePoll, Free, NoState
<1>. QED  BY <1>2, <1>4 DEF MergeInv

LEMMA WriteKeepsMerge ==
    ASSUME MergeInv, NEW w \in Windows, NEW S \in (SUBSET Slots) \ {{}}, WriteBlock(w, S)
    PROVE  MergeInv'
<1>. USE DEF WriteBlock
<1>1. clock \in Nat /\ clock # 0 /\ clock <= MaxClock /\ MaxClock \in Nat
    BY WindowsAssumption DEF MergeInv, TypeOK, Stamps
<1>2. /\ source' \in [Windows -> [stamp : Stamps, slots : SUBSET Slots]]
      /\ \A v \in Windows : source'[v] = IF v = w THEN [stamp |-> clock, slots |-> source[v].slots \cup S]
                                         ELSE source[v]
    BY <1>1 DEF MergeInv, TypeOK, Stamps
<1>3. TypeOK' /\ SourceInv'
    BY <1>1, <1>2 DEF MergeInv, TypeOK, SourceInv
<1>. QED  BY <1>3 DEF MergeInv, StatesInv, PollInv, EstimatesInv, RowsAt

LEMMA TickKeepsMerge == ASSUME MergeInv, Tick PROVE MergeInv'
<1>. USE DEF Tick
<1>1. clock \in Nat /\ clock < MaxClock /\ MaxClock \in Nat /\ clock' = clock + 1
    BY WindowsAssumption DEF MergeInv, TypeOK, Stamps
<1>2. \A w \in Windows : source[w].stamp \in Nat
    BY <1>1 DEF MergeInv, TypeOK, Stamps
<1>3. TypeOK' /\ SourceInv'
    BY <1>1, <1>2 DEF MergeInv, TypeOK, SourceInv, Stamps
<1>. QED  BY <1>3 DEF MergeInv, StatesInv, PollInv, EstimatesInv, RowsAt

(* The blocks and the rows of a fetch. *)
BlocksOf(W) ==
    {[window |-> w, stamp |-> source[w].stamp, slots |-> source[w].slots] : w \in W}

LEMMA FetchedBlocks ==
    ASSUME MergeInv
    PROVE  /\ Fetched \subseteq Windows
           /\ BlocksOf(Fetched) \subseteq BlockType
           /\ NewRows(Fetched) \subseteq RowType
           /\ \A r \in NewRows(Fetched) :
                 \E b \in BlocksOf(Fetched) : b.window = r.window /\ r.slot \in b.slots
           /\ \A b \in BlocksOf(Fetched) : \A s \in b.slots :
                 \E r \in raw \cup NewRows(Fetched) : r.window = b.window /\ r.slot = s
<1>1. Fetched \subseteq Windows /\ Fetched \subseteq Fresh
    BY DEF Fetched, Fresh
<1>2. \A w \in Fetched :
        /\ source[w].stamp \in 1..MaxClock /\ source[w].slots \in (SUBSET Slots) \ {{}}
    BY <1>1, WindowsAssumption DEF MergeInv, TypeOK, SourceInv, Stamps, Fresh
<1>3. BlocksOf(Fetched) \subseteq BlockType
    BY <1>1, <1>2 DEF BlocksOf, BlockType
<1>4. NewRows(Fetched) \subseteq RowType
    BY <1>1, <1>2 DEF NewRows, RowsOf, RowType
<1>5. \A r \in NewRows(Fetched) :
         \E b \in BlocksOf(Fetched) : b.window = r.window /\ r.slot \in b.slots
    <2>. TAKE r \in NewRows(Fetched)
    <2>1. r \in RowsOf(Fetched) /\ r.slot \in source[r.window].slots
        BY DEF NewRows
    <2>2. PICK w \in Fetched : r.window = w
        BY <2>1 DEF RowsOf
    <2>. DEFINE b == [window |-> w, stamp |-> source[w].stamp, slots |-> source[w].slots]
    <2>3. b \in BlocksOf(Fetched) /\ b.window = w /\ b.slots = source[w].slots
        BY DEF BlocksOf
    <2>. QED  BY <2>1, <2>2, <2>3
<1>6. ASSUME NEW w \in Fetched, NEW s \in source[w].slots
      PROVE  \E r \in raw \cup NewRows(Fetched) : r.window = w /\ r.slot = s
    <2>1. s \in Slots
        BY <1>2
    <2>. DEFINE row == [window |-> w, slot |-> s, origin |-> source[w].stamp,
                        status |-> IF Known(raw, w, s, source[w].stamp) THEN "duplicate"
                                   ELSE "mapped"]
    <2>2. row \in RowsOf(Fetched)
        BY <2>1 DEF RowsOf
    <2>3. row.window = w /\ row.slot = s /\ row.origin = source[w].stamp
        OBVIOUS
    <2>. HIDE DEF row
    <2>4. CASE \E q \in raw : <<q.window, q.slot, q.origin>> = <<row.window, row.slot, row.origin>>
        BY <2>3, <2>4
    <2>5. CASE ~ \E q \in raw : <<q.window, q.slot, q.origin>> = <<row.window, row.slot, row.origin>>
        BY <2>2, <2>3, <2>5 DEF NewRows
    <2>. QED  BY <2>4, <2>5
<1>. QED  BY <1>1, <1>3, <1>4, <1>5, <1>6 DEF BlocksOf

LEMMA FetchKeepsMerge == ASSUME MergeInv, Fetch PROVE MergeInv'
<1>1. /\ poll' = [pc |-> "ingested", rows |-> NewRows(Fetched), loaded |-> NoStates,
                  blocks |-> BlocksOf(Fetched)]
      /\ Fetched # {}
      /\ UNCHANGED <<clock, source, landing, raw, state, watermark, estimate, overtaken>>
    BY DEF Fetch, BlocksOf
<1>2. BlocksOf(Fetched) # {} /\ \A a, b \in BlocksOf(Fetched) : a.window = b.window => a = b
    <2>1. \A b \in BlocksOf(Fetched) :
             b = [window |-> b.window, stamp |-> source[b.window].stamp,
                  slots |-> source[b.window].slots]
        BY DEF BlocksOf
    <2>2. PICK w \in Fetched : TRUE
        BY <1>1
    <2>3. [window |-> w, stamp |-> source[w].stamp, slots |-> source[w].slots]
             \in BlocksOf(Fetched)
        BY DEF BlocksOf
    <2>4. ASSUME NEW a \in BlocksOf(Fetched), NEW b \in BlocksOf(Fetched), a.window = b.window
          PROVE  a = b
        BY <2>1, <2>4, Zenon
    <2>. QED  BY <2>3, <2>4
<1>3. /\ poll'.pc = "ingested" /\ poll'.blocks = BlocksOf(Fetched)
      /\ poll'.rows = NewRows(Fetched) /\ poll'.loaded = NoStates
    BY <1>1
<1>4. Coherent(NoState) /\ NoStates \in [Windows -> StateType \cup {NoState}]
      /\ \A w \in Windows : NoStates[w] = NoState
    BY WindowsAssumption DEF Coherent, NoState, NoStates
<1>5. TypeOK'
    BY <1>1, <1>4, FetchedBlocks DEF MergeInv, TypeOK
<1>6. PollInv'
    BY <1>1, <1>2, <1>3, FetchedBlocks DEF PollInv
<1>7. StatesInv'
    BY <1>1, <1>3, <1>4 DEF MergeInv, StatesInv, RowsAt
<1>8. SourceInv' /\ EstimatesInv'
    BY <1>1, <1>3 DEF MergeInv, SourceInv, EstimatesInv
<1>. QED  BY <1>5, <1>6, <1>7, <1>8 DEF MergeInv

LEMMA LoadKeepsMerge == ASSUME MergeInv, LoadStates PROVE MergeInv'
<1>1. /\ poll'.pc = "merging" /\ poll'.loaded = state
      /\ poll'.blocks = poll.blocks /\ poll'.rows = poll.rows
      /\ poll.pc = "ingested"
      /\ UNCHANGED <<clock, source, landing, raw, state, watermark, estimate, overtaken>>
    BY DEF MergeInv, TypeOK, LoadStates
<1>2. TypeOK'
    BY DEF MergeInv, TypeOK, LoadStates
<1>3. StatesInv' /\ SourceInv' /\ PollInv'
    BY <1>1 DEF MergeInv, StatesInv, SourceInv, PollInv, RowsAt
<1>4. EstimatesInv'
    BY <1>1 DEF MergeInv, EstimatesInv
<1>. QED  BY <1>2, <1>3, <1>4 DEF MergeInv

LEMMA FailKeepsMerge == ASSUME MergeInv, FailPoll PROVE MergeInv'
<1>1. /\ poll' = IdlePoll /\ overtaken' \subseteq overtaken
      /\ UNCHANGED <<clock, source, landing, raw, state, watermark, estimate>>
    BY DEF FailPoll
<1>2. Coherent(NoState) /\ NoStates \in [Windows -> StateType \cup {NoState}]
      /\ \A w \in Windows : NoStates[w] = NoState
    BY WindowsAssumption DEF Coherent, NoState, NoStates
<1>3. /\ poll'.pc = "idle" /\ poll'.blocks = {} /\ poll'.rows = {} /\ poll'.loaded = NoStates
    BY <1>1 DEF IdlePoll
<1>4. TypeOK'
    BY <1>1, <1>2 DEF MergeInv, TypeOK, IdlePoll
<1>5. SourceInv' /\ StatesInv' /\ EstimatesInv'
    BY <1>1, <1>2, <1>3 DEF MergeInv, SourceInv, StatesInv, EstimatesInv, RowsAt
<1>6. PollInv'
    BY <1>1, <1>3 DEF PollInv
<1>. QED  BY <1>4, <1>5, <1>6 DEF MergeInv

(* A commit of a poll adds to every window what the poll has for it. *)
LEMMA CommitPollEffect ==
    ASSUME MergeInv, CommitPoll, NEW w \in Windows
    PROVE  /\ state'[w] \in StateType \cup {NoState}
           /\ Coherent(state'[w])
           /\ state'[w].slots = state[w].slots \cup
                 UNION {b.slots : b \in {c \in poll.blocks : c.window = w}}
<1>1. /\ state'[w] = IF \E b \in poll.blocks : b.window = w
                     THEN LET b == CHOOSE b \in poll.blocks : b.window = w IN
                          Flushed(state[w], poll.loaded[w], Merged(poll.loaded[w], b))
                     ELSE state[w]
    BY DEF CommitPoll
<1>2. /\ state[w] \in Record /\ poll.loaded[w] \in Record
      /\ Coherent(state[w]) /\ Coherent(poll.loaded[w])
      /\ poll.blocks \subseteq BlockType
    BY DEF MergeInv, TypeOK, StatesInv, Record
<1>3. \/ state[w].slots = poll.loaded[w].slots
      \/ state[w].slots = Slots /\ OneShort(poll.loaded[w].slots)
    BY DEF MergeInv, PollInv, CommitPoll
<1>4. CASE \E b \in poll.blocks : b.window = w
    <2>1. PICK b \in poll.blocks : b = CHOOSE c \in poll.blocks : c.window = w
        BY <1>4
    <2>2. b.window = w
        BY <1>4, <2>1
    <2>3. {c \in poll.blocks : c.window = w} = {b}
        BY <2>2 DEF MergeInv, PollInv
    <2>4. state'[w] = Flushed(state[w], poll.loaded[w], Merged(poll.loaded[w], b))
        BY <1>1, <1>4, <2>1
    <2>5. b \in BlockType
        BY <1>2
    <2>6. /\ state'[w] \in StateType /\ Coherent(state'[w])
          /\ state'[w].slots = state[w].slots \cup b.slots
        BY <2>4, <2>5, <1>2, <1>3, MergeEffect
    <2>. QED  BY <2>3, <2>6
<1>5. CASE ~ \E b \in poll.blocks : b.window = w
    <2>1. state'[w] = state[w] /\ {c \in poll.blocks : c.window = w} = {}
        BY <1>1, <1>5
    <2>. QED  BY <2>1, <1>2 DEF Record
<1>. QED  BY <1>4, <1>5

LEMMA CommitPollKeepsMerge == ASSUME MergeInv, CommitPoll PROVE MergeInv'
<1>. DEFINE Got(w) == UNION {b.slots : b \in {c \in poll.blocks : c.window = w}}
<1>1. /\ landing' = landing \cup poll.blocks /\ raw' = raw \cup poll.rows
      /\ watermark' = [stamp |-> LastOf(poll.blocks).stamp,
                       window |-> LastOf(poll.blocks).window]
      /\ poll' = IdlePoll
      /\ UNCHANGED <<clock, source, estimate, overtaken>>
      /\ poll.pc = "merging"
    BY DEF CommitPoll
<1>2. DOMAIN state' = Windows /\ state' = [w \in Windows |-> state'[w]]
    BY DEF CommitPoll
<1>3. \A w \in Windows :
        /\ state'[w] \in StateType \cup {NoState} /\ Coherent(state'[w])
        /\ state'[w].slots = state[w].slots \cup Got(w)
    BY CommitPollEffect
<1>4. Coherent(NoState) /\ NoStates \in [Windows -> StateType \cup {NoState}]
      /\ \A w \in Windows : NoStates[w] = NoState
    BY WindowsAssumption DEF Coherent, NoState, NoStates
<1>5. /\ poll'.pc = "idle" /\ poll'.blocks = {} /\ poll'.rows = {} /\ poll'.loaded = NoStates
    BY <1>1 DEF IdlePoll
<1>6. state' \in [Windows -> StateType \cup {NoState}]
    BY <1>2, <1>3
<1>7. watermark' \in [stamp : Stamps, window : Nat]
    <2>1. LastOf(poll.blocks) \in BlockType
        <3>1. /\ poll.blocks # {} /\ poll.blocks \subseteq BlockType
              /\ \A a, b \in poll.blocks : a.window = b.window => a = b
            BY <1>1 DEF MergeInv, TypeOK, PollInv
        <3>. QED  BY <3>1, LastOfBlocks
    <2>. QED  BY <1>1, <2>1, BlockFields
<1>8. TypeOK'
    BY <1>1, <1>4, <1>6, <1>7 DEF MergeInv, TypeOK, IdlePoll
<1>9. StatesInv'
    <2>. SUFFICES ASSUME NEW w \in Windows
                  PROVE  state'[w].slots = {r.slot : r \in {q \in raw \cup poll.rows : q.window = w}}
        BY <1>1, <1>3, <1>4, <1>5 DEF StatesInv, RowsAt
    <2>1. /\ state[w].slots = {r.slot : r \in {q \in raw : q.window = w}}
          /\ \A b \in poll.blocks : \A s \in b.slots :
                 \E r \in raw \cup poll.rows : r.window = b.window /\ r.slot = s
          /\ \A r \in poll.rows : \E b \in poll.blocks : b.window = r.window /\ r.slot \in b.slots
        BY DEF MergeInv, StatesInv, PollInv, RowsAt
    <2>2. state'[w].slots \subseteq {r.slot : r \in {q \in raw \cup poll.rows : q.window = w}}
        BY <2>1, <1>3
    <2>3. \A r \in poll.rows : r.window = w => r.slot \in Got(w)
        BY <2>1
    <2>4. {r.slot : r \in {q \in raw \cup poll.rows : q.window = w}} \subseteq state'[w].slots
        <3>. HIDE DEF Got
        <3>. QED  BY <2>1, <2>3, <1>3
    <2>. QED  BY <2>2, <2>4
<1>10. PollInv'
    BY <1>1, <1>5 DEF PollInv
<1>11. SourceInv' /\ EstimatesInv'
    BY <1>1, <1>3, <1>5 DEF MergeInv, SourceInv, EstimatesInv
<1>. QED  BY <1>8, <1>9, <1>10, <1>11 DEF MergeInv

(* The missing slot of a window is the only one. *)
LEMMA MissingIsOne ==
    ASSUME MergeInv, NEW w \in Windows, NEW s \in MissingSlot(w)
    PROVE  s \in Slots /\ s \notin state[w].slots /\ state[w].slots \cup {s} = Slots
<1>1. state[w].slots \in SUBSET Slots
    BY DEF MergeInv, TypeOK, StateType, NoState
<1>2. Cardinality(Slots \ state[w].slots) = 1 /\ s \in Slots \ state[w].slots
    BY DEF MissingSlot
<1>3. IsFiniteSet(Slots \ state[w].slots)
    BY WindowsAssumption, FS_Subset
<1>4. PICK t : Slots \ state[w].slots = {t}
    BY <1>2, <1>3, FS_Singleton
<1>. QED  BY <1>1, <1>2, <1>4

LEMMA BeginKeepsMerge ==
    ASSUME MergeInv, NEW o \in Operators, NEW w \in Windows, BeginEstimate(o, w)
    PROVE  MergeInv'
<1>1. PICK s \in MissingSlot(w) :
         estimate' = [estimate EXCEPT ![o] = [pc |-> "estimate", window |-> w, slot |-> s,
                                              loaded |-> state[w]]]
    BY DEF BeginEstimate
<1>2. /\ state[w] # NoState
      /\ UNCHANGED <<clock, source, landing, raw, state, watermark, poll, overtaken>>
    BY DEF BeginEstimate
<1>3. s \in Slots /\ s \notin state[w].slots /\ state[w].slots \cup {s} = Slots
    BY MissingIsOne
<1>4. TypeOK'
    BY <1>1, <1>2, <1>3 DEF MergeInv, TypeOK
<1>5. \A p \in Operators : estimate'[p] =
         IF p = o THEN [pc |-> "estimate", window |-> w, slot |-> s, loaded |-> state[w]]
         ELSE estimate[p]
    BY <1>1 DEF MergeInv, TypeOK
<1>6. poll.pc = "merging" => state[w].slots \subseteq poll.loaded[w].slots
    BY <1>3 DEF MergeInv, PollInv
<1>7. EstimatesInv'
    <2>. SUFFICES ASSUME NEW p \in Operators, estimate'[p].pc = "estimate"
                  PROVE  LET e == estimate'[p] IN
                         /\ e.window \in Windows /\ e.slot \in Slots
                         /\ Coherent(e.loaded) /\ e.loaded # NoState
                         /\ e.slot \notin e.loaded.slots /\ e.loaded.slots \cup {e.slot} = Slots
                         /\ e.loaded.slots \subseteq state[e.window].slots
                         /\ poll.pc = "merging" =>
                               e.loaded.slots \subseteq poll.loaded[e.window].slots
        BY <1>2 DEF EstimatesInv
    <2>1. CASE p = o
        BY <2>1, <1>2, <1>3, <1>5, <1>6 DEF MergeInv, StatesInv
    <2>2. CASE p # o
        BY <2>2, <1>5 DEF MergeInv, EstimatesInv
    <2>. QED  BY <2>1, <2>2
<1>8. SourceInv' /\ StatesInv' /\ PollInv'
    BY <1>2 DEF MergeInv, SourceInv, StatesInv, PollInv, RowsAt
<1>. QED  BY <1>4, <1>7, <1>8 DEF MergeInv

LEMMA EstimateKeepsMerge ==
    ASSUME MergeInv, NEW o \in Operators, CommitEstimate(o)
    PROVE  MergeInv'
<1>. DEFINE e == estimate[o]
<1>1. /\ e.pc = "estimate" /\ e.window \in Windows /\ e.slot \in Slots
      /\ Coherent(e.loaded) /\ e.loaded # NoState /\ e.loaded \in Record
      /\ e.slot \notin e.loaded.slots /\ e.loaded.slots \cup {e.slot} = Slots
      /\ e.loaded.slots \subseteq state[e.window].slots
      /\ poll.pc = "merging" => e.loaded.slots \subseteq poll.loaded[e.window].slots
    BY DEF CommitEstimate, MergeInv, EstimatesInv, TypeOK, Record
<1>2. PICK w \in Windows : w = e.window
    BY <1>1
<1>3. PICK s \in Slots : s = e.slot
    BY <1>1
<1>4. PICK was \in Record : was = e.loaded
    BY <1>1
<1>5. [was EXCEPT !.slots = @ \cup {s}, !.status = "complete", !.last = clock] = Done(was, clock)
    BY <1>1, <1>3, <1>4 DEF Done
<1>6. /\ state' = [state EXCEPT ![w] = Flushed(state[w], was, Done(was, clock))]
      /\ raw' = raw \cup {SyntheticRow(w, s)}
      /\ estimate' = [estimate EXCEPT ![o] = Free]
      /\ UNCHANGED <<clock, source, landing, watermark, poll, overtaken>>
    BY <1>2, <1>3, <1>4, <1>5 DEF CommitEstimate
<1>7. state \in [Windows -> Record] /\ clock \in Stamps /\ Coherent(state[w])
    BY DEF MergeInv, TypeOK, StatesInv, Record
<1>. DEFINE new == Flushed(state[w], was, Done(was, clock))
<1>8. new \in StateType /\ Coherent(new) /\ new.slots = Slots
    BY <1>1, <1>2, <1>3, <1>4, <1>7, EstimateEffect
<1>. HIDE DEF e, new
<1>9. state' \in [Windows -> Record]
      /\ \A v \in Windows : state'[v] = IF v = w THEN new ELSE state[v]
    BY <1>6, <1>7, <1>8 DEF Record, new
<1>10. \A p \in Operators : estimate'[p] = IF p = o THEN Free ELSE estimate[p]
    BY <1>6 DEF MergeInv, TypeOK
<1>11. TypeOK'
    <2>1. estimate' \in [Operators -> [pc : {"idle", "estimate"}, window : Windows \cup {0},
                                       slot : Slots \cup {0}, loaded : StateType \cup {NoState}]]
        BY <1>6 DEF MergeInv, TypeOK, Free
    <2>2. SyntheticRow(w, s) \in RowType
        BY DEF SyntheticRow, RowType
    <2>. QED  BY <2>1, <2>2, <1>6, <1>9 DEF MergeInv, TypeOK, Record
<1>12. StatesInv'
    <2>. SUFFICES ASSUME NEW v \in Windows
                  PROVE  /\ Coherent(state'[v])
                         /\ state'[v].slots = {r.slot : r \in {q \in raw' : q.window = v}}
        BY <1>6 DEF MergeInv, StatesInv, RowsAt
    <2>1. /\ Coherent(state[v])
          /\ state[v].slots = {r.slot : r \in {q \in raw : q.window = v}}
        BY DEF MergeInv, StatesInv, RowsAt
    <2>2. SyntheticRow(w, s).window = w /\ SyntheticRow(w, s).slot = s
        BY DEF SyntheticRow
    <2>3. CASE v = w
        <3>1. state[w].slots \cup {s} = Slots
            BY <1>1, <1>2, <1>3, <1>4, <1>7 DEF Record, StateType, NoState
        <3>2. {r.slot : r \in {q \in raw' : q.window = v}} = state[w].slots \cup {s}
            BY <2>1, <2>2, <2>3, <1>6
        <3>. QED  BY <2>3, <3>1, <3>2, <1>8, <1>9
    <2>4. CASE v # w
        <3>1. {q \in raw' : q.window = v} = {q \in raw : q.window = v}
            BY <2>2, <2>4, <1>6
        <3>. QED  BY <2>1, <2>4, <3>1, <1>9
    <2>. QED  BY <2>3, <2>4
<1>13. PollInv'
    <2>1. /\ poll.pc = "idle" => poll = IdlePoll
          /\ poll.pc # "idle" => poll.blocks # {}
          /\ \A a, b \in poll.blocks : a.window = b.window => a = b
          /\ \A b \in poll.blocks : \A t \in b.slots :
                \E r \in raw' \cup poll.rows : r.window = b.window /\ r.slot = t
          /\ \A r \in poll.rows : \E b \in poll.blocks : b.window = r.window /\ r.slot \in b.slots
        BY <1>6 DEF MergeInv, PollInv
    <2>2. ASSUME poll.pc = "merging", NEW v \in Windows
          PROVE  \/ state'[v].slots = poll.loaded[v].slots
                 \/ state'[v].slots = Slots /\ OneShort(poll.loaded[v].slots)
        <3>1. CASE v = w
            <4>1. was.slots \cup {s} = Slots /\ was.slots \subseteq poll.loaded[w].slots
                BY <1>1, <1>2, <1>3, <1>4, <2>2
            <4>2. poll.loaded[w].slots \in SUBSET Slots
                BY DEF MergeInv, TypeOK, StateType, NoState
            <4>3. OneShort(poll.loaded[w].slots)
                BY <4>1, <4>2 DEF OneShort
            <4>. QED  BY <3>1, <4>3, <1>8, <1>9
        <3>2. CASE v # w
            BY <3>2, <2>2, <1>9 DEF MergeInv, PollInv
        <3>. QED  BY <3>1, <3>2
    <2>. QED  BY <2>1, <2>2, <1>6 DEF PollInv
<1>14. EstimatesInv'
    <2>1. \A v \in Windows : state[v].slots \subseteq state'[v].slots
        BY <1>7, <1>8, <1>9 DEF Record, StateType, NoState
    <2>2. estimate'[o].pc # "estimate"
        BY <1>10 DEF Free
    <2>. QED  BY <2>1, <2>2, <1>6, <1>10 DEF MergeInv, EstimatesInv
<1>15. SourceInv'
    BY <1>6 DEF MergeInv, SourceInv
<1>. QED  BY <1>11, <1>12, <1>13, <1>14, <1>15 DEF MergeInv

LEMMA RollBackKeepsMerge ==
    ASSUME MergeInv, NEW o \in Operators, RollBack(o)
    PROVE  MergeInv'
<1>1. /\ estimate' = [estimate EXCEPT ![o] = Free]
      /\ UNCHANGED <<clock, source, landing, raw, state, watermark, poll, overtaken>>
    BY DEF RollBack
<1>2. \A p \in Operators : estimate'[p] = IF p = o THEN Free ELSE estimate[p]
    BY <1>1 DEF MergeInv, TypeOK
<1>3. TypeOK'
    BY <1>1 DEF MergeInv, TypeOK, Free
<1>4. EstimatesInv'
    BY <1>1, <1>2 DEF MergeInv, EstimatesInv, Free
<1>5. SourceInv' /\ StatesInv' /\ PollInv'
    BY <1>1 DEF MergeInv, SourceInv, StatesInv, PollInv, RowsAt
<1>. QED  BY <1>3, <1>4, <1>5 DEF MergeInv

LEMMA MergeStep == MergeInv /\ [Next]_vars => MergeInv'
<1>. SUFFICES ASSUME MergeInv, [Next]_vars PROVE MergeInv'
    OBVIOUS
<1>1. ASSUME NEW w \in Windows, NEW S \in (SUBSET Slots) \ {{}}, WriteBlock(w, S) PROVE MergeInv'
    BY <1>1, WriteKeepsMerge
<1>2. CASE Tick
    BY <1>2, TickKeepsMerge
<1>3. CASE Fetch
    BY <1>3, FetchKeepsMerge
<1>4. CASE LoadStates
    BY <1>4, LoadKeepsMerge
<1>5. CASE CommitPoll
    BY <1>5, CommitPollKeepsMerge
<1>6. CASE FailPoll
    BY <1>6, FailKeepsMerge
<1>7. ASSUME NEW o \in Operators, NEW w \in Windows, BeginEstimate(o, w) PROVE MergeInv'
    BY <1>7, BeginKeepsMerge
<1>8. ASSUME NEW o \in Operators, CommitEstimate(o) PROVE MergeInv'
    BY <1>8, EstimateKeepsMerge
<1>9. ASSUME NEW o \in Operators, RollBack(o) PROVE MergeInv'
    BY <1>9, RollBackKeepsMerge
<1>10. CASE UNCHANGED vars
    BY <1>10 DEF vars, MergeInv, TypeOK, SourceInv, StatesInv, PollInv, EstimatesInv, RowsAt
<1>. QED  BY <1>1, <1>2, <1>3, <1>4, <1>5, <1>6, <1>7, <1>8, <1>9, <1>10 DEF Next

(* In every execution the state of a window tells what was received of it:    *)
(* its slots are those of its rows, and it counts as complete exactly when    *)
(* none is missing, although a poll and an estimation may each write over     *)
(* what the other has committed since it loaded the state.                    *)
THEOREM WindowsMatchTheirRows == Spec => []WindowMatchesRows
<1>1. MergeInv => WindowMatchesRows
    BY DEF MergeInv, StatesInv, Coherent, WindowMatchesRows
<1>. QED  BY <1>1, MergeInit, MergeStep, PTL DEF Spec

-------------------------------------------------------------------------------
(* Publication. *)

LEMMA PublishInit == Init => PublishInv
BY DEF Init, PublishInv, SourceSlotPublishedOnce, IdlePoll

(* The row that a fetch makes of a slot. *)
RowFor(w, s) ==
    [window |-> w, slot |-> s, origin |-> source[w].stamp,
     status |-> IF Known(raw, w, s, source[w].stamp) THEN "duplicate" ELSE "mapped"]

LEMMA FetchKeepsPublish == ASSUME MergeInv, PublishInv, Fetch PROVE PublishInv'
<1>1. raw' = raw /\ poll'.rows = NewRows(Fetched)
    BY DEF Fetch
<1>2. \A r \in NewRows(Fetched) :
         /\ r.window \in Fetched /\ r.origin = source[r.window].stamp
         /\ r.status = IF Known(raw, r.window, r.slot, source[r.window].stamp)
                       THEN "duplicate" ELSE "mapped"
         /\ r = RowFor(r.window, r.slot)
    BY DEF NewRows, RowsOf, RowFor
<1>3. \A w \in Fetched : source[w].stamp # Synthetic
    BY WindowsAssumption DEF Fetched, Fresh, MergeInv, TypeOK, SourceInv, Stamps
<1>4. \A r \in NewRows(Fetched) : r.origin # Synthetic
    BY <1>2, <1>3
<1>5. \A r, q \in NewRows(Fetched) : SameSlot(r, q) => r = q
    <2>. TAKE r, q \in NewRows(Fetched)
    <2>. HAVE SameSlot(r, q)
    <2>1. r.window = q.window /\ r.slot = q.slot
        BY DEF SameSlot
    <2>. QED  BY <2>1, <1>2, Zenon
<1>6. \A r \in NewRows(Fetched), q \in raw : SameSlot(r, q) => r.status = "duplicate"
    BY <1>2 DEF SameSlot, Known
<1>7. SourceSlotPublishedOnce'
    BY <1>1 DEF PublishInv, SourceSlotPublishedOnce
<1>. QED  BY <1>1, <1>4, <1>5, <1>6, <1>7 DEF PublishInv

LEMMA CommitKeepsPublish == ASSUME MergeInv, PublishInv, CommitPoll PROVE PublishInv'
<1>1. raw' = raw \cup poll.rows /\ poll'.rows = {}
    BY DEF CommitPoll, IdlePoll
<1>2. ASSUME NEW r \in raw', NEW q \in raw',
             r.window = q.window, r.slot = q.slot, r.status = "mapped", q.status = "mapped",
             Synthetic \notin {r.origin, q.origin}
      PROVE  r = q
    <2>1. CASE r \in raw /\ q \in raw
        BY <1>2, <2>1 DEF PublishInv, SourceSlotPublishedOnce
    <2>2. CASE r \in poll.rows /\ q \in poll.rows
        BY <1>2, <2>2 DEF PublishInv, SameSlot
    <2>3. CASE r \in poll.rows /\ q \in raw
        BY <1>2, <2>3 DEF PublishInv, SameSlot
    <2>4. CASE r \in raw /\ q \in poll.rows
        BY <1>2, <2>4 DEF PublishInv, SameSlot
    <2>. QED  BY <1>1, <2>1, <2>2, <2>3, <2>4
<1>. QED  BY <1>1, <1>2 DEF PublishInv, SourceSlotPublishedOnce

LEMMA EstimateKeepsPublish ==
    ASSUME MergeInv, PublishInv, NEW o \in Operators, CommitEstimate(o)
    PROVE  PublishInv'
<1>. DEFINE row == SyntheticRow(estimate[o].window, estimate[o].slot)
<1>1. raw' = raw \cup {row} /\ row.origin = Synthetic /\ poll' = poll
    BY DEF CommitEstimate, SyntheticRow
<1>. HIDE DEF row
<1>. QED  BY <1>1 DEF PublishInv, SourceSlotPublishedOnce

LEMMA PublishStep == MergeInv /\ PublishInv /\ [Next]_vars => PublishInv'
<1>. SUFFICES ASSUME MergeInv, PublishInv, [Next]_vars PROVE PublishInv'
    OBVIOUS
<1>1. ASSUME raw' = raw, poll'.rows = poll.rows PROVE PublishInv'
    BY <1>1 DEF PublishInv, SourceSlotPublishedOnce
<1>2. ASSUME NEW w \in Windows, NEW S \in (SUBSET Slots) \ {{}}, WriteBlock(w, S) PROVE PublishInv'
    BY <1>1, <1>2 DEF WriteBlock
<1>3. CASE Tick
    BY <1>1, <1>3 DEF Tick
<1>4. CASE Fetch
    BY <1>4, FetchKeepsPublish
<1>5. CASE LoadStates
    BY <1>1, <1>5 DEF LoadStates, MergeInv, TypeOK
<1>6. CASE CommitPoll
    BY <1>6, CommitKeepsPublish
<1>7. CASE FailPoll
    BY <1>7 DEF FailPoll, IdlePoll, PublishInv, SourceSlotPublishedOnce
<1>8. ASSUME NEW o \in Operators, NEW w \in Windows, BeginEstimate(o, w) PROVE PublishInv'
    BY <1>1, <1>8 DEF BeginEstimate
<1>9. ASSUME NEW o \in Operators, CommitEstimate(o) PROVE PublishInv'
    BY <1>9, EstimateKeepsPublish
<1>10. ASSUME NEW o \in Operators, RollBack(o) PROVE PublishInv'
    BY <1>1, <1>10 DEF RollBack
<1>11. CASE UNCHANGED vars
    BY <1>1, <1>11 DEF vars
<1>. QED  BY <1>2, <1>3, <1>4, <1>5, <1>6, <1>7, <1>8, <1>9, <1>10, <1>11 DEF Next

(* In every execution one of the readings that the head-end has sent for a    *)
(* slot of a window is published, however often the block was rewritten.      *)
THEOREM SourceSlotsPublishedOnce == Spec => []SourceSlotPublishedOnce
<1>1. PublishInv => SourceSlotPublishedOnce
    BY DEF PublishInv
<1>. QED  BY <1>1, MergeInit, MergeStep, PublishInit, PublishStep, PTL DEF Spec

-------------------------------------------------------------------------------
(* The watermark. *)

LEMMA PassInit == Init => PassInv
BY WindowsAssumption DEF Init, PassInv, OnlyLateTiesArePassed, IdlePoll

LEMMA CursorFields ==
    ASSUME MergeInv, NEW w \in Windows
    PROVE  /\ Cursor(w).stamp = source[w].stamp /\ source[w].stamp \in Nat
           /\ Cursor(w).window = w /\ w \in Nat
           /\ clock \in Nat /\ clock # 0 /\ source[w].stamp <= clock
           /\ watermark.stamp \in Nat /\ watermark.window \in Nat
<1>1. source[w].stamp \in Stamps /\ clock \in Stamps \ {0} /\ source[w].stamp <= clock
      /\ watermark \in [stamp : Stamps, window : Nat]
    BY DEF MergeInv, TypeOK, SourceInv
<1>. QED  BY <1>1, WindowsAssumption DEF Cursor, Stamps

(* The last block of an open poll is one of its blocks. *)
LEMMA LastFields ==
    ASSUME MergeInv, poll.pc # "idle"
    PROVE  /\ LastOf(poll.blocks) \in poll.blocks
           /\ LastOf(poll.blocks).stamp \in Nat /\ LastOf(poll.blocks).window \in Nat
<1>1. LastOf(poll.blocks) \in poll.blocks /\ poll.blocks \subseteq BlockType
    BY LastOfBlocks DEF MergeInv, TypeOK, PollInv
<1>. QED  BY <1>1, BlockFields

LEMMA SlotsOnlyGrow ==
    ASSUME MergeInv, MergeInv', raw \subseteq raw', NEW w \in Windows
    PROVE  state[w].slots \subseteq state'[w].slots
BY DEF MergeInv, StatesInv, RowsAt

LEMMA WriteKeepsPass ==
    ASSUME MergeInv, PassInv, NEW w \in Windows, NEW S \in (SUBSET Slots) \ {{}}, WriteBlock(w, S)
    PROVE  PassInv'
<1>1. /\ UNCHANGED <<clock, landing, raw, state, watermark, poll, estimate>>
      /\ \A v \in Windows :
            source'[v] = IF v = w THEN [stamp |-> clock, slots |-> source[v].slots \cup S]
                         ELSE source[v]
    BY DEF WriteBlock, MergeInv, TypeOK
<1>2. PICK c : c = [stamp |-> clock, window |-> w]
    OBVIOUS
<1>3. Cursor(w)' = c /\ source'[w].stamp = clock /\ c.stamp = clock /\ c.window = w
    <2>1. source'[w] = [stamp |-> clock, slots |-> source[w].slots \cup S]
        BY <1>1, Zenon
    <2>. QED  BY <2>1, <1>2 DEF Cursor
<1>4. ASSUME NEW v \in Windows, v # w
      PROVE  /\ source'[v] = source[v] /\ Cursor(v)' = Cursor(v)
             /\ \A l : Tied(l, v)' <=> Tied(l, v)
             /\ v \in overtaken' <=> v \in overtaken
    BY <1>1, <1>4 DEF Cursor, Tied, WriteBlock
<1>5. w \in overtaken' <=> Reached(c)
    BY <1>2 DEF WriteBlock
<1>6. \A l : Tied(l, w)' <=> l.stamp = clock /\ l.window >= w
    BY <1>3 DEF Tied
<1>7. ~ Behind(watermark, c) => \E l \in landing : Tied(l, w)'
    <2>. SUFFICES ASSUME ~ Behind(watermark, c) PROVE \E l \in landing : Tied(l, w)'
        OBVIOUS
    <2>1. watermark.stamp = clock /\ watermark.window >= w /\ clock # 0
        BY <1>3, CursorFields DEF Behind, PassInv
    <2>2. PICK l \in landing : l.stamp = watermark.stamp /\ l.window = watermark.window
        BY <2>1 DEF PassInv
    <2>. QED  BY <2>1, <2>2, <1>6
<1>8. ASSUME poll.pc # "idle", ~ Behind(LastOf(poll.blocks), c)
      PROVE  \E l \in poll.blocks : Tied(l, w)'
    <2>1. PICK l \in poll.blocks : l = LastOf(poll.blocks) /\ l.stamp \in Nat /\ l.window \in Nat
        BY <1>8, LastFields
    <2>2. l.stamp = clock /\ l.window >= w
        BY <2>1, <1>3, <1>8, CursorFields DEF Behind, PassInv
    <2>. QED  BY <2>2, <1>6
<1>9. OnlyLateTiesArePassed'
    <2>. SUFFICES ASSUME NEW v \in Windows, source'[v].slots # {}, ~ Behind(watermark, Cursor(v)')
                  PROVE  \/ source'[v].slots \subseteq state[v].slots
                         \/ v \in overtaken' /\ \E l \in landing : Tied(l, v)'
        BY <1>1 DEF OnlyLateTiesArePassed
    <2>1. CASE v = w
        BY <2>1, <1>3, <1>5, <1>7 DEF Reached
    <2>2. CASE v # w
        BY <2>2, <1>4 DEF PassInv, OnlyLateTiesArePassed
    <2>. QED  BY <2>1, <2>2
<1>10. ASSUME poll.pc # "idle", NEW v \in Windows, source'[v].slots # {},
              ~ Behind(LastOf(poll.blocks), Cursor(v)')
       PROVE  \/ ~ Behind(watermark, Cursor(v)')
              \/ v \in overtaken'
              \/ \E b \in poll.blocks : b.window = v /\ b.slots = source'[v].slots
    <2>1. CASE v = w
        BY <2>1, <1>10, <1>3, <1>5 DEF Reached
    <2>2. CASE v # w
        BY <2>2, <1>10, <1>4 DEF PassInv
    <2>. QED  BY <2>1, <2>2
<1>11. ASSUME NEW v \in overtaken'
       PROVE  \/ ~ Behind(watermark, Cursor(v)') /\ \E l \in landing : Tied(l, v)'
              \/ /\ poll.pc # "idle" /\ Behind(watermark, Cursor(v)')
                 /\ ~ Behind(LastOf(poll.blocks), Cursor(v)')
                 /\ \E l \in poll.blocks : Tied(l, v)'
    <2>1. CASE v = w
        BY <2>1, <1>3, <1>5, <1>7, <1>8, <1>11 DEF Reached
    <2>2. CASE v # w
        <3>1. v \in Windows
            BY <2>2 DEF WriteBlock, MergeInv, TypeOK
        <3>. QED  BY <2>2, <3>1, <1>4, <1>11 DEF PassInv
    <2>. QED  BY <2>1, <2>2
<1>. QED  BY <1>1, <1>9, <1>10, <1>11 DEF PassInv

LEMMA TickKeepsPass == ASSUME MergeInv, PassInv, Tick PROVE PassInv'
<1>1. /\ clock' = clock + 1 /\ clock \in Nat /\ watermark.stamp \in Nat
      /\ UNCHANGED <<source, landing, raw, state, watermark, poll, estimate, overtaken>>
    BY WindowsAssumption DEF Tick, MergeInv, TypeOK, Stamps
<1>2. poll.pc # "idle" => LastOf(poll.blocks).stamp \in Nat
    BY LastFields
<1>. QED  BY <1>1, <1>2 DEF PassInv, OnlyLateTiesArePassed, Cursor, Tied

(* A fetch leaves out nothing between the watermark and the last block it     *)
(* takes.                                                                     *)
LEMMA FetchedIsClosed ==
    ASSUME MergeInv, NEW l \in Fetched, NEW w \in Windows, source[w].slots # {},
           Behind(watermark, Cursor(w)), ~ Behind(Cursor(l), Cursor(w))
    PROVE  w \in Fetched
<1>. DEFINE BeforeL == {u \in Fresh : Behind(Cursor(u), Cursor(l))}
            BeforeW == {u \in Fresh : Behind(Cursor(u), Cursor(w))}
<1>1. l \in Fresh /\ Fresh \subseteq Windows /\ l \in Windows
      /\ Cardinality(BeforeL) < BatchSize
    BY DEF Fetched, Fresh
<1>2. /\ Cursor(w).stamp = source[w].stamp /\ source[w].stamp \in Nat /\ Cursor(w).window = w
      /\ Cursor(l).stamp = source[l].stamp /\ source[l].stamp \in Nat /\ Cursor(l).window = l
      /\ w \in Nat /\ l \in Nat
    BY <1>1, CursorFields
<1>4. w \in Fresh
    BY DEF Fresh
<1>5. CASE w = l
    BY <1>5
<1>6. CASE w # l
    <2>1. Behind(Cursor(w), Cursor(l))
        BY <1>2, <1>6 DEF Behind
    <2>2. BeforeW \subseteq BeforeL
        <3>. SUFFICES ASSUME NEW u \in Fresh, Behind(Cursor(u), Cursor(w))
                      PROVE  Behind(Cursor(u), Cursor(l))
            OBVIOUS
        <3>1. u \in Windows /\ Behind(Cursor(u), Cursor(w))
            BY <1>1
        <3>2. Cursor(u).stamp \in Nat /\ Cursor(u).window \in Nat
            BY <3>1, CursorFields
        <3>3. Behind(Cursor(u), Cursor(l))
            BY <3>1, <3>2, <2>1, <1>2, BehindIsAnOrder
        <3>. QED  BY <3>3
    <2>3. IsFiniteSet(BeforeL)
        BY <1>1, WindowsAssumption, FS_Subset
    <2>4. /\ Cardinality(BeforeW) <= Cardinality(BeforeL)
          /\ Cardinality(BeforeW) \in Nat /\ Cardinality(BeforeL) \in Nat
        <3>. HIDE DEF BeforeL, BeforeW
        <3>. QED  BY <2>2, <2>3, FS_Subset, FS_CardinalityType
    <2>5. Cardinality(BeforeW) < BatchSize
        BY <2>4, <1>1, WindowsAssumption
    <2>. QED  BY <2>5, <1>4 DEF Fetched
<1>. QED  BY <1>5, <1>6

LEMMA FetchKeepsPass ==
    ASSUME MergeInv, MergeInv', PassInv, Fetch
    PROVE  PassInv'
<1>1. /\ poll'.blocks = BlocksOf(Fetched) /\ poll'.pc = "ingested" /\ poll.pc = "idle"
      /\ UNCHANGED <<clock, source, landing, raw, state, watermark, estimate, overtaken>>
    BY DEF Fetch, BlocksOf
<1>2. LastOf(poll'.blocks) \in poll'.blocks
    <2>1. /\ poll'.blocks # {} /\ poll'.blocks \subseteq BlockType
          /\ \A a, b \in poll'.blocks : a.window = b.window => a = b
        BY <1>1 DEF MergeInv, TypeOK, PollInv
    <2>. QED  BY <2>1, LastOfBlocks
<1>3. PICK l \in Fetched :
         LastOf(poll'.blocks) = [window |-> l, stamp |-> source[l].stamp, slots |-> source[l].slots]
    BY <1>1, <1>2 DEF BlocksOf
<1>4. l \in Windows /\ Behind(watermark, Cursor(l))
    BY DEF Fetched, Fresh
<1>5. source[l].stamp <= clock /\ Behind(watermark, LastOf(poll'.blocks))
    BY <1>3, <1>4, CursorFields DEF Behind
<1>6. ASSUME NEW w \in Windows, source[w].slots # {},
             ~ Behind(LastOf(poll'.blocks), Cursor(w)), Behind(watermark, Cursor(w))
      PROVE  \E b \in BlocksOf(Fetched) : b.window = w /\ b.slots = source[w].slots
    <2>1. ~ Behind(Cursor(l), Cursor(w))
        BY <1>3, <1>6 DEF Behind, Cursor
    <2>2. w \in Fetched
        BY <1>6, <2>1, FetchedIsClosed
    <2>. DEFINE b == [window |-> w, stamp |-> source[w].stamp, slots |-> source[w].slots]
    <2>3. b \in BlocksOf(Fetched) /\ b.window = w /\ b.slots = source[w].slots
        BY <2>2 DEF BlocksOf
    <2>. QED  BY <2>3
<1>7. \A w : Cursor(w)' = Cursor(w) /\ \A k : Tied(k, w)' <=> Tied(k, w)
    BY <1>1 DEF Cursor, Tied
<1>8. OnlyLateTiesArePassed'
    BY <1>1, <1>7 DEF PassInv, OnlyLateTiesArePassed
<1>9. \A w \in overtaken : ~ Behind(watermark, Cursor(w)) /\ \E k \in landing : Tied(k, w)
    BY <1>1 DEF PassInv
<1>. QED  BY <1>1, <1>3, <1>5, <1>6, <1>7, <1>8, <1>9 DEF PassInv

LEMMA CommitKeepsPass ==
    ASSUME MergeInv, MergeInv', PassInv, CommitPoll
    PROVE  PassInv'
<1>1. /\ poll.pc # "idle" /\ poll'.pc = "idle"
      /\ watermark'.stamp = LastOf(poll.blocks).stamp
      /\ watermark'.window = LastOf(poll.blocks).window
      /\ UNCHANGED <<clock, source, overtaken>> /\ raw \subseteq raw'
      /\ landing' = landing \cup poll.blocks
    BY DEF CommitPoll, IdlePoll
<1>2. \A w : /\ Cursor(w)' = Cursor(w) /\ \A l : Tied(l, w)' <=> Tied(l, w)
             /\ Behind(watermark', Cursor(w)) <=> Behind(LastOf(poll.blocks), Cursor(w))
    BY <1>1 DEF Cursor, Tied, Behind
<1>3. /\ LastOf(poll.blocks) \in poll.blocks /\ Behind(watermark, LastOf(poll.blocks))
      /\ LastOf(poll.blocks).stamp \in Nat /\ LastOf(poll.blocks).window \in Nat
      /\ LastOf(poll.blocks).stamp <= clock
    BY <1>1, LastFields DEF PassInv
<1>4. \A w \in overtaken : \E l \in landing' : Tied(l, w)
    BY <1>1 DEF PassInv
<1>5. ASSUME NEW w \in Windows, source[w].slots # {}, ~ Behind(LastOf(poll.blocks), Cursor(w))
      PROVE  source[w].slots \subseteq state'[w].slots \/ w \in overtaken
    <2>1. state[w].slots \subseteq state'[w].slots
        BY <1>1, SlotsOnlyGrow
    <2>2. CASE ~ Behind(watermark, Cursor(w))
        BY <1>5, <2>1, <2>2 DEF PassInv, OnlyLateTiesArePassed
    <2>3. CASE \E b \in poll.blocks : b.window = w /\ b.slots = source[w].slots
        BY <2>3, CommitPollEffect
    <2>. QED  BY <1>1, <1>5, <2>2, <2>3 DEF PassInv
<1>6. ASSUME NEW w \in overtaken PROVE ~ Behind(LastOf(poll.blocks), Cursor(w))
    <2>1. w \in Windows
        BY DEF MergeInv, TypeOK
    <2>2. CASE ~ Behind(watermark, Cursor(w))
        BY <2>1, <2>2, <1>3, CursorFields, BehindIsAnOrder
    <2>3. CASE Behind(watermark, Cursor(w))
        BY <2>3 DEF PassInv
    <2>. QED  BY <2>2, <2>3
<1>7. OnlyLateTiesArePassed'
    BY <1>1, <1>2, <1>4, <1>5 DEF OnlyLateTiesArePassed
<1>8. watermark'.stamp <= clock' /\ \E l \in landing' : l.stamp = watermark'.stamp
                                                   /\ l.window = watermark'.window
    BY <1>1, <1>3
<1>9. \A w \in overtaken' : ~ Behind(watermark', Cursor(w)') /\ \E l \in landing' : Tied(l, w)'
    BY <1>1, <1>2, <1>4, <1>6
<1>. QED  BY <1>1, <1>7, <1>8, <1>9 DEF PassInv

(* A block that was overtaken by a poll which then failed is fetched again. *)
LEMMA FailKeepsPass == ASSUME MergeInv, PassInv, FailPoll PROVE PassInv'
<1>1. /\ poll'.pc = "idle" /\ overtaken' = {w \in overtaken : ~ Behind(watermark, Cursor(w))}
      /\ UNCHANGED <<clock, source, landing, raw, state, watermark>>
    BY DEF FailPoll, IdlePoll
<1>2. \A w : Cursor(w)' = Cursor(w) /\ \A l : Tied(l, w)' <=> Tied(l, w)
    BY <1>1 DEF Cursor, Tied
<1>3. OnlyLateTiesArePassed'
    BY <1>1, <1>2 DEF PassInv, OnlyLateTiesArePassed
<1>. QED  BY <1>1, <1>2, <1>3 DEF PassInv

LEMMA PassStep == MergeInv /\ MergeInv' /\ PassInv /\ [Next]_vars => PassInv'
<1>. SUFFICES ASSUME MergeInv, MergeInv', PassInv, [Next]_vars PROVE PassInv'
    OBVIOUS
<1>1. ASSUME UNCHANGED <<clock, source, watermark, landing, raw, overtaken>>,
             poll'.pc = "idle" <=> poll.pc = "idle", poll'.blocks = poll.blocks
      PROVE  PassInv'
    <2>1. \A w : Cursor(w)' = Cursor(w) /\ \A l : Tied(l, w)' <=> Tied(l, w)
        BY <1>1 DEF Cursor, Tied
    <2>2. \A w \in Windows : state[w].slots \subseteq state'[w].slots
        BY <1>1, SlotsOnlyGrow
    <2>3. OnlyLateTiesArePassed'
        BY <1>1, <2>1, <2>2 DEF PassInv, OnlyLateTiesArePassed
    <2>. QED  BY <1>1, <2>1, <2>3 DEF PassInv
<1>2. ASSUME NEW w \in Windows, NEW S \in (SUBSET Slots) \ {{}}, WriteBlock(w, S) PROVE PassInv'
    BY <1>2, WriteKeepsPass
<1>3. CASE Tick
    BY <1>3, TickKeepsPass
<1>4. CASE Fetch
    BY <1>4, FetchKeepsPass
<1>5. CASE LoadStates
    BY <1>1, <1>5 DEF LoadStates, MergeInv, TypeOK
<1>6. CASE CommitPoll
    BY <1>6, CommitKeepsPass
<1>7. CASE FailPoll
    BY <1>7, FailKeepsPass
<1>8. ASSUME NEW o \in Operators, NEW w \in Windows, BeginEstimate(o, w) PROVE PassInv'
    BY <1>1, <1>8 DEF BeginEstimate
<1>9. ASSUME NEW o \in Operators, CommitEstimate(o) PROVE PassInv'
    <2>1. UNCHANGED <<clock, source, landing, watermark, poll, overtaken>> /\ raw \subseteq raw'
        BY <1>9 DEF CommitEstimate
    <2>2. \A w : Cursor(w)' = Cursor(w) /\ \A l : Tied(l, w)' <=> Tied(l, w)
        BY <2>1 DEF Cursor, Tied
    <2>3. \A w \in Windows : state[w].slots \subseteq state'[w].slots
        BY <2>1, SlotsOnlyGrow
    <2>4. OnlyLateTiesArePassed'
        BY <2>1, <2>2, <2>3 DEF PassInv, OnlyLateTiesArePassed
    <2>. QED  BY <2>1, <2>2, <2>4 DEF PassInv
<1>10. ASSUME NEW o \in Operators, RollBack(o) PROVE PassInv'
    BY <1>1, <1>10 DEF RollBack
<1>11. CASE UNCHANGED vars
    BY <1>1, <1>11 DEF vars
<1>. QED  BY <1>2, <1>3, <1>4, <1>5, <1>6, <1>7, <1>8, <1>9, <1>10, <1>11 DEF Next

(* In every execution what the cursor has passed has arrived, whatever was    *)
(* cut off by the batch limit, failed or was rewritten meanwhile, except the  *)
(* blocks that were written after a poll had read from their second, under a  *)
(* key that it had reached.                                                  *)
THEOREM OnlyLateTiesAreLost == Spec => []OnlyLateTiesArePassed
<1>1. PassInv => OnlyLateTiesArePassed
    BY DEF PassInv
<1>2. Init => PassInv
    BY PassInit
<1>3. MergeInv /\ MergeInv' /\ PassInv /\ [Next]_vars => PassInv'
    BY PassStep
<1>. QED  BY <1>1, <1>2, <1>3, MergeInit, MergeStep, PTL DEF Spec
===============================================================================
