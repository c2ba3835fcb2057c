---------------------------- MODULE Ingestion_proofs ----------------------------
(***************************************************************************)
(* Proofs about Ingestion, for any batches, records, deliveries, operators *)
(* and numbers of rows.                                                    *)
(***************************************************************************)
EXTENDS Ingestion, TLAPS

--------------------------------------------------------------------------------
(* Rows. *)

LEMMA NoneIsNothing ==
    /\ None \notin Records /\ None \notin Deliverers /\ None \notin Batches
    /\ \A r \in Records : Key[r] # None
    /\ None \notin Events /\ Events \subseteq Records
BY IntakeAssumption

LEMMA ContentOfBatch ==
    ASSUME NEW b \in Batches
    PROVE  /\ Content[b] \in Seq(Records) /\ Len(Content[b]) \in Nat
           /\ DOMAIN Content[b] = 1..Len(Content[b])
           /\ \A n \in 1..Len(Content[b]) : Content[b][n] \in Records
<1>1. Content[b] \in Seq(Records)
    BY IntakeAssumption
<1>. QED  BY <1>1

LEMMA KeyReadType ==
    ASSUME NEW r \in Records, NEW faulty \in BOOLEAN
    PROVE  /\ KeyRead(r, faulty) \in Keys \cup {None}
           /\ KeyRead(r, faulty) # None => r \notin Events /\ KeyRead(r, faulty) = Key[r]
           /\ KeyRead(r, Fault[r] # "none") # None => Fault[r] \in {"none", "invalid_numeric_value"}
           /\ KeyRead(r, TRUE) # None => Fault[r] = "invalid_numeric_value"
BY DEF KeyRead, Keys

LEMMA NoRowType == NoRow \in RowType
BY DEF NoRow, RowType

LEMMA FaultType ==
    ASSUME NEW r \in Records
    PROVE  Fault[r] \in Codes \cup {"none"}
BY IntakeAssumption DEF Codes, Reprocessable, Faults

(* The row that a delivery stores. *)
RowOf(r, d, status, code) ==
    [rec |-> r, key |-> KeyRead(r, Fault[r] # "none"),
     known |-> KeyRead(r, Fault[r] # "none") # None,
     status |-> status, dup |-> status = "duplicate", canonical |-> status = "mapped",
     code |-> code, error |-> IF code = "none" THEN "none" ELSE "open", owner |-> d]

Statuses == {"mapped", "duplicate", "exception", "stored"}

LEMMA RowOfType ==
    ASSUME NEW r \in Records, NEW d \in Deliverers, NEW status \in Statuses,
           NEW code \in Codes \cup {"none"}
    PROVE  RowOf(r, d, status, code) \in RowType
<1>1. KeyRead(r, Fault[r] # "none") \in Keys \cup {None}
    BY KeyReadType
<1>. QED  BY <1>1 DEF RowOf, RowType, Statuses

Stores(d) ==
    \/ StoreInvalid(d) \/ StoreDuplicate(d) \/ StoreUnmapped(d) \/ StoreMapped(d)
    \/ StoreEvent(d)

LEMMA CurrentIsARecord ==
    ASSUME TypeOK, DeliveriesInv, NEW d \in Deliverers, Processing(d)
    PROVE  /\ Current(d) \in Records /\ delivery[d].batch \in Batches
           /\ delivery[d].next \in DOMAIN Content[delivery[d].batch]
<1>1. delivery[d].batch \in Batches /\ delivery[d].next \in Nat \ {0}
    BY DEF TypeOK, DeliveriesInv, Processing
<1>2. delivery[d].next <= Len(Content[delivery[d].batch])
    BY DEF Processing
<1>. QED  BY <1>1, <1>2, ContentOfBatch DEF Current

(* What storing a record does, whatever becomes of it. *)
Fits(d, status, code) ==
    /\ Agree(RowOf(Current(d), d, status, code))
    /\ Current(d) \notin Events => ~ Replayed(d, Current(d))
    /\ status = "mapped" =>
          Current(d) \notin Events /\ SameKey(Visible(d), 0, Key[Current(d)]) = {}

LEMMA StoreChooses ==
    ASSUME TypeOK, DeliveriesInv, NEW d \in Deliverers, Stores(d)
    PROVE  \E status \in Statuses, code \in Codes \cup {"none"} :
              Store(d, status, code) /\ Fits(d, status, code)
<1>1. Current(d) \in Records
    BY CurrentIsARecord DEF Stores, StoreInvalid, StoreDuplicate, StoreUnmapped, StoreMapped,
                            StoreEvent, IsNewRead
<1>2. Fault[Current(d)] \in Codes \cup {"none"}
    BY <1>1, FaultType
<1>. USE DEF Fits, Agree, RowOf, Statuses, Faults, Codes, Reprocessable
<1>3. CASE StoreInvalid(d)
    <2>1. Fits(d, "exception", Fault[Current(d)])
        BY <1>3 DEF StoreInvalid, IsNewRead
    <2>. QED  BY <2>1, <1>2, <1>3 DEF StoreInvalid
<1>4. CASE StoreDuplicate(d)
    <2>1. Fits(d, "duplicate", "duplicate_raw_read")
        BY <1>4 DEF StoreDuplicate, IsNewRead
    <2>. QED  BY <2>1, <1>4 DEF StoreDuplicate
<1>5. CASE StoreUnmapped(d)
    <2>1. Fits(d, "exception", "measuring_component_not_found")
        BY <1>5 DEF StoreUnmapped, IsNewRead
    <2>. QED  BY <2>1, <1>5 DEF StoreUnmapped
<1>6. CASE StoreMapped(d)
    <2>1. Fits(d, "mapped", "none")
        BY <1>6 DEF StoreMapped, IsNewRead, IsDuplicate
    <2>. QED  BY <2>1, <1>6 DEF StoreMapped
<1>7. CASE StoreEvent(d)
    <2>1. Fits(d, "stored", Fault[Current(d)])
        BY <1>7 DEF StoreEvent
    <2>. QED  BY <2>1, <1>2, <1>7 DEF StoreEvent
<1>. QED  BY <1>3, <1>4, <1>5, <1>6, <1>7 DEF Stores

LEMMA StoreEffect ==
    ASSUME TypeOK, DeliveriesInv, NEW d \in Deliverers, Stores(d)
    PROVE  \E i \in Ids, status \in Statuses, code \in Codes \cup {"none"} :
              /\ raw[i].rec = None
              /\ raw' = [raw EXCEPT ![i] = RowOf(Current(d), d, status, code)]
              /\ Fits(d, status, code)
BY StoreChooses, Zenon DEF Store, IsNextId, RowOf

LEMMA StoreFrame ==
    ASSUME NEW d \in Deliverers, Stores(d)
    PROVE  /\ Processing(d)
           /\ delivery' = [delivery EXCEPT ![d].next = @ + 1]
           /\ UNCHANGED <<mapped, accepted, watermark, repair>>
BY DEF Stores, StoreInvalid, StoreDuplicate, StoreUnmapped, StoreMapped, StoreEvent, IsNewRead,
       Store, Advance

--------------------------------------------------------------------------------
(* What an operator makes of a row. *)

LEMMA RowFields ==
    ASSUME NEW row \in RowType
    PROVE  /\ row.rec \in Records \cup {None} /\ row.key \in Keys \cup {None}
           /\ row.known \in BOOLEAN /\ row.dup \in BOOLEAN /\ row.canonical \in BOOLEAN
           /\ row.status \in {"absent", "mapped", "duplicate", "exception", "stored"}
           /\ row.code \in Codes \cup {"none"}
           /\ row.error \in {"none", "open", "failed", "resolved"}
           /\ row.owner \in Deliverers \cup {None}
           /\ DOMAIN row = {"rec", "key", "known", "status", "dup", "canonical", "code",
                            "error", "owner"}
BY DEF RowType

LEMMA ReparsedEffect ==
    ASSUME NEW row \in RowType, row.rec \in Records
    PROVE  /\ Reparsed(row) \in RowType
           /\ Reparsed(row).rec = row.rec /\ Reparsed(row).owner = row.owner
           /\ Reparsed(row).known = row.known /\ Reparsed(row).code = row.code
           /\ Reparsed(row).dup = row.dup /\ Reparsed(row).canonical = row.canonical
           /\ Reparsed(row).status = row.status /\ Reparsed(row).error = row.error
           /\ Reparsed(row).key = IF row.code \in Faults THEN KeyRead(row.rec, FaultyNow(row.rec))
                                  ELSE row.key
<1>1. KeyRead(row.rec, FaultyNow(row.rec)) \in Keys \cup {None}
    BY KeyReadType DEF FaultyNow
<1>. QED  BY <1>1 DEF Reparsed, RowType

LEMMA ReprocessedEffect ==
    ASSUME TypeOK, NEW i \in Committed, raw[i].rec \in Records \ Events
    PROVE  LET new == Reprocessed(i) IN
           /\ new \in RowType
           /\ new.rec = raw[i].rec /\ new.owner = raw[i].owner /\ new.known = raw[i].known
           /\ Agree(raw[i]) => Agree(new)
           /\ new.key = raw[i].key \/ new.key = KeyRead(raw[i].rec, FaultyNow(raw[i].rec))
           /\ new.canonical => raw[i].canonical \/ SameKey(Committed, i, new.key) = {}
<1>. DEFINE row == Reparsed(raw[i])
            new == Reprocessed(i)
<1>1. i \in Ids /\ raw[i] \in RowType
    BY DEF Committed, TypeOK
<1>2. /\ row \in RowType /\ row.rec = raw[i].rec /\ row.owner = raw[i].owner
      /\ row.known = raw[i].known /\ row.code = raw[i].code
      /\ row.dup = raw[i].dup /\ row.canonical = raw[i].canonical
      /\ row.key = raw[i].key \/ row.key = KeyRead(raw[i].rec, FaultyNow(raw[i].rec))
    BY <1>1, ReparsedEffect
<1>. HIDE DEF row
<1>3. CASE raw[i].canonical
    <2>1. new = [raw[i] EXCEPT !.status = "mapped", !.error = "resolved"]
        BY <1>3 DEF Reprocessed
    <2>2. /\ new \in RowType /\ new.rec = raw[i].rec /\ new.owner = raw[i].owner
          /\ new.known = raw[i].known /\ new.key = raw[i].key /\ new.code = raw[i].code
          /\ new.dup = raw[i].dup /\ new.canonical = raw[i].canonical
          /\ new.status = "mapped" /\ new.error = "resolved"
        BY <1>1, <2>1 DEF RowType
    <2>. QED  BY <1>3, <2>2 DEF Agree
<1>4. CASE ~ raw[i].canonical /\ row.code \in Faults /\ FaultyNow(row.rec)
    <2>1. new = [row EXCEPT !.status = "exception", !.error = "failed"]
        BY <1>4 DEF Reprocessed, Failed, row
    <2>2. /\ new \in RowType /\ new.rec = raw[i].rec /\ new.owner = raw[i].owner
          /\ new.known = raw[i].known /\ new.key = row.key /\ new.code = raw[i].code
          /\ new.dup = raw[i].dup /\ new.canonical = raw[i].canonical
          /\ new.status = "exception" /\ new.error = "failed"
        BY <1>2, <2>1 DEF RowType
    <2>. QED  BY <1>2, <1>4, <2>2 DEF Agree
<1>5. CASE /\ ~ raw[i].canonical /\ ~ (row.code \in Faults /\ FaultyNow(row.rec))
           /\ SameKey(Committed, i, row.key) # {}
    <2>1. new = [[row EXCEPT !.dup = TRUE] EXCEPT !.status = "duplicate", !.error = "failed"]
        BY <1>5 DEF Reprocessed, Failed, row
    <2>2. /\ new \in RowType /\ new.rec = raw[i].rec /\ new.owner = raw[i].owner
          /\ new.known = raw[i].known /\ new.key = row.key /\ new.code = raw[i].code
          /\ new.dup = TRUE /\ new.canonical = raw[i].canonical
          /\ new.status = "duplicate" /\ new.error = "failed"
        BY <1>2, <2>1 DEF RowType
    <2>. QED  BY <1>2, <1>5, <2>2 DEF Agree
<1>6. CASE /\ ~ raw[i].canonical /\ ~ (row.code \in Faults /\ FaultyNow(row.rec))
           /\ SameKey(Committed, i, row.key) = {} /\ row.key \notin mapped
    <2>1. new = [[row EXCEPT !.dup = FALSE] EXCEPT !.status = "exception", !.error = "failed"]
        BY <1>6 DEF Reprocessed, Failed, row
    <2>2. /\ new \in RowType /\ new.rec = raw[i].rec /\ new.owner = raw[i].owner
          /\ new.known = raw[i].known /\ new.key = row.key /\ new.code = raw[i].code
          /\ new.dup = FALSE /\ new.canonical = raw[i].canonical
          /\ new.status = "exception" /\ new.error = "failed"
        BY <1>2, <2>1 DEF RowType
    <2>. QED  BY <1>2, <1>6, <2>2 DEF Agree
<1>7. CASE /\ ~ raw[i].canonical /\ ~ (row.code \in Faults /\ FaultyNow(row.rec))
           /\ SameKey(Committed, i, row.key) = {} /\ row.key \in mapped
    <2>1. new = [[row EXCEPT !.dup = FALSE] EXCEPT !.status = "mapped", !.canonical = TRUE,
                                                   !.error = "resolved"]
        BY <1>7 DEF Reprocessed, row
    <2>2. /\ new \in RowType /\ new.rec = raw[i].rec /\ new.owner = raw[i].owner
          /\ new.known = raw[i].known /\ new.key = row.key /\ new.code = raw[i].code
          /\ new.dup = FALSE /\ new.canonical = TRUE
          /\ new.status = "mapped" /\ new.error = "resolved"
        BY <1>2, <2>1 DEF RowType
    <2>. QED  BY <1>2, <1>7, <2>2 DEF Agree
<1>. QED  BY <1>3, <1>4, <1>5, <1>6, <1>7

LEMMA FlushedEffect ==
    ASSUME NEW now \in RowType, NEW loaded \in RowType, NEW new \in RowType
    PROVE  LET row == Flushed(now, loaded, new) IN
           /\ row \in RowType
           /\ row.rec = IF new.rec = loaded.rec THEN now.rec ELSE new.rec
           /\ row.owner = IF new.owner = loaded.owner THEN now.owner ELSE new.owner
           /\ row.known = IF new.known = loaded.known THEN now.known ELSE new.known
           /\ row.key = IF new.key = loaded.key THEN now.key ELSE new.key
           /\ row.canonical = IF new.canonical = loaded.canonical THEN now.canonical
                              ELSE new.canonical
           /\ now = loaded => row = new
<1>1. Flushed(now, loaded, new) =
        [rec |-> IF new.rec = loaded.rec THEN now.rec ELSE new.rec,
         key |-> IF new.key = loaded.key THEN now.key ELSE new.key,
         known |-> IF new.known = loaded.known THEN now.known ELSE new.known,
         status |-> IF new.status = loaded.status THEN now.status ELSE new.status,
         dup |-> IF new.dup = loaded.dup THEN now.dup ELSE new.dup,
         canonical |-> IF new.canonical = loaded.canonical THEN now.canonical ELSE new.canonical,
         code |-> IF new.code = loaded.code THEN now.code ELSE new.code,
         error |-> IF new.error = loaded.error THEN now.error ELSE new.error,
         owner |-> IF new.owner = loaded.owner THEN now.owner ELSE new.owner]
    BY RowFields DEF Flushed
<1>2. Flushed(now, loaded, new) \in RowType
    BY <1>1 DEF RowType
<1>3. now = loaded => Flushed(now, loaded, new) = new
    BY <1>1 DEF RowType
<1>. QED  BY <1>1, <1>2, <1>3

--------------------------------------------------------------------------------
(* The invariant of the intake. *)

LEMMA RowsLeftType ==
    ASSUME NEW i \in DOMAIN Earlier
    PROVE  /\ RowsLeft(i) \in RowType /\ RowsLeft(i).rec = Earlier[i]
           /\ RowsLeft(i).rec \in Records \ Events /\ RowsLeft(i).owner = None
           /\ RowsLeft(i).known => /\ RowsLeft(i).key = Key[Earlier[i]]
                                 /\ Fault[Earlier[i]] \in {"none", "invalid_numeric_value"}
           /\ RowsLeft(i).canonical = FALSE /\ RowsLeft(i).dup = FALSE
           /\ RowsLeft(i).status = "exception" /\ RowsLeft(i).error = "open"
<1>1. Earlier[i] \in Recoverable \ Events /\ Earlier[i] \in Records
    BY IntakeAssumption
<1>2. KeyRead(Earlier[i], TRUE) \in Keys \cup {None} /\ Fault[Earlier[i]] \in Codes \cup {"none"}
    BY <1>1, KeyReadType, FaultType
<1>3. PICK n \in RowType : n = NoRow
    BY NoRowType
<1>4. n.owner = None /\ n.canonical = FALSE /\ n.dup = FALSE
    BY <1>3 DEF NoRow
<1>5. RowsLeft(i) = [n EXCEPT !.rec = Earlier[i], !.key = KeyRead(Earlier[i], TRUE),
                              !.known = KeyRead(Earlier[i], TRUE) # None,
                              !.status = "exception", !.code = Fault[Earlier[i]], !.error = "open"]
    BY <1>3, Zenon DEF RowsLeft
<1>6. /\ RowsLeft(i) \in RowType /\ RowsLeft(i).rec = Earlier[i] /\ RowsLeft(i).owner = None
      /\ RowsLeft(i).key = KeyRead(Earlier[i], TRUE)
      /\ RowsLeft(i).known = (KeyRead(Earlier[i], TRUE) # None)
      /\ RowsLeft(i).canonical = FALSE /\ RowsLeft(i).dup = FALSE
      /\ RowsLeft(i).status = "exception" /\ RowsLeft(i).error = "open"
    BY <1>1, <1>2, <1>4, <1>5 DEF RowType
<1>. QED  BY <1>1, <1>6, KeyReadType

LEMMA InitRows ==
    ASSUME Init, NEW i \in Ids
    PROVE  /\ raw[i] \in RowType
           /\ raw[i].rec = None => raw[i] = NoRow
           /\ raw[i].owner = None
           /\ raw[i].known =>
                 /\ raw[i].rec \in Records \ Events /\ raw[i].key = Key[raw[i].rec]
                 /\ Fault[raw[i].rec] \in {"none", "invalid_numeric_value"}
           /\ ~ raw[i].canonical /\ Agree(raw[i])
           /\ raw[i].rec # None => i \in DOMAIN Earlier /\ raw[i].rec = Earlier[i]
<1>1. raw[i] = IF i \in DOMAIN Earlier THEN RowsLeft(i) ELSE NoRow
    BY DEF Init
<1>2. CASE i \in DOMAIN Earlier
    <2>1. PICK row \in RowType : row = RowsLeft(i)
        BY <1>2, RowsLeftType
    <2>2. /\ row.rec = Earlier[i] /\ row.rec \in Records \ Events /\ row.owner = None
          /\ row.known => /\ row.key = Key[Earlier[i]]
                          /\ Fault[Earlier[i]] \in {"none", "invalid_numeric_value"}
          /\ row.canonical = FALSE /\ row.dup = FALSE
          /\ row.status = "exception" /\ row.error = "open"
        BY <1>2, <2>1, RowsLeftType
    <2>3. Agree(row)
        BY <2>2 DEF Agree
    <2>. QED  BY <1>1, <1>2, <2>1, <2>2, <2>3, NoneIsNothing
<1>3. CASE i \notin DOMAIN Earlier
    BY <1>1, <1>3, NoRowType DEF NoRow, Agree
<1>. QED  BY <1>2, <1>3

LEMMA IntakeInit == Init => IntakeInv
<1>. SUFFICES ASSUME Init PROVE IntakeInv
    OBVIOUS
<1>1. raw \in [Ids -> RowType]
    BY InitRows DEF Init
<1>2. IdleDelivery \in [pc : {"idle", "checked", "open", "closing"},
                        batch : Batches \cup {None}, next : Nat \ {0}, seen : Nat]
    BY DEF IdleDelivery
<1>3. IdleRepair \in [pc : {"idle", "repair"}, id : Ids \cup {0}, loaded : RowType, new : RowType]
    BY NoRowType DEF IdleRepair
<1>4. TypeOK
    BY <1>1, <1>2, <1>3 DEF TypeOK, Init
<1>5. RowsInv
    BY InitRows, NoneIsNothing DEF RowsInv
<1>6. DeliveriesInv /\ RepairsInv /\ NothingSkippedIsLost
    BY DEF Init, DeliveriesInv, RepairsInv, NothingSkippedIsLost, IdleDelivery, IdleRepair
<1>. QED  BY <1>4, <1>5, <1>6 DEF IntakeInv

(* The steps of one delivery leave the rows of the others alone. *)
LEMMA ValidateKeepsIntake ==
    ASSUME IntakeInv, NEW d \in Deliverers, NEW b \in Batches, Validate(d, b)
    PROVE  IntakeInv'
<1>1. /\ delivery' = [delivery EXCEPT ![d] = [pc |-> "checked", batch |-> b, next |-> 1, seen |-> 0]]
      /\ delivery[d].pc = "idle"
      /\ UNCHANGED <<raw, mapped, accepted, watermark, repair>>
    BY DEF Validate, IdleDelivery
<1>2. \A e \in Deliverers : delivery'[e] =
         IF e = d THEN [pc |-> "checked", batch |-> b, next |-> 1, seen |-> 0] ELSE delivery[e]
    BY <1>1 DEF IntakeInv, TypeOK
<1>3. TypeOK'
    BY <1>1 DEF IntakeInv, TypeOK
<1>4. \A i \in Ids : raw[i].owner \in Deliverers \cup {None}
    BY RowFields DEF IntakeInv, TypeOK
<1>5. RowsInv'
    BY <1>1, <1>2, <1>4 DEF IntakeInv, RowsInv, HasOpen
<1>6. DeliveriesInv'
    <2>1. \A n \in DOMAIN Content[b] : ~ (n < 1)
        BY ContentOfBatch
    <2>. QED  BY <1>1, <1>2, <2>1 DEF IntakeInv, DeliveriesInv, Visible, StandsFor
<1>7. RepairsInv' /\ NothingSkippedIsLost'
    BY <1>1 DEF IntakeInv, RepairsInv, NothingSkippedIsLost, Committed
<1>. QED  BY <1>3, <1>5, <1>6, <1>7 DEF IntakeInv

(* Open, Close: another program counter. *)
DeliveryType == [pc : {"idle", "checked", "open", "closing"}, batch : Batches \cup {None},
                 next : Nat \ {0}, seen : Nat]

LEMMA PcKeepsIntake ==
    ASSUME IntakeInv, NEW d \in Deliverers, NEW t \in DeliveryType,
           delivery' = [delivery EXCEPT ![d] = t],
           delivery[d].pc # "idle", t.pc \in {"open", "closing"},
           t.batch = delivery[d].batch, t.next = delivery[d].next,
           t.pc = "closing" => t.next > Len(Content[t.batch]),
           UNCHANGED <<raw, mapped, accepted, watermark, repair>>
    PROVE  IntakeInv'
<1>1. delivery \in [Deliverers -> DeliveryType]
    BY DEF IntakeInv, TypeOK, DeliveryType
<1>2. \A e \in Deliverers : delivery'[e] = IF e = d THEN t ELSE delivery[e]
    BY <1>1
<1>3. TypeOK'
    BY <1>1 DEF IntakeInv, TypeOK, DeliveryType
<1>4. \A i \in Ids : raw[i].owner \in Deliverers \cup {None}
    BY RowFields DEF IntakeInv, TypeOK
<1>5. RowsInv'
    BY <1>2, <1>4 DEF IntakeInv, RowsInv, HasOpen
<1>6. DeliveriesInv'
    BY <1>2 DEF IntakeInv, DeliveriesInv, Visible, StandsFor
<1>7. RepairsInv' /\ NothingSkippedIsLost'
    BY DEF IntakeInv, RepairsInv, NothingSkippedIsLost, Committed
<1>. QED  BY <1>3, <1>5, <1>6, <1>7 DEF IntakeInv

LEMMA OpenKeepsIntake ==
    ASSUME IntakeInv, NEW d \in Deliverers, Open(d)
    PROVE  IntakeInv'
<1>. DEFINE t == [delivery[d] EXCEPT !.pc = "open"]
<1>1. /\ delivery' = [delivery EXCEPT ![d] = t] /\ delivery[d].pc = "checked"
      /\ UNCHANGED <<raw, mapped, accepted, watermark, repair>>
    BY DEF Open
<1>2. t \in DeliveryType /\ t.pc = "open" /\ t.batch = delivery[d].batch /\ t.next = delivery[d].next
    BY DEF IntakeInv, TypeOK, DeliveryType
<1>. HIDE DEF t
<1>. QED  BY <1>1, <1>2, PcKeepsIntake

LEMMA CloseKeepsIntake ==
    ASSUME IntakeInv, NEW d \in Deliverers, Close(d)
    PROVE  IntakeInv'
<1>. DEFINE t == [delivery[d] EXCEPT !.pc = "closing", !.seen = watermark]
<1>1. /\ delivery' = [delivery EXCEPT ![d] = t] /\ delivery[d].pc = "open"
      /\ delivery[d].next > Len(Content[delivery[d].batch])
      /\ UNCHANGED <<raw, mapped, accepted, watermark, repair>>
    BY DEF Close
<1>2. t \in DeliveryType /\ t.pc = "closing" /\ t.batch = delivery[d].batch /\ t.next = delivery[d].next
    BY DEF IntakeInv, TypeOK, DeliveryType
<1>. HIDE DEF t
<1>. QED  BY <1>1, <1>2, PcKeepsIntake

LEMMA AdvanceEffect ==
    ASSUME IntakeInv, NEW d \in Deliverers, delivery' = [delivery EXCEPT ![d].next = @ + 1]
    PROVE  /\ delivery' \in [Deliverers -> [pc : {"idle", "checked", "open", "closing"},
                                           batch : Batches \cup {None},
                                           next : Nat \ {0}, seen : Nat]]
           /\ \A e \in Deliverers : /\ e # d => delivery'[e] = delivery[e]
                                    /\ delivery'[e].batch = delivery[e].batch
                                    /\ delivery'[e].pc = delivery[e].pc
                                    /\ delivery'[e].seen = delivery[e].seen
           /\ delivery'[d].next = delivery[d].next + 1 /\ delivery[d].next \in Nat
BY DEF IntakeInv, TypeOK

(* A delivery that leaves a row for the record it has worked on may go on.   *)
LEMMA WorkedOn ==
    ASSUME IntakeInv, NEW d \in Deliverers, Processing(d),
           delivery' = [delivery EXCEPT ![d].next = @ + 1],
           \A e \in Deliverers : \A i \in Visible(e) : i \in Visible(e)' /\ raw'[i].rec = raw[i].rec,
           \E i \in Visible(d)' :
              \/ raw'[i].rec = Current(d)
              \/ SourceKey[raw'[i].rec] = SourceKey[Current(d)] /\ SourceKey[raw'[i].rec] # None
    PROVE  DeliveriesInv'
<1>1. /\ \A e \in Deliverers : /\ e # d => delivery'[e] = delivery[e]
                               /\ delivery'[e].batch = delivery[e].batch
                               /\ delivery'[e].pc = delivery[e].pc
      /\ delivery'[d].next = delivery[d].next + 1 /\ delivery[d].next \in Nat
      /\ delivery[d].pc = "open"
    BY AdvanceEffect DEF Processing
<1>2. ASSUME NEW e \in Deliverers, delivery'[e].pc # "idle",
             NEW n \in DOMAIN Content[delivery[e].batch], n < delivery'[e].next
      PROVE  \E i \in Visible(e)' : StandsFor(i, Content[delivery[e].batch][n])'
    <2>0. delivery[e].batch \in Batches
        BY <1>1, <1>2 DEF IntakeInv, DeliveriesInv
    <2>1. CASE n < delivery[e].next
        <3>1. PICK i \in Visible(e) : StandsFor(i, Content[delivery[e].batch][n])
            BY <2>1, <1>1, <1>2 DEF IntakeInv, DeliveriesInv
        <3>. QED  BY <3>1 DEF StandsFor
    <2>2. CASE ~ (n < delivery[e].next)
        <3>1. e = d /\ n \in Nat
            BY <2>0, <2>2, <1>1, <1>2, ContentOfBatch
        <3>2. n = delivery[d].next
            BY <3>1, <2>2, <1>1, <1>2
        <3>3. Content[delivery[e].batch][n] = Current(d)
            BY <3>1, <3>2 DEF Current
        <3>. QED  BY <3>1, <3>3 DEF StandsFor
    <2>. QED  BY <2>1, <2>2
<1>3. \A e \in Deliverers : delivery'[e].pc # "idle" =>
         /\ delivery'[e].batch \in Batches
         /\ delivery'[e].pc = "checked" => delivery'[e].next = 1
         /\ delivery'[e].pc = "closing" => delivery'[e].next > Len(Content[delivery'[e].batch])
    BY <1>1 DEF IntakeInv, DeliveriesInv
<1>. QED  BY <1>1, <1>2, <1>3 DEF DeliveriesInv

LEMMA SkipKeepsIntake ==
    ASSUME IntakeInv, NEW d \in Deliverers, SkipReplay(d)
    PROVE  IntakeInv'
<1>1. /\ Processing(d) /\ Replayed(d, Current(d))
      /\ delivery' = [delivery EXCEPT ![d].next = @ + 1]
      /\ UNCHANGED <<raw, mapped, accepted, watermark, repair>>
    BY DEF SkipReplay, Advance
<1>2. \A e \in Deliverers : Visible(e)' = Visible(e)
    BY <1>1 DEF Visible
<1>3. DeliveriesInv'
    <2>1. PICK i \in Visible(d) :
             SourceKey[raw[i].rec] = SourceKey[Current(d)] /\ SourceKey[raw[i].rec] # None
        BY <1>1 DEF Replayed
    <2>. QED  BY <1>1, <1>2, <2>1, WorkedOn
<1>4. TypeOK'
    BY <1>1, AdvanceEffect DEF IntakeInv, TypeOK
<1>5. RowsInv'
    <2>1. \A i \in Ids : raw[i].owner \in Deliverers \cup {None}
        BY RowFields DEF IntakeInv, TypeOK
    <2>. QED  BY <1>1, <2>1, AdvanceEffect DEF IntakeInv, RowsInv, HasOpen
<1>6. RepairsInv' /\ NothingSkippedIsLost'
    BY <1>1 DEF IntakeInv, RepairsInv, NothingSkippedIsLost, Committed
<1>. QED  BY <1>3, <1>4, <1>5, <1>6 DEF IntakeInv

LEMMA StoreKeepsIntake ==
    ASSUME IntakeInv, NEW d \in Deliverers, Stores(d)
    PROVE  IntakeInv'
<1>1. /\ Processing(d) /\ delivery' = [delivery EXCEPT ![d].next = @ + 1]
      /\ UNCHANGED <<mapped, accepted, watermark, repair>>
    BY StoreFrame
<1>2. PICK i \in Ids, status \in Statuses, code \in Codes \cup {"none"} :
         /\ raw[i].rec = None
         /\ raw' = [raw EXCEPT ![i] = RowOf(Current(d), d, status, code)]
    BY StoreEffect DEF IntakeInv
<1>3. PICK row \in RowType : row = RowOf(Current(d), d, status, code)
    BY <1>1, CurrentIsARecord, RowOfType DEF IntakeInv
<1>4. /\ row.rec = Current(d) /\ row.rec \in Records /\ row.rec # None
      /\ row.owner = d /\ row.owner # None
      /\ row.known => /\ row.rec \notin Events /\ row.key = Key[row.rec]
                      /\ Fault[row.rec] \in {"none", "invalid_numeric_value"}
    BY <1>1, <1>3, CurrentIsARecord, KeyReadType, NoneIsNothing DEF RowOf, IntakeInv
<1>5. raw' \in [Ids -> RowType] /\ \A j \in Ids : raw'[j] = IF j = i THEN row ELSE raw[j]
    BY <1>2, <1>3 DEF IntakeInv, TypeOK
<1>6. Committed' = Committed /\ i \notin Committed
    BY <1>2, <1>4, <1>5 DEF Committed
<1>7. \A e \in Deliverers : \A j \in Visible(e) : j # i /\ j \in Visible(e)' /\ raw'[j].rec = raw[j].rec
    BY <1>2, <1>5 DEF Visible
<1>8. i \in Visible(d)' /\ raw'[i].rec = Current(d)
    BY <1>4, <1>5 DEF Visible
<1>9. DeliveriesInv'
    BY <1>1, <1>7, <1>8, WorkedOn
<1>10. TypeOK'
    BY <1>1, <1>5, AdvanceEffect DEF IntakeInv, TypeOK
<1>11. RowsInv'
    <2>1. \A j \in Ids : raw[j].owner \in Deliverers \cup {None}
        BY RowFields DEF IntakeInv, TypeOK
    <2>2. \A e \in Deliverers : HasOpen(e)' = HasOpen(e)
        BY <1>1, AdvanceEffect DEF HasOpen
    <2>3. HasOpen(d)
        BY <1>1 DEF Processing, HasOpen
    <2>. QED  BY <1>4, <1>5, <2>1, <2>2, <2>3 DEF IntakeInv, RowsInv
<1>12. RepairsInv'
    <2>1. \A j \in Committed : raw'[j] = raw[j]
        BY <1>5, <1>6 DEF Committed
    <2>. QED  BY <1>1, <1>6, <2>1 DEF IntakeInv, RepairsInv
<1>13. NothingSkippedIsLost'
    <2>1. \A j \in Committed : raw'[j] = raw[j]
        BY <1>5, <1>6 DEF Committed
    <2>. QED  BY <1>1, <1>6, <2>1 DEF IntakeInv, NothingSkippedIsLost
<1>. QED  BY <1>9, <1>10, <1>11, <1>12, <1>13 DEF IntakeInv

LEMMA IdleTypes ==
    /\ IdleDelivery \in [pc : {"idle", "checked", "open", "closing"},
                         batch : Batches \cup {None}, next : Nat \ {0}, seen : Nat]
    /\ IdleDelivery.pc = "idle"
    /\ IdleRepair \in [pc : {"idle", "repair"}, id : Ids \cup {0}, loaded : RowType, new : RowType]
    /\ IdleRepair.pc = "idle"
BY NoRowType DEF IdleDelivery, IdleRepair

(* The end of a transaction: its rows are there for everybody, or gone.      *)
LEMMA CommitEffect ==
    ASSUME IntakeInv, NEW d \in Deliverers, Commit(d)
    PROVE  /\ raw' \in [Ids -> RowType]
           /\ \A i \in Ids : /\ raw'[i].rec = raw[i].rec /\ raw'[i].known = raw[i].known
                             /\ raw'[i].key = raw[i].key /\ raw'[i].canonical = raw[i].canonical
                             /\ raw'[i].owner = IF raw[i].owner = d THEN None ELSE raw[i].owner
                             /\ raw[i].owner # d => raw'[i] = raw[i]
                             /\ Agree(raw[i]) => Agree(raw'[i])
<1>1. raw' = [i \in Ids |-> IF raw[i].owner = d THEN [raw[i] EXCEPT !.owner = None] ELSE raw[i]]
    BY DEF Commit
<1>2. ASSUME NEW i \in Ids
      PROVE  /\ raw'[i] \in RowType
             /\ raw'[i].rec = raw[i].rec /\ raw'[i].known = raw[i].known
             /\ raw'[i].key = raw[i].key /\ raw'[i].canonical = raw[i].canonical
             /\ raw'[i].owner = IF raw[i].owner = d THEN None ELSE raw[i].owner
             /\ raw[i].owner # d => raw'[i] = raw[i]
             /\ Agree(raw[i]) => Agree(raw'[i])
    <2>1. raw[i] \in RowType
        BY DEF IntakeInv, TypeOK
    <2>2. CASE raw[i].owner = d
        <3>1. raw'[i] = [raw[i] EXCEPT !.owner = None]
            BY <1>1, <2>2
        <3>2. /\ raw'[i] \in RowType
              /\ raw'[i].rec = raw[i].rec /\ raw'[i].known = raw[i].known
              /\ raw'[i].key = raw[i].key /\ raw'[i].canonical = raw[i].canonical
              /\ raw'[i].owner = None /\ raw'[i].status = raw[i].status /\ raw'[i].dup = raw[i].dup
              /\ raw'[i].error = raw[i].error /\ raw'[i].code = raw[i].code
            BY <2>1, <3>1 DEF RowType
        <3>3. Agree(raw[i]) => Agree(raw'[i])
            BY <3>2 DEF Agree
        <3>. QED  BY <2>2, <3>2, <3>3
    <2>3. CASE raw[i].owner # d
        BY <1>1, <2>1, <2>3
    <2>. QED  BY <2>2, <2>3
<1>. QED  BY <1>1, <1>2

LEMMA CommitKeepsIntake ==
    ASSUME IntakeInv, NEW d \in Deliverers, Commit(d)
    PROVE  IntakeInv'
<1>. DEFINE b == delivery[d].batch
<1>1. /\ delivery[d].pc = "closing"
      /\ delivery' = [delivery EXCEPT ![d] = IdleDelivery]
      /\ accepted' = [accepted EXCEPT ![b] = @ + 1]
      /\ watermark' = NewMark(d)
      /\ UNCHANGED <<mapped, repair>>
    BY DEF Commit
<1>2. /\ b \in Batches /\ delivery[d].next > Len(Content[b]) /\ delivery[d].next \in Nat
      /\ \A n \in DOMAIN Content[b] : n < delivery[d].next => \E i \in Visible(d) : StandsFor(i, Content[b][n])
    BY <1>1 DEF IntakeInv, DeliveriesInv, TypeOK
<1>3. \A e \in Deliverers : delivery'[e] = IF e = d THEN IdleDelivery ELSE delivery[e]
    BY <1>1 DEF IntakeInv, TypeOK
<1>4. TypeOK'
    <2>1. watermark' \in Nat
        BY <1>1, <1>2, IntakeAssumption DEF NewMark, IntakeInv, TypeOK
    <2>2. accepted' \in [Batches -> Nat] /\ raw' \in [Ids -> RowType]
        BY <1>1, <1>2, CommitEffect DEF IntakeInv, TypeOK
    <2>3. delivery' \in [Deliverers -> [pc : {"idle", "checked", "open", "closing"},
                                       batch : Batches \cup {None}, next : Nat \ {0}, seen : Nat]]
        BY <1>1, IdleTypes DEF IntakeInv, TypeOK
    <2>. QED  BY <1>1, <2>1, <2>2, <2>3 DEF IntakeInv, TypeOK
<1>5. RowsInv'
    <2>1. \A i \in Ids : /\ raw[i].owner \in Deliverers \cup {None}
                         /\ raw[i].rec = None => raw[i].owner = None
        BY RowFields DEF IntakeInv, TypeOK, RowsInv, NoRow
    <2>2. \A e \in Deliverers : e # d => HasOpen(e)' = HasOpen(e)
        BY <1>3 DEF HasOpen
    <2>3. \A i \in Ids : raw'[i].rec = None => raw'[i] = NoRow
        BY <2>1, CommitEffect, NoneIsNothing DEF IntakeInv, RowsInv
    <2>. QED  BY <2>1, <2>2, <2>3, CommitEffect, NoneIsNothing DEF IntakeInv, RowsInv
<1>6. \A e \in Deliverers : Visible(e) \subseteq Visible(e)'
    BY CommitEffect, NoneIsNothing DEF Visible
<1>7. \A i \in Ids : \A r : StandsFor(i, r) => StandsFor(i, r)'
    BY CommitEffect DEF StandsFor
<1>8. DeliveriesInv'
    BY <1>3, <1>6, <1>7, IdleTypes DEF IntakeInv, DeliveriesInv, Visible
<1>9. Committed \subseteq Committed' /\ Visible(d) \subseteq Committed'
    BY CommitEffect, NoneIsNothing DEF Committed, Visible
<1>10. RepairsInv'
    <2>1. \A i \in Committed : raw'[i] = raw[i]
        BY CommitEffect, NoneIsNothing DEF Committed
    <2>. QED  BY <1>1, <1>9, <2>1 DEF IntakeInv, RepairsInv
<1>11. NothingSkippedIsLost'
    <2>. SUFFICES ASSUME NEW c \in Batches, accepted'[c] > 0, NEW n \in DOMAIN Content[c]
                  PROVE  \E i \in Committed' : StandsFor(i, Content[c][n])'
        BY DEF NothingSkippedIsLost, StandsFor
    <2>1. CASE accepted[c] > 0
        <3>1. PICK i \in Committed : StandsFor(i, Content[c][n])
            BY <2>1 DEF IntakeInv, NothingSkippedIsLost, StandsFor
        <3>2. i \in Ids
            BY DEF Committed
        <3>. QED  BY <3>1, <3>2, <1>7, <1>9
    <2>2. CASE ~ (accepted[c] > 0)
        <3>1. c = b
            BY <1>1, <2>2 DEF IntakeInv, TypeOK
        <3>2. n < delivery[d].next
            BY <1>2, <3>1, ContentOfBatch
        <3>3. PICK i \in Visible(d) : StandsFor(i, Content[b][n])
            BY <1>2, <3>1, <3>2
        <3>4. i \in Ids
            BY DEF Visible
        <3>. QED  BY <3>1, <3>3, <3>4, <1>7, <1>9
    <2>. QED  BY <2>1, <2>2
<1>. QED  BY <1>4, <1>5, <1>8, <1>10, <1>11 DEF IntakeInv

LEMMA FailEffect ==
    ASSUME IntakeInv, NEW d \in Deliverers, Fail(d)
    PROVE  /\ raw' \in [Ids -> RowType]
           /\ \A i \in Ids : raw'[i] = IF raw[i].owner = d THEN NoRow ELSE raw[i]
           /\ \A e \in Deliverers : delivery'[e] = IF e = d THEN IdleDelivery ELSE delivery[e]
           /\ UNCHANGED <<mapped, accepted, watermark, repair>>
BY NoRowType DEF Fail, IntakeInv, TypeOK

LEMMA FailKeepsIntake ==
    ASSUME IntakeInv, NEW d \in Deliverers, Fail(d)
    PROVE  IntakeInv'
<1>1. /\ NoRow.rec = None /\ NoRow.owner = None /\ NoRow.known = FALSE
    BY DEF NoRow
<1>2. TypeOK'
    BY FailEffect, IdleTypes DEF Fail, IntakeInv, TypeOK
<1>3. RowsInv'
    <2>1. \A i \in Ids : raw[i].owner \in Deliverers \cup {None}
        BY RowFields DEF IntakeInv, TypeOK
    <2>. QED  BY <1>1, <2>1, FailEffect DEF IntakeInv, RowsInv, HasOpen
<1>4. Committed' = Committed /\ \A i \in Committed : raw'[i] = raw[i]
    BY <1>1, FailEffect, NoneIsNothing DEF Committed
<1>5. \A e \in Deliverers : e # d =>
         Visible(e)' = Visible(e) /\ \A i \in Visible(e) : raw'[i] = raw[i]
    BY <1>1, FailEffect, NoneIsNothing DEF Visible
<1>6. DeliveriesInv'
    <2>1. \A e \in Deliverers : delivery'[e].pc # "idle" => e # d /\ delivery'[e] = delivery[e]
        BY FailEffect, IdleTypes
    <2>2. \A e \in Deliverers : e # d =>
             \A i \in Visible(e) : i \in Visible(e)' /\ raw'[i].rec = raw[i].rec
        BY <1>5
    <2>. QED  BY <2>1, <2>2 DEF IntakeInv, DeliveriesInv, StandsFor
<1>7. RepairsInv' /\ NothingSkippedIsLost'
    BY <1>4, FailEffect DEF IntakeInv, RepairsInv, NothingSkippedIsLost
<1>. QED  BY <1>2, <1>3, <1>6, <1>7 DEF IntakeInv

(* A key that was known when the row was stored is read the same way again.  *)
LEMMA KnownKey ==
    ASSUME RowsInv, NEW i \in Ids, raw[i].known
    PROVE  KeyRead(raw[i].rec, FaultyNow(raw[i].rec)) = raw[i].key
BY DEF KeyRead, FaultyNow, RowsInv

(* What the exception queue may do to the rows.                              *)
RowsStay ==
    /\ raw' \in [Ids -> RowType]
    /\ \A i \in Ids : /\ raw'[i].rec = raw[i].rec /\ raw'[i].owner = raw[i].owner
                      /\ raw'[i].known = raw[i].known
                      /\ raw[i].known => raw'[i].key = raw[i].key
                      /\ raw[i].rec = None => raw'[i] = raw[i]
    /\ UNCHANGED <<accepted, watermark, delivery>>

LEMMA RowsStayKeeps ==
    ASSUME IntakeInv, RowsStay
    PROVE  /\ RowsInv' /\ DeliveriesInv' /\ NothingSkippedIsLost'
           /\ Committed' = Committed /\ \A d \in Deliverers : Visible(d)' = Visible(d)
<1>1. Committed' = Committed /\ \A d \in Deliverers : Visible(d)' = Visible(d)
    BY DEF RowsStay, Committed, Visible
<1>2. RowsInv'
    BY DEF IntakeInv, RowsInv, RowsStay, HasOpen
<1>3. \A i \in Ids : \A r : StandsFor(i, r)' <=> StandsFor(i, r)
    BY DEF RowsStay, StandsFor
<1>4. DeliveriesInv'
    BY <1>1, <1>3 DEF RowsStay, IntakeInv, DeliveriesInv, Visible
<1>5. NothingSkippedIsLost'
    <2>1. \A i \in Committed : raw'[i].rec = raw[i].rec
        BY DEF RowsStay, Committed
    <2>. QED  BY <1>1, <2>1 DEF RowsStay, IntakeInv, NothingSkippedIsLost
<1>. QED  BY <1>1, <1>2, <1>4, <1>5

LEMMA BeginEffect ==
    ASSUME IntakeInv, NEW o \in Operators, NEW i \in Ids, BeginReprocess(o, i)
    PROVE  /\ i \in Committed /\ raw[i].rec \in Records \ Events /\ raw[i] \in RowType
           /\ repair' = [repair EXCEPT ![o] = [pc |-> "repair", id |-> i, loaded |-> raw[i],
                                               new |-> Reprocessed(i)]]
           /\ UNCHANGED <<raw, mapped, accepted, watermark, delivery>>
BY RowFields DEF BeginReprocess, IntakeInv, TypeOK, Committed

LEMMA BeginKeepsIntake ==
    ASSUME IntakeInv, NEW o \in Operators, NEW i \in Ids, BeginReprocess(o, i)
    PROVE  IntakeInv'
<1>1. /\ i \in Committed /\ raw[i].rec \in Records \ Events /\ raw[i] \in RowType
      /\ repair' = [repair EXCEPT ![o] = [pc |-> "repair", id |-> i, loaded |-> raw[i],
                                          new |-> Reprocessed(i)]]
      /\ UNCHANGED <<raw, mapped, accepted, watermark, delivery>>
    BY BeginEffect
<1>2. PICK new : new = Reprocessed(i)
    OBVIOUS
<1>3. /\ new \in RowType
      /\ new.rec = raw[i].rec /\ new.owner = raw[i].owner /\ new.known = raw[i].known
      /\ new.key = raw[i].key \/ new.key = KeyRead(raw[i].rec, FaultyNow(raw[i].rec))
    BY <1>1, <1>2, ReprocessedEffect DEF IntakeInv
<1>4. raw[i].known => new.key = raw[i].key
    <2>1. ASSUME raw[i].known PROVE KeyRead(raw[i].rec, FaultyNow(raw[i].rec)) = raw[i].key
        BY <1>1, <2>1, KnownKey DEF IntakeInv
    <2>. QED  BY <1>3, <2>1
<1>5. \A p \in Operators : repair'[p] =
         IF p = o THEN [pc |-> "repair", id |-> i, loaded |-> raw[i], new |-> new] ELSE repair[p]
    BY <1>1, <1>2 DEF IntakeInv, TypeOK
<1>6. TypeOK'
    BY <1>1, <1>2, <1>3 DEF IntakeInv, TypeOK
<1>7. RepairsInv'
    <2>1. raw[i].owner = None
        BY <1>1 DEF Committed
    <2>2. Committed' = Committed
        BY <1>1 DEF Committed
    <2>. QED  BY <1>1, <1>3, <1>4, <1>5, <2>1, <2>2 DEF IntakeInv, RepairsInv
<1>8. RowsInv' /\ DeliveriesInv' /\ NothingSkippedIsLost'
    BY <1>1 DEF IntakeInv, RowsInv, HasOpen, DeliveriesInv, Visible, StandsFor,
                NothingSkippedIsLost, Committed
<1>. QED  BY <1>6, <1>7, <1>8 DEF IntakeInv

(* What an operator writes leaves the rows where they are.                   *)
LEMMA ReprocessEffect ==
    ASSUME IntakeInv, NEW o \in Operators, Reprocess(o)
    PROVE  /\ RowsStay
           /\ repair[o].pc = "repair" /\ repair[o].id \in Committed /\ repair[o].id \in Ids
           /\ \A j \in Ids : j # repair[o].id => raw'[j] = raw[j]
           /\ raw'[repair[o].id] =
                 Flushed(raw[repair[o].id], repair[o].loaded, repair[o].new)
           /\ repair' = [repair EXCEPT ![o] = IdleRepair] /\ mapped' = mapped
<1>. DEFINE p == repair[o]
<1>1. /\ p.pc = "repair" /\ raw' = [raw EXCEPT ![p.id] = Flushed(raw[p.id], p.loaded, p.new)]
      /\ repair' = [repair EXCEPT ![o] = IdleRepair]
      /\ UNCHANGED <<mapped, accepted, watermark, delivery>>
    BY DEF Reprocess
<1>2. /\ p.id \in Committed /\ p.new.rec = p.loaded.rec
      /\ p.new.owner = None /\ p.loaded.owner = None
      /\ p.new.known = p.loaded.known
      /\ raw[p.id].known => p.new.key = p.loaded.key
    BY <1>1 DEF IntakeInv, RepairsInv
<1>3. p.id \in Ids /\ raw[p.id] \in RowType /\ p.loaded \in RowType /\ p.new \in RowType
      /\ raw[p.id].rec # None
    BY <1>2 DEF Committed, IntakeInv, TypeOK
<1>4. PICK row \in RowType : row = Flushed(raw[p.id], p.loaded, p.new)
    BY <1>3, FlushedEffect
<1>5. /\ row.rec = raw[p.id].rec /\ row.owner = raw[p.id].owner /\ row.known = raw[p.id].known
      /\ raw[p.id].known => row.key = raw[p.id].key
    BY <1>2, <1>3, <1>4, FlushedEffect
<1>6. raw' \in [Ids -> RowType] /\ \A j \in Ids : raw'[j] = IF j = p.id THEN row ELSE raw[j]
    BY <1>1, <1>3, <1>4 DEF IntakeInv, TypeOK
<1>7. RowsStay
    BY <1>1, <1>3, <1>5, <1>6 DEF RowsStay
<1>. QED  BY <1>1, <1>2, <1>3, <1>4, <1>6, <1>7

LEMMA ReprocessKeepsIntake ==
    ASSUME IntakeInv, NEW o \in Operators, Reprocess(o)
    PROVE  IntakeInv'
<1>1. RowsInv' /\ DeliveriesInv' /\ NothingSkippedIsLost' /\ Committed' = Committed
    BY ReprocessEffect, RowsStayKeeps
<1>2. TypeOK'
    BY ReprocessEffect, IdleTypes DEF RowsStay, IntakeInv, TypeOK
<1>3. RepairsInv'
    <2>1. \A p \in Operators : repair'[p] = IF p = o THEN IdleRepair ELSE repair[p]
        BY ReprocessEffect DEF IntakeInv, TypeOK
    <2>2. \A i \in Committed : i \in Ids
        BY DEF Committed
    <2>. QED  BY <1>1, <2>1, <2>2, ReprocessEffect, IdleTypes DEF RowsStay, IntakeInv, RepairsInv
<1>. QED  BY <1>1, <1>2, <1>3 DEF IntakeInv

LEMMA RollBackKeepsIntake ==
    ASSUME IntakeInv, NEW o \in Operators, RollBack(o)
    PROVE  IntakeInv'
<1>1. /\ repair' = [repair EXCEPT ![o] = IdleRepair]
      /\ UNCHANGED <<raw, mapped, accepted, watermark, delivery>>
    BY DEF RollBack
<1>2. TypeOK'
    BY <1>1, IdleTypes DEF IntakeInv, TypeOK
<1>3. RepairsInv'
    <2>1. \A p \in Operators : repair'[p] = IF p = o THEN IdleRepair ELSE repair[p]
        BY <1>1 DEF IntakeInv, TypeOK
    <2>2. Committed' = Committed
        BY <1>1 DEF Committed
    <2>. QED  BY <1>1, <2>1, <2>2, IdleTypes DEF IntakeInv, RepairsInv
<1>4. RowsInv' /\ DeliveriesInv' /\ NothingSkippedIsLost'
    BY <1>1 DEF IntakeInv, RowsInv, HasOpen, DeliveriesInv, Visible, StandsFor,
                NothingSkippedIsLost, Committed
<1>. QED  BY <1>2, <1>3, <1>4 DEF IntakeInv

LEMMA ComponentKeepsIntake ==
    ASSUME IntakeInv, NEW k \in Keys, SetComponent(k)
    PROVE  IntakeInv'
<1>1. TypeOK'
    BY DEF SetComponent, IntakeInv, TypeOK
<1>2. RowsInv' /\ DeliveriesInv' /\ RepairsInv' /\ NothingSkippedIsLost'
    BY DEF SetComponent, IntakeInv, RowsInv, HasOpen, DeliveriesInv, Visible, StandsFor,
           RepairsInv, NothingSkippedIsLost, Committed
<1>. QED  BY <1>1, <1>2 DEF IntakeInv

LEMMA IntakeStep == IntakeInv /\ [Next]_vars => IntakeInv'
<1>. SUFFICES ASSUME IntakeInv, [Next]_vars PROVE IntakeInv'
    OBVIOUS
<1>1. ASSUME NEW d \in Deliverers, Deliver(d) PROVE IntakeInv'
    <2>1. ASSUME NEW b \in Batches, Validate(d, b) PROVE IntakeInv'
        BY <2>1, ValidateKeepsIntake
    <2>2. CASE Open(d)
        BY <2>2, OpenKeepsIntake
    <2>3. CASE SkipReplay(d)
        BY <2>3, SkipKeepsIntake
    <2>4. CASE Stores(d)
        BY <2>4, StoreKeepsIntake
    <2>5. CASE Close(d)
        BY <2>5, CloseKeepsIntake
    <2>6. CASE Commit(d)
        BY <2>6, CommitKeepsIntake
    <2>7. CASE Fail(d)
        BY <2>7, FailKeepsIntake
    <2>. QED  BY <1>1, <2>1, <2>2, <2>3, <2>4, <2>5, <2>6, <2>7 DEF Deliver, Stores
<1>2. ASSUME NEW o \in Operators, Repair(o) PROVE IntakeInv'
    <2>1. ASSUME NEW i \in Ids, BeginReprocess(o, i) PROVE IntakeInv'
        BY <2>1, BeginKeepsIntake
    <2>2. CASE Reprocess(o)
        BY <2>2, ReprocessKeepsIntake
    <2>3. CASE RollBack(o)
        BY <2>3, RollBackKeepsIntake
    <2>. QED  BY <1>2, <2>1, <2>2, <2>3 DEF Repair
<1>3. ASSUME NEW k \in Keys, SetComponent(k) PROVE IntakeInv'
    BY <1>3, ComponentKeepsIntake
<1>4. CASE UNCHANGED vars
    <2>1. TypeOK'
        BY <1>4 DEF vars, IntakeInv, TypeOK
    <2>. QED  BY <1>4, <2>1 DEF vars, IntakeInv, RowsInv, HasOpen, DeliveriesInv, Visible,
                                StandsFor, RepairsInv, NothingSkippedIsLost, Committed
<1>. QED  BY <1>1, <1>2, <1>3, <1>4 DEF Next

(* In every execution each record of an accepted batch has a committed row,   *)
(* its own or that of its source key: what was skipped as a replay is there.  *)
THEOREM AcceptedIsStored == Spec => []NothingSkippedIsLost
<1>1. IntakeInv => NothingSkippedIsLost
    BY DEF IntakeInv
<1>. QED  BY <1>1, IntakeInit, IntakeStep, PTL DEF Spec

(* The rows and the open transactions of the intake stay well formed.         *)
THEOREM TypeCorrect == Spec => []TypeOK
<1>1. IntakeInv => TypeOK
    BY DEF IntakeInv
<1>. QED  BY <1>1, IntakeInit, IntakeStep, PTL DEF Spec

--------------------------------------------------------------------------------
(* Deliveries of a receive adapter, one at a time. *)

LEMMA SerialInit == Init => SerialInv
<1>. SUFFICES ASSUME Init PROVE SerialInv
    OBVIOUS
<1>1. OneAtATime /\ MarkInv
    BY IdleTypes DEF Init, OneAtATime, MarkInv, HasOpen
<1>2. SourceKeysInv
    <2>. SUFFICES ASSUME NEW i \in Ids, NEW j \in Ids, i # j, raw[i].rec # None, raw[j].rec # None
                  PROVE  \/ SourceKey[raw[i].rec] = None
                         \/ SourceKey[raw[i].rec] # SourceKey[raw[j].rec]
        BY DEF SourceKeysInv
    <2>1. /\ i \in DOMAIN Earlier /\ raw[i].rec = Earlier[i]
          /\ j \in DOMAIN Earlier /\ raw[j].rec = Earlier[j]
        BY InitRows
    <2>. QED  BY <2>1, IntakeAssumption
<1>. QED  BY <1>1, <1>2 DEF SerialInv

(* A delivery at work sees every row there is.                               *)
LEMMA SeesAll ==
    ASSUME IntakeInv, OneAtATime, NEW d \in Deliverers, HasOpen(d), NEW i \in Ids, raw[i].rec # None
    PROVE  i \in Visible(d)
<1>1. raw[i].owner \in Deliverers \cup {None}
    BY RowFields DEF IntakeInv, TypeOK
<1>2. raw[i].owner # None => HasOpen(raw[i].owner)
    BY DEF IntakeInv, RowsInv
<1>. QED  BY <1>1, <1>2 DEF OneAtATime, Visible

LEMMA StoreKeepsSerial ==
    ASSUME IntakeInv, SerialInv, NEW d \in Deliverers, Stores(d)
    PROVE  SerialInv'
<1>1. /\ Processing(d) /\ delivery' = [delivery EXCEPT ![d].next = @ + 1]
      /\ UNCHANGED <<mapped, accepted, watermark, repair>>
    BY StoreFrame
<1>2. PICK i \in Ids, status \in Statuses, code \in Codes \cup {"none"} :
         /\ raw[i].rec = None
         /\ raw' = [raw EXCEPT ![i] = RowOf(Current(d), d, status, code)]
         /\ Fits(d, status, code)
    BY StoreEffect DEF IntakeInv
<1>3. /\ raw'[i].rec = Current(d)
      /\ \A j \in Ids : j # i => raw'[j] = raw[j]
    BY <1>2 DEF RowOf, IntakeInv, TypeOK
<1>4. Current(d) \in Records /\ HasOpen(d)
    BY <1>1, CurrentIsARecord DEF IntakeInv, Processing, HasOpen
<1>5. SourceKeysInv'
    <2>1. CASE Current(d) \in Events
        <3>1. SourceKey[Current(d)] = None
            BY <2>1, IntakeAssumption
        <3>. QED  BY <1>2, <1>3, <3>1 DEF SerialInv, SourceKeysInv
    <2>2. CASE Current(d) \notin Events
        <3>1. ~ Replayed(d, Current(d))
            BY <1>2, <2>2 DEF Fits
        <3>2. \A j \in Ids : raw[j].rec # None => j \in Visible(d)
            BY <1>4, SeesAll DEF SerialInv
        <3>3. \A j \in Ids : raw[j].rec # None =>
                 SourceKey[Current(d)] = None \/ SourceKey[raw[j].rec] # SourceKey[Current(d)]
            BY <3>1, <3>2 DEF Replayed
        <3>. QED  BY <1>2, <1>3, <3>3 DEF SerialInv, SourceKeysInv
    <2>. QED  BY <2>1, <2>2
<1>6. OneAtATime' /\ MarkInv'
    BY <1>1, AdvanceEffect DEF SerialInv, OneAtATime, MarkInv, HasOpen
<1>. QED  BY <1>5, <1>6 DEF SerialInv

LEMMA SerialStep ==
    Receivers = Deliverers /\ IntakeInv /\ SerialInv /\ [Next]_vars => SerialInv'
<1>. SUFFICES ASSUME Receivers = Deliverers, IntakeInv, SerialInv, [Next]_vars PROVE SerialInv'
    OBVIOUS
<1>0. delivery \in [Deliverers -> DeliveryType]
    BY DEF IntakeInv, TypeOK, DeliveryType
<1>1. ASSUME raw' = raw PROVE SourceKeysInv'
    BY <1>1 DEF SerialInv, SourceKeysInv
<1>2. ASSUME NEW d \in Deliverers, Deliver(d) PROVE SerialInv'
    <2>1. ASSUME NEW b \in Batches, Validate(d, b) PROVE SerialInv'
        <3>1. /\ \A e \in Deliverers : e # d => delivery'[e] = delivery[e]
              /\ delivery'[d].pc = "checked" /\ raw' = raw /\ watermark' = watermark
            BY <1>0, <2>1 DEF Validate
        <3>. QED  BY <1>1, <3>1 DEF SerialInv, OneAtATime, MarkInv, HasOpen
    <2>2. CASE Open(d)
        <3>1. /\ \A e \in Deliverers : e # d => delivery'[e] = delivery[e] /\ ~ HasOpen(e)
              /\ delivery'[d].pc = "open" /\ raw' = raw /\ watermark' = watermark
            BY <1>0, <2>2 DEF Open, MayOpen, HasOpen, DeliveryType
        <3>. QED  BY <1>1, <3>1 DEF SerialInv, OneAtATime, MarkInv, HasOpen
    <2>3. CASE SkipReplay(d)
        <3>1. /\ delivery' = [delivery EXCEPT ![d].next = @ + 1]
              /\ raw' = raw /\ watermark' = watermark
            BY <2>3 DEF SkipReplay, Advance
        <3>. QED  BY <1>1, <3>1, AdvanceEffect DEF SerialInv, OneAtATime, MarkInv, HasOpen
    <2>4. CASE Stores(d)
        BY <2>4, StoreKeepsSerial
    <2>5. CASE Close(d)
        <3>1. /\ \A e \in Deliverers : e # d => delivery'[e] = delivery[e]
              /\ delivery'[d].pc = "closing" /\ delivery'[d].seen = watermark
              /\ HasOpen(d) /\ raw' = raw /\ watermark' = watermark
            BY <1>0, <2>5 DEF Close, HasOpen, DeliveryType
        <3>. QED  BY <1>1, <3>1 DEF SerialInv, OneAtATime, MarkInv, HasOpen
    <2>6. CASE Commit(d)
        <3>1. /\ \A e \in Deliverers : e # d => delivery'[e] = delivery[e] /\ ~ HasOpen(e)
              /\ delivery'[d].pc = "idle"
            BY <1>0, <2>6, IdleTypes DEF Commit, HasOpen, SerialInv, OneAtATime
        <3>2. SourceKeysInv'
            BY <2>6, CommitEffect DEF SerialInv, SourceKeysInv
        <3>. QED  BY <3>1, <3>2 DEF SerialInv, OneAtATime, MarkInv, HasOpen
    <2>7. CASE Fail(d)
        <3>1. SourceKeysInv'
            BY <2>7, FailEffect DEF SerialInv, SourceKeysInv, NoRow
        <3>. QED  BY <2>7, <3>1, FailEffect, IdleTypes DEF SerialInv, OneAtATime, MarkInv, HasOpen
    <2>. QED  BY <1>2, <2>1, <2>2, <2>3, <2>4, <2>5, <2>6, <2>7 DEF Deliver, Stores
<1>3. ASSUME NEW o \in Operators, Repair(o) PROVE SerialInv'
    <2>1. /\ delivery' = delivery /\ watermark' = watermark
          /\ \A i \in Ids : raw'[i].rec = raw[i].rec
        BY <1>3, ReprocessEffect DEF Repair, BeginReprocess, RollBack, RowsStay
    <2>. QED  BY <2>1 DEF SerialInv, OneAtATime, SourceKeysInv, MarkInv, HasOpen
<1>4. ASSUME NEW k \in Keys, SetComponent(k) PROVE SerialInv'
    BY <1>1, <1>4 DEF SetComponent, SerialInv, OneAtATime, MarkInv, HasOpen
<1>5. CASE UNCHANGED vars
    BY <1>1, <1>5 DEF vars, SerialInv, OneAtATime, MarkInv, HasOpen
<1>. QED  BY <1>2, <1>3, <1>4, <1>5 DEF Next

LEMMA SerialInvariant ==
    ASSUME Receivers = Deliverers
    PROVE  Spec => [](IntakeInv /\ SerialInv)
<1>1. IntakeInv /\ SerialInv /\ [Next]_vars => SerialInv'
    BY SerialStep
<1>. QED  BY <1>1, IntakeInit, IntakeStep, SerialInit, PTL DEF Spec

(* When every delivery comes through a receive adapter, a source record is    *)
(* stored once in every execution, also when a sender repeats a batch before  *)
(* the first answer: the running adapter_run excludes the second delivery     *)
(* until the rows of the first can be seen.                                   *)
THEOREM RecordsStoredOnce ==
    ASSUME Receivers = Deliverers
    PROVE  Spec => []RecordStoredOnce
<1>1. SerialInv => RecordStoredOnce
    BY DEF SerialInv, SourceKeysInv, RecordStoredOnce, Committed
<1>. QED  BY <1>1, SerialInvariant, PTL

(* Then the watermark of the source never goes back, in any execution: what   *)
(* it was compared with is what it is when the delivery commits.              *)
THEOREM MarkAdvances ==
    ASSUME Receivers = Deliverers
    PROVE  Spec => WatermarkAdvances
<1>1. ASSUME IntakeInv, SerialInv, [Next]_vars PROVE [watermark' >= watermark]_vars
    <2>1. watermark \in Nat
        BY <1>1 DEF IntakeInv, TypeOK
    <2>2. ASSUME watermark' = watermark PROVE watermark' >= watermark
        BY <2>1, <2>2
    <2>3. ASSUME NEW d \in Deliverers, Commit(d) PROVE watermark' >= watermark
        <3>1. delivery[d].seen = watermark /\ delivery[d].batch \in Batches
              /\ watermark' = NewMark(d)
            BY <1>1, <2>3 DEF Commit, SerialInv, MarkInv, IntakeInv, DeliveriesInv
        <3>2. SentAt[delivery[d].batch] \in Nat
            BY <3>1, IntakeAssumption
        <3>. QED  BY <2>1, <3>1, <3>2 DEF NewMark
    <2>4. ASSUME NEW d \in Deliverers, Stores(d) PROVE watermark' = watermark
        BY <2>4, StoreFrame
    <2>5. ASSUME NEW d \in Deliverers, Deliver(d) PROVE watermark' >= watermark
        <3>1. ASSUME NEW b \in Batches, Validate(d, b) PROVE watermark' = watermark
            BY <3>1 DEF Validate
        <3>2. ASSUME Open(d) \/ SkipReplay(d) \/ Close(d) \/ Fail(d)
              PROVE  watermark' = watermark
            BY <3>2 DEF Open, SkipReplay, Close, Fail
        <3>. QED  BY <2>2, <2>3, <2>4, <2>5, <3>1, <3>2 DEF Deliver, Stores
    <2>6. ASSUME NEW o \in Operators, Repair(o) PROVE watermark' = watermark
        BY <2>6 DEF Repair, BeginReprocess, Reprocess, RollBack
    <2>7. ASSUME NEW k \in Keys, SetComponent(k) PROVE watermark' = watermark
        BY <2>7 DEF SetComponent
    <2>. QED  BY <1>1, <2>2, <2>5, <2>6, <2>7 DEF Next
<1>2. (IntakeInv /\ SerialInv) /\ [Next]_vars => [watermark' >= watermark]_vars
    BY <1>1
<1>. QED  BY <1>2, SerialInvariant, PTL DEF Spec, WatermarkAdvances

--------------------------------------------------------------------------------
(* Publication. *)

LEMMA PublishInit == Init => PublishInv
<1>. SUFFICES ASSUME Init PROVE PublishInv
    OBVIOUS
<1>1. \A i \in Ids : ~ raw[i].canonical
    BY InitRows
<1>2. \A o \in Operators : repair[o].pc = "idle"
    BY IdleTypes DEF Init
<1>. QED  BY <1>1, <1>2 DEF PublishInv, Published

(* A step that publishes nothing and gives no row a new twin.                *)
LEMMA NothingPublished ==
    ASSUME PublishInv,
           \A i \in Ids : Published(i)' => Published(i),
           \A i, j \in Ids : Twins(i, j)' => Twins(i, j),
           \A i, j \in Ids : Twins(i, j)' /\ raw'[i].canonical /\ raw'[i].owner # None
                              /\ raw'[j].owner = None
                 => raw[i].canonical /\ raw[i].owner # None /\ raw[j].owner = None
    PROVE  PublishInv'
BY DEF PublishInv

LEMMA StoreKeepsPublish ==
    ASSUME IntakeInv, OneAtATime, PublishInv, NEW d \in Deliverers, Stores(d)
    PROVE  PublishInv'
<1>1. /\ Processing(d) /\ UNCHANGED <<mapped, accepted, watermark, repair>>
    BY StoreFrame
<1>2. PICK i \in Ids, status \in Statuses, code \in Codes \cup {"none"} :
         /\ raw[i].rec = None
         /\ raw' = [raw EXCEPT ![i] = RowOf(Current(d), d, status, code)]
         /\ Fits(d, status, code)
    BY StoreEffect DEF IntakeInv
<1>3. Current(d) \in Records /\ HasOpen(d)
    BY <1>1, CurrentIsARecord DEF IntakeInv, Processing, HasOpen
<1>4. /\ raw'[i].canonical = (status = "mapped")
      /\ raw'[i].key = KeyRead(Current(d), Fault[Current(d)] # "none")
      /\ raw'[i].owner = d /\ raw'[i].owner # None
      /\ raw'[i].known => raw'[i].key = Key[Current(d)] /\ raw'[i].key # None
      /\ \A j \in Ids : j # i => raw'[j] = raw[j]
    BY <1>2, <1>3, KeyReadType, NoneIsNothing DEF RowOf, IntakeInv, TypeOK
<1>5. ~ raw[i].known /\ ~ raw[i].canonical
    BY <1>2 DEF IntakeInv, RowsInv, NoRow
<1>6. \A o \in Operators : repair[o].pc = "repair" => repair[o].id # i
    BY <1>2 DEF IntakeInv, RepairsInv, Committed
<1>7. \A j \in Ids : /\ j # i => (Published(j)' <=> Published(j))
                     /\ Published(i)' <=> status = "mapped"
    BY <1>1, <1>4, <1>6 DEF Published
<1>8. ASSUME status = "mapped", NEW j \in Ids, Twins(i, j)'
      PROVE  FALSE
    <2>1. j # i /\ raw'[j] = raw[j] /\ raw[j].known /\ raw[j].key = Key[Current(d)]
        BY <1>4, <1>8 DEF Twins
    <2>2. raw[j].rec \in Records
        BY <2>1 DEF IntakeInv, RowsInv
    <2>3. j \in Visible(d)
        BY <2>2, <1>3, SeesAll, NoneIsNothing
    <2>4. SameKey(Visible(d), 0, Key[Current(d)]) = {}
        BY <1>2, <1>8 DEF Fits
    <2>5. j # 0 /\ Key[Current(d)] # None
        BY <1>3, NoneIsNothing DEF Ids
    <2>. QED  BY <2>1, <2>3, <2>4, <2>5 DEF SameKey
<1>9. \A j, k \in Ids : Twins(j, k) <=> Twins(k, j)
    BY DEF Twins
<1>10. \A j, k \in Ids : Twins(j, k)' <=> Twins(k, j)'
    BY DEF Twins
<1>11. ASSUME NEW j \in Ids, NEW k \in Ids, Twins(j, k)'
       PROVE  /\ ~ (Published(j)' /\ Published(k)')
              /\ ~ (raw'[j].canonical /\ raw'[j].owner # None /\ raw'[k].owner = None)
    <2>1. CASE j = i
        BY <2>1, <1>4, <1>7, <1>8, <1>11
    <2>2. CASE k = i
        BY <2>2, <1>4, <1>7, <1>8, <1>10, <1>11
    <2>3. CASE j # i /\ k # i
        <3>1. Twins(j, k) /\ raw'[j] = raw[j] /\ raw'[k] = raw[k]
            BY <2>3, <1>4, <1>11 DEF Twins
        <3>. QED  BY <2>3, <3>1, <1>7 DEF PublishInv
    <2>. QED  BY <2>1, <2>2, <2>3
<1>. QED  BY <1>11 DEF PublishInv

LEMMA BeginKeepsPublish ==
    ASSUME IntakeInv, PublishInv, NEW o \in Operators, NEW i \in Ids, BeginReprocess(o, i)
    PROVE  PublishInv'
<1>1. /\ i \in Committed /\ raw[i].rec \in Records \ Events /\ raw[i] \in RowType
      /\ repair' = [repair EXCEPT ![o] = [pc |-> "repair", id |-> i, loaded |-> raw[i],
                                          new |-> Reprocessed(i)]]
      /\ UNCHANGED <<raw, mapped, accepted, watermark, delivery>>
    BY BeginEffect
<1>2. PICK new : new = Reprocessed(i)
    OBVIOUS
<1>3. /\ new.key = raw[i].key \/ new.key = KeyRead(raw[i].rec, FaultyNow(raw[i].rec))
      /\ new.canonical => raw[i].canonical \/ SameKey(Committed, i, new.key) = {}
    BY <1>1, <1>2, ReprocessedEffect DEF IntakeInv
<1>4. raw[i].known => new.key = raw[i].key /\ new.key # None
    <2>1. raw[i].known => KeyRead(raw[i].rec, FaultyNow(raw[i].rec)) = raw[i].key
        BY KnownKey DEF IntakeInv
    <2>2. raw[i].known => raw[i].key # None
        BY NoneIsNothing DEF IntakeInv, RowsInv
    <2>. QED  BY <1>3, <2>1, <2>2
<1>5. \A p \in Operators : repair'[p] =
         IF p = o THEN [pc |-> "repair", id |-> i, loaded |-> raw[i], new |-> new] ELSE repair[p]
    BY <1>1, <1>2 DEF IntakeInv, TypeOK
<1>6. \A j \in Ids : Published(j)' => Published(j) \/ (j = i /\ new.canonical)
    BY <1>1, <1>5 DEF Published
<1>7. raw[i].canonical => Published(i)
    BY DEF Published
<1>8. ASSUME NEW j \in Ids, Twins(i, j), new.canonical, ~ raw[i].canonical, Published(j)
      PROVE  FALSE
    <2>1. /\ j # i /\ raw[i].known /\ raw[j].known /\ raw[j].key = raw[i].key
          /\ raw[j].rec \in Records
        BY <1>8 DEF Twins, IntakeInv, RowsInv
    <2>2. raw[j].owner # None
        <3>1. j \notin SameKey(Committed, i, new.key)
            BY <1>3, <1>8
        <3>. QED  BY <2>1, <3>1, <1>4, NoneIsNothing DEF SameKey, Committed
    <2>3. raw[j].canonical
        BY <1>8, <2>2 DEF Published, IntakeInv, RepairsInv, Committed
    <2>4. Twins(j, i) /\ raw[i].owner = None
        BY <1>1, <1>8 DEF Twins, Committed
    <2>. QED  BY <2>2, <2>3, <2>4 DEF PublishInv
<1>9. \A j, k \in Ids : (Twins(j, k)' <=> Twins(j, k)) /\ (Twins(j, k) <=> Twins(k, j))
    BY <1>1 DEF Twins
<1>10. \A j, k \in Ids : Twins(j, k) => j # k
    BY DEF Twins
<1>11. ASSUME NEW j \in Ids, NEW k \in Ids, Twins(j, k)'
       PROVE  /\ ~ (Published(j)' /\ Published(k)')
              /\ ~ (raw'[j].canonical /\ raw'[j].owner # None /\ raw'[k].owner = None)
    <2>1. Twins(j, k) /\ Twins(k, j) /\ j # k
        BY <1>9, <1>10, <1>11
    <2>2. ~ (Published(j) /\ Published(k))
        BY <2>1 DEF PublishInv
    <2>3. ~ (Published(j)' /\ Published(k)')
        BY <2>1, <2>2, <1>6, <1>7, <1>8
    <2>. QED  BY <2>1, <2>3, <1>1 DEF PublishInv
<1>. QED  BY <1>11 DEF PublishInv

LEMMA ReprocessKeepsPublish ==
    ASSUME IntakeInv, PublishInv, NEW o \in Operators, Reprocess(o)
    PROVE  PublishInv'
<1>. DEFINE i == repair[o].id
<1>1. /\ RowsStay /\ repair[o].pc = "repair" /\ i \in Committed /\ i \in Ids
      /\ \A j \in Ids : j # i => raw'[j] = raw[j]
      /\ raw'[i] = Flushed(raw[i], repair[o].loaded, repair[o].new)
      /\ repair' = [repair EXCEPT ![o] = IdleRepair]
    BY ReprocessEffect
<1>2. raw[i] \in RowType /\ repair[o].loaded \in RowType /\ repair[o].new \in RowType
    BY <1>1 DEF IntakeInv, TypeOK
<1>3. raw'[i].canonical => raw[i].canonical \/ repair[o].new.canonical
    BY <1>1, <1>2, FlushedEffect
<1>4. \A p \in Operators : repair'[p].pc = "repair" => repair'[p] = repair[p]
    BY <1>1, IdleTypes DEF IntakeInv, TypeOK
<1>. HIDE DEF i
<1>5. \A j \in Ids : Published(j)' => Published(j)
    <2>. SUFFICES ASSUME NEW j \in Ids, Published(j)' PROVE Published(j)
        OBVIOUS
    <2>1. CASE raw'[j].canonical
        BY <2>1, <1>1, <1>3 DEF Published, i
    <2>2. CASE \E p \in Operators : repair'[p].pc = "repair" /\ repair'[p].id = j
                                      /\ repair'[p].new.canonical
        BY <2>2, <1>4 DEF Published
    <2>. QED  BY <2>1, <2>2 DEF Published
<1>6. \A j, k \in Ids : Twins(j, k)' => Twins(j, k)
    BY <1>1 DEF Twins, RowsStay
<1>7. \A j \in Ids : /\ raw'[j].owner = raw[j].owner
                     /\ raw'[j].canonical /\ raw'[j].owner # None => raw[j].canonical
    <2>1. raw[i].owner = None
        BY <1>1 DEF Committed
    <2>. QED  BY <2>1, <1>1 DEF RowsStay
<1>. QED  BY <1>5, <1>6, <1>7, NothingPublished

LEMMA PublishStep == IntakeInv /\ OneAtATime /\ PublishInv /\ [Next]_vars => PublishInv'
<1>. SUFFICES ASSUME IntakeInv, OneAtATime, PublishInv, [Next]_vars PROVE PublishInv'
    OBVIOUS
<1>1. ASSUME raw' = raw, repair' = repair PROVE PublishInv'
    BY <1>1 DEF PublishInv, Published, Twins
<1>2. ASSUME NEW d \in Deliverers, Deliver(d) PROVE PublishInv'
    <2>1. ASSUME NEW b \in Batches, Validate(d, b) PROVE PublishInv'
        BY <1>1, <2>1 DEF Validate
    <2>2. CASE Open(d) \/ SkipReplay(d) \/ Close(d)
        BY <1>1, <2>2 DEF Open, SkipReplay, Close
    <2>3. CASE Stores(d)
        BY <2>3, StoreKeepsPublish
    <2>4. CASE Commit(d)
        <3>1. /\ repair' = repair
              /\ \A i \in Ids : /\ raw'[i].known = raw[i].known /\ raw'[i].key = raw[i].key
                                /\ raw'[i].canonical = raw[i].canonical
                                /\ raw'[i].owner = IF raw[i].owner = d THEN None ELSE raw[i].owner
            BY <2>4, CommitEffect DEF Commit
        <3>2. \A i \in Ids : raw'[i].owner # None => raw'[i].owner = raw[i].owner /\ raw[i].owner # d
            BY <3>1
        <3>3. HasOpen(d)
            BY <2>4 DEF Commit, HasOpen
        <3>4. \A i \in Ids : raw'[i].owner = None
            <4>1. \A i \in Ids : raw[i].owner \in Deliverers \cup {None}
                BY RowFields DEF IntakeInv, TypeOK
            <4>. QED  BY <3>1, <3>3, <4>1 DEF IntakeInv, RowsInv, OneAtATime
        <3>. QED  BY <3>1, <3>4, NothingPublished DEF Published, Twins
    <2>5. CASE Fail(d)
        <3>1. ~ NoRow.known /\ ~ NoRow.canonical
            BY DEF NoRow
        <3>2. \A i \in Ids : raw'[i].known => raw'[i] = raw[i]
            BY <2>5, <3>1, FailEffect
        <3>3. \A i \in Ids : Published(i)' => Published(i)
            BY <2>5, <3>1, FailEffect DEF Published
        <3>. QED  BY <3>2, <3>3, NothingPublished DEF Twins
    <2>. QED  BY <1>2, <2>1, <2>2, <2>3, <2>4, <2>5 DEF Deliver, Stores
<1>3. ASSUME NEW o \in Operators, Repair(o) PROVE PublishInv'
    <2>1. ASSUME NEW i \in Ids, BeginReprocess(o, i) PROVE PublishInv'
        BY <2>1, BeginKeepsPublish
    <2>2. CASE Reprocess(o)
        BY <2>2, ReprocessKeepsPublish
    <2>3. CASE RollBack(o)
        <3>1. raw' = raw /\ \A p \in Operators : repair'[p].pc = "repair" => repair'[p] = repair[p]
            BY <2>3, IdleTypes DEF RollBack, IntakeInv, TypeOK
        <3>2. \A i \in Ids : Published(i)' => Published(i)
            BY <3>1 DEF Published
        <3>. QED  BY <3>1, <3>2, NothingPublished DEF Twins
    <2>. QED  BY <1>3, <2>1, <2>2, <2>3 DEF Repair
<1>4. ASSUME NEW k \in Keys, SetComponent(k) PROVE PublishInv'
    BY <1>1, <1>4 DEF SetComponent
<1>5. CASE UNCHANGED vars
    BY <1>1, <1>5 DEF vars
<1>. QED  BY <1>2, <1>3, <1>4, <1>5 DEF Next

(* When every delivery comes through a receive adapter, of the rows whose     *)
(* key was known when they were stored one at most is published for each key  *)
(* in every execution, however many operators reprocess rows meanwhile.       *)
THEOREM KnownKeysPublishedOnce ==
    ASSUME Receivers = Deliverers
    PROVE  Spec => []KnownKeyPublishedOnce
<1>1. PublishInv => KnownKeyPublishedOnce
    BY DEF PublishInv, Published, Twins, KnownKeyPublishedOnce, Committed
<1>2. (IntakeInv /\ SerialInv) /\ PublishInv /\ [Next]_vars => PublishInv'
    BY PublishStep DEF SerialInv
<1>. QED  BY <1>1, <1>2, SerialInvariant, PublishInit, PTL DEF Spec

--------------------------------------------------------------------------------
(* The exception queue, where no row is reprocessed twice at a time. *)

(* Transactions at the exception queue that do not overlap: no two open ones   *)
(* have loaded the same row.                                                   *)
RepairsApart ==
    \A o, p \in Operators :
        o # p /\ repair[o].pc = "repair" /\ repair[p].pc = "repair" => repair[o].id # repair[p].id

LEMMA AgreeInit == Init => AgreeInv
<1>. SUFFICES ASSUME Init PROVE AgreeInv
    OBVIOUS
<1>1. \A i \in Ids : Agree(raw[i])
    BY InitRows
<1>. QED  BY <1>1, IdleTypes DEF Init, AgreeInv

LEMMA AgreeStep ==
    RepairsApart /\ IntakeInv /\ AgreeInv /\ [Next]_vars => AgreeInv'
<1>. SUFFICES ASSUME RepairsApart, IntakeInv, AgreeInv, [Next]_vars PROVE AgreeInv'
    OBVIOUS
<1>1. ASSUME raw' = raw, repair' = repair PROVE AgreeInv'
    BY <1>1 DEF AgreeInv
<1>2. ASSUME repair' = repair, \A i \in Ids : Agree(raw'[i]),
             \A i \in Committed : raw'[i] = raw[i]
      PROVE  AgreeInv'
    BY <1>2 DEF AgreeInv, IntakeInv, RepairsInv
<1>3. Agree(NoRow)
    BY NoneIsNothing DEF Agree, NoRow
<1>4. ASSUME NEW d \in Deliverers, Deliver(d) PROVE AgreeInv'
    <2>1. ASSUME NEW b \in Batches, Validate(d, b) PROVE AgreeInv'
        BY <1>1, <2>1 DEF Validate
    <2>2. CASE Open(d) \/ SkipReplay(d) \/ Close(d)
        BY <1>1, <2>2 DEF Open, SkipReplay, Close
    <2>3. CASE Stores(d)
        <3>1. PICK i \in Ids, status \in Statuses, code \in Codes \cup {"none"} :
                 /\ raw[i].rec = None
                 /\ raw' = [raw EXCEPT ![i] = RowOf(Current(d), d, status, code)]
                 /\ Fits(d, status, code)
            BY <2>3, StoreEffect DEF IntakeInv
        <3>2. /\ Agree(raw'[i]) /\ i \notin Committed
              /\ \A j \in Ids : j # i => raw'[j] = raw[j]
            BY <3>1 DEF Fits, IntakeInv, TypeOK, Committed
        <3>3. repair' = repair
            BY <2>3, StoreFrame
        <3>. QED  BY <1>2, <3>2, <3>3 DEF AgreeInv, Committed
    <2>4. CASE Commit(d)
        <3>1. \A i \in Ids : Agree(raw'[i])
            BY <2>4, CommitEffect DEF AgreeInv
        <3>2. \A i \in Committed : raw'[i] = raw[i]
            BY <2>4, CommitEffect, NoneIsNothing DEF Committed
        <3>. QED  BY <1>2, <2>4, <3>1, <3>2 DEF Commit
    <2>5. CASE Fail(d)
        <3>1. \A i \in Ids : Agree(raw'[i])
            BY <2>5, <1>3, FailEffect DEF AgreeInv
        <3>2. \A i \in Committed : raw'[i] = raw[i]
            BY <2>5, FailEffect, NoneIsNothing DEF Committed
        <3>. QED  BY <1>2, <2>5, <3>1, <3>2, FailEffect
    <2>. QED  BY <1>4, <2>1, <2>2, <2>3, <2>4, <2>5 DEF Deliver, Stores
<1>5. ASSUME NEW o \in Operators, NEW i \in Ids, BeginReprocess(o, i) PROVE AgreeInv'
    <2>1. /\ i \in Committed /\ raw[i].rec \in Records \ Events
          /\ repair' = [repair EXCEPT ![o] = [pc |-> "repair", id |-> i, loaded |-> raw[i],
                                              new |-> Reprocessed(i)]]
          /\ raw' = raw
        BY <1>5, BeginEffect
    <2>2. PICK new : new = Reprocessed(i)
        OBVIOUS
    <2>3. Agree(new)
        BY <2>1, <2>2, ReprocessedEffect DEF IntakeInv, AgreeInv
    <2>4. \A p \in Operators : repair'[p] =
             IF p = o THEN [pc |-> "repair", id |-> i, loaded |-> raw[i], new |-> new]
             ELSE repair[p]
        BY <2>1, <2>2 DEF IntakeInv, TypeOK
    <2>. QED  BY <2>1, <2>3, <2>4 DEF AgreeInv
<1>6. ASSUME NEW o \in Operators, Reprocess(o) PROVE AgreeInv'
    <2>. DEFINE i == repair[o].id
    <2>1. /\ repair[o].pc = "repair" /\ i \in Ids
          /\ \A j \in Ids : j # i => raw'[j] = raw[j]
          /\ raw'[i] = Flushed(raw[i], repair[o].loaded, repair[o].new)
          /\ repair' = [repair EXCEPT ![o] = IdleRepair]
        BY <1>6, ReprocessEffect
    <2>2. /\ raw[i] \in RowType /\ repair[o].new \in RowType
          /\ repair[o].loaded = raw[i] /\ Agree(repair[o].new)
        BY <2>1 DEF IntakeInv, TypeOK, AgreeInv
    <2>3. raw'[i] = repair[o].new
        BY <2>1, <2>2, FlushedEffect
    <2>6. i = repair[o].id
        OBVIOUS
    <2>. HIDE DEF i
    <2>4. /\ repair'[o].pc # "repair"
          /\ \A p \in Operators : p # o => repair'[p] = repair[p]
        BY <2>1, IdleTypes DEF IntakeInv, TypeOK
    <2>5. \A p \in Operators : p # o /\ repair[p].pc = "repair" => repair[p].id # i
        BY <1>6, <2>1, <2>6 DEF RepairsApart
    <2>7. \A j \in Ids : Agree(raw'[j])
        BY <2>1, <2>2, <2>3 DEF AgreeInv
    <2>8. ASSUME NEW p \in Operators, repair'[p].pc = "repair"
          PROVE  repair'[p].loaded = raw'[repair'[p].id] /\ Agree(repair'[p].new)
        <3>1. p # o /\ repair'[p] = repair[p] /\ repair[p].pc = "repair" /\ repair[p].id # i
            BY <2>4, <2>5, <2>8
        <3>2. repair[p].id \in Ids
            BY <3>1 DEF IntakeInv, RepairsInv, Committed
        <3>3. repair[p].loaded = raw[repair[p].id] /\ Agree(repair[p].new)
            BY <3>1 DEF AgreeInv
        <3>. QED  BY <2>1, <3>1, <3>2, <3>3
    <2>. QED  BY <2>7, <2>8 DEF AgreeInv
<1>7. ASSUME NEW o \in Operators, RollBack(o) PROVE AgreeInv'
    <2>1. raw' = raw /\ \A p \in Operators : repair'[p].pc = "repair" => repair'[p] = repair[p]
        BY <1>7, IdleTypes DEF RollBack, IntakeInv, TypeOK
    <2>. QED  BY <2>1 DEF AgreeInv
<1>8. ASSUME NEW k \in Keys, SetComponent(k) PROVE AgreeInv'
    BY <1>1, <1>8 DEF SetComponent
<1>9. CASE UNCHANGED vars
    BY <1>1, <1>9 DEF vars
<1>. QED  BY <1>4, <1>5, <1>6, <1>7, <1>8, <1>9 DEF Next, Repair

(* Where no row is reprocessed by two operators at a time the mark of a row,   *)
(* its measurement and its place in the queue agree, while any number of       *)
(* deliveries store, commit and roll back rows.                                *)
THEOREM StatusesStayInStep == Spec /\ []RepairsApart => []StatusesAgree
<1>1. IntakeInv /\ AgreeInv => StatusesAgree
    <2>. SUFFICES ASSUME IntakeInv, AgreeInv PROVE StatusesAgree
        OBVIOUS
    <2>1. \A i \in Committed : i \in Ids /\ Agree(raw[i])
        BY DEF AgreeInv, Committed
    <2>. QED  BY <2>1 DEF IntakeInv, Agree, StatusesAgree
<1>2. RepairsApart /\ IntakeInv /\ AgreeInv /\ [Next]_vars => AgreeInv'
    BY AgreeStep
<1>. QED  BY <1>1, <1>2, IntakeInit, IntakeStep, AgreeInit, PTL DEF Spec
================================================================================
