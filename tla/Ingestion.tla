------------------------------- MODULE Ingestion -------------------------------
(***************************************************************************)
(* The way into the system of record: batches of reads and events arrive   *)
(* at the ingest endpoints and at managed receive adapters                 *)
(* (app/services/ingestion.py, receive_adapters.py, ingest_contract.py);   *)
(* reads that do not become a canonical measurement wait in the exception  *)
(* queue until an operator reprocesses them (exception_queue.py).          *)
(*                                                                         *)
(* A delivery is one transaction at READ COMMITTED: each of its queries    *)
(* sees its own rows and what others have committed so far.  Senders       *)
(* repeat batches, also while the first delivery is under way.  Ids of     *)
(* rows that were rolled back are given out again.  What the evaluation of *)
(* a canonical measurement does is ProcessingCore's.                       *)
(* A definition X_Reason is X with a mistake in it, used by no other one.  *)
(***************************************************************************)
EXTENDS Naturals, Sequences, FiniteSets

CONSTANTS MaxRows,        \* bound on the rows of hes_read_raw and hes_event_raw
          Deliverers,     \* requests the web server works on at a time
          Receivers,      \* those of them that serve one receive adapter
          Operators,      \* sessions of the exception queue
          Records,        \* what the source sends
          Batches,        \* its envelopes: batch_id or message_id
          Content,        \* Content[b]: the records of b, in order
          SentAt,         \* SentAt[b]: received_at of b
          Events,         \* the records that are events
          SourceKey,      \* SourceKey[r]: source_record_key, or None
          Key,            \* Key[r]: meter, channel and time of the reading
          Fault,          \* Fault[r]: what the parser finds wrong at ingest
          Recoverable,    \* faulty payloads that the parser accepts by now
          Earlier,        \* records an earlier release has left as exceptions
          None

Ids == 1..MaxRows
Faults == {"invalid_timestamp", "invalid_numeric_value", "missing_required_fields"}

ASSUME IntakeAssumption ==
    /\ MaxRows \in Nat
    /\ None \notin Records \cup Deliverers \cup Batches \cup {Key[r] : r \in Records}
    /\ Receivers \subseteq Deliverers
    /\ Events \subseteq Records
    /\ Content \in [Batches -> Seq(Records)]
    /\ SentAt \in [Batches -> Nat]
    /\ Fault \in [Records -> Faults \cup {"none", "invalid_event_payload"}]
    /\ Recoverable \subseteq {r \in Records : Fault[r] # "none"}
    /\ Earlier \in Seq(Recoverable \ Events)
    \* hes_event_raw has no source_record_key
    /\ \A r \in Events : SourceKey[r] = None
    \* what the earlier release has left it had stored once
    /\ \A i, j \in DOMAIN Earlier :
          i # j => SourceKey[Earlier[i]] = None \/ SourceKey[Earlier[i]] # SourceKey[Earlier[j]]

VARIABLES raw,          \* raw[i]: a row, its mapping status and its error log
          mapped,       \* keys with an active measuring component
          accepted,     \* accepted[b]: rows of ingest_batch with this envelope
          watermark,    \* processing_watermark of the source
          delivery,     \* the transaction of each delivery
          repair        \* the transaction of each reprocessing operator

vars == <<raw, mapped, accepted, watermark, delivery, repair>>

Keys == {Key[r] : r \in Records \ Events}
Reprocessable == Faults \cup {"measuring_component_not_found"}
Codes == Reprocessable \cup {"duplicate_raw_read", "invalid_event_payload"}

(* A row: the record, the key the parser found, canonical_status, whether it *)
(* is marked a duplicate, the canonical measurement, the error log, and the *)
(* delivery that has not committed it yet.                                  *)
NoRow == [rec |-> None, key |-> None, known |-> FALSE, status |-> "absent",
          dup |-> FALSE, canonical |-> FALSE, code |-> "none",
          error |-> "none", owner |-> None]

RowType == [rec : Records \cup {None}, key : Keys \cup {None}, known : BOOLEAN,
            status : {"absent", "mapped", "duplicate", "exception", "stored"},
            dup : BOOLEAN, canonical : BOOLEAN, code : Codes \cup {"none"},
            error : {"none", "open", "failed", "resolved"},
            owner : Deliverers \cup {None}]

IdleDelivery == [pc |-> "idle", batch |-> None, next |-> 1, seen |-> 0]
IdleRepair == [pc |-> "idle", id |-> 0, loaded |-> NoRow, new |-> NoRow]

TypeOK ==
    /\ raw \in [Ids -> RowType]
    /\ mapped \subseteq Keys
    /\ accepted \in [Batches -> Nat]
    /\ watermark \in Nat
    /\ delivery \in [Deliverers -> [pc : {"idle", "checked", "open", "closing"},
                                    batch : Batches \cup {None},
                                    next : Nat \ {0}, seen : Nat]]
    /\ repair \in [Operators -> [pc : {"idle", "repair"}, id : Ids \cup {0},
                                 loaded : RowType, new : RowType]]

(* What parse_hes_read_payload makes of a record: the key is known unless    *)
(* the time, or a whole field, is missing.                                   *)
KeyRead(r, faulty) ==
    IF r \in Events \/ (faulty /\ Fault[r] # "invalid_numeric_value") THEN None ELSE Key[r]

(* The release in use parses a payload the same way each time. *)
FaultyNow(r) == Fault[r] # "none" /\ r \notin Recoverable

RowsLeft(i) ==
    [NoRow EXCEPT !.rec = Earlier[i], !.key = KeyRead(Earlier[i], TRUE),
                  !.known = KeyRead(Earlier[i], TRUE) # None,
                  !.status = "exception", !.code = Fault[Earlier[i]], !.error = "open"]

Init ==
    /\ raw = [i \in Ids |-> IF i \in DOMAIN Earlier THEN RowsLeft(i) ELSE NoRow]
    /\ mapped \in SUBSET Keys
    /\ accepted = [b \in Batches |-> 0]
    /\ watermark = 0
    /\ delivery = [d \in Deliverers |-> IdleDelivery]
    /\ repair = [o \in Operators |-> IdleRepair]

-------------------------------------------------------------------------------
(* Deliveries. *)

(* The rows a transaction reads: committed ones and its own. *)
Visible(d) == {i \in Ids : raw[i].rec # None /\ raw[i].owner \in {None, d}}

IsNextId(i) == raw[i].rec = None /\ \A j \in 1..(i - 1) : raw[j].rec # None

Current(d) == Content[delivery[d].batch][delivery[d].next]

(* validate_ingest_envelope, before anything is locked. *)
Validate(d, b) ==
    /\ delivery[d].pc = "idle"
    /\ accepted[b] = 0
    /\ delivery' = [delivery EXCEPT ![d] = [pc |-> "checked", batch |-> b, next |-> 1, seen |-> 0]]
    /\ UNCHANGED <<raw, mapped, accepted, watermark, repair>>

(* Variant: the run of a receive adapter excludes nobody. *)
MayOpen_NoIndex(d) == TRUE

(* A receive adapter inserts a running adapter_run first.  The unique index  *)
(* on running runs makes the insert wait for the delivery that holds one.    *)
MayOpen(d) ==
    d \in Receivers => \A e \in Receivers : delivery[e].pc \notin {"open", "closing"}

Open(d) ==
    /\ delivery[d].pc = "checked"
    /\ MayOpen(d)
    /\ delivery' = [delivery EXCEPT ![d].pc = "open"]
    /\ UNCHANGED <<raw, mapped, accepted, watermark, repair>>

(* Variant: a duplicate reading is skipped like a replay. *)
Replayed_SameReading(d, r) ==
    \E i \in Visible(d) : Key[raw[i].rec] = Key[r]

(* find_replayed_hes_read_raw: events have no such key. *)
Replayed(d, r) ==
    SourceKey[r] # None /\ \E i \in Visible(d) : SourceKey[raw[i].rec] = SourceKey[r]

(* Variant: only reads that became measurements count. *)
SameKey_MappedOnly(V, i, k) ==
    {j \in V \ {i} : raw[j].key = k /\ k # None /\ raw[j].status = "mapped"}

(* find_duplicate_hes_read_raw: any other row with this key, whatever became *)
(* of it.  An unknown key is equal to none.                                  *)
SameKey(V, i, k) == {j \in V \ {i} : raw[j].key = k /\ k # None}

Processing(d) == delivery[d].pc = "open" /\ delivery[d].next <= Len(Content[delivery[d].batch])

Advance(d) == delivery' = [delivery EXCEPT ![d].next = @ + 1]

SkipReplay(d) ==
    /\ Processing(d)
    /\ Replayed(d, Current(d))
    /\ Advance(d)
    /\ UNCHANGED <<raw, mapped, accepted, watermark, repair>>

(* Inserts the row of the current record; code "none" means no error log. *)
Store(d, status, code) ==
    LET r == Current(d)
        k == KeyRead(r, Fault[r] # "none")
    IN
    \E i \in Ids :
        /\ IsNextId(i)
        /\ raw' = [raw EXCEPT ![i] =
                      [rec |-> r, key |-> k, known |-> k # None, status |-> status,
                       dup |-> status = "duplicate", canonical |-> status = "mapped",
                       code |-> code, error |-> IF code = "none" THEN "none" ELSE "open",
                       owner |-> d]]
        /\ Advance(d)
        /\ UNCHANGED <<mapped, accepted, watermark, repair>>

IsNewRead(d) ==
    /\ Processing(d)
    /\ Current(d) \notin Events
    /\ ~ Replayed(d, Current(d))

StoreInvalid(d) ==
    /\ IsNewRead(d)
    /\ Fault[Current(d)] # "none"
    /\ Store(d, "exception", Fault[Current(d)])

IsDuplicate(d) == SameKey(Visible(d), 0, Key[Current(d)]) # {}

StoreDuplicate(d) ==
    /\ IsNewRead(d)
    /\ Fault[Current(d)] = "none"
    /\ IsDuplicate(d)
    /\ Store(d, "duplicate", "duplicate_raw_read")

StoreUnmapped(d) ==
    /\ IsNewRead(d)
    /\ Fault[Current(d)] = "none"
    /\ ~ IsDuplicate(d)
    /\ Key[Current(d)] \notin mapped
    /\ Store(d, "exception", "measuring_component_not_found")

(* create_or_get_canonical_measurement. *)
StoreMapped(d) ==
    /\ IsNewRead(d)
    /\ Fault[Current(d)] = "none"
    /\ ~ IsDuplicate(d)
    /\ Key[Current(d)] \in mapped
    /\ Store(d, "mapped", "none")

(* ingest_events looks for neither replays nor duplicates. *)
StoreEvent(d) ==
    /\ Processing(d)
    /\ Current(d) \in Events
    /\ Store(d, "stored", Fault[Current(d)])

(* upsert_processing_watermark loads the row it compares with. *)
Close(d) ==
    /\ delivery[d].pc = "open"
    /\ delivery[d].next > Len(Content[delivery[d].batch])
    /\ delivery' = [delivery EXCEPT ![d] = [@ EXCEPT !.pc = "closing", !.seen = watermark]]
    /\ UNCHANGED <<raw, mapped, accepted, watermark, repair>>

(* Variant: the latest batch is taken for the newest. *)
NewMark_Last(d) == SentAt[delivery[d].batch]

NewMark(d) ==
    IF SentAt[delivery[d].batch] >= delivery[d].seen
    THEN SentAt[delivery[d].batch] ELSE watermark

Commit(d) ==
    /\ delivery[d].pc = "closing"
    /\ raw' = [i \in Ids |-> IF raw[i].owner = d THEN [raw[i] EXCEPT !.owner = None] ELSE raw[i]]
    /\ accepted' = [accepted EXCEPT ![delivery[d].batch] = @ + 1]
    /\ watermark' = NewMark(d)
    /\ delivery' = [delivery EXCEPT ![d] = IdleDelivery]
    /\ UNCHANGED <<mapped, repair>>

(* Any error rolls the request back, with the failed run that              *)
(* _fail_receive_run has written; so does a crash of the server.           *)
Fail(d) ==
    /\ delivery[d].pc # "idle"
    /\ raw' = [i \in Ids |-> IF raw[i].owner = d THEN NoRow ELSE raw[i]]
    /\ delivery' = [delivery EXCEPT ![d] = IdleDelivery]
    /\ UNCHANGED <<mapped, accepted, watermark, repair>>

Deliver(d) ==
    \/ \E b \in Batches : Validate(d, b)
    \/ Open(d)
    \/ SkipReplay(d)
    \/ StoreInvalid(d)
    \/ StoreDuplicate(d)
    \/ StoreUnmapped(d)
    \/ StoreMapped(d)
    \/ StoreEvent(d)
    \/ Close(d)
    \/ Commit(d)
    \/ Fail(d)

-------------------------------------------------------------------------------
(* The exception queue. *)

Committed == {i \in Ids : raw[i].rec # None /\ raw[i].owner = None}

(* Variant: the mark of the row is left alone. *)
Failed_KeepsStatus(row, status) == [row EXCEPT !.error = "failed"]

Failed(row, status) == [row EXCEPT !.status = status, !.error = "failed"]

(* Payload errors are parsed again, from the payload as it was stored. *)
Reparsed(row) ==
    IF row.code \in Faults
    THEN [row EXCEPT !.key = KeyRead(row.rec, FaultyNow(row.rec))]
    ELSE row

(* The row as reprocess_exception leaves it. *)
Reprocessed(i) ==
    LET row == Reparsed(raw[i])
        cleared == [row EXCEPT !.dup = FALSE]
    IN
    IF raw[i].canonical
    THEN [raw[i] EXCEPT !.status = "mapped", !.error = "resolved"]
    ELSE IF row.code \in Faults /\ FaultyNow(row.rec)
    THEN Failed(row, "exception")
    ELSE IF SameKey(Committed, i, row.key) # {}
    THEN Failed([row EXCEPT !.dup = TRUE], "duplicate")
    ELSE IF row.key \notin mapped
    THEN Failed(cleared, "exception")
    ELSE [cleared EXCEPT !.status = "mapped", !.canonical = TRUE, !.error = "resolved"]

BeginReprocess(o, i) ==
    /\ repair[o].pc = "idle"
    /\ i \in Committed
    /\ raw[i].rec \notin Events
    /\ raw[i].code \in Reprocessable
    /\ repair' = [repair EXCEPT ![o] = [pc |-> "repair", id |-> i,
                                        loaded |-> raw[i], new |-> Reprocessed(i)]]
    /\ UNCHANGED <<raw, mapped, accepted, watermark, delivery>>

(* A flush writes the columns whose value differs from the one loaded. *)
Flushed(now, loaded, new) ==
    [f \in DOMAIN now |-> IF new[f] = loaded[f] THEN now[f] ELSE new[f]]

(* The canonical measurement of a raw row is unique. *)
Conflict(o) ==
    LET p == repair[o] IN p.new.canonical /\ ~ p.loaded.canonical /\ raw[p.id].canonical

Reprocess(o) ==
    LET p == repair[o] IN
    /\ p.pc = "repair"
    /\ ~ Conflict(o)
    /\ raw' = [raw EXCEPT ![p.id] = Flushed(@, p.loaded, p.new)]
    /\ repair' = [repair EXCEPT ![o] = IdleRepair]
    /\ UNCHANGED <<mapped, accepted, watermark, delivery>>

RollBack(o) ==
    /\ repair[o].pc = "repair"
    /\ repair' = [repair EXCEPT ![o] = IdleRepair]
    /\ UNCHANGED <<raw, mapped, accepted, watermark, delivery>>

Repair(o) ==
    \/ \E i \in Ids : BeginReprocess(o, i)
    \/ Reprocess(o)
    \/ RollBack(o)

(* Master data: a measuring component is created, or put out of service. *)
SetComponent(k) ==
    /\ mapped' = IF k \in mapped THEN mapped \ {k} ELSE mapped \cup {k}
    /\ UNCHANGED <<raw, accepted, watermark, delivery, repair>>

Next ==
    \/ \E d \in Deliverers : Deliver(d)
    \/ \E o \in Operators : Repair(o)
    \/ \E k \in Keys : SetComponent(k)

Spec == Init /\ [][Next]_vars

-------------------------------------------------------------------------------
(* "if the same source_system + source_record_key is seen again, the raw row *)
(* is treated as an exact replay and skipped": also when a sender repeats a  *)
(* batch before the first answer.  The index on source_record_key is not     *)
(* unique; the one on running adapter runs, taken before the search, makes   *)
(* it hold for a receive adapter.                                            *)
RecordStoredOnce ==
    \A i, j \in Committed :
        i # j => \/ SourceKey[raw[i].rec] = None
                 \/ SourceKey[raw[i].rec] # SourceKey[raw[j].rec]

(* What is skipped as a replay is there: every record of an accepted batch   *)
(* has a committed row, its own or that of its source key, whatever was      *)
(* rolled back meanwhile.                                                    *)
NothingSkippedIsLost ==
    \A b \in Batches :
        accepted[b] > 0 =>
            \A n \in DOMAIN Content[b] :
                \E i \in Committed :
                    \/ raw[i].rec = Content[b][n]
                    \/ /\ SourceKey[raw[i].rec] = SourceKey[Content[b][n]]
                       /\ SourceKey[raw[i].rec] # None

(* "Duplicate read should not create a second canonical record": of the rows *)
(* whose key was known when they were stored, one at most is published for   *)
(* each key, over reprocessing and changes of master data.                   *)
KnownKeyPublishedOnce ==
    \A i, j \in Committed :
        /\ raw[i].canonical /\ raw[i].known
        /\ raw[j].canonical /\ raw[j].known
        /\ raw[i].key = raw[j].key
        => i = j

(* The rows are well formed, and the mark of a row, its measurement and its  *)
(* place in the exception queue agree: every read is published or listed.    *)
(* It takes one operator: _mark_reprocess_failed of a second one overwrites  *)
(* what the first has resolved.                                              *)
StatusesAgree ==
    /\ TypeOK
    /\ \A i \in Committed :
          LET row == raw[i] IN
          raw[i].rec \notin Events =>
          /\ row.status = "mapped" <=> row.canonical
          /\ row.status = "duplicate" <=> row.dup
          /\ row.status \in {"exception", "duplicate"} <=> row.error \in {"open", "failed"}

(* The watermark of the source never goes back, although it is compared with *)
(* the value that was loaded.                                                *)
WatermarkAdvances == [][watermark' >= watermark]_vars

--------------------------------------------------------------------------------
(* The inductive invariants behind these properties. *)

HasOpen(d) == delivery[d].pc \in {"open", "closing"}

(* A row belongs to the transaction that has inserted it; a key that was      *)
(* known when a row was stored is never parsed into another one.              *)
RowsInv ==
    \A i \in Ids :
        /\ raw[i].rec = None => raw[i] = NoRow
        /\ raw[i].owner # None => HasOpen(raw[i].owner)
        /\ raw[i].known =>
              /\ raw[i].rec \in Records \ Events
              /\ Fault[raw[i].rec] \in {"none", "invalid_numeric_value"}
              /\ raw[i].key = Key[raw[i].rec]

(* A row stands for a record: it is one of it, or has its source key.         *)
StandsFor(i, r) ==
    \/ raw[i].rec = r
    \/ SourceKey[raw[i].rec] = SourceKey[r] /\ SourceKey[raw[i].rec] # None

(* A delivery has left behind it a row for each record it has worked on.      *)
DeliveriesInv ==
    \A d \in Deliverers :
        LET t == delivery[d] IN
        t.pc # "idle" =>
            /\ t.batch \in Batches
            /\ t.pc = "checked" => t.next = 1
            /\ t.pc = "closing" => t.next > Len(Content[t.batch])
            /\ \A n \in DOMAIN Content[t.batch] :
                  n < t.next => \E i \in Visible(d) : StandsFor(i, Content[t.batch][n])

(* What an operator has loaded is still there, and nothing it is about to     *)
(* write tells where the row comes from.                                      *)
RepairsInv ==
    \A o \in Operators :
        LET p == repair[o] IN
        p.pc = "repair" =>
            /\ p.id \in Committed
            /\ raw[p.id].rec \notin Events
            /\ p.new.rec = p.loaded.rec /\ p.loaded.rec = raw[p.id].rec
            /\ p.new.owner = None /\ p.loaded.owner = None
            /\ p.new.known = p.loaded.known /\ p.loaded.known = raw[p.id].known
            /\ raw[p.id].known => p.new.key = p.loaded.key

IntakeInv == TypeOK /\ RowsInv /\ DeliveriesInv /\ RepairsInv /\ NothingSkippedIsLost

(* When every delivery comes through the receive adapter, the run it inserts  *)
(* keeps the others out: what it sees is all there is.                        *)
OneAtATime == \A d, e \in Deliverers : HasOpen(d) /\ HasOpen(e) => d = e

SourceKeysInv ==
    \A i, j \in Ids :
        i # j /\ raw[i].rec # None /\ raw[j].rec # None =>
            SourceKey[raw[i].rec] = None \/ SourceKey[raw[i].rec] # SourceKey[raw[j].rec]

MarkInv == \A d \in Deliverers : delivery[d].pc = "closing" => delivery[d].seen = watermark

SerialInv == OneAtATime /\ SourceKeysInv /\ MarkInv

(* A row is published, or an operator is about to publish it.                 *)
Published(i) ==
    \/ raw[i].canonical
    \/ \E o \in Operators : repair[o].pc = "repair" /\ repair[o].id = i /\ repair[o].new.canonical

Twins(i, j) == i # j /\ raw[i].known /\ raw[j].known /\ raw[i].key = raw[j].key

(* Of two rows of one known key one is published, and what a delivery has     *)
(* published without having committed it is not the twin of a committed row.  *)
PublishInv ==
    \A i, j \in Ids :
        Twins(i, j) =>
            /\ ~ (Published(i) /\ Published(j))
            /\ ~ (raw[i].canonical /\ raw[i].owner # None /\ raw[j].owner = None)

(* The marks of a row of a read agree; one that is parsed and refused again   *)
(* has never been taken for a duplicate.                                      *)
Agree(row) ==
    row.rec \notin Events =>
        /\ row.status = "mapped" <=> row.canonical
        /\ row.status = "duplicate" <=> row.dup
        /\ row.status \in {"exception", "duplicate"} <=> row.error \in {"open", "failed"}
        /\ row.code \in Faults /\ FaultyNow(row.rec) => ~ row.dup

AgreeInv ==
    /\ \A i \in Ids : Agree(raw[i])
    /\ \A o \in Operators :
          repair[o].pc = "repair" => repair[o].loaded = raw[repair[o].id] /\ Agree(repair[o].new)

================================================================================
