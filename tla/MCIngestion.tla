------------------------------ MODULE MCIngestion ------------------------------
(* A small instance of Ingestion for TLC: four records of one interval, one   *)
(* of them faulty and one left over by an earlier release, and an event.      *)
EXTENDS Ingestion, TLC

CONSTANTS read, resent, faulty, old, event, interval, b1, b2, b3

FiveRecords == {read, resent, faulty, old, event}
ThreeBatches == {b1, b2, b3}
ContentOf == b1 :> <<read, faulty>> @@ b2 :> <<resent>> @@ b3 :> <<event>>
TimeOf == b1 :> 1 @@ b2 :> 2 @@ b3 :> 3
EventRecords == {event}
SourceKeyOf == [r \in FiveRecords |-> IF r \in {read, faulty} THEN r ELSE None]
KeyOf == [r \in FiveRecords |-> interval]
FaultOf == [r \in FiveRecords |->
               IF r \in {faulty, event} THEN "invalid_timestamp"
               ELSE IF r = old THEN "missing_required_fields" ELSE "none"]
RecoverableRecords == {old}
EarlierRecords == <<old>>

================================================================================
