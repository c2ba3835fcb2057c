----------------------------- MODULE MeterRegistry -----------------------------
(***************************************************************************)
(* Master data and the alerts about one head-end system                    *)
(* (app/services/hes_systems.py, hes_meter_references.py,                  *)
(* hes_meter_reference_sync.py, installations.py, master_data.py,          *)
(* operational_events.py): the meters the head-end lists are compared with *)
(* the devices, their components and their installations.  A change of     *)
(* master data synchronises, in its own transaction, the alerts of the     *)
(* head-end system whose code it names: a device its own source system, an *)
(* installation that of its device, a component whatever its form says.    *)
(* The import of references names the head-end system itself, an edit of   *)
(* the code of the head-end system none.  Operators acknowledge and close  *)
(* alerts by hand.                                                         *)
(*                                                                         *)
(* The head-end system is one, with the code it has now; another code is   *)
(* that of another one, or of none.  A device that is listed may be under  *)
(* the meter of its reference or under another; one that is not listed is  *)
(* there from the start.  A component that is inactive stands for one that *)
(* has not been created as well; a change that alters no state of this     *)
(* module is, by what it synchronises, an import of nothing or no step.    *)
(* A definition X_Reason is X with a mistake in it, used by no other one.  *)
(***************************************************************************)
EXTENDS Naturals, FiniteSets, Sequences, SequencesExt

CONSTANTS SourceSystems,      \* codes of head-end systems, free text elsewhere
          Devices,            \* with the meter of each
          Components,
          Listed,             \* the meters the head-end lists
          MaxInstallations,   \* bound on installation rows
          MaxAlerts,          \* bound on alert rows
          Operators           \* of the master data page, and the CLI command

ASSUME RegistryAssumption ==
    /\ "none" \notin SourceSystems
    /\ Listed \subseteq Devices
    /\ IsFiniteSet(Listed)
    /\ MaxInstallations \in Nat
    /\ MaxAlerts \in Nat

VARIABLES data,         \* hes_code, device, component, installations, references
          alerts,       \* operational_event, the alerts about references
          tx,           \* the transaction of each operator
          settled,      \* history: no overlap, no hand and no change unnoticed
                        \* since a synchronisation that was alone
          installedBeside \* history: two installation changes have overlapped,
                          \* one is under way or two open rows are left

vars == <<data, alerts, tx, settled, installedBeside>>

(* The codes of HES_METER_REFERENCE_ALERT_RULES. *)
Codes == {"missing_device", "missing_component", "missing_installation"}

(* source_system, and whether external_meter_id is the meter of its reference. *)
Device == [system : SourceSystems, meter : BOOLEAN]

Absent == [system |-> "none", meter |-> FALSE]

(* Active: "active" is its status. *)
Component == [device : Devices, active : BOOLEAN]

Installation == [device : Devices, open : BOOLEAN]

Alert == [meter : Listed, code : Codes, status : {"open", "acknowledged", "closed"}]

NoChange == [what |-> "none"]

Free == [pc |-> "idle", change |-> NoChange, synced |-> FALSE, opens |-> {}, closes |-> {},
         id |-> 0, alone |-> TRUE]

Init ==
    /\ \E h \in SourceSystems,
          D \in [Devices -> Device \cup {Absent}],
          C \in [Components -> [device : Devices, active : {FALSE}]] :
          /\ \A d \in Devices : D[d] = Absent <=> d \in Listed
          /\ data = [hes_code |-> h, device |-> D, component |-> C,
                     installations |-> <<>>, references |-> {}]
    /\ alerts = <<>>
    /\ tx = [o \in Operators |-> Free]
    /\ settled = TRUE
    /\ installedBeside = FALSE

-------------------------------------------------------------------------------
(* What a change of master data does to the rows.  A flush writes the        *)
(* columns whose value differs from the one loaded.                          *)

Flushed(now, loaded, new) == IF new = loaded THEN now ELSE new

Applied(D, c) ==
    CASE c.what = "device" ->
            [D EXCEPT !.device[c.device] =
                [system |-> Flushed(@.system, c.loaded.system, c.value.system),
                 meter |-> Flushed(@.meter, c.loaded.meter, c.value.meter)]]
      [] c.what = "component" ->
            [D EXCEPT !.component[c.id] =
                [device |-> Flushed(@.device, c.loaded.device, c.value.device),
                 active |-> Flushed(@.active, c.loaded.active, c.value.active)]]
      [] c.what = "install" ->
            [D EXCEPT !.installations = Append(@, c.value)]
      [] c.what = "reinstall" ->
            [D EXCEPT !.installations[c.id] =
                [device |-> Flushed(@.device, c.loaded.device, c.value.device),
                 open |-> Flushed(@.open, c.loaded.open, c.value.open)]]
      [] c.what = "import" ->
            [D EXCEPT !.references = @ \cup c.value]
      [] c.what = "recode" ->
            [D EXCEPT !.hes_code = c.value]
      [] OTHER -> D

OpenOn(D, d) ==
    {i \in DOMAIN D.installations : D.installations[i].device = d /\ D.installations[i].open}

(* The device of the head-end system with the meter of the reference. *)
Known(D, m) == D.device[m].system = D.hes_code /\ D.device[m].meter

(* _build_hes_meter_reference_comparison_rows *)
Comparison(D, m) ==
    IF ~ Known(D, m) THEN "missing_device"
    ELSE IF ~ \E k \in Components : D.component[k] = [device |-> m, active |-> TRUE]
    THEN "missing_component"
    ELSE IF OpenOn(D, m) = {} THEN "missing_installation"
    ELSE "matched"

Active(m, c) ==
    {i \in DOMAIN alerts : /\ alerts[i].meter = m
                           /\ alerts[i].code = c
                           /\ alerts[i].status \in {"open", "acknowledged"}}

(* Variant: an acknowledged alert is left to the operator. *)
Resolved_Open(m, c) == {i \in Active(m, c) : alerts[i].status = "open"}

(* close_operational_alerts: every active alert of the key. *)
Resolved(m, c) == Active(m, c)

-------------------------------------------------------------------------------
(* A transaction begins: those in flight are no longer alone. *)
Start(o, t) ==
    /\ tx[o].pc = "idle"
    /\ LET busy == {p \in Operators : tx[p].pc # "idle"} IN
       /\ tx' = [p \in Operators |->
                    IF p = o THEN [t EXCEPT !.alone = (t.pc = "write" /\ busy = {})]
                    ELSE IF p \in busy THEN [tx[p] EXCEPT !.alone = FALSE]
                    ELSE tx[p]]
       /\ settled' = (settled /\ busy = {})
    /\ UNCHANGED <<data, alerts>>

Change(o, c) == Start(o, [Free EXCEPT !.pc = "write", !.change = c])

BusyInstalling(o) ==
    \E p \in Operators \ {o} : tx[p].change.what \in {"install", "reinstall"}

(* What an overlap may have left ends with the second open row. *)
StillBeside(o, D) ==
    installedBeside /\ (BusyInstalling(o) \/ \E d \in Devices : Cardinality(OpenOn(D, d)) > 1)

(* create_device with a meter that is listed; update_device under another    *)
(* meter, in another source system, or back.                                 *)
BeginDevice(o, d, v) ==
    /\ data.device[d] # v
    /\ data.device[d] = Absent => v.meter
    /\ Change(o, [what |-> "device", device |-> d, loaded |-> data.device[d],
                  value |-> v, system |-> v.system])
    /\ UNCHANGED installedBeside

(* create_measuring_component, update_measuring_component: the source system *)
(* h of a component need not be that of its device, and nothing reads it but *)
(* the synchronisation that follows.                                         *)
BeginComponent(o, k, v, h) ==
    /\ data.device[v.device] # Absent
    /\ data.component[k] # v
    /\ v.active \/ data.component[k].active
    /\ Change(o, [what |-> "component", id |-> k, loaded |-> data.component[k],
                  value |-> v, system |-> h])
    /\ UNCHANGED installedBeside

(* Variant: an edit is not compared with the other rows. *)
MayOpen_CreateOnly(i, v) == v.open /\ i = 0 => OpenOn(data, v.device) = {}

(* _validate_no_overlapping_open_installation, with exclude_id. *)
MayOpen(i, v) == v.open => OpenOn(data, v.device) \ {i} = {}

(* create_installation_history *)
BeginInstall(o, v) ==
    /\ data.device[v.device] # Absent
    /\ MayOpen(0, v)
    /\ Change(o, [what |-> "install", value |-> v, system |-> data.device[v.device].system])
    /\ installedBeside' = (installedBeside \/ BusyInstalling(o))

(* update_installation_history: it may close, open again or move the row. *)
BeginReinstall(o, i, v) ==
    /\ i \in DOMAIN data.installations
    /\ data.installations[i] # v
    /\ data.device[v.device] # Absent
    /\ MayOpen(i, v)
    /\ Change(o, [what |-> "reinstall", id |-> i, loaded |-> data.installations[i],
                  value |-> v, system |-> data.device[v.device].system])
    /\ installedBeside' = (installedBeside \/ BusyInstalling(o))

(* sync_hes_meter_references: the meters the head-end lists now.  The row of  *)
(* the head-end system stays as it was loaded.                               *)
BeginImport(o, M) ==
    /\ Change(o, [what |-> "import", value |-> M, code |-> data.hes_code])
    /\ UNCHANGED installedBeside

(* update_hes_system under a code no other head-end system has. *)
BeginRecode(o, h) ==
    /\ data.hes_code # h
    /\ Change(o, [what |-> "recode", value |-> h])
    /\ UNCHANGED installedBeside

(* The keys alerts have, those there should be an alert of, and what is to   *)
(* change for that.                                                          *)
Keys(D) == [meter : D.references, code : Codes]

Wanted(D) == {k \in Keys(D) : Comparison(D, k.meter) = k.code}

ToOpen(D) == {k \in Wanted(D) : Active(k.meter, k.code) = {}}

ToClose(D) == UNION {Resolved(k.meter, k.code) : k \in Keys(D) \ Wanted(D)}

(* _sync_hes_meter_reference_alerts_for_source_system looks the code up; an  *)
(* import knows its head-end system, and update_hes_system_view does neither. *)
Synchronises(c) ==
    \/ c.what = "import"
    \/ c.what \notin {"import", "recode"} /\ c.system = data.hes_code

(* The master data a synchronisation sees: with the change of its own        *)
(* transaction, and the head-end system an import has loaded.                *)
Seen(c) ==
    IF c.what = "import" THEN [Applied(data, c) EXCEPT !.hes_code = c.code]
    ELSE Applied(data, c)

(* sync_hes_meter_reference_alerts reads: the master data and the alerts. *)
Compare(o) ==
    LET D == Seen(tx[o].change) IN
    /\ tx[o].pc = "write"
    /\ Synchronises(tx[o].change)
    /\ tx' = [tx EXCEPT ![o] = [@ EXCEPT !.pc = "compared", !.synced = TRUE,
                                        !.opens = ToOpen(D), !.closes = ToClose(D)]]
    /\ UNCHANGED <<data, alerts, settled, installedBeside>>

(* The change is of another head-end system, or of none, or is not looked at. *)
PassOver(o) ==
    /\ tx[o].pc = "write"
    /\ ~ Synchronises(tx[o].change)
    /\ tx' = [tx EXCEPT ![o] = [@ EXCEPT !.pc = "compared"]]
    /\ UNCHANGED <<data, alerts, settled, installedBeside>>

(* The unique external_meter_id. *)
CreatedTwice(c) ==
    c.what = "device" /\ c.loaded = Absent /\ data.device[c.device] # Absent

(* Whether a change from D to E alters what alerts there should be. *)
Unaffected(D, E) == \A m \in D.references : Comparison(E, m) = Comparison(D, m)

(* Master data, closed alerts and new ones are committed together. *)
Commit(o) ==
    LET opened == SetToSeq(tx[o].opens) IN
    /\ tx[o].pc = "compared"
    /\ ~ CreatedTwice(tx[o].change)
    /\ Len(alerts) + Len(opened) <= MaxAlerts
    /\ data' = Applied(data, tx[o].change)
    /\ Len(data'.installations) <= MaxInstallations
    /\ alerts' = [i \in 1..(Len(alerts) + Len(opened)) |->
                    IF i > Len(alerts)
                    THEN LET k == opened[i - Len(alerts)] IN
                         [meter |-> k.meter, code |-> k.code, status |-> "open"]
                    ELSE IF i \in tx[o].closes THEN [alerts[i] EXCEPT !.status = "closed"]
                    ELSE alerts[i]]
    /\ settled' = IF tx[o].synced THEN settled \/ tx[o].alone
                  ELSE settled /\ Unaffected(data, data')
    /\ installedBeside' = StillBeside(o, data')
    /\ tx' = [tx EXCEPT ![o] = Free]

(* acknowledge_operational_alert, up to its check. *)
BeginAcknowledge(o, i) ==
    /\ i \in DOMAIN alerts
    /\ alerts[i].status = "open"
    /\ Start(o, [Free EXCEPT !.pc = "acknowledge", !.id = i])
    /\ UNCHANGED installedBeside

(* It writes what it has decided: an alert closed meanwhile is active again. *)
Acknowledge(o) ==
    /\ tx[o].pc = "acknowledge"
    /\ alerts' = [alerts EXCEPT ![tx[o].id].status = "acknowledged"]
    /\ tx' = [tx EXCEPT ![o] = Free]
    /\ UNCHANGED <<data, settled, installedBeside>>

(* close_operational_alert, by hand. *)
BeginClose(o, i) ==
    /\ i \in DOMAIN alerts
    /\ alerts[i].status # "closed"
    /\ Start(o, [Free EXCEPT !.pc = "close", !.id = i])
    /\ UNCHANGED installedBeside

Close(o) ==
    /\ tx[o].pc = "close"
    /\ alerts' = [alerts EXCEPT ![tx[o].id].status = "closed"]
    /\ settled' = FALSE
    /\ tx' = [tx EXCEPT ![o] = Free]
    /\ UNCHANGED <<data, installedBeside>>

RollBack(o) ==
    /\ tx[o].pc # "idle"
    /\ tx' = [tx EXCEPT ![o] = Free]
    /\ installedBeside' = StillBeside(o, data)
    /\ UNCHANGED <<data, alerts, settled>>

Next ==
    \/ \E o \in Operators, d \in Devices, v \in Device : BeginDevice(o, d, v)
    \/ \E o \in Operators, k \in Components, v \in Component, h \in SourceSystems :
            BeginComponent(o, k, v, h)
    \/ \E o \in Operators, v \in Installation : BeginInstall(o, v)
    \/ \E o \in Operators, i \in 1..MaxInstallations, v \in Installation :
            BeginReinstall(o, i, v)
    \/ \E o \in Operators, M \in SUBSET Listed : BeginImport(o, M)
    \/ \E o \in Operators, h \in SourceSystems : BeginRecode(o, h)
    \/ \E o \in Operators : Compare(o)
    \/ \E o \in Operators : PassOver(o)
    \/ \E o \in Operators : Commit(o)
    \/ \E o \in Operators, i \in 1..MaxAlerts : BeginAcknowledge(o, i)
    \/ \E o \in Operators : Acknowledge(o)
    \/ \E o \in Operators, i \in 1..MaxAlerts : BeginClose(o, i)
    \/ \E o \in Operators : Close(o)
    \/ \E o \in Operators : RollBack(o)

Spec == Init /\ [][Next]_vars

-------------------------------------------------------------------------------
DataType == [hes_code : SourceSystems, device : [Devices -> Device \cup {Absent}],
             component : [Components -> Component],
             installations : Seq(Installation), references : SUBSET Listed]

ChangeType ==
    {NoChange}
    \cup [what : {"device"}, device : Devices, loaded : Device \cup {Absent}, value : Device,
          system : SourceSystems]
    \cup [what : {"component"}, id : Components, loaded : Component, value : Component,
          system : SourceSystems]
    \cup [what : {"install"}, value : Installation, system : SourceSystems]
    \cup [what : {"reinstall"}, id : 1..MaxInstallations, loaded : Installation,
          value : Installation, system : SourceSystems]
    \cup [what : {"import"}, value : SUBSET Listed, code : SourceSystems]
    \cup [what : {"recode"}, value : SourceSystems]

TxType == [pc : {"idle", "write", "compared", "acknowledge", "close"}, change : ChangeType,
           synced : BOOLEAN, opens : SUBSET [meter : Listed, code : Codes],
           closes : SUBSET Nat, id : Nat, alone : BOOLEAN]

TypeOK ==
    /\ data \in DataType
    /\ alerts \in Seq(Alert)
    /\ tx \in [Operators -> TxType]
    /\ settled \in BOOLEAN
    /\ installedBeside \in BOOLEAN

(* The alerts name the differences there are: after a synchronisation that   *)
(* nothing has overlapped, and for as long as nothing overlaps, nobody       *)
(* closes an alert by hand and no change that alters a comparison passes the *)
(* head-end system over, a meter has an active alert of a code when that is  *)
(* what the comparison says of it and only then, whatever earlier            *)
(* transactions have left: alerts opened twice or missing, alerts for a      *)
(* difference that is gone, and closed ones that a late acknowledgement has  *)
(* made active again.                                                        *)
SettledMeansRight ==
    /\ TypeOK
    /\ settled =>
          \A m \in data.references, c \in Codes :
              Active(m, c) # {} <=> Comparison(data, m) = c

(* "Only one open installation is allowed per device", over any sequence of  *)
(* rows created, closed, opened again and moved to another device.  Two such *)
(* changes that overlap break it, no index forbids a second open row; once   *)
(* that is closed, the rule holds again.                                     *)
InstalledOnce ==
    installedBeside \/ \A d \in Devices : Cardinality(OpenOn(data, d)) <= 1

--------------------------------------------------------------------------------
(* The inductive invariants behind these properties. *)

(* What a transaction works on is there: rows are never deleted.              *)
IsThere(D, c) ==
    /\ c.what = "reinstall" => c.id \in DOMAIN D.installations
    /\ c.what = "device" /\ c.loaded # Absent => D.device[c.device] # Absent

RowsInv ==
    \A o \in Operators :
        /\ IsThere(data, tx[o].change)
        /\ tx[o].pc \in {"acknowledge", "close"} => tx[o].id \in DOMAIN alerts

RegistryInv == TypeOK /\ RowsInv

Installing(o) == tx[o].change.what \in {"install", "reinstall"}

(* The check that was made before an installation changes still holds.        *)
ChecksHold(o) ==
    LET c == tx[o].change IN
    /\ c.what = "install" => MayOpen(0, c.value)
    /\ c.what = "reinstall" => MayOpen(c.id, c.value) /\ c.loaded = data.installations[c.id]

OpenOnce ==
    \A i, j \in DOMAIN data.installations :
        LET a == data.installations[i]
            b == data.installations[j]
        IN  a.open /\ b.open /\ a.device = b.device => i = j

InstallInv ==
    installedBeside \/
        /\ OpenOnce
        /\ \A o \in Operators : Installing(o) => ~ BusyInstalling(o) /\ ChecksHold(o)

Writing(o) == tx[o].pc \in {"write", "compared"}

OthersIdle(o) == \A p \in Operators \ {o} : tx[p].pc = "idle"

(* What a synchronisation has decided is what is to be done now; a change     *)
(* that is passed over is no import and touches no alert.                     *)
Decided(o) ==
    IF tx[o].synced
    THEN /\ tx[o].opens = ToOpen(Applied(data, tx[o].change))
         /\ tx[o].closes = ToClose(Applied(data, tx[o].change))
    ELSE tx[o].change.what # "import" /\ tx[o].opens = {} /\ tx[o].closes = {}

(* What is going on alone has loaded the head-end system there is, and has    *)
(* decided nothing before it compares.                                        *)
Fresh(o) ==
    /\ tx[o].change.what = "import" => tx[o].change.code = data.hes_code
    /\ tx[o].pc = "write" => ~ tx[o].synced /\ tx[o].opens = {} /\ tx[o].closes = {}

(* A synchronisation that nothing has overlapped is on its own, and its        *)
(* decisions are not stale.                                                    *)
AloneInv ==
    \A o \in Operators :
        Writing(o) /\ tx[o].alone =>
            /\ OthersIdle(o)
            /\ Fresh(o)
            /\ tx[o].pc = "compared" => Decided(o)

(* Once settled, nothing overlaps: a synchronisation is alone, and an alert   *)
(* that is being acknowledged is still open.                                  *)
CalmInv ==
    settled =>
        \A o \in Operators :
            tx[o].pc # "idle" =>
                /\ OthersIdle(o)
                /\ Writing(o) => tx[o].alone
                /\ tx[o].pc = "acknowledge" => alerts[tx[o].id].status = "open"

AlertsRight ==
    \A m \in data.references, c \in Codes :
        Active(m, c) # {} <=> Comparison(data, m) = c

SettledInv == AloneInv /\ CalmInv /\ (settled => AlertsRight)

===============================================================================
