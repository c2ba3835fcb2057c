# Formal models of the meter data management system

This directory holds TLA+ models of the MDMS in this repository, the TLC
instances that check them and TLAPS proofs of their most important properties.
It is written beside the code: every definition that models code names, in
`PROJECT.json` under `map`, the lines it stands for.

Contents: [the system](#1-the-system), [modules](#2-modules),
[BillingExport](#3-billingexport), [VeeReplay](#4-veereplay),
[ProcessingCore](#5-processingcore), [AdapterRuns](#6-adapterruns),
[IntervalWindows](#7-intervalwindows), [Ingestion](#8-ingestion),
[Downstream](#9-downstream), [EffectiveWindows and
MeterRegistry](#10-effectivewindows-and-meterregistry), [runs](#11-runs),
[proofs](#12-proofs), [findings](#13-findings),
[not modelled](#14-not-modelled), [plan](#15-plan), [how to run it](#16-running).

## 1. The system

A Flask application and a few CLI commands share one PostgreSQL database
through SQLAlchemy. Three facts about that decide most of what can go wrong:

* **One operation is one transaction at READ COMMITTED.** A web handler or CLI
  command opens a session, calls a service, commits or rolls back. Only the two
  queue processors commit several times per call.
* **A session keeps what it has loaded.** `app/db.py` makes sessions with
  `autoflush=False, expire_on_commit=False`; rows are not versioned. A service
  decides on attributes loaded at its start, and the flush writes only columns
  whose value differs from the loaded one, by primary key.
* **Locks are rare.** The claims of the two request queues and of the adapter
  runs use `FOR UPDATE SKIP LOCKED`; a few partial unique indexes exist. Other
  check-then-write sequences are not protected.

| Component (`app/services`) | State | Operations | Interacts with | What is hard | What makes it correct | Module |
|---|---|---|---|---|---|---|
| Adapter runtime: `adapters`, `adapter_execution` | adapter instances, runs (waiting, running, completed, failed), watermarks | create, enable, queue once, schedule, claim, execute, complete, fail | ingestion (in a savepoint), operational events | two processors, failures inside a savepoint, ties at the watermark | one running run per instance; watermark and ingested rows move together; no source row skipped | `AdapterRuns` |
| NURI window state: `adapter_execution`, `nuri_aimir_hes_source` | landed blocks, window rows with the slots received | poll, expand, merge | adapter runtime, ingestion, estimation | late and changed slots, repeated polls, the batch limit | the state says which readings are there; a slot is published once; the cursor passes nothing | `IntervalWindows` |
| Ingestion: `ingestion`, `ingest_*`, `receive_adapters` | raw reads and events, error logs, canonical measurements, batches | parse, skip replay, mark duplicate, map, watermark | master data, pipeline | duplicated and overlapping deliveries, rolled back batches | one row per source record; nothing accepted is missing; one canonical row per reading | `Ingestion` |
| Exception queue: `exception_queue` | error logs, raw rows | reprocess | ingestion | reprocessing twice, duplicates of duplicates | a read is published or in the queue | `Ingestion` |
| Processing core: `vee`, `processing_core`, `finalization`, `processing_replay`, `manual_edits`, `estimation` | initial measurements, exceptions, final measurements | receive, acknowledge, resolve, re-evaluate and replay, edit, estimate, finalize | ingestion before it, usage and billing after it, the replay queue | stale sessions, races for the current final | final revisions form a chain; nothing blocked is published; what is published is the working copy | `ProcessingCore` |
| Correction policy, synthetic estimation: `estimation`, `correction_policy`, `event_context` | synthetic reads, window state | preview, estimate, refuse | processing core, polls | a poll that brings the reading meanwhile | refused where an outage or a rule forbids it | `ProcessingCore`, `IntervalWindows` |
| VEE replay queue: `vee_replay_*` | requests, items, counters | create, cancel, claim, process | processing core | as the export queue, with overlapping scopes | as the export queue | `VeeReplay` |
| Usage: `usage`, `downstream_recalculation` | usage transactions per period | recalculate, upsert | finals before it, determinants after it | two recalculations of one period | usage is the sum of the finals of its period | `Downstream` |
| Billing: `bill_determinants`, `bill_charges`, `invoice_summaries` | revisions of determinants and charges | calculate, supersede, reuse | usage, tariff assignments, export | no unique index on the current revision | one chain of revisions; the charge is that of the current determinant; the rate survives | `Downstream` |
| Billing export: `billing_export_requests`, `billing_export_processor` | requests, items, counters, claims, pipeline runs | create, rerun, recreate, cancel, claim, process | invoice summaries | two workers, cancel against claim, crash between commits, recovery of failures | claimed once; counters count items; recovery repeats only unfinished work | `BillingExport` |
| Effective windows: `billing_contexts`, `tariff_assignments` | rows with a validity window | create (closes the current row), edit | usage, billing | check-then-write | one row valid at a time, one current | `EffectiveWindows` |
| Installations, master data: `installations`, `master_data` | devices, components, installation rows | create, edit | references, ingestion | rows opened again or moved | one open installation per device | `MeterRegistry` |
| HES systems and meter references: `hes_*` | references, comparison, alerts | import, compare, synchronise alerts | master data | synchronisations that overlap | the alerts name the differences there are | `MeterRegistry` |
| Operational events: `operational_events` | events, alerts (open, acknowledged, closed) | record, acknowledge, close | every component | acknowledging what has been closed since | an alert is closed with its cause | `MeterRegistry` |
| Pipeline: `pipeline` | runs, processing watermarks | start, complete, fail, advance | most services | watermark compared with a stale value | the watermark never goes back | `BillingExport`, `Ingestion` |
| Authentication: `auth` | accounts, session audit | login, logout, expire | every handler | | | none |
| Visibility, dashboard, i18n, templates, migrations, seeds, tools | none of their own | read, render, set up | all | | | none |

How they interact: a poll or a delivery stores raw reads (`AdapterRuns` says which
rows of the source, `IntervalWindows` and `Ingestion` what becomes of them); a
canonical reading enters `ProcessingCore`; a promoted final is what `Downstream`
bills; a complete charge is what `BillingExport` delivers. `VeeReplay` re-enters
`ProcessingCore`. Operators of the web console act on all of them. The modules are
checked one by one: what one promises another is in the abstract specifications
(`OrderedIntake`, `RevisionHistory`, `WorkLedger`), and where a module needs less
than the other one promises, its input is left free.

The hazards of this code, each at its line, are in `PROJECT.json` under
`hazards`, with the properties that would notice them.

## 2. Modules

| Module | What it is |
|---|---|
| `WorkLedger` | abstract: what a database-backed work queue promises about its units of work |
| `BillingExport` | the billing export queue: operators, workers, crashes; refines `WorkLedger` |
| `VeeReplay` | the VEE replay queue with overlapping scopes; refines `WorkLedger` |
| `RevisionHistory` | abstract: an append-only history of values per subject |
| `ProcessingCore` | validation, exceptions, corrections and final revisions; refines `RevisionHistory` |
| `OrderedIntake` | abstract: sources read front to back, each row taken by exactly one reader |
| `AdapterRuns` | the polling runtime: operators, scheduler, processors, watermarks; refines `OrderedIntake` |
| `IntervalWindows` | what a poll of the LP_EM source does with blocks of slots, and synthetic readings |
| `Ingestion` | deliveries of reads and events, duplicates, the exception queue |
| `Downstream` | usage, bill determinants and bill charges of one billing period |
| `EffectiveWindows` | billing contexts, and tariff assignments with them: validity windows |
| `MeterRegistry` | devices, installations, meter references and the alerts about them |
| `MasterData` | `EffectiveWindows` and `MeterRegistry` side by side, as operators maintain them |
| `BillingExport_proofs`, `VeeReplay_proofs`, `ProcessingCore_proofs`, `AdapterRuns_proofs`, `IntervalWindows_proofs`, `Ingestion_proofs`, `Downstream_proofs`, `MasterData_proofs` | TLAPS proofs |
| `MCBillingExport`, `MCVeeReplay`, `MCProcessingCore`, `MCAdapterRuns`, `MCIntervalWindows`, `MCIngestion`, `MCDownstream`, `MCMasterData` | constants of the TLC instances; in `MCMasterData` one of the two parts of `MasterData` moves per behaviour |

Three conventions. A read that a transaction does before it writes is an action of
its own (`Begin...`) with the write in the action named after the operation, so
that TLC interleaves other transactions in the gap. `Flushed` is the unit of work:
a column is written only if the operation has changed it relative to what it
loaded. And a definition `X_Reason` placed before `X` and commented "Variant" is no
part of the model: it is `X` with a plausible programming mistake, and
`PROJECT.json` says under `mutants` which property notices it.

## 3. BillingExport

| Code | Model |
|---|---|
| `billing_export_request` rows: status, scope columns, `source_billing_export_request_id`, `recovery_action_code`, `claimed_by`, counters | `status`, `scope`, `source`, `action`, `claimed_by`, `count` |
| `billing_export_item.status` per invoice summary | `item[r][p]` |
| pipeline run of a request | `run` |
| program counter of `process_queued_billing_export_requests` between its commits | `worker` |
| an operator's transaction between its checks and its commit | `operator` |
| create, rerun, recreate, cancel | `BeginCreate`/`Create`, `BeginRecovery`/`Rerun`/`Recreate`, `BeginCancel`/`Cancel`, `RollBack` |
| claim, start, each item, finalize, the outer exception handler | `Claim`, `StartRun`, `MarkItem`, `ItemSucceeds`, `ItemFails`, `Finalize`, `RequestFails` |
| the process dies | `Crash`: its locals are lost, the rows stay |

Abstractions. A scope is a service point with a window, a target and a format;
`Window[s]` are the invoice summaries in it, and which of them are listed and
complete is chosen freely at creation, since usage and charges change on their
own. Payloads, operational events and timestamps are left out. The order of items
is free. A worker takes any queued request: the code takes the oldest or the one
its caller names. `claimed_by` names the process; the text in the column may be
the same for two processes, and the code never compares it.

`WorkLedger` is the same queue seen from outside. Each request is held by one
worker at most once; its units move only while it is held, one at a time; a
closed unit keeps its outcome. `EntryOf` and `HolderOf` are the refinement
mapping. A request is held as long as the worker that claimed it still works on
it; a crash lets go of it and nobody takes it again, which is what the code does.

Fairness: `FairSpec` asks weak fairness of each worker's step. A worker process
is a loop without waits between its commits, and the CLI command is started again
as long as requests are queued. Nothing is asked of operators, and nothing
prevents crashes, so the liveness property allows a request whose worker died
(`Orphaned`).

Instances stop when `MaxRequests` rows exist and all are done, so these
configurations do not check deadlock.

## 4. VeeReplay

| Code | Model |
|---|---|
| `vee_replay_request` rows: status, scope columns, `started_at`, counters | `status`, `scope`, `started`, `count` |
| `vee_replay_request_item.status`, `.result_code` | `item[r][m]`, `result[r][m]` |
| pipeline run of a request | `run` |
| program counter of `process_queued_vee_replay_requests` between its commits | `worker` |
| create, cancel | `BeginCreate`/`Create`, `BeginCancel`/`Cancel`, `RollBack` |
| claim, start, each item, finalize, the outer exception handler | `Claim`, `StartRun`, `MarkItem`, `ItemSucceeds`, `ItemFails`, `Finalize`, `RequestFails` |
| the process dies | `Crash` |

The queue is built like the export queue but is not the same: there is no
recovery, no `claimed_by`, an item is replayed and counted in one transaction, and
scopes overlap (a head-end system, a batch and a range of dates may hold one
measurement), so that several requests may replay one measurement. Which
measurements of a scope have an active exception at a creation, and what a replay
ends with, is left free; what a replay does to the measurement is
`ProcessingCore`'s `BeginReplay`/`Replay`. The counters for finals and usage are
left out.

It implements the same `WorkLedger`, measurement by measurement. Without
`claimed_by`, who holds a request is read off the workers: the one that works on
it, nobody before the start, and let go for ever afterwards. Fairness and the
reason for it are those of `BillingExport`.

## 5. ProcessingCore

| Code | Model |
|---|---|
| `initial_measurement` value, quality and status codes | `reading[i]`, one member of `Readings` |
| `initial_measurement.initial_status` | `initial_status[i]` |
| `vee_exception` rows | `exception[i][c][k]`: the k-th of code `c`, with status and blocking flag |
| `final_measurement` rows | `final[i][k]`, in the order of their keys |
| a session: what it loaded, what it is about | `operator[o]`, its copy in `.read` |
| `create_or_get_initial_measurement`, `ensure_processing_core_lineage` | `Receive` |
| `acknowledge_vee_exception`, `resolve_vee_exception` | `BeginAcknowledge`/`Acknowledge`, `BeginResolve`/`Resolve` |
| `reevaluate_vee_exception_and_replay` | `BeginReplay`/`Replay` |
| `apply_manual_edit_from_vee_exception`, `apply_estimation_from_vee_exception` | `BeginCorrect`/`Correct` |
| `finalize_canonical_measurements` | `BeginFinalize`/`Finalize`, any set of measurements |
| `create_or_get_final_measurement`, index `uq_final_measurement_current_initial_measurement_id` | `FinalsAfter`, `Promote`, `UniqueCurrent` |
| roll back, refusal, unique violation | `RollBack` |

How staleness is modelled. `Begin...` copies the rows as they are; the action
decides on the copy. `Flushed` is the unit of work: a column is written only if
the operation changed it relative to the copy. Queries made after the load see
rows committed since, but for a row the session already holds they return the
loaded attributes; `SeesBlocking` and `Opened` say so for the blocking flag. The
lookup of the current final happens somewhere between the load and the flush, so
`Promote` takes either what was current at the load or what is current at the
commit. (With the unique index any other choice would roll back.) Evaluations of
one measurement update its row before they look for active exceptions, so the row
lock makes each wait for the other; their search-and-insert is one step.

Abstractions. A reading carries at most one anomaly (`Anomaly`), with three codes
standing for the value rules by how they behave: `negative` blocks, `high` blocks
only near a tamper event, `zero` never blocks. `gap` stands for the rules that
look at the surrounding rows (missing interval, duplicate, interval size, unit,
multiplier); since those rows change on their own, each evaluation chooses freely
whether it hits and whether a tamper event is near (`Surroundings` bounds the
choice). Text, audit rows, executions
and operational events are left out. The synthetic
reading of a missing interval is in `IntervalWindows`, the recalculation after a
promotion in `Downstream`. Which exception may be edited or estimated (`MayEdit`,
`MayEstimate`) is what the policy says of its code; an estimate of a high value is
refused when a tamper event is near. Finals that predate initial measurements are
left out.

`RevisionHistory` is what usage and billing may rely on: per measurement an
append-only list of values whose last one is current, in which no value is
repeated at once.

`acknowledge_vee_exception` checks a status it has loaded and writes another one.
One that has read an exception open and commits after its resolution brings the
exception back, perhaps beside a newer active one of the same code.
`ReopenedOnlyByLateAcknowledgement` says that nothing else does, and that each such
transaction brings back one exception, acknowledged and not open; `OneActivePerCode`
says that of two active exceptions of a code the older one has come back this way.

Operators owe nothing: there is no progress in the code that does not wait for a
person, so no liveness is stated. An instance always has a transaction that can
begin and roll back, so deadlock is checked and does not occur.

## 6. AdapterRuns

| Code | Model |
|---|---|
| `adapter_instance.admin_state`, `next_run_at` | `admin_state[a]`, `next_run_at[a]`: empty, later or due |
| `adapter_run` rows with `watermark_before`, `watermark_after`, and the raw reads linked to them | `run[r]` with `before`, `after`, `reads` |
| `adapter_watermark.cursor_value` | `watermark[a]`, 0 before the first poll |
| the table of the head-end system | `source[a]`: how many rows it has; `Cursor[x]`: what the watermark compares |
| one `process-adapter-runs` command | `processor[p]`: the open transaction |
| `queue_adapter_run_once` | `BeginRunOnce`/`Queue` |
| `enqueue_scheduled_adapter_runs` | `BeginSchedule`/`Queue` |
| `update_adapter_admin_state` | `BeginSet`/`Set` |
| `_claim_next_waiting_adapter_run`, `_claim_adapter_run` | `Claim`, then `Lock` when the flush gets the row of the instance |
| a poll with its ingest, its savepoint, `_complete_adapter_run`, `_fail_adapter_run` | `Complete`, `Fail` |
| the commit of the command | `Commit` |
| killed, disconnected, deadlock victim | `Crash`: everything since the first claim is undone |
| time, the head-end system | `Tick`, `Arrive` |

The command is one transaction around up to `Limit` runs; only the rows a run
read are in a savepoint. So nothing of it is visible before `Commit`: `ended`,
`seen` and `mark` are what the transaction has done, has loaded and has moved.
Two things keep runs apart, and neither is the check for a running run, which can
never see one: the row lock of the claimed run (`FOR UPDATE SKIP LOCKED`) and the
row lock of the instance, which the heartbeat written at the claim takes and the
transaction keeps until it commits. Only after that lock is the watermark loaded.

Abstractions. Instances poll and have an interval; creating them is not modelled,
nor is retiring, which no handler offers. `BatchSize` of at least the number of
rows stands for an instance without one. The scheduler's limit of ten instances
is above the number of instances. Any waiting run may be claimed next: the code
takes the oldest or the one named. A poll may fail at any point; what failed, the
texts and the alerts are left out; the merge of source windows is in
`IntervalWindows`.

`OrderedIntake` is what the rest of the system may rely on: a source is read
front to back, and each of its rows is taken by exactly one reader. It assumes
that a source grows in cursor order. That every row has a cursor of its own
(`NoTies`) holds for LP_EM, whose cursor ends in meter and channel, and may fail
for the sample source of `CompanyHesPollRuntime`, which compares timestamps.

Fairness: `FairSpec` asks weak fairness of each processor's step, since a timer
starts the command again and again, and that crashes come to an end, without
which no run could ever be promised to end.

## 7. IntervalWindows

| Code | Model |
|---|---|
| the head-end's LP_EM blocks (hour, meter, channel) with WRITEDATE | `source[w]`, a stamp and the slots with a reading |
| `landing_lp_em_read_block`, `hes_read_raw`, `raw_interval_window_state` | `landing`, `raw`, `state[w]` |
| watermark of the adapter instance | `watermark` |
| a poll: query, envelope, ingest, `finalize_ingest`, commit | `Fetch`, `LoadStates`, `CommitPoll`; `FailPoll` undoes it |
| estimation of a missing interval | `BeginEstimate`/`CommitEstimate`, `RollBack` |
| the head-end, time | `WriteBlock`, `Tick` |

A block is rewritten with a new WRITEDATE when more slots have a reading, in any
second, also in one that is just being read. The cursor compares WRITEDATE, then
hour, meter and channel; neither `_load_source_blocks` nor the Oracle query has an
upper bound on WRITEDATE, so a poll reads what the current second has so far. One
poll runs at a time, which is what `AdapterRuns` shows; so this module has one, and
an operator beside it. `overtaken` is a history variable: the windows whose block
was written where the watermark, or the poll under way, had already been. A poll lands each block, expands its slots into reads, skips those that are
stored and marks as duplicates those whose time is known. Then it merges the slots
into the state it has loaded (`Merged`), with the columns that changed written at
the commit.

An operator may fill the one slot a window lacks, if the policy has no outage for
the hour. The synthetic row and the state are written in one transaction.
Evaluation, promotion and billing of that reading go as in `ProcessingCore` and
`Downstream` and are left out here.

What the module says about the code beyond its properties. A block that is written
in a second from which a poll has read, under a smaller key than that poll reached,
or rewritten in the second in which it was read, is never fetched.
`OnlyLateTiesArePassed` says that nothing else is lost: whatever was in the source
when a poll read it has arrived when the watermark passes it. An estimate that overlaps a
poll may publish a synthetic reading beside the real one and turn `late_update`
back into `complete`; that is why `SourceSlotPublishedOnce` speaks of readings of
the source. A real reading that comes after a synthetic one is a duplicate only.
A block that comes again under its key with other slots
(`source_block_replay_conflict`) fails each poll, so the watermark stays before it.

## 8. Ingestion

| Code | Model |
|---|---|
| `hes_read_raw`, `hes_event_raw`, `ingest_error_log`, canonical measurements | `raw[i]`: one row with its status, mark, measurement and log |
| `ingest_batch` | `accepted[b]` |
| `processing_watermark` | `watermark` |
| active measuring components | `mapped` |
| `validate_ingest_envelope` | `Validate` |
| the run of a receive adapter, with the unique index on running runs | `Open` |
| what one record ends as in `ingest_reads`, `ingest_events` | `SkipReplay`, `StoreInvalid`, `StoreDuplicate`, `StoreUnmapped`, `StoreMapped`, `StoreEvent` |
| watermark and commit | `Close`, `Commit` |
| an error or a crash | `Fail` |
| `reprocess_exception` | `BeginReprocess`/`Reprocess`, `RollBack` |
| a component is created or put out of service | `SetComponent` |

Each record is a step, since the searches of a record see what the records before
it have left, and what other deliveries have committed. Payloads are faults
(`Fault`) and keys; what the parser of an earlier release rejected and the present
one accepts is `Recoverable`, left behind in `Earlier`, which is the only way a
payload error can be resolved by reprocessing.

The instance has two deliveries through one receive adapter. Two deliveries to the
direct endpoints exclude each other by nothing: with an empty `Receivers`,
`RecordStoredOnce` and `WatermarkAdvances` fail, as no unique index forbids it.
With two operators `StatusesAgree` fails: `_mark_reprocess_failed` of one
overwrites what the other has resolved. And that a key is published once holds
only for rows whose key was known when they were stored (`KnownKeyPublishedOnce`):
a row whose time could not be parsed has no key until it is reprocessed, and may
then be the second one. The acceptance test matrix (line 114) promises one
canonical measurement per reading without that restriction, for one delivery after
another, and so it is.

## 9. Downstream

| Code | Model |
|---|---|
| current final measurements of a period | `final[m]`, by initial measurement; `IntervalOf[m]` is its interval |
| `_load_final_measurements`, `source_final_count`, `missing_interval_count` | `Found`, `Missing`, `UsageOf` |
| `usage_transaction` | `usage` |
| `bill_determinant`, `bill_charge` rows with revision, `is_current`, supersedes | `determinants`, `charges`: sequences of revisions |
| billing context, tariff assignment of the period | `context`, `tariff` |
| a correction or a replay of one measurement | `Begin`, `Store`, `Recalculate`, `CommitCorrection` or `CommitReplay`, `RollBack` |
| batch finalization | `Finalize` |
| master data | `SetContext`, `AssignTariff` |

The steps of a correction are those between which another transaction matters: the
finals are read with the write (`Begin`); the update of the usage row waits for
whoever holds it (`Store`); determinants and charges are read after that
(`Recalculate`). Payloads keep every reason to block. The rate comes from the
charge that is about to be superseded; a first calculation takes it as a
parameter, which only seeds and tests do, hence the two initial states.

`Store` serialises recalculations after they have read the finals: of two
corrections in one period the second one stores a sum without the first one's
reading. The usage is then wrong until the next correction. What still holds, and
is checked, is that the rows stay one chain, that the charge belongs to the
current determinant and that nothing is eligible for export with fewer finals than
the period has intervals.

Fewer finals, not fewer intervals: `_build_usage_row_payload` subtracts the number
of current finals from the number of expected intervals and does not ask where they
lie. Nothing keeps two initial measurements of one interval from having a final
each (an estimate beside a poll, two deliveries to the direct endpoints), and then
one of them makes up for an interval without any: the period is complete and
eligible, with a gap. `docs/usage-transaction-design.md:108` says of `complete`
that "all required finalized measurements were present". `EligibleMeansMeasured`
states what the count gives, and that an interval may be without a final only if
another one has two; the instance has two measurements of one interval, and the
masked gap among its states.

A VEE replay recalculates the usage only (`docs/estimation-baseline-design.md`,
decision D-025) and batch finalization nothing; both are so by design.

Not in the module: the deletion of a usage row, which no operation can reach since
a window whose final is written keeps one; mixed interval sizes, which end like
mixed units; a changed currency alone, which is not compared and leaves the old
one on the charge.

## 10. EffectiveWindows and MeterRegistry

`EffectiveWindows` is the table of billing contexts of a service point; tariff
assignments are kept by the same code under another name, so half of the
definitions are mapped to one file and half to the other. A creation loads the
current row (`BeginCreate`), closes it with its row lock and compares windows
(`Close`), and inserts (`Insert`, with the partial unique index); an edit compares
when it begins and is flushed later (`BeginUpdate`/`Update`). Creations may
overlap in any way. An edit beside another transaction may leave two windows that
overlap, never two current rows; the history variable `editBeside` says when.

`MeterRegistry` has the meters one head-end system lists (`references`), the
devices with their components and installations, the code of the head-end system,
and the alerts about the differences. A change of master data is a step for its
checks (`Begin...`), one for what its synchronisation reads, and the commit.
Which head-end system it synchronises is the code it names (`Synchronises`): that of
the device, new or edited; that of the device of an installation; for a component
its own source system, which its form may set to anything and the comparison does
not look at. An import names the head-end system itself, and an edit of `hes_code`
(`BeginRecode`) synchronises none. A change that names this one compares
(`Compare`), any other goes on without (`PassOver`). Operators acknowledge and close
alerts by hand, on a status they have read before.

`settled` holds from the commit of a synchronisation that nothing overlapped until
something overlaps, somebody closes an alert by hand, or a change that passed the
head-end system over is committed and alters what a comparison says (`Unaffected`).
The last of these needs one operator and no overlap (section 13); the property says
that nothing else makes the alerts wrong, and that the next synchronisation
repairs them. `installedBeside` holds from when two installation changes
overlap until none is under way and no device has two open rows: without an index,
such changes leave a second one, and closing it restores the rule. An edit
that changes nothing is left out: it is no other than an import of nothing, or
than no step.

The two modules share nothing, so `MCMasterData` lets one of them move per
behaviour and their states add up. It does the same with three pages of the
registry: installations without alerts; overlapping changes with alerts and at
most one installation, while the codes of the head-end system and of its devices
stay; and changes of codes, one change at a time beside the work on alerts.

## 11. Runs

Passing runs:

| Run | Instance | What it shows |
|---|---|---|
| `export_safety` | 2 requests, 2 workers, 2 operators, 2 items, symmetric | counters, deliveries, recovery lineage, exclusive claims, agreement of request and pipeline run, finality of unclaimed ends, refinement of `WorkLedger` |
| `export_one_operator` | 3 requests, 2 fair workers, 1 operator, 1 item | one active request per scope when operators do not overlap; queued requests end or are orphaned by a crash |
| `replay` | 2 requests, 2 overlapping scopes, 2 measurements, 2 fair workers, 1 operator | counters, one active request per scope, refinement of `WorkLedger`, progress |
| `core_concurrent` | 1 measurement, 2 operators, every operation, a zero reading and a clean one, 2 exceptions per code, 3 finals | the revision chain, what is active beside what is acknowledged late, how a resolution can be undone, refinement of `RevisionHistory` |
| `core_one_operator` | 1 measurement, 1 operator, every operation, all four kinds of reading, 3 exceptions per code, 3 finals | nothing is published while blocked; what is published is the working copy; a blocked status always has something to resolve |
| `adapter_concurrent` | 1 instance, 2 processors, 2 operators, 3 runs, 3 source rows, batches of 2, 2 runs per command | the trail of watermarks the runs report, exactly-once intake (`OrderedIntake`) |
| `adapter_one_operator` | 2 instances, 2 fair processors, 1 operator, 2 runs, 2 runs per command, empty sources | one active run per instance; processors do not wait for each other in a circle; queued runs end |
| `windows` | 3 windows of 2 symmetric slots, 2 seconds, batches of 2 blocks, 1 operator, an outage in one window | the state agrees with the rows, a source slot is published once, of what the watermark has passed only late ties are missing |
| `intake` | 5 records (a reading, another one of the same interval, a faulty one, one left by an earlier release, a faulty event) in 3 batches, 2 deliveries, 1 operator, 5 rows | a source record is stored once, nothing accepted is lost, a known key is published once, every read is published or listed, the watermark advances |
| `downstream` | 2 intervals, 3 measurements, two of them of one interval, a reading and an estimate, 1 context, 2 operators, 2 revisions | the chain of revisions, the charge of the current determinant, what is eligible, the carried rate |
| `master_data` | 3 rows and 3 points in time, 2 operators; or 1 listed device, 1 component, 2 symmetric codes, 2 installations, 2 alerts, 2 operators | windows, alerts and installations |

`CHECK_DEADLOCK FALSE` stands where the instance ends at a bound (all requests
used and done, time up, no row left) or where nothing need happen; in the two core
runs a transaction can always begin and roll back, and deadlock is checked.

Why the bounds suffice. Races here are between two transactions, or a transaction
and a worker; a third is a repetition. Two requests are a failed one and its
recovery, or two of overlapping scopes; the third lets a recovery fail and be
recovered. Two items let one fail and one succeed. Two rows per code are an
exception and its successor, beside which a late acknowledgement may bring back the
first, the third one more re-evaluation; three finals are a
first, a superseding and a once more superseding one. A measurement is independent
of another except in a batch promotion; for those, two measurements have been
explored too, and the proofs cover any number. Three source rows and batches of
two make a full and a rest batch; three runs let one command take two of them and
another one the third. A circle of waits needs two instances and two processors
with two runs each at most. Three windows and batches of two cut a poll of
several blocks between two of one second; two slots let a window be partial before
it is complete, or a slot short; two seconds are a first write and a late one, and
each block may be written several times in either. Five rows hold
the two batches twice. Two intervals, one with two measurements, let a
period lack a final, have one each, and have two beside a gap; of revisions one
supersedes another. Three
points in time are the fewest in which two windows may touch, overlap or contain
one another. One device and two codes have every
state of the comparison, changes that pass the head-end system over, and rows that
are closed and opened again; two listed devices with moves between them were
explored with one operator, as were three revisions of a usage. The
proofs remove these bounds for what they cover.

## 12. Proofs

Every invariant and every action property of the passing runs is also a theorem,
for all values of the constants, and so are the four refinements of the three
abstract specifications. The runs found out which formulas hold and which
strengthenings are inductive; the proofs remove the bounds. The theorems, each with
the property it states, are listed in `PROJECT.json`; the invariants named here
stand at the end of the modules they speak of, or in the proofs before they are
used.

Two kinds of hypotheses occur besides the assumptions on constants:
* that *operators stay apart*: of any two open transactions of operators, no two
  work on one measurement (`Apart` of `ProcessingCore_proofs`), create or recover a
  request for one scope (`Apart` of the queues), queue runs of one instance
  (`QueuesApart`) or reprocess one row (`RepairsApart`). The theorem reads `Spec /\
  []Apart => ...`: it speaks of the behaviours in which this is so. They include
  all those of one operator at a time, which the runs check; transactions of
  workers, processors, deliveries, receipts and late cancels overlap with anything.
  [Findings](#13-findings) says what happens otherwise;
* `NoTies` and `Receivers = Deliverers`: configurations of the deployment, each
  explained with its module.

`BillingExport_proofs`: `TypeCorrect`, `LedgerInvariant`, `ExclusiveClaim`,
`Refinement`, `QueueInvariant`, `CountersAreRight`, `CompletedIsDelivered`,
`RunTellsOutcome`, `RecoveryIsSound`, `UnclaimedStaysEnded`, `ScopesStaySingle`.
`TypeOK` is inductive. Exclusive claims are not: nothing in "no two workers hold
one request" says that a queued request is unheld. `LedgerInv` says what a claim
relies on: while a request is absent or queued `claimed_by` is empty and its items
untouched; a worker that holds a request is the one in `claimed_by`, has no item
under way but its current one, and has listed only pending items. Status words
alone would not do, because a cancel may overwrite the status of a request that is
being processed; `claimed_by` is never cleared. From `LedgerInv` every step maps to
a step of `WorkLedger` or to a stutter.

`QueueInv` adds what else fits together. A request in a hand is processing or
cancelled, its pipeline run is running once it has been started, and all its
pending items are still on the worker's list (`InHand`), so that nothing pending is
left when the worker completes it. A failed request, the source of a recovery, and
the request an operator is about to recover from have been claimed and are in
nobody's hand (`Ended`). That they stay so is what makes a recovery sound: the
items its source had left failed or pending when it was loaded are those it still
has at the commit and ever after. A cancel that has seen a request unclaimed finds
it queued, or cancelled by someone else; or it is claimed by then.
`ScopesStaySingle` is for operators that stay apart: then the scope an operator has
found free still is free when it commits (`FreeScope`), because workers only end
requests and another operator makes active only a request of its own scope
(`OperatorsActivateTheirOwn`).

`VeeReplay_proofs`: `TypeCorrect`, `LedgerInvariant`, `Refinement`,
`ResultsInvariant`, `CountersAreRight`, `ScopesStaySingle`. The argument is the
same, the invariant another: there is no `claimed_by` to say who holds a request.
`LedgerInv` says instead that a request that has not started is untouched and in no
hand, and that a started one is in one hand at most, whose program counter and list
of items say where it is. `HolderOf` chooses the worker that works on the request;
`Held` shows that the choice is the one there is, which is what a claim, a step and
a crash each need. The counters count results, so they need that only a closed item
has one (`ResultsInv`).

`ProcessingCore_proofs`: `TypeCorrect`, `ChainCorrect`, `Refinement`,
`ResolutionsStand`, `ExceptionsSingle`; and for operators that stay apart
`ExceptionHasCause`, `PublishedWhenClear`, `PublishedIsWorkingCopy`,
`ResolutionsStandSerially`, `ExceptionsSingleSerially`. The inductive invariant
`IInv` joins
* `TypeOK`;
* `PastCopies`: a measurement a transaction works on had been received when it
  was loaded, and the current final noted then exists (without it a stale note
  could start a chain that has no beginning);
* `Chained`: every table of finals is a chain of some length `n`. Naming the
  length avoids an induction over revisions and yields `RevisionChain`.

The step that matters is `PromotionExtends`: whatever current final a transaction
found, if the unique index accepts its insert, then it had found the end of the
chain. So each promotion leaves a table alone or extends its chain by one
(`FinalsStep`), and `RevisionHistory` is implemented.

`ResolutionsStand` and `ExceptionsSingle` hold of all operators and with
acknowledgements. `PastExceptions` says what a stale session may rely on: the row
it is about still exists, and an acknowledgement has read it open. `Ordered` is the
invariant of the tables: of the rows of one code only the newest is open. Evaluations
keep it because they open a row only where none is active (the row lock),
resolutions and late acknowledgements because neither writes "open"; every commit
thus revises rows that exist or appends one (`Revises`, `Grows`). A row that leaves
"resolved" belongs to the acknowledgement that commits. That a resolved
exception stays resolved (`ResolvedIsFinal`) and that no two exceptions of a code
are active (`SingleActive`) is proved for operators that stay apart.

`SerialInv` is for operators that stay apart: what a transaction has loaded is what
the tables hold (`UpToDate`; a commit or a receipt may come between, of other
measurements), and a measurement in exception has a cause. The argument is about what an
evaluation leaves. Every code that hits has an active exception afterwards, with
the flag of this evaluation, reused or new (`HitShows`); what blocks afterwards
was found now or stood there and was not found (`BlockedBy`). So a verdict
"exception" always leaves something that blocks (`VerdictShows`), a re-evaluation
after which nothing is active has accepted (`ClearMeansAccepted`), and a
correction that is accepted and sees nothing block has left nothing that blocks
(`SeenClearIsClear`), although it asks its session and not the table.
`AcceptedMeansEligible` does not follow, and is [a finding](#13-findings): a
correction accepts without asking what it does not promote.

`AdapterRuns_proofs`: `TypeCorrect`, `PollInvariant`, `Refinement`,
`TrailIsComplete`; and for operators that stay apart `RunsStaySingle`,
`NobodyWaits`. That rows are taken exactly once is a statement about committed
rows; it holds because of what is not committed. `PollInv` has two parts:
* `Exclusive`: a run is in the hands of one processor and is waiting for all
  others, an instance is locked by one, and a transaction that goes on with a run
  or has ended one holds the lock on its instance. It is inductive with `TypeOK`.
* `MarksCover`: rows of runs are behind the watermark and the watermark behind
  the end of the source; and of every row between the watermark and the mark of an
  open transaction, exactly one run that it ended has taken it.

The step that matters is `BatchCovers`: a truncated batch holds exactly the rows
between the old mark and the cursor of its last row. It needs `NoTies` and the
order in which a source grows, and a largest row of a finite set, which
`LargestExists` derives from the well-foundedness of `<`. Then a commit turns
`Takers` into the new rows of its runs (`CommitEffect`) and everything else is a
stutter (`OnlyCommitsShow`). `TrailIsComplete` does without `NoTies`: where rows
share a cursor some are skipped, but the runs still tell which watermark each
started from and led to. `TrailInv` says the same of what an open transaction has
done and not committed: its mark, and where its runs began, are ends of completed
runs that are committed or its own. Where operators stay apart the instances one
has found without an active run have none when he commits (`FoundFree`), and a
processor keeps an instance locked for the sake of a run of that instance
(`LocksAreForRuns`); as no two runs of one instance are active, no other processor
ever waits for it.

`IntervalWindows_proofs`: `WindowsMatchTheirRows`, `SourceSlotsPublishedOnce`,
`OnlyLateTiesAreLost`. Poll and estimation each load the state of a window and write
it later, so the invariant (`MergeInv`) is about their copies: a state is coherent
with its slots, and so is each loaded copy; the slots of a state are those of the
rows; a state an open poll has loaded differs from the committed one only if an
estimate has completed the window meanwhile, and an estimate always fills the one
slot that lacks. `PublishInv` compares the rows an open poll will commit with those
there are. `PassInv` says that of everything ahead of the watermark and not ahead
of the poll's last cursor, the poll holds a block with the same slots or it was
overtaken; the watermark is the cursor of a landed block and not later than the
present second, so that what it overtakes is tied with a block that has landed.

`Ingestion_proofs`: `TypeCorrect`, `AcceptedIsStored`; with every delivery through
a receive adapter `RecordsStoredOnce`, `MarkAdvances`, `KnownKeysPublishedOnce`;
with operators that stay apart `StatusesStayInStep`. The invariant follows a
delivery through its batch: for every record behind its place there is a row the
delivery can see that stands for it (`DeliveriesInv`), and rows it can see are its
own or committed, so a commit keeps them and a roll back takes only what nobody
else relies on. With receivers only, the running run admits one open delivery
(`OneAtATime`), so what it sees is all there is, and the searches for a source key
or a twin and the comparison with the watermark are right when it commits.

`Downstream_proofs`: `ChargedAsDetermined`, `OnlyMeasuredIsEligible`,
`RevisionsFormAChain`, `RateIsKept`. Determinants and charges are a `Ledger`: two
chains whose charges belong to determinants, the last to the last. The lock on the
usage row is held by one (`LockInv`), and what its holder has calculated makes a
`Ledger` of the tables when committed (`BilledInv`). A transaction that has read
the finals and waits for the lock may store a stale sum, but one that says complete
has counted enough of them (`Enough`, `ReadInv`), and finals are never withdrawn.
What a count means for the intervals is the pigeonhole principle
(`EnoughOrTwice`). That a sum of amounts is a number, for any finite period,
is `TotalIsNumber`: the sum is a fold of the community modules, whose recursive
function is shown total and then, by a smallest counterexample, a number.

`MasterData_proofs` (about `EffectiveWindows` and `MeterRegistry` as
`MasterData` puts them side by side): `WindowsStayApart`, `InstalledOnceOnly`,
`SettledIsRight`. Of creations that overlap the lock on the row they close and the
unique index leave one, and that one has compared itself with all rows
(`LocksInv`, `CheckedInv`); edits are covered as long as none has run beside
another transaction. An installation change that nothing overlaps still has what
it checked (`InstallInv`). A synchronisation that nothing overlaps decides on what
it will find when it writes (`AloneInv`, `CalmInv`), so that it leaves alerts that
are right; a change that passes the head-end system over touches no alert, and by
`Unaffected` no comparison either.

The proofs assume the named assumptions of the modules (`ExportAssumption`,
`ReplayAssumption`, `CoreAssumption`, `AdapterAssumption`, `WindowsAssumption`,
`IntakeAssumption`, `DownstreamAssumption` with `NoneIsNoRow`,
`RegistryAssumption`, `BoundsAreNumbers`), which TLC evaluates in the runs. They
say that bounds are numbers, that windows, scopes, periods and lists are made of
what they are made of and are finite, that cursors follow the order of a source,
that what an earlier release left it had stored once, and that `None`, `Released`
and `Synthetic` are no other values.

Only model-checked: progress (`QueuedRequestsEnd` of both queues, `QueuedRunsEnd`),
since liveness under fairness is beyond the prover. What is proved for operators
that stay apart is false for others; TLC's counterexamples are the
scenarios of section 13. The bounds of the runs (rows, revisions, generations) are
constants of the theorems too: they hold for each value, while the tables of the
code have no bound.

## 13. Findings

One is a run in which TLC finds a statement of the repository violated; the quoted
line is in `PROJECT.json`.

* `core_edit_keeps_block`: one operator is enough. A correction whose evaluation
  finds nothing accepts the measurement although another blocking exception is
  still open, and it stays accepted and not promotable.

Most of the others take transactions that overlap, and no line of the repository
promises that they are excluded. They are why some properties are checked for one
operator at a time or have a restriction:

* A cancel that saw a request queued overwrites the claim of a worker, in both
  queues; the request is processed nevertheless. `UnclaimedEndIsFinal` speaks of
  requests that nobody has claimed.
* Two creations that overlap leave two active requests of one scope, in both
  queues (`OneActivePerScope`).
* Two operators resolve the two blocking exceptions of a measurement; each session
  still sees the other one active, and the measurement keeps the status exception
  with nothing left to resolve (`ExceptionMeansBlocked`).
* A batch promotion supersedes a corrected final with the reading it loaded before
  the correction, or publishes what a re-evaluation has blocked meanwhile
  (`FinalTakesWorkingCopy`, `FinalOnlyWhenClear`).
* A late acknowledgement makes a resolved exception, or a closed alert, active
  again, the exception perhaps beside a newer one of its code
  (`ReopenedOnlyByLateAcknowledgement` and `OneActivePerCode` say how far this goes;
  `SettledMeansRight` says that the next undisturbed synchronisation repairs the
  alert).
* A run that ends while its instance is paused clears `next_run_at`, and enabling
  the instance does not set it: the instance is then not scheduled until someone
  queues a run by hand.
* An operator and a scheduler that overlap queue two runs of one instance
  (`OneActiveRun`); two commands of more than one run may then wait for each other,
  and the database ends one of them, which is a `Crash`.
* Two corrections in one period lose one reading from its usage
  ([Downstream](#9-downstream)).
* Two finals of one interval hide that another interval has none: the period is
  complete and eligible for export, although a document says that all required
  finals were present ([Downstream](#9-downstream)).
* Deliveries to the direct endpoints that overlap store a record twice or take the
  watermark back ([Ingestion](#8-ingestion)).
* A block of LP_EM that is written in a second from which a poll has already read,
  under a key the poll had reached, is never polled; one operator and one processor
  are enough ([IntervalWindows](#7-intervalwindows)).
* An estimate that overlaps a poll publishes a second reading of its slot
  ([IntervalWindows](#7-intervalwindows)).
* Changes of master data may synchronise another head-end system than the one whose
  comparison they alter, or none, and its alerts are wrong until its next
  synchronisation; one operator is enough. A component names its own source system
  (`create_component_view`, `update_component_view`), while the comparison
  takes that of the device; a device that moves synchronises only where it goes; an
  edit of `hes_code` alters every comparison and synchronises nothing
  (`SettledMeansRight`).
* Edits of effective windows and changes of installations that overlap another
  transaction leave windows that overlap, or two open installations.

## 14. Not modelled

* **Authentication**: the session is a signed cookie, each audit row an insert of
  its own, hashing a library. Nothing is read and written back.
* **Visibility, dashboard, i18n, templates, the pages of the blueprints that only
  read, filters and paging**: presentation of queries. Each handler that writes is
  the step of an operator in the module of its service.
* **Migrations, seeds, tools**: one-off scripts. The unique indexes that the
  migrations create are parts of the modules that rely on them.
* **Creation of adapter instances, head-end systems, service points**: one
  validated row each; the database keeps their keys unique.
* **Alerts of adapter health, of pipelines and of VEE**: they use the calls that
  `MeterRegistry` has, with other triggers; health needs a clock.
* **Arithmetic of the estimation strategies, text of SQL, payloads, messages, time
  zones**: data that no property tells apart.
* **Finals without an initial measurement**: rows older than the processing core.
* **Rows of the source that become visible behind the watermark**: `OrderedIntake`
  assumes that a source grows in cursor order. For LP_EM, `IntervalWindows` has
  the source that grows behind the cursor and says what is lost; for the sample
  source, which compares timestamps only, nothing in the code ensures it.

## 15. Plan

Every component is modelled as far as section 14 says, and every safety property
of the passing runs is proved. What is left, most important first:

1. `IntervalWindows` as a refinement: for each slot of a source window one reading
   is taken, as `OrderedIntake` says of rows.
2. An abstract specification of `Downstream` (the current charge as one value that
   changes with the measured total) and the proof that the ledger implements it.
3. The hazards of `PROJECT.json` that have a note instead of a property.

## 16. Running

```
tlc -workers 2 -config CoreConcurrent.cfg MCProcessingCore.tla
tlapm ProcessingCore_proofs.tla
```

The run names above are those of `PROJECT.json`, which gives module and
configuration of each. Every passing run ends within three minutes; the proofs of a
module take two to four minutes.
