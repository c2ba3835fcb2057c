---------------------------- MODULE IntervalWindows ----------------------------
(***************************************************************************)
(* The LP_EM polling adapter (NuriAimirHesLpEmPollRuntime of               *)
(* app/services/adapter_execution.py, nuri_aimir_hes_source.py): the       *)
(* head-end keeps one block of slots per hour, meter and channel and       *)
(* rewrites it with a new WRITEDATE when more readings come in.  A poll    *)
(* fetches blocks behind a cursor, lands them, expands them into reads,    *)
(* and merges the slots into raw_interval_window_state, in the transaction *)
(* that moves the watermark.  A window in which one slot is missing may be *)
(* completed by a synthetic reading (app/services/estimation.py); what is  *)
(* calculated from it is left out, the readings it races with are not.     *)
(*                                                                         *)
(* A window is an hour of a meter and channel; windows are numbered in the *)
(* order of their cursors.  One poll runs at a time: AdapterRuns.          *)
(* A definition X_Reason is X with a mistake in it, used by no other one.  *)
(***************************************************************************)
EXTENDS Naturals, FiniteSets

CONSTANTS Windows,       \* in cursor order
          Slots,         \* expected_slot_codes of a window
          MaxClock,      \* bound on the seconds in which blocks are written
          BatchSize,     \* fetch limit of a poll
          Operators,     \* who estimate missing intervals
          Outage,        \* windows of an outage: the policy blocks estimation
          Synthetic      \* stands for the origin of an estimated reading

ASSUME WindowsAssumption ==
    /\ Windows \in SUBSET (Nat \ {0}) /\ IsFiniteSet(Windows)
    /\ IsFiniteSet(Slots) /\ Slots # {}
    /\ MaxClock \in Nat \ {0}
    /\ BatchSize \in Nat \ {0}
    /\ Outage \subseteq Windows
    /\ Synthetic \notin 1..MaxClock

VARIABLES clock,        \* the second it is
          source,       \* source[w]: the block at the head-end
          landing,      \* landing_lp_em_read_block
          raw,          \* hes_read_raw, by window, slot and origin
          state,        \* state[w]: raw_interval_window_state
          watermark,    \* the cursor of the last block ingested
          poll,         \* the transaction of the poll
          estimate,     \* the transaction of each operator
          overtaken     \* history: windows written where a poll had already read

vars == <<clock, source, landing, raw, state, watermark, poll, estimate, overtaken>>

Stamps == 0..MaxClock

NoState == [slots |-> {}, first |-> 0, last |-> 0, status |-> "none", late |-> 0]

StateType == [slots : SUBSET Slots, first : Stamps, last : Stamps,
              status : {"open", "partial", "complete", "late_update"}, late : Nat]

BlockType == [window : Windows, stamp : 1..MaxClock, slots : (SUBSET Slots) \ {{}}]

RowType == [window : Windows, slot : Slots, origin : (1..MaxClock) \cup {Synthetic},
            status : {"mapped", "duplicate"}]

NoStates == [w \in Windows |-> NoState]
IdlePoll == [pc |-> "idle", blocks |-> {}, rows |-> {}, loaded |-> NoStates]

Free == [pc |-> "idle", window |-> 0, slot |-> 0, loaded |-> NoState]

-------------------------------------------------------------------------------
(* Cursors: WRITEDATE first, then hour, meter and channel. *)

Cursor(w) == [stamp |-> source[w].stamp, window |-> w]

Behind(c, d) == c.stamp < d.stamp \/ (c.stamp = d.stamp /\ c.window < d.window)

(* Variant: only the time is compared with the watermark. *)
Fresh_TimeOnly ==
    {w \in Windows :
        /\ source[w].slots # {}
        /\ watermark.stamp < source[w].stamp}

(* _load_source_blocks *)
Fresh ==
    {w \in Windows :
        /\ source[w].slots # {}
        /\ Behind(watermark, Cursor(w))}

Fetched ==
    {w \in Fresh : Cardinality({v \in Fresh : Behind(Cursor(v), Cursor(w))}) < BatchSize}

LastOf(B) == CHOOSE b \in B : \A a \in B \ {b} : Behind(a, b)

-------------------------------------------------------------------------------
Init ==
    /\ clock = 1
    /\ source = [w \in Windows |-> [stamp |-> 0, slots |-> {}]]
    /\ landing = {}
    /\ raw = {}
    /\ state = NoStates
    /\ watermark = [stamp |-> 0, window |-> 0]
    /\ poll = IdlePoll
    /\ estimate = [o \in Operators |-> Free]
    /\ overtaken = {}

(* A cursor that the watermark, or the poll that is under way, has reached. *)
Reached(c) ==
    \/ ~ Behind(watermark, c)
    \/ poll.pc # "idle" /\ ~ Behind(LastOf(poll.blocks), c)

(* The head-end never forgets a slot.  It may write in a second in which a   *)
(* poll has read: no query has an upper bound on WRITEDATE.                  *)
WriteBlock(w, S) ==
    /\ source' = [source EXCEPT ![w] = [stamp |-> clock, slots |-> @.slots \cup S]]
    /\ overtaken' = IF Reached([stamp |-> clock, window |-> w]) THEN overtaken \cup {w}
                    ELSE overtaken \ {w}
    /\ UNCHANGED <<clock, landing, raw, state, watermark, poll, estimate>>

Tick ==
    /\ clock < MaxClock
    /\ clock' = clock + 1
    /\ UNCHANGED <<source, landing, raw, state, watermark, poll, estimate, overtaken>>

(* The block already landed under this key with another payload. *)
ReplayConflict(W) ==
    \E w \in W : \E l \in landing :
        l.window = w /\ l.stamp = source[w].stamp /\ l.slots # source[w].slots

(* Variant: only rows of the same block count as known. *)
Known_SameBlock(R, w, s, stamp) ==
    \E r \in R : r.window = w /\ r.slot = s /\ r.origin = stamp

(* find_duplicate_hes_read_raw: meter, channel and time. *)
Known(R, w, s, stamp) == \E r \in R : r.window = w /\ r.slot = s

(* The reads of the blocks, as ingest_reads stores them; a record that is    *)
(* stored already is skipped.                                                *)
RowsOf(W) ==
    {[window |-> w, slot |-> s, origin |-> source[w].stamp,
      status |-> IF Known(raw, w, s, source[w].stamp) THEN "duplicate" ELSE "mapped"] :
        w \in W, s \in Slots}

NewRows(W) ==
    {r \in RowsOf(W) :
        /\ r.slot \in source[r.window].slots
        /\ ~ \E q \in raw : <<q.window, q.slot, q.origin>> = <<r.window, r.slot, r.origin>>}

(* build_ingest_envelope and ingest_reads; an empty poll changes nothing. *)
Fetch ==
    /\ poll.pc = "idle"
    /\ Fetched # {}
    /\ ~ ReplayConflict(Fetched)
    /\ poll' = [pc |-> "ingested", rows |-> NewRows(Fetched), loaded |-> NoStates,
                blocks |-> {[window |-> w, stamp |-> source[w].stamp,
                             slots |-> source[w].slots] : w \in Fetched}]
    /\ UNCHANGED <<clock, source, landing, raw, state, watermark, estimate, overtaken>>

(* finalize_ingest loads the states of the windows. *)
LoadStates ==
    /\ poll.pc = "ingested"
    /\ poll' = [poll EXCEPT !.pc = "merging", !.loaded = state]
    /\ UNCHANGED <<clock, source, landing, raw, state, watermark, estimate, overtaken>>

(* Variant: the block replaces what was received before. *)
Merged_Replaced(old, b) ==
    [slots |-> b.slots, first |-> b.stamp, last |-> b.stamp, late |-> old.late,
     status |-> IF b.slots = Slots THEN "complete" ELSE "partial"]

Smaller(a, b) == IF a < b THEN a ELSE b
Larger(a, b) == IF a < b THEN b ELSE a

Merged(old, b) ==
    LET slots == old.slots \cup b.slots
        late == old.status \in {"complete", "late_update"} /\ b.stamp > old.last
    IN
    [slots |-> slots,
     first |-> IF old = NoState THEN b.stamp ELSE Smaller(old.first, b.stamp),
     last |-> Larger(old.last, b.stamp),
     status |-> IF late THEN "late_update"
                ELSE IF Cardinality(slots) >= Cardinality(Slots) THEN "complete"
                ELSE "partial",
     late |-> IF late THEN old.late + 1 ELSE old.late]

(* A flush writes the columns whose value differs from the one loaded. *)
Flushed(now, loaded, new) ==
    [f \in DOMAIN now |-> IF new[f] = loaded[f] THEN now[f] ELSE new[f]]

(* The landing blocks, the reads, the states and the watermark, at once. *)
CommitPoll ==
    /\ poll.pc = "merging"
    /\ landing' = landing \cup poll.blocks
    /\ raw' = raw \cup poll.rows
    /\ state' = [w \in Windows |->
                    IF \E b \in poll.blocks : b.window = w
                    THEN LET b == CHOOSE b \in poll.blocks : b.window = w IN
                         Flushed(state[w], poll.loaded[w], Merged(poll.loaded[w], b))
                    ELSE state[w]]
    /\ watermark' = [stamp |-> LastOf(poll.blocks).stamp,
                     window |-> LastOf(poll.blocks).window]
    /\ poll' = IdlePoll
    /\ UNCHANGED <<clock, source, estimate, overtaken>>

(* An error, or a crash of the processor: everything since Fetch is undone. *)
FailPoll ==
    /\ poll.pc # "idle"
    /\ poll' = IdlePoll
    /\ overtaken' = {w \in overtaken : ~ Behind(watermark, Cursor(w))}
    /\ UNCHANGED <<clock, source, landing, raw, state, watermark, estimate>>

-------------------------------------------------------------------------------
(* Synthetic missing intervals. *)

(* _resolve_single_missing_slot *)
MissingSlot(w) ==
    IF Cardinality(Slots \ state[w].slots) = 1 THEN Slots \ state[w].slots ELSE {}

(* correction_policy.py: what an outage explains is not estimated. *)
BlockedByPolicy(w) == w \in Outage

BeginEstimate(o, w) ==
    /\ estimate[o].pc = "idle"
    /\ state[w] # NoState
    /\ ~ BlockedByPolicy(w)
    /\ \E s \in MissingSlot(w) :
          /\ ~ \E r \in raw : r.window = w /\ r.slot = s
          /\ estimate' = [estimate EXCEPT ![o] = [pc |-> "estimate", window |-> w,
                                                  slot |-> s, loaded |-> state[w]]]
    /\ UNCHANGED <<clock, source, landing, raw, state, watermark, poll, overtaken>>

(* _create_synthetic_measurement_chain; two of them for one slot count as    *)
(* one row here.                                                             *)
SyntheticRow(w, s) ==
    [window |-> w, slot |-> s, origin |-> Synthetic, status |-> "mapped"]

CommitEstimate(o) ==
    LET e == estimate[o]
        done == [e.loaded EXCEPT !.slots = @ \cup {e.slot}, !.status = "complete",
                                 !.last = clock]
    IN
    /\ e.pc = "estimate"
    /\ raw' = raw \cup {SyntheticRow(e.window, e.slot)}
    /\ state' = [state EXCEPT ![e.window] = Flushed(@, e.loaded, done)]
    /\ estimate' = [estimate EXCEPT ![o] = Free]
    /\ UNCHANGED <<clock, source, landing, watermark, poll, overtaken>>

RollBack(o) ==
    /\ estimate[o].pc = "estimate"
    /\ estimate' = [estimate EXCEPT ![o] = Free]
    /\ UNCHANGED <<clock, source, landing, raw, state, watermark, poll, overtaken>>

Next ==
    \/ \E w \in Windows, S \in (SUBSET Slots) \ {{}} : WriteBlock(w, S)
    \/ Tick
    \/ Fetch
    \/ LoadStates
    \/ CommitPoll
    \/ FailPoll
    \/ \E o \in Operators, w \in Windows : BeginEstimate(o, w)
    \/ \E o \in Operators : CommitEstimate(o)
    \/ \E o \in Operators : RollBack(o)

Spec == Init /\ [][Next]_vars

-------------------------------------------------------------------------------
TypeOK ==
    /\ clock \in Stamps \ {0}
    /\ source \in [Windows -> [stamp : Stamps, slots : SUBSET Slots]]
    /\ landing \subseteq BlockType
    /\ raw \subseteq RowType
    /\ state \in [Windows -> StateType \cup {NoState}]
    /\ watermark \in [stamp : Stamps, window : Nat]
    /\ poll \in [pc : {"idle", "ingested", "merging"}, blocks : SUBSET BlockType,
                 rows : SUBSET RowType, loaded : [Windows -> StateType \cup {NoState}]]
    /\ estimate \in [Operators -> [pc : {"idle", "estimate"}, window : Windows \cup {0},
                                   slot : Slots \cup {0},
                                   loaded : StateType \cup {NoState}]]
    /\ overtaken \subseteq Windows

RowsAt(w) == {r \in raw : r.window = w}

(* The window state, which operators and VEE decide by, says what is there:  *)
(* its slots are those of the window's rows, and it counts as complete when  *)
(* no slot is missing; also when a poll and an estimation have loaded it     *)
(* before either was committed.                                              *)
WindowMatchesRows ==
    /\ TypeOK
    /\ \A w \in Windows :
          /\ state[w].slots = {r.slot : r \in RowsAt(w)}
          /\ state[w].status \in {"complete", "late_update"} <=> state[w].slots = Slots

(* A block that is rewritten comes again with a new key and all its slots:   *)
(* of the readings the head-end has sent for a slot one is published.  (A    *)
(* synthetic one may be published beside it when the two overlap.)           *)
SourceSlotPublishedOnce ==
    \A r, q \in raw :
        /\ r.window = q.window /\ r.slot = q.slot
        /\ r.status = "mapped" /\ q.status = "mapped"
        /\ Synthetic \notin {r.origin, q.origin}
        => r = q

(* A block of the same second whose key is not the smaller one. *)
Tied(l, w) == l.stamp = source[w].stamp /\ l.window >= w

(* What the watermark has passed has arrived, whatever was cut off by the    *)
(* batch limit, failed or was rewritten meanwhile.  Lost is only a block     *)
(* that was written after a poll had read from its second, under a smaller   *)
(* or the same key: it is never polled.                                      *)
OnlyLateTiesArePassed ==
    \A w \in Windows :
        source[w].slots # {} /\ ~ Behind(watermark, Cursor(w))
            => \/ source[w].slots \subseteq state[w].slots
               \/ w \in overtaken /\ \E l \in landing : Tied(l, w)

-------------------------------------------------------------------------------
(* The inductive invariant behind these properties. *)

SourceInv ==
    \A w \in Windows :
        /\ source[w].stamp <= clock
        /\ source[w].slots # {} => source[w].stamp # 0

(* A state, stored or loaded: it is there when a slot is, and no longer open. *)
Coherent(s) ==
    /\ s.status # "open"
    /\ s = NoState <=> s.slots = {}
    /\ s.status \in {"complete", "late_update"} <=> s.slots = Slots

StatesInv ==
    \A w \in Windows :
        /\ Coherent(state[w])
        /\ Coherent(poll.loaded[w])
        /\ state[w].slots = {r.slot : r \in RowsAt(w)}

(* A poll has a block of each of its windows, and a row of each of its slots; *)
(* what it has loaded lacks at most the slot an estimate has filled since.    *)
OneShort(S) == \E s \in Slots : S \cup {s} = Slots

PollInv ==
    /\ poll.pc = "idle" => poll = IdlePoll
    /\ poll.pc # "idle" => poll.blocks # {}
    /\ \A a, b \in poll.blocks : a.window = b.window => a = b
    /\ \A b \in poll.blocks : \A s \in b.slots :
          \E r \in raw \cup poll.rows : r.window = b.window /\ r.slot = s
    /\ \A r \in poll.rows : \E b \in poll.blocks : b.window = r.window /\ r.slot \in b.slots
    /\ poll.pc = "merging" =>
          \A w \in Windows :
              \/ state[w].slots = poll.loaded[w].slots
              \/ state[w].slots = Slots /\ OneShort(poll.loaded[w].slots)

(* An estimate fills the only slot that its window lacked, and what it has   *)
(* loaded has been received.                                                 *)
EstimatesInv ==
    \A o \in Operators :
        LET e == estimate[o] IN
        e.pc = "estimate" =>
            /\ e.window \in Windows /\ e.slot \in Slots
            /\ Coherent(e.loaded) /\ e.loaded # NoState
            /\ e.slot \notin e.loaded.slots /\ e.loaded.slots \cup {e.slot} = Slots
            /\ e.loaded.slots \subseteq state[e.window].slots
            /\ poll.pc = "merging" => e.loaded.slots \subseteq poll.loaded[e.window].slots

MergeInv == TypeOK /\ SourceInv /\ StatesInv /\ PollInv /\ EstimatesInv

(* What a poll is about to publish is in no row of the source yet. *)
SameSlot(r, q) == r.window = q.window /\ r.slot = q.slot

PublishInv ==
    /\ SourceSlotPublishedOnce
    /\ \A r \in poll.rows : r.origin # Synthetic
    /\ \A r, q \in poll.rows : SameSlot(r, q) => r = q
    /\ \A r \in poll.rows, q \in raw :
          SameSlot(r, q) /\ r.status = "mapped" => q.origin = Synthetic

(* What an open poll will pass it has fetched, or it was overtaken.  The      *)
(* watermark is the cursor of a block that has landed.  A block is overtaken  *)
(* by the watermark, or by the open poll.                                    *)
PassInv ==
    /\ OnlyLateTiesArePassed
    /\ watermark.stamp <= clock
    /\ watermark.stamp # 0 =>
          \E l \in landing : l.stamp = watermark.stamp /\ l.window = watermark.window
    /\ poll.pc # "idle" =>
          /\ LastOf(poll.blocks).stamp <= clock
          /\ Behind(watermark, LastOf(poll.blocks))
          /\ \A w \in Windows :
                source[w].slots # {} /\ ~ Behind(LastOf(poll.blocks), Cursor(w))
                    => \/ ~ Behind(watermark, Cursor(w))
                       \/ w \in overtaken
                       \/ \E b \in poll.blocks : b.window = w /\ b.slots = source[w].slots
    /\ \A w \in overtaken :
          \/ ~ Behind(watermark, Cursor(w)) /\ \E l \in landing : Tied(l, w)
          \/ /\ poll.pc # "idle" /\ Behind(watermark, Cursor(w))
             /\ ~ Behind(LastOf(poll.blocks), Cursor(w))
             /\ \E l \in poll.blocks : Tied(l, w)

===============================================================================
