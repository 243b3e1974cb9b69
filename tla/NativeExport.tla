------------------------------ MODULE NativeExport ------------------------------
(***************************************************************************)
(* Supervised export of one native inverter.  Slot 1 holds a time of day   *)
(* and no date, so a discharge window that is left behind exports again    *)
(* every day: a durable record goes ahead of every window and is retired   *)
(* only by a verified zero, and a trip of the grid reading latches the     *)
(* event before its window is cleared.                                     *)
(*                                                                         *)
(* A job is a pass under guard.lock and native.lock.  Applies, cancels and *)
(* retries hold the authority lock as well; the clear after a trip does    *)
(* not, so authority may be saved between its reading the state and its    *)
(* writing it back.  Event e opens at 2e - 1 and is over at 2e; from       *)
(* 2e - 2 its clock face can no longer come round before it.               *)
(*                                                                         *)
(* Abstracted: why a window is refused (SoC, clock, holds, ratings, power  *)
(* switch) is a choice; a refusal that writes nothing is no step; charging *)
(* and the transition log are left out.                                    *)
(***************************************************************************)
EXTENDS Naturals

CONSTANTS
    Events,         \* how many export events follow each other
    MaxExportEpoch, \* bound on authority epochs
    ExportFaults    \* failed writes and saves, glitches and restarts in a behaviour

ASSUME ExportAssumption ==
    Events \in Nat \ {0} /\ MaxExportEpoch \in Nat \ {0} /\ ExportFaults \in Nat

VARIABLES
    auth,           \* AuthorityState: epoch, mode, supervisions, latches and the record
    stored,         \* AuthorityStore.state is known
    slot,           \* Slot 1's discharge half: an event's window, or 0
    clock,
    trusted,        \* the record was saved or re-verified in this session
    job,            \* the pass that holds the guard and bus locks
    over,           \* ExportTripwire: consecutive readings over the limit
    cutting,        \* the epoch of a latched trip whose clear is still to run, or 0
    tripped,        \* history: the events that a trip has latched
    faultsLeft      \* ExportFaults left

exportVars == <<auth, stored, slot, clock, trusted, job, over, cutting, tripped, faultsLeft>>
tripVars   == <<over, cutting, tripped>>

Event    == 1 .. Events
NoRecord == [event |-> 0, state |-> "cleared", epoch |-> 0, bound |-> FALSE]
Record   == [event : 0 .. Events, epoch : 0 .. MaxExportEpoch, bound : BOOLEAN,
             state : {"unknown", "armed", "preserved", "stop_pending", "cleared"}]
Authority == [epoch : 1 .. MaxExportEpoch, mode : {"optimise", "fallback", "leaving", "off"},
              sup : SUBSET Event, latched : SUBSET Event, record : Record]
Jobs     == {"idle", "ahead", "arm", "commit", "zero", "mark", "publish", "leave"}
Blank    == [epoch |-> 1, mode |-> "off", sup |-> {}, latched |-> {}, record |-> NoRecord]
NoJob    == [step |-> "idle", event |-> 0, locked |-> FALSE, epoch |-> 0, copy |-> Blank]

ExportTypeOK ==
    /\ auth \in Authority /\ stored \in BOOLEAN /\ slot \in 0 .. Events
    /\ clock \in 0 .. 2 * Events /\ trusted \in BOOLEAN
    /\ job \in [step : Jobs, event : 0 .. Events, locked : BOOLEAN,
                epoch : 0 .. MaxExportEpoch, copy : Authority]
    /\ over \in 0 .. 2 /\ cutting \in 0 .. MaxExportEpoch
    /\ tripped \subseteq Event /\ faultsLeft \in 0 .. ExportFaults

ExportInit ==
    /\ auth = [Blank EXCEPT !.mode = "optimise"]
    /\ stored = TRUE /\ slot = 0 /\ clock = 0 /\ trusted = TRUE /\ job = NoJob
    /\ over = 0 /\ cutting = 0 /\ tripped = {} /\ faultsLeft = ExportFaults

-----------------------------------------------------------------------------
(* Locks, saves and the records rules *)

\* The locks are first come first served, so a trip's clear is before any later pass.
BusFree     == job = NoJob /\ cutting = 0
ControlFree == stored /\ ~job.locked
Fault       == faultsLeft > 0 /\ faultsLeft' = faultsLeft - 1

\* AuthorityStore.async_save: one that cannot be verified leaves either on disk and exposes
\* nothing until Home Assistant restarts, or a clear that has its copy saves it.
SaveAuth(a, next) ==
    \/ auth' = a /\ job' = next /\ UNCHANGED <<stored, faultsLeft>>
    \/ Fault /\ auth' \in {auth, a} /\ stored' = FALSE
       /\ job' = IF next.step = "publish" THEN next ELSE NoJob

Begin(step, e, epoch, locked) ==
    [NoJob EXCEPT !.step = step, !.event = e, !.epoch = epoch, !.locked = locked]
Then(step)     == [job EXCEPT !.step = step]
Obligation     == auth.record.state # "cleared"
EventOver(e)   == clock >= 2 * e
EventOpen(e)   == clock = 2 * e - 1
NotYetArmed(e) == clock < 2 * e - 2

\* record_is_live without the mode, and what a loaded record must match to be preserved.
Matches(r) == /\ r.epoch = auth.epoch /\ ~EventOver(r.event) /\ r.event \notin auth.latched
              /\ r.bound /\ r.event \in auth.sup
RecordLive == /\ auth.record.state \in {"armed", "preserved"} /\ Matches(auth.record)
              /\ auth.mode # "fallback"
Live       == RecordLive /\ trusted
\* A mutant for TLC: a permission that does not look at the latch.
PermitsLatched(e) == auth.mode = "optimise" /\ e \in auth.sup /\ ~EventOver(e)

Permits(e) == /\ auth.mode = "optimise" /\ e \notin auth.latched
              /\ e \in auth.sup /\ ~EventOver(e)

-----------------------------------------------------------------------------
(* Supervisions and modes: every one is a save under the authority lock *)

\* Re-supervising an event replaces its row, so the bound of a record on it is gone.
Supervise(e) ==
    /\ ControlFree /\ auth.mode = "optimise" /\ ~EventOver(e)
    /\ SaveAuth([auth EXCEPT !.sup = @ \union {e},
                             !.record.bound = @ /\ auth.record.event # e], job)
    /\ UNCHANGED <<slot, clock, trusted, tripVars>>

\* The clear that follows is a cleanup of its own, under the same lock.
EndSupervision(e) ==
    /\ ControlFree /\ BusFree /\ e \in auth.sup
    /\ SaveAuth([auth EXCEPT !.sup = @ \ {e}],
                IF auth.mode = "optimise" THEN Begin("zero", 0, auth.epoch, TRUE) ELSE job)
    /\ UNCHANGED <<slot, clock, trusted, tripVars>>

ExpireSupervisions ==
    /\ ControlFree /\ \E e \in auth.sup \union auth.latched : EventOver(e)
    /\ SaveAuth([auth EXCEPT !.sup = {e \in @ : ~EventOver(e)},
                             !.latched = {e \in @ : ~EventOver(e)}], job)
    /\ UNCHANGED <<slot, clock, trusted, tripVars>>

\* A new add-on session, entering and leaving fallback, a request that leaves Optimise, and
\* Optimise again: each moves the epoch, so no record of the old one is live.
NewAuthority(mode) ==
    /\ ControlFree /\ auth.epoch < MaxExportEpoch
    /\ \/ mode = auth.mode
       \/ <<auth.mode, mode>> \in {<<"optimise", "fallback">>, <<"fallback", "optimise">>,
             <<"optimise", "leaving">>, <<"fallback", "leaving">>, <<"off", "optimise">>}
    /\ SaveAuth([auth EXCEPT !.epoch = @ + 1, !.mode = mode,
                             !.sup = IF mode = "leaving" THEN {} ELSE @], job)
    /\ UNCHANGED <<slot, clock, trusted, tripVars>>

-----------------------------------------------------------------------------
(* Apply: _async_export_group under the authority, guard and bus locks *)

\* A mutant for TLC: a window armed before its obligation is saved.
ArmsUnsaved(e) ==
    /\ ControlFree /\ BusFree /\ trusted /\ Permits(e) /\ ~NotYetArmed(e)
    /\ job' = Begin("arm", e, auth.epoch, TRUE)
    /\ UNCHANGED <<auth, stored, slot, clock, trusted, tripVars, faultsLeft>>

\* A loaded record is re-verified first; a window already programmed is written again.
ApplyReady(e) ==
    /\ ControlFree /\ BusFree /\ trusted /\ Permits(e) /\ ~NotYetArmed(e)
    /\ job' = Begin("ahead", e, auth.epoch, TRUE)
    /\ UNCHANGED <<auth, stored, slot, clock, trusted, tripVars, faultsLeft>>

\* Refused, deferred, untrusted without a live record, or malformed: the half is zeroed.
\* An apply the mode refuses only retires a record whose zero it reads.
ApplyRefused ==
    /\ ControlFree /\ BusFree /\ ((trusted /\ auth.mode = "optimise") \/ slot = 0)
    /\ job' = Begin("zero", 0, auth.epoch, TRUE)
    /\ UNCHANGED <<auth, stored, slot, clock, trusted, tripVars, faultsLeft>>

ApplyNone ==
    /\ ControlFree /\ BusFree /\ trusted /\ auth.mode = "optimise"
    /\ SaveAuth([auth EXCEPT !.sup = {}], Begin("zero", 0, auth.epoch, TRUE))
    /\ UNCHANGED <<slot, clock, trusted, tripVars>>

\* Write-ahead: no register is touched before the obligation is durable.
SaveAhead ==
    /\ job.step = "ahead"
    /\ SaveAuth([auth EXCEPT !.record = [event |-> job.event, epoch |-> auth.epoch,
                                        bound |-> TRUE, state |-> "unknown"]], Then("arm"))
    /\ UNCHANGED <<slot, clock, trusted, tripVars>>

\* The export current, then slots.arm with the permission judged again just before it.
Arm ==
    /\ job.step = "arm"
    /\ \/ Permits(job.event) /\ slot' = job.event /\ job' = Then("commit")
          /\ UNCHANGED faultsLeft
       \/ ~Permits(job.event) /\ job' = NoJob /\ UNCHANGED <<slot, faultsLeft>>
       \/ Fault /\ job' = Then("zero") /\ UNCHANGED slot
       \/ Fault /\ job' = NoJob /\ Permits(job.event) /\ slot' \in {slot, job.event}
    /\ UNCHANGED <<auth, stored, clock, trusted, tripVars>>

Commit ==
    /\ job.step = "commit"
    /\ SaveAuth([auth EXCEPT !.record.state = "armed"], NoJob)
    /\ UNCHANGED <<slot, clock, trusted, tripVars>>

-----------------------------------------------------------------------------
(* Cleanup: a verified zero is the only thing that retires a record *)

ZeroPermitted == auth.epoch = job.epoch /\ auth.mode # "off" /\ stored

\* Zero half: written if it differs and read six times; a window that reads zero needs no
\* permission.
ZeroHalf ==
    /\ job.step = "zero"
    /\ \/ (ZeroPermitted \/ slot = 0) /\ slot' = 0 /\ job' = Then("mark") /\ UNCHANGED faultsLeft
       \/ ~ZeroPermitted /\ slot # 0 /\ job' = NoJob /\ UNCHANGED <<slot, faultsLeft>>
       \/ Fault /\ slot' \in {slot} \union (IF ZeroPermitted THEN {0} ELSE {}) /\ job' = NoJob
    /\ UNCHANGED <<auth, stored, clock, trusted, tripVars>>

\* _mark_cleared reads the state here and saves it as it was then; the store's own lock and
\* a disk write lie between, and a save that fails there does not stop it.
MarkCleared ==
    /\ job.step = "mark"
    /\ job' = IF ~stored THEN NoJob
              ELSE [Then("publish") EXCEPT !.copy = [auth EXCEPT !.record.state = "cleared"]]
    /\ UNCHANGED <<auth, stored, slot, clock, trusted, tripVars, faultsLeft>>

PublishCleared ==
    /\ job.step = "publish"
    /\ \/ auth' = job.copy /\ stored' = TRUE /\ UNCHANGED faultsLeft
          /\ job' = IF job.locked /\ auth.mode = "leaving"
                    THEN [Then("leave") EXCEPT !.copy = Blank] ELSE NoJob
       \/ Fault /\ auth' \in {auth, job.copy} /\ stored' = FALSE /\ job' = NoJob
    /\ UNCHANGED <<slot, clock, trusted, tripVars>>

\* The cancel step of a handover is done, and Optimise is left.
LeaveOptimise ==
    /\ job.step = "leave" /\ SaveAuth([auth EXCEPT !.mode = "off"], NoJob)
    /\ UNCHANGED <<slot, clock, trusted, tripVars>>

\* A mutant for TLC: a record that is retried in Optimise only.
RetriesInOptimise ==
    /\ ControlFree /\ BusFree /\ auth.mode = "optimise" /\ Obligation /\ ~RecordLive
    /\ job' = Begin("zero", 0, auth.epoch, TRUE)
    /\ UNCHANGED <<auth, stored, slot, clock, trusted, tripVars, faultsLeft>>

\* async_retry_export_records every tick, or the cancel step of a handover.
RetryRecord ==
    /\ ControlFree /\ BusFree
    /\ \/ auth.mode \in {"optimise", "fallback"} /\ Obligation /\ ~RecordLive
       \/ auth.mode = "leaving"
    /\ job' = Begin("zero", 0, auth.epoch, TRUE)
    /\ UNCHANGED <<auth, stored, slot, clock, trusted, tripVars, faultsLeft>>

\* After a restart a record is preserved when the slot still shows it exactly, else zeroed.
ReconcileRecord ==
    /\ ControlFree /\ BusFree /\ ~trusted
    /\ IF ~Obligation THEN trusted' = TRUE /\ UNCHANGED <<auth, stored, job, faultsLeft>>
       ELSE /\ auth.mode # "fallback"
            /\ IF Matches(auth.record) /\ slot = auth.record.event
               THEN /\ SaveAuth([auth EXCEPT !.record.state = "preserved"], NoJob)
                    /\ trusted' = stored'
               ELSE /\ auth.mode # "off" /\ job' = Begin("zero", 0, auth.epoch, TRUE)
                    /\ UNCHANGED <<auth, stored, trusted, faultsLeft>>
    /\ UNCHANGED <<slot, clock, tripVars>>

-----------------------------------------------------------------------------
(* The tripwire *)

Watching == stored /\ Live /\ EventOpen(auth.record.event)

\* A fresh reading over the site limit counts; a missing one neither counts nor resets.
Reading(high) ==
    /\ BusFree
    /\ over' = IF ~Watching \/ ~high THEN 0 ELSE IF over = 2 THEN 2 ELSE over + 1
    /\ UNCHANGED <<auth, stored, slot, clock, trusted, job, cutting, tripped, faultsLeft>>

\* The latch is durable before anything is cleared.
Trip ==
    /\ ControlFree /\ over = 2 /\ Watching
    /\ LET e == auth.record.event IN
       /\ SaveAuth([auth EXCEPT !.latched = @ \union {e}, !.sup = {},
                                !.record.state = "stop_pending"], job)
       /\ tripped' = IF e \in auth'.latched THEN tripped \union {e} ELSE tripped
       /\ cutting' = IF stored' THEN auth.epoch ELSE cutting
       /\ over' = IF stored' THEN 0 ELSE over
    /\ UNCHANGED <<slot, clock, trusted>>

\* async_clear_export without the authority lock; a newer epoch refuses it.
TripClear ==
    /\ job = NoJob /\ cutting # 0 /\ cutting' = 0
    /\ job' = IF stored /\ auth.epoch = cutting /\ auth.mode # "off"
              THEN Begin("zero", 0, cutting, FALSE) ELSE job
    /\ UNCHANGED <<auth, stored, slot, clock, trusted, over, tripped, faultsLeft>>

-----------------------------------------------------------------------------
Tick ==
    /\ clock < 2 * Events /\ clock' = clock + 1
    /\ UNCHANGED <<auth, stored, slot, trusted, job, tripVars, faultsLeft>>

ExportRestart ==
    /\ Fault /\ stored' = TRUE /\ trusted' = FALSE /\ job' = NoJob /\ over' = 0 /\ cutting' = 0
    /\ UNCHANGED <<auth, slot, clock, tripped>>

ExportJob == \/ SaveAhead \/ Arm \/ Commit \/ ZeroHalf \/ MarkCleared \/ PublishCleared
             \/ LeaveOptimise \/ TripClear
ExportNext ==
    \/ \E e \in Event : Supervise(e) \/ EndSupervision(e) \/ ApplyReady(e)
    \/ ExpireSupervisions \/ (\E mode \in {"optimise", "fallback", "leaving"} : NewAuthority(mode))
    \/ ApplyRefused \/ ApplyNone \/ ExportJob \/ RetryRecord \/ ReconcileRecord
    \/ (\E high \in BOOLEAN : Reading(high)) \/ Trip \/ Tick \/ ExportRestart

\* A started pass goes on, and every tick of the coordinator retries and re-verifies.
ExportFairness ==
    WF_exportVars(ExportJob) /\ SF_exportVars(RetryRecord) /\ SF_exportVars(ReconcileRecord)

ExportSpec     == ExportInit /\ [][ExportNext]_exportVars
ExportFairSpec == ExportSpec /\ ExportFairness

-----------------------------------------------------------------------------
(* Properties *)

\* A window is never in Slot 1 without a durable record that someone will retire: not after
\* a failed write, a save on either side of the crash, a lost update or a changed mode.
Obligated == slot # 0 => Obligation

\* An event that tripped the grid limit is never programmed again, whatever is supervised,
\* applied, restarted or overwritten afterwards.
TrippedStays == [][slot' # slot => slot' \notin tripped]_exportVars

\* A discharge window that nobody supervises any more is zeroed, in every mode, after
\* restarts and failures; authority that cannot be read waits for a restart.
DischargeEnds == []<>(slot = 0 \/ Live \/ ~stored)

\* The authority epoch counts forward over every mode change and session.
EpochForward == [][auth'.epoch >= auth.epoch]_exportVars
=============================================================================
