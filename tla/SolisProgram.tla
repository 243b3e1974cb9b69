------------------------------ MODULE SolisProgram ------------------------------
(***************************************************************************)
(* The add-on's charge and export program on one Solis inverter: the       *)
(* daemon's minute (one SoC observation, then fallback, recovery or a      *)
(* plan), the SoC monitor, and the driver's apply.  Slot 1 holds a charge  *)
(* half and a discharge half; its registers have a time of day and no      *)
(* date, and a durable record names the event a verified half was for.     *)
(*                                                                         *)
(* Every paid event has the same clock face: the event of evening e opens  *)
(* at clock 2e - 1 and is over at 2e.  A phase of the clock is hours, in   *)
(* which the half-hourly plan runs at least once without a failed action.  *)
(*                                                                         *)
(* Abstracted: a read is right or fails (a spurious zero, which the code   *)
(* reads twice, is a failure); a plan is its charge current and event;     *)
(* slots 2 and 3 are part of whether the apply verified; why an export is  *)
(* refused is a choice; the current of a plan is never 0; the guard and    *)
(* the owner do not touch the program.                                     *)
(***************************************************************************)
EXTENDS Naturals

CONSTANTS
    Evenings,       \* bound on evenings
    SocLimit,       \* soc_failure_threshold (3 in the code)
    ProgramFaults   \* failed reads, writes, saves, crashes, cancelled events in a behaviour

ASSUME ProgramAssumption ==
    Evenings \in Nat \ {0} /\ SocLimit \in Nat \ {0} /\ ProgramFaults \in Nat

VARIABLES
    clock, paid,    \* the phase; the evenings with a paid event
    served,         \* the last plan or handover of this phase and SoC status did not fail
    slot,           \* Slot 1: its discharge half and its charge half are on
    timed,          \* the timed charge current
    record,         \* ExportEventStore: the evening of the verified event, or 0
    applied,        \* last_applied_plan
    monitor,        \* SocMonitor
    program,        \* optimise, the two steps of a handover to Observe, or off
    apply,          \* the tick that is under way
    programFaults   \* ProgramFaults left

programVars == <<clock, paid, served, slot, timed, record, applied, monitor, program, apply,
                 programFaults>>
timeVars    == <<clock, paid, served>>

Evening    == 1 .. Evenings
Currents       == {1, 2}
FallbackA  == 1
Fallbacks  == {"requested", "verified", "failed"}
NoPlan     == [known |-> FALSE, amps |-> 1, export |-> 0]
Applying(kind, step, soc) ==
    [kind |-> kind, step |-> step, soc |-> soc, trusted |-> TRUE, amps |-> FallbackA,
     export |-> 0, ready |-> FALSE, current |-> TRUE, window |-> TRUE, good |-> TRUE]
NoApply    == Applying("none", "idle", TRUE)

ProgTypeOK ==
    /\ clock \in 0 .. 2 * Evenings /\ paid \subseteq Evening /\ served \in BOOLEAN
    /\ slot \in [charge : BOOLEAN, export : BOOLEAN] /\ timed \in Currents /\ record \in 0 .. Evenings
    /\ applied \in [known : BOOLEAN, amps : Currents, export : 0 .. Evenings]
    /\ monitor \in [status : {"normal", "pending", "threshold"} \union Fallbacks,
                    confirmed : BOOLEAN, failures : 0 .. SocLimit,
                    recovery : {"none", "since", "ready"}, fresh : BOOLEAN]
    /\ program \in {"optimise", "cancel", "write", "off"}
    /\ apply \in [kind : {"none", "plan", "recover", "fallback", "reapply", "handover"},
                  step : {"idle", "due", "prepare", "current", "window", "finish"},
                  soc : BOOLEAN, trusted : BOOLEAN, amps : Currents, export : 0 .. Evenings,
                  ready : BOOLEAN, current : BOOLEAN, window : BOOLEAN, good : BOOLEAN]
    /\ programFaults \in 0 .. ProgramFaults

ProgInit ==
    /\ clock = 0 /\ paid \in SUBSET Evening /\ served = FALSE
    /\ slot = [charge |-> FALSE, export |-> FALSE] /\ timed = 2 /\ record = 0 /\ applied = NoPlan
    /\ monitor = [status |-> "normal", confirmed |-> FALSE, failures |-> 0, recovery |-> "none",
                  fresh |-> TRUE]
    /\ program = "optimise" /\ apply = NoApply /\ programFaults = ProgramFaults

-----------------------------------------------------------------------------
(* Helpers *)

Failing     == programFaults > 0 /\ programFaults' = programFaults - 1
Over(e)     == clock >= 2 * e
LiveExport  == record # 0 /\ ~Over(record)
Offered     == LET near == {e \in paid : ~Over(e) /\ clock + 4 >= 2 * e}
               IN  IF near = {} THEN 0 ELSE CHOOSE e \in near : \A f \in near : e <= f

\* A mutant for TLC: the start's clock face is enough, though an earlier window is still open.
StartHasPassed(e) == clock < 2 * e - 3

\* The face is open, or comes round, before the event's own evening.
ExportNotYetArmed(e) == clock < 2 * e - 2

InFallback(m)    == m.status \in Fallbacks
RecoveryReady(m) == m.recovery = "ready" /\ (InFallback(m) \/ m.status = "threshold")

-----------------------------------------------------------------------------
(* SocMonitor *)

RecordPass(m) ==
    IF InFallback(m)
    THEN {[m EXCEPT !.fresh = TRUE, !.recovery = r] :
            r \in IF m.recovery = "none" THEN {"since"} ELSE {"since", "ready"}}
    ELSE {[m EXCEPT !.fresh = TRUE, !.failures = 0,
                    !.status = IF m.failures > 0 THEN "normal" ELSE @]}

\* A mutant for TLC: a count without its limit.
RecordFailures(m) == {[m EXCEPT !.failures = @ + 1, !.recovery = "none"]}

RecordFailure(m) ==
    LET count == IF m.failures < SocLimit THEN m.failures + 1 ELSE SocLimit
    IN  {[m EXCEPT !.fresh = TRUE, !.failures = count, !.recovery = "none",
                   !.status = IF InFallback(m) THEN @
                              ELSE IF count = SocLimit THEN "threshold" ELSE "pending"]}

\* Each minute, until the fallback is verified by this process; never while recovering.
RequestsFallback(m) ==
    /\ ~RecoveryReady(m)
    /\ m.status \in {"threshold", "requested", "failed"} \/ (m.status = "verified" /\ ~m.confirmed)

CompleteFallback(m, ok) ==
    [m EXCEPT !.status = IF ok THEN "verified" ELSE "failed", !.confirmed = ok]

InvalidateFallback(m) == [m EXCEPT !.confirmed = @ /\ m.status # "verified"]
CompleteRecovery(m)   == [m EXCEPT !.status = "normal", !.confirmed = FALSE, !.failures = 0,
                                   !.recovery = "none"]

-----------------------------------------------------------------------------
(* A minute of the loop *)

\* A fallback keeps the half of a live record, and waits if it cannot read the slot.
FallbackStarts(kind, m, soc) ==
    \/ /\ monitor' = m /\ UNCHANGED programFaults
       /\ apply' = [Applying(kind, "prepare", soc) EXCEPT !.ready = LiveExport /\ slot.export]
    \/ /\ LiveExport /\ Failing /\ monitor' = CompleteFallback(m, FALSE)
       /\ apply' = IF kind = "fallback" THEN Applying("none", "due", soc) ELSE NoApply

\* soc_monitor_tick: one observation a minute; an unconfirmed fallback is written again.
Observe(ok) ==
    /\ apply = NoApply
    /\ \E m \in (IF ok THEN RecordPass(monitor) ELSE RecordFailure(monitor)) :
       /\ served' = (served /\ m.status = monitor.status)
       /\ IF RequestsFallback(m) /\ program = "optimise"
          THEN FallbackStarts("fallback", [m EXCEPT !.status = "requested", !.confirmed = FALSE], ok)
          ELSE /\ monitor' = m /\ apply' = Applying("none", "due", ok) /\ UNCHANGED programFaults
    /\ UNCHANGED <<clock, paid, slot, timed, record, applied, program>>

Recovering == InFallback(monitor) /\ RecoveryReady(monitor)
Held       == (InFallback(monitor) \/ ~monitor.fresh) /\ ~Recovering
PlanDue        == apply.step = "due" /\ program = "optimise"

\* After a failed recovery the loop waits five minutes, and in each of them writes a fallback
\* that is not confirmed; other minutes are not a plan's.
NotDue ==
    /\ apply.step = "due"
    /\ \/ apply' = NoApply /\ UNCHANGED <<monitor, programFaults>>
       \/ PlanDue /\ Recovering /\ ~monitor.confirmed /\ FallbackStarts("reapply", monitor, apply.soc)
    /\ UNCHANGED <<timeVars, slot, timed, record, applied, program>>

\* needs_apply against the plan last applied; a recovery never has one.
NeedsApply(a, e, trusted) ==
    \/ Recovering \/ ~applied.known \/ ~trusted \/ e # 0 \/ applied.export # e
    \/ apply.soc /\ applied.amps # a

Baseline(plan) ==
    /\ applied' = plan /\ apply' = NoApply /\ served' = TRUE
    /\ UNCHANGED <<clock, paid, slot, timed, record, program, programFaults>>

PlanUnchanged(a) ==
    /\ PlanDue /\ ~Held /\ ~NeedsApply(a, Offered, TRUE) /\ Baseline(applied) /\ UNCHANGED monitor

\* Fallback holds normal programming, and an SoC that is not trusted refuses it.
PlanRefused ==
    /\ PlanDue /\ (Held \/ (~apply.soc /\ NeedsApply(timed, Offered, TRUE)))
    /\ Baseline(NoPlan) /\ UNCHANGED monitor

\* An unreadable event preserves a live one: nothing is written, and the skip counts as done.
PlanPreserves(a) ==
    /\ PlanDue /\ ~Held /\ apply.soc /\ LiveExport
    /\ Baseline([known |-> TRUE, amps |-> a, export |-> 0])
    /\ monitor' = IF Recovering THEN CompleteRecovery(monitor) ELSE monitor

\* Whether an export is refused (untrusted holds, the inverter's clock, its switch) is a choice.
Admits(e, early) == IF e = 0 \/ early THEN {FALSE} ELSE BOOLEAN

\* An event that is not yet armed, or is refused, is planned with a zero discharge half; one
\* that is resident and recorded already is left alone.
PlanApplies(a, trusted) ==
    LET e     == IF trusted THEN Offered ELSE 0
        early == e # 0 /\ ExportNotYetArmed(e)
    IN  /\ PlanDue /\ ~Held /\ apply.soc /\ (trusted \/ ~LiveExport) /\ NeedsApply(a, e, trusted)
        /\ \E ready \in Admits(e, early) :
              apply' = [Applying(IF Recovering THEN "recover" ELSE "plan",
                                 IF early /\ record = e /\ slot.export THEN "finish" ELSE "prepare",
                                 TRUE)
                        EXCEPT !.trusted = trusted, !.amps = a, !.export = e, !.ready = ready,
                               !.good = (e = 0 \/ ready)]
        /\ UNCHANGED <<timeVars, slot, timed, record, applied, monitor, program, programFaults>>

-----------------------------------------------------------------------------
(* The writes of an apply, each read back *)

HalfZeroed == [charge |-> FALSE, export |-> slot.export /\ apply.ready]

\* A current only changes behind a zeroed charge half; a planned and resident discharge half
\* is kept.  An unreadable slot, or grid charging that is not allowed, changes nothing.
Prepare ==
    /\ apply.step = "prepare"
    /\ LET active == (slot.charge \/ slot.export) /\ timed # apply.amps
       IN  \/ /\ slot' = IF active THEN HalfZeroed ELSE slot
              /\ apply' = [apply EXCEPT !.step = "current"] /\ UNCHANGED programFaults
           \/ /\ Failing /\ slot' \in {slot} \union (IF active THEN {HalfZeroed} ELSE {})
              /\ apply' = [apply EXCEPT !.step = "window", !.current = FALSE, !.good = FALSE]
    /\ UNCHANGED <<timeVars, timed, record, applied, monitor, program>>

SetCurrent ==
    /\ apply.step = "current"
    /\ \/ timed' = apply.amps /\ apply' = [apply EXCEPT !.step = "window"] /\ UNCHANGED programFaults
       \/ /\ Failing /\ timed' \in {timed, apply.amps}
          /\ apply' = [apply EXCEPT !.step = "window", !.current = FALSE, !.good = FALSE]
    /\ UNCHANGED <<timeVars, slot, record, applied, monitor, program>>

\* Without a confirmed current the charge half stays as it is, and only a discharge half is
\* written or cleared.
WriteWindow ==
    /\ apply.step = "window"
    /\ LET half    == [charge |-> apply.current \/ slot.charge, export |-> apply.ready]
           blocked == ~apply.current /\ ~apply.ready /\ ~slot.export
       IN  \/ /\ slot' = IF blocked THEN slot ELSE half
              /\ apply' = [apply EXCEPT !.step = "finish", !.window = ~blocked]
              /\ UNCHANGED programFaults
           \/ /\ Failing /\ slot' \in {slot, half}
              /\ apply' = [apply EXCEPT !.step = "finish", !.window = FALSE, !.good = FALSE]
    /\ UNCHANGED <<timeVars, timed, record, applied, monitor, program>>

\* _persist_export_state: a verified event is recorded, a verified program without one clears;
\* a failed save is only logged.
Persisted ==
    IF apply.kind \in {"plan", "recover"} /\ apply.window /\ (apply.export = 0 \/ apply.ready)
    THEN apply.export ELSE record

Verified == apply.good /\ apply.current /\ apply.window

FinishPlan ==
    /\ apply.step = "finish" /\ apply.kind \in {"plan", "recover"}
    /\ \/ record' = Persisted /\ UNCHANGED programFaults
       \/ record' = record /\ Persisted # record /\ Failing
    /\ applied' = IF Verified THEN [known |-> TRUE, amps |-> apply.amps, export |-> apply.export]
                  ELSE NoPlan
    /\ served' = Verified
    /\ IF apply.kind = "recover" /\ Verified
       THEN monitor' = CompleteRecovery(monitor) /\ apply' = NoApply
       ELSE IF apply.kind = "recover"
       THEN \* finish_recovery: the fallback is written again on the same tick
            /\ monitor' = InvalidateFallback(monitor)
            /\ apply' = [Applying("reapply", "prepare", TRUE)
                         EXCEPT !.ready = record' # 0 /\ ~Over(record') /\ slot.export]
       ELSE UNCHANGED monitor /\ apply' = NoApply
    /\ UNCHANGED <<clock, paid, slot, timed, program>>

FinishFallback ==
    /\ apply.step = "finish" /\ apply.kind \in {"fallback", "reapply"}
    /\ monitor' = CompleteFallback(monitor, Verified)
    /\ apply' = IF apply.kind = "fallback" THEN Applying("none", "due", apply.soc) ELSE NoApply
    /\ UNCHANGED <<timeVars, slot, timed, record, applied, program, programFaults>>

-----------------------------------------------------------------------------
(* The handover to Observe, and back *)

LeaveOptimise ==
    /\ apply = NoApply /\ program = "optimise" /\ program' = "cancel" /\ served' = FALSE
    /\ UNCHANGED <<clock, paid, slot, timed, record, applied, monitor, apply, programFaults>>

\* cancel_export: unlike the safe state, a live export is cancelled with its record.
CancelExport ==
    /\ apply.step = "due" /\ program = "cancel" /\ apply' = NoApply
    /\ \/ /\ slot' = [slot EXCEPT !.export = FALSE] /\ record' = 0 /\ program' = "write"
          /\ UNCHANGED programFaults
       \/ /\ Failing /\ slot' \in {slot, [slot EXCEPT !.export = FALSE]}
          /\ UNCHANGED <<record, program>>
    /\ UNCHANGED <<timeVars, timed, applied, monitor>>

\* write_fallback: the fallback window and current become the owner's schedule.
WriteFallback ==
    /\ apply.step = "due" /\ program = "write" /\ record = 0
    /\ apply' = Applying("handover", "prepare", apply.soc)
    /\ UNCHANGED <<timeVars, slot, timed, record, applied, monitor, program, programFaults>>

FinishHandover ==
    /\ apply.step = "finish" /\ apply.kind = "handover" /\ apply' = NoApply
    /\ program' = IF Verified THEN "off" ELSE program
    /\ served' = Verified
    /\ UNCHANGED <<clock, paid, slot, timed, record, applied, monitor, programFaults>>

\* Optimise again needs a trusted SoC and no fallback, and starts without a baseline.
EnterOptimise ==
    /\ apply.step = "due" /\ program = "off" /\ apply.soc /\ monitor.fresh
    /\ ~InFallback(monitor) /\ monitor.status # "threshold"
    /\ program' = "optimise" /\ applied' = NoPlan /\ served' = FALSE /\ apply' = NoApply
    /\ UNCHANGED <<clock, paid, slot, timed, record, monitor, programFaults>>

\* In Observe a recovery is a preview.
PreviewRecovers ==
    /\ apply.step = "due" /\ program = "off" /\ Recovering
    /\ monitor' = CompleteRecovery(monitor) /\ apply' = NoApply
    /\ UNCHANGED <<timeVars, slot, timed, record, applied, program, programFaults>>

-----------------------------------------------------------------------------
(* The clock, cancelled events, shutdown and restart *)

NextPhase ==
    /\ apply = NoApply /\ (served \/ program = "off") /\ clock < 2 * Evenings
    /\ clock' = clock + 1 /\ served' = FALSE
    /\ UNCHANGED <<paid, slot, timed, record, applied, monitor, program, apply, programFaults>>

Cancelled(e) ==
    /\ apply = NoApply /\ e \in paid /\ Failing /\ paid' = paid \ {e} /\ served' = FALSE
    /\ UNCHANGED <<clock, slot, timed, record, applied, monitor, program, apply>>

\* A mutant for TLC: a restart that goes on believing an earlier process's fallback.
RestartedConfirmed ==
    /\ applied' = NoPlan /\ served' = FALSE /\ apply' = NoApply
    /\ UNCHANGED <<clock, paid, timed, record, monitor, program>>

\* A restored failure waits for this process's first observation; nothing is confirmed.
Restarted ==
    /\ monitor' = [monitor EXCEPT !.confirmed = FALSE, !.recovery = "none",
                                  !.fresh = monitor.status = "normal"]
    /\ applied' = NoPlan /\ served' = FALSE /\ apply' = NoApply
    /\ UNCHANGED <<clock, paid, timed, record, program>>

\* A shutdown leaves the cheap window, and a discharge half only of a live record; a blind
\* write would lose one.
Shutdown ==
    /\ apply = NoApply /\ program = "optimise" /\ Failing
    /\ slot' = [charge |-> TRUE, export |-> slot.export /\ LiveExport]
    /\ Restarted

ProgRestart == Failing /\ Restarted /\ UNCHANGED slot

ProgNext ==
    \/ (\E ok \in BOOLEAN : Observe(ok)) \/ NotDue
    \/ (\E a \in Currents : PlanUnchanged(a) \/ PlanPreserves(a)
                        \/ \E trusted \in BOOLEAN : PlanApplies(a, trusted))
    \/ PlanRefused \/ Prepare \/ SetCurrent \/ WriteWindow \/ FinishPlan \/ FinishFallback
    \/ LeaveOptimise \/ CancelExport \/ WriteFallback \/ FinishHandover \/ EnterOptimise
    \/ PreviewRecovers \/ NextPhase \/ (\E e \in Evening : Cancelled(e))
    \/ Shutdown \/ ProgRestart

ProgSpec == ProgInit /\ [][ProgNext]_programVars

-----------------------------------------------------------------------------
(* Properties *)

\* What needs_apply compares with, the plan "now resident on the device", is on the inverter.
AppliedResident ==
    applied.known /\ apply = NoApply /\ program = "optimise" /\ monitor.status = "normal" =>
        slot = [charge |-> TRUE, export |-> applied.export # 0] /\ timed = applied.amps

\* Slot 1 discharges for its paid event and nothing else.  No half starts on an evening without
\* one, whether the face comes round or the half is armed while it is open: unless the SoC is
\* failing, or the skip that preserved an earlier event is still taken for an applied plan.  And
\* a verified event stays until it is over: unreadable reads, a failing SoC, a fallback, a rate
\* change or a shutdown do not take it out, only a trusted plan or the owner.
Firing == slot.export /\ clock % 2 = 1
FiresPaid ==
    [][/\ Firing' /\ ~Firing /\ (clock' + 1) \div 2 \notin paid
            => monitor.status # "normal" \/ (applied.known /\ applied.export = 0)
       /\ slot.export /\ ~slot'.export /\ LiveExport
            => program # "optimise" \/ (apply.kind \in {"plan", "recover"} /\ apply.trusted)]_programVars

\* A fallback that is called verified is what the inverter runs, through failed recoveries,
\* handovers and restarts.
FallbackResident ==
    monitor.status = "verified" /\ monitor.confirmed /\ apply = NoApply =>
        slot.charge /\ timed = FallbackA
=============================================================================
