------------------------------ MODULE AddonProofs ------------------------------
(***************************************************************************)
(* Proofs about services of the add-on, each over its own state and for    *)
(* every value of its constants.  The charge program: the types, that a    *)
(* fallback the monitor calls verified is the schedule the inverter holds, *)
(* and that the discharge half fires only for a paid event.  The           *)
(* protection holds: the types, and that a hold which was read back is     *)
(* ended only by its evidence.  The settings store: what a start publishes *)
(* is what the owner was last told of or a later attempt, and Optimise     *)
(* runs on settings that have a fallback schedule.  The planner: what one  *)
(* half hour promises the paid event the next ones keep, and by the next   *)
(* window the event has paid.  ProgInv, FireInv, LegacyInv, StoreInv,      *)
(* Followed and Pays are the inductive invariants.                         *)
(***************************************************************************)
EXTENDS MCAddon, FiniteSetTheorems, SequenceTheorems, WellFoundedInduction, TLAPS

-----------------------------------------------------------------------------
(* The charge program: types *)

MonitorRec == [status : {"normal", "pending", "threshold"} \union Fallbacks,
               confirmed : BOOLEAN, failures : 0 .. SocLimit,
               recovery : {"none", "since", "ready"}, fresh : BOOLEAN]
ApplyRec   == [kind : {"none", "plan", "recover", "fallback", "reapply", "handover"},
               step : {"idle", "due", "prepare", "current", "window", "finish"},
               soc : BOOLEAN, trusted : BOOLEAN, amps : Currents, export : 0 .. Evenings,
               ready : BOOLEAN, current : BOOLEAN, window : BOOLEAN, good : BOOLEAN]

\* Every nonempty set of natural numbers has a least one: its initial segments are
\* finite sets, which strict inclusion orders well.
LEMMA LeastNatural ==
  ASSUME NEW T \in SUBSET Nat, T # {}
  PROVE  \E m \in T : \A n \in T : m <= n
<1> DEFINE Below(n) == {k \in Nat : k < n}
           Family   == {Below(n) : n \in T}
<1>1. \A n \in Nat : IsFiniteSet(Below(n))
  <2> TAKE n \in Nat
  <2>1. \A k \in Below(n) : k <= n /\ k \in Nat
    OBVIOUS
  <2> QED
    BY <2>1, FS_BoundedSetOfNaturals
<1>2. Family \subseteq FiniteSubsetsOf(Nat) /\ Family # {}
  BY <1>1 DEF FiniteSubsetsOf
<1>3. IsWellFoundedOn(StrictSubsetOrdering(Nat), FiniteSubsetsOf(Nat))
  BY FS_StrictSubsetOrderingWellFounded
<1>4. PICK F \in Family : \A G \in Family : ~(<<G, F>> \in StrictSubsetOrdering(Nat))
  BY <1>2, <1>3, WFMin, Zenon
<1>5. PICK m \in T : F = Below(m)
  BY <1>4
<1>6. ASSUME NEW n \in T, n < m PROVE FALSE
  <2>1. Below(n) \subseteq Below(m) /\ n \in Below(m) /\ n \notin Below(n)
    BY <1>6
  <2>2. <<Below(n), Below(m)>> \in StrictSubsetOrdering(Nat)
    BY <2>1 DEF StrictSubsetOrdering
  <2> QED
    BY <1>4, <1>5, <2>2
<1> QED
  BY <1>6

\* The evening of the next paid event is an evening.
LEMMA OfferedEvening == paid \subseteq Evening => Offered \in 0 .. Evenings
<1> SUFFICES ASSUME paid \subseteq Evening PROVE Offered \in 0 .. Evenings
  OBVIOUS
<1> DEFINE near == {e \in paid : ~Over(e) /\ clock + 4 >= 2 * e}
<1>0. Evenings \in Nat /\ near \subseteq Nat /\ near \subseteq 1 .. Evenings
  <2>1. near \subseteq paid
    OBVIOUS
  <2>2. Evenings \in Nat /\ 1 .. Evenings \subseteq Nat
    BY ProgramAssumption
  <2> QED
    BY <2>1, <2>2 DEF Evening
<1>1. CASE near = {}
  <2>1. Offered = 0
    BY <1>1 DEF Offered
  <2> QED
    BY <1>0, <2>1
<1>2. CASE near # {}
  <2>1. PICK x \in near : \A y \in near : x <= y
    BY <1>0, <1>2, LeastNatural
  <2>2. Offered = CHOOSE e \in near : \A f \in near : e <= f
    BY <1>2 DEF Offered
  <2>3. Offered \in near
    <3> HIDE DEF near
    <3> QED
      BY <2>1, <2>2
  <2> QED
    BY <1>0, <2>3
<1> QED
  BY <1>1, <1>2

ProgTypes ==
    /\ clock \in 0 .. 2 * Evenings /\ paid \subseteq Evening /\ served \in BOOLEAN
    /\ slot \in [charge : BOOLEAN, export : BOOLEAN] /\ timed \in Currents /\ record \in 0 .. Evenings
    /\ applied \in [known : BOOLEAN, amps : Currents, export : 0 .. Evenings]
    /\ monitor \in MonitorRec /\ program \in {"optimise", "cancel", "write", "off"}
    /\ apply \in ApplyRec /\ programFaults \in 0 .. ProgramFaults
LEMMA ProgTypeParts == ProgTypeOK <=> ProgTypes
BY DEF ProgTypeOK, ProgTypes, MonitorRec, ApplyRec

\* An apply that begins.
LEMMA ApplyingTypes ==
  ASSUME NEW kind \in {"none", "plan", "recover", "fallback", "reapply", "handover"},
         NEW step \in {"idle", "due", "prepare", "current", "window", "finish"},
         NEW soc \in BOOLEAN
  PROVE  /\ Applying(kind, step, soc) \in ApplyRec
         /\ Applying(kind, step, soc).kind = kind /\ Applying(kind, step, soc).step = step
         /\ Applying(kind, step, soc).amps = FallbackA
<1>1. FallbackA \in Currents /\ 0 \in 0 .. Evenings
  BY ProgramAssumption DEF FallbackA, Currents
<1> QED
  BY <1>1 DEF Applying, ApplyRec
LEMMA NoApplyTypes ==
  NoApply \in ApplyRec /\ NoApply.kind = "none" /\ NoApply.step = "idle"
<1>1. FallbackA \in Currents /\ 0 \in 0 .. Evenings
  BY ProgramAssumption DEF FallbackA, Currents
<1> QED
  BY <1>1 DEF NoApply, Applying, ApplyRec
LEMMA NoPlanTypes == NoPlan \in [known : BOOLEAN, amps : Currents, export : 0 .. Evenings]
<1>1. 1 \in Currents /\ 0 \in 0 .. Evenings
  BY ProgramAssumption DEF Currents
<1> QED
  BY <1>1 DEF NoPlan

\* The monitor's observations.
LEMMA PassTypes ==
  ASSUME NEW m \in MonitorRec, NEW n \in RecordPass(m)
  PROVE  n \in MonitorRec /\ n.confirmed = m.confirmed /\ (InFallback(m) => n.status = m.status)
<1>1. CASE InFallback(m)
  <2>1. PICK r \in {"since", "ready"} : n = [m EXCEPT !.fresh = TRUE, !.recovery = r]
    BY <1>1 DEF RecordPass
  <2> QED
    BY <2>1 DEF MonitorRec
<1>2. CASE ~InFallback(m)
  <2>1. n = [m EXCEPT !.fresh = TRUE, !.failures = 0, !.status = IF m.failures > 0 THEN "normal" ELSE @]
    BY <1>2 DEF RecordPass
  <2>2. 0 \in 0 .. SocLimit
    BY ProgramAssumption
  <2> QED
    BY <1>2, <2>1, <2>2 DEF MonitorRec
<1> QED
  BY <1>1, <1>2

LEMMA FailureTypes ==
  ASSUME NEW m \in MonitorRec, NEW n \in RecordFailure(m)
  PROVE  n \in MonitorRec /\ n.confirmed = m.confirmed /\ (InFallback(m) => n.status = m.status)
<1> DEFINE count == IF m.failures < SocLimit THEN m.failures + 1 ELSE SocLimit
           status == IF InFallback(m) THEN m.status
                     ELSE IF count = SocLimit THEN "threshold" ELSE "pending"
<1>1. count \in 0 .. SocLimit
  BY ProgramAssumption DEF MonitorRec
<1>2. status \in {"normal", "pending", "threshold"} \union Fallbacks
        /\ (InFallback(m) => status = m.status)
  BY DEF MonitorRec
<1>3. n = [m EXCEPT !.fresh = TRUE, !.failures = count, !.recovery = "none", !.status = status]
  BY DEF RecordFailure
<1> QED
  <2> HIDE DEF count, status
  <2> QED
    BY <1>1, <1>2, <1>3 DEF MonitorRec

\* What completes and invalidates a fallback.
LEMMA CompletedTypes ==
  ASSUME NEW m \in MonitorRec, NEW ok \in BOOLEAN
  PROVE  /\ CompleteFallback(m, ok) \in MonitorRec /\ CompleteFallback(m, ok).confirmed = ok
         /\ ok => CompleteFallback(m, ok).status = "verified"
<1>1. CASE ok = TRUE
  BY <1>1 DEF CompleteFallback, MonitorRec, Fallbacks
<1>2. CASE ok = FALSE
  BY <1>2 DEF CompleteFallback, MonitorRec, Fallbacks
<1> QED
  BY <1>1, <1>2
LEMMA InvalidatedTypes ==
  ASSUME NEW m \in MonitorRec, m.confirmed => m.status = "verified"
  PROVE  InvalidateFallback(m) \in MonitorRec /\ ~InvalidateFallback(m).confirmed
BY DEF InvalidateFallback, MonitorRec
LEMMA RecoveredTypes ==
  ASSUME NEW m \in MonitorRec
  PROVE  CompleteRecovery(m) \in MonitorRec /\ ~CompleteRecovery(m).confirmed
<1>1. 0 \in 0 .. SocLimit
  BY ProgramAssumption
<1> QED
  BY <1>1 DEF CompleteRecovery, MonitorRec


-----------------------------------------------------------------------------
(* The charge program: a verified fallback is resident *)

\* What the fallback, or the owner's schedule, has come to when each write has been read back.
Written ==
    apply.kind \in {"fallback", "reapply", "handover"} =>
        /\ apply.amps = FallbackA
        /\ apply.step = "window" /\ apply.current => timed = FallbackA
        /\ apply.step = "finish" /\ apply.current /\ apply.window => slot.charge /\ timed = FallbackA
Resident == slot.charge /\ timed = FallbackA
ProgInv ==
    /\ ProgTypes /\ Written
    /\ apply.kind = "none" <=> apply.step \in {"idle", "due"}
    /\ monitor.confirmed => monitor.status = "verified"
    /\ monitor.confirmed => apply.kind \notin {"plan", "fallback", "reapply"}
    /\ monitor.confirmed /\ apply.kind \in {"none", "handover"} => Resident

\* The monitor, the program and the timed current, as the invariant has them.
LEMMA ProgFields ==
  ASSUME ProgInv
  PROVE  /\ apply \in ApplyRec /\ apply.amps \in Currents /\ apply.export \in 0 .. Evenings
         /\ apply.soc \in BOOLEAN /\ apply.ready \in BOOLEAN /\ apply.current \in BOOLEAN
         /\ apply.window \in BOOLEAN /\ apply.good \in BOOLEAN /\ apply.trusted \in BOOLEAN
         /\ slot \in [charge : BOOLEAN, export : BOOLEAN] /\ slot.charge \in BOOLEAN /\ slot.export \in BOOLEAN
         /\ monitor \in MonitorRec /\ monitor.confirmed \in BOOLEAN
BY DEF ProgInv, ProgTypes, ApplyRec, MonitorRec

\* A failure is counted.
LEMMA FailingTypes == ProgInv /\ Failing => programFaults' \in 0 .. ProgramFaults
BY ProgramAssumption DEF ProgInv, ProgTypes, Failing

\* A fallback that starts is not confirmed.
LEMMA FallbackBegins ==
  ASSUME ProgInv, NEW kind \in {"fallback", "reapply"}, NEW m \in MonitorRec, ~m.confirmed,
         NEW soc \in BOOLEAN, FallbackStarts(kind, m, soc),
         UNCHANGED <<clock, paid, slot, timed, record, applied, program>>, served' \in BOOLEAN
  PROVE  ProgInv'
<1>1. CASE /\ monitor' = m /\ UNCHANGED programFaults
           /\ apply' = [Applying(kind, "prepare", soc) EXCEPT !.ready = LiveExport /\ slot.export]
  <2>1. Applying(kind, "prepare", soc) \in ApplyRec /\ Applying(kind, "prepare", soc).kind = kind
        /\ Applying(kind, "prepare", soc).step = "prepare"
        /\ Applying(kind, "prepare", soc).amps = FallbackA
    BY ApplyingTypes
  <2>2. (LiveExport /\ slot.export) \in BOOLEAN
    BY DEF LiveExport
  <2>3. apply' \in ApplyRec /\ apply'.kind = kind /\ apply'.step = "prepare"
        /\ apply'.amps = FallbackA
    BY <1>1, <2>1, <2>2 DEF ApplyRec
  <2>4. Written'
    BY <2>3 DEF Written
  <2> QED
    BY <1>1, <2>3, <2>4 DEF ProgInv, ProgTypes
<1>2. CASE /\ Failing /\ monitor' = CompleteFallback(m, FALSE)
           /\ apply' = IF kind = "fallback" THEN Applying("none", "due", soc) ELSE NoApply
  <2>1. monitor' \in MonitorRec /\ ~monitor'.confirmed
    BY <1>2, CompletedTypes
  <2>2. apply' \in ApplyRec /\ apply'.kind = "none" /\ apply'.step \in {"idle", "due"}
    BY <1>2, ApplyingTypes, NoApplyTypes
  <2>3. Written'
    BY <2>2 DEF Written
  <2> QED
    BY <1>2, <2>1, <2>2, <2>3, FailingTypes DEF ProgInv, ProgTypes
<1> QED
  BY <1>1, <1>2 DEF FallbackStarts

\* A minute's observation.
LEMMA ObserveKeeps == ASSUME ProgInv, NEW ok \in BOOLEAN, Observe(ok) PROVE ProgInv'
<1>0. monitor \in MonitorRec /\ served \in BOOLEAN /\ apply = NoApply
  BY DEF ProgInv, ProgTypes, Observe
<1>1. PICK m \in (IF ok THEN RecordPass(monitor) ELSE RecordFailure(monitor)) :
        /\ served' = (served /\ m.status = monitor.status)
        /\ IF RequestsFallback(m) /\ program = "optimise"
           THEN FallbackStarts("fallback", [m EXCEPT !.status = "requested", !.confirmed = FALSE], ok)
           ELSE /\ monitor' = m /\ apply' = Applying("none", "due", ok) /\ UNCHANGED programFaults
  BY DEF Observe
<1>2. m \in MonitorRec /\ m.confirmed = monitor.confirmed
      /\ (InFallback(monitor) => m.status = monitor.status)
  BY <1>0, <1>1, PassTypes, FailureTypes
<1>3. served' \in BOOLEAN
  BY <1>0, <1>1
<1>4. CASE RequestsFallback(m) /\ program = "optimise"
  <2> DEFINE n == [m EXCEPT !.status = "requested", !.confirmed = FALSE]
  <2>1. n \in MonitorRec /\ ~n.confirmed
    BY <1>2 DEF MonitorRec, Fallbacks
  <2>2. FallbackStarts("fallback", n, ok)
    BY <1>1, <1>4
  <2> HIDE DEF n
  <2>3. UNCHANGED <<clock, paid, slot, timed, record, applied, program>>
    BY DEF Observe
  <2> QED
    BY <1>3, <2>1, <2>2, <2>3, FallbackBegins
<1>5. CASE ~(RequestsFallback(m) /\ program = "optimise")
  <2>1. monitor' = m /\ apply' = Applying("none", "due", ok)
        /\ UNCHANGED <<clock, paid, slot, timed, record, applied, program, programFaults>>
    BY <1>1, <1>5 DEF Observe
  <2>2. apply' \in ApplyRec /\ apply'.kind = "none" /\ apply'.step = "due"
    BY <2>1, ApplyingTypes
  <2>3. Written'
    BY <2>2 DEF Written
  <2>4. monitor.confirmed => InFallback(monitor)
    BY DEF ProgInv, InFallback, Fallbacks
  <2>5. monitor.confirmed => Resident
    BY <1>0, NoApplyTypes DEF ProgInv
  <2> QED
    BY <1>2, <1>3, <2>1, <2>2, <2>3, <2>4, <2>5 DEF ProgInv, ProgTypes, Resident
<1> QED
  BY <1>4, <1>5

\* A minute that is not a plan's.
LEMMA NotDueKeeps == ASSUME ProgInv, NotDue PROVE ProgInv'
<1>0. apply \in ApplyRec /\ apply.soc \in BOOLEAN /\ monitor \in MonitorRec /\ served \in BOOLEAN
  BY ProgFields DEF ProgInv, ProgTypes
<1>1. CASE apply' = NoApply /\ UNCHANGED <<monitor, programFaults>>
  <2>1. apply.kind = "none"
    BY DEF ProgInv, NotDue
  <2>2. Written'
    BY <1>1, NoApplyTypes DEF Written
  <2> QED
    BY <1>1, <2>1, <2>2, NoApplyTypes DEF ProgInv, ProgTypes, NotDue, timeVars, Resident
<1>2. CASE ~monitor.confirmed /\ FallbackStarts("reapply", monitor, apply.soc)
  <2>1. UNCHANGED <<clock, paid, served, slot, timed, record, applied, program>>
    BY DEF NotDue, timeVars
  <2> QED
    BY <1>0, <1>2, <2>1, FallbackBegins
<1> QED
  BY <1>1, <1>2 DEF NotDue

\* A plan that is skipped, refused or found unchanged.
LEMMA BaselineKeeps ==
  ASSUME ProgInv, NEW plan \in [known : BOOLEAN, amps : Currents, export : 0 .. Evenings],
         Baseline(plan), apply.step = "due", monitor' \in {monitor, CompleteRecovery(monitor)}
  PROVE  ProgInv'
<1>1. apply.kind = "none" /\ monitor \in MonitorRec
  BY DEF ProgInv, ProgTypes
<1>2. monitor' \in MonitorRec /\ (monitor'.confirmed => monitor' = monitor)
  BY <1>1, RecoveredTypes
<1>3. apply' = NoApply /\ served' = TRUE /\ applied' = plan
      /\ UNCHANGED <<clock, paid, slot, timed, record, program, programFaults>>
  BY DEF Baseline
<1>4. Written'
  BY <1>3, NoApplyTypes DEF Written
<1> QED
  BY <1>1, <1>2, <1>3, <1>4, NoApplyTypes DEF ProgInv, ProgTypes, Resident

LEMMA PlanSkipsKeep ==
  ASSUME ProgInv, NEW a \in Currents, PlanUnchanged(a) \/ PlanPreserves(a) \/ PlanRefused
  PROVE  ProgInv'
<1>1. CASE PlanUnchanged(a)
  BY <1>1, BaselineKeeps DEF PlanUnchanged, PlanDue, ProgInv, ProgTypes
<1>2. CASE PlanPreserves(a)
  <2>1. [known |-> TRUE, amps |-> a, export |-> 0] \in [known : BOOLEAN, amps : Currents, export : 0 .. Evenings]
    BY ProgramAssumption
  <2> QED
    BY <1>2, <2>1, BaselineKeeps DEF PlanPreserves, PlanDue
<1>3. CASE PlanRefused
  BY <1>3, NoPlanTypes, BaselineKeeps DEF PlanRefused, PlanDue
<1> QED
  BY <1>1, <1>2, <1>3

\* A plan is written only while no fallback is in force, or to recover from it.
LEMMA PlanAppliesKeeps ==
  ASSUME ProgInv, NEW a \in Currents, NEW trusted \in BOOLEAN, PlanApplies(a, trusted)
  PROVE  ProgInv'
<1> DEFINE e     == IF trusted THEN Offered ELSE 0
           early == e # 0 /\ ExportNotYetArmed(e)
           kind  == IF Recovering THEN "recover" ELSE "plan"
           step  == IF early /\ record = e /\ slot.export THEN "finish" ELSE "prepare"
           new   == Applying(kind, step, TRUE)
<1>1. e \in 0 .. Evenings
  BY OfferedEvening, ProgramAssumption DEF ProgInv, ProgTypes
<1>2. PICK ready \in BOOLEAN :
        apply' = [new EXCEPT !.trusted = trusted, !.amps = a, !.export = e, !.ready = ready,
                             !.good = (e = 0 \/ ready)]
  <2>1. \E ready \in Admits(e, early) :
          apply' = [new EXCEPT !.trusted = trusted, !.amps = a, !.export = e, !.ready = ready,
                               !.good = (e = 0 \/ ready)]
    BY DEF PlanApplies
  <2>2. Admits(e, early) \subseteq BOOLEAN
    BY DEF Admits
  <2> HIDE DEF e, early, new
  <2> QED
    BY <2>1, <2>2
<1>3. new \in ApplyRec /\ new.kind = kind /\ new.step = step
  <2>1. kind \in {"none", "plan", "recover", "fallback", "reapply", "handover"}
        /\ step \in {"idle", "due", "prepare", "current", "window", "finish"}
    OBVIOUS
  <2> HIDE DEF kind, step
  <2>2. FallbackA \in Currents /\ 0 \in 0 .. Evenings
    BY ProgramAssumption DEF FallbackA, Currents
  <2> QED
    BY <2>1, <2>2 DEF Applying, ApplyRec
<1>4. (e = 0 \/ ready) \in BOOLEAN
  OBVIOUS
<1>5. apply' \in ApplyRec /\ apply'.kind = kind /\ apply'.step = step
  <2> HIDE DEF e, kind, step, new
  <2> QED
    BY <1>1, <1>2, <1>3, <1>4 DEF ApplyRec
<1>6. UNCHANGED <<clock, paid, served, slot, timed, record, applied, monitor, program, programFaults>>
      /\ ~Held /\ apply.step = "due"
  BY DEF PlanApplies, timeVars, PlanDue
<1>7. monitor.confirmed => kind = "recover"
  <2>1. monitor.confirmed => InFallback(monitor)
    BY DEF ProgInv, InFallback, Fallbacks
  <2> QED
    BY <1>6, <2>1 DEF Held
<1>8. kind \in {"plan", "recover"} /\ step \in {"finish", "prepare"}
  OBVIOUS
<1> HIDE DEF kind, step
<1>9. Written'
  BY <1>5, <1>8 DEF Written
<1> QED
  BY <1>5, <1>6, <1>7, <1>8, <1>9 DEF ProgInv, ProgTypes, Resident

\* The writes of an apply.
LEMMA PrepareKeeps == ASSUME ProgInv, Prepare PROVE ProgInv'
<1> DEFINE active == (slot.charge \/ slot.export) /\ timed # apply.amps
<1>1. HalfZeroed \in [charge : BOOLEAN, export : BOOLEAN]
  BY ProgFields DEF HalfZeroed
<1>2. /\ slot' \in {slot} \union (IF active THEN {HalfZeroed} ELSE {})
      /\ UNCHANGED <<clock, paid, served, timed, record, applied, monitor, program>>
      /\ apply.step = "prepare" /\ programFaults' \in 0 .. ProgramFaults
      /\ \/ apply' = [apply EXCEPT !.step = "current"]
         \/ apply' = [apply EXCEPT !.step = "window", !.current = FALSE, !.good = FALSE]
  BY FailingTypes DEF Prepare, timeVars, ProgInv, ProgTypes
<1>3. slot' \in [charge : BOOLEAN, export : BOOLEAN] /\ (timed = apply.amps => slot' = slot)
  BY <1>1, <1>2, ProgFields
<1>4. apply' \in ApplyRec /\ apply'.kind = apply.kind /\ apply'.amps = apply.amps
      /\ apply'.step \in {"current", "window"} /\ (apply'.step = "window" => ~apply'.current)
  <2>1. CASE apply' = [apply EXCEPT !.step = "current"]
    BY <2>1, ProgFields DEF ApplyRec
  <2>2. CASE apply' = [apply EXCEPT !.step = "window", !.current = FALSE, !.good = FALSE]
    BY <2>2, ProgFields DEF ApplyRec
  <2> QED
    BY <1>2, <2>1, <2>2
<1> HIDE DEF active
<1>5. Written'
  BY <1>4 DEF Written, ProgInv
<1>6. monitor.confirmed /\ apply.kind \in {"none", "handover"} => slot' = slot
  BY <1>2, <1>3 DEF ProgInv, Written, Resident
<1> QED
  BY <1>2, <1>3, <1>4, <1>5, <1>6 DEF ProgInv, ProgTypes, Resident

LEMMA SetCurrentKeeps == ASSUME ProgInv, SetCurrent PROVE ProgInv'
<1>1. /\ timed' \in {timed, apply.amps} /\ apply.step = "current"
      /\ UNCHANGED <<clock, paid, served, slot, record, applied, monitor, program>>
      /\ programFaults' \in 0 .. ProgramFaults
      /\ \/ timed' = apply.amps /\ apply' = [apply EXCEPT !.step = "window"]
         \/ apply' = [apply EXCEPT !.step = "window", !.current = FALSE, !.good = FALSE]
  BY FailingTypes DEF SetCurrent, timeVars, ProgInv, ProgTypes
<1>2. apply' \in ApplyRec /\ apply'.kind = apply.kind /\ apply'.amps = apply.amps
      /\ apply'.step = "window" /\ (apply'.current => timed' = apply.amps)
  <2>1. CASE timed' = apply.amps /\ apply' = [apply EXCEPT !.step = "window"]
    BY <2>1, ProgFields DEF ApplyRec
  <2>2. CASE apply' = [apply EXCEPT !.step = "window", !.current = FALSE, !.good = FALSE]
    BY <2>2, ProgFields DEF ApplyRec
  <2> QED
    BY <1>1, <2>1, <2>2
<1>3. timed' \in Currents
  BY <1>1, ProgFields DEF ProgInv, ProgTypes
<1>4. Written'
  BY <1>2 DEF Written, ProgInv
<1>5. monitor.confirmed /\ apply.kind \in {"none", "handover"} => timed' = timed
  BY <1>1 DEF ProgInv, Written, Resident
<1> QED
  BY <1>1, <1>2, <1>3, <1>4, <1>5 DEF ProgInv, ProgTypes, Resident

LEMMA WriteWindowKeeps == ASSUME ProgInv, WriteWindow PROVE ProgInv'
<1> DEFINE half    == [charge |-> apply.current \/ slot.charge, export |-> apply.ready]
           blocked == ~apply.current /\ ~apply.ready /\ ~slot.export
<1>1. half \in [charge : BOOLEAN, export : BOOLEAN] /\ (slot.charge => half.charge)
      /\ (apply.current => half.charge /\ ~blocked) /\ blocked \in BOOLEAN
  BY ProgFields
<1>2. /\ slot' \in {slot, half} /\ apply.step = "window"
      /\ UNCHANGED <<clock, paid, served, timed, record, applied, monitor, program>>
      /\ programFaults' \in 0 .. ProgramFaults
      /\ \/ slot' = (IF blocked THEN slot ELSE half)
            /\ apply' = [apply EXCEPT !.step = "finish", !.window = ~blocked]
         \/ apply' = [apply EXCEPT !.step = "finish", !.window = FALSE, !.good = FALSE]
  BY FailingTypes DEF WriteWindow, timeVars, ProgInv, ProgTypes
<1> HIDE DEF half, blocked
<1>3. apply' \in ApplyRec /\ apply'.kind = apply.kind /\ apply'.amps = apply.amps
      /\ apply'.step = "finish" /\ apply'.current = apply.current
      /\ (apply'.current /\ apply'.window => slot'.charge)
  <2>1. CASE /\ slot' = (IF blocked THEN slot ELSE half)
             /\ apply' = [apply EXCEPT !.step = "finish", !.window = ~blocked]
    BY <1>1, <2>1, ProgFields DEF ApplyRec
  <2>2. CASE apply' = [apply EXCEPT !.step = "finish", !.window = FALSE, !.good = FALSE]
    BY <2>2, ProgFields DEF ApplyRec
  <2> QED
    BY <1>2, <2>1, <2>2
<1>4. slot' \in [charge : BOOLEAN, export : BOOLEAN] /\ (slot.charge => slot'.charge)
  BY <1>1, <1>2, ProgFields
<1>5. Written'
  BY <1>2, <1>3 DEF Written, ProgInv
<1> QED
  BY <1>2, <1>3, <1>4, <1>5 DEF ProgInv, ProgTypes, Resident

\* The end of a plan or a recovery.
LEMMA FinishPlanKeeps == ASSUME ProgInv, FinishPlan PROVE ProgInv'
<1>1. record' \in 0 .. Evenings /\ programFaults' \in 0 .. ProgramFaults
  BY FailingTypes, ProgFields DEF FinishPlan, Persisted, ProgInv, ProgTypes
<1>2. applied' \in [known : BOOLEAN, amps : Currents, export : 0 .. Evenings]
  <2>1. CASE Verified
    BY <2>1, ProgFields DEF FinishPlan
  <2>2. CASE ~Verified
    BY <2>2, NoPlanTypes DEF FinishPlan
  <2> QED
    BY <2>1, <2>2
<1>3. served' \in BOOLEAN
  BY ProgFields DEF FinishPlan, Verified
<1>4. UNCHANGED <<clock, paid, slot, timed, program>> /\ apply.kind \in {"plan", "recover"}
      /\ apply.step = "finish"
  BY DEF FinishPlan
<1>5. CASE apply.kind = "recover" /\ Verified
  <2>1. monitor' = CompleteRecovery(monitor) /\ apply' = NoApply
    BY <1>5 DEF FinishPlan
  <2>2. monitor' \in MonitorRec /\ ~monitor'.confirmed
    BY <2>1, RecoveredTypes, ProgFields
  <2>3. Written'
    BY <2>1, NoApplyTypes DEF Written
  <2> QED
    BY <1>1, <1>2, <1>3, <1>4, <2>1, <2>2, <2>3, NoApplyTypes DEF ProgInv, ProgTypes
<1>6. CASE apply.kind = "recover" /\ ~Verified
  <2> DEFINE new == Applying("reapply", "prepare", TRUE)
  <2>1. monitor' = InvalidateFallback(monitor)
        /\ apply' = [new EXCEPT !.ready = record' # 0 /\ ~Over(record') /\ slot.export]
    BY <1>6 DEF FinishPlan
  <2>2. monitor' \in MonitorRec /\ ~monitor'.confirmed
    BY <2>1, InvalidatedTypes, ProgFields DEF ProgInv
  <2>3. new \in ApplyRec /\ new.kind = "reapply" /\ new.step = "prepare" /\ new.amps = FallbackA
    <3>1. FallbackA \in Currents /\ 0 \in 0 .. Evenings
      BY ProgramAssumption DEF FallbackA, Currents
    <3> QED
      BY <3>1 DEF Applying, ApplyRec
  <2>4. (record' # 0 /\ ~Over(record') /\ slot.export) \in BOOLEAN
    OBVIOUS
  <2> HIDE DEF new
  <2>5. apply' \in ApplyRec /\ apply'.kind = "reapply" /\ apply'.step = "prepare"
        /\ apply'.amps = FallbackA
    BY <2>1, <2>3, <2>4 DEF ApplyRec
  <2>6. Written'
    BY <2>5 DEF Written
  <2> QED
    BY <1>1, <1>2, <1>3, <1>4, <2>2, <2>5, <2>6 DEF ProgInv, ProgTypes
<1>7. CASE apply.kind # "recover"
  <2>1. UNCHANGED monitor /\ apply' = NoApply
    BY <1>7 DEF FinishPlan
  <2>2. ~monitor.confirmed
    BY <1>4, <1>7 DEF ProgInv
  <2>3. Written'
    BY <2>1, NoApplyTypes DEF Written
  <2> QED
    BY <1>1, <1>2, <1>3, <1>4, <2>1, <2>2, <2>3, NoApplyTypes DEF ProgInv, ProgTypes
<1> QED
  BY <1>5, <1>6, <1>7

\* A fallback is confirmed when every part of it was read back.
LEMMA FinishFallbackKeeps == ASSUME ProgInv, FinishFallback PROVE ProgInv'
<1>1. /\ apply.step = "finish" /\ apply.kind \in {"fallback", "reapply"}
      /\ monitor' = CompleteFallback(monitor, Verified)
      /\ UNCHANGED <<clock, paid, served, slot, timed, record, applied, program, programFaults>>
  BY DEF FinishFallback, timeVars
<1>2. Verified \in BOOLEAN /\ (Verified => Resident)
  BY <1>1, ProgFields DEF Verified, ProgInv, Written, Resident
<1>3. monitor' \in MonitorRec /\ monitor'.confirmed = Verified
      /\ (Verified => monitor'.status = "verified")
  BY <1>1, <1>2, CompletedTypes, ProgFields
<1>4. apply' \in ApplyRec /\ apply'.kind = "none" /\ apply'.step \in {"idle", "due"}
  BY NoApplyTypes, ApplyingTypes, ProgFields DEF FinishFallback
<1>5. Written'
  BY <1>4 DEF Written
<1> QED
  BY <1>1, <1>2, <1>3, <1>4, <1>5 DEF ProgInv, ProgTypes, Resident

\* Back to rest with the monitor, the charge half and the current as they are.
LEMMA RestKeeps ==
  ASSUME ProgInv, apply' = NoApply, apply.kind \in {"none", "handover"},
         clock' \in 0 .. 2 * Evenings, paid' \subseteq Evening, served' \in BOOLEAN,
         slot' \in [charge : BOOLEAN, export : BOOLEAN], slot'.charge = slot.charge, timed' = timed,
         record' \in 0 .. Evenings,
         applied' \in [known : BOOLEAN, amps : Currents, export : 0 .. Evenings],
         monitor' \in MonitorRec, monitor'.confirmed => monitor' = monitor,
         program' \in {"optimise", "cancel", "write", "off"}, programFaults' \in 0 .. ProgramFaults
  PROVE  ProgInv'
<1>1. Written'
  BY NoApplyTypes DEF Written
<1> QED
  BY <1>1, NoApplyTypes DEF ProgInv, ProgTypes, Resident

\* The handover, and back.
LEMMA HandoverKeeps ==
  ASSUME ProgInv, \/ LeaveOptimise \/ CancelExport \/ FinishHandover
                  \/ EnterOptimise \/ PreviewRecovers
  PROVE  ProgInv'
<1>1. CASE LeaveOptimise
  BY <1>1, RestKeeps, NoApplyTypes DEF LeaveOptimise, ProgInv, ProgTypes
<1>2. CASE CancelExport
  <2>1. apply.kind = "none" /\ UNCHANGED <<clock, paid, served, timed, applied, monitor>>
        /\ apply' = NoApply
    BY <1>2 DEF CancelExport, ProgInv, timeVars
  <2>2. slot' \in {slot, [slot EXCEPT !.export = FALSE]} /\ record' \in {0, record}
        /\ program' \in {"write", program} /\ programFaults' \in 0 .. ProgramFaults
    BY <1>2, FailingTypes DEF CancelExport, ProgInv, ProgTypes
  <2>3. slot' \in [charge : BOOLEAN, export : BOOLEAN] /\ slot'.charge = slot.charge
        /\ record' \in 0 .. Evenings
    <3>1. slot' \in [charge : BOOLEAN, export : BOOLEAN] /\ slot'.charge = slot.charge
      BY <2>2, ProgFields
    <3>2. record' \in 0 .. Evenings
      BY <2>2, ProgramAssumption DEF ProgInv, ProgTypes
    <3> QED
      BY <3>1, <3>2
  <2>4. program' \in {"optimise", "cancel", "write", "off"} /\ monitor' = monitor
    BY <2>1, <2>2 DEF ProgInv, ProgTypes
  <2> QED
    BY <2>1, <2>2, <2>3, <2>4, RestKeeps DEF ProgInv, ProgTypes
<1>3. CASE FinishHandover
  <2>1. apply.kind = "handover" /\ apply' = NoApply /\ Verified \in BOOLEAN
        /\ program' \in {"off", program} /\ served' = Verified
        /\ UNCHANGED <<clock, paid, slot, timed, record, applied, monitor, programFaults>>
    BY <1>3, ProgFields DEF FinishHandover, Verified
  <2> QED
    BY <2>1, RestKeeps DEF ProgInv, ProgTypes
<1>4. CASE EnterOptimise
  <2>1. apply.kind = "none" /\ apply' = NoApply /\ program' = "optimise" /\ applied' = NoPlan
        /\ served' = FALSE /\ UNCHANGED <<clock, paid, slot, timed, record, monitor, programFaults>>
    BY <1>4 DEF EnterOptimise, ProgInv
  <2>2. "optimise" \in {"optimise", "cancel", "write", "off"} /\ FALSE \in BOOLEAN
        /\ monitor' = monitor /\ monitor \in MonitorRec
    BY <2>1, ProgFields
  <2> QED
    BY <2>1, <2>2, NoPlanTypes, RestKeeps DEF ProgInv, ProgTypes
<1>5. CASE PreviewRecovers
  <2>1. apply.kind = "none" /\ apply' = NoApply /\ monitor' = CompleteRecovery(monitor)
        /\ UNCHANGED <<clock, paid, served, slot, timed, record, applied, program, programFaults>>
    BY <1>5 DEF PreviewRecovers, ProgInv, timeVars
  <2> QED
    BY <2>1, RecoveredTypes, RestKeeps DEF ProgInv, ProgTypes
<1> QED
  BY <1>1, <1>2, <1>3, <1>4, <1>5

LEMMA WriteFallbackKeeps == ASSUME ProgInv, WriteFallback PROVE ProgInv'
<1>1. apply.step = "due" /\ apply.kind = "none" /\ apply.soc \in BOOLEAN
      /\ apply' = Applying("handover", "prepare", apply.soc)
      /\ UNCHANGED <<clock, paid, served, slot, timed, record, applied, monitor, program,
                     programFaults>>
  BY ProgFields DEF WriteFallback, ProgInv, timeVars
<1>2. apply' \in ApplyRec /\ apply'.kind = "handover" /\ apply'.step = "prepare"
      /\ apply'.amps = FallbackA
  BY <1>1, ApplyingTypes
<1>3. Written'
  BY <1>2 DEF Written
<1> QED
  BY <1>1, <1>2, <1>3 DEF ProgInv, ProgTypes, Resident

\* The clock, cancelled events, shutdown and restart.
LEMMA OutsideKeeps ==
  ASSUME ProgInv, NextPhase \/ (\E e \in Evening : Cancelled(e)) \/ Shutdown \/ ProgRestart
  PROVE  ProgInv'
<1>1. CASE NextPhase
  <2>1. clock' \in 0 .. 2 * Evenings
    BY <1>1, ProgramAssumption DEF NextPhase, ProgInv, ProgTypes
  <2>2. apply.kind = "none" /\ apply' = NoApply /\ served' \in BOOLEAN
        /\ UNCHANGED <<paid, slot, timed, record, applied, monitor, program, programFaults>>
    BY <1>1, NoApplyTypes DEF NextPhase
  <2> QED
    BY <2>1, <2>2, RestKeeps DEF ProgInv, ProgTypes
<1>2. ASSUME NEW e \in Evening, Cancelled(e) PROVE ProgInv'
  BY <1>2, FailingTypes, RestKeeps, NoApplyTypes DEF Cancelled, ProgInv, ProgTypes
<1>3. CASE Shutdown \/ ProgRestart
  <2>1. Failing /\ Restarted /\ slot' \in [charge : BOOLEAN, export : BOOLEAN]
    <3>1. Failing /\ Restarted /\ (slot' = slot \/ slot' = [charge |-> TRUE, export |-> slot.export /\ LiveExport])
      BY <1>3 DEF Shutdown, ProgRestart
    <3>2. ASSUME NEW k \in BOOLEAN PROVE [charge |-> TRUE, export |-> k] \in [charge : BOOLEAN, export : BOOLEAN]
      OBVIOUS
    <3>3. (slot.export /\ LiveExport) \in BOOLEAN
      OBVIOUS
    <3>4. [charge |-> TRUE, export |-> slot.export /\ LiveExport] \in [charge : BOOLEAN, export : BOOLEAN]
      BY <3>2, <3>3, Zenon
    <3> QED
      BY <3>1, <3>4, ProgFields
  <2>2. monitor' = [monitor EXCEPT !.confirmed = FALSE, !.recovery = "none",
                                   !.fresh = monitor.status = "normal"]
        /\ applied' = NoPlan /\ served' = FALSE /\ apply' = NoApply
        /\ UNCHANGED <<clock, paid, timed, record, program>>
    BY <2>1 DEF Restarted
  <2>3. monitor' \in MonitorRec /\ ~monitor'.confirmed
    BY <2>2, ProgFields DEF MonitorRec
  <2>4. Written'
    BY <2>2, NoApplyTypes DEF Written
  <2>5. programFaults' \in 0 .. ProgramFaults
    BY <2>1, FailingTypes
  <2> QED
    BY <2>1, <2>2, <2>3, <2>4, <2>5, NoPlanTypes, NoApplyTypes DEF ProgInv, ProgTypes
<1> QED
  BY <1>1, <1>2, <1>3

\* Every step.
LEMMA ProgStep == ProgInv /\ [ProgNext]_programVars => ProgInv'
<1> SUFFICES ASSUME ProgInv, [ProgNext]_programVars PROVE ProgInv'
  OBVIOUS
<1>1. CASE UNCHANGED programVars
  BY <1>1 DEF programVars, ProgInv, ProgTypes, Written, Resident
<1>2. ASSUME NEW a \in Currents, NEW trusted \in BOOLEAN,
             PlanUnchanged(a) \/ PlanPreserves(a) \/ PlanApplies(a, trusted)
      PROVE  ProgInv'
  BY <1>2, PlanSkipsKeep, PlanAppliesKeeps
<1>3. CASE PlanRefused
  <2>1. 1 \in Currents
    BY DEF Currents
  <2> QED
    BY <1>3, <2>1, PlanSkipsKeep
<1>4. ASSUME NEW ok \in BOOLEAN, Observe(ok) PROVE ProgInv'
  BY <1>4, ObserveKeeps
<1>5. CASE NotDue \/ Prepare \/ SetCurrent \/ WriteWindow \/ FinishPlan \/ FinishFallback
  BY <1>5, NotDueKeeps, PrepareKeeps, SetCurrentKeeps, WriteWindowKeeps, FinishPlanKeeps,
     FinishFallbackKeeps
<1>6. CASE LeaveOptimise \/ CancelExport \/ WriteFallback \/ FinishHandover \/ EnterOptimise
           \/ PreviewRecovers
  BY <1>6, HandoverKeeps, WriteFallbackKeeps
<1>7. CASE NextPhase \/ (\E e \in Evening : Cancelled(e)) \/ Shutdown \/ ProgRestart
  BY <1>7, OutsideKeeps
<1> QED
  BY <1>1, <1>2, <1>3, <1>4, <1>5, <1>6, <1>7 DEF ProgNext

LEMMA ProgStarts == ProgInit => ProgInv
<1> SUFFICES ASSUME ProgInit PROVE ProgInv
  OBVIOUS
<1>1. 0 \in 0 .. 2 * Evenings /\ 0 \in 0 .. Evenings /\ 2 \in Currents /\ 0 \in 0 .. SocLimit
      /\ ProgramFaults \in 0 .. ProgramFaults
  BY ProgramAssumption DEF Currents
<1>2. monitor \in MonitorRec /\ ~monitor.confirmed
  BY <1>1 DEF ProgInit, MonitorRec
<1>3. Written
  BY NoApplyTypes DEF ProgInit, Written
<1> QED
  BY <1>1, <1>2, <1>3, NoApplyTypes, NoPlanTypes DEF ProgInit, ProgInv, ProgTypes

\* The charge program keeps its types.
THEOREM ProgTypeCorrect == ProgSpec => []ProgTypeOK
<1>1. ProgInv => ProgTypeOK
  BY ProgTypeParts DEF ProgInv
<1> QED
  BY <1>1, ProgStarts, ProgStep, PTL DEF ProgSpec

\* A fallback that is called verified is what the inverter runs, through failed recoveries,
\* handovers and restarts.
THEOREM VerifiedIsResident == ProgSpec => []FallbackResident
<1>1. ProgInv => FallbackResident
  BY NoApplyTypes DEF ProgInv, FallbackResident, Resident
<1> QED
  BY <1>1, ProgStarts, ProgStep, PTL DEF ProgSpec

-----------------------------------------------------------------------------
(* The charge program: what discharges is paid for *)

\* Evening e has a paid event that opens in this phase or the next.
Opening(e) == e \in paid /\ clock + 2 >= 2 * e /\ clock < 2 * e

\* A served phase has the plan for what opens on the device, or one without an export; where
\* the program is not the plans', the half is off.
ServedFires ==
    /\ program \in {"write", "off"} => ~slot.export
    /\ served => program \in {"optimise", "off"}
    /\ served /\ program = "optimise" /\ monitor.status = "normal" =>
           applied.known /\ (applied.export = 0 \/ Opening(applied.export))
\* A tick goes on from its observation.
TickFires ==
    /\ apply.step # "idle" => monitor.fresh
    /\ apply.step = "due" /\ ~apply.soc => monitor.status # "normal"
\* An apply arms the half for what opens only, and keeps the one of a live record unless it is
\* a trusted plan's or the owner's.
ApplyFires ==
    /\ apply.kind = "handover" => program = "write" /\ ~apply.ready
    /\ apply.kind \in {"fallback", "reapply"} =>
           program = "optimise" /\ (apply.ready <=> LiveExport /\ slot.export)
    /\ apply.kind \in {"plan", "recover"} =>
           /\ program = "optimise" /\ (~apply.trusted => ~LiveExport)
           /\ apply.ready => Opening(apply.export)
           /\ apply.good => apply.export = 0 \/ apply.ready
FireInv == ServedFires /\ TickFires /\ ApplyFires

\* The last half-hours before an odd phase ends.
LEMMA OddPhase ==
  ASSUME NEW c \in Nat, NEW e \in Nat, c % 2 = 1, c + 2 >= 2 * e, c <= 2 * e
  PROVE  (c + 1) \div 2 = e
<1>1. c # 2 * e /\ c + 2 # 2 * e
  OBVIOUS
<1>2. c + 1 = 2 * e
  BY <1>1
<1> QED
  BY <1>2

LEMMA EveningFacts == /\ Evenings \in Nat /\ Evening \subseteq Nat /\ 0 \notin Evening
                      /\ (ProgInv => clock \in Nat /\ paid \subseteq Evening)
<1>1. Evenings \in Nat
  BY ProgramAssumption
<1>2. ProgInv => clock \in 0 .. 2 * Evenings /\ paid \subseteq Evening
  BY DEF ProgInv, ProgTypes
<1> QED
  BY <1>1, <1>2 DEF Evening

\* What is offered is a paid event that is not over.
LEMMA OfferedPaid ==
  ASSUME ProgInv, Offered # 0 PROVE Offered \in paid /\ ~Over(Offered)
<1> DEFINE near == {e \in paid : ~Over(e) /\ clock + 4 >= 2 * e}
<1>1. near # {} /\ Offered = CHOOSE e \in near : \A f \in near : e <= f
  BY DEF Offered
<1>2. near \subseteq Nat
  <2>1. near \subseteq paid
    OBVIOUS
  <2> QED
    BY <2>1, EveningFacts
<1>3. PICK x \in near : \A y \in near : x <= y
  BY <1>1, <1>2, LeastNatural
<1>4. Offered \in near
  <2> HIDE DEF near
  <2> QED
    BY <1>1, <1>3
<1> QED
  BY <1>4

\* Nothing under way.
LEMMA NoApplyFires == apply' = NoApply => TickFires' /\ ApplyFires'
BY NoApplyTypes DEF TickFires, ApplyFires

LEMMA ObservedFires ==
  ASSUME NEW m \in MonitorRec
  PROVE  /\ \A n \in RecordPass(m) : n.fresh
         /\ \A n \in RecordFailure(m) : n.fresh /\ n.status # "normal"
<1>1. \A n \in RecordPass(m) : n.fresh
  <2>1. CASE InFallback(m)
    BY <2>1 DEF RecordPass, MonitorRec
  <2>2. CASE ~InFallback(m)
    BY <2>2 DEF RecordPass, MonitorRec
  <2> QED
    BY <2>1, <2>2
<1>2. \A n \in RecordFailure(m) : n.fresh /\ n.status # "normal"
  <2> DEFINE count == IF m.failures < SocLimit THEN m.failures + 1 ELSE SocLimit
             status == IF InFallback(m) THEN m.status
                       ELSE IF count = SocLimit THEN "threshold" ELSE "pending"
  <2>1. status # "normal"
    BY DEF InFallback, Fallbacks
  <2>2. \A n \in RecordFailure(m) :
          n = [m EXCEPT !.fresh = TRUE, !.failures = count, !.recovery = "none", !.status = status]
    BY DEF RecordFailure
  <2> HIDE DEF count, status
  <2> QED
    BY <2>1, <2>2 DEF MonitorRec
<1> QED
  BY <1>1, <1>2

\* A fallback keeps the half of a live record, whatever it goes on to write.
LEMMA FallbackFires ==
  ASSUME ProgInv, NEW kind \in {"fallback", "reapply"}, NEW m \in MonitorRec,
         m.status \in Fallbacks, m.fresh, NEW soc \in BOOLEAN, FallbackStarts(kind, m, soc),
         program = "optimise", UNCHANGED <<clock, paid, slot, timed, record, applied, program>>
  PROVE  TickFires' /\ ApplyFires' /\ monitor'.status # "normal"
<1>0. LiveExport' = LiveExport /\ program' = "optimise" /\ slot' = slot
  BY DEF LiveExport, Over
<1>1. CASE /\ monitor' = m
           /\ apply' = [Applying(kind, "prepare", soc) EXCEPT !.ready = LiveExport /\ slot.export]
  <2>1. Applying(kind, "prepare", soc) \in ApplyRec /\ Applying(kind, "prepare", soc).kind = kind
        /\ Applying(kind, "prepare", soc).step = "prepare"
    BY ApplyingTypes
  <2>2. apply'.kind = kind /\ apply'.step = "prepare" /\ apply'.ready = (LiveExport /\ slot.export)
    BY <1>1, <2>1 DEF ApplyRec
  <2>3. TickFires'
    BY <1>1, <2>2 DEF TickFires
  <2>4. ApplyFires'
    BY <1>0, <2>2 DEF ApplyFires
  <2> QED
    BY <1>1, <2>3, <2>4 DEF Fallbacks
<1>2. CASE /\ monitor' = CompleteFallback(m, FALSE)
           /\ apply' = IF kind = "fallback" THEN Applying("none", "due", soc) ELSE NoApply
  <2>1. monitor'.status = "failed" /\ monitor'.fresh
    BY <1>2 DEF CompleteFallback, MonitorRec
  <2>2. apply'.kind = "none"
    BY <1>2, ApplyingTypes, NoApplyTypes
  <2> QED
    BY <2>1, <2>2 DEF TickFires, ApplyFires
<1> QED
  BY <1>1, <1>2 DEF FallbackStarts

LEMMA ObserveFires ==
  ASSUME ProgInv, FireInv, NEW ok \in BOOLEAN, Observe(ok) PROVE FireInv'
<1>0. monitor \in MonitorRec
  BY ProgFields
<1>1. PICK m \in (IF ok THEN RecordPass(monitor) ELSE RecordFailure(monitor)) :
        /\ served' = (served /\ m.status = monitor.status)
        /\ IF RequestsFallback(m) /\ program = "optimise"
           THEN FallbackStarts("fallback", [m EXCEPT !.status = "requested", !.confirmed = FALSE], ok)
           ELSE /\ monitor' = m /\ apply' = Applying("none", "due", ok) /\ UNCHANGED programFaults
  BY DEF Observe
<1>2. m \in MonitorRec
  BY <1>0, <1>1, PassTypes, FailureTypes
<1>3. m.fresh /\ (~ok => m.status # "normal")
  BY <1>0, <1>1, ObservedFires
<1>4. /\ UNCHANGED <<clock, paid, slot, timed, record, applied, program>>
      /\ (served' => served /\ m.status = monitor.status)
  BY <1>1 DEF Observe
<1>5. CASE RequestsFallback(m) /\ program = "optimise"
  <2> DEFINE n == [m EXCEPT !.status = "requested", !.confirmed = FALSE]
  <2>1. n \in MonitorRec /\ n.status \in Fallbacks /\ n.fresh
    BY <1>2, <1>3 DEF MonitorRec, Fallbacks
  <2>2. FallbackStarts("fallback", n, ok)
    BY <1>1, <1>5
  <2> HIDE DEF n
  <2>3. TickFires' /\ ApplyFires' /\ monitor'.status # "normal"
    BY <1>4, <1>5, <2>1, <2>2, FallbackFires
  <2>4. ServedFires'
    BY <1>4, <2>3 DEF FireInv, ServedFires
  <2> QED
    BY <2>3, <2>4 DEF FireInv
<1>6. CASE ~(RequestsFallback(m) /\ program = "optimise")
  <2>1. monitor' = m /\ apply' = Applying("none", "due", ok)
    BY <1>1, <1>6
  <2>2. apply'.kind = "none" /\ apply'.step = "due" /\ apply'.soc = ok
    BY <2>1, ApplyingTypes DEF Applying
  <2>3. ServedFires'
    BY <1>4, <2>1 DEF FireInv, ServedFires, Opening
  <2> QED
    BY <1>3, <2>1, <2>2, <2>3 DEF FireInv, TickFires, ApplyFires
<1> QED
  BY <1>5, <1>6

LEMMA NotDueFires == ASSUME ProgInv, FireInv, NotDue PROVE FireInv'
<1>1. UNCHANGED <<clock, paid, served, slot, timed, record, applied, program>>
      /\ apply.step = "due"
  BY DEF NotDue, timeVars
<1>2. CASE apply' = NoApply /\ UNCHANGED monitor
  BY <1>1, <1>2, NoApplyFires DEF FireInv, ServedFires, Opening
<1>3. CASE PlanDue /\ Recovering /\ FallbackStarts("reapply", monitor, apply.soc)
  <2>1. monitor \in MonitorRec /\ apply.soc \in BOOLEAN
    BY ProgFields
  <2>2. monitor.status \in Fallbacks /\ program = "optimise" /\ monitor.fresh
    BY <1>1, <1>3 DEF Recovering, InFallback, PlanDue, FireInv, TickFires
  <2>3. TickFires' /\ ApplyFires' /\ monitor'.status # "normal"
    BY <1>1, <1>3, <2>1, <2>2, FallbackFires
  <2> QED
    BY <1>1, <2>3 DEF FireInv, ServedFires
<1> QED
  BY <1>2, <1>3 DEF NotDue

\* A phase is served by a plan without an export, or while the SoC is failing.
LEMMA PlanSkipsFire ==
  ASSUME ProgInv, FireInv, NEW a \in Currents, PlanUnchanged(a) \/ PlanPreserves(a) \/ PlanRefused
  PROVE  FireInv'
<1>1. /\ program = "optimise" /\ apply' = NoApply /\ apply.step = "due"
      /\ UNCHANGED <<clock, paid, slot, program>>
  BY DEF PlanUnchanged, PlanPreserves, PlanRefused, PlanDue, Baseline
<1>2. monitor'.status = "normal" => applied'.known /\ applied'.export = 0
  <2>1. CASE PlanUnchanged(a)
    BY <2>1 DEF PlanUnchanged, NeedsApply, Baseline
  <2>2. CASE PlanPreserves(a)
    BY <2>2 DEF PlanPreserves, Baseline
  <2>3. CASE PlanRefused
    <3>1. monitor.fresh /\ (~apply.soc => monitor.status # "normal")
      BY <1>1 DEF FireInv, TickFires
    <3> QED
      BY <2>3, <3>1 DEF PlanRefused, Held, InFallback, Fallbacks
  <2> QED
    BY <2>1, <2>2, <2>3
<1> QED
  BY <1>1, <1>2, NoApplyFires DEF FireInv, ServedFires

LEMMA PlanAppliesFires ==
  ASSUME ProgInv, FireInv, NEW a \in Currents, NEW trusted \in BOOLEAN, PlanApplies(a, trusted)
  PROVE  FireInv'
<1> DEFINE e     == IF trusted THEN Offered ELSE 0
           early == e # 0 /\ ExportNotYetArmed(e)
           kind  == IF Recovering THEN "recover" ELSE "plan"
           step  == IF early /\ record = e /\ slot.export THEN "finish" ELSE "prepare"
<1>1. /\ program = "optimise" /\ apply.step = "due" /\ (trusted \/ ~LiveExport)
      /\ UNCHANGED <<clock, paid, served, slot, timed, record, applied, monitor, program>>
      /\ \E ready \in Admits(e, early) :
           apply' = [Applying(kind, step, TRUE)
                     EXCEPT !.trusted = trusted, !.amps = a, !.export = e, !.ready = ready,
                            !.good = (e = 0 \/ ready)]
  BY DEF PlanApplies, PlanDue, timeVars
<1>2. PICK ready \in Admits(e, early) :
        apply' = [Applying(kind, step, TRUE)
                  EXCEPT !.trusted = trusted, !.amps = a, !.export = e, !.ready = ready,
                         !.good = (e = 0 \/ ready)]
  BY <1>1
<1>3. kind \in {"plan", "recover"} /\ step \in {"finish", "prepare"}
  OBVIOUS
<1>4. ready => e # 0 /\ ~early
  BY DEF Admits
<1>5. ready => Opening(e)
  <2> SUFFICES ASSUME ready PROVE Opening(e)
    OBVIOUS
  <2>1. e # 0 /\ e = Offered /\ ~(clock < 2 * e - 2)
    BY <1>4 DEF ExportNotYetArmed
  <2>2. e \in paid /\ ~(clock >= 2 * e)
    BY <2>1, OfferedPaid DEF Over
  <2>3. e \in Nat /\ clock \in Nat
    BY <2>2, EveningFacts
  <2> HIDE DEF e
  <2> QED
    BY <2>1, <2>2, <2>3 DEF Opening
<1> HIDE DEF e, early, kind, step
<1>6. Applying(kind, step, TRUE) \in ApplyRec /\ Applying(kind, step, TRUE).kind = kind
      /\ Applying(kind, step, TRUE).step = step
  <2>1. /\ kind \in {"none", "plan", "recover", "fallback", "reapply", "handover"}
        /\ step \in {"idle", "due", "prepare", "current", "window", "finish"}
    BY <1>3
  <2>2. FallbackA \in Currents /\ 0 \in 0 .. Evenings
    BY ProgramAssumption DEF FallbackA, Currents
  <2> QED
    BY <2>1, <2>2 DEF Applying, ApplyRec
<1>7. /\ apply'.kind = kind /\ apply'.step = step /\ apply'.trusted = trusted
      /\ apply'.export = e /\ apply'.ready = ready /\ apply'.good = (e = 0 \/ ready)
  BY <1>2, <1>6 DEF ApplyRec
<1>8. TickFires'
  BY <1>1, <1>3, <1>7 DEF FireInv, TickFires
<1>9. ApplyFires'
  <2>1. LiveExport' = LiveExport /\ program' = "optimise"
    BY <1>1 DEF LiveExport, Over
  <2>2. apply'.ready => Opening(apply.export)'
    BY <1>1, <1>5, <1>7 DEF Opening
  <2>3. apply'.good => apply'.export = 0 \/ apply'.ready
    BY <1>7
  <2>4. ~apply'.trusted => ~LiveExport'
    BY <1>1, <1>7, <2>1
  <2> QED
    BY <1>3, <1>7, <2>1, <2>2, <2>3, <2>4 DEF ApplyFires
<1>10. ServedFires'
  BY <1>1 DEF FireInv, ServedFires, Opening
<1> QED
  BY <1>8, <1>9, <1>10 DEF FireInv

\* A write of an apply: the half is off, as planned, or as it was.
LEMMA WriteFires ==
  ASSUME ProgInv, FireInv, Prepare \/ SetCurrent \/ WriteWindow
  PROVE  /\ FireInv'
         /\ UNCHANGED <<clock, paid>> /\ apply.kind # "none"
         /\ slot'.export = slot.export \/ slot'.export = apply.ready
<1>0. /\ slot \in [charge : BOOLEAN, export : BOOLEAN] /\ apply \in ApplyRec
      /\ apply.ready \in BOOLEAN /\ slot.export \in BOOLEAN
  BY ProgFields
<1>1. /\ apply.step \in {"prepare", "current", "window"}
      /\ UNCHANGED <<clock, paid, served, record, applied, monitor, program>>
  BY DEF Prepare, SetCurrent, WriteWindow, timeVars
<1>2. /\ apply'.kind = apply.kind /\ apply'.trusted = apply.trusted /\ apply'.ready = apply.ready
      /\ apply'.export = apply.export /\ (apply'.good => apply.good)
      /\ apply'.step \in {"current", "window", "finish"}
  <2>1. CASE Prepare
    BY <2>1, <1>0 DEF Prepare, ApplyRec
  <2>2. CASE SetCurrent
    BY <2>2, <1>0 DEF SetCurrent, ApplyRec
  <2>3. CASE WriteWindow
    <3>1. \/ \E w \in BOOLEAN : apply' = [apply EXCEPT !.step = "finish", !.window = w]
          \/ apply' = [apply EXCEPT !.step = "finish", !.window = FALSE, !.good = FALSE]
      BY <2>3 DEF WriteWindow
    <3> QED
      BY <3>1, <1>0 DEF ApplyRec
  <2> QED
    BY <2>1, <2>2, <2>3
<1>3. slot'.export = slot.export \/ slot'.export = apply.ready
  <2>1. CASE Prepare
    <3>1. slot' = slot \/ slot' = HalfZeroed
      BY <2>1 DEF Prepare
    <3>2. HalfZeroed.export = (slot.export /\ apply.ready)
      BY DEF HalfZeroed
    <3> QED
      BY <3>1, <3>2, <1>0
  <2>2. CASE SetCurrent
    BY <2>2 DEF SetCurrent
  <2>3. CASE WriteWindow
    <3> DEFINE half == [charge |-> apply.current \/ slot.charge, export |-> apply.ready]
    <3>1. slot' = slot \/ slot' = half
      BY <2>3 DEF WriteWindow
    <3> QED
      BY <3>1
  <2> QED
    BY <2>1, <2>2, <2>3
<1>4. apply.kind # "none" /\ apply.kind \in {"plan", "recover", "fallback", "reapply", "handover"}
  BY <1>0, <1>1 DEF ProgInv, ApplyRec
<1>5. LiveExport' = LiveExport /\ \A e : Opening(e)' = Opening(e)
  BY <1>1 DEF LiveExport, Over, Opening
<1>6. ServedFires'
  <2>1. program \in {"write", "off"} => ~slot.export /\ ~apply.ready
    BY <1>4 DEF FireInv, ServedFires, ApplyFires
  <2>2. program' \in {"write", "off"} => ~slot'.export
    BY <1>1, <1>3, <2>1
  <2> QED
    BY <1>1, <2>2 DEF FireInv, ServedFires, Opening
<1>7. TickFires'
  BY <1>1, <1>2 DEF FireInv, TickFires
<1>8. ApplyFires'
  <2>1. apply.kind \in {"fallback", "reapply"} => (apply.ready <=> LiveExport /\ slot'.export)
    BY <1>0, <1>3 DEF FireInv, ApplyFires
  <2>2. apply'.kind \in {"plan", "recover"} /\ apply'.ready => Opening(apply.export)'
    BY <1>1, <1>2 DEF FireInv, ApplyFires, Opening
  <2>3. apply'.kind \in {"fallback", "reapply"} => (apply'.ready <=> LiveExport' /\ slot'.export)
    BY <1>2, <1>5, <2>1
  <2>4. apply'.kind \in {"plan", "recover"} /\ ~apply'.trusted => ~LiveExport'
    BY <1>2, <1>5 DEF FireInv, ApplyFires
  <2>5. apply'.kind \in {"plan", "recover"} /\ apply'.good => apply'.export = 0 \/ apply'.ready
    BY <1>2 DEF FireInv, ApplyFires
  <2>6. /\ apply'.kind = "handover" => program' = "write" /\ ~apply'.ready
        /\ apply'.kind \in {"plan", "recover", "fallback", "reapply"} => program' = "optimise"
    BY <1>1, <1>2 DEF FireInv, ApplyFires
  <2> QED
    BY <2>2, <2>3, <2>4, <2>5, <2>6 DEF ApplyFires
<1> QED
  BY <1>1, <1>3, <1>4, <1>6, <1>7, <1>8 DEF FireInv

\* A verified apply has the plan it was for, and the half of what opens.
LEMMA FinishPlanFires == ASSUME ProgInv, FireInv, FinishPlan PROVE FireInv'
<1>0. /\ apply \in ApplyRec /\ monitor \in MonitorRec /\ slot.export \in BOOLEAN
  BY ProgFields
<1>1. /\ apply.step = "finish" /\ apply.kind \in {"plan", "recover"}
      /\ applied' = IF Verified THEN [known |-> TRUE, amps |-> apply.amps, export |-> apply.export]
                    ELSE NoPlan
      /\ served' = Verified /\ UNCHANGED <<clock, paid, slot, timed, program>>
  BY DEF FinishPlan
<1>2. program = "optimise" /\ monitor.fresh
  BY <1>1 DEF FireInv, ApplyFires, TickFires
<1>3. ServedFires'
  <2>1. CASE Verified
    <3>1. apply.good
      BY <2>1 DEF Verified
    <3>2. apply.export = 0 \/ Opening(apply.export)
      BY <1>1, <3>1 DEF FireInv, ApplyFires
    <3>3. applied' = [known |-> TRUE, amps |-> apply.amps, export |-> apply.export]
      BY <1>1, <2>1
    <3>4. applied'.known /\ applied'.export = apply.export
      BY <3>3
    <3>5. \/ apply.export = 0
          \/ /\ apply.export \in paid' /\ clock' + 2 >= 2 * apply.export
             /\ clock' < 2 * apply.export
      BY <1>1, <3>2 DEF Opening
    <3> QED
      BY <1>1, <1>2, <3>4, <3>5 DEF ServedFires, Opening
  <2>2. CASE ~Verified
    BY <1>1, <1>2, <2>2 DEF ServedFires
  <2> QED
    BY <2>1, <2>2
<1>4. CASE apply' = NoApply
  BY <1>3, <1>4, NoApplyFires DEF FireInv
<1>5. CASE /\ monitor' = InvalidateFallback(monitor)
           /\ apply' = [Applying("reapply", "prepare", TRUE)
                        EXCEPT !.ready = record' # 0 /\ ~Over(record') /\ slot.export]
  <2> DEFINE new  == Applying("reapply", "prepare", TRUE)
             keep == record' # 0 /\ ~Over(record') /\ slot.export
  <2>1. new \in ApplyRec /\ new.kind = "reapply" /\ new.step = "prepare"
    <3>1. FallbackA \in Currents /\ 0 \in 0 .. Evenings
      BY ProgramAssumption DEF FallbackA, Currents
    <3> QED
      BY <3>1 DEF Applying, ApplyRec
  <2>6. apply' = [new EXCEPT !.ready = keep] /\ keep \in BOOLEAN
    BY <1>0, <1>5
  <2>3. keep <=> LiveExport' /\ slot'.export
    BY <1>1 DEF LiveExport, Over
  <2>4. monitor'.fresh
    BY <1>0, <1>2, <1>5 DEF InvalidateFallback, MonitorRec
  <2> HIDE DEF keep, new
  <2>2. apply'.kind = "reapply" /\ apply'.step = "prepare" /\ apply'.ready = keep
    BY <2>1, <2>6 DEF ApplyRec
  <2>5. TickFires' /\ ApplyFires'
    BY <1>1, <1>2, <2>2, <2>3, <2>4 DEF TickFires, ApplyFires
  <2> QED
    BY <1>3, <2>5 DEF FireInv
<1> QED
  BY <1>4, <1>5 DEF FinishPlan

LEMMA FinishFallbackFires == ASSUME ProgInv, FireInv, FinishFallback PROVE FireInv'
<1>1. /\ apply.step = "finish" /\ monitor' = CompleteFallback(monitor, Verified)
      /\ apply' = IF apply.kind = "fallback" THEN Applying("none", "due", apply.soc) ELSE NoApply
      /\ UNCHANGED <<clock, paid, served, slot, record, applied, program>>
  BY DEF FinishFallback, timeVars
<1>2. monitor'.status # "normal" /\ monitor'.fresh
  <2>1. monitor \in MonitorRec /\ monitor.fresh
    BY <1>1, ProgFields DEF FireInv, TickFires
  <2>2. CASE Verified
    BY <1>1, <2>1, <2>2 DEF CompleteFallback, MonitorRec
  <2>3. CASE ~Verified
    BY <1>1, <2>1, <2>3 DEF CompleteFallback, MonitorRec
  <2> QED
    BY <2>2, <2>3
<1>3. ServedFires'
  BY <1>1, <1>2 DEF FireInv, ServedFires
<1>4. apply'.kind = "none"
  BY <1>1, ProgFields, ApplyingTypes, NoApplyTypes
<1> QED
  BY <1>2, <1>3, <1>4 DEF FireInv, TickFires, ApplyFires

\* The handover to Observe takes the half off; nothing arms it again until Optimise.
LEMMA HandoverFires ==
  ASSUME ProgInv, FireInv,
         LeaveOptimise \/ CancelExport \/ FinishHandover \/ EnterOptimise \/ PreviewRecovers
  PROVE  FireInv'
<1>1. apply' = NoApply /\ UNCHANGED <<clock, paid>>
  BY DEF LeaveOptimise, CancelExport, FinishHandover, EnterOptimise, PreviewRecovers, timeVars
<1>2. ServedFires'
  <2>1. CASE LeaveOptimise
    BY <2>1 DEF LeaveOptimise, ServedFires
  <2>2. CASE CancelExport
    <3>1. served' = served /\ ~served
      BY <2>2 DEF CancelExport, timeVars, FireInv, ServedFires
    <3>2. program' \in {"write", "off"} => ~slot'.export
      <4>1. slot \in [charge : BOOLEAN, export : BOOLEAN]
        BY ProgFields
      <4>2. CASE slot' = [slot EXCEPT !.export = FALSE]
        BY <4>1, <4>2
      <4>3. CASE program' = program
        BY <2>2, <4>3 DEF CancelExport
      <4> QED
        BY <2>2, <4>2, <4>3 DEF CancelExport
    <3> QED
      BY <3>1, <3>2 DEF ServedFires
  <2>3. CASE FinishHandover
    <3>1. program = "write" /\ ~slot.export
      BY <2>3 DEF FinishHandover, FireInv, ServedFires, ApplyFires
    <3>2. slot' = slot /\ (program' = "off" \/ (program' = "write" /\ ~served'))
      <4>1. CASE Verified
        BY <2>3, <4>1 DEF FinishHandover
      <4>2. CASE ~Verified
        BY <2>3, <3>1, <4>2 DEF FinishHandover
      <4> QED
        BY <4>1, <4>2
    <3> QED
      BY <3>1, <3>2 DEF ServedFires
  <2>4. CASE EnterOptimise
    BY <2>4 DEF EnterOptimise, ServedFires
  <2>5. CASE PreviewRecovers
    BY <2>5 DEF PreviewRecovers, timeVars, FireInv, ServedFires
  <2> QED
    BY <2>1, <2>2, <2>3, <2>4, <2>5
<1> QED
  BY <1>1, <1>2, NoApplyFires DEF FireInv

LEMMA WriteFallbackFires == ASSUME ProgInv, FireInv, WriteFallback PROVE FireInv'
<1>1. /\ apply.step = "due" /\ program = "write" /\ apply' = Applying("handover", "prepare", apply.soc)
      /\ UNCHANGED <<clock, paid, served, slot, record, applied, monitor, program>>
  BY DEF WriteFallback, timeVars
<1>2. apply'.kind = "handover" /\ apply'.step = "prepare" /\ apply'.ready = FALSE
  BY <1>1, ProgFields, ApplyingTypes DEF Applying
<1>3. ServedFires'
  BY <1>1 DEF FireInv, ServedFires
<1> QED
  BY <1>1, <1>2, <1>3 DEF FireInv, TickFires, ApplyFires

\* A new phase, a cancelled event and a restart are not served yet; a shutdown only clears.
LEMMA OutsideFires ==
  ASSUME ProgInv, FireInv, NextPhase \/ (\E e \in Evening : Cancelled(e)) \/ Shutdown \/ ProgRestart
  PROVE  FireInv'
<1>1. apply' = NoApply /\ served' = FALSE /\ program' = program
  BY DEF NextPhase, Cancelled, Shutdown, ProgRestart, Restarted
<1>2. slot'.export => slot.export
  <2>1. CASE Shutdown
    <3>1. slot'.export = (slot.export /\ LiveExport)
      BY <2>1 DEF Shutdown
    <3> QED
      BY <3>1, ProgFields
  <2> QED
    BY <2>1 DEF NextPhase, Cancelled, ProgRestart
<1> QED
  BY <1>1, <1>2, NoApplyFires DEF FireInv, ServedFires

LEMMA FireStep == ASSUME ProgInv, FireInv, [ProgNext]_programVars PROVE FireInv'
<1>1. CASE ProgNext
  BY <1>1, ObserveFires, NotDueFires, PlanSkipsFire, PlanAppliesFires, WriteFires, FinishPlanFires,
     FinishFallbackFires, HandoverFires, WriteFallbackFires, OutsideFires,
     1 \in Currents DEF ProgNext, Currents
<1>2. CASE UNCHANGED programVars
  BY <1>2 DEF programVars, FireInv, ServedFires, TickFires, ApplyFires, Opening, LiveExport, Over
<1> QED
  BY <1>1, <1>2

LEMMA FireInvAlways == ProgSpec => [](ProgInv /\ FireInv)
<1>1. ProgInit => FireInv
  BY NoApplyTypes DEF ProgInit, FireInv, ServedFires, TickFires, ApplyFires
<1>2. ProgInv /\ FireInv /\ [ProgNext]_programVars => ProgInv' /\ FireInv'
  BY ProgStep, FireStep
<1> QED
  BY <1>1, <1>2, ProgStarts, PTL DEF ProgSpec

\* FiresPaid (solis.py apply, safe_state and the shutdown of main.py): the half comes up only on
\* an evening with a paid event, unless the SoC is failing or the plan believed to be resident
\* has no export, and a live one is taken out only by a trusted plan or the owner: for every
\* number of evenings, SoC failures and faults.
THEOREM FiresOnlyPaid == ProgSpec => FiresPaid
<1> DEFINE Pays == /\ Firing' /\ ~Firing /\ (clock' + 1) \div 2 \notin paid
                        => monitor.status # "normal" \/ (applied.known /\ applied.export = 0)
                   /\ slot.export /\ ~slot'.export /\ LiveExport
                        => program # "optimise" \/ (apply.kind \in {"plan", "recover"} /\ apply.trusted)
<1>1. ASSUME ProgInv, FireInv, [ProgNext]_programVars PROVE [Pays]_programVars
  <2> SUFFICES ASSUME ProgNext PROVE Pays
    BY <1>1
  <2>0. clock \in Nat /\ paid \subseteq Nat
    BY <1>1, EveningFacts
  <2>1. CASE NextPhase
    <3>1. clock' = clock + 1 /\ slot' = slot /\ (served \/ program = "off")
      BY <2>1 DEF NextPhase
    <3>2. ASSUME Firing', (clock' + 1) \div 2 \notin paid, monitor.status = "normal"
          PROVE  applied.known /\ applied.export = 0
      <4>1. slot.export /\ clock' % 2 = 1
        BY <3>1, <3>2 DEF Firing
      <4>2. served /\ program = "optimise"
        BY <1>1, <3>1, <4>1 DEF FireInv, ServedFires
      <4>3. applied.known /\ (applied.export = 0 \/ Opening(applied.export))
        BY <1>1, <3>2, <4>2 DEF FireInv, ServedFires
      <4>4. ~Opening(applied.export)
        <5> SUFFICES ASSUME Opening(applied.export) PROVE FALSE
          OBVIOUS
        <5>0. /\ applied.export \in paid /\ clock + 2 >= 2 * applied.export
              /\ clock < 2 * applied.export
          BY DEF Opening
        <5>2. applied.export \in Nat
          BY <2>0, <5>0
        <5>1. /\ clock' \in Nat /\ clock' + 2 >= 2 * applied.export
              /\ clock' <= 2 * applied.export
          BY <2>0, <3>1, <5>0, <5>2
        <5> QED
          BY <3>2, <4>1, <5>0, <5>1, <5>2, OddPhase
      <4> QED
        BY <4>3, <4>4
    <3> QED
      BY <3>1, <3>2
  <2>2. CASE Prepare \/ SetCurrent \/ WriteWindow
    <3>1. /\ clock' = clock /\ apply.kind # "none"
          /\ slot'.export = slot.export \/ slot'.export = apply.ready
      BY <1>1, <2>2, WriteFires
    <3>2. apply.kind \in {"plan", "recover", "fallback", "reapply", "handover"}
          /\ slot.export \in BOOLEAN /\ apply.ready \in BOOLEAN
      BY <1>1, <3>1, ProgFields DEF ApplyRec
    <3>3. ASSUME Firing', ~Firing, (clock' + 1) \div 2 \notin paid PROVE FALSE
      <4>1. ~slot.export /\ apply.ready /\ clock % 2 = 1
        BY <3>1, <3>2, <3>3 DEF Firing
      <4>2. Opening(apply.export)
        BY <1>1, <3>2, <4>1 DEF FireInv, ApplyFires
      <4>3. /\ apply.export \in paid /\ clock + 2 >= 2 * apply.export
            /\ clock < 2 * apply.export
        BY <4>2 DEF Opening
      <4>4. apply.export \in Nat
        BY <2>0, <4>3
      <4>5. clock <= 2 * apply.export
        BY <2>0, <4>3, <4>4
      <4> QED
        BY <2>0, <3>1, <3>3, <4>1, <4>3, <4>4, <4>5, OddPhase
    <3>4. ASSUME slot.export, ~slot'.export, LiveExport
          PROVE  program # "optimise" \/ (apply.kind \in {"plan", "recover"} /\ apply.trusted)
      <4>1. ~apply.ready
        BY <3>1, <3>4
      <4> QED
        BY <1>1, <3>2, <3>4, <4>1 DEF FireInv, ApplyFires
    <3> QED
      BY <3>3, <3>4
  <2>3. CASE CancelExport
    <3>1. program = "cancel" /\ clock' = clock
      BY <2>3 DEF CancelExport, timeVars
    <3>2. slot'.export => slot.export
      BY <1>1, <2>3, ProgFields DEF CancelExport
    <3> QED
      BY <3>1, <3>2 DEF Firing
  <2>4. CASE Shutdown
    <3>1. slot'.export = (slot.export /\ LiveExport) /\ clock' = clock
      BY <2>4 DEF Shutdown, Restarted
    <3> QED
      BY <3>1 DEF Firing
  <2>5. CASE UNCHANGED <<clock, slot>>
    BY <2>5 DEF Firing
  <2>6. ProgNext => \/ NextPhase \/ Prepare \/ SetCurrent \/ WriteWindow \/ CancelExport \/ Shutdown
                    \/ UNCHANGED <<clock, slot>>
    BY DEF ProgNext, Observe, NotDue, PlanUnchanged, PlanPreserves, PlanApplies, PlanRefused,
           Baseline, FinishPlan, FinishFallback, LeaveOptimise, WriteFallback, FinishHandover,
           EnterOptimise, PreviewRecovers, Cancelled, ProgRestart, Restarted, timeVars
  <2> QED
    BY <2>1, <2>2, <2>3, <2>4, <2>5, <2>6
<1>2. ProgInv /\ FireInv /\ [ProgNext]_programVars => [Pays]_programVars
  BY <1>1
<1> QED
  BY <1>2, FireInvAlways, PTL DEF ProgSpec, FiresPaid

-----------------------------------------------------------------------------
(* The protection holds: the steps of a transition *)

Releasing == <<"release_holds", "commit_observe">>
\* The steps that lead to Observe.
Leaving   == {<<"cancel_export", "write_fallback", "release_holds", "commit_observe">>,
              <<"write_fallback", "release_holds", "commit_observe">>, Releasing,
              <<"commit_observe">>}

\* Popping a step leaves a rest of the same transition.
LEMMA RestOfSteps ==
  ASSUME NEW s \in Handovers, s # <<>>
  PROVE  /\ Tail(s) \in Handovers
         /\ Tail(s) \in Leaving => s \in Leaving
<1>1. CASE s = <<"verify_fresh_plan">>
  <2>1. Tail(s) = <<>>
    BY <1>1
  <2> QED
    BY <1>1, <2>1 DEF Handovers, Leaving, Releasing
<1>2. CASE s = <<"evaluate_protection">>
  <2>1. Tail(s) = <<>>
    BY <1>2
  <2> QED
    BY <1>2, <2>1 DEF Handovers, Leaving, Releasing
<1>3. CASE s = <<"write_fallback">>
  <2>1. Tail(s) = <<>>
    BY <1>3
  <2> QED
    BY <1>3, <2>1 DEF Handovers, Leaving, Releasing
<1>4. CASE s = <<"commit_observe">>
  <2>1. Tail(s) = <<>>
    BY <1>4
  <2> QED
    BY <1>4, <2>1 DEF Handovers, Leaving, Releasing
<1>5. CASE s = <<"cancel_export", "write_fallback">>
  <2>1. Tail(s) = <<"write_fallback">>
    BY <1>5
  <2> QED
    BY <1>5, <2>1 DEF Handovers, Leaving, Releasing
<1>6. CASE s = <<"release_holds", "commit_observe">>
  <2>1. Tail(s) = <<"commit_observe">>
    BY <1>6
  <2> QED
    BY <1>6, <2>1 DEF Handovers, Leaving, Releasing
<1>7. CASE s = <<"write_fallback", "release_holds", "commit_observe">>
  <2>1. Tail(s) = <<"release_holds", "commit_observe">>
    BY <1>7
  <2> QED
    BY <1>7, <2>1 DEF Handovers, Leaving, Releasing
<1>8. CASE s = <<"cancel_export", "write_fallback", "release_holds", "commit_observe">>
  <2>1. Tail(s) = <<"write_fallback", "release_holds", "commit_observe">>
    BY <1>8
  <2> QED
    BY <1>8, <2>1 DEF Handovers, Leaving, Releasing
<1> QED
  BY <1>1, <1>2, <1>3, <1>4, <1>5, <1>6, <1>7, <1>8 DEF Handovers

\* Which steps the present one belongs to.
LEMMA PresentStep ==
  ASSUME addon.steps \in Handovers
  PROVE  /\ addon.steps = Releasing <=> Doing = "release_holds"
         /\ addon.steps = <<"evaluate_protection">> <=> Doing = "evaluate_protection"
         /\ addon.steps = <<"verify_fresh_plan">> <=> Doing = "verify_fresh_plan"
         /\ addon.steps = <<>> <=> Doing = "none"
BY DEF Handovers, Releasing, Doing
-----------------------------------------------------------------------------
(* The protection holds: records *)

Knowledge == Windows \union {"unread"}
\* A record that is kept, in memory or in a candidate, is of the transition it stands in, was
\* confirmed with the other one, and counts no more clear reports than there were.
Blank(h) == ~h.confirmed /\ ~h.pending /\ h.clear = 0
Sound(s, n) ==
    /\ s.ev.kept \/ Blank(s.ev)
    /\ s.dispatch.kept \/ Blank(s.dispatch)
    /\ s.ev.kept /\ s.dispatch.kept => s.ev.confirmed = s.dispatch.confirmed
    /\ s.ev.clear <= n
    /\ s.ev.pending => n = ClearReports \/ s.steps = Releasing
    /\ s.steps \in Leaving => s.target = "observe"
Books == /\ addon \in AddonState /\ unsaved \subseteq AddonState
         /\ \A s \in {addon} \union unsaved : Sound(s, clears)
RestOK ==
    /\ known \in Knowledge /\ evState \in [active : BOOLEAN, clear : 0 .. ClearReports - 1]
    /\ outlook \in [ev : {"charging", "clear", "unknown"}, report : BOOLEAN, dispatch : BOOLEAN]
    /\ enable \in {"on", "off"} /\ loop \in Loop /\ clears \in 0 .. ClearReports
    /\ troubles \in 0 .. Troubles /\ asked \in 0 .. ModeRequests
\* Where a pass has come to tells what it has decided from its records.
Fits(l, s) ==
    /\ l.at \in {"request", "lifecycle", "ready"} => l.kind = "none"
    /\ l.kind = "evaluate" => s.steps = <<"evaluate_protection">>
    /\ l.kind = "release" => s.steps = Releasing
    /\ l.kind = "release" => l.at \notin {"evidence", "recheck", "safe", "safeOn"}
    /\ l.at \in {"schedule", "on"} => (s.ev.kept => s.ev.confirmed)
    /\ l.at \in {"schedule", "on"} /\ l.kind # "release" =>
          /\ s.steps # Releasing /\ (s.ev.confirmed => s.ev.pending)
          /\ s.dispatch.confirmed /\ s.dispatch.end = "ahead" => l.trust
    /\ l.at \in {"safe", "safeOn"} => (s.ev.confirmed => s.ev.pending)
    /\ l.at = "safeOn" => s.steps # Releasing
    /\ l.trust => l.known # "unread" /\ l.at \notin {"recheck", "evidence"}
PlaceOK == Fits(loop, addon)
LegacyInv == RestOK /\ Books /\ PlaceOK

LEMMA ReportsFacts == ClearReports \in Nat /\ ClearReports >= 2
BY LegacyAssumption

LEMMA RecFields ==
  ASSUME NEW h \in HoldRec
  PROVE  /\ h.kept \in BOOLEAN /\ h.confirmed \in BOOLEAN /\ h.pending \in BOOLEAN
         /\ h.clear \in 0 .. ClearReports - 1 /\ h.clear \in Nat /\ h.end \in Windows
BY ReportsFacts DEF HoldRec

LEMMA NoRecTypes ==
  /\ NoRec \in HoldRec /\ ~NoRec.kept /\ ~NoRec.confirmed /\ ~NoRec.pending
  /\ NoRec.clear = 0 /\ NoRec.end = "none"
<1>1. 0 \in 0 .. ClearReports - 1
  BY ReportsFacts
<1> QED
  BY <1>1 DEF NoRec, HoldRec, Windows

LEMMA AddonFields ==
  ASSUME NEW s \in AddonState
  PROVE  /\ s.mode \in Modes /\ s.target \in Modes /\ s.steps \in Handovers
         /\ s.ev \in HoldRec /\ s.dispatch \in HoldRec
BY DEF AddonState

\* The records that the switch confirms, one after a request, an ended hold, a release begun.
LEMMA RereadSound ==
  ASSUME NEW n \in Nat, NEW s \in AddonState, Sound(s, n)
  PROVE  LET t == [s EXCEPT !.ev = Reread(@), !.dispatch = Reread(@)]
         IN  t \in AddonState /\ Sound(t, n) /\ t.steps = s.steps /\ t.dispatch \in HoldRec
<1> DEFINE t == [s EXCEPT !.ev = Reread(@), !.dispatch = Reread(@)]
<1>1. ASSUME NEW h \in HoldRec
      PROVE  /\ Reread(h) \in HoldRec /\ Reread(h).kept = h.kept /\ Reread(h).pending = h.pending
             /\ Reread(h).clear = h.clear
             /\ enable = "off" => Reread(h).confirmed = h.kept
             /\ enable # "off" => Reread(h) = h
             /\ Blank(h) /\ ~h.kept => Blank(Reread(h))
  <2>1. CASE enable = "off"
    <3>1. Reread(h) = [h EXCEPT !.confirmed = h.kept] /\ h.kept \in BOOLEAN
      BY <2>1, RecFields DEF Reread
    <3>2. Reread(h) \in HoldRec /\ Reread(h).kept = h.kept /\ Reread(h).pending = h.pending
          /\ Reread(h).clear = h.clear /\ Reread(h).confirmed = h.kept
      BY <3>1 DEF HoldRec
    <3> QED
      BY <2>1, <3>2 DEF Blank
  <2>2. CASE enable # "off"
    BY <2>2 DEF Reread
  <2> QED
    BY <2>1, <2>2
<1>2. s.ev \in HoldRec /\ s.dispatch \in HoldRec
  BY AddonFields
<1>3. t \in AddonState /\ t.ev = Reread(s.ev) /\ t.dispatch = Reread(s.dispatch)
      /\ t.steps = s.steps /\ t.target = s.target
  <2>1. t = [s EXCEPT !.ev = Reread(s.ev), !.dispatch = Reread(s.dispatch)]
    OBVIOUS
  <2>2. Reread(s.ev) \in HoldRec /\ Reread(s.dispatch) \in HoldRec
    BY <1>1, <1>2
  <2> HIDE DEF t
  <2> QED
    BY <2>1, <2>2 DEF AddonState
<1> HIDE DEF t
<1>4. t.ev.kept /\ t.dispatch.kept => t.ev.confirmed = t.dispatch.confirmed
  BY ZenonT(60), <1>1, <1>2, <1>3 DEF Sound
<1>5. Sound(t, n)
  BY <1>1, <1>2, <1>3, <1>4 DEF Sound
<1> QED
  BY <1>1, <1>2, <1>3, <1>5 DEF t

LEMMA ClearedSound ==
  ASSUME NEW n \in Nat, NEW s \in AddonState, Sound(s, n)
  PROVE  Cleared(s) \in AddonState /\ Sound(Cleared(s), n) /\ Cleared(s).steps = s.steps
<1>1. Cleared(s) \in AddonState /\ Cleared(s).ev = NoRec /\ Cleared(s).dispatch = NoRec
      /\ Cleared(s).steps = s.steps /\ Cleared(s).target = s.target
  BY NoRecTypes DEF Cleared, AddonState
<1> QED
  BY <1>1, NoRecTypes DEF Sound, Blank

LEMMA RequestSound ==
  ASSUME NEW n \in Nat, NEW s \in AddonState, Sound(s, n), NEW c \in BOOLEAN, NEW create \in BOOLEAN,
         loop \in Loop, loop.trust => loop.known # "unread"
  PROVE  /\ HoldRequest(s, c, create) \in AddonState /\ Sound(HoldRequest(s, c, create), n)
         /\ HoldRequest(s, c, create).steps = s.steps
<1> DEFINE ev == IF s.ev.kept \/ (create /\ loop.active)
                 THEN [s.ev EXCEPT !.kept = TRUE, !.confirmed = c] ELSE NoRec
           held == loop.window /\ loop.trust /\ (create \/ s.dispatch.kept)
           dispatch == IF held THEN [s.dispatch EXCEPT !.kept = TRUE, !.confirmed = c,
                                                       !.end = loop.known]
                       ELSE IF s.dispatch.kept THEN [s.dispatch EXCEPT !.confirmed = c]
                       ELSE NoRec
<1>0. s.ev \in HoldRec /\ s.dispatch \in HoldRec /\ loop.known \in Windows \union {"unread"}
      /\ loop.trust \in BOOLEAN /\ loop.window \in BOOLEAN /\ loop.active \in BOOLEAN
  BY AddonFields DEF Loop
<1>1. /\ ev \in HoldRec /\ ev.clear <= n /\ (ev.pending => s.ev.pending)
      /\ ev.kept \/ Blank(ev)
      /\ ev.kept => ev.confirmed = c
  <2>1. CASE s.ev.kept \/ (create /\ loop.active)
    <3>1. ev = [s.ev EXCEPT !.kept = TRUE, !.confirmed = c]
      BY <2>1
    <3> HIDE DEF ev
    <3> QED
      BY <1>0, <3>1, RecFields DEF HoldRec, Sound, Blank
  <2>2. CASE ~(s.ev.kept \/ (create /\ loop.active))
    <3>1. ev = NoRec
      BY <2>2
    <3> HIDE DEF ev
    <3> QED
      BY <3>1, NoRecTypes DEF Blank
  <2> QED
    BY <2>1, <2>2
<1>2. /\ dispatch \in HoldRec /\ (dispatch.kept \/ Blank(dispatch))
      /\ dispatch.kept => dispatch.confirmed = c
  <2>1. CASE held
    <3>1. loop.known \in Windows
      BY <1>0, <2>1
    <3>2. dispatch = [s.dispatch EXCEPT !.kept = TRUE, !.confirmed = c, !.end = loop.known]
      BY <2>1
    <3> HIDE DEF dispatch
    <3> QED
      BY <1>0, <3>1, <3>2 DEF HoldRec
  <2>2. CASE ~held /\ s.dispatch.kept
    <3>1. dispatch = [s.dispatch EXCEPT !.confirmed = c]
      BY <2>2
    <3> HIDE DEF dispatch
    <3> QED
      BY <1>0, <2>2, <3>1 DEF HoldRec
  <2>3. CASE ~held /\ ~s.dispatch.kept
    <3>1. dispatch = NoRec
      BY <2>3
    <3> HIDE DEF dispatch
    <3> QED
      BY <3>1, NoRecTypes DEF Blank
  <2> QED
    BY <2>1, <2>2, <2>3
<1>3. HoldRequest(s, c, create) = [s EXCEPT !.ev = ev, !.dispatch = dispatch]
  BY DEF HoldRequest
<1> HIDE DEF ev, dispatch
<1>5. ev \in HoldRec /\ dispatch \in HoldRec
  BY <1>1, <1>2
<1>4. /\ HoldRequest(s, c, create) \in AddonState
      /\ HoldRequest(s, c, create).ev = ev /\ HoldRequest(s, c, create).dispatch = dispatch
      /\ HoldRequest(s, c, create).steps = s.steps /\ HoldRequest(s, c, create).target = s.target
  BY <1>3, <1>5 DEF AddonState
<1> QED
  BY <1>1, <1>2, <1>4 DEF Sound

LEMMA PendingSound ==
  ASSUME NEW n \in Nat, NEW s \in AddonState, Sound(s, n), s.ev.pending \/ ~s.ev.kept \/ s.steps = Releasing
  PROVE  LET Pending(h) == [h EXCEPT !.pending = h.kept]
             t == [s EXCEPT !.ev = Pending(@), !.dispatch = Pending(@)]
         IN  t \in AddonState /\ Sound(t, n) /\ t.steps = s.steps
             /\ t.ev.kept = s.ev.kept /\ t.ev.confirmed = s.ev.confirmed
             /\ t.ev.pending = s.ev.kept
             /\ t.dispatch.confirmed = s.dispatch.confirmed /\ t.dispatch.end = s.dispatch.end
<1> DEFINE Pending(h) == [h EXCEPT !.pending = h.kept]
           t == [s EXCEPT !.ev = Pending(@), !.dispatch = Pending(@)]
<1>1. ASSUME NEW h \in HoldRec
      PROVE  /\ Pending(h) \in HoldRec /\ Pending(h).kept = h.kept
             /\ Pending(h).confirmed = h.confirmed /\ Pending(h).pending = h.kept
             /\ Pending(h).clear = h.clear /\ Pending(h).end = h.end
             /\ Blank(h) /\ ~h.kept => Blank(Pending(h))
  <2>1. h.kept \in BOOLEAN
    BY RecFields
  <2>2. /\ Pending(h) \in HoldRec /\ Pending(h).kept = h.kept
        /\ Pending(h).confirmed = h.confirmed /\ Pending(h).pending = h.kept
        /\ Pending(h).clear = h.clear /\ Pending(h).end = h.end
    BY <2>1 DEF HoldRec
  <2> QED
    BY <2>2 DEF Blank
<1>2. s.ev \in HoldRec /\ s.dispatch \in HoldRec
  BY AddonFields
<1>3. t \in AddonState /\ t.ev = Pending(s.ev) /\ t.dispatch = Pending(s.dispatch)
      /\ t.steps = s.steps /\ t.target = s.target
  <2> HIDE DEF Pending
  <2>1. t = [s EXCEPT !.ev = Pending(s.ev), !.dispatch = Pending(s.dispatch)]
    OBVIOUS
  <2>2. Pending(s.ev) \in HoldRec /\ Pending(s.dispatch) \in HoldRec
    BY <1>1, <1>2
  <2> HIDE DEF t
  <2> QED
    BY <2>1, <2>2 DEF AddonState
<1> HIDE DEF t, Pending
<1>4. t.ev.pending => n = ClearReports \/ t.steps = Releasing
  BY <1>1, <1>2, <1>3 DEF Sound
<1>5. t.ev.kept /\ t.dispatch.kept => t.ev.confirmed = t.dispatch.confirmed
  BY <1>1, <1>2, <1>3 DEF Sound
<1>6. Sound(t, n)
  BY <1>1, <1>2, <1>3, <1>4, <1>5 DEF Sound
<1> QED
  BY <1>1, <1>2, <1>3, <1>6 DEF t, Pending

\* The owner's request and the next step.
LEMMA ProposedSound ==
  ASSUME NEW n \in Nat, addon \in AddonState, Sound(addon, n), NEW t \in Modes, Accepts(t)
  PROVE  Proposed(t) \in AddonState /\ Sound(Proposed(t), n)
<1> DEFINE leaves  == addon.mode = "optimise" /\ t # "optimise"
           mode    == IF t = "observe" \/ leaves THEN addon.mode ELSE t
           out     == IF leaves THEN <<"cancel_export", "write_fallback",
                                       "release_holds", "commit_observe">>
                                ELSE <<"release_holds", "commit_observe">>
           steps   == CASE t = "observe"  -> out
                        [] t = "optimise" -> <<"verify_fresh_plan">>
                        [] t = "protect" /\ leaves -> <<"cancel_export", "write_fallback">>
                        [] OTHER          -> <<"evaluate_protection">>
<1>1. mode \in Modes
  BY AddonFields
<1>2. steps \in Handovers /\ (steps \in Leaving => t = "observe")
  <2> HIDE DEF leaves
  <2>1. CASE t = "observe"
    <3>1. out \in Handovers
      BY DEF Handovers
    <3> HIDE DEF out
    <3>2. steps = out
      BY <2>1
    <3> HIDE DEF steps
    <3> QED
      BY <2>1, <3>1, <3>2
  <2>2. CASE t = "optimise"
    <3>1. steps = <<"verify_fresh_plan">>
      BY <2>2
    <3> HIDE DEF steps
    <3> QED
      BY <3>1 DEF Handovers, Leaving, Releasing
  <2>3. CASE t = "protect" /\ leaves
    <3>1. steps = <<"cancel_export", "write_fallback">>
      BY <2>3
    <3> HIDE DEF steps
    <3> QED
      BY <3>1 DEF Handovers, Leaving, Releasing
  <2>4. CASE t = "protect" /\ ~leaves
    <3>1. steps = <<"evaluate_protection">>
      BY <2>4
    <3> HIDE DEF steps
    <3> QED
      BY <3>1 DEF Handovers, Leaving, Releasing
  <2> QED
    BY <2>1, <2>2, <2>3, <2>4 DEF Modes
<1>3. Proposed(t) = [addon EXCEPT !.target = t, !.mode = mode, !.steps = steps]
  BY DEF Proposed
<1> HIDE DEF mode, steps
<1>4. /\ Proposed(t) \in AddonState /\ Proposed(t).ev = addon.ev
      /\ Proposed(t).dispatch = addon.dispatch /\ Proposed(t).steps = steps
      /\ Proposed(t).target = t
  BY <1>1, <1>2, <1>3 DEF AddonState
<1>5. addon.steps # Releasing
  <2>1. addon.steps = Releasing => addon.steps # <<>> /\ addon.target = "observe"
    BY DEF Releasing, Leaving, Sound
  <2> QED
    BY <2>1 DEF Accepts
<1> QED
  BY <1>2, <1>4, <1>5 DEF Sound

LEMMA PoppedSound ==
  ASSUME NEW n \in Nat, addon \in AddonState, Sound(addon, n), addon.steps # <<>>,
         addon.steps = Releasing => Records(addon) = {}
  PROVE  Popped \in AddonState /\ Sound(Popped, n)
<1> DEFINE rest == Tail(addon.steps)
           mode == IF rest = <<>> THEN addon.target ELSE addon.mode
<1>1. rest \in Handovers /\ (rest \in Leaving => addon.steps \in Leaving) /\ mode \in Modes
  BY RestOfSteps, AddonFields
<1>2. Popped = [addon EXCEPT !.steps = rest, !.mode = mode]
  BY DEF Popped
<1> HIDE DEF rest, mode
<1>3. /\ Popped \in AddonState /\ Popped.ev = addon.ev /\ Popped.dispatch = addon.dispatch
      /\ Popped.steps = rest /\ Popped.target = addon.target
  BY <1>1, <1>2 DEF AddonState
<1>4. addon.steps = Releasing => ~addon.ev.pending
  BY NoRecTypes DEF Records, Sound, Blank
<1> QED
  BY <1>1, <1>3, <1>4 DEF Sound

-----------------------------------------------------------------------------
(* The protection holds: places *)

\* Where a pass goes on, gives up or starts again.
LEMMA LoopMoves ==
  ASSUME loop \in Loop, known \in Knowledge, NEW at \in Places
  PROVE  /\ Moved(at) \in Loop /\ Moved(at).at = at /\ Moved(at).kind = loop.kind
         /\ Moved(at).known = loop.known /\ Moved(at).trust = loop.trust
         /\ Failed \in Loop /\ Failed.at = "done" /\ Failed.kind = loop.kind
         /\ Failed.known = loop.known /\ Failed.trust = loop.trust
         /\ Between(at) \in Loop /\ Between(at).at = at /\ Between(at).kind = "none"
         /\ ~Between(at).trust
         /\ Again \in Loop /\ Again.at = "recheck" /\ Again.kind = "tick" /\ ~Again.trust
<1>1. FALSE \in BOOLEAN /\ TRUE \in BOOLEAN
  OBVIOUS
<1>2. Moved(at) \in Loop /\ Moved(at).at = at /\ Moved(at).kind = loop.kind
      /\ Moved(at).known = loop.known /\ Moved(at).trust = loop.trust
  BY DEF Moved, Loop
<1>3. Failed \in Loop /\ Failed.at = "done" /\ Failed.kind = loop.kind
      /\ Failed.known = loop.known /\ Failed.trust = loop.trust
  BY <1>1 DEF Failed, Loop, Places
<1>4. Between(at) \in Loop /\ Between(at).at = at /\ Between(at).kind = "none" /\ ~Between(at).trust
  BY <1>1 DEF Between, Loop
<1>5. Again \in Loop /\ Again.at = "recheck" /\ Again.kind = "tick" /\ ~Again.trust
  BY <1>1 DEF Again, Between, Loop, Places, Knowledge
<1> QED
  BY <1>2, <1>3, <1>4, <1>5

\* Between two passes nothing is decided.
LEMMA FitsBetween ==
  ASSUME NEW at \in {"request", "lifecycle", "ready"}, NEW s
  PROVE  Between(at) \in Loop /\ Fits(Between(at), s)
<1>1. FALSE \in BOOLEAN /\ TRUE \in BOOLEAN /\ at \in Places
  BY DEF Places
<1>2. Between(at) \in Loop /\ Between(at).at = at /\ Between(at).kind = "none" /\ ~Between(at).trust
  BY <1>1 DEF Between, Loop
<1> QED
  BY <1>2 DEF Fits

\* A pass that is over keeps what its kind says of the steps.
LEMMA FitsOver ==
  ASSUME loop \in Loop, known \in Knowledge, PlaceOK, NEW s, s.steps = addon.steps,
         NEW at \in {"done", "off", "offBack", "onBack", "act"}, loop.at \notin {"request", "lifecycle", "ready"}
  PROVE  /\ Moved(at) \in Loop /\ Fits(Moved(at), s) /\ Failed \in Loop /\ Fits(Failed, s)
<1>1. at \in Places
  BY DEF Places
<1> QED
  BY <1>1, LoopMoves DEF Fits, PlaceOK

\* A save that succeeds, fails or is refused.
LEMMA SaveKeeps ==
  ASSUME LegacyInv, NEW c \in AddonState, NEW next \in Loop, NEW failure \in Loop,
         SaveTo(c, next, failure), Sound(c, clears), Fits(next, c), Fits(failure, addon)
  PROVE  /\ addon' \in AddonState /\ unsaved' \subseteq AddonState
         /\ \A s \in {addon'} \union unsaved' : Sound(s, clears)
         /\ loop' \in Loop /\ Fits(loop', addon') /\ troubles' \in 0 .. Troubles
<1>1. /\ addon \in AddonState /\ unsaved \subseteq AddonState /\ troubles \in 0 .. Troubles
      /\ \A s \in {addon} \union unsaved : Sound(s, clears)
  BY DEF LegacyInv, RestOK, Books
<1>2. CASE /\ c = addon \/ unsaved = {}
           /\ addon' = c /\ loop' = next /\ UNCHANGED <<unsaved, troubles>>
  BY <1>1, <1>2
<1>3. CASE loop' = failure /\ UNCHANGED addon /\ unsaved = {} /\ Trouble /\ unsaved' = {c}
  <2>1. troubles' \in 0 .. Troubles
    BY <1>1, <1>3, LegacyAssumption DEF Trouble
  <2> QED
    BY <1>1, <1>3, <2>1
<1>4. CASE loop' = failure /\ UNCHANGED addon /\ UNCHANGED <<unsaved, troubles>>
  BY <1>1, <1>4
<1> QED
  BY <1>2, <1>3, <1>4 DEF SaveTo

\* What the other variables keep when a step leaves them alone.
LEMMA KeepsRest ==
  ASSUME LegacyInv, UNCHANGED <<known, evState, outlook, clears>>, enable' \in {"on", "off"},
         asked' \in 0 .. ModeRequests,
         addon' \in AddonState, unsaved' \subseteq AddonState,
         \A s \in {addon'} \union unsaved' : Sound(s, clears),
         loop' \in Loop, Fits(loop', addon'), troubles' \in 0 .. Troubles
  PROVE  LegacyInv'
BY DEF LegacyInv, RestOK, Books, PlaceOK

-----------------------------------------------------------------------------
(* The protection holds: every step *)

\* The parts of the invariant a step starts from.
LEMMA LegacyFacts ==
  ASSUME LegacyInv
  PROVE  /\ addon \in AddonState /\ unsaved \subseteq AddonState /\ Sound(addon, clears)
         /\ loop \in Loop /\ known \in Knowledge /\ clears \in Nat /\ enable \in {"on", "off"}
         /\ troubles \in 0 .. Troubles /\ asked \in 0 .. ModeRequests
         /\ Fits(loop, addon) /\ PlaceOK /\ addon.ev \in HoldRec /\ addon.dispatch \in HoldRec
         /\ \A s \in {addon} \union unsaved : s \in AddonState /\ Sound(s, clears)
         /\ (Trouble => troubles' \in 0 .. Troubles)
<1>1. clears \in Nat
  BY ReportsFacts DEF LegacyInv, RestOK
<1>2. /\ addon \in AddonState /\ unsaved \subseteq AddonState /\ loop \in Loop
      /\ known \in Knowledge /\ enable \in {"on", "off"} /\ Fits(loop, addon) /\ PlaceOK
      /\ troubles \in 0 .. Troubles /\ asked \in 0 .. ModeRequests
  BY DEF LegacyInv, RestOK, Books, PlaceOK
<1>3. \A s \in {addon} \union unsaved : s \in AddonState /\ Sound(s, clears)
  BY DEF LegacyInv, Books
<1>4. addon.ev \in HoldRec /\ addon.dispatch \in HoldRec
  BY <1>2, AddonFields
<1>5. Trouble => troubles' \in 0 .. Troubles
  BY <1>2, LegacyAssumption DEF Trouble
<1> QED
  BY <1>1, <1>2, <1>3, <1>4, <1>5

LEMMA InitHolds == LegacyInit => LegacyInv
<1> SUFFICES ASSUME LegacyInit PROVE LegacyInv
  OBVIOUS
<1>1. PICK m \in FirstModes : addon = [mode |-> m, target |-> m, steps |-> <<>>, ev |-> NoRec,
                                       dispatch |-> NoRec]
  BY DEF LegacyInit
<1>2. addon \in AddonState /\ addon.ev = NoRec /\ addon.dispatch = NoRec /\ addon.steps = <<>>
  BY <1>1, NoRecTypes, LegacyAssumption DEF AddonState, Modes, Handovers
<1>3. Sound(addon, 0)
  BY <1>2, NoRecTypes DEF Sound, Blank, Leaving, Releasing
<1>4. Books
  BY <1>2, <1>3 DEF Books, LegacyInit
<1>5. loop \in Loop /\ Fits(loop, addon)
  <2>1. CASE loop = Between("request")
    BY <2>1, FitsBetween
  <2>2. CASE loop = [Between("recheck") EXCEPT !.kind = "start"]
    <3>1. loop \in Loop /\ loop.at = "recheck" /\ loop.kind = "start" /\ ~loop.trust
      <4>1. FALSE \in BOOLEAN /\ TRUE \in BOOLEAN
        OBVIOUS
      <4> QED
        BY <2>2, <4>1 DEF Between, Loop, Places
    <3> QED
      BY <3>1 DEF Fits
  <2> QED
    BY <2>1, <2>2 DEF LegacyInit, FirstPass
<1>6. RestOK
  <2>1. FALSE \in BOOLEAN /\ 0 \in 0 .. ClearReports - 1 /\ 0 \in 0 .. ClearReports
        /\ Troubles \in 0 .. Troubles /\ ModeRequests \in 0 .. ModeRequests
    BY ReportsFacts, LegacyAssumption
  <2> QED
    BY <2>1, <1>5 DEF LegacyInit, RestOK, Knowledge
<1> QED
  BY <1>4, <1>5, <1>6 DEF LegacyInv, PlaceOK

LEMMA StartPassHolds ==
  ASSUME LegacyInv, NEW kind \in {"tick", "run"}, StartPass(kind)
  PROVE  LegacyInv'
<1>1. /\ loop'.at \in {"recheck", "evidence"} /\ loop'.kind = kind /\ ~loop'.trust /\ loop' \in Loop
  <2>1. known \in Knowledge /\ FALSE \in BOOLEAN /\ TRUE \in BOOLEAN
    BY LegacyFacts
  <2>2. CASE kind = "tick"
    <3>1. loop' = [Between("recheck") EXCEPT !.kind = kind, !.known = known]
      BY <2>2 DEF StartPass
    <3> QED
      BY <2>1, <3>1 DEF Between, Loop, Places, Knowledge
  <2>3. CASE kind = "run"
    <3>1. loop' = [Between("evidence") EXCEPT !.kind = kind, !.known = known]
      BY <2>3 DEF StartPass
    <3> QED
      BY <2>1, <3>1 DEF Between, Loop, Places, Knowledge
  <2> QED
    BY <2>2, <2>3
<1>2. Fits(loop', addon')
  BY <1>1 DEF Fits
<1> QED
  BY <1>1, <1>2, LegacyFacts, KeepsRest DEF StartPass

LEMMA RecheckHolds ==
  ASSUME LegacyInv, Recheck
  PROVE  LegacyInv'
<1> DEFINE s == [addon EXCEPT !.ev = Reread(@), !.dispatch = Reread(@)]
           next(k) == [Moved("evidence") EXCEPT !.known = k]
<1>1. /\ loop.at = "recheck" /\ UNCHANGED <<known, evState, outlook, enable, clears, asked>>
      /\ ~loop.trust /\ loop.kind # "release"
  BY LegacyFacts DEF Recheck, Fits
<1>2. ASSUME NEW t, t.dispatch \in HoldRec
      PROVE  next(KnownFrom(t)) \in Loop
  <2>1. KnownFrom(t) \in Knowledge
    BY <1>2, LegacyFacts, RecFields DEF KnownFrom, Knowledge, Loop
  <2> QED
    BY <2>1, LegacyFacts DEF Moved, Loop, Places, Knowledge
<1>3. ASSUME NEW t, t.steps = addon.steps, NEW k
      PROVE  Fits(next(k), t)
  <2>1. next(k).at = "evidence" /\ next(k).kind = loop.kind /\ next(k).trust = loop.trust
    BY LegacyFacts DEF Moved, Loop
  <2> QED
    BY <1>1, <1>3, <2>1, LegacyFacts DEF Fits
<1>4. s \in AddonState /\ Sound(s, clears) /\ s.steps = addon.steps /\ s.dispatch \in HoldRec
  BY LegacyFacts, RereadSound
<1>5. Failed \in Loop /\ Fits(Failed, addon)
  BY <1>1, LegacyFacts, FitsOver
<1> HIDE DEF s, next
<1>6. CASE SaveTo(s, next(KnownFrom(s)), Failed)
  <2>1. next(KnownFrom(s)) \in Loop /\ Fits(next(KnownFrom(s)), s)
    BY <1>2, <1>3, <1>4
  <2>2. /\ addon' \in AddonState /\ unsaved' \subseteq AddonState
        /\ \A t \in {addon'} \union unsaved' : Sound(t, clears)
        /\ loop' \in Loop /\ Fits(loop', addon') /\ troubles' \in 0 .. Troubles
    BY <1>4, <1>5, <1>6, <2>1, SaveKeeps
  <2> QED
    BY <1>1, <2>2, LegacyFacts, KeepsRest
<1>7. CASE Trouble /\ loop' = next(KnownFrom(addon)) /\ UNCHANGED <<addon, unsaved>>
  <2>1. loop' \in Loop /\ Fits(loop', addon')
    BY <1>2, <1>3, <1>7, LegacyFacts
  <2> QED
    BY <1>1, <1>7, <2>1, LegacyFacts, KeepsRest
<1> QED
  BY <1>6, <1>7 DEF Recheck, s, next

LEMMA ScheduleHolds ==
  ASSUME LegacyInv, Schedule
  PROVE  LegacyInv'
<1> DEFINE Pending(h) == [h EXCEPT !.pending = h.kept]
           s == [addon EXCEPT !.ev = Pending(@), !.dispatch = Pending(@)]
<1>1. /\ loop.at = "schedule" /\ UNCHANGED <<known, evState, outlook, enable, clears, asked>>
      /\ SaveTo(s, Moved("on"), Failed) \/ (Trouble /\ loop' = Failed /\ UNCHANGED <<addon, unsaved>>)
  BY DEF Schedule
<1>2. addon.ev.pending \/ ~addon.ev.kept \/ addon.steps = Releasing
  BY <1>1, LegacyFacts DEF Fits
<1>3. /\ s \in AddonState /\ Sound(s, clears) /\ s.steps = addon.steps
      /\ s.ev.kept = addon.ev.kept /\ s.ev.confirmed = addon.ev.confirmed
      /\ s.ev.pending = addon.ev.kept
      /\ s.dispatch.confirmed = addon.dispatch.confirmed /\ s.dispatch.end = addon.dispatch.end
  BY <1>2, LegacyFacts, PendingSound
<1> HIDE DEF s
<1>4. Failed \in Loop /\ Fits(Failed, addon)
  BY <1>1, LegacyFacts, FitsOver
<1>5. Moved("on") \in Loop /\ Fits(Moved("on"), s)
  <2>1. /\ Moved("on") \in Loop /\ Moved("on").at = "on" /\ Moved("on").kind = loop.kind
        /\ Moved("on").known = loop.known /\ Moved("on").trust = loop.trust
    BY LegacyFacts, LoopMoves DEF Places
  <2>2. s.ev.confirmed => s.ev.pending
    BY <1>3, LegacyFacts DEF Sound, Blank
  <2> QED
    BY <1>1, <1>3, <2>1, <2>2, LegacyFacts DEF Fits
<1>6. CASE SaveTo(s, Moved("on"), Failed)
  <2>1. /\ addon' \in AddonState /\ unsaved' \subseteq AddonState
        /\ \A t \in {addon'} \union unsaved' : Sound(t, clears)
        /\ loop' \in Loop /\ Fits(loop', addon') /\ troubles' \in 0 .. Troubles
    BY <1>3, <1>4, <1>5, <1>6, SaveKeeps
  <2> QED
    BY <1>1, <2>1, LegacyFacts, KeepsRest
<1>7. CASE Trouble /\ loop' = Failed /\ UNCHANGED <<addon, unsaved>>
  BY <1>1, <1>4, <1>7, LegacyFacts, KeepsRest
<1> QED
  BY <1>1, <1>6, <1>7

\* A pass that saves its records or leaves them goes on with the same steps.
LEMMA PassKeeps ==
  ASSUME LegacyInv, UNCHANGED <<known, evState, outlook, clears, asked>>, enable' \in {"on", "off"},
         NEW s \in AddonState, Sound(s, clears), s.steps = addon.steps,
         loop.at \notin {"request", "lifecycle", "ready"},
         NEW at \in {"done", "off", "offBack", "onBack"},
         SaveTo(s, Moved(at), Failed)
  PROVE  LegacyInv'
<1>1. Moved(at) \in Loop /\ Fits(Moved(at), s) /\ Failed \in Loop /\ Fits(Failed, addon)
  BY LegacyFacts, FitsOver
<1> DEFINE next == Moved(at)
           failure == Failed
<1>2. SaveTo(s, next, failure)
  OBVIOUS
<1> HIDE DEF next, failure
<1>3. next \in Loop /\ Fits(next, s) /\ failure \in Loop /\ Fits(failure, addon)
  BY <1>1 DEF next, failure
<1>4. /\ addon' \in AddonState /\ unsaved' \subseteq AddonState
      /\ \A t \in {addon'} \union unsaved' : Sound(t, clears)
      /\ loop' \in Loop /\ Fits(loop', addon') /\ troubles' \in 0 .. Troubles
  BY <1>2, <1>3, SaveKeeps
<1> QED
  BY <1>4, LegacyFacts, KeepsRest

LEMMA PassGoesOn ==
  ASSUME LegacyInv, UNCHANGED <<addon, unsaved, known, evState, outlook, clears, asked>>,
         enable' \in {"on", "off"}, loop.at \notin {"request", "lifecycle", "ready"},
         troubles' = troubles \/ Trouble,
         \/ loop' = Failed
         \/ \E at \in {"done", "off", "offBack", "onBack"} : loop' = Moved(at)
         \/ \E good : loop' = [Moved("done") EXCEPT !.good = good] /\ good \in BOOLEAN
  PROVE  LegacyInv'
<1>1. CASE loop' = Failed
  BY <1>1, LegacyFacts, FitsOver, KeepsRest
<1>2. CASE \E at \in {"done", "off", "offBack", "onBack"} : loop' = Moved(at)
  BY <1>2, LegacyFacts, FitsOver, KeepsRest
<1>3. CASE \E good : loop' = [Moved("done") EXCEPT !.good = good] /\ good \in BOOLEAN
  <2>1. PICK good : loop' = [Moved("done") EXCEPT !.good = good] /\ good \in BOOLEAN
    BY <1>3
  <2>2. Moved("done") \in Loop /\ Fits(Moved("done"), addon)
    BY LegacyFacts, FitsOver
  <2> DEFINE m == Moved("done")
  <2> HIDE DEF m
  <2>3. m \in Loop /\ Fits(m, addon) /\ loop' = [m EXCEPT !.good = good]
    BY <2>1, <2>2 DEF m
  <2>4. loop' \in Loop /\ loop'.at = m.at /\ loop'.kind = m.kind /\ loop'.trust = m.trust
        /\ loop'.known = m.known
    BY <2>1, <2>3 DEF Loop
  <2>5. Fits(loop', addon')
    BY <2>3, <2>4 DEF Fits
  <2> QED
    BY <2>4, <2>5, LegacyFacts, KeepsRest
<1> QED
  BY <1>1, <1>2, <1>3

LEMMA ActHolds ==
  ASSUME LegacyInv, Act
  PROVE  LegacyInv'
<1>1. /\ loop.at = "act" /\ UNCHANGED <<known, evState, outlook, enable, clears, asked>>
      /\ enable' \in {"on", "off"}
  BY LegacyFacts DEF Act
<1>2. CASE /\ ~Granted /\ loop' = [Moved("done") EXCEPT !.good = addon.mode = "observe"]
           /\ UNCHANGED <<addon, unsaved, troubles>>
  BY <1>1, <1>2, PassGoesOn
<1>3. CASE loop' = Moved("done") /\ UNCHANGED <<addon, unsaved, troubles>>
  BY <1>1, <1>3, PassGoesOn
<1>4. CASE SaveTo(HoldRequest(addon, TRUE, Claimed(addon)), Moved("done"), Failed)
  <2> DEFINE s == HoldRequest(addon, TRUE, Claimed(addon))
  <2>1. Claimed(addon) \in BOOLEAN /\ TRUE \in BOOLEAN
    BY DEF Claimed
  <2>2. s \in AddonState /\ Sound(s, clears) /\ s.steps = addon.steps
    BY <2>1, LegacyFacts, RequestSound DEF Fits
  <2> HIDE DEF s
  <2>3. SaveTo(s, Moved("done"), Failed)
    BY <1>4 DEF s
  <2> QED
    BY <1>1, <2>2, <2>3, PassKeeps
<1>5. CASE SaveTo(HoldRequest(addon, FALSE, TRUE), Moved("off"), Failed)
  <2> DEFINE s == HoldRequest(addon, FALSE, TRUE)
  <2>1. FALSE \in BOOLEAN /\ TRUE \in BOOLEAN
    OBVIOUS
  <2>2. s \in AddonState /\ Sound(s, clears) /\ s.steps = addon.steps
    BY <2>1, LegacyFacts, RequestSound DEF Fits
  <2> HIDE DEF s
  <2>3. SaveTo(s, Moved("off"), Failed)
    BY <1>5 DEF s
  <2> QED
    BY <1>1, <2>2, <2>3, PassKeeps
<1>6. CASE SaveTo(Cleared(addon), Moved("done"), Failed)
  <2> DEFINE s == Cleared(addon)
  <2>1. s \in AddonState /\ Sound(s, clears) /\ s.steps = addon.steps
    BY LegacyFacts, ClearedSound
  <2> HIDE DEF s
  <2>2. SaveTo(s, Moved("done"), Failed)
    BY <1>6 DEF s
  <2> QED
    BY <1>1, <2>1, <2>2, PassKeeps
<1>7. CASE /\ Granted /\ ~WantsOff /\ Claimed(addon) /\ loop' = Moved("schedule")
           /\ UNCHANGED <<addon, unsaved, troubles>>
  <2>1. /\ loop' \in Loop /\ loop'.at = "schedule" /\ loop'.kind = loop.kind
        /\ loop'.known = loop.known /\ loop'.trust = loop.trust
    BY <1>7, LegacyFacts, LoopMoves DEF Places
  <2>2. addon.ev.kept => addon.ev.confirmed
    BY <1>7, LegacyFacts, RecFields DEF Claimed, Records, Sound
  <2>3. ASSUME loop.kind # "release"
        PROVE  /\ addon.steps # Releasing /\ (addon.ev.confirmed => addon.ev.pending)
               /\ addon.dispatch.confirmed /\ addon.dispatch.end = "ahead" => loop.trust
    <3>1. addon.steps # Releasing
      <4>1. addon.steps = Releasing => Doing = "release_holds" /\ addon.steps # <<>>
        BY LegacyFacts, AddonFields, PresentStep DEF Releasing
      <4> QED
        BY <1>7, <2>3, <4>1 DEF Granted
    <3>2. ~Retains(addon)
      BY <1>7, <2>3 DEF WantsOff
    <3> QED
      BY <3>1, <3>2 DEF Retains
  <2>4. Fits(loop', addon')
    BY <1>1, <1>7, <2>1, <2>2, <2>3, LegacyFacts DEF Fits
  <2> QED
    BY <1>1, <1>7, <2>1, <2>4, LegacyFacts, KeepsRest
<1>8. CASE Trouble /\ loop' = Failed /\ UNCHANGED <<addon, unsaved>>
  BY <1>1, <1>8, PassGoesOn
<1> QED
  BY <1>1, <1>2, <1>3, <1>4, <1>5, <1>6, <1>7, <1>8 DEF Act

LEMMA WriteEnableHolds ==
  ASSUME LegacyInv, WriteEnable
  PROVE  LegacyInv'
<1>1. /\ loop.at \in {"off", "on", "safeOn"} /\ enable' \in {"on", "off"}
      /\ UNCHANGED <<addon, unsaved, known, evState, outlook, clears, asked>>
  BY LegacyFacts DEF WriteEnable
<1>2. CASE /\ UNCHANGED troubles
           /\ loop' = Moved(CASE loop.at = "off" -> "offBack" [] loop.at = "on" -> "onBack"
                              [] OTHER -> "done")
  <2>1. \E at \in {"done", "off", "offBack", "onBack"} : loop' = Moved(at)
    <3>1. CASE loop.at = "off"
      BY <1>2, <3>1
    <3>2. CASE loop.at = "on"
      BY <1>2, <3>2
    <3>3. CASE loop.at = "safeOn"
      BY <1>2, <3>3
    <3> QED
      BY <1>1, <3>1, <3>2, <3>3
  <2> QED
    BY <1>1, <1>2, <2>1, PassGoesOn
<1>3. CASE Trouble /\ loop' = Failed
  BY <1>1, <1>3, PassGoesOn
<1> QED
  BY <1>2, <1>3 DEF WriteEnable

LEMMA ReadBackHolds ==
  ASSUME LegacyInv, ReadBack
  PROVE  LegacyInv'
<1>1. /\ loop.at \in {"offBack", "onBack"} /\ enable' \in {"on", "off"}
      /\ UNCHANGED <<known, evState, outlook, enable, clears, asked>>
  BY LegacyFacts DEF ReadBack
<1>2. CASE SaveTo(HoldRequest(addon, TRUE, TRUE), Moved("done"), Failed)
  <2> DEFINE s == HoldRequest(addon, TRUE, TRUE)
  <2>1. TRUE \in BOOLEAN
    OBVIOUS
  <2>2. s \in AddonState /\ Sound(s, clears) /\ s.steps = addon.steps
    BY <2>1, LegacyFacts, RequestSound DEF Fits
  <2> HIDE DEF s
  <2>3. SaveTo(s, Moved("done"), Failed)
    BY <1>2 DEF s
  <2> QED
    BY <1>1, <2>2, <2>3, PassKeeps
<1>3. CASE SaveTo(Cleared(addon), Moved("done"), Failed)
  <2> DEFINE s == Cleared(addon)
  <2>1. s \in AddonState /\ Sound(s, clears) /\ s.steps = addon.steps
    BY LegacyFacts, ClearedSound
  <2> HIDE DEF s
  <2>2. SaveTo(s, Moved("done"), Failed)
    BY <1>3 DEF s
  <2> QED
    BY <1>1, <2>1, <2>2, PassKeeps
<1>4. CASE /\ loop' = [Moved("done") EXCEPT !.good = loop.kind # "release"]
           /\ UNCHANGED <<addon, unsaved, troubles>>
  BY <1>1, <1>4, PassGoesOn
<1>5. CASE Trouble /\ loop' = Failed /\ UNCHANGED <<addon, unsaved>>
  BY <1>1, <1>5, PassGoesOn
<1> QED
  BY <1>2, <1>3, <1>4, <1>5 DEF ReadBack

LEMMA SafeSwitchHolds ==
  ASSUME LegacyInv, SafeSwitch
  PROVE  LegacyInv'
<1>1. /\ loop.at = "safe" /\ enable' \in {"on", "off"} /\ loop.kind # "release"
      /\ UNCHANGED <<addon, unsaved, known, evState, outlook, enable, clears, asked>>
  BY LegacyFacts DEF SafeSwitch, Fits
<1>2. CASE Granted /\ enable = "off" /\ loop' = Moved("safeOn") /\ UNCHANGED troubles
  <2>1. /\ loop' \in Loop /\ loop'.at = "safeOn" /\ loop'.kind = loop.kind
        /\ loop'.known = loop.known /\ loop'.trust = loop.trust
    BY <1>2, LegacyFacts, LoopMoves DEF Places
  <2>2. addon.steps # Releasing
    <3>1. addon.steps = Releasing => Doing = "release_holds" /\ addon.steps # <<>>
      BY LegacyFacts, AddonFields, PresentStep DEF Releasing
    <3> QED
      BY <1>1, <1>2, <3>1 DEF Granted
  <2>3. Fits(loop', addon')
    BY <1>1, <2>1, <2>2, LegacyFacts DEF Fits
  <2> QED
    BY <1>1, <1>2, <2>1, <2>3, LegacyFacts, KeepsRest
<1>3. CASE loop' = Moved("done") /\ UNCHANGED troubles
  BY <1>1, <1>3, PassGoesOn
<1>4. CASE Trouble /\ loop' = Failed
  BY <1>1, <1>4, PassGoesOn
<1> QED
  BY <1>2, <1>3, <1>4 DEF SafeSwitch

\* Between two passes a save leads to one of two places, a transition's last step to either.
LEMMA TurnKeeps ==
  ASSUME LegacyInv, UNCHANGED <<evState, outlook, enable, clears>>, known' \in Knowledge,
         asked' \in 0 .. ModeRequests,
         NEW s \in AddonState, Sound(s, clears),
         NEW next \in Loop, NEW failure \in Loop, Fits(next, s), Fits(failure, addon),
         SaveTo(s, next, failure)
  PROVE  LegacyInv'
<1>1. /\ addon' \in AddonState /\ unsaved' \subseteq AddonState
      /\ \A t \in {addon'} \union unsaved' : Sound(t, clears)
      /\ loop' \in Loop /\ Fits(loop', addon') /\ troubles' \in 0 .. Troubles
  BY SaveKeeps
<1> QED
  BY <1>1 DEF LegacyInv, RestOK, Books, PlaceOK

LEMMA TurnGoesOn ==
  ASSUME LegacyInv, UNCHANGED <<addon, unsaved, evState, outlook, enable, clears>>,
         known' \in Knowledge, asked' \in 0 .. ModeRequests, troubles' = troubles \/ Trouble,
         loop' \in Loop, Fits(loop', addon)
  PROVE  LegacyInv'
<1>1. troubles' \in 0 .. Troubles
  BY LegacyFacts
<1> QED
  BY <1>1 DEF LegacyInv, RestOK, Books, PlaceOK

LEMMA RequestHolds ==
  ASSUME LegacyInv, Request
  PROVE  LegacyInv'
<1>1. /\ UNCHANGED <<known, evState, outlook, enable, clears>> /\ known' \in Knowledge
  BY LegacyFacts DEF Request
<1>2. CASE loop' = Between("lifecycle") /\ UNCHANGED <<addon, unsaved, troubles, asked>>
  BY <1>1, <1>2, LegacyFacts, FitsBetween, TurnGoesOn
<1>3. CASE \E t \in Modes : /\ Accepts(t) /\ asked > 0 /\ asked' = asked - 1
                            /\ SaveTo(Proposed(t), Between("lifecycle"), Between("ready"))
  <2>1. PICK t \in Modes : /\ Accepts(t) /\ asked > 0 /\ asked' = asked - 1
                           /\ SaveTo(Proposed(t), Between("lifecycle"), Between("ready"))
    BY <1>3
  <2>2. asked' \in 0 .. ModeRequests
    BY <2>1, LegacyFacts, LegacyAssumption
  <2> DEFINE s == Proposed(t)
             next == Between("lifecycle")
             failure == Between("ready")
  <2>3. s \in AddonState /\ Sound(s, clears)
    BY <2>1, LegacyFacts, ProposedSound
  <2>4. next \in Loop /\ failure \in Loop /\ Fits(next, s) /\ Fits(failure, addon)
    BY FitsBetween
  <2>5. SaveTo(s, next, failure)
    BY <2>1
  <2> HIDE DEF s, next, failure
  <2> QED
    BY <1>1, <2>2, <2>3, <2>4, <2>5, TurnKeeps
<1> QED
  BY <1>2, <1>3 DEF Request

\* What a report does to the evidence when its record is saved.
LEMMA ReportTyped ==
  ASSUME LegacyInv, NEW s
  PROVE  ReportUsed(s) \in [ev : {"charging", "clear", "unknown"}, report : BOOLEAN, dispatch : BOOLEAN]
<1>1. FALSE \in BOOLEAN
      /\ outlook \in [ev : {"charging", "clear", "unknown"}, report : BOOLEAN, dispatch : BOOLEAN]
  BY DEF LegacyInv, RestOK
<1> QED
  BY <1>1 DEF ReportUsed

LEMMA RetrySaveHolds ==
  ASSUME LegacyInv, RetrySave
  PROVE  LegacyInv'
<1>1. /\ loop.at = "request" /\ unsaved # {}
      /\ UNCHANGED <<known, evState, enable, clears, asked>>
  BY DEF RetrySave
<1>2. CASE addon' \in unsaved /\ unsaved' = {} /\ outlook' = ReportUsed(addon')
           /\ UNCHANGED <<loop, troubles>>
  <2>1. /\ addon' \in AddonState /\ Sound(addon', clears) /\ unsaved' \subseteq AddonState
        /\ \A t \in {addon'} \union unsaved' : Sound(t, clears)
    BY <1>2, LegacyFacts
  <2>2. Fits(loop', addon')
    BY <1>1, <1>2, LegacyFacts DEF Fits
  <2>3. outlook' \in [ev : {"charging", "clear", "unknown"}, report : BOOLEAN, dispatch : BOOLEAN]
    BY <1>2, ReportTyped
  <2> QED
    BY <1>1, <1>2, <2>1, <2>2, <2>3 DEF LegacyInv, RestOK, Books, PlaceOK
<1>3. CASE Trouble /\ loop' = Between("ready") /\ UNCHANGED <<addon, unsaved, outlook>>
  BY <1>1, <1>3, LegacyFacts, FitsBetween, TurnGoesOn
<1> QED
  BY <1>2, <1>3 DEF RetrySave

LEMMA LifecycleHolds ==
  ASSUME LegacyInv, Lifecycle
  PROVE  LegacyInv'
<1>1. /\ UNCHANGED <<known, evState, outlook, enable, clears, asked>> /\ known' \in Knowledge
      /\ asked' \in 0 .. ModeRequests /\ addon.steps \in Handovers
  BY LegacyFacts, AddonFields DEF Lifecycle
<1>2. CASE loop' = Between("ready") /\ UNCHANGED <<addon, unsaved, troubles>>
  BY <1>1, <1>2, FitsBetween, TurnGoesOn
<1>3. CASE /\ Doing = "evaluate_protection"
           /\ loop' = [Between("recheck") EXCEPT !.kind = "evaluate"]
           /\ UNCHANGED <<addon, unsaved, troubles>>
  <2>1. loop' \in Loop /\ loop'.at = "recheck" /\ loop'.kind = "evaluate" /\ ~loop'.trust
    <3>1. FALSE \in BOOLEAN /\ TRUE \in BOOLEAN
      OBVIOUS
    <3> QED
      BY <1>3, <3>1 DEF Between, Loop, Places
  <2>2. Fits(loop', addon)
    BY <1>1, <1>3, <2>1, PresentStep DEF Fits
  <2> QED
    BY <1>1, <1>3, <2>1, <2>2, TurnGoesOn
<1>4. CASE StepDone /\ Pop
  <2>1. addon.steps # <<>>
    BY <1>1, <1>4, PresentStep DEF StepDone
  <2>2. addon.steps = Releasing => Records(addon) = {}
    BY <1>1, <1>4, PresentStep DEF StepDone
  <2> DEFINE next == Between("lifecycle")
             failure == Between("ready")
  <2>3. Popped \in AddonState /\ Sound(Popped, clears)
    BY <2>1, <2>2, LegacyFacts, PoppedSound
  <2>4. next \in Loop /\ failure \in Loop /\ Fits(next, Popped) /\ Fits(failure, addon)
    BY FitsBetween
  <2>5. SaveTo(Popped, next, failure)
    BY <1>4 DEF Pop
  <2> HIDE DEF next, failure
  <2> QED
    BY <1>1, <2>3, <2>4, <2>5, TurnKeeps
<1>5. CASE Trouble /\ loop' = Between("ready") /\ UNCHANGED <<addon, unsaved>>
  BY <1>1, <1>5, FitsBetween, TurnGoesOn
<1>6. CASE /\ Doing = "release_holds" /\ loop' = [Between("act") EXCEPT !.kind = "release"]
           /\ UNCHANGED <<addon, unsaved, troubles>>
  <2>1. loop' \in Loop /\ loop'.at = "act" /\ loop'.kind = "release" /\ ~loop'.trust
    <3>1. FALSE \in BOOLEAN /\ TRUE \in BOOLEAN
      OBVIOUS
    <3> QED
      BY <1>6, <3>1 DEF Between, Loop, Places
  <2>2. Fits(loop', addon)
    BY <1>1, <1>6, <2>1, PresentStep DEF Fits
  <2> QED
    BY <1>1, <1>6, <2>1, <2>2, TurnGoesOn
<1> QED
  BY <1>2, <1>3, <1>4, <1>5, <1>6 DEF Lifecycle

LEMMA EndPassHolds ==
  ASSUME LegacyInv, EndPass
  PROVE  LegacyInv'
<1>1. /\ UNCHANGED <<evState, outlook, enable, clears, asked>> /\ known' \in Knowledge
      /\ asked' \in 0 .. ModeRequests /\ addon.steps \in Handovers
  BY LegacyFacts, AddonFields DEF EndPass, Loop, Knowledge
<1>2. /\ Again \in Loop /\ Fits(Again, addon)
  <2>1. "done" \in Places
    BY DEF Places
  <2>2. Again \in Loop /\ Again.at = "recheck" /\ Again.kind = "tick" /\ ~Again.trust
    BY <2>1, LegacyFacts, LoopMoves
  <2> QED
    BY <2>2 DEF Fits
<1>3. CASE loop' = Between("request") /\ UNCHANGED <<addon, unsaved>>
           /\ (UNCHANGED troubles \/ Trouble)
  BY <1>1, <1>3, FitsBetween, TurnGoesOn
<1>4. CASE Doing = "verify_fresh_plan" /\ SaveTo(Popped, Between("request"), Again)
  <2>1. addon.steps = <<"verify_fresh_plan">>
    BY <1>1, <1>4, PresentStep
  <2>2. addon.steps # <<>> /\ addon.steps # Releasing
    BY <2>1 DEF Releasing
  <2> DEFINE next == Between("request")
             failure == Again
  <2>3. Popped \in AddonState /\ Sound(Popped, clears)
    BY <2>2, LegacyFacts, PoppedSound
  <2>4. next \in Loop /\ failure \in Loop /\ Fits(next, Popped) /\ Fits(failure, addon)
    BY <1>2, FitsBetween
  <2>5. SaveTo(Popped, next, failure)
    BY <1>4
  <2> HIDE DEF next, failure
  <2> QED
    BY <1>1, <2>3, <2>4, <2>5, TurnKeeps
<1>5. CASE loop.kind = "evaluate" /\ Pop
  <2>1. addon.steps = <<"evaluate_protection">>
    BY <1>5, LegacyFacts DEF Fits
  <2>2. addon.steps # <<>> /\ addon.steps # Releasing
    BY <2>1 DEF Releasing
  <2> DEFINE next == Between("lifecycle")
             failure == Between("ready")
  <2>3. Popped \in AddonState /\ Sound(Popped, clears)
    BY <2>2, LegacyFacts, PoppedSound
  <2>4. next \in Loop /\ failure \in Loop /\ Fits(next, Popped) /\ Fits(failure, addon)
    BY FitsBetween
  <2>5. SaveTo(Popped, next, failure)
    BY <1>5 DEF Pop
  <2> HIDE DEF next, failure
  <2> QED
    BY <1>1, <2>3, <2>4, <2>5, TurnKeeps
<1>6. CASE loop' = Between("ready") /\ UNCHANGED <<addon, unsaved, troubles>>
  BY <1>1, <1>6, FitsBetween, TurnGoesOn
<1>7. CASE loop' = Between(IF loop.good THEN "lifecycle" ELSE "ready")
           /\ UNCHANGED <<addon, unsaved, troubles>>
  <2>1. loop' = Between("lifecycle") \/ loop' = Between("ready")
    BY <1>7
  <2> QED
    BY <1>1, <1>7, <2>1, FitsBetween, TurnGoesOn
<1> QED
  BY <1>3, <1>4, <1>5, <1>6, <1>7 DEF EndPass

LEMMA StopHolds ==
  ASSUME LegacyInv, Stop
  PROVE  LegacyInv'
<1>1. PICK s \in {addon} \union unsaved : addon' = s /\ outlook' = ReportUsed(s) /\ loop' = FirstPass(s)
  BY DEF Stop
<1>2. /\ Trouble /\ unsaved' = {} /\ known' = "unread" /\ evState' = [active |-> FALSE, clear |-> 0]
      /\ UNCHANGED <<clears, asked>> /\ enable' \in {"on", "off"}
  BY LegacyFacts DEF Stop
<1>3. addon' \in AddonState /\ Sound(addon', clears)
  BY <1>1, LegacyFacts
<1>4. loop' \in Loop /\ Fits(loop', addon')
  <2>1. CASE loop' = Between("request")
    BY <2>1, FitsBetween
  <2>2. CASE loop' = [Between("recheck") EXCEPT !.kind = "start"]
    <3>1. FALSE \in BOOLEAN /\ TRUE \in BOOLEAN
      OBVIOUS
    <3>2. loop' \in Loop /\ loop'.at = "recheck" /\ loop'.kind = "start" /\ ~loop'.trust
      BY <2>2, <3>1 DEF Between, Loop, Places
    <3> QED
      BY <3>2 DEF Fits
  <2> QED
    BY <1>1, <2>1, <2>2 DEF FirstPass
<1>5. evState' \in [active : BOOLEAN, clear : 0 .. ClearReports - 1]
  <2>1. FALSE \in BOOLEAN /\ 0 \in 0 .. ClearReports - 1
    BY ReportsFacts
  <2> QED
    BY <1>2, <2>1
<1>6. outlook' \in [ev : {"charging", "clear", "unknown"}, report : BOOLEAN, dispatch : BOOLEAN]
  BY <1>1, ReportTyped
<1>7. troubles' \in 0 .. Troubles /\ known' \in Knowledge
  BY <1>2, LegacyFacts DEF Knowledge
<1> QED
  BY <1>2, <1>3, <1>4, <1>5, <1>6, <1>7 DEF LegacyInv, RestOK, Books, PlaceOK

LEMMA EvidenceHolds ==
  ASSUME LegacyInv, EvTurns \/ EvClears \/ DispatchTurns
  PROVE  LegacyInv'
<1>1. UNCHANGED <<addon, unsaved, known, evState, enable, loop, clears, troubles, asked>>
  BY DEF EvTurns, EvClears, DispatchTurns
<1>2. outlook' \in [ev : {"charging", "clear", "unknown"}, report : BOOLEAN, dispatch : BOOLEAN]
  <2>1. /\ outlook \in [ev : {"charging", "clear", "unknown"}, report : BOOLEAN, dispatch : BOOLEAN]
        /\ TRUE \in BOOLEAN /\ (~outlook.dispatch) \in BOOLEAN
    BY DEF LegacyInv, RestOK
  <2>2. CASE EvTurns
    <3>1. PICK e \in {"charging", "clear", "unknown"} \ {outlook.ev}, report \in BOOLEAN :
              outlook' = [outlook EXCEPT !.ev = e, !.report = report]
      BY <2>2 DEF EvTurns
    <3> QED
      BY <2>1, <3>1
  <2>3. CASE EvClears
    BY <2>1, <2>3 DEF EvClears
  <2>4. CASE DispatchTurns
    BY <2>1, <2>4 DEF DispatchTurns
  <2> QED
    BY <2>2, <2>3, <2>4
<1> QED
  BY <1>1, <1>2 DEF LegacyInv, RestOK, Books, PlaceOK

\* A record whose window has ended says what it said.
LEMMA EndOfSound ==
  ASSUME NEW s \in AddonState
  PROVE  /\ EndOf(s) \in AddonState /\ EndOf(s).ev = s.ev /\ EndOf(s).steps = s.steps
         /\ EndOf(s).dispatch.kept = s.dispatch.kept
         /\ EndOf(s).dispatch.confirmed = s.dispatch.confirmed
         /\ EndOf(s).dispatch.end # "ahead"
         /\ \A n : Sound(s, n) => Sound(EndOf(s), n)
<1> DEFINE d == [s.dispatch EXCEPT !.end = Ended(@)]
<1>1. s.dispatch \in HoldRec /\ Ended(s.dispatch.end) \in Windows /\ Ended(s.dispatch.end) # "ahead"
  BY AddonFields, RecFields DEF Ended, Windows
<1>2. /\ d \in HoldRec /\ d.kept = s.dispatch.kept /\ d.confirmed = s.dispatch.confirmed
      /\ d.pending = s.dispatch.pending /\ d.clear = s.dispatch.clear /\ d.end # "ahead"
  BY <1>1 DEF HoldRec
<1>3. EndOf(s) = [s EXCEPT !.dispatch = d]
  BY DEF EndOf, AddonState
<1> HIDE DEF d
<1>4. /\ EndOf(s) \in AddonState /\ EndOf(s).ev = s.ev /\ EndOf(s).steps = s.steps
      /\ EndOf(s).target = s.target /\ EndOf(s).dispatch = d
  BY <1>2, <1>3 DEF AddonState
<1> QED
  BY <1>2, <1>4 DEF Sound, Blank

LEMMA DispatchEndsHolds ==
  ASSUME LegacyInv, DispatchEnds
  PROVE  LegacyInv'
<1>1. /\ addon' = EndOf(addon) /\ unsaved' = {EndOf(s) : s \in unsaved} /\ known' = Ended(known)
      /\ loop' = [loop EXCEPT !.known = Ended(@)]
      /\ outlook' = [outlook EXCEPT !.dispatch = FALSE]
      /\ UNCHANGED <<evState, enable, clears, troubles, asked>>
  BY DEF DispatchEnds
<1>2. /\ addon' \in AddonState /\ unsaved' \subseteq AddonState
      /\ \A s \in {addon'} \union unsaved' : Sound(s, clears)
  BY <1>1, LegacyFacts, EndOfSound
<1>3. known' \in Knowledge /\ Ended(loop.known) \in Knowledge
      /\ (loop.known # "unread" => Ended(loop.known) # "unread")
  BY <1>1, LegacyFacts DEF Knowledge, Ended, Windows, Loop
<1>4. /\ loop' \in Loop /\ loop'.at = loop.at /\ loop'.kind = loop.kind /\ loop'.trust = loop.trust
      /\ loop'.known = Ended(loop.known)
  BY <1>1, <1>3, LegacyFacts DEF Loop, Knowledge
<1>5. Fits(loop', addon')
  BY <1>1, <1>3, <1>4, LegacyFacts, EndOfSound DEF Fits
<1>6. outlook' \in [ev : {"charging", "clear", "unknown"}, report : BOOLEAN, dispatch : BOOLEAN]
  <2>1. FALSE \in BOOLEAN
    OBVIOUS
  <2> QED
    BY <1>1, <2>1 DEF LegacyInv, RestOK
<1> QED
  BY <1>1, <1>2, <1>3, <1>4, <1>5, <1>6 DEF LegacyInv, RestOK, Books, PlaceOK

LEMMA OwnerHolds ==
  ASSUME LegacyInv, OwnerSwitches
  PROVE  LegacyInv'
<1>1. /\ Trouble /\ enable' \in {"on", "off"}
      /\ UNCHANGED <<addon, unsaved, known, evState, outlook, loop, clears, asked>>
  BY DEF OwnerSwitches
<1> QED
  BY <1>1, LegacyFacts, KeepsRest

-----------------------------------------------------------------------------
(* The protection holds: what a pass makes of its evidence *)

\* The clear reports that a pass has counted.
Counted == IF Counts THEN (IF clears < ClearReports THEN clears + 1 ELSE clears) ELSE clears

\* The state an EV hold had before the pass, and after it.
LEMMA EvBeforeTyped ==
  ASSUME LegacyInv
  PROVE  /\ EvBefore.active \in BOOLEAN /\ EvBefore.clear \in 0 .. ClearReports - 1
         /\ addon.ev.kept => /\ EvBefore.active <=> \/ addon.ev.confirmed /\ ~addon.ev.pending
                                                    \/ Rearms(addon.ev)
                             /\ EvBefore.clear = IF Rearms(addon.ev) THEN 0 ELSE addon.ev.clear
<1>1. /\ addon.ev \in HoldRec /\ 0 \in 0 .. ClearReports - 1
      /\ evState \in [active : BOOLEAN, clear : 0 .. ClearReports - 1]
  BY LegacyFacts, ReportsFacts DEF LegacyInv, RestOK
<1>2. CASE ~addon.ev.kept
  BY <1>1, <1>2 DEF EvBefore
<1>3. CASE addon.ev.kept
  <2> DEFINE a == (addon.ev.confirmed /\ ~addon.ev.pending) \/ Rearms(addon.ev)
             c == IF Rearms(addon.ev) THEN 0 ELSE addon.ev.clear
  <2>1. EvBefore = [active |-> a, clear |-> c]
    BY <1>3 DEF EvBefore
  <2>2. c \in 0 .. ClearReports - 1
    BY <1>1, RecFields
  <2>3. a \in BOOLEAN
    BY DEF Rearms
  <2> QED
    BY <2>1, <2>2, <2>3
<1> QED
  BY <1>2, <1>3

LEMMA NextEvTyped ==
  ASSUME NEW active \in BOOLEAN, NEW clear \in 0 .. ClearReports - 1, NEW exception \in BOOLEAN,
         outlook.ev \in {"charging", "clear", "unknown"}
  PROVE  LET next == NextEv(active, clear, exception)
         IN  /\ next \in [active : BOOLEAN, clear : 0 .. ClearReports - 1]
             /\ outlook.ev = "unknown" => next.active = active /\ next.clear = 0
             /\ outlook.ev = "charging" => (next.active <=> active \/ ~exception) /\ next.clear = 0
             /\ outlook.ev = "clear" /\ ~active => ~next.active /\ next.clear = 0
             /\ outlook.ev = "clear" /\ active /\ clear > 0 /\ ~outlook.report =>
                    next.active /\ next.clear = clear
             /\ outlook.ev = "clear" /\ active /\ ~(clear > 0 /\ ~outlook.report) =>
                    /\ next.clear <= clear + 1
                    /\ ~next.active => clear + 1 >= ClearReports
<1> DEFINE next == NextEv(active, clear, exception)
<1>1. clear \in Nat /\ ClearReports \in Nat /\ 0 \in 0 .. ClearReports - 1
  BY ReportsFacts
<1>2. CASE outlook.ev = "unknown"
  <2>1. next = [active |-> active, clear |-> 0]
    BY <1>2 DEF NextEv
  <2> HIDE DEF next
  <2> QED
    BY <1>1, <1>2, <2>1 DEF next
<1>3. CASE outlook.ev = "charging"
  <2> DEFINE a == active \/ ~exception
  <2>1. next = [active |-> a, clear |-> 0]
    BY <1>3 DEF NextEv
  <2>2. a \in BOOLEAN
    OBVIOUS
  <2>3. /\ next \in [active : BOOLEAN, clear : 0 .. ClearReports - 1]
        /\ (next.active <=> a) /\ next.clear = 0
    <3> HIDE DEF next, a
    <3> QED
      BY <1>1, <2>1, <2>2
  <2> QED
    BY <1>3, <2>3
<1>4. CASE outlook.ev = "clear"
  <2>1. CASE ~active
    <3>1. next = [active |-> FALSE, clear |-> 0]
      BY <1>4, <2>1 DEF NextEv
    <3>2. FALSE \in BOOLEAN
      OBVIOUS
    <3>3. next \in [active : BOOLEAN, clear : 0 .. ClearReports - 1] /\ ~next.active /\ next.clear = 0
      BY <1>1, <3>1, <3>2
    <3> QED
      BY <1>4, <2>1, <3>3
  <2>2. CASE active /\ clear > 0 /\ ~outlook.report
    <3>1. next = [active |-> TRUE, clear |-> clear]
      BY <1>4, <2>2 DEF NextEv
    <3>2. TRUE \in BOOLEAN
      OBVIOUS
    <3>3. next \in [active : BOOLEAN, clear : 0 .. ClearReports - 1] /\ next.active /\ next.clear = clear
      BY <1>1, <3>1, <3>2
    <3> QED
      BY <1>4, <2>2, <3>3
  <2>3. CASE active /\ ~(clear > 0 /\ ~outlook.report) /\ clear + 1 >= ClearReports
    <3>1. next = [active |-> FALSE, clear |-> 0]
      BY <1>4, <2>3 DEF NextEv
    <3>2. FALSE \in BOOLEAN
      OBVIOUS
    <3>3. next \in [active : BOOLEAN, clear : 0 .. ClearReports - 1] /\ ~next.active /\ next.clear = 0
      BY <1>1, <3>1, <3>2
    <3>4. next.clear <= clear + 1
      BY <1>1, <3>3
    <3> HIDE DEF next
    <3> QED
      BY <1>4, <2>3, <3>3, <3>4 DEF next
  <2>4. CASE active /\ ~(clear > 0 /\ ~outlook.report) /\ ~(clear + 1 >= ClearReports)
    <3>1. next = [active |-> TRUE, clear |-> clear + 1]
      BY <1>4, <2>4 DEF NextEv
    <3>2. TRUE \in BOOLEAN /\ clear + 1 \in 0 .. ClearReports - 1
      BY <1>1, <2>4
    <3>3. /\ next \in [active : BOOLEAN, clear : 0 .. ClearReports - 1] /\ next.active
          /\ next.clear = clear + 1
      BY <3>1, <3>2
    <3>4. next.clear <= clear + 1
      BY <1>1, <3>3
    <3> HIDE DEF next
    <3> QED
      BY <1>4, <2>4, <3>3, <3>4 DEF next
  <2> QED
    BY <2>1, <2>2, <2>3, <2>4
<1> QED
  BY <1>2, <1>3, <1>4

\* Counting keeps every record sound.
LEMMA CountedKeeps ==
  ASSUME LegacyInv
  PROVE  /\ Counted \in 0 .. ClearReports /\ Counted \in Nat
         /\ \A s : s \in AddonState /\ Sound(s, clears) => Sound(s, Counted)
<1>1. clears \in 0 .. ClearReports /\ ClearReports \in Nat
  BY ReportsFacts DEF LegacyInv, RestOK
<1>2. /\ Counted \in 0 .. ClearReports /\ Counted \in Nat /\ clears <= Counted
      /\ clears = ClearReports => Counted = ClearReports
  BY <1>1 DEF Counted
<1>3. ASSUME NEW s \in AddonState, Sound(s, clears)
      PROVE  Sound(s, Counted)
  <2>1. s.ev.clear \in Nat
    BY AddonFields, RecFields
  <2>2. s.ev.clear <= Counted
    BY <1>1, <1>2, <1>3, <2>1 DEF Sound
  <2> QED
    BY <1>2, <1>3, <2>2 DEF Sound
<1> QED
  BY <1>2, <1>3

\* A record that a pass has judged is released only when every report it needs was counted.
LEMMA JudgedSound ==
  ASSUME LegacyInv, NEW exception \in BOOLEAN,
         exception => outlook.ev = "charging" /\ ~EvBefore.active
  PROVE  LET next == NextEv(EvBefore.active, EvBefore.clear, exception)
             s    == [addon EXCEPT !.ev = EvRecord(next)]
         IN  /\ next \in [active : BOOLEAN, clear : 0 .. ClearReports - 1]
             /\ s \in AddonState /\ s.steps = addon.steps
             /\ s.ev.confirmed => (s.ev.pending <=> ~next.active)
             /\ Sound(s, Counted)
             /\ outlook.ev # "clear" /\ ~(addon.ev.pending /\ ~addon.ev.confirmed) => Sound(s, 0)
<1> DEFINE next == NextEv(EvBefore.active, EvBefore.clear, exception)
           e    == EvRecord(next)
           s    == [addon EXCEPT !.ev = EvRecord(next)]
           active == EvBefore.active
           clear == EvBefore.clear
<1>0. /\ active \in BOOLEAN /\ clear \in 0 .. ClearReports - 1
      /\ addon.ev.kept => /\ active <=> (addon.ev.confirmed /\ ~addon.ev.pending) \/ Rearms(addon.ev)
                          /\ clear = IF Rearms(addon.ev) THEN 0 ELSE addon.ev.clear
  BY EvBeforeTyped
<1>1. outlook.ev \in {"charging", "clear", "unknown"}
  BY DEF LegacyInv, RestOK
<1>2. /\ next \in [active : BOOLEAN, clear : 0 .. ClearReports - 1]
      /\ outlook.ev = "unknown" => next.active = active /\ next.clear = 0
      /\ outlook.ev = "charging" => (next.active <=> active \/ ~exception) /\ next.clear = 0
      /\ outlook.ev = "clear" /\ ~active => ~next.active /\ next.clear = 0
      /\ outlook.ev = "clear" /\ active /\ clear > 0 /\ ~outlook.report =>
             next.active /\ next.clear = clear
      /\ outlook.ev = "clear" /\ active /\ ~(clear > 0 /\ ~outlook.report) =>
             /\ next.clear <= clear + 1
             /\ ~next.active => clear + 1 >= ClearReports
  BY <1>0, <1>1, NextEvTyped
<1>3. Counts <=> outlook.ev = "clear" /\ active /\ (clear = 0 \/ outlook.report)
  BY DEF Counts
<1> HIDE DEF next, active, clear
<1>4. /\ addon \in AddonState /\ addon.ev \in HoldRec /\ Sound(addon, clears)
      /\ clears \in 0 .. ClearReports /\ ClearReports \in Nat
  BY LegacyFacts, ReportsFacts DEF LegacyInv, RestOK
<1>5. next.active \in BOOLEAN /\ next.clear \in 0 .. ClearReports - 1 /\ next.clear \in Nat
  BY <1>2, <1>4
\* The record of an EV hold.
<1>6. /\ e \in HoldRec /\ (e.kept <=> addon.ev.kept) /\ (e.confirmed <=> addon.ev.confirmed)
      /\ addon.ev.kept => e.clear = next.clear
      /\ ~addon.ev.kept => e.clear = 0 /\ ~e.pending
      /\ addon.ev.confirmed => (e.pending <=> ~next.active)
      /\ ~addon.ev.confirmed => (e.pending <=> addon.ev.pending)
  <2>0. addon.ev.kept \/ Blank(addon.ev)
    BY <1>4 DEF Sound
  <2>1. CASE ~addon.ev.kept
    <3>1. e = NoRec
      BY <2>1 DEF EvRecord
    <3> HIDE DEF e
    <3> QED
      BY <2>0, <2>1, <3>1, NoRecTypes DEF Blank
  <2>2. CASE addon.ev.kept /\ addon.ev.confirmed
    <3> DEFINE p == ~next.active
    <3>1. e = [addon.ev EXCEPT !.clear = next.clear, !.pending = p]
      BY <2>2 DEF EvRecord
    <3>2. p \in BOOLEAN
      OBVIOUS
    <3> HIDE DEF e, p
    <3>3. /\ e \in HoldRec /\ e.kept = addon.ev.kept /\ e.confirmed = addon.ev.confirmed
          /\ e.clear = next.clear /\ e.pending = p
      BY <1>4, <1>5, <3>1, <3>2 DEF HoldRec
    <3> QED
      BY <2>2, <3>3 DEF p
  <2>3. CASE addon.ev.kept /\ ~addon.ev.confirmed
    <3>1. e = [addon.ev EXCEPT !.clear = next.clear, !.pending = addon.ev.pending]
      BY <2>3 DEF EvRecord
    <3>2. addon.ev.pending \in BOOLEAN
      BY <1>4, RecFields
    <3> HIDE DEF e
    <3>3. /\ e \in HoldRec /\ e.kept = addon.ev.kept /\ e.confirmed = addon.ev.confirmed
          /\ e.clear = next.clear /\ e.pending = addon.ev.pending
      BY <1>4, <1>5, <3>1, <3>2 DEF HoldRec
    <3> QED
      BY <2>3, <3>3
  <2> QED
    BY <2>1, <2>2, <2>3
<1>7. s = [addon EXCEPT !.ev = e]
  OBVIOUS
<1> HIDE DEF e, s
<1>8. /\ s \in AddonState /\ s.ev = e /\ s.dispatch = addon.dispatch /\ s.steps = addon.steps
      /\ s.target = addon.target
  BY <1>4, <1>6, <1>7 DEF AddonState
<1>9. /\ e.kept \/ Blank(e)
      /\ s.dispatch.kept \/ Blank(s.dispatch)
      /\ e.kept /\ s.dispatch.kept => e.confirmed = s.dispatch.confirmed
      /\ s.steps \in Leaving => s.target = "observe"
  <2>1. e.kept \in BOOLEAN /\ e.confirmed \in BOOLEAN /\ addon.ev.confirmed \in BOOLEAN
        /\ addon.dispatch.confirmed \in BOOLEAN
    BY <1>4, <1>6, RecFields, AddonFields
  <2>2. e.confirmed = addon.ev.confirmed
    BY <1>6, <2>1
  <2> QED
    BY <1>4, <1>6, <1>8, <2>2 DEF Sound, Blank
\* Without a clear reading a confirmed hold goes on.
<1>10. ASSUME outlook.ev # "clear", addon.ev.confirmed
       PROVE  next.active
  <2>1. addon.ev.kept
    BY <1>4, <1>10 DEF Sound, Blank
  <2>2. active
    BY <1>0, <1>10, <2>1 DEF Rearms
  <2> QED
    BY <1>1, <1>2, <1>10, <2>2
<1>11. e.clear <= Counted
  <2>1. CASE ~addon.ev.kept
    BY <1>6, <2>1, CountedKeeps
  <2>2. CASE addon.ev.kept /\ next.clear = 0
    BY <1>6, <2>2, CountedKeeps
  <2>3. CASE addon.ev.kept /\ next.clear # 0
    <3>1. outlook.ev = "clear" /\ active
      BY <1>1, <1>2, <2>3
    <3>2. clear = addon.ev.clear /\ clear <= clears /\ clear \in Nat
      BY <1>0, <1>4, <2>3, <3>1, RecFields DEF Rearms, Sound
    <3>3. CASE clear > 0 /\ ~outlook.report
      <4>1. ~Counts /\ next.clear = clear
        BY <1>2, <1>3, <3>1, <3>2, <3>3
      <4> QED
        BY <1>6, <2>3, <3>2, <4>1 DEF Counted
    <3>4. CASE ~(clear > 0 /\ ~outlook.report)
      <4>1. Counts /\ next.clear <= clear + 1
        BY <1>2, <1>3, <3>1, <3>2, <3>4
      <4> QED
        BY <1>4, <1>5, <1>6, <2>3, <3>2, <4>1 DEF Counted
    <3> QED
      BY <3>3, <3>4
  <2> QED
    BY <2>1, <2>2, <2>3
<1>12. ASSUME e.pending
       PROVE  Counted = ClearReports \/ s.steps = Releasing
  <2>1. addon.ev.kept
    BY <1>6, <1>12
  <2>2. CASE addon.ev.pending
    <3>1. clears = ClearReports \/ addon.steps = Releasing
      BY <1>4, <2>2 DEF Sound
    <3>2. clears = ClearReports => Counted = ClearReports
      BY <1>4 DEF Counted
    <3> QED
      BY <1>8, <3>1, <3>2
  <2>3. CASE ~addon.ev.pending
    <3>1. addon.ev.confirmed /\ ~next.active
      BY <1>6, <1>12, <2>3
    <3>2. outlook.ev = "clear"
      BY <1>10, <3>1
    <3>3. active /\ ~Rearms(addon.ev)
      BY <1>0, <2>1, <2>3, <3>1 DEF Rearms
    <3>4. clear = addon.ev.clear /\ clear <= clears /\ clear \in Nat
      BY <1>0, <1>4, <2>1, <3>3, RecFields DEF Sound
    <3>5. ~(clear > 0 /\ ~outlook.report)
      BY <1>2, <3>1, <3>2, <3>3
    <3>6. Counts
      BY <1>3, <3>2, <3>3, <3>4, <3>5
    <3>7. clear + 1 >= ClearReports
      BY <1>2, <3>1, <3>2, <3>3, <3>5
    <3>8. Counted = ClearReports
      BY <1>4, <3>4, <3>6, <3>7 DEF Counted
    <3> QED
      BY <3>8
  <2> QED
    BY <2>2, <2>3
<1>13. Sound(s, Counted)
  BY <1>8, <1>9, <1>11, <1>12 DEF Sound
<1>14. ASSUME outlook.ev # "clear", ~(addon.ev.pending /\ ~addon.ev.confirmed)
       PROVE  Sound(s, 0)
  <2>1. ~e.pending
    BY <1>6, <1>10, <1>14
  <2>2. next.clear = 0
    BY <1>1, <1>2, <1>14
  <2>3. e.clear = 0
    BY <1>6, <2>2
  <2> QED
    BY <1>8, <1>9, <2>1, <2>3 DEF Sound
<1>15. s.ev.confirmed => (s.ev.pending <=> ~next.active)
  BY <1>6, <1>8
<1> QED
  BY <1>2, <1>8, <1>13, <1>14, <1>15 DEF s, next, active, clear

LEMMA JudgeHolds ==
  ASSUME LegacyInv, Judge
  PROVE  LegacyInv'
<1>1. PICK trust \in BOOLEAN, exception \in BOOLEAN, readable \in BOOLEAN :
        /\ exception => outlook.ev = "charging" /\ ~EvBefore.active
        /\ Judged(trust, exception, readable)
  BY DEF Judge
<1> DEFINE next    == NextEv(EvBefore.active, EvBefore.clear, exception)
           s       == [addon EXCEPT !.ev = EvRecord(next)]
           ticks   == loop.kind # "run"
           now     == IF outlook.dispatch THEN "ahead" ELSE "none"
           knows   == IF trust /\ ticks THEN now ELSE loop.known
           picture == Picture(s, trust, knows, next.active)
           ended   == ticks /\ ~trust /\ knows = "past"
           place   == CASE picture = "none"                     -> "done"
                        [] ended /\ ~readable                   -> "done"
                        [] ended /\ readable /\ ~next.active    -> "safe"
                        [] OTHER                                -> "act"
           learned == IF place = "safe" THEN "none"
                      ELSE IF trust /\ ~ticks THEN now ELSE knows
           on      == [loop EXCEPT !.at = place, !.trust = trust, !.active = next.active,
                                   !.window = picture = "hold", !.known = learned]
           back    == IF ticks THEN [Failed EXCEPT !.known = knows] ELSE Again
<1>2. /\ loop.at = "evidence" /\ UNCHANGED <<known, enable, asked>> /\ loop.kind # "release"
      /\ ~loop.trust /\ known \in Knowledge /\ loop \in Loop /\ loop.known \in Knowledge
  BY LegacyFacts DEF Judge, Fits, Loop, Knowledge
<1>3. /\ next \in [active : BOOLEAN, clear : 0 .. ClearReports - 1]
      /\ s \in AddonState /\ s.steps = addon.steps
      /\ s.ev.confirmed => (s.ev.pending <=> ~next.active)
      /\ Sound(s, Counted)
      /\ outlook.ev # "clear" /\ ~(addon.ev.pending /\ ~addon.ev.confirmed) => Sound(s, 0)
  BY <1>1, JudgedSound
<1>4. /\ SaveTo(s, on, back)
      /\ evState' = IF addon' = s THEN next ELSE evState
      /\ outlook' = IF addon' = s /\ Counts THEN [outlook EXCEPT !.report = FALSE] ELSE outlook
      /\ clears' = IF Counts THEN Counted
                   ELSE IF outlook.ev = "clear" \/ addon' # s \/ unsaved # {}
                           \/ (addon.ev.pending /\ ~addon.ev.confirmed)
                   THEN clears ELSE 0
  BY <1>1 DEF Judged, Counted
<1> HIDE DEF next, s
<1>5. place \in {"done", "safe", "act"} /\ (place = "safe" => ended /\ ~next.active)
  <2> HIDE DEF picture, ended
  <2>1. CASE picture = "none" \/ (ended /\ ~readable)
    <3>1. CASE picture = "none" /\ ended /\ readable /\ ~next.active
      BY <3>1
    <3>2. CASE ~(ended /\ readable /\ ~next.active)
      <4>1. place = "done"
        BY <2>1, <3>2
      <4> QED
        BY <4>1
    <3>3. CASE ended /\ ~readable
      <4>1. place = "done"
        BY <3>3
      <4> QED
        BY <4>1
    <3> QED
      BY <2>1, <3>1, <3>2, <3>3
  <2>2. CASE picture # "none" /\ ended /\ readable /\ ~next.active
    <3>1. place = "safe"
      BY <2>2
    <3> QED
      BY <2>2, <3>1
  <2>3. CASE picture # "none" /\ ~(ended /\ ~readable) /\ ~(ended /\ readable /\ ~next.active)
    <3>1. place = "act"
      BY <2>3
    <3> QED
      BY <3>1
  <2> QED
    BY <2>1, <2>2, <2>3
<1>6. knows \in Knowledge /\ learned \in Knowledge /\ (trust => learned # "unread")
  BY <1>2 DEF Knowledge, Windows
<1>7. (picture = "hold") \in BOOLEAN /\ next.active \in BOOLEAN /\ trust \in BOOLEAN
  BY <1>3
<1> HIDE DEF place, learned, picture, ended
<1>8. /\ on \in Loop /\ on.at = place /\ on.kind = loop.kind /\ on.trust = trust
      /\ on.known = learned
  <2>1. place \in Places
    BY <1>5 DEF Places
  <2> DEFINE w == picture = "hold"
  <2>2. on = [loop EXCEPT !.at = place, !.trust = trust, !.active = next.active, !.window = w,
                          !.known = learned]
    OBVIOUS
  <2>3. w \in BOOLEAN
    BY <1>7
  <2> HIDE DEF w, on
  <2> QED
    BY <1>2, <1>6, <1>7, <2>1, <2>2, <2>3 DEF Loop, Knowledge
<1> HIDE DEF on
<1>9. Fits(on, s)
  <2>1. on.at \in {"safe", "safeOn"} => (s.ev.confirmed => s.ev.pending)
    BY <1>3, <1>5, <1>8
  <2> QED
    BY <1>2, <1>3, <1>5, <1>6, <1>8, <2>1, LegacyFacts DEF Fits
<1>10. back \in Loop /\ Fits(back, addon)
  <2>1. "done" \in Places
    BY DEF Places
  <2>2. CASE ticks
    <3>1. Failed \in Loop /\ Failed.at = "done" /\ Failed.kind = loop.kind /\ Failed.trust = loop.trust
      BY <1>2, <2>1, LoopMoves
    <3>2. back = [Failed EXCEPT !.known = knows]
      BY <2>2
    <3> HIDE DEF knows, back
    <3>3. /\ back \in Loop /\ back.at = "done" /\ back.kind = loop.kind /\ back.trust = loop.trust
      BY <1>6, <3>1, <3>2 DEF Loop, Knowledge
    <3> QED
      BY <1>2, <3>3, LegacyFacts DEF Fits
  <2>3. CASE ~ticks
    <3>1. Again \in Loop /\ Again.at = "recheck" /\ Again.kind = "tick" /\ ~Again.trust
      BY <1>2, <2>1, LoopMoves
    <3>2. back = Again
      BY <2>3
    <3> HIDE DEF back
    <3> QED
      BY <3>1, <3>2 DEF Fits
  <2> QED
    BY <2>2, <2>3
<1> HIDE DEF back, ticks, knows
<1>11. /\ Counted \in 0 .. ClearReports /\ Sound(addon, Counted)
       /\ \A t \in unsaved : Sound(t, Counted) /\ Sound(t, clears)
       /\ Sound(addon, clears) /\ addon \in AddonState /\ unsaved \subseteq AddonState
       /\ clears \in 0 .. ClearReports
  BY LegacyFacts, CountedKeeps DEF LegacyInv, RestOK
\* What is saved, or kept for the next try.
<1>12. /\ addon' \in AddonState /\ unsaved' \subseteq AddonState /\ troubles' \in 0 .. Troubles
       /\ loop' \in Loop /\ Fits(loop', addon')
       /\ addon' \in {addon, s} /\ unsaved' \subseteq unsaved \union {s}
       /\ addon' = s => unsaved' = unsaved
  <2>1. CASE addon' = s /\ loop' = on /\ UNCHANGED <<unsaved, troubles>>
    BY <1>3, <1>8, <1>9, <1>11, <2>1, LegacyFacts
  <2>2. CASE /\ s # addon /\ loop' = back /\ UNCHANGED addon
             /\ \/ unsaved = {} /\ Trouble /\ unsaved' = {s}
                \/ unsaved # {} /\ UNCHANGED <<unsaved, troubles>>
    BY <1>3, <1>10, <1>11, <2>2, LegacyFacts
  <2> QED
    BY <1>4, <2>1, <2>2 DEF SaveTo
<1>13. clears' \in 0 .. ClearReports /\ \A t \in {addon'} \union unsaved' : Sound(t, clears')
  <2>1. CASE clears' = Counted
    BY <1>3, <1>11, <1>12, <2>1
  <2>2. CASE clears' = clears /\ ~Counts
    BY <1>3, <1>11, <1>12, <2>2 DEF Counted
  <2>3. CASE /\ clears' = 0 /\ outlook.ev # "clear" /\ addon' = s /\ unsaved = {}
             /\ ~(addon.ev.pending /\ ~addon.ev.confirmed)
    <3>1. 0 \in 0 .. ClearReports
      BY ReportsFacts
    <3> QED
      BY <1>3, <1>12, <2>3, <3>1
  <2> QED
    BY <1>4, <2>1, <2>2, <2>3
<1>14. /\ evState' \in [active : BOOLEAN, clear : 0 .. ClearReports - 1]
       /\ outlook' \in [ev : {"charging", "clear", "unknown"}, report : BOOLEAN, dispatch : BOOLEAN]
  <2>1. /\ outlook \in [ev : {"charging", "clear", "unknown"}, report : BOOLEAN, dispatch : BOOLEAN]
        /\ evState \in [active : BOOLEAN, clear : 0 .. ClearReports - 1] /\ FALSE \in BOOLEAN
    BY DEF LegacyInv, RestOK
  <2> QED
    BY <1>3, <1>4, <2>1
<1> QED
  BY <1>2, <1>12, <1>13, <1>14 DEF LegacyInv, RestOK, Books, PlaceOK

LEMMA NextHolds == LegacyInv /\ [LegacyNext]_legacyVars => LegacyInv'
<1> SUFFICES ASSUME LegacyInv, [LegacyNext]_legacyVars PROVE LegacyInv'
  OBVIOUS
<1>1. CASE LegacyStep
  BY <1>1, RequestHolds, RetrySaveHolds, LifecycleHolds, StartPassHolds, RecheckHolds, JudgeHolds,
     ActHolds, ScheduleHolds, WriteEnableHolds, ReadBackHolds, SafeSwitchHolds, EndPassHolds
  DEF LegacyStep
<1>2. CASE Stop
  BY <1>2, StopHolds
<1>3. CASE EvTurns \/ EvClears \/ DispatchTurns
  BY <1>3, EvidenceHolds
<1>4. CASE DispatchEnds
  BY <1>4, DispatchEndsHolds
<1>5. CASE OwnerSwitches
  BY <1>5, OwnerHolds
<1>6. CASE UNCHANGED legacyVars
  BY <1>6 DEF legacyVars, LegacyInv, RestOK, Books, PlaceOK, Fits
<1> QED
  BY <1>1, <1>2, <1>3, <1>4, <1>5, <1>6 DEF LegacyNext

\* The add-on's modes, records, evidence and the places of its loop are what LegacyTypeOK says, in
\* every behaviour of the daemon, its owner and its failures.
THEOREM HoldTypeCorrect == LegacySpec => []LegacyTypeOK
<1>1. LegacyInv => LegacyTypeOK
  BY DEF LegacyInv, RestOK, Books, LegacyTypeOK, Knowledge
<1> QED
  BY <1>1, InitHolds, NextHolds, PTL DEF LegacySpec

\* The step that turns the switch On while a hold stands.
LEMMA OnlyEvidenceEnds ==
  ASSUME LegacyInv, [LegacyNext]_legacyVars,
         enable = "off", enable' = "on", loop' # loop, loop.kind # "release"
  PROVE  /\ addon.ev.confirmed => clears = ClearReports
         /\ (addon.dispatch.confirmed /\ addon.dispatch.end = "ahead")
               => loop.trust \/ loop.at = "safeOn"
<1>1. CASE WriteEnable
  <2>1. loop.at \in {"on", "safeOn"}
    BY <1>1 DEF WriteEnable
  <2>2. addon.ev.confirmed => addon.ev.pending /\ addon.steps # Releasing
    BY <2>1, LegacyFacts DEF Fits
  <2>3. addon.ev.confirmed => clears = ClearReports
    BY <2>2, LegacyFacts DEF Sound
  <2>4. addon.dispatch.confirmed /\ addon.dispatch.end = "ahead" => loop.trust \/ loop.at = "safeOn"
    BY <2>1, LegacyFacts DEF Fits
  <2> QED
    BY <2>3, <2>4
<1>2. CASE Stop
  <2>1. ~KeepsHold
    BY <1>2 DEF Stop
  <2>2. ~addon.ev.confirmed /\ (addon.dispatch.confirmed => addon.dispatch.kept)
    BY <2>1, LegacyFacts DEF KeepsHold, Sound, Blank
  <2> QED
    BY <2>1, <2>2 DEF KeepsHold
<1>3. CASE UNCHANGED enable
  BY <1>3
<1>4. CASE UNCHANGED loop
  BY <1>4
<1>5. WriteEnable \/ Stop \/ UNCHANGED enable \/ UNCHANGED loop
  BY DEF LegacyNext, LegacyStep, legacyVars, Request, RetrySave, Lifecycle, StartPass, Recheck,
         Judge, Act, Schedule, ReadBack, SafeSwitch, EndPass, EvTurns, EvClears, DispatchTurns,
         DispatchEnds, OwnerSwitches
<1> QED
  BY <1>1, <1>2, <1>3, <1>4, <1>5

\* A hold that was read back is ended only by its evidence, whatever was saved, lost or restarted
\* meanwhile and for every number of clear reports, requests and troubles.
THEOREM HoldsEndByEvidence == LegacySpec => HoldKept
<1>1. LegacyInv /\ [LegacyNext]_legacyVars =>
        [enable = "off" /\ enable' = "on" /\ loop' # loop /\ loop.kind # "release" =>
          /\ addon.ev.confirmed => clears = ClearReports
          /\ (addon.dispatch.confirmed /\ addon.dispatch.end = "ahead")
                => loop.trust \/ loop.at = "safeOn"]_legacyVars
  BY OnlyEvidenceEnds
<1> QED
  BY <1>1, InitHolds, NextHolds, PTL DEF LegacySpec, HoldKept

-----------------------------------------------------------------------------
(* The settings store: the inductive invariant *)

File == [rev : Nat, is : Settings(Ids) \union {None}]
Dirs == [Names -> File]

\* What a load of directory d would go by.
RecoversOn(d) == Torn(d) /\ Pair(d, "config.prev", "secrets.prev")
Reads(d)      == d["initialised"] # Gone /\ (Pair(d, "config", "secrets") \/ RecoversOn(d))
FoundOn(d)    == d[IF RecoversOn(d) THEN "config.prev" ELSE "config"]

\* One revision has one content, in the two files of a pair and in a file and its predecessor.
OneContent(d) ==
    /\ d["config"].rev > 0 /\ d["config"].rev = d["secrets"].rev
          => d["config"].is = d["secrets"].is
    /\ d["config"].rev > 0 /\ d["config"].rev = d["config.prev"].rev
          => d["config"].is = d["config.prev"].is

\* Whatever a load finds in d is among the settings h; it has a valid fallback schedule where
\* one is demanded, or the pending marker makes the load judge it.
Safe(d, h, demanded) ==
    /\ d \in Dirs /\ OneContent(d) /\ d["initialised"] \in {Gone, Old, New}
    /\ d["initialised"] # New => {1, 2} \subseteq h
    /\ Reads(d) => /\ FoundOn(d).is.id \in h
                   /\ demanded => d["pending"] # Gone \/ FoundOn(d).is.fallback

\* The operations take d to e through directories that are all safe.
After(d, op) == IF op.name = "sync" THEN d ELSE [d EXCEPT ![op.name] = op.file]
Ops == Seq([name : Names \union {"sync"}, file : File])
Leads(f, d, ops, e, h, demanded) ==
    /\ f[0] = d /\ f[Len(ops)] = e
    /\ \A k \in 1 .. Len(ops) : f[k] = After(f[k - 1], ops[k]) /\ Safe(f[k], h, demanded)
Runs(d, ops, e, h, demanded) ==
    ops \in Ops /\ \E f \in [0 .. Len(ops) -> Dirs] : Leads(f, d, ops, e, h, demanded)

Job == [for : {"nothing", "load", "save", "import"}, ops : Ops, rev : Nat,
        is : Settings(Ids) \union {None}]
Demanded == grant.mode = "optimise" /\ ~unguarded
\* Directory d bears s as the committed pair of revision rev, of a migrated store.
Bears(d, rev, s) == /\ d["config"] = Content(rev, s) /\ d["secrets"] = Content(rev, s)
                    /\ d["initialised"] = New
EndsSynced(ops) == ops # <<>> /\ ops[Len(ops)].name = "sync"

\* What may be on disk now, or after a power cut.
DisksSafe == \A d \in {disk} \union past : Safe(d, hope, Demanded)
\* A job ends with its settings committed.
JobLeads ==
    job # Idle =>
      \E e \in Dirs : /\ Runs(disk, job.ops, e, hope, Demanded) /\ Bears(e, job.rev, job.is)
                      /\ job.for = "save" /\ Restarts(job.is) => e["pending"] # Gone
JobOK ==
    job # Idle =>
      /\ job.for \in {"load", "save", "import"} /\ job.rev \in Nat \ {0}
      /\ job.is \in Settings(Ids)
      /\ job.for = "load" => /\ daemon = "loading" /\ ~storeFailed /\ job.is.id \in hope
                             /\ Demanded => job.is.fallback
      /\ job.for = "save" => /\ daemon = "up" /\ ~storeFailed
                             /\ grant.mode = "optimise" =>
                                   job.is.fallback \/ (~grant.known /\ ~live.fallback)
      /\ job.for = "import" => /\ daemon = "repair"
                               /\ grant.mode = "optimise" => job.is.fallback
      /\ job.for # "load" => IF job.ops = <<>> THEN past = {} ELSE EndsSynced(job.ops)
Committed ==
    daemon = "up" /\ job = Idle /\ ~storeFailed =>
        /\ Bears(disk, stored.rev, stored.is)
        /\ live = stored.is \/ disk["pending"] # Gone
Judges ==
    judging # None => /\ daemon = "up" /\ judging \in Settings(Ids) /\ judging.fallback
                      /\ grant = [mode |-> "observe", known |-> TRUE]
StoreShape ==
    /\ install \in Installs /\ hope \subseteq Ids /\ saves \in 0 .. Saves
    /\ daemon \in {"down", "loading", "repair", "up"} /\ job \in Job
    /\ daemon = "loading" => job # Idle /\ job.for = "load"
    /\ grant \in [mode : {"observe", "optimise", "lost"}, known : BOOLEAN]
    /\ storeFailed \in BOOLEAN /\ unguarded \in BOOLEAN
    /\ live \in Settings(Ids) \union {None} /\ stored \in File
    /\ daemon = "up" => live \in Settings(Ids) /\ stored.rev > 0 /\ stored.is \in Settings(Ids)
StoreInv == /\ StoreShape /\ DisksSafe /\ JobLeads /\ JobOK /\ Committed /\ Judges
            /\ OptimiseGuarded

-----------------------------------------------------------------------------
(* The settings store: runs of directory operations *)

LEMMA NamesDistinct ==
  /\ "config" \in Names /\ "secrets" \in Names /\ "config.prev" \in Names
  /\ "secrets.prev" \in Names /\ "initialised" \in Names /\ "pending" \in Names
  /\ "sync" \notin Names /\ None \in Settings(Ids) \union {None}
  /\ Gone \in File /\ Old \in File /\ New \in File /\ Gone # New /\ Gone # Old /\ Old # New
BY DEF Names, Files, File, Gone, Old, New

\* A file written, and what the others then are.
LEMMA AfterOp ==
  ASSUME NEW d \in Dirs, NEW n \in Names, NEW file \in File
  PROVE  LET op == [name |-> n, file |-> file]
         IN  /\ After(d, op) = [d EXCEPT ![n] = file] /\ After(d, op) \in Dirs
             /\ After(d, op)[n] = file
             /\ \A m \in Names \ {n} : After(d, op)[m] = d[m]
BY NamesDistinct DEF After, Dirs

LEMMA RunNone ==
  ASSUME NEW d \in Dirs, NEW h, NEW g
  PROVE  Runs(d, <<>>, d, h, g)
<1> DEFINE f == [k \in 0 .. 0 |-> d]
<1>1. <<>> \in Ops /\ Len(<<>>) = 0
  BY DEF Ops
<1>2. f \in [0 .. Len(<<>>) -> Dirs]
  BY <1>1
<1>3. Leads(f, d, <<>>, d, h, g)
  BY <1>1 DEF Leads
<1> QED
  BY <1>1, <1>2, <1>3 DEF Runs

LEMMA RunEnd ==
  ASSUME NEW d, NEW e, NEW h, NEW g, Runs(d, <<>>, e, h, g)
  PROVE  d = e
BY DEF Runs, Leads

\* One operation, done or a sync.
LEMMA RunOne ==
  ASSUME NEW d \in Dirs, NEW op \in [name : Names \union {"sync"}, file : File],
         NEW h, NEW g, Safe(After(d, op), h, g)
  PROVE  Runs(d, <<op>>, After(d, op), h, g)
<1> DEFINE e == After(d, op)
           f == [k \in 0 .. 1 |-> IF k = 0 THEN d ELSE e]
<1>1. <<op>> \in Ops /\ Len(<<op>>) = 1 /\ <<op>>[1] = op
  BY DEF Ops
<1>2. e \in Dirs
  BY DEF Safe
<1>3. f \in [0 .. Len(<<op>>) -> Dirs] /\ f[0] = d /\ f[1] = e
  BY <1>1, <1>2
<1> HIDE DEF f, e
<1>4. Leads(f, d, <<op>>, e, h, g)
  <2>1. \A k \in 1 .. 1 : k = 1 /\ k - 1 = 0
    OBVIOUS
  <2>2. Safe(e, h, g) /\ e = After(d, op)
    BY DEF e
  <2> QED
    BY <1>1, <1>3, <2>1, <2>2 DEF Leads
<1> QED
  BY <1>1, <1>3, <1>4 DEF Runs, e

\* Runs one after the other.
LEMMA RunCat ==
  ASSUME NEW d, NEW s, NEW e, NEW t, NEW z, NEW h, NEW g,
         Runs(d, s, e, h, g), Runs(e, t, z, h, g)
  PROVE  Runs(d, s \o t, z, h, g)
<1>1. PICK f \in [0 .. Len(s) -> Dirs] : Leads(f, d, s, e, h, g)
  BY DEF Runs
<1>2. PICK k \in [0 .. Len(t) -> Dirs] : Leads(k, e, t, z, h, g)
  BY DEF Runs
<1>3. /\ s \in Ops /\ t \in Ops /\ s \o t \in Ops /\ Len(s) \in Nat /\ Len(t) \in Nat
      /\ Len(s \o t) = Len(s) + Len(t)
      /\ \A i \in 1 .. Len(s) : (s \o t)[i] = s[i]
      /\ \A i \in 1 .. Len(s) + Len(t) : i > Len(s) => (s \o t)[i] = t[i - Len(s)]
  BY DEF Runs, Ops
<1> DEFINE n == Len(s)
           j == [i \in 0 .. n + Len(t) |-> IF i <= n THEN f[i] ELSE k[i - n]]
<1>4. j \in [0 .. Len(s \o t) -> Dirs]
  BY <1>1, <1>2, <1>3
<1>5. j[0] = d /\ j[n] = e /\ j[n + Len(t)] = z
  BY <1>1, <1>2, <1>3 DEF Leads
<1>6. \A i \in 1 .. Len(s \o t) :
        j[i] = After(j[i - 1], (s \o t)[i]) /\ Safe(j[i], h, g)
  <2> SUFFICES ASSUME NEW i \in 1 .. Len(s \o t)
               PROVE  j[i] = After(j[i - 1], (s \o t)[i]) /\ Safe(j[i], h, g)
    OBVIOUS
  <2>1. CASE i <= n
    <3>1. i \in 1 .. Len(s) /\ j[i] = f[i] /\ j[i - 1] = f[i - 1] /\ (s \o t)[i] = s[i]
      BY <2>1, <1>3
    <3> QED
      BY <3>1, <1>1 DEF Leads
  <2>2. CASE i > n
    <3>1. i - n \in 1 .. Len(t) /\ j[i] = k[i - n] /\ (s \o t)[i] = t[i - n]
      BY <2>2, <1>3
    <3>2. j[i - 1] = k[i - n - 1]
      <4>1. CASE i = n + 1
        BY <4>1, <1>5, <1>2, <1>3 DEF Leads
      <4>2. CASE i # n + 1
        BY <4>2, <2>2, <1>3
      <4> QED
        BY <4>1, <4>2
    <3> HIDE DEF j
    <3> QED
      BY <3>1, <3>2, <1>2 DEF Leads
  <2> QED
    BY <2>1, <2>2, <1>3
<1> HIDE DEF j
<1> QED
  BY <1>3, <1>4, <1>5, <1>6 DEF Runs, Leads

\* The first operation of a run is done: what is left is a run from where it leads.
LEMMA RunStep ==
  ASSUME NEW d, NEW s, s # <<>>, NEW e, NEW h, NEW g, Runs(d, s, e, h, g)
  PROVE  /\ Safe(After(d, Head(s)), h, g)
         /\ Runs(After(d, Head(s)), Tail(s), e, h, g)
<1>1. PICK f \in [0 .. Len(s) -> Dirs] : Leads(f, d, s, e, h, g)
  BY DEF Runs
<1>2. /\ s \in Ops /\ Len(s) \in Nat /\ Len(s) >= 1 /\ Head(s) = s[1] /\ Tail(s) \in Ops
      /\ Len(Tail(s)) = Len(s) - 1
      /\ \A i \in 1 .. Len(s) - 1 : Tail(s)[i] = s[i + 1]
  BY DEF Runs, Ops
<1>3. f[1] = After(d, Head(s)) /\ Safe(f[1], h, g)
  <2>1. 1 \in 1 .. Len(s) /\ 1 - 1 = 0
    BY <1>2
  <2> QED
    BY <1>1, <1>2, <2>1 DEF Leads
<1> DEFINE k == [i \in 0 .. Len(s) - 1 |-> f[i + 1]]
<1>4. k \in [0 .. Len(Tail(s)) -> Dirs]
  BY <1>1, <1>2
<1>5. k[0] = f[1] /\ k[Len(Tail(s))] = e
  BY <1>1, <1>2 DEF Leads
<1>6. \A i \in 1 .. Len(Tail(s)) : k[i] = After(k[i - 1], Tail(s)[i]) /\ Safe(k[i], h, g)
  <2> SUFFICES ASSUME NEW i \in 1 .. Len(Tail(s))
               PROVE  k[i] = After(k[i - 1], Tail(s)[i]) /\ Safe(k[i], h, g)
    OBVIOUS
  <2>1. /\ i + 1 \in 1 .. Len(s) /\ k[i] = f[i + 1] /\ k[i - 1] = f[i]
        /\ Tail(s)[i] = s[i + 1] /\ (i + 1) - 1 = i
    BY <1>2
  <2> HIDE DEF k
  <2> QED
    BY <2>1, <1>1 DEF Leads
<1> HIDE DEF k
<1> QED
  BY <1>2, <1>3, <1>4, <1>5, <1>6 DEF Runs, Leads

-----------------------------------------------------------------------------
(* The settings store: operations that are safe *)

LEMMA OpRuns ==
  ASSUME NEW d \in Dirs, NEW n \in Names, NEW file \in File, NEW h, NEW g,
         Safe([d EXCEPT ![n] = file], h, g)
  PROVE  Runs(d, Op(n, file), [d EXCEPT ![n] = file], h, g)
<1>1. [name |-> n, file |-> file] \in [name : Names \union {"sync"}, file : File]
  OBVIOUS
<1> QED
  BY <1>1, AfterOp, RunOne DEF Op

LEMMA SyncRuns ==
  ASSUME NEW d, NEW h, NEW g, Safe(d, h, g)
  PROVE  Runs(d, Sync, d, h, g)
<1>1. d \in Dirs
  BY DEF Safe
<1>2. [name |-> "sync", file |-> Gone] \in [name : Names \union {"sync"}, file : File]
  BY NamesDistinct
<1>3. After(d, [name |-> "sync", file |-> Gone]) = d
  BY DEF After
<1> QED
  BY <1>1, <1>2, <1>3, RunOne DEF Sync

\* The marker of a pending restart set, or taken off a pair that needs no judging.
LEMMA PendRuns ==
  ASSUME NEW d, NEW h, NEW g, Safe(d, h, g)
  PROVE  LET e == [d EXCEPT !["pending"] = New]
         IN  /\ Safe(e, h, g) /\ Runs(d, Op("pending", New) \o Sync, e, h, g)
             /\ e["pending"] = New /\ \A n \in Names \ {"pending"} : e[n] = d[n]
<1> DEFINE e == [d EXCEPT !["pending"] = New]
<1>1. d \in Dirs
  BY DEF Safe
<1>2. e \in Dirs /\ e["pending"] = New /\ \A n \in Names \ {"pending"} : e[n] = d[n]
  BY <1>1, NamesDistinct DEF Dirs
<1> HIDE DEF e
<1>3. Safe(e, h, g)
  BY <1>1, <1>2, NamesDistinct DEF Safe, OneContent, Reads, FoundOn, RecoversOn, Pair, Torn
<1>4. Runs(d, Op("pending", New), e, h, g)
  BY <1>1, <1>3, OpRuns, NamesDistinct DEF e
<1>5. Runs(e, Sync, e, h, g)
  BY <1>3, SyncRuns
<1> QED
  BY <1>2, <1>3, <1>4, <1>5, RunCat DEF e

LEMMA UnpendRuns ==
  ASSUME NEW d, NEW h, NEW g, Safe(d, h, g), Pair(d, "config", "secrets"),
         g => d["config"].is.fallback
  PROVE  LET e == [d EXCEPT !["pending"] = Gone]
         IN  /\ Safe(e, h, g) /\ Runs(d, Op("pending", Gone) \o Sync, e, h, g)
             /\ \A n \in Names \ {"pending"} : e[n] = d[n]
<1> DEFINE e == [d EXCEPT !["pending"] = Gone]
<1>1. d \in Dirs
  BY DEF Safe
<1>2. e \in Dirs /\ e["pending"] = Gone /\ \A n \in Names \ {"pending"} : e[n] = d[n]
  BY <1>1, NamesDistinct DEF Dirs
<1> HIDE DEF e
<1>3. Safe(e, h, g)
  BY <1>1, <1>2, NamesDistinct DEF Safe, OneContent, Reads, FoundOn, RecoversOn, Pair, Torn
<1>4. Runs(d, Op("pending", Gone), e, h, g)
  BY <1>1, <1>3, OpRuns, NamesDistinct DEF e
<1>5. Runs(e, Sync, e, h, g)
  BY <1>3, SyncRuns
<1> QED
  BY <1>2, <1>3, <1>4, <1>5, RunCat DEF e

\* The marker of a migrated store, on a directory that was marked or holds a sound pair.
LEMMA MarkRuns ==
  ASSUME NEW d, NEW h, NEW g, Safe(d, h, g),
         \/ d["initialised"] # Gone
         \/ /\ Pair(d, "config", "secrets") /\ d["config"].is.id \in h
            /\ g => d["config"].is.fallback
  PROVE  LET e == [d EXCEPT !["initialised"] = New]
         IN  /\ Safe(e, h, g) /\ Runs(d, Mark, e, h, g)
             /\ e["initialised"] = New /\ \A n \in Names \ {"initialised"} : e[n] = d[n]
<1> DEFINE e == [d EXCEPT !["initialised"] = New]
<1>1. d \in Dirs
  BY DEF Safe
<1>2. e \in Dirs /\ e["initialised"] = New /\ \A n \in Names \ {"initialised"} : e[n] = d[n]
  BY <1>1, NamesDistinct DEF Dirs
<1> HIDE DEF e
<1>3. Safe(e, h, g)
  <2>1. /\ e["config"] = d["config"] /\ e["secrets"] = d["secrets"]
        /\ e["config.prev"] = d["config.prev"] /\ e["secrets.prev"] = d["secrets.prev"]
        /\ e["pending"] = d["pending"]
    BY <1>2, NamesDistinct
  <2>2. OneContent(e) /\ RecoversOn(e) = RecoversOn(d) /\ FoundOn(e) = FoundOn(d)
        /\ Pair(e, "config", "secrets") = Pair(d, "config", "secrets")
    BY <2>1 DEF Safe, OneContent, RecoversOn, FoundOn, Pair, Torn
  <2>3. Reads(e) => /\ FoundOn(e).is.id \in h
                    /\ g => e["pending"] # Gone \/ FoundOn(e).is.fallback
    <3>1. CASE d["initialised"] # Gone
      BY <3>1, <2>1, <2>2 DEF Safe, Reads
    <3>2. CASE /\ Pair(d, "config", "secrets") /\ d["config"].is.id \in h
               /\ g => d["config"].is.fallback
      <4>1. FoundOn(d) = d["config"]
        BY <3>2 DEF FoundOn, RecoversOn, Torn, Pair
      <4> QED
        BY <3>2, <4>1, <2>2
    <3> QED
      BY <3>1, <3>2
  <2> QED
    BY <1>2, <2>2, <2>3, NamesDistinct DEF Safe
<1>4. Runs(d, Op("initialised", New), e, h, g)
  BY <1>1, <1>3, OpRuns, NamesDistinct DEF e
<1>5. Runs(e, Sync, e, h, g)
  BY <1>3, SyncRuns
<1> QED
  BY <1>2, <1>3, <1>4, <1>5, RunCat DEF e, Mark

\* A file of the predecessor replaced: nobody goes by it while there is a pair, and without it
\* less is found.
LEMMA PrevSafe ==
  ASSUME NEW d, NEW h, NEW g, Safe(d, h, g), NEW n \in {"config.prev", "secrets.prev"},
         NEW file \in File,
         \/ file = Gone
         \/ Pair(d, "config", "secrets") /\ (n = "config.prev" => file = d["config"])
  PROVE  LET e == [d EXCEPT ![n] = file]
         IN  /\ Safe(e, h, g) /\ Runs(d, Op(n, file), e, h, g) /\ e[n] = file
             /\ \A m \in Names \ {n} : e[m] = d[m]
<1> DEFINE e == [d EXCEPT ![n] = file]
<1>1. d \in Dirs
  BY DEF Safe
<1>2. n \in Names /\ e \in Dirs /\ e[n] = file /\ \A m \in Names \ {n} : e[m] = d[m]
  BY <1>1, NamesDistinct DEF Dirs
<1> HIDE DEF e
<1>3. Safe(e, h, g)
  <2>1. /\ e["config"] = d["config"] /\ e["secrets"] = d["secrets"]
        /\ e["initialised"] = d["initialised"] /\ e["pending"] = d["pending"]
    BY <1>2, NamesDistinct
  <2>2. OneContent(e)
    <3>1. CASE n = "config.prev"
      BY <3>1, <1>2, <2>1 DEF OneContent, Safe, Gone
    <3>2. CASE n = "secrets.prev"
      BY <3>2, <1>2, <2>1, NamesDistinct DEF OneContent, Safe
    <3> QED
      BY <3>1, <3>2
  <2>3. Reads(e) => Reads(d) /\ FoundOn(e) = FoundOn(d)
    <3>1. CASE Pair(d, "config", "secrets")
      BY <3>1, <2>1 DEF Reads, FoundOn, RecoversOn, Pair, Torn
    <3>2. CASE ~Pair(d, "config", "secrets")
      <4>1. e[n].rev = 0
        BY <3>2, <1>2 DEF Gone
      <4>2. ~RecoversOn(e)
        <5>1. CASE n = "config.prev"
          BY <4>1, <5>1 DEF RecoversOn, Pair
        <5>2. CASE n = "secrets.prev"
          BY <4>1, <5>2 DEF RecoversOn, Pair
        <5> QED
          BY <5>1, <5>2
      <4> QED
        BY <3>2, <4>2, <2>1 DEF Reads, Pair
    <3> QED
      BY <3>1, <3>2
  <2> QED
    BY <1>2, <2>1, <2>2, <2>3 DEF Safe
<1>4. Runs(d, Op(n, file), e, h, g)
  BY <1>1, <1>2, <1>3, OpRuns DEF e
<1> QED
  BY <1>2, <1>3, <1>4 DEF e

LEMMA FileFacts ==
  ASSUME NEW d \in Dirs, NEW n \in Names
  PROVE  /\ d[n] \in File /\ d[n].rev \in Nat /\ d[n].is \in Settings(Ids) \union {None}
         /\ d[n] = Content(d[n].rev, d[n].is)
BY DEF Dirs, File, Content

LEMMA ContentFacts ==
  ASSUME NEW rev \in Nat, NEW s \in Settings(Ids)
  PROVE  /\ Content(rev, s) \in File /\ Content(rev, s).rev = rev /\ Content(rev, s).is = s
BY DEF File, Content

\* The backup of a pair leaves the pair, and its predecessor is its copy.
LEMMA BackupRuns ==
  ASSUME NEW d, NEW h, NEW g, Safe(d, h, g), Pair(d, "config", "secrets"),
         NEW b, b["config"] = d["config"], b["secrets"] = d["secrets"]
  PROVE  \E e \in Dirs :
            /\ Safe(e, h, g) /\ Runs(d, Backup(b), e, h, g)
            /\ e["config.prev"] = d["config"]
            /\ \A n \in Names \ {"config.prev", "secrets.prev"} : e[n] = d[n]
<1>1. d \in Dirs /\ d["config"] \in File /\ d["secrets"] \in File /\ Gone \in File
  BY NamesDistinct, FileFacts DEF Safe
<1> DEFINE d1 == [d EXCEPT !["config.prev"] = Gone]
           d2 == [d1 EXCEPT !["config.prev"] = d["config"]]
           d3 == [d2 EXCEPT !["secrets.prev"] = Gone]
           d4 == [d3 EXCEPT !["secrets.prev"] = d["secrets"]]
<1>2. /\ Safe(d1, h, g) /\ Runs(d, Op("config.prev", Gone), d1, h, g)
      /\ \A m \in Names \ {"config.prev"} : d1[m] = d[m]
  BY <1>1, PrevSafe
<1>3. d1["config"] = d["config"] /\ d1["secrets"] = d["secrets"] /\ Pair(d1, "config", "secrets")
  BY <1>2, NamesDistinct DEF Pair
<1> HIDE DEF d1
<1>4. /\ Safe(d2, h, g) /\ Runs(d1, Op("config.prev", d["config"]), d2, h, g)
      /\ d2["config.prev"] = d["config"] /\ \A m \in Names \ {"config.prev"} : d2[m] = d1[m]
  BY <1>1, <1>2, <1>3, PrevSafe
<1>5. d2["config"] = d["config"] /\ d2["secrets"] = d["secrets"] /\ Pair(d2, "config", "secrets")
  BY <1>3, <1>4, NamesDistinct DEF Pair
<1> HIDE DEF d2
<1>6. /\ Safe(d3, h, g) /\ Runs(d2, Op("secrets.prev", Gone), d3, h, g)
      /\ \A m \in Names \ {"secrets.prev"} : d3[m] = d2[m]
  BY <1>1, <1>4, PrevSafe
<1>7. d3["config"] = d["config"] /\ d3["secrets"] = d["secrets"] /\ Pair(d3, "config", "secrets")
  BY <1>5, <1>6, NamesDistinct DEF Pair
<1> HIDE DEF d3
<1>8. /\ Safe(d4, h, g) /\ Runs(d3, Op("secrets.prev", d["secrets"]), d4, h, g)
      /\ \A m \in Names \ {"secrets.prev"} : d4[m] = d3[m]
  BY <1>1, <1>6, <1>7, PrevSafe
<1> HIDE DEF d4
<1>9. Runs(d, Op("config.prev", Gone) \o Op("config.prev", b["config"]), d2, h, g)
  BY <1>2, <1>4, RunCat
<1>10. Runs(d, Op("config.prev", Gone) \o Op("config.prev", b["config"])
               \o Op("secrets.prev", Gone), d3, h, g)
  BY <1>9, <1>6, RunCat
<1>11. Runs(d, Op("config.prev", Gone) \o Op("config.prev", b["config"])
               \o Op("secrets.prev", Gone) \o Op("secrets.prev", b["secrets"]), d4, h, g)
  BY <1>10, <1>8, RunCat
<1>12. Runs(d4, Sync, d4, h, g)
  BY <1>8, SyncRuns
<1>13. Runs(d, Backup(b), d4, h, g)
  BY <1>11, <1>12, RunCat DEF Backup
<1>14. /\ d4 \in Dirs /\ d4["config.prev"] = d["config"]
       /\ \A n \in Names \ {"config.prev", "secrets.prev"} : d4[n] = d[n]
  BY <1>2, <1>4, <1>6, <1>8, NamesDistinct DEF Safe
<1> QED
  BY <1>8, <1>13, <1>14

\* The pair of a new revision, over the copy of the old pair or where none is left to recover.
LEMMA ReplaceRuns ==
  ASSUME NEW d, NEW h, NEW g, Safe(d, h, g), NEW rev \in Nat \ {0}, NEW s \in Settings(Ids),
         rev # d["config"].rev, rev # d["config.prev"].rev,
         s.id \in h, g => d["pending"] # Gone \/ s.fallback,
         \/ d["config.prev"].rev = 0
         \/ Pair(d, "config", "secrets") /\ d["config.prev"] = d["config"]
  PROVE  \E e \in Dirs :
            /\ Safe(e, h, g) /\ Runs(d, Replace(rev, s), e, h, g)
            /\ e["config"] = Content(rev, s) /\ e["secrets"] = Content(rev, s)
            /\ \A n \in Names \ {"config", "secrets"} : e[n] = d[n]
<1> DEFINE new == Content(rev, s)
<1>1. d \in Dirs /\ new \in File /\ new.rev = rev /\ new.is = s /\ rev > 0
  BY ContentFacts DEF Safe
<1> HIDE DEF new
<1> DEFINE d1 == [d EXCEPT !["secrets"] = new]
           d2 == [d1 EXCEPT !["config"] = new]
<1>2. d1 \in Dirs /\ d1["secrets"] = new /\ \A m \in Names \ {"secrets"} : d1[m] = d[m]
  BY <1>1, NamesDistinct DEF Dirs
<1>3. d2 \in Dirs /\ d2["config"] = new /\ \A m \in Names \ {"config"} : d2[m] = d1[m]
  BY <1>1, <1>2, NamesDistinct DEF Dirs
<1> HIDE DEF d1, d2
<1>4. /\ d1["config"] = d["config"] /\ d1["config.prev"] = d["config.prev"]
      /\ d1["secrets.prev"] = d["secrets.prev"] /\ d1["initialised"] = d["initialised"]
      /\ d1["pending"] = d["pending"]
  BY <1>2, NamesDistinct
<1>5. /\ d2["secrets"] = new /\ d2["config.prev"] = d["config.prev"]
      /\ d2["initialised"] = d["initialised"] /\ d2["pending"] = d["pending"]
  BY <1>2, <1>3, <1>4, NamesDistinct
<1>6. Safe(d1, h, g)
  <2>1. OneContent(d1)
    BY <1>1, <1>2, <1>4 DEF Safe, OneContent
  <2>2. ~Pair(d1, "config", "secrets")
    BY <1>1, <1>2, <1>4 DEF Pair
  <2>3. Reads(d1) => Reads(d) /\ FoundOn(d1) = FoundOn(d)
    <3>1. CASE d["config.prev"].rev = 0
      BY <3>1, <2>2, <1>4 DEF Reads, RecoversOn, Pair
    <3>2. CASE Pair(d, "config", "secrets") /\ d["config.prev"] = d["config"]
      BY <3>2, <2>2, <1>4 DEF Reads, FoundOn, RecoversOn, Pair, Torn
    <3> QED
      BY <3>1, <3>2
  <2> QED
    BY <2>1, <2>3, <1>2, <1>4 DEF Safe
<1>7. Safe(d2, h, g)
  <2>1. OneContent(d2)
    BY <1>1, <1>3, <1>5 DEF OneContent
  <2>2. FoundOn(d2) = new
    BY <1>3, <1>5 DEF FoundOn, RecoversOn, Torn
  <2>3. FoundOn(d2).is = s
    BY <2>2, <1>1
  <2> QED
    BY <2>1, <2>3, <1>3, <1>5 DEF Safe
<1>8. Runs(d, Op("secrets", new), d1, h, g)
  BY <1>1, <1>6, OpRuns, NamesDistinct DEF d1
<1>9. Runs(d1, Op("config", new), d2, h, g)
  BY <1>1, <1>2, <1>7, OpRuns, NamesDistinct DEF d2
<1>10. Runs(d2, Sync, d2, h, g)
  BY <1>7, SyncRuns
<1>11. Runs(d, Replace(rev, s), d2, h, g)
  BY <1>8, <1>9, <1>10, RunCat DEF Replace, new
<1>12. \A n \in Names \ {"config", "secrets"} : d2[n] = d[n]
  BY <1>2, <1>3
<1> QED
  BY <1>3, <1>5, <1>7, <1>11, <1>12 DEF new

\* A torn pair replaced by its predecessor.
LEMMA RecoverRuns ==
  ASSUME NEW d, NEW h, NEW g, Safe(d, h, g), RecoversOn(d), d["initialised"] # Gone
  PROVE  \E e \in Dirs :
            /\ Safe(e, h, g)
            /\ Runs(d, Replace(d["config.prev"].rev, d["config.prev"].is), e, h, g)
            /\ e["config"] = d["config.prev"] /\ e["secrets"] = d["config.prev"]
            /\ \A n \in Names \ {"config", "secrets"} : e[n] = d[n]
<1> DEFINE old == d["config.prev"]
<1>1. d \in Dirs /\ old \in File /\ old = Content(old.rev, old.is) /\ old.rev \in Nat
      /\ d["config"].rev \in Nat
  BY FileFacts, NamesDistinct DEF Safe
<1>2. /\ Torn(d) /\ Pair(d, "config.prev", "secrets.prev") /\ FoundOn(d) = old /\ Reads(d)
      /\ old.rev > 0
  BY DEF RecoversOn, FoundOn, Reads, Pair
<1> HIDE DEF old
<1>3. old = d["config.prev"]
  BY DEF old
<1> DEFINE d1 == [d EXCEPT !["secrets"] = old]
           d2 == [d1 EXCEPT !["config"] = old]
<1>4. d1 \in Dirs /\ d1["secrets"] = old /\ \A m \in Names \ {"secrets"} : d1[m] = d[m]
  BY <1>1, NamesDistinct DEF Dirs
<1>5. d2 \in Dirs /\ d2["config"] = old /\ \A m \in Names \ {"config"} : d2[m] = d1[m]
  BY <1>1, <1>4, NamesDistinct DEF Dirs
<1> HIDE DEF d1, d2
<1>6. /\ d1["config"] = d["config"] /\ d1["config.prev"] = old
      /\ d1["secrets.prev"] = d["secrets.prev"] /\ d1["initialised"] = d["initialised"]
      /\ d1["pending"] = d["pending"]
  BY <1>3, <1>4, NamesDistinct
<1>7. /\ d2["secrets"] = old /\ d2["config.prev"] = old
      /\ d2["initialised"] = d["initialised"] /\ d2["pending"] = d["pending"]
  BY <1>4, <1>5, <1>6, NamesDistinct
<1>8. Safe(d1, h, g)
  <2>1. OneContent(d1)
    BY <1>3, <1>4, <1>6 DEF Safe, OneContent
  <2>2. FoundOn(d1).is = old.is
    <3>1. CASE d["config"].rev = old.rev
      <4>1. FoundOn(d1) = d["config"]
        BY <3>1, <1>4, <1>6 DEF FoundOn, RecoversOn, Torn
      <4> QED
        BY <3>1, <4>1, <1>2, <1>3 DEF Safe, OneContent
    <3>2. CASE d["config"].rev # old.rev
      BY <3>2, <1>2, <1>3, <1>4, <1>6 DEF FoundOn, RecoversOn, Torn, Pair
    <3> QED
      BY <3>1, <3>2
  <2> QED
    BY <2>1, <2>2, <1>2, <1>4, <1>6 DEF Safe
<1>9. Safe(d2, h, g)
  <2>1. OneContent(d2)
    BY <1>5, <1>7 DEF OneContent
  <2>2. FoundOn(d2) = old
    BY <1>5, <1>7 DEF FoundOn, RecoversOn, Torn
  <2> QED
    BY <2>1, <2>2, <1>2, <1>5, <1>7 DEF Safe
<1>10. Runs(d, Op("secrets", old), d1, h, g)
  BY <1>1, <1>8, OpRuns, NamesDistinct DEF d1
<1>11. Runs(d1, Op("config", old), d2, h, g)
  BY <1>1, <1>4, <1>9, OpRuns, NamesDistinct DEF d2
<1>12. Runs(d2, Sync, d2, h, g)
  BY <1>9, SyncRuns
<1>13. Runs(d, Replace(old.rev, old.is), d2, h, g)
  BY <1>1, <1>10, <1>11, <1>12, RunCat DEF Replace
<1>14. \A n \in Names \ {"config", "secrets"} : d2[n] = d[n]
  BY <1>4, <1>5
<1> QED
  BY <1>3, <1>5, <1>7, <1>9, <1>13, <1>14

\* The start of a first seed: nothing in an unmarked directory counts.
LEMMA WipeRuns ==
  ASSUME NEW d, NEW h, NEW g, Safe(d, h, g), d["initialised"] = Gone
  PROVE  \E e \in Dirs :
            /\ Safe(e, h, g)
            /\ Runs(d, Op("config", Gone) \o Op("secrets", Gone)
                       \o Op("config.prev", Gone) \o Op("secrets.prev", Gone), e, h, g)
            /\ e["config"] = Gone /\ e["config.prev"] = Gone
            /\ e["initialised"] = Gone /\ e["pending"] = d["pending"]
<1>1. d \in Dirs /\ Gone \in File /\ Gone.rev = 0
  BY NamesDistinct DEF Safe, Gone
<1> DEFINE d1 == [d EXCEPT !["config"] = Gone]
           d2 == [d1 EXCEPT !["secrets"] = Gone]
           d3 == [d2 EXCEPT !["config.prev"] = Gone]
           d4 == [d3 EXCEPT !["secrets.prev"] = Gone]
<1>2. d1 \in Dirs /\ d1["config"] = Gone /\ \A m \in Names \ {"config"} : d1[m] = d[m]
  BY <1>1, NamesDistinct DEF Dirs
<1>3. d2 \in Dirs /\ \A m \in Names \ {"secrets"} : d2[m] = d1[m]
  BY <1>1, <1>2, NamesDistinct DEF Dirs
<1>4. d3 \in Dirs /\ d3["config.prev"] = Gone /\ \A m \in Names \ {"config.prev"} : d3[m] = d2[m]
  BY <1>1, <1>3, NamesDistinct DEF Dirs
<1>5. d4 \in Dirs /\ \A m \in Names \ {"secrets.prev"} : d4[m] = d3[m]
  BY <1>1, <1>4, NamesDistinct DEF Dirs
<1> HIDE DEF d1, d2, d3, d4
<1>6. ASSUME NEW e \in Dirs, e["config"] = Gone, e["initialised"] = Gone
      PROVE  Safe(e, h, g)
  BY <1>1, <1>6 DEF Safe, OneContent, Reads
<1>7. /\ d2["config"] = Gone /\ d3["config"] = Gone /\ d4["config"] = Gone
      /\ d1["initialised"] = Gone /\ d2["initialised"] = Gone /\ d3["initialised"] = Gone
      /\ d4["initialised"] = Gone
  BY <1>2, <1>3, <1>4, <1>5, NamesDistinct
<1>8. Safe(d1, h, g) /\ Safe(d2, h, g) /\ Safe(d3, h, g) /\ Safe(d4, h, g)
  BY <1>2, <1>3, <1>4, <1>5, <1>6, <1>7
<1>9. Runs(d, Op("config", Gone), d1, h, g)
  BY <1>1, <1>8, OpRuns, NamesDistinct DEF d1
<1>10. Runs(d1, Op("secrets", Gone), d2, h, g)
  BY <1>1, <1>2, <1>8, OpRuns, NamesDistinct DEF d2
<1>11. Runs(d2, Op("config.prev", Gone), d3, h, g)
  BY <1>1, <1>3, <1>8, OpRuns, NamesDistinct DEF d3
<1>12. Runs(d3, Op("secrets.prev", Gone), d4, h, g)
  BY <1>1, <1>4, <1>8, OpRuns, NamesDistinct DEF d4
<1>13. Runs(d, Op("config", Gone) \o Op("secrets", Gone), d2, h, g)
  BY <1>9, <1>10, RunCat
<1>14. Runs(d, Op("config", Gone) \o Op("secrets", Gone) \o Op("config.prev", Gone), d3, h, g)
  BY <1>13, <1>11, RunCat
<1>15. Runs(d, Op("config", Gone) \o Op("secrets", Gone) \o Op("config.prev", Gone)
               \o Op("secrets.prev", Gone), d4, h, g)
  BY <1>14, <1>12, RunCat
<1>16. d4["config.prev"] = Gone /\ d4["pending"] = d["pending"]
  BY <1>2, <1>3, <1>4, <1>5, NamesDistinct
<1> QED
  BY <1>5, <1>7, <1>8, <1>15, <1>16

\* A predecessor dropped.
LEMMA ForgetRuns ==
  ASSUME NEW d, NEW h, NEW g, Safe(d, h, g)
  PROVE  \E e \in Dirs :
            /\ Safe(e, h, g)
            /\ Runs(d, Op("config.prev", Gone) \o Op("secrets.prev", Gone), e, h, g)
            /\ e["config.prev"] = Gone /\ e["config"] = d["config"]
<1> DEFINE d1 == [d EXCEPT !["config.prev"] = Gone]
           d2 == [d1 EXCEPT !["secrets.prev"] = Gone]
<1>1. /\ Safe(d1, h, g) /\ Runs(d, Op("config.prev", Gone), d1, h, g)
      /\ d1["config.prev"] = Gone /\ \A m \in Names \ {"config.prev"} : d1[m] = d[m]
  BY PrevSafe, NamesDistinct
<1> HIDE DEF d1
<1>2. /\ Safe(d2, h, g) /\ Runs(d1, Op("secrets.prev", Gone), d2, h, g)
      /\ \A m \in Names \ {"secrets.prev"} : d2[m] = d1[m]
  BY <1>1, PrevSafe, NamesDistinct
<1> HIDE DEF d2
<1>3. Runs(d, Op("config.prev", Gone) \o Op("secrets.prev", Gone), d2, h, g)
  BY <1>1, <1>2, RunCat
<1>4. d2 \in Dirs /\ d2["config.prev"] = Gone /\ d2["config"] = d["config"]
  BY <1>1, <1>2, NamesDistinct DEF Safe
<1> QED
  BY <1>2, <1>3, <1>4

\* Sequences of operations end as their last part does.
LEMMA SyncedCat ==
  ASSUME NEW s \in Ops, NEW t \in Ops, EndsSynced(t)
  PROVE  EndsSynced(s \o t)
<1>1. /\ Len(t) \in Nat /\ Len(t) >= 1 /\ Len(s) \in Nat /\ Len(s \o t) = Len(s) + Len(t)
      /\ (s \o t)[Len(s) + Len(t)] = t[Len(t)]
  BY DEF Ops, EndsSynced
<1>2. s \o t # <<>>
  BY <1>1
<1> QED
  BY <1>1, <1>2 DEF EndsSynced

LEMMA OpsTypes ==
  /\ Sync \in Ops /\ EndsSynced(Sync)
  /\ \A n \in Names, file \in File : Op(n, file) \in Ops
  /\ \A s, t \in Ops : s \o t \in Ops
<1>1. Sync \in Ops /\ EndsSynced(Sync)
  <2>1. [name |-> "sync", file |-> Gone] \in [name : Names \union {"sync"}, file : File]
    BY NamesDistinct
  <2> QED
    BY <2>1 DEF Sync, Ops, EndsSynced
<1>2. \A n \in Names, file \in File : Op(n, file) \in Ops
  BY DEF Op, Ops
<1>3. \A s, t \in Ops : s \o t \in Ops
  BY DEF Ops
<1> QED
  BY <1>1, <1>2, <1>3

LEMMA ReplaceSynced ==
  ASSUME NEW rev \in Nat, NEW s \in Settings(Ids)
  PROVE  Replace(rev, s) \in Ops /\ EndsSynced(Replace(rev, s)) /\ Mark \in Ops /\ EndsSynced(Mark)
<1>1. Content(rev, s) \in File
  BY ContentFacts
<1> QED
  BY <1>1, OpsTypes, SyncedCat, NamesDistinct DEF Replace, Mark

\* More settings to be found, or no more demanded of them.
LEMMA SafeWeaker ==
  ASSUME NEW d, NEW h, NEW g, Safe(d, h, g), NEW k, h \subseteq k, NEW q, q => g
  PROVE  Safe(d, k, q)
BY DEF Safe

-----------------------------------------------------------------------------
(* The settings store: a load *)

\* The end of a load: a pending marker goes once its settings have been judged.
LEMMA LoadEnds ==
  ASSUME NEW d, NEW h, NEW g, Safe(d, h, g), NEW rev \in Nat \ {0}, NEW s \in Settings(Ids),
         Bears(d, rev, s), g => s.fallback, NEW pends \in BOOLEAN
  PROVE  \E e \in Dirs : /\ Runs(d, IF pends THEN Op("pending", Gone) \o Sync ELSE <<>>, e, h, g)
                         /\ Bears(e, rev, s)
<1>1. d \in Dirs
  BY DEF Safe
<1>2. /\ d["config"] = Content(rev, s) /\ Pair(d, "config", "secrets")
      /\ d["config"].is = s
  BY ContentFacts DEF Bears, Pair
<1>3. CASE ~pends
  BY <1>1, <1>3, RunNone
<1>4. CASE pends
  <2> DEFINE e == [d EXCEPT !["pending"] = Gone]
  <2>1. /\ Safe(e, h, g) /\ Runs(d, Op("pending", Gone) \o Sync, e, h, g)
        /\ \A n \in Names \ {"pending"} : e[n] = d[n]
    BY <1>2, UnpendRuns
  <2> HIDE DEF e
  <2>2. e \in Dirs /\ Bears(e, rev, s)
    BY <2>1, NamesDistinct DEF Safe, Bears
  <2> QED
    BY <1>4, <2>1, <2>2
<1> QED
  BY <1>3, <1>4

\* Settings have the ids of saves; no settings have none.
LEMMA IdFacts == /\ Saves \in Nat /\ 0 \notin Ids /\ 1 \in Ids /\ 2 \in Ids
                 /\ None.id = 0 /\ ~None.fallback /\ None \notin Settings(Ids)
<1>1. Saves \in Nat
  BY StoreAssumption
<1>2. 0 \notin Ids /\ 1 \in Ids /\ 2 \in Ids
  BY <1>1 DEF Ids
<1>3. None.id = 0 /\ ~None.fallback
  BY DEF None
<1>4. None \notin Settings(Ids)
  BY <1>2, <1>3 DEF Settings
<1> QED
  BY <1>1, <1>2, <1>3, <1>4

\* What a load that starts goes by: settings that are kept, and guarded where it is demanded.
LEMMA FoundFacts ==
  ASSUME StoreShape, Safe(disk, hope, Demanded), Starts, Marked
  PROVE  /\ Found = FoundOn(disk) /\ Found \in File /\ Found.rev \in Nat \ {0}
         /\ Found.is \in Settings(Ids) /\ Found.is.id \in hope
         /\ Demanded => Found.is.fallback
         /\ Recovers <=> RecoversOn(disk)
         /\ ~Recovers => disk["config"] = Found /\ disk["secrets"] = Found
<1>1. disk \in Dirs /\ OneContent(disk)
  BY DEF Safe
<1>2. Recovers <=> RecoversOn(disk)
  BY DEF Recovers, RecoversOn
<1>3. Found = FoundOn(disk)
  BY <1>2 DEF Found, FoundOn
<1>4. Reads(disk)
  BY <1>2 DEF Starts, Reads, Marked
<1>5. Found \in File
  BY <1>1, <1>3, FileFacts, NamesDistinct DEF FoundOn
<1>6. Found.rev > 0
  BY <1>3, <1>4 DEF Reads, FoundOn, RecoversOn, Pair
<1>7. Found.is.id \in hope
  BY <1>3, <1>4 DEF Safe
<1>8. Found.is \in Settings(Ids)
  <2>1. Found.is \in Settings(Ids) \union {None}
    BY <1>5 DEF File
  <2>2. None.id \notin hope
    BY IdFacts DEF StoreShape
  <2> QED
    BY <2>1, <2>2, <1>7
<1>9. Demanded => Found.is.fallback
  <2>1. Demanded => Guarded(grant.mode)
    BY DEF Demanded, Guarded
  <2>2. disk["pending"] # Gone /\ Guarded(grant.mode) => Found.is.fallback
    BY DEF Starts
  <2>3. Demanded => disk["pending"] # Gone \/ Found.is.fallback
    BY <1>3, <1>4 DEF Safe
  <2> QED
    BY <2>1, <2>2, <2>3
<1>10. ~Recovers => disk["config"] = Found /\ disk["secrets"] = Found
  <2> SUFFICES ASSUME ~Recovers PROVE disk["config"] = Found /\ disk["secrets"] = Found
    OBVIOUS
  <2>1. disk["config"] = Found /\ Pair(disk, "config", "secrets")
    BY <1>2, <1>3, <1>4 DEF FoundOn, Reads
  <2>2. disk["config"].rev = disk["secrets"].rev /\ disk["config"].is = disk["secrets"].is
    BY <1>1, <2>1 DEF OneContent, Pair
  <2>3. disk["secrets"] = disk["config"]
    BY <1>1, <2>2, FileFacts, NamesDistinct
  <2> QED
    BY <2>1, <2>3
<1>11. Found.rev \in Nat \ {0}
  BY <1>5, <1>6 DEF File
<1> QED
  BY <1>2, <1>3, <1>5, <1>7, <1>8, <1>9, <1>10, <1>11

\* The parts of a load's work.
Pinned == Migrates /\ Found.is.id = 1
Kept   == IF Recovers THEN [disk EXCEPT !["config"] = Found, !["secrets"] = Found] ELSE disk
Final  == [Found EXCEPT !.rev = @ + (IF Pinned THEN 1 ELSE 0),
                        !.is.id = IF Pinned THEN 2 ELSE @]
Recovery  == IF Marked /\ Recovers THEN Replace(Found.rev, Found.is) ELSE <<>>
Pinning   == IF Pinned THEN Backup(Kept) \o Replace(Final.rev, Final.is) ELSE <<>>
Migration == IF Migrates THEN Mark ELSE <<>>
Seeding   == IF ~Marked
             THEN (Op("config", Gone) \o Op("secrets", Gone) \o Op("config.prev", Gone)
                     \o Op("secrets.prev", Gone)) \o Replace(1, Seed) \o Mark
             ELSE <<>>
Judging   == IF disk["pending"] # Gone THEN Op("pending", Gone) \o Sync ELSE <<>>

LEMMA LoadingParts ==
  /\ Loading.for = "load" /\ Loading.rev = Final.rev /\ Loading.is = Final.is
  /\ Loading.ops = Recovery \o Pinning \o Migration \o Seeding \o Judging
  /\ Loading # Idle
  /\ Loading = [for |-> "load", rev |-> Loading.rev, is |-> Loading.is, ops |-> Loading.ops]
<1>1. Loading = [for |-> "load", rev |-> Final.rev, is |-> Final.is,
                 ops |-> Recovery \o Pinning \o Migration \o Seeding \o Judging]
  BY DEF Loading, Final, Recovery, Pinning, Migration, Seeding, Judging, Pinned, Kept
<1> QED
  BY <1>1 DEF Idle

\* Over a marked directory.
LEMMA LoadsMarked ==
  ASSUME StoreShape, Safe(disk, hope, Demanded), Starts, Marked
  PROVE  /\ Final.rev \in Nat \ {0} /\ Final.is \in Settings(Ids) /\ Final.is.id \in hope
         /\ Demanded => Final.is.fallback
         /\ \E e \in Dirs : /\ Runs(disk, Loading.ops, e, hope, Demanded)
                            /\ Bears(e, Final.rev, Final.is)
<1>1. /\ Found = FoundOn(disk) /\ Found \in File /\ Found.rev \in Nat \ {0}
      /\ Found.is \in Settings(Ids) /\ Found.is.id \in hope
      /\ Demanded => Found.is.fallback
      /\ Recovers <=> RecoversOn(disk)
      /\ ~Recovers => disk["config"] = Found /\ disk["secrets"] = Found
  BY FoundFacts
<1>2. disk \in Dirs /\ disk["initialised"] \in {Old, New}
  BY DEF Safe, Marked
<1>3. Pinned => 2 \in hope /\ disk["initialised"] = Old
  BY NamesDistinct DEF Safe, Pinned, Migrates
<1>4. /\ Final.rev \in Nat \ {0} /\ Final.is \in Settings(Ids) /\ Final.is.id \in hope
      /\ Final.is.fallback = Found.is.fallback
      /\ Pinned => Final.rev = Found.rev + 1
      /\ ~Pinned => Content(Final.rev, Final.is) = Found
  <2>1. Found.rev \in Nat /\ Found = Content(Found.rev, Found.is)
    BY <1>1 DEF File, Content
  <2>2. CASE Pinned
    <3>1. Final.rev = Found.rev + 1 /\ Final.is = [Found.is EXCEPT !.id = 2]
      BY <2>1, <2>2 DEF Final, Content
    <3> HIDE DEF Final
    <3>2. /\ [Found.is EXCEPT !.id = 2] \in Settings(Ids) /\ [Found.is EXCEPT !.id = 2].id = 2
          /\ [Found.is EXCEPT !.id = 2].fallback = Found.is.fallback
      BY <1>1, IdFacts DEF Settings
    <3> QED
      BY <1>1, <1>3, <2>1, <2>2, <3>1, <3>2
  <2>3. CASE ~Pinned
    <3>1. Final.rev = Found.rev /\ Final.is = [Found.is EXCEPT !.id = Found.is.id]
      BY <2>1, <2>3 DEF Final, Content
    <3> HIDE DEF Final
    <3>2. [Found.is EXCEPT !.id = Found.is.id] = Found.is
      BY <1>1 DEF Settings
    <3> QED
      BY <1>1, <2>1, <2>3, <3>1, <3>2
  <2> QED
    BY <2>2, <2>3
<1>5. PICK e1 \in Dirs : /\ Safe(e1, hope, Demanded) /\ Runs(disk, Recovery, e1, hope, Demanded)
                         /\ e1["config"] = Found /\ e1["secrets"] = Found
                         /\ e1["initialised"] = disk["initialised"]
  <2>1. CASE Recovers
    <3>1. Found = disk["config.prev"]
      BY <2>1, <1>1 DEF FoundOn
    <3>2. PICK e1 \in Dirs :
             /\ Safe(e1, hope, Demanded)
             /\ Runs(disk, Replace(disk["config.prev"].rev, disk["config.prev"].is), e1, hope,
                     Demanded)
             /\ e1["config"] = disk["config.prev"] /\ e1["secrets"] = disk["config.prev"]
             /\ \A n \in Names \ {"config", "secrets"} : e1[n] = disk[n]
      BY <2>1, <1>1, RecoverRuns DEF Marked
    <3>3. Recovery = Replace(disk["config.prev"].rev, disk["config.prev"].is)
      BY <2>1, <3>1 DEF Recovery
    <3> QED
      BY <3>1, <3>2, <3>3, NamesDistinct
  <2>2. CASE ~Recovers
    <3>1. Recovery = <<>>
      BY <2>2 DEF Recovery
    <3> QED
      BY <2>2, <3>1, <1>1, <1>2, RunNone
  <2> QED
    BY <2>1, <2>2
<1>6. Pair(e1, "config", "secrets")
  BY <1>1, <1>5 DEF Pair
<1>7. PICK e2 \in Dirs : /\ Safe(e2, hope, Demanded) /\ Runs(e1, Pinning, e2, hope, Demanded)
                         /\ e2["config"] = Content(Final.rev, Final.is)
                         /\ e2["secrets"] = Content(Final.rev, Final.is)
                         /\ e2["initialised"] = disk["initialised"]
  <2>1. CASE Pinned
    <3>1. Kept["config"] = Found /\ Kept["secrets"] = Found
      BY <1>1, <1>2, NamesDistinct DEF Kept, Dirs
    <3>2. PICK b \in Dirs : /\ Safe(b, hope, Demanded) /\ Runs(e1, Backup(Kept), b, hope, Demanded)
                            /\ b["config.prev"] = e1["config"]
                            /\ \A n \in Names \ {"config.prev", "secrets.prev"} : b[n] = e1[n]
      BY <1>5, <1>6, <3>1, BackupRuns
    <3>3. /\ b["config"] = Found /\ b["secrets"] = Found /\ b["config.prev"] = Found
          /\ b["initialised"] = disk["initialised"] /\ Pair(b, "config", "secrets")
      BY <1>1, <1>5, <3>2, NamesDistinct DEF Pair
    <3>4. Final.rev # Found.rev
      BY <1>1, <1>4, <2>1
    <3>5. Demanded => b["pending"] # Gone \/ Final.is.fallback
      BY <1>1, <1>4
    <3>6. PICK e2 \in Dirs :
             /\ Safe(e2, hope, Demanded)
             /\ Runs(b, Replace(Final.rev, Final.is), e2, hope, Demanded)
             /\ e2["config"] = Content(Final.rev, Final.is)
             /\ e2["secrets"] = Content(Final.rev, Final.is)
             /\ \A n \in Names \ {"config", "secrets"} : e2[n] = b[n]
      BY <1>4, <3>2, <3>3, <3>4, <3>5, ReplaceRuns
    <3>7. Runs(e1, Pinning, e2, hope, Demanded)
      BY <2>1, <3>2, <3>6, RunCat DEF Pinning
    <3> QED
      BY <3>3, <3>6, <3>7, NamesDistinct
  <2>2. CASE ~Pinned
    <3>1. Pinning = <<>>
      BY <2>2 DEF Pinning
    <3> QED
      BY <2>2, <3>1, <1>4, <1>5, RunNone
  <2> QED
    BY <2>1, <2>2
<1>8. PICK e3 \in Dirs : /\ Safe(e3, hope, Demanded) /\ Runs(e2, Migration, e3, hope, Demanded)
                         /\ Bears(e3, Final.rev, Final.is)
  <2>1. CASE Migrates
    <3> DEFINE m == [e2 EXCEPT !["initialised"] = New]
    <3>1. e2["initialised"] # Gone
      BY <1>2, <1>7, NamesDistinct
    <3>2. /\ Safe(m, hope, Demanded) /\ Runs(e2, Mark, m, hope, Demanded)
          /\ m["initialised"] = New /\ \A n \in Names \ {"initialised"} : m[n] = e2[n]
      BY <1>7, <3>1, MarkRuns
    <3> HIDE DEF m
    <3>3. m \in Dirs /\ Bears(m, Final.rev, Final.is) /\ Migration = Mark
      BY <1>7, <2>1, <3>2, NamesDistinct DEF Safe, Bears, Migration
    <3> QED
      BY <3>2, <3>3
  <2>2. CASE ~Migrates
    <3>1. Migration = <<>> /\ disk["initialised"] = New
      BY <2>2, <1>2 DEF Migration, Migrates, Marked
    <3> QED
      BY <3>1, <1>7, RunNone DEF Bears
  <2> QED
    BY <2>1, <2>2
<1>9. Seeding = <<>>
  BY DEF Seeding
<1>10. Demanded => Final.is.fallback
  BY <1>1, <1>4
<1>11. PICK e \in Dirs : Runs(e3, Judging, e, hope, Demanded) /\ Bears(e, Final.rev, Final.is)
  BY <1>4, <1>8, <1>10, LoadEnds DEF Judging
<1>12. Runs(disk, Recovery \o Pinning, e2, hope, Demanded)
  BY <1>5, <1>7, RunCat
<1>13. Runs(disk, Recovery \o Pinning \o Migration, e3, hope, Demanded)
  BY <1>8, <1>12, RunCat
<1>14. Runs(e3, Seeding, e3, hope, Demanded)
  BY <1>9, RunNone
<1>15. Runs(disk, Recovery \o Pinning \o Migration \o Seeding, e3, hope, Demanded)
  BY <1>13, <1>14, RunCat
<1>16. Runs(disk, Loading.ops, e, hope, Demanded)
  BY <1>11, <1>15, RunCat, LoadingParts
<1> QED
  BY <1>4, <1>10, <1>11, <1>16

\* Over an unmarked directory: the seed, which is guarded or not demanded to be.
LEMMA LoadsUnmarked ==
  ASSUME StoreShape, Safe(disk, hope, Demanded), Starts, ~Marked
  PROVE  /\ Final.rev \in Nat \ {0} /\ Final.is \in Settings(Ids) /\ Final.is.id \in hope
         /\ Demanded => Final.is.fallback
         /\ \E e \in Dirs : /\ Runs(disk, Loading.ops, e, hope, Demanded)
                            /\ Bears(e, Final.rev, Final.is)
<1>1. disk \in Dirs /\ disk["initialised"] = Gone
  BY DEF Safe, Marked
<1>2. Found = Content(1, Seed) /\ ~Migrates /\ ~Pinned
  BY DEF Found, Migrates, Pinned
<1>3. Seed \in Settings(Ids) /\ Seed.id = 1
  <2>1. (install # "nothing") \in BOOLEAN
    OBVIOUS
  <2> QED
    BY <2>1, IdFacts DEF Seed, Settings
<1>4. Final.rev = 1 /\ Final.is = Seed
  <2>1. Final.rev = 1 /\ Final.is = [Seed EXCEPT !.id = Seed.id]
    BY <1>2 DEF Final, Content
  <2> HIDE DEF Final
  <2>2. [Seed EXCEPT !.id = Seed.id] = Seed
    BY <1>3 DEF Settings
  <2> QED
    BY <2>1, <2>2
<1>5. Seed.id \in hope
  BY <1>1, <1>3, NamesDistinct DEF Safe
<1>6. Demanded => Seed.fallback
  <2>1. Demanded => grant.mode # "observe"
    BY DEF Demanded
  <2>2. install = "nothing" => grant.mode = "observe"
    BY DEF Starts
  <2>3. Seed.fallback = (install # "nothing")
    BY DEF Seed
  <2> QED
    BY <2>1, <2>2, <2>3
<1>7. PICK w \in Dirs :
         /\ Safe(w, hope, Demanded)
         /\ Runs(disk, Op("config", Gone) \o Op("secrets", Gone) \o Op("config.prev", Gone)
                         \o Op("secrets.prev", Gone), w, hope, Demanded)
         /\ w["config"] = Gone /\ w["config.prev"] = Gone /\ w["initialised"] = Gone
  BY <1>1, WipeRuns
<1>8. PICK r \in Dirs :
         /\ Safe(r, hope, Demanded) /\ Runs(w, Replace(1, Seed), r, hope, Demanded)
         /\ r["config"] = Content(1, Seed) /\ r["secrets"] = Content(1, Seed)
  <2>1. 1 # w["config"].rev /\ w["config.prev"].rev = 0 /\ 1 # w["config.prev"].rev
    BY <1>7 DEF Gone
  <2>2. Demanded => w["pending"] # Gone \/ Seed.fallback
    BY <1>6
  <2>3. 1 \in Nat \ {0}
    OBVIOUS
  <2> QED
    BY <1>3, <1>5, <1>7, <2>1, <2>2, <2>3, ReplaceRuns
<1> DEFINE m == [r EXCEPT !["initialised"] = New]
<1>9. /\ Safe(m, hope, Demanded) /\ Runs(r, Mark, m, hope, Demanded)
      /\ m["initialised"] = New /\ \A n \in Names \ {"initialised"} : m[n] = r[n]
  <2>1. r["config"].rev = 1 /\ r["secrets"].rev = 1 /\ r["config"].is = Seed
    BY <1>8 DEF Content
  <2>2. /\ Pair(r, "config", "secrets") /\ r["config"].is.id \in hope
        /\ Demanded => r["config"].is.fallback
    BY <2>1, <1>5, <1>6 DEF Pair
  <2> QED
    BY <1>8, <2>2, MarkRuns
<1> HIDE DEF m
<1>10. m \in Dirs /\ Bears(m, 1, Seed)
  BY <1>8, <1>9, NamesDistinct DEF Safe, Bears
<1>11. PICK e \in Dirs : Runs(m, Judging, e, hope, Demanded) /\ Bears(e, 1, Seed)
  <2>1. 1 \in Nat \ {0}
    OBVIOUS
  <2> QED
    BY <2>1, <1>3, <1>6, <1>9, <1>10, LoadEnds DEF Judging
<1>12. Recovery = <<>> /\ Pinning = <<>> /\ Migration = <<>>
  BY <1>2 DEF Recovery, Pinning, Migration
<1>13. Runs(disk, <<>>, disk, hope, Demanded)
  BY <1>1, RunNone
<1>14. Runs(disk, Recovery \o Pinning \o Migration, disk, hope, Demanded)
  <2>1. Runs(disk, Recovery \o Pinning, disk, hope, Demanded)
    BY <1>12, <1>13, RunCat
  <2> QED
    BY <2>1, <1>12, <1>13, RunCat
<1>15. Runs(disk, Seeding, m, hope, Demanded)
  <2>1. Runs(disk, (Op("config", Gone) \o Op("secrets", Gone) \o Op("config.prev", Gone)
                      \o Op("secrets.prev", Gone)) \o Replace(1, Seed), r, hope, Demanded)
    BY <1>7, <1>8, RunCat
  <2> QED
    BY <2>1, <1>9, RunCat DEF Seeding
<1>16. Runs(disk, Recovery \o Pinning \o Migration \o Seeding, m, hope, Demanded)
  BY <1>14, <1>15, RunCat
<1>17. Runs(disk, Loading.ops, e, hope, Demanded)
  BY <1>11, <1>16, RunCat, LoadingParts
<1> QED
  BY <1>3, <1>4, <1>5, <1>6, <1>11, <1>17

-----------------------------------------------------------------------------
(* The settings store: a save and an import *)

\* A save commits its settings over the committed pair, marked as pending where they differ
\* in restart fields.
LEMMA SaveRuns ==
  ASSUME NEW d, NEW h, NEW g, Safe(d, h, g), NEW s \in Settings(Ids), s.id \in h,
         g => s.fallback, NEW rev \in Nat \ {0}, NEW was, Bears(d, rev, was), NEW pends \in BOOLEAN
  PROVE  LET ops == (IF pends THEN Op("pending", New) \o Sync ELSE <<>>)
                    \o Backup(d) \o Replace(rev + 1, s)
         IN  EndsSynced(ops) /\
             \E e \in Dirs : /\ Runs(d, ops, e, h, g) /\ Bears(e, rev + 1, s)
                             /\ pends => e["pending"] # Gone
<1> DEFINE pend == IF pends THEN Op("pending", New) \o Sync ELSE <<>>
<1>1. d \in Dirs /\ d["config"].rev = rev /\ Pair(d, "config", "secrets")
  BY DEF Safe, Bears, Content, Pair
<1>2. PICK a \in Dirs : /\ Safe(a, h, g) /\ Runs(d, pend, a, h, g)
                        /\ pends => a["pending"] # Gone
                        /\ \A n \in Names \ {"pending"} : a[n] = d[n]
  <2>1. CASE pends
    <3> DEFINE p == [d EXCEPT !["pending"] = New]
    <3>1. /\ Safe(p, h, g) /\ Runs(d, Op("pending", New) \o Sync, p, h, g)
          /\ p["pending"] = New /\ \A n \in Names \ {"pending"} : p[n] = d[n]
      BY PendRuns
    <3> HIDE DEF p
    <3>2. p \in Dirs
      BY <3>1 DEF Safe
    <3> QED
      BY <2>1, <3>1, <3>2, NamesDistinct
  <2>2. CASE ~pends
    BY <2>2, <1>1, RunNone
  <2> QED
    BY <2>1, <2>2
<1> HIDE DEF pend
<1>3. /\ a["config"] = d["config"] /\ a["secrets"] = d["secrets"] /\ Pair(a, "config", "secrets")
      /\ a["initialised"] = New
  BY <1>1, <1>2, NamesDistinct DEF Pair, Bears
<1>4. PICK b \in Dirs : /\ Safe(b, h, g) /\ Runs(a, Backup(d), b, h, g)
                        /\ b["config.prev"] = a["config"]
                        /\ \A n \in Names \ {"config.prev", "secrets.prev"} : b[n] = a[n]
  BY <1>2, <1>3, BackupRuns
<1>5. /\ b["config"] = d["config"] /\ b["secrets"] = d["secrets"] /\ Pair(b, "config", "secrets")
      /\ b["initialised"] = New /\ b["config.prev"] = b["config"] /\ b["pending"] = a["pending"]
  BY <1>3, <1>4, NamesDistinct DEF Pair
<1>6. rev + 1 \in Nat \ {0} /\ rev + 1 # b["config"].rev /\ rev + 1 # b["config.prev"].rev
  BY <1>1, <1>5
<1>7. PICK e \in Dirs : /\ Safe(e, h, g) /\ Runs(b, Replace(rev + 1, s), e, h, g)
                        /\ e["config"] = Content(rev + 1, s) /\ e["secrets"] = Content(rev + 1, s)
                        /\ \A n \in Names \ {"config", "secrets"} : e[n] = b[n]
  BY <1>4, <1>5, <1>6, ReplaceRuns
<1>8. Runs(d, pend \o Backup(d), b, h, g)
  BY <1>2, <1>4, RunCat
<1>9. Runs(d, pend \o Backup(d) \o Replace(rev + 1, s), e, h, g)
  BY <1>7, <1>8, RunCat
<1>10. Bears(e, rev + 1, s) /\ (pends => e["pending"] # Gone)
  BY <1>2, <1>5, <1>7, NamesDistinct DEF Bears
<1>11. EndsSynced(pend \o Backup(d) \o Replace(rev + 1, s))
  <2>1. pend \o Backup(d) \in Ops
    BY <1>8 DEF Runs
  <2> QED
    BY <2>1, <1>6, ReplaceSynced, SyncedCat
<1> QED
  BY <1>9, <1>10, <1>11 DEF pend

\* An import drops the predecessor and writes a revision that no file has.
LEMMA ImportRuns ==
  ASSUME NEW d, NEW h, NEW g, Safe(d, h, g), NEW s \in Settings(Ids), s.id \in h,
         g => s.fallback, NEW rev \in Nat \ {0}, rev # d["config"].rev
  PROVE  LET ops == Op("config.prev", Gone) \o Op("secrets.prev", Gone) \o Replace(rev, s) \o Mark
         IN  EndsSynced(ops) /\ \E e \in Dirs : Runs(d, ops, e, h, g) /\ Bears(e, rev, s)
<1>1. PICK a \in Dirs : /\ Safe(a, h, g)
                        /\ Runs(d, Op("config.prev", Gone) \o Op("secrets.prev", Gone), a, h, g)
                        /\ a["config.prev"] = Gone /\ a["config"] = d["config"]
  BY ForgetRuns
<1>2. a["config.prev"].rev = 0 /\ rev # a["config"].rev /\ rev # a["config.prev"].rev
  BY <1>1 DEF Gone
<1>3. PICK r \in Dirs : /\ Safe(r, h, g) /\ Runs(a, Replace(rev, s), r, h, g)
                        /\ r["config"] = Content(rev, s) /\ r["secrets"] = Content(rev, s)
  BY <1>1, <1>2, ReplaceRuns
<1> DEFINE m == [r EXCEPT !["initialised"] = New]
<1>4. /\ Safe(m, h, g) /\ Runs(r, Mark, m, h, g)
      /\ m["initialised"] = New /\ \A n \in Names \ {"initialised"} : m[n] = r[n]
  <2>1. r["config"].rev = rev /\ r["secrets"].rev = rev /\ r["config"].is = s /\ rev > 0
    BY <1>3 DEF Content
  <2>2. Pair(r, "config", "secrets")
    BY <2>1 DEF Pair
  <2> QED
    BY <1>3, <2>1, <2>2, MarkRuns
<1> HIDE DEF m
<1>5. m \in Dirs /\ Bears(m, rev, s)
  BY <1>3, <1>4, NamesDistinct DEF Safe, Bears
<1>6. Runs(d, Op("config.prev", Gone) \o Op("secrets.prev", Gone) \o Replace(rev, s), r, h, g)
  BY <1>1, <1>3, RunCat
<1>7. Runs(d, Op("config.prev", Gone) \o Op("secrets.prev", Gone) \o Replace(rev, s) \o Mark, m,
           h, g)
  BY <1>4, <1>6, RunCat
<1>8. EndsSynced(Op("config.prev", Gone) \o Op("secrets.prev", Gone) \o Replace(rev, s) \o Mark)
  <2>1. Op("config.prev", Gone) \o Op("secrets.prev", Gone) \o Replace(rev, s) \in Ops
    BY <1>6 DEF Runs
  <2> QED
    BY <2>1, ReplaceSynced, SyncedCat
<1> QED
  BY <1>5, <1>7, <1>8

-----------------------------------------------------------------------------
(* The settings store: every step *)

LEMMA StoreFacts ==
  ASSUME StoreInv
  PROVE  /\ disk \in Dirs /\ Safe(disk, hope, Demanded) /\ job \in Job
         /\ grant \in [mode : {"observe", "optimise", "lost"}, known : BOOLEAN]
         /\ StoreShape /\ JobOK /\ JobLeads /\ Committed /\ Judges /\ OptimiseGuarded
         /\ \A d \in {disk} \union past : Safe(d, hope, Demanded)
BY DEF StoreInv, DisksSafe, StoreShape, Safe

LEMMA IdleFacts == /\ Idle \in Job /\ Idle.for = "nothing" /\ Idle.ops = <<>>
                   /\ Gone.rev = 0 /\ Gone.is = None
<1>1. <<>> \in Ops
  BY DEF Ops
<1> QED
  BY <1>1 DEF Idle, Job, Gone

\* Nothing to do asks for nothing.
LEMMA IdleJob == job = Idle => JobLeads /\ JobOK
BY DEF JobLeads, JobOK
LEMMA IdleJobNext == job' = Idle => JobLeads' /\ JobOK'
BY DEF JobLeads, JobOK

\* The first start finds an empty directory or a store from before 0.31.
LEMMA StoreInvInit == StoreInit => StoreInv
<1> SUFFICES ASSUME StoreInit PROVE StoreInv
  OBVIOUS
<1> DEFINE first == [n \in Names |->
                 IF install # "before 0.31" \/ n \in {"config.prev", "secrets.prev", "pending"}
                 THEN Gone ELSE IF n = "initialised" THEN Old ELSE Content(1, Seed)]
<1>1. /\ disk = first /\ past = {} /\ hope = {1, 2} /\ job = Idle /\ daemon = "down"
      /\ install \in Installs
      /\ live = None /\ stored = Gone /\ judging = None /\ ~unguarded /\ saves = Saves
      /\ storeFailed = FALSE /\ unguarded = FALSE
      /\ grant.mode \in {"observe"} \union (IF install = "nothing" THEN {} ELSE {"optimise"})
      /\ grant \in [mode : {"observe", "optimise", "lost"}, known : BOOLEAN]
  <2>1. FALSE \in BOOLEAN
    OBVIOUS
  <2> QED
    BY <2>1 DEF StoreInit
<1>2. Seed \in Settings(Ids) /\ Seed.id = 1 /\ (grant.mode = "optimise" => Seed.fallback)
  <2>1. (install # "nothing") \in BOOLEAN /\ (grant.mode = "optimise" => install # "nothing")
    BY <1>1
  <2> QED
    BY <2>1, IdFacts DEF Seed, Settings
<1>3. /\ Content(1, Seed) \in File /\ Content(1, Seed).is = Seed /\ Content(1, Seed).rev = 1
      /\ Content(1, Seed) # Gone /\ Gone.rev = 0
  <2>1. 1 \in Nat
    OBVIOUS
  <2>2. /\ Content(1, Seed) \in File /\ Content(1, Seed).is = Seed /\ Content(1, Seed).rev = 1
    BY <1>2, <2>1, ContentFacts
  <2> QED
    BY <2>2, IdleFacts
<1>4. disk \in Dirs
  BY <1>1, <1>3, NamesDistinct DEF Dirs
<1>5. ASSUME install = "before 0.31" PROVE Safe(disk, {1, 2}, Demanded)
  <2>1. /\ disk["config"] = Content(1, Seed) /\ disk["secrets"] = Content(1, Seed)
        /\ disk["config.prev"] = Gone /\ disk["initialised"] = Old
    BY <1>1, <1>5, NamesDistinct
  <2>2. OneContent(disk)
    BY <2>1, <1>3 DEF OneContent
  <2>3. FoundOn(disk) = Content(1, Seed)
    BY <2>1 DEF FoundOn, RecoversOn, Torn
  <2>4. Demanded => Seed.fallback
    BY <1>2 DEF Demanded
  <2>5. Safe(disk, {1, 2}, Demanded)
    BY <1>2, <1>3, <1>4, <2>1, <2>2, <2>3, <2>4, NamesDistinct DEF Safe
  <2> QED
    BY <2>5
<1>6. ASSUME install # "before 0.31" PROVE Safe(disk, {1, 2}, Demanded)
  <2>1. /\ disk["config"] = Gone /\ disk["initialised"] = Gone
    BY <1>1, <1>6, NamesDistinct
  <2>2. OneContent(disk) /\ ~Reads(disk)
    BY <2>1, <1>3 DEF OneContent, Reads
  <2>3. Safe(disk, {1, 2}, Demanded)
    BY <1>4, <2>1, <2>2, NamesDistinct DEF Safe
  <2> QED
    BY <2>3
<1>7. DisksSafe
  <2>1. Safe(disk, {1, 2}, Demanded)
    BY <1>5, <1>6
  <2> QED
    BY <2>1, <1>1 DEF DisksSafe
<1>8. StoreShape
  <2>1. {1, 2} \subseteq Ids
    BY IdFacts
  <2>3. Saves \in 0 .. Saves
    BY IdFacts
  <2>2. FALSE \in BOOLEAN /\ "down" \in {"down", "loading", "repair", "up"}
    OBVIOUS
  <2> QED
    BY <1>1, <2>1, <2>2, <2>3, IdleFacts, NamesDistinct DEF StoreShape
<1> QED
  BY <1>1, <1>7, <1>8, IdleJob DEF StoreInv, Committed, Judges, OptimiseGuarded

\* A load starts with a way to its end, or the store is left for repair.
LEMMA LoadStoreInv == ASSUME StoreInv, LoadStore, UNCHANGED install PROVE StoreInv'
<1>1. /\ live' = None /\ storeFailed' = FALSE /\ judging' = None /\ stored' = Gone
      /\ UNCHANGED <<disk, past, hope, unguarded, saves>>
      /\ grant' = [grant EXCEPT !.known = grant.mode # "lost"]
      /\ daemon' \in {"loading", "repair"}
  BY DEF LoadStore
<1>2. /\ grant' \in [mode : {"observe", "optimise", "lost"}, known : BOOLEAN]
      /\ grant'.mode = grant.mode
  <2>1. (grant.mode # "lost") \in BOOLEAN
    OBVIOUS
  <2> QED
    BY <2>1, <1>1, StoreFacts
<1>3. Demanded' = Demanded
  BY <1>1, <1>2 DEF Demanded
<1>4. DisksSafe' /\ Judges' /\ OptimiseGuarded' /\ Committed'
  BY <1>1, <1>3, StoreFacts DEF DisksSafe, Judges, OptimiseGuarded, Committed
<1>5. CASE Starts
  <2>1. daemon' = "loading" /\ job' = Loading
    BY <1>5 DEF LoadStore
  <2>2. /\ Final.rev \in Nat \ {0} /\ Final.is \in Settings(Ids) /\ Final.is.id \in hope
        /\ Demanded => Final.is.fallback
        /\ \E e \in Dirs : /\ Runs(disk, Loading.ops, e, hope, Demanded)
                           /\ Bears(e, Final.rev, Final.is)
    BY <1>5, StoreFacts, LoadsMarked, LoadsUnmarked
  <2>3. /\ job'.for = "load" /\ job'.rev = Final.rev /\ job'.is = Final.is
        /\ job'.ops = Loading.ops /\ job' # Idle
        /\ job' = [for |-> "load", rev |-> Final.rev, is |-> Final.is, ops |-> Loading.ops]
    BY <2>1, LoadingParts
  <2>4. job' \in Job
    <3>1. Loading.ops \in Ops
      BY <2>2 DEF Runs
    <3> QED
      BY <2>2, <2>3, <3>1 DEF Job
  <2>5. JobLeads'
    BY <1>1, <1>3, <2>2, <2>3 DEF JobLeads
  <2>6. JobOK'
    BY <1>1, <1>3, <2>1, <2>2, <2>3 DEF JobOK
  <2>7. StoreShape'
    BY <1>1, <1>2, <2>1, <2>3, <2>4, StoreFacts, NamesDistinct DEF StoreShape
  <2> QED
    BY <1>4, <2>5, <2>6, <2>7 DEF StoreInv
<1>6. CASE ~Starts
  <2>1. daemon' = "repair" /\ job' = Idle
    BY <1>6 DEF LoadStore
  <2>2. StoreShape'
    BY <1>1, <1>2, <2>1, StoreFacts, IdleFacts, NamesDistinct DEF StoreShape
  <2> QED
    BY <1>4, <2>1, <2>2, IdleJobNext DEF StoreInv
<1> QED
  BY <1>5, <1>6

\* An operation of the job: the directory it leads to is one of those of its run.
LEMMA PerformStoreInv == ASSUME StoreInv, Perform, UNCHANGED install PROVE StoreInv'
<1> DEFINE op == Head(job.ops)
<1>1. /\ job.ops # <<>> /\ job' = [job EXCEPT !.ops = Tail(@)]
      /\ UNCHANGED <<daemon, stored, live, storeFailed, judging, grant, hope, unguarded, saves>>
      /\ IF op.name = "sync" THEN past' = {} /\ disk' = disk
         ELSE past' = past \union {disk} /\ disk' = [disk EXCEPT ![op.name] = op.file]
  BY DEF Perform
<1>2. job # Idle /\ job \in Job
  BY <1>1, IdleFacts, StoreFacts
<1>3. PICK e \in Dirs : /\ Runs(disk, job.ops, e, hope, Demanded) /\ Bears(e, job.rev, job.is)
                        /\ job.for = "save" /\ Restarts(job.is) => e["pending"] # Gone
  BY <1>2, StoreFacts DEF JobLeads
<1>4. Safe(After(disk, op), hope, Demanded) /\ Runs(After(disk, op), Tail(job.ops), e, hope, Demanded)
  BY <1>1, <1>3, RunStep
<1>5. disk' = After(disk, op) /\ past' \subseteq past \union {disk}
      /\ (op.name = "sync" => past' = {})
  BY <1>1 DEF After
<1>6. Demanded' = Demanded
  BY <1>1 DEF Demanded
<1>7. DisksSafe'
  <2>1. \A d \in {disk'} \union past' : Safe(d, hope, Demanded)
    BY <1>4, <1>5, StoreFacts
  <2> QED
    BY <2>1, <1>1, <1>6 DEF DisksSafe
<1>8. /\ job'.for = job.for /\ job'.rev = job.rev /\ job'.is = job.is
      /\ job'.ops = Tail(job.ops) /\ job'.ops \in Ops /\ job' \in Job
  <2>1. Tail(job.ops) \in Ops
    BY <1>4 DEF Runs
  <2> QED
    BY <2>1, <1>1, <1>2 DEF Job
<1>9. job' # Idle
  BY <1>2, <1>8, IdleFacts, StoreFacts DEF JobOK
<1>10. JobLeads'
  <2>1. Restarts(job.is)' = Restarts(job.is)
    BY <1>1, <1>8 DEF Restarts
  <2>3. /\ Runs(disk', job'.ops, e, hope', Demanded') /\ Bears(e, job'.rev, job'.is)
    BY <1>1, <1>3, <1>4, <1>5, <1>6, <1>8
  <2> QED
    BY <2>1, <2>3, <1>3, <1>8 DEF JobLeads
<1>11. JobOK'
  <2>1. job.for # "load" => IF job'.ops = <<>> THEN past' = {} ELSE EndsSynced(job'.ops)
    <3> SUFFICES ASSUME job.for # "load"
                 PROVE  IF job'.ops = <<>> THEN past' = {} ELSE EndsSynced(job'.ops)
      OBVIOUS
    <3>1. EndsSynced(job.ops)
      BY <1>1, <1>2, StoreFacts DEF JobOK
    <3>2. job.ops \in Seq([name : Names \union {"sync"}, file : File])
      BY <1>2 DEF Job, Ops
    <3>5. /\ Len(job.ops) \in Nat /\ Len(job.ops) >= 1 /\ op = job.ops[1]
          /\ Len(Tail(job.ops)) = Len(job.ops) - 1
      BY <3>2, <1>1
    <3>3. CASE job'.ops = <<>>
      <4>1. Len(job'.ops) = 0
        BY <3>3
      <4>2. Len(job.ops) = 1
        BY <4>1, <3>5, <1>8
      <4> QED
        BY <4>2, <3>5, <3>1, <3>3, <1>5 DEF EndsSynced
    <3>4. CASE job'.ops # <<>>
      <4>1. /\ Len(job.ops) \in Nat /\ Len(job.ops) > 1 /\ Len(job'.ops) = Len(job.ops) - 1
            /\ job'.ops[Len(job.ops) - 1] = job.ops[(Len(job.ops) - 1) + 1]
        BY <3>2, <3>4, <1>1, <1>8
      <4>2. job'.ops[Len(job'.ops)] = job.ops[Len(job.ops)]
        BY <4>1
      <4> QED
        BY <4>2, <3>1, <3>4 DEF EndsSynced
    <3> QED
      BY <3>3, <3>4
  <2> QED
    BY <2>1, <1>1, <1>2, <1>6, <1>8, StoreFacts DEF JobOK
<1>12. StoreShape'
  BY <1>1, <1>8, <1>9, StoreFacts DEF StoreShape
<1>13. Committed' /\ Judges' /\ OptimiseGuarded'
  BY <1>1, <1>9, StoreFacts DEF Committed, Judges, OptimiseGuarded
<1> QED
  BY <1>7, <1>10, <1>11, <1>12, <1>13 DEF StoreInv

\* One fails: the disk is what it was, and nothing is published.
LEMMA FailsStoreInv == ASSUME StoreInv, Fails, UNCHANGED install PROVE StoreInv'
<1>1. /\ job.ops # <<>> /\ job' = Idle /\ storeFailed' = TRUE
      /\ UNCHANGED <<disk, past, stored, live, judging, grant, hope, unguarded, saves>>
      /\ daemon' = IF job.for = "load" THEN "down" ELSE daemon
  BY DEF Fails
<1>2. job # Idle /\ (job.for = "load" => daemon = "loading")
  BY <1>1, IdleFacts, StoreFacts DEF JobOK
<1>3. Demanded' = Demanded
  BY <1>1 DEF Demanded
<1>4. daemon' # "loading" /\ (daemon' = "up" => daemon = "up")
      /\ daemon' \in {"down", "loading", "repair", "up"} /\ (daemon = "up" => daemon' = "up")
  BY <1>1, <1>2, StoreFacts DEF StoreShape
<1>5. StoreShape'
  <2>1. TRUE \in BOOLEAN
    OBVIOUS
  <2> QED
    BY <1>1, <1>4, <2>1, StoreFacts, IdleFacts DEF StoreShape
<1>6. DisksSafe' /\ Committed' /\ Judges' /\ OptimiseGuarded'
  BY <1>1, <1>3, <1>4, StoreFacts DEF DisksSafe, Committed, Judges, OptimiseGuarded
<1> QED
  BY <1>1, <1>5, <1>6, IdleJobNext DEF StoreInv

\* The settings published are on disk, committed, and judged wherever that is demanded.
LEMMA PublishStoreInv == ASSUME StoreInv, Publish, UNCHANGED install PROVE StoreInv'
<1>1. /\ job # Idle /\ job.ops = <<>> /\ stored' = Content(job.rev, job.is) /\ job' = Idle
      /\ live' = IF job.for = "save" /\ Restarts(job.is) THEN live ELSE job.is
      /\ daemon' = IF job.for = "load" THEN "up" ELSE daemon
      /\ hope' = IF job.for = "load" /\ job.is.id \in hope THEN hope ELSE {job.is.id}
      /\ past' = IF job.for = "load" /\ grant.known THEN {} ELSE past
      /\ unguarded' = (unguarded /\ (job.for = "load" \/ ~live'.fallback))
      /\ UNCHANGED <<disk, storeFailed, judging, grant, saves>>
  BY DEF Publish
<1>2. /\ Bears(disk, job.rev, job.is)
      /\ job.for = "save" /\ Restarts(job.is) => disk["pending"] # Gone
  <2>1. PICK e \in Dirs : /\ Runs(disk, job.ops, e, hope, Demanded) /\ Bears(e, job.rev, job.is)
                          /\ job.for = "save" /\ Restarts(job.is) => e["pending"] # Gone
    BY <1>1, StoreFacts DEF JobLeads
  <2> QED
    BY <2>1, <1>1, RunEnd
<1>3. /\ job.rev \in Nat /\ job.rev > 0 /\ job.is \in Settings(Ids) /\ job.is.id \in Ids
      /\ job.is.fallback \in BOOLEAN
  BY <1>1, StoreFacts DEF JobOK, Settings
<1>4. /\ stored' \in File /\ stored'.rev = job.rev /\ stored'.is = job.is
  BY <1>1, <1>3, ContentFacts
<1>5. live' \in Settings(Ids) \/ (live' = live /\ job.for = "save")
  BY <1>1, <1>3
<1>6. daemon' = "up" => live' \in Settings(Ids)
  BY <1>1, <1>5, StoreFacts DEF JobOK, StoreShape
<1>7. /\ Guarded(grant.mode) /\ daemon' = "up" => unguarded' \/ live'.fallback
      /\ job.for = "load" => unguarded' = unguarded
      /\ job.for # "load" /\ grant.mode = "optimise" => unguarded' \/ job.is.fallback
      /\ unguarded' \in BOOLEAN
  <2>0. unguarded \in BOOLEAN /\ (job.for = "save" => daemon = "up")
    BY <1>1, StoreFacts DEF StoreShape, JobOK
  <2>1. CASE job.for = "load"
    <3>1. live' = job.is /\ unguarded' = unguarded
      BY <2>0, <2>1, <1>1
    <3>2. Demanded => job.is.fallback
      BY <2>1, <1>1, StoreFacts DEF JobOK
    <3> QED
      BY <2>0, <2>1, <3>1, <3>2 DEF Demanded, Guarded
  <2>2. CASE job.for = "import"
    <3>1. live' = job.is /\ unguarded' = (unguarded /\ ~job.is.fallback)
      BY <2>2, <1>1
    <3>2. grant.mode = "optimise" => job.is.fallback
      BY <2>2, <1>1, StoreFacts DEF JobOK
    <3> QED
      BY <2>0, <2>2, <3>1, <3>2 DEF Guarded
  <2>3. CASE job.for = "save"
    <3>1. unguarded' = (unguarded /\ ~live'.fallback) /\ live' \in {live, job.is}
      BY <2>3, <1>1
    <3>2. grant.mode = "optimise" => job.is.fallback \/ ~live.fallback
      BY <2>3, <1>1, StoreFacts DEF JobOK
    <3>3. grant.mode = "optimise" => unguarded \/ live.fallback
      BY <2>3, <2>0, StoreFacts DEF OptimiseGuarded
    <3> QED
      BY <2>0, <2>3, <3>1, <3>2, <3>3 DEF Guarded
  <2> QED
    BY <2>1, <2>2, <2>3, <1>1, StoreFacts DEF JobOK
<1>8. DisksSafe'
  <2>1. CASE job.for = "load"
    <3>1. /\ hope' = hope /\ Demanded' = Demanded /\ past' \subseteq past
      BY <2>1, <1>1, <1>7, StoreFacts DEF JobOK, Demanded
    <3> QED
      BY <3>1, <1>1, StoreFacts DEF DisksSafe
  <2>2. CASE job.for # "load"
    <3>1. hope' = {job.is.id} /\ past' = {} /\ job.is.id \in hope'
      BY <2>2, <1>1, StoreFacts DEF JobOK
    <3>2. /\ disk["config"] = Content(job.rev, job.is) /\ disk["secrets"] = Content(job.rev, job.is)
          /\ disk["initialised"] = New
      BY <1>2 DEF Bears
    <3>3. FoundOn(disk) = Content(job.rev, job.is)
      BY <3>2 DEF FoundOn, RecoversOn, Torn
    <3>4. Demanded' => job.is.fallback
      BY <2>2, <1>1, <1>7 DEF Demanded
    <3>5. Safe(disk, hope', Demanded')
      <4>1. disk \in Dirs /\ OneContent(disk)
        BY StoreFacts DEF Safe
      <4>2. FoundOn(disk).is = job.is
        BY <3>3, <1>3, ContentFacts
      <4> HIDE DEF Demanded
      <4> QED
        BY <4>1, <4>2, <3>1, <3>2, <3>4 DEF Safe
    <3> QED
      BY <3>1, <3>5, <1>1 DEF DisksSafe
  <2> QED
    BY <2>1, <2>2
<1>9. Committed'
  <2>1. Bears(disk', stored'.rev, stored'.is)
    BY <1>1, <1>2, <1>4
  <2>2. live' = stored'.is \/ disk'["pending"] # Gone
    BY <1>1, <1>2, <1>4
  <2> QED
    BY <2>1, <2>2 DEF Committed
<1>10. Judges' /\ OptimiseGuarded'
  <2>1. daemon = "up" => daemon' = "up"
    BY <1>1
  <2> QED
    BY <2>1, <1>1, <1>7, StoreFacts DEF Judges, OptimiseGuarded, Guarded
<1>11. StoreShape'
  <2>1. daemon' \in {"down", "loading", "repair", "up"} /\ daemon' # "loading"
    BY <1>1, StoreFacts DEF StoreShape, JobOK
  <2>2. hope' \subseteq Ids
    BY <1>1, <1>3, StoreFacts DEF StoreShape
  <2>3. live' \in Settings(Ids) \union {None}
    BY <1>5, StoreFacts DEF StoreShape
  <2> QED
    BY <1>1, <1>3, <1>4, <1>6, <1>7, <2>1, <2>2, <2>3, IdleFacts, StoreFacts DEF StoreShape
<1> QED
  BY <1>1, <1>8, <1>9, <1>10, <1>11, IdleJobNext DEF StoreInv

\* A new attempt: its identity, and the settings it may become.
LEMMA AttemptFacts ==
  ASSUME StoreInv, saves > 0, NEW s \in Settings({Saves + 3 - saves})
  PROVE  /\ s \in Settings(Ids) /\ s.id \in Ids /\ s.fallback \in BOOLEAN
         /\ saves - 1 \in 0 .. Saves /\ hope \union {s.id} \subseteq Ids
<1>1. saves \in 0 .. Saves /\ hope \subseteq Ids /\ Saves \in Nat
  BY StoreFacts, IdFacts DEF StoreShape
<1>2. Saves + 3 - saves \in Ids
  BY <1>1 DEF Ids
<1>3. s.id = Saves + 3 - saves
  BY DEF Settings
<1>4. saves - 1 \in 0 .. Saves
  BY <1>1
<1> HIDE DEF Ids
<1> QED
  BY <1>1, <1>2, <1>3, <1>4 DEF Settings

\* A save begins: its operations lead to its settings, which are judged where they must be.
LEMMA SaveStoreInv ==
  ASSUME StoreInv, NEW s \in Settings({Saves + 3 - saves}), Save(s), UNCHANGED install
  PROVE  StoreInv'
<1>1. /\ daemon = "up" /\ job = Idle /\ ~storeFailed /\ saves > 0
      /\ MustBeValid => s.fallback
      /\ job' = [for |-> "save", ops |-> SaveOps(s), rev |-> stored.rev + 1, is |-> s]
      /\ hope' = hope \union {s.id} /\ saves' = saves - 1
      /\ UNCHANGED <<disk, past, daemon, stored, live, storeFailed, judging, grant, unguarded>>
  BY DEF Save
<1>2. /\ s \in Settings(Ids) /\ s.id \in Ids /\ s.fallback \in BOOLEAN
      /\ saves' \in 0 .. Saves /\ hope' \subseteq Ids
  BY <1>1, AttemptFacts
<1>3. /\ Bears(disk, stored.rev, stored.is) /\ stored.rev \in Nat \ {0}
  BY <1>1, StoreFacts DEF Committed, StoreShape, File
<1>4. Demanded' = Demanded
  BY <1>1 DEF Demanded
<1>5. grant.mode = "optimise" => s.fallback \/ (~grant.known /\ ~live.fallback)
  BY <1>1 DEF MustBeValid, Guarded
<1>6. Demanded => s.fallback
  BY <1>1, <1>5, StoreFacts DEF Demanded, OptimiseGuarded
<1> HIDE DEF Demanded
<1>7. \A d \in {disk} \union past : Safe(d, hope', Demanded)
  BY <1>1, StoreFacts, SafeWeaker
<1>8. /\ EndsSynced(SaveOps(s))
      /\ \E e \in Dirs : /\ Runs(disk, SaveOps(s), e, hope', Demanded)
                         /\ Bears(e, stored.rev + 1, s)
                         /\ Restarts(s) => e["pending"] # Gone
  <2>1. Restarts(s) \in BOOLEAN
    BY DEF Restarts
  <2>2. Safe(disk, hope', Demanded) /\ s.id \in hope'
    BY <1>1, <1>7
  <2> QED
    BY <1>2, <1>3, <1>6, <2>1, <2>2, SaveRuns DEF SaveOps
<1>9. SaveOps(s) \in Ops /\ SaveOps(s) # <<>>
  BY <1>8 DEF Runs, EndsSynced
<1>10. /\ job'.for = "save" /\ job'.ops = SaveOps(s) /\ job'.rev = stored.rev + 1 /\ job'.is = s
       /\ job' # Idle /\ job' \in Job /\ job'.rev \in Nat \ {0}
  <2>1. stored.rev + 1 \in Nat \ {0}
    BY <1>3
  <2> QED
    BY <1>1, <1>2, <1>9, <2>1, IdleFacts DEF Job
<1>11. JobLeads'
  <2>1. Restarts(s)' = Restarts(s)
    BY <1>1 DEF Restarts
  <2> QED
    BY <2>1, <1>1, <1>4, <1>8, <1>10 DEF JobLeads
<1>12. JobOK'
  BY <1>1, <1>2, <1>5, <1>8, <1>9, <1>10 DEF JobOK
<1>13. DisksSafe'
  BY <1>1, <1>4, <1>7 DEF DisksSafe
<1>14. StoreShape'
  BY <1>1, <1>2, <1>10, StoreFacts DEF StoreShape
<1>15. Committed' /\ Judges' /\ OptimiseGuarded'
  BY <1>1, <1>10, StoreFacts DEF Committed, Judges, OptimiseGuarded
<1> QED
  BY <1>11, <1>12, <1>13, <1>14, <1>15 DEF StoreInv

\* The revision of an import is above every file's.
LEMMA Newest ==
  ASSUME NEW d \in Dirs
  PROVE  \E r \in {d[f].rev : f \in Files} : r \in Nat /\ \A f \in Files : d[f].rev <= r
<1>1. \A f \in Files : d[f].rev \in Nat
  BY DEF Dirs, Names, File
<1>2. PICK f \in {"config", "secrets"} :
        d["config"].rev <= d[f].rev /\ d["secrets"].rev <= d[f].rev
  BY <1>1 DEF Files
<1>3. PICK g \in {"config.prev", "secrets.prev"} :
        d["config.prev"].rev <= d[g].rev /\ d["secrets.prev"].rev <= d[g].rev
  BY <1>1 DEF Files
<1>4. f \in Files /\ g \in Files
  BY DEF Files
<1>5. PICK k \in {f, g} : d[f].rev <= d[k].rev /\ d[g].rev <= d[k].rev
  BY <1>1, <1>4
<1>6. \A n \in Files : d[n].rev <= d[k].rev
  <2> TAKE n \in Files
  <2>1. d[n].rev <= d[f].rev \/ d[n].rev <= d[g].rev
    BY <1>2, <1>3 DEF Files
  <2>2. d[n].rev \in Nat /\ d[f].rev \in Nat /\ d[g].rev \in Nat /\ d[k].rev \in Nat
    BY <1>1, <1>4, <1>5
  <2>3. d[f].rev <= d[k].rev /\ d[g].rev <= d[k].rev
    BY <1>5
  <2> QED
    BY <2>1, <2>2, <2>3
<1>7. k \in Files
  BY <1>4, <1>5
<1> QED
  BY <1>1, <1>6, <1>7

\* An import begins.
LEMMA ImportStoreInv ==
  ASSUME StoreInv, NEW s \in Settings({Saves + 3 - saves}), Import(s), UNCHANGED install
  PROVE  StoreInv'
<1> DEFINE top == CHOOSE r \in {disk[f].rev : f \in Files} : \A f \in Files : disk[f].rev <= r
           ops == Op("config.prev", Gone) \o Op("secrets.prev", Gone)
                  \o Replace(1 + top, s) \o Mark
<1>1. /\ daemon = "repair" /\ job = Idle /\ ~storeFailed /\ saves > 0
      /\ grant.mode = "optimise" => s.fallback
      /\ job' = [for |-> "import", rev |-> 1 + top, is |-> s, ops |-> ops]
      /\ hope' = hope \union {s.id} /\ saves' = saves - 1
      /\ UNCHANGED <<disk, past, daemon, stored, live, storeFailed, judging, grant, unguarded>>
  BY DEF Import, Guarded
<1>2. /\ s \in Settings(Ids) /\ s.id \in Ids /\ s.fallback \in BOOLEAN
      /\ saves' \in 0 .. Saves /\ hope' \subseteq Ids
  BY <1>1, AttemptFacts
<1>3. top \in Nat /\ disk["config"].rev <= top
  <2>1. PICK r \in {disk[f].rev : f \in Files} : \A f \in Files : disk[f].rev <= r
    BY StoreFacts, Newest
  <2>2. top \in {disk[f].rev : f \in Files} /\ \A f \in Files : disk[f].rev <= top
    BY <2>1
  <2>3. \A f \in Files : disk[f].rev \in Nat
    BY StoreFacts DEF Dirs, Names, File
  <2>4. "config" \in Files
    BY DEF Files
  <2> HIDE DEF top
  <2> QED
    BY <2>2, <2>3, <2>4
<1> HIDE DEF top
<1>4. disk["config"].rev \in Nat /\ 1 + top \in Nat \ {0} /\ 1 + top # disk["config"].rev
  <2>1. disk["config"].rev \in Nat
    BY StoreFacts, NamesDistinct DEF Dirs, File
  <2> QED
    BY <2>1, <1>3
<1>5. Demanded' = Demanded /\ (Demanded => s.fallback)
  BY <1>1 DEF Demanded
<1> HIDE DEF Demanded
<1>6. \A d \in {disk} \union past : Safe(d, hope', Demanded)
  BY <1>1, StoreFacts, SafeWeaker
<1>7. /\ EndsSynced(ops)
      /\ \E e \in Dirs : Runs(disk, ops, e, hope', Demanded) /\ Bears(e, 1 + top, s)
  <2>1. Safe(disk, hope', Demanded) /\ s.id \in hope'
    BY <1>1, <1>6
  <2> QED
    BY <1>2, <1>4, <1>5, <2>1, ImportRuns
<1> HIDE DEF ops
<1>8. ops \in Ops /\ ops # <<>>
  BY <1>7 DEF Runs, EndsSynced
<1>9. /\ job'.for = "import" /\ job'.ops = ops /\ job'.rev = 1 + top /\ job'.is = s
      /\ job' # Idle /\ job' \in Job
  BY <1>1, <1>2, <1>4, <1>8, IdleFacts DEF Job
<1>10. JobLeads'
  BY <1>1, <1>5, <1>7, <1>9 DEF JobLeads
<1>11. JobOK'
  BY <1>1, <1>2, <1>4, <1>7, <1>8, <1>9 DEF JobOK
<1>12. DisksSafe'
  BY <1>1, <1>5, <1>6 DEF DisksSafe
<1>13. StoreShape'
  BY <1>1, <1>2, <1>9, StoreFacts DEF StoreShape
<1>14. Committed' /\ Judges' /\ OptimiseGuarded'
  BY <1>1, <1>9, StoreFacts DEF Committed, Judges, OptimiseGuarded
<1> QED
  BY <1>10, <1>11, <1>12, <1>13, <1>14 DEF StoreInv

\* The operating mode: asked for on valid settings, entered on the ones judged or unguarded.
LEMMA ModeStoreInv ==
  ASSUME StoreInv, Ask \/ Accept \/ Leave \/ AuthorityFails, UNCHANGED install
  PROVE  StoreInv'
<1>1. /\ daemon = "up" /\ job = Idle /\ job' = Idle
      /\ UNCHANGED <<disk, daemon, stored, live, storeFailed, hope, saves>>
  BY DEF Ask, Accept, Leave, AuthorityFails, SaveMode
<1>2. Committed'
  BY <1>1, StoreFacts DEF Committed
<1>3. /\ StoreShape /\ live \in Settings(Ids) /\ storeFailed \in BOOLEAN /\ unguarded \in BOOLEAN
      /\ grant \in [mode : {"observe", "optimise", "lost"}, known : BOOLEAN]
  BY <1>1, StoreFacts DEF StoreShape
<1>4. ASSUME /\ grant' \in [mode : {"observe", "optimise", "lost"}, known : BOOLEAN]
             /\ unguarded' \in BOOLEAN
             /\ DisksSafe' /\ Judges' /\ OptimiseGuarded'
      PROVE  StoreInv'
  <2>1. StoreShape'
    BY <1>1, <1>3, <1>4 DEF StoreShape
  <2> QED
    BY <2>1, <1>1, <1>2, <1>4, IdleJobNext DEF StoreInv
<1>5. CASE Ask
  <2>1. /\ grant.known /\ grant.mode = "observe" /\ live.fallback /\ judging' = live
        /\ UNCHANGED <<past, grant, unguarded>>
    BY <1>5 DEF Ask
  <2>2. grant = [mode |-> "observe", known |-> TRUE]
    BY <2>1, <1>3
  <2>3. Judges'
    BY <2>1, <2>2, <1>1, <1>3 DEF Judges
  <2>4. Demanded' = Demanded
    BY <2>1 DEF Demanded
  <2>5. DisksSafe' /\ OptimiseGuarded'
    BY <2>1, <2>4, <1>1, StoreFacts DEF DisksSafe, OptimiseGuarded
  <2> QED
    BY <2>1, <2>3, <2>5, <1>3, <1>4
<1>6. CASE Accept
  <2>1. /\ judging # None /\ judging' = None /\ past' = {}
        /\ grant' = [mode |-> "optimise", known |-> TRUE]
        /\ unguarded' = (storeFailed \/ live # judging)
    BY <1>6 DEF Accept, SaveMode
  <2>2. judging.fallback
    BY <2>1, StoreFacts DEF Judges
  <2>3. /\ Judges' /\ OptimiseGuarded' /\ unguarded' \in BOOLEAN
    BY <2>1, <2>2, <1>1, <1>3 DEF Judges, OptimiseGuarded
  <2>4. grant' \in [mode : {"observe", "optimise", "lost"}, known : BOOLEAN]
    <3>1. TRUE \in BOOLEAN
      OBVIOUS
    <3> QED
      BY <3>1, <2>1
  <2>5. Demanded' => ~storeFailed /\ live = judging
    BY <2>1, <1>3 DEF Demanded
  <2>6. Demanded' => disk["pending"] # Gone \/ FoundOn(disk).is.fallback
    <3> SUFFICES ASSUME Demanded', disk["pending"] = Gone PROVE FoundOn(disk).is.fallback
      OBVIOUS
    <3>1. Bears(disk, stored.rev, stored.is) /\ live = stored.is
      BY <2>5, <1>1, StoreFacts DEF Committed
    <3>2. /\ disk["config"] = Content(stored.rev, stored.is)
          /\ disk["secrets"] = Content(stored.rev, stored.is)
      BY <3>1 DEF Bears
    <3>3. FoundOn(disk) = Content(stored.rev, stored.is)
      BY <3>2 DEF FoundOn, RecoversOn, Torn
    <3>4. FoundOn(disk).is = live
      BY <3>1, <3>3 DEF Content
    <3> QED
      BY <3>4, <2>2, <2>5
  <2>7. Safe(disk, hope, Demanded')
    <3>1. Safe(disk, hope, Demanded)
      BY StoreFacts
    <3> HIDE DEF Demanded
    <3> QED
      BY <2>6, <3>1 DEF Safe
  <2>8. DisksSafe'
    BY <2>1, <2>7, <1>1 DEF DisksSafe
  <2> QED
    BY <2>3, <2>4, <2>8, <1>4
<1>7. CASE Leave \/ AuthorityFails
  <2>1. /\ judging = None /\ judging' = None /\ past' = {}
        /\ grant'.mode \in {"observe", "lost", grant.mode}
        /\ grant' \in [mode : {"observe", "optimise", "lost"}, known : BOOLEAN]
        /\ unguarded' \in BOOLEAN
        /\ grant'.mode = "optimise" => grant.mode = "optimise" /\ unguarded' = unguarded
    <3>1. CASE Leave
      <4>1. FALSE \in BOOLEAN /\ TRUE \in BOOLEAN
        OBVIOUS
      <4> QED
        BY <3>1, <4>1 DEF Leave, SaveMode
    <3>2. CASE AuthorityFails
      <4>1. FALSE \in BOOLEAN /\ TRUE \in BOOLEAN
        OBVIOUS
      <4>2. PICK mode \in {grant.mode, "lost"} : SaveMode(mode, FALSE)
        BY <3>2 DEF AuthorityFails
      <4>3. judging = None /\ judging' = judging /\ unguarded' = unguarded
        BY <3>2 DEF AuthorityFails
      <4>4. grant' = [mode |-> mode, known |-> FALSE] /\ past' = {}
        BY <4>2 DEF SaveMode
      <4> QED
        BY <4>1, <4>3, <4>4, <1>3
    <3> QED
      BY <1>7, <3>1, <3>2
  <2>2. Demanded' => Demanded
    BY <2>1 DEF Demanded
  <2>3. Safe(disk, hope, Demanded')
    <3> HIDE DEF Demanded
    <3> QED
      BY <2>2, StoreFacts, SafeWeaker
  <2>4. DisksSafe'
    BY <2>1, <2>3, <1>1 DEF DisksSafe
  <2>5. Judges' /\ OptimiseGuarded'
    BY <2>1, <1>1, StoreFacts DEF Judges, OptimiseGuarded
  <2> QED
    BY <2>1, <2>4, <2>5, <1>4
<1> QED
  BY <1>5, <1>6, <1>7

\* The process dies, the power fails, a file is found unreadable.
LEMMA OutageStoreInv ==
  ASSUME StoreInv, StoreCrash \/ PowerCut \/ Damage, UNCHANGED install
  PROVE  StoreInv'
<1>1. UNCHANGED <<grant, hope, unguarded, saves>> /\ daemon' = "down"
  BY DEF StoreCrash, PowerCut, Damage, Down
<1>2. Demanded' = Demanded
  BY <1>1 DEF Demanded
<1>3. job' = Idle /\ judging' = None
  <2>1. CASE StoreCrash \/ PowerCut
    BY <2>1 DEF StoreCrash, PowerCut, Down
  <2>2. CASE Damage
    BY <2>2, StoreFacts DEF Damage, JobOK, Judges
  <2> QED
    BY <2>1, <2>2
<1>4. StoreShape'
  <2>1. live' \in Settings(Ids) \union {None} /\ stored' \in File /\ storeFailed' \in BOOLEAN
    <3>1. CASE StoreCrash \/ PowerCut
      <4>1. FALSE \in BOOLEAN
        OBVIOUS
      <4>2. live' = None /\ stored' = Gone /\ storeFailed' = FALSE
        BY <3>1 DEF StoreCrash, PowerCut, Down
      <4> QED
        BY <4>1, <4>2, NamesDistinct
    <3>2. CASE Damage
      BY <3>2, StoreFacts DEF Damage, StoreShape
    <3> QED
      BY <3>1, <3>2
  <2> QED
    BY <2>1, <1>1, <1>3, IdleFacts, StoreFacts DEF StoreShape
<1>5. \A d \in {disk'} \union past' : Safe(d, hope, Demanded)
  <2>1. CASE StoreCrash
    BY <2>1, StoreFacts DEF StoreCrash
  <2>2. CASE PowerCut
    BY <2>2, StoreFacts DEF PowerCut
  <2>3. CASE Damage
    <3>1. PICK f \in {"config", "secrets"} : disk' = [disk EXCEPT ![f] = Gone]
      BY <2>3 DEF Damage
    <3>2. past' = past /\ disk \in Dirs /\ Safe(disk, hope, Demanded)
      BY <2>3, StoreFacts DEF Damage
    <3>3. /\ disk' \in Dirs /\ disk'[f] = Gone
          /\ \A n \in Names \ {f} : disk'[n] = disk[n]
      BY <3>1, <3>2, NamesDistinct DEF Dirs
    <3>4. disk'[f].rev = 0 /\ disk'["initialised"] = disk["initialised"]
      BY <3>1, <3>3, IdleFacts, NamesDistinct
    <3>5. ~Pair(disk', "config", "secrets") /\ ~Torn(disk')
      <4>1. f = "config" \/ f = "secrets"
        OBVIOUS
      <4> QED
        BY <4>1, <3>4 DEF Pair, Torn
    <3>6. OneContent(disk')
      <4>1. CASE f = "config"
        BY <4>1, <3>4 DEF OneContent
      <4>2. CASE f = "secrets"
        <5>1. disk'["config"] = disk["config"] /\ disk'["config.prev"] = disk["config.prev"]
          BY <4>2, <3>3, NamesDistinct
        <5>2. disk'["config"].rev > 0 => disk'["secrets"].rev # disk'["config"].rev
          BY <4>2, <3>4
        <5> QED
          BY <5>1, <5>2, <3>2 DEF OneContent, Safe
      <4> QED
        BY <4>1, <4>2
    <3>7. Safe(disk', hope, Demanded)
      <4>1. ~Reads(disk')
        BY <3>5 DEF Reads, RecoversOn
      <4> HIDE DEF Demanded
      <4> QED
        BY <4>1, <3>2, <3>3, <3>4, <3>6 DEF Safe
    <3> QED
      BY <3>2, <3>7, StoreFacts
  <2> QED
    BY <2>1, <2>2, <2>3
<1>6. DisksSafe'
  BY <1>1, <1>2, <1>5 DEF DisksSafe
<1>7. Committed' /\ Judges' /\ OptimiseGuarded'
  BY <1>1, <1>3 DEF Committed, Judges, OptimiseGuarded
<1> QED
  BY <1>3, <1>4, <1>6, <1>7, IdleJobNext DEF StoreInv

LEMMA StoreInvStep == ASSUME StoreInv, [StoreNext]_storeVars PROVE StoreInv'
<1>1. CASE StoreNext
  BY <1>1, LoadStoreInv, PerformStoreInv, FailsStoreInv, PublishStoreInv, SaveStoreInv,
     ImportStoreInv, ModeStoreInv, OutageStoreInv DEF StoreNext
<1>2. CASE UNCHANGED storeVars
  BY <1>2 DEF storeVars, StoreInv, DisksSafe, JobLeads, JobOK, Committed, Judges, StoreShape,
              OptimiseGuarded, Demanded, Restarts
<1> QED
  BY <1>1, <1>2

LEMMA StoreInvAlways == StoreSpec => []StoreInv
<1>1. StoreInv /\ [StoreNext]_storeVars => StoreInv'
  BY StoreInvStep
<1> QED
  BY <1>1, StoreInvInit, PTL DEF StoreSpec

\* The settings store has its type: what is on disk, in memory and in progress is settings of
\* one of the attempts, and a daemon that is up has some.
THEOREM StoreTypeCorrect == StoreSpec => []StoreTypeOK
<1>1. StoreInv => StoreTypeOK
  <2> SUFFICES ASSUME StoreInv PROVE StoreTypeOK
    OBVIOUS
  <2>1. StoreShape /\ disk \in Dirs
    BY StoreFacts
  <2>2. job.for \in {"nothing", "load", "save", "import"} /\ stored.is \in Settings(Ids) \union {None}
    BY <2>1 DEF StoreShape, Job, File
  <2>3. daemon = "up" => live # None
    BY <2>1, IdFacts DEF StoreShape
  <2> QED
    BY <2>1, <2>2, <2>3 DEF StoreTypeOK, StoreShape, Dirs
<1> QED
  BY <1>1, StoreInvAlways, PTL

\* OptimiseGuarded (settings_service.py _guard, load's judging of a pending restart): in Optimise
\* the settings that run have a valid fallback schedule, whatever was saved, imported, recovered,
\* migrated, interrupted or undone, unless the mode was entered on settings other than those
\* checked.
THEOREM OptimiseGuardedAlways == StoreSpec => []OptimiseGuarded
<1>1. StoreInv => OptimiseGuarded
  BY DEF StoreInv
<1> QED
  BY <1>1, StoreInvAlways, PTL

\* SettingsKept (settings_service.py load, _commit): the settings a start publishes are the last
\* ones the owner was told of or a later attempt, both files of one commit, for any number of crashes,
\* power cuts, failing operations and saves.
THEOREM SettingsKeptAlways == StoreSpec => SettingsKept
<1> DEFINE Kind == daemon' = "up" /\ daemon # "up" =>
                     /\ job.is.id \in hope
                     /\ disk["config"].is = job.is /\ disk["secrets"].is = job.is
<1>1. ASSUME StoreInv, [StoreNext]_storeVars PROVE [Kind]_storeVars
  <2> SUFFICES ASSUME StoreNext, daemon' = "up", daemon # "up"
               PROVE  /\ job.is.id \in hope
                      /\ disk["config"].is = job.is /\ disk["secrets"].is = job.is
    BY <1>1
  <2>1. Publish
    BY DEF StoreNext, LoadStore, Perform, Fails, Ask, Accept, Leave, AuthorityFails, SaveMode,
           StoreCrash, PowerCut, Damage, Down, Save, Import
  <2>2. job # Idle /\ job.ops = <<>> /\ job.for = "load"
    BY <2>1 DEF Publish
  <2>3. job.is.id \in hope /\ job.is \in Settings(Ids) /\ job.rev \in Nat
    BY <1>1, <2>2, StoreFacts DEF JobOK
  <2>4. Bears(disk, job.rev, job.is)
    <3>1. PICK e \in Dirs : Runs(disk, job.ops, e, hope, Demanded) /\ Bears(e, job.rev, job.is)
      BY <1>1, <2>2, StoreFacts DEF JobLeads
    <3> QED
      BY <3>1, <2>2, RunEnd
  <2> QED
    BY <2>3, <2>4, ContentFacts DEF Bears
<1>2. StoreInv /\ [StoreNext]_storeVars => [Kind]_storeVars
  BY <1>1
<1> QED
  BY <1>2, StoreInvAlways, PTL DEF StoreSpec, SettingsKept


-----------------------------------------------------------------------------
(* The planner: sums, least and greatest slots *)

\* What holds of zero and of the next number holds of every one.
LEMMA NumbersOneByOne ==
  ASSUME NEW Q, 0 \in Q, \A n \in Nat : n \in Q => n + 1 \in Q
  PROVE  Nat \subseteq Q
<1> DEFINE Bad == {n \in Nat : n \notin Q}
<1> SUFFICES ASSUME Bad # {} PROVE FALSE
  OBVIOUS
<1>1. PICK n \in Bad : \A m \in Bad : n <= m
  <2>1. Bad \in SUBSET Nat
    OBVIOUS
  <2> HIDE DEF Bad
  <2> QED
    BY <2>1, LeastNatural
<1>2. n \in Nat /\ n # 0 /\ n - 1 \in Nat /\ ~(n <= n - 1) /\ (n - 1) + 1 = n
  OBVIOUS
<1>3. n - 1 \in Q
  BY <1>1, <1>2
<1>4. (n - 1) + 1 \in Q
  BY <1>2, <1>3
<1> QED
  BY <1>2, <1>4

\* Finite sets likewise.
LEMMA ElementsOneByOne ==
  ASSUME NEW S, IsFiniteSet(S), NEW Q, {} \in Q,
         \A s \in SUBSET S : \A x \in S \ s : s \in Q => s \union {x} \in Q
  PROVE  S \in Q
<1> DEFINE Bad == {s \in FiniteSubsetsOf(S) : s \notin Q}
<1>1. IsWellFoundedOn(StrictSubsetOrdering(S), FiniteSubsetsOf(S))
  BY FS_StrictSubsetOrderingWellFounded
<1>2. ASSUME Bad # {} PROVE FALSE
  <2>1. PICK s \in Bad : \A t \in Bad : ~(<<t, s>> \in StrictSubsetOrdering(S))
    BY <1>1, <1>2, WFMin, Zenon
  <2>2. s \in SUBSET S /\ IsFiniteSet(s) /\ s \notin Q /\ s # {}
    BY DEF FiniteSubsetsOf
  <2>3. PICK x : x \in s
    BY <2>2
  <2> DEFINE t == s \ {x}
  <2>4. IsFiniteSet(t) /\ t \in SUBSET S /\ x \in S \ t /\ s = t \union {x} /\ t # s
    BY <2>2, <2>3, FS_RemoveElement
  <2>5. t \in Bad
    BY <2>2, <2>4 DEF FiniteSubsetsOf
  <2>6. <<t, s>> \in StrictSubsetOrdering(S)
    BY <2>2, <2>4 DEF StrictSubsetOrdering
  <2> QED
    BY <2>1, <2>5, <2>6
<1>3. S \in FiniteSubsetsOf(S)
  BY DEF FiniteSubsetsOf
<1> QED
  BY <1>2, <1>3

\* A finite set of integers has a greatest and a least one.
LEMMA MaxIsGreatest ==
  ASSUME NEW S \in SUBSET Int, IsFiniteSet(S), S # {}
  PROVE  Max(S) \in S /\ \A y \in S : Max(S) >= y
<1> DEFINE Q == {s \in SUBSET S : s # {} => \E x \in s : \A y \in s : x >= y}
<1>1. {} \in Q
  OBVIOUS
<1>2. ASSUME NEW s \in SUBSET S, NEW x \in S \ s, s \in Q PROVE s \union {x} \in Q
  <2>1. CASE s = {}
    BY <2>1
  <2>2. CASE s # {}
    <3>1. PICK z \in s : \A y \in s : z >= y
      BY <1>2, <2>2
    <3>2. CASE z >= x
      BY <3>1, <3>2
    <3>3. CASE x >= z
      BY <3>1, <3>3
    <3> QED
      BY <3>1, <3>2, <3>3
  <2> QED
    BY <2>1, <2>2
<1>3. S \in Q
  <2> HIDE DEF Q
  <2> QED
    BY <1>1, <1>2, ElementsOneByOne
<1> QED
  BY <1>3 DEF Max

LEMMA GreaterOfTwo ==
  ASSUME NEW x \in Int, NEW y \in Int
  PROVE  Max({x, y}) \in Int /\ Max({x, y}) >= x /\ Max({x, y}) >= y
<1>1. \E z \in {x, y} : \A w \in {x, y} : z >= w
  OBVIOUS
<1>2. Max({x, y}) \in {x, y} /\ \A w \in {x, y} : Max({x, y}) >= w
  BY <1>1 DEF Max
<1> QED
  BY <1>2

LEMMA MinIsLeast ==
  ASSUME NEW S \in SUBSET Int, IsFiniteSet(S), S # {}
  PROVE  Min(S) \in S /\ \A y \in S : Min(S) <= y
<1> DEFINE Q == {s \in SUBSET S : s # {} => \E x \in s : \A y \in s : x <= y}
<1>1. {} \in Q
  OBVIOUS
<1>2. ASSUME NEW s \in SUBSET S, NEW x \in S \ s, s \in Q PROVE s \union {x} \in Q
  <2>1. CASE s = {}
    BY <2>1
  <2>2. CASE s # {}
    <3>1. PICK z \in s : \A y \in s : z <= y
      BY <1>2, <2>2
    <3>2. CASE z <= x
      BY <3>1, <3>2
    <3>3. CASE x <= z
      BY <3>1, <3>3
    <3> QED
      BY <3>1, <3>2, <3>3
  <2> QED
    BY <2>1, <2>2
<1>3. S \in Q
  <2> HIDE DEF Q
  <2> QED
    BY <1>1, <1>2, ElementsOneByOne
<1> QED
  BY <1>3 DEF Min

\* A sum is taken term by term: its partial sums exist and are the only ones.
PartialSums(F, lo, hi, g) == g = [i \in lo - 1 .. hi |-> IF i < lo THEN 0 ELSE F[i] + g[i - 1]]

LEMMA PartialSumsAre ==
  ASSUME NEW F, NEW lo \in Nat, NEW hi \in Int, NEW g, PartialSums(F, lo, hi, g)
  PROVE  \A i \in lo - 1 .. hi : g[i] = IF i < lo THEN 0 ELSE F[i] + g[i - 1]
  BY DEF PartialSums

LEMMA PartialSumsExtend ==
  ASSUME NEW F, NEW lo \in Nat, NEW k \in Nat, k >= lo, NEW g, PartialSums(F, lo, k - 1, g)
  PROVE  \E h : PartialSums(F, lo, k, h)
<1> DEFINE h == [i \in lo - 1 .. k |-> IF i = k THEN F[k] + g[k - 1] ELSE g[i]]
<1>1. ASSUME NEW i \in lo - 1 .. k PROVE h[i] = IF i < lo THEN 0 ELSE F[i] + h[i - 1]
  <2>1. CASE i = k
    BY <2>1
  <2>2. CASE i # k
    <3>1. i \in lo - 1 .. k - 1
      BY <2>2
    <3>2. g[i] = IF i < lo THEN 0 ELSE F[i] + g[i - 1]
      BY <3>1, PartialSumsAre
    <3>3. ~(i < lo) => h[i - 1] = g[i - 1]
      BY <3>1
    <3> QED
      BY <2>2, <3>2, <3>3
  <2> QED
    BY <2>1, <2>2
<1>2. h = [i \in lo - 1 .. k |-> h[i]]
  OBVIOUS
<1> HIDE DEF h
<1>3. PartialSums(F, lo, k, h)
  BY <1>1, <1>2 DEF PartialSums
<1> QED
  BY <1>3

LEMMA PartialSumsExist ==
  ASSUME NEW F, NEW lo \in Nat, NEW n \in Nat
  PROVE  \E g : PartialSums(F, lo, lo - 1 + n, g)
<1> DEFINE Has == {m \in Nat : \E g : PartialSums(F, lo, lo - 1 + m, g)}
<1>1. 0 \in Has
  <2> DEFINE g == [i \in lo - 1 .. lo - 1 |-> 0]
  <2>1. \A i \in lo - 1 .. lo - 1 : i < lo /\ g[i] = 0
    OBVIOUS
  <2>2. g = [i \in lo - 1 .. lo - 1 |-> g[i]] /\ lo - 1 + 0 = lo - 1
    OBVIOUS
  <2> HIDE DEF g
  <2>3. PartialSums(F, lo, lo - 1, g)
    <3>1. \A i \in lo - 1 .. lo - 1 : g[i] = IF i < lo THEN 0 ELSE F[i] + g[i - 1]
      BY <2>1
    <3> QED
      BY <2>2, <3>1 DEF PartialSums
  <2> QED
    BY <2>2, <2>3
<1>2. ASSUME NEW m \in Nat, m \in Has PROVE m + 1 \in Has
  <2>1. PICK g : PartialSums(F, lo, lo - 1 + m, g)
    BY <1>2
  <2>2. /\ lo + m \in Nat /\ lo + m >= lo /\ lo - 1 + m = (lo + m) - 1
        /\ lo - 1 + (m + 1) = lo + m /\ m + 1 \in Nat
    OBVIOUS
  <2> DEFINE k == lo + m
  <2> HIDE DEF k
  <2>3. PartialSums(F, lo, k - 1, g) /\ k \in Nat /\ k >= lo
    BY <2>1, <2>2 DEF k
  <2>4. \E h : PartialSums(F, lo, k, h)
    BY <2>3, PartialSumsExtend
  <2> QED
    BY <2>2, <2>4 DEF k
<1>3. Nat \subseteq Has
  <2> HIDE DEF Has
  <2> QED
    BY <1>1, <1>2, NumbersOneByOne
<1> QED
  BY <1>3

LEMMA SumIsPartial ==
  ASSUME NEW F, NEW lo \in Nat, NEW hi \in Int, lo <= hi
  PROVE  \E g : PartialSums(F, lo, hi, g) /\ Sum(F, lo, hi) = g[hi]
<1> DEFINE upTo == CHOOSE g : PartialSums(F, lo, hi, g)
<1>1. Sum(F, lo, hi) = upTo[hi]
  BY DEF Sum, PartialSums
<1>2. \E g : PartialSums(F, lo, hi, g)
  <2>1. hi - lo + 1 \in Nat /\ lo - 1 + (hi - lo + 1) = hi
    OBVIOUS
  <2> DEFINE n == hi - lo + 1
  <2> HIDE DEF n
  <2>2. \E g : PartialSums(F, lo, lo - 1 + n, g)
    BY <2>1, PartialSumsExist DEF n
  <2> QED
    BY <2>1, <2>2 DEF n
<1>3. PartialSums(F, lo, hi, upTo)
  BY <1>2
<1> QED
  BY <1>1, <1>3

LEMMA EmptySum ==
  ASSUME NEW F, NEW lo \in Nat, NEW hi \in Int, hi < lo
  PROVE  Sum(F, lo, hi) = 0
  BY DEF Sum

\* The last term of a sum.
LEMMA SumLast ==
  ASSUME NEW F, NEW lo \in Nat, NEW hi \in Int, lo <= hi, F[lo] \in Int
  PROVE  Sum(F, lo, hi) = F[hi] + Sum(F, lo, hi - 1)
<1>1. PICK g : PartialSums(F, lo, hi, g) /\ Sum(F, lo, hi) = g[hi]
  BY SumIsPartial
<1>2. \A i \in lo - 1 .. hi : g[i] = IF i < lo THEN 0 ELSE F[i] + g[i - 1]
  BY <1>1, PartialSumsAre
<1>3. g[lo - 1] = 0 /\ g[hi] = F[hi] + g[hi - 1]
  <2>1. lo - 1 \in lo - 1 .. hi /\ hi \in lo - 1 .. hi /\ lo - 1 < lo /\ ~(hi < lo)
    OBVIOUS
  <2> QED
    BY <1>2, <2>1
<1>4. CASE hi = lo
  <2>1. Sum(F, lo, hi - 1) = 0 /\ hi - 1 = lo - 1
    BY <1>4, EmptySum
  <2> QED
    BY <1>1, <1>3, <2>1
<1>5. CASE hi # lo
  <2>1. hi - 1 \in Int /\ lo <= hi - 1
    BY <1>5
  <2>2. PICK h : PartialSums(F, lo, hi - 1, h) /\ Sum(F, lo, hi - 1) = h[hi - 1]
    BY <2>1, SumIsPartial
  <2>3. \A i \in lo - 1 .. hi - 1 : h[i] = IF i < lo THEN 0 ELSE F[i] + h[i - 1]
    BY <2>1, <2>2, PartialSumsAre
  <2> DEFINE Agree == {n \in Nat : lo - 1 + n <= hi - 1 => g[lo - 1 + n] = h[lo - 1 + n]}
  <2>4. 0 \in Agree
    <3>1. lo - 1 \in lo - 1 .. hi - 1 /\ lo - 1 < lo /\ lo - 1 + 0 = lo - 1
      BY <2>1
    <3>2. h[lo - 1] = 0
      BY <2>3, <3>1
    <3> QED
      BY <1>3, <3>1, <3>2
  <2>5. ASSUME NEW n \in Nat, n \in Agree PROVE n + 1 \in Agree
    <3> SUFFICES ASSUME lo - 1 + (n + 1) <= hi - 1
                 PROVE  g[lo - 1 + (n + 1)] = h[lo - 1 + (n + 1)]
      OBVIOUS
    <3> DEFINE k == lo - 1 + (n + 1)
    <3>1. /\ k \in lo - 1 .. hi - 1 /\ k \in lo - 1 .. hi /\ ~(k < lo)
          /\ k - 1 = lo - 1 + n /\ lo - 1 + n <= hi - 1
      OBVIOUS
    <3> HIDE DEF k
    <3>2. g[k] = F[k] + g[k - 1] /\ h[k] = F[k] + h[k - 1]
      BY <1>2, <2>3, <3>1
    <3>3. g[k - 1] = h[k - 1]
      BY <2>5, <3>1
    <3>4. g[k] = h[k]
      BY <3>2, <3>3
    <3> QED
      BY <3>4 DEF k
  <2>6. Nat \subseteq Agree
    <3> HIDE DEF Agree
    <3> QED
      BY <2>4, <2>5, NumbersOneByOne
  <2>7. hi - lo \in Nat /\ lo - 1 + (hi - lo) = hi - 1
    OBVIOUS
  <2>8. g[hi - 1] = h[hi - 1]
    <3>1. hi - lo \in Agree
      BY <2>6, <2>7
    <3> QED
      BY <2>7, <3>1
  <2> QED
    BY <1>1, <1>3, <2>2, <2>8
<1> QED
  BY <1>4, <1>5

\* What holds of the empty sums and of a sum with one more term holds of every sum.
LEMMA SumsTermByTerm ==
  ASSUME NEW lo \in Nat, NEW hi \in Int, NEW Q, \A k \in Int : k < lo => k \in Q,
         \A k \in Int : lo <= k /\ k <= hi /\ k - 1 \in Q => k \in Q
  PROVE  hi \in Q
<1> DEFINE R == {n \in Nat : lo - 1 + n <= hi => lo - 1 + n \in Q}
<1>1. 0 \in R
  OBVIOUS
<1>2. ASSUME NEW n \in Nat, n \in R PROVE n + 1 \in R
  <2> SUFFICES ASSUME lo - 1 + (n + 1) <= hi PROVE lo - 1 + (n + 1) \in Q
    OBVIOUS
  <2> DEFINE k == lo - 1 + (n + 1)
  <2>1. k \in Int /\ lo <= k /\ k <= hi /\ k - 1 = lo - 1 + n /\ lo - 1 + n <= hi
    OBVIOUS
  <2>2. lo - 1 + n \in Q
    BY <1>2, <2>1
  <2> HIDE DEF k
  <2>3. k \in Q
    BY <2>1, <2>2
  <2> QED
    BY <2>3 DEF k
<1>3. Nat \subseteq R
  <2> HIDE DEF R
  <2> QED
    BY <1>1, <1>2, NumbersOneByOne
<1>4. CASE hi < lo
  BY <1>4
<1>5. CASE lo <= hi
  <2>1. hi - lo + 1 \in Nat /\ lo - 1 + (hi - lo + 1) = hi
    BY <1>5
  <2>2. hi - lo + 1 \in R
    BY <1>3, <2>1
  <2> QED
    BY <2>1, <2>2
<1> QED
  BY <1>4, <1>5

\* A sum of naturals is one.
LEMMA SumIsNatural ==
  ASSUME NEW F \in [Nat -> Nat], NEW lo \in Nat, NEW hi \in Int
  PROVE  Sum(F, lo, hi) \in Nat
<1> DEFINE Q == {k \in Int : Sum(F, lo, k) \in Nat}
<1>1. ASSUME NEW k \in Int, k < lo PROVE k \in Q
  BY <1>1, EmptySum
<1>2. ASSUME NEW k \in Int, lo <= k, k <= hi, k - 1 \in Q PROVE k \in Q
  <2>1. F[k] \in Nat
    BY <1>2
  <2>2. Sum(F, lo, k) = F[k] + Sum(F, lo, k - 1)
    BY <1>2, SumLast
  <2> QED
    BY <1>2, <2>1, <2>2
<1> HIDE DEF Q
<1>3. hi \in Q
  BY <1>1, <1>2, SumsTermByTerm
<1> QED
  BY <1>3 DEF Q

LEMMA ZeroSum ==
  ASSUME NEW F \in [Nat -> Nat], NEW lo \in Nat, NEW hi \in Int, \A i \in lo .. hi : F[i] = 0
  PROVE  Sum(F, lo, hi) = 0
<1> DEFINE Q == {k \in Int : k <= hi => Sum(F, lo, k) = 0}
<1>1. ASSUME NEW k \in Int, k < lo PROVE k \in Q
  BY <1>1, EmptySum
<1>2. ASSUME NEW k \in Int, lo <= k, k <= hi, k - 1 \in Q PROVE k \in Q
  <2>1. F[k] = 0 /\ F[lo] \in Int /\ Sum(F, lo, k - 1) = 0
    BY <1>2
  <2>2. Sum(F, lo, k) = F[k] + Sum(F, lo, k - 1)
    BY <1>2, <2>1, SumLast
  <2> QED
    BY <2>1, <2>2
<1> HIDE DEF Q
<1>3. hi \in Q
  BY <1>1, <1>2, SumsTermByTerm
<1> QED
  BY <1>3 DEF Q

\* Greater terms, and more of them at its end, make a greater sum.
LEMMA SumGrows ==
  ASSUME NEW F \in [Nat -> Nat], NEW G \in [Nat -> Nat], NEW lo \in Nat, NEW hi \in Int,
         NEW top \in Int, hi <= top, \A i \in lo .. hi : F[i] <= G[i]
  PROVE  Sum(F, lo, hi) <= Sum(G, lo, top)
<1> DEFINE P == {k \in Int : k <= hi => Sum(F, lo, k) <= Sum(G, lo, k)}
           Q == {k \in Int : hi <= k => Sum(G, lo, hi) <= Sum(G, lo, k)}
<1>1. \A k \in Int : Sum(F, lo, k) \in Nat /\ Sum(G, lo, k) \in Nat
  BY SumIsNatural
<1>2. \A k \in Int : lo <= k => F[k] \in Nat /\ G[k] \in Nat
  OBVIOUS
<1>3. hi \in P
  <2>1. ASSUME NEW k \in Int, k < lo PROVE k \in P
    BY <2>1, EmptySum
  <2>2. ASSUME NEW k \in Int, lo <= k, k <= hi, k - 1 \in P PROVE k \in P
    <3>1. /\ Sum(F, lo, k) = F[k] + Sum(F, lo, k - 1)
          /\ Sum(G, lo, k) = G[k] + Sum(G, lo, k - 1)
      <4>1. F[lo] \in Int /\ G[lo] \in Int
        BY <1>2
      <4>2. Sum(F, lo, k) = F[k] + Sum(F, lo, k - 1)
        BY <2>2, <4>1, SumLast
      <4>3. Sum(G, lo, k) = G[k] + Sum(G, lo, k - 1)
        BY <2>2, <4>1, SumLast
      <4> QED
        BY <4>2, <4>3
    <3>2. Sum(F, lo, k - 1) <= Sum(G, lo, k - 1) /\ F[k] <= G[k]
      BY <2>2
    <3>3. k - 1 \in Int
      OBVIOUS
    <3> QED
      BY <1>1, <1>2, <2>2, <3>1, <3>2, <3>3
  <2> HIDE DEF P
  <2> QED
    BY <2>1, <2>2, SumsTermByTerm
<1>4. top \in Q
  <2>1. ASSUME NEW k \in Int, k < lo PROVE k \in Q
    <3>1. CASE hi <= k
      BY <2>1, <3>1, EmptySum
    <3> QED
      BY <3>1
  <2>2. ASSUME NEW k \in Int, lo <= k, k <= top, k - 1 \in Q PROVE k \in Q
    <3>1. Sum(G, lo, k) = G[k] + Sum(G, lo, k - 1)
      BY <2>2, <1>2, SumLast
    <3>2. k - 1 \in Int
      OBVIOUS
    <3>3. CASE hi = k
      BY <3>3, <1>1
    <3>4. CASE hi < k
      <4>1. Sum(G, lo, hi) <= Sum(G, lo, k - 1)
        BY <2>2, <3>4
      <4> QED
        BY <1>1, <1>2, <2>2, <3>1, <3>2, <4>1
    <3> QED
      BY <3>3, <3>4
  <2> HIDE DEF Q
  <2> QED
    BY <2>1, <2>2, SumsTermByTerm
<1> QED
  BY <1>1, <1>3, <1>4

LEMMA SameSums ==
  ASSUME NEW F \in [Nat -> Nat], NEW G \in [Nat -> Nat], NEW lo \in Nat, NEW hi \in Int,
         \A i \in lo .. hi : F[i] = G[i]
  PROVE  Sum(F, lo, hi) = Sum(G, lo, hi)
<1>1. \A i \in lo .. hi : F[i] \in Nat /\ G[i] \in Nat
  OBVIOUS
<1>2. Sum(F, lo, hi) <= Sum(G, lo, hi)
  <2>1. \A i \in lo .. hi : F[i] <= G[i]
    BY <1>1
  <2> QED
    BY <2>1, SumGrows
<1>3. Sum(G, lo, hi) <= Sum(F, lo, hi)
  <2>1. \A i \in lo .. hi : G[i] <= F[i]
    BY <1>1
  <2> QED
    BY <2>1, SumGrows
<1>4. Sum(F, lo, hi) \in Nat /\ Sum(G, lo, hi) \in Nat
  BY SumIsNatural
<1> QED
  BY <1>2, <1>3, <1>4

\* The first term of a sum.
LEMMA SumFirst ==
  ASSUME NEW F \in [Nat -> Nat], NEW lo \in Nat, NEW hi \in Int, lo <= hi
  PROVE  Sum(F, lo, hi) = F[lo] + Sum(F, lo + 1, hi)
<1> DEFINE Q == {k \in Int : lo <= k => Sum(F, lo, k) = F[lo] + Sum(F, lo + 1, k)}
<1>1. \A k \in Int : Sum(F, lo, k) \in Nat /\ Sum(F, lo + 1, k) \in Nat
  <2>1. lo + 1 \in Nat
    OBVIOUS
  <2> QED
    BY <2>1, SumIsNatural
<1>2. ASSUME NEW k \in Int, k < lo PROVE k \in Q
  BY <1>2
<1>3. ASSUME NEW k \in Int, lo <= k, k <= hi, k - 1 \in Q PROVE k \in Q
  <2>1. Sum(F, lo, k) = F[k] + Sum(F, lo, k - 1) /\ k - 1 \in Int /\ F[k] \in Nat /\ F[lo] \in Nat
    BY <1>3, SumLast
  <2>2. CASE k = lo
    <3>1. Sum(F, lo, k - 1) = 0 /\ Sum(F, lo + 1, k) = 0
      BY <2>2, EmptySum
    <3> QED
      BY <2>1, <2>2, <3>1
  <2>3. CASE k # lo
    <3>1. lo + 1 \in Nat /\ lo + 1 <= k /\ lo <= k - 1 /\ F[lo + 1] \in Int
      BY <1>3, <2>3
    <3>2. Sum(F, lo + 1, k) = F[k] + Sum(F, lo + 1, k - 1)
      BY <3>1, SumLast
    <3>3. Sum(F, lo, k - 1) = F[lo] + Sum(F, lo + 1, k - 1)
      BY <1>3, <3>1
    <3> QED
      BY <1>1, <2>1, <3>2, <3>3
  <2> QED
    BY <2>2, <2>3
<1> HIDE DEF Q
<1>4. hi \in Q
  BY <1>2, <1>3, SumsTermByTerm
<1> QED
  BY <1>4 DEF Q

LEMMA SumHoldsFirst ==
  ASSUME NEW F \in [Nat -> Nat], NEW lo \in Nat, NEW hi \in Int, lo <= hi
  PROVE  Sum(F, lo, hi) >= F[lo]
<1>1. lo + 1 \in Nat /\ F[lo] \in Nat
  OBVIOUS
<1>2. Sum(F, lo + 1, hi) \in Nat
  BY <1>1, SumIsNatural
<1>3. Sum(F, lo, hi) = F[lo] + Sum(F, lo + 1, hi)
  BY SumFirst
<1> QED
  BY <1>1, <1>2, <1>3

\* Fewer terms at its start make a smaller sum.
LEMMA SumShrinks ==
  ASSUME NEW F \in [Nat -> Nat], NEW lo \in Nat, NEW mid \in Nat, NEW hi \in Int, lo <= mid
  PROVE  Sum(F, mid, hi) <= Sum(F, lo, hi)
<1> DEFINE Q == {n \in Nat : Sum(F, lo + n, hi) <= Sum(F, lo, hi)}
<1>1. 0 \in Q
  <2>1. Sum(F, lo, hi) \in Nat /\ lo + 0 = lo
    BY SumIsNatural
  <2> QED
    BY <2>1
<1>2. ASSUME NEW n \in Nat, n \in Q PROVE n + 1 \in Q
  <2> DEFINE k == lo + n
  <2>1. k \in Nat /\ lo + (n + 1) = k + 1 /\ k + 1 \in Nat /\ F[k] \in Nat
    OBVIOUS
  <2>2. Sum(F, k, hi) <= Sum(F, lo, hi)
    BY <1>2
  <2> HIDE DEF k
  <2>3. Sum(F, k, hi) \in Nat /\ Sum(F, k + 1, hi) \in Nat /\ Sum(F, lo, hi) \in Nat
    BY <2>1, SumIsNatural
  <2>4. Sum(F, k + 1, hi) <= Sum(F, lo, hi)
    <3>1. CASE k <= hi
      <4>1. Sum(F, k, hi) = F[k] + Sum(F, k + 1, hi)
        BY <2>1, <3>1, SumFirst
      <4> QED
        BY <2>1, <2>2, <2>3, <4>1
    <3>2. CASE hi < k
      <4>1. Sum(F, k + 1, hi) = 0
        BY <2>1, <3>2, EmptySum
      <4> QED
        BY <2>3, <4>1
    <3> QED
      BY <2>1, <3>1, <3>2
  <2> QED
    BY <2>1, <2>4
<1>3. Nat \subseteq Q
  <2> HIDE DEF Q
  <2> QED
    BY <1>1, <1>2, NumbersOneByOne
<1>4. mid - lo \in Nat /\ lo + (mid - lo) = mid
  OBVIOUS
<1>5. mid - lo \in Q
  BY <1>3, <1>4
<1> QED
  BY <1>4, <1>5

-----------------------------------------------------------------------------
(* The planner: a household's numbers are naturals *)

LEMMA HomeIs ==
  ASSUME home \in HomeNumbers
  PROVE  /\ {Home.load, Home.solar, Home.price} \subseteq [0 .. DaySlots - 1 -> Nat]
         /\ Home.p90 \in [0 .. DaySlots - 1 -> SUBSET Nat]
         /\ Home.first \in Nat /\ Home.last \in Home.first .. 2 * DaySlots - 1
         /\ Home.rate \in Nat /\ Home.dispatch \subseteq Nat /\ Home.battery \in 0 .. Capacity
         /\ \A t \in 0 .. DaySlots - 1 : \A v \in Home.p90[t] :
                Home.p90[t] = {v} /\ Home.solar[t] <= v
  BY PlanAssumption DEF Home

LEMMA SizesAre ==
  /\ DaySlots \in Nat \ {0} /\ WindowSlots \in 1 .. DaySlots - 1
  /\ Capacity \in Nat /\ DischargeUnits \in Nat /\ SiteExport \in Nat
  /\ ChargeUnits \in Nat /\ SupplyUnits \in Nat /\ BufferPct \in Nat
  BY PlanAssumption

LEMMA Remainder ==
  ASSUME NEW i \in Nat, NEW d \in Nat \ {0}
  PROVE  i % d \in 0 .. d - 1 /\ i % d <= i
  OBVIOUS

LEMMA SlotGeometry ==
  ASSUME NEW i \in Nat
  PROVE  /\ Tod(i) \in 0 .. DaySlots - 1 /\ Tod(i) <= i
         /\ DayStart(i) \in Nat /\ i = DayStart(i) + Tod(i)
         /\ WindowOf(i) \in Nat /\ WindowEnd(i) \in Nat /\ HorizonEnd(i) \in Nat
         /\ i < HorizonEnd(i) /\ WindowOf(i) < WindowEnd(i) /\ WindowEnd(i) <= HorizonEnd(i)
         /\ (InWindow(i) => i < WindowEnd(i))
<1>1. Tod(i) \in 0 .. DaySlots - 1 /\ Tod(i) <= i
  BY SizesAre, Remainder DEF Tod
<1>2. DayStart(i) \in Nat /\ i = DayStart(i) + Tod(i)
  BY <1>1, SizesAre DEF DayStart
<1>3. CASE InWindow(i)
  <2>1. WindowOf(i) = DayStart(i) /\ Tod(i) < WindowSlots
    BY <1>3 DEF WindowOf, InWindow
  <2> QED
    BY <1>1, <1>2, <2>1, SizesAre DEF WindowEnd, HorizonEnd
<1>4. CASE ~InWindow(i)
  <2>1. WindowOf(i) = DayStart(i) + DaySlots
    BY <1>4 DEF WindowOf
  <2> QED
    BY <1>1, <1>2, <1>4, <2>1, SizesAre DEF WindowEnd, HorizonEnd
<1> QED
  BY <1>3, <1>4

LEMMA Positives ==
  ASSUME NEW x \in Int
  PROVE  AtLeast0(x) \in Nat /\ AtLeast0(x) >= x /\ (AtLeast0(x) > 0 => AtLeast0(x) = x)
  BY DEF AtLeast0

LEMMA Lowers ==
  ASSUME NEW x \in Int, NEW y \in Int
  PROVE  /\ Lower(x, y) \in Int /\ Lower(x, y) <= x /\ Lower(x, y) <= y
         /\ Lower(x, y) \in {x, y}
         /\ (x \in Nat /\ y \in Nat => Lower(x, y) \in Nat)
  BY DEF Lower

LEMMA BufferedIsNatural ==
  ASSUME NEW x \in Nat
  PROVE  Buffered(x) \in Nat
<1>1. x * BufferPct \in Nat
  BY SizesAre
<1> DEFINE y == x * BufferPct
<1> HIDE DEF y
<1>2. ASSUME NEW z \in Nat PROVE z \div 100 \in Nat
  OBVIOUS
<1>3. (x * BufferPct) \div 100 \in Nat
  BY <1>1, <1>2
<1> QED
  BY <1>3 DEF Buffered

\* What the house draws, the sun gives and a unit costs in a slot.
LEMMA SlotNumbers ==
  ASSUME home \in HomeNumbers, NEW i \in Nat
  PROVE  /\ Load(i) \in Nat /\ Sun(i) \in Nat /\ P90(i) \in SUBSET Nat
         /\ Cheap(i) \in BOOLEAN /\ Price(i) \in Nat
         /\ Net(i) \in Nat /\ Uncovered(i) \in Nat /\ ChargeOf(i) \in Nat
         /\ \A v \in P90(i) : P90(i) = {v} /\ Sun(i) <= v
<1>1. Tod(i) \in 0 .. DaySlots - 1
  BY SlotGeometry
<1>2. Load(i) \in Nat /\ Sun(i) \in Nat /\ Home.price[Tod(i)] \in Nat
  BY <1>1, HomeIs DEF Load, Sun
<1>3. P90(i) \in SUBSET Nat /\ \A v \in P90(i) : P90(i) = {v} /\ Sun(i) <= v
  BY <1>1, HomeIs DEF P90, Sun
<1>4. Cheap(i) \in BOOLEAN
  BY DEF Cheap, InWindow
<1>5. Price(i) \in Nat
  BY <1>2 DEF Price, CheapRate
<1>6. Net(i) \in Nat
  BY <1>2, Positives DEF Net
<1>7. Uncovered(i) \in Nat
  BY <1>6 DEF Uncovered
<1>8. ChargeOf(i) \in Nat
  <2>1. SupplyUnits - Load(i) \in Int /\ ChargeUnits \in Int
    BY <1>2, SizesAre
  <2>2. Lower(ChargeUnits, SupplyUnits - Load(i)) \in Int
    BY <2>1, Lowers
  <2> QED
    BY <2>2, Positives DEF ChargeOf
<1> QED
  BY <1>2, <1>3, <1>4, <1>5, <1>6, <1>7, <1>8

\* What an event slot costs the house, and what it can put on the line.
LEMMA EventNumbers ==
  ASSUME home \in HomeNumbers, NEW now \in Nat, NEW i \in Nat
  PROVE  /\ EventNet(now, i) \in Nat /\ Owed(now, i) \in Nat
         /\ Surplus(now, i) \in Nat /\ ExportOf(now, i) \in Nat
<1>1. Load(i) \in Nat /\ Sun(i) \in Nat /\ Net(i) \in Nat
  BY SlotNumbers
<1>2. EventNet(now, i) \in Nat
  BY <1>1 DEF EventNet
<1>3. Owed(now, i) \in Nat
  BY <1>2 DEF Owed
<1>4. SunOf(now, i) \in Nat
  BY <1>1 DEF SunOf
<1>5. DischargeUnits + SunOf(now, i) - Load(i) \in Int
  BY <1>1, <1>4, SizesAre
<1>6. Surplus(now, i) \in Nat
  BY <1>5, Positives DEF Surplus
<1>7. ExportOf(now, i) \in Nat
  BY <1>6, SizesAre DEF ExportOf, Lower
<1> QED
  BY <1>2, <1>3, <1>6, <1>7

\* The sums the planner takes.
LEMMA SumsAre ==
  ASSUME home \in HomeNumbers, NEW now \in Nat, NEW lo \in Nat, NEW hi \in Int
  PROVE  /\ Sum([i \in Nat |-> Owed(now, i)], lo, hi) \in Nat
         /\ Sum([i \in Nat |-> EventNet(now, i)], lo, hi) \in Nat
         /\ (lo <= hi => Sum([i \in Nat |-> EventNet(now, i)], lo, hi) >= EventNet(now, lo))
         /\ Sum([i \in Nat |-> ExportOf(now, i)], lo, hi) \in Nat
         /\ (lo <= hi => Sum([i \in Nat |-> ExportOf(now, i)], lo, hi) >= ExportOf(now, lo))
         /\ Sum([i \in Nat |-> Uncovered(i)], lo, hi) \in Nat
         /\ Sum([i \in Nat |-> IF InWindow(i) THEN ChargeOf(i) ELSE 0], lo, hi) \in Nat
<1>1. [i \in Nat |-> Owed(now, i)] \in [Nat -> Nat]
  BY EventNumbers
<1>2. [i \in Nat |-> EventNet(now, i)] \in [Nat -> Nat]
  BY EventNumbers
<1>3. [i \in Nat |-> ExportOf(now, i)] \in [Nat -> Nat]
  BY EventNumbers
<1>4. [i \in Nat |-> Uncovered(i)] \in [Nat -> Nat]
  BY SlotNumbers
<1>5. [i \in Nat |-> IF InWindow(i) THEN ChargeOf(i) ELSE 0] \in [Nat -> Nat]
  BY SlotNumbers
<1>6. [i \in Nat |-> EventNet(now, i)][lo] = EventNet(now, lo)
  OBVIOUS
<1>7. [i \in Nat |-> ExportOf(now, i)][lo] = ExportOf(now, lo)
  OBVIOUS
<1>8. Sum([i \in Nat |-> Owed(now, i)], lo, hi) \in Nat
  BY <1>1, SumIsNatural
<1>9. /\ Sum([i \in Nat |-> EventNet(now, i)], lo, hi) \in Nat
      /\ (lo <= hi => Sum([i \in Nat |-> EventNet(now, i)], lo, hi) >= EventNet(now, lo))
  BY <1>2, <1>6, SumIsNatural, SumHoldsFirst
<1>10. /\ Sum([i \in Nat |-> ExportOf(now, i)], lo, hi) \in Nat
       /\ (lo <= hi => Sum([i \in Nat |-> ExportOf(now, i)], lo, hi) >= ExportOf(now, lo))
  BY <1>3, <1>7, SumIsNatural, SumHoldsFirst
<1>11. Sum([i \in Nat |-> Uncovered(i)], lo, hi) \in Nat
  BY <1>4, SumIsNatural
<1>12. Sum([i \in Nat |-> IF InWindow(i) THEN ChargeOf(i) ELSE 0], lo, hi) \in Nat
  BY <1>5, SumIsNatural
<1> QED
  BY <1>8, <1>9, <1>10, <1>11, <1>12

LEMMA SoldIs ==
  ASSUME home \in HomeNumbers, NEW now \in Nat, NEW chosen, NEW lo \in Nat, NEW hi \in Int
  PROVE  Sum([i \in Nat |-> IF i \in chosen THEN ExportOf(now, i) ELSE 0], lo, hi) \in Nat
<1>1. [i \in Nat |-> IF i \in chosen THEN ExportOf(now, i) ELSE 0] \in [Nat -> Nat]
  BY EventNumbers
<1> QED
  BY <1>1, SumIsNatural

\* The slots of the paid event that the horizon still holds.
LEMMA EventSlotsAre ==
  ASSUME home \in HomeNumbers, NEW now \in Nat
  PROVE  /\ EventSlots(now) \in SUBSET (Nat \cap 0 .. 2 * DaySlots)
         /\ \A i \in EventSlots(now) : now <= i
         /\ EventSlots(now) # {} =>
              /\ Min(EventSlots(now)) \in EventSlots(now) /\ Max(EventSlots(now)) \in EventSlots(now)
              /\ \A i \in EventSlots(now) :
                   Min(EventSlots(now)) <= i /\ i <= Max(EventSlots(now))
<1>1. Home.first \in Nat /\ Home.last \in Home.first .. 2 * DaySlots - 1 /\ DaySlots \in Nat
  BY HomeIs, SizesAre
<1>2. \A i \in EventSlots(now) : i \in Int /\ now <= i /\ i <= Home.last
  BY <1>1, SlotGeometry DEF EventSlots
<1>3. EventSlots(now) \in SUBSET (Nat \cap 0 .. 2 * DaySlots)
  BY <1>1, <1>2
<1>4. IsFiniteSet(EventSlots(now)) /\ EventSlots(now) \in SUBSET Int
  <2>1. IsFiniteSet(0 .. 2 * DaySlots)
    BY <1>1, FS_Interval
  <2>2. EventSlots(now) \in SUBSET (0 .. 2 * DaySlots)
    BY <1>3
  <2>3. IsFiniteSet(EventSlots(now))
    BY <2>1, <2>2, FS_Subset
  <2> QED
    BY <1>3, <2>3
<1>5. EventSlots(now) # {} =>
        /\ Min(EventSlots(now)) \in EventSlots(now) /\ Max(EventSlots(now)) \in EventSlots(now)
        /\ \A i \in EventSlots(now) : Min(EventSlots(now)) <= i /\ i <= Max(EventSlots(now))
  <2> DEFINE S == EventSlots(now)
  <2> HIDE DEF S
  <2>1. ASSUME S # {}, IsFiniteSet(S), S \in SUBSET Int
        PROVE  Min(S) \in S /\ Max(S) \in S /\ \A i \in S : Min(S) <= i /\ i <= Max(S)
    <3>1. Min(S) \in S /\ \A i \in S : Min(S) <= i
      BY <2>1, MinIsLeast
    <3>2. Max(S) \in S /\ \A i \in S : Max(S) >= i
      BY <2>1, MaxIsGreatest
    <3>3. \A i \in S : i \in Int
      BY <2>1
    <3> QED
      BY <3>1, <3>2, <3>3
  <2> QED
    BY <1>4, <2>1 DEF S
<1> QED
  BY <1>2, <1>3, <1>5

LEMMA FirstCheapIs ==
  ASSUME NEW from \in Nat, NEW end \in Nat
  PROVE  FirstCheap(from, end) \in Nat
<1> DEFINE cheap == {i \in from .. end - 1 : Cheap(i)}
<1>1. CASE cheap = {}
  BY <1>1 DEF FirstCheap
<1>2. CASE cheap # {}
  <2>1. IsFiniteSet(from .. end - 1)
    BY FS_Interval
  <2>2. cheap \in SUBSET Nat /\ cheap \in SUBSET Int /\ cheap \in SUBSET (from .. end - 1)
    OBVIOUS
  <2>3. FirstCheap(from, end) = Min(cheap)
    BY <1>2 DEF FirstCheap
  <2> HIDE DEF cheap
  <2>4. IsFiniteSet(cheap)
    BY <2>1, <2>2, FS_Subset
  <2>5. Min(cheap) \in cheap
    BY <1>2, <2>2, <2>4, MinIsLeast
  <2> QED
    BY <2>2, <2>3, <2>5
<1> QED
  BY <1>1, <1>2

\* What an event may draw on.  Of a battery it takes as it is, the free energy and the reserve
\* are together no more than what the house leaves of it.
LEMMA PurseIs ==
  ASSUME home \in HomeNumbers, NEW now \in Nat, NEW soc \in Nat, NEW outflow \in Nat,
         NEW limit \in Nat, EventSlots(now) # {}
  PROVE  LET purse == Purse(now, soc, outflow, limit)
         IN  /\ purse.free \in Nat /\ purse.house \in Nat /\ purse.kept \in Nat
             /\ purse.reserve \in Nat /\ purse.target \in Nat
             /\ FromBattery(now) =>
                  /\ purse.free + purse.reserve = AtLeast0(soc - purse.house)
                  /\ purse.house >= EventNet(now, Min(EventSlots(now)))
<1> DEFINE first  == Min(EventSlots(now))
           last   == Max(EventSlots(now))
           before == IF FromBattery(now) THEN now ELSE WindowEnd(now)
           target == IF Home.last < WindowOf(now) THEN WindowOf(now)
                     ELSE FirstCheap(last + 1, HorizonEnd(now))
           usable == IF FromBattery(now) THEN soc
                     ELSE Lower(Capacity, AtLeast0(soc - outflow) + limit)
           after  == Sum([i \in Nat |-> Owed(now, i)], last + 1, target - 1)
           needed == Buffered(after)
           kept   == IF Home.last < WindowOf(now) THEN needed ELSE Lower(needed, usable)
           ahead  == Sum([i \in Nat |-> Owed(now, i)], before, first - 1)
           during == Sum([i \in Nat |-> EventNet(now, i)], first, last)
           house  == ahead + during
<1>1. Purse(now, soc, outflow, limit) =
        [free |-> AtLeast0(usable - kept - house), house |-> house, kept |-> kept,
         reserve |-> Lower(kept, AtLeast0(usable - house)),
         post |-> last + 1 .. target - 1, target |-> target,
         lean |-> \/ AtLeast0(usable - house) < needed
                  \/ \E i \in target .. WindowOf(target) - 1 : ~Cheap(i)]
  BY DEF Purse
<1>2. first \in Nat /\ last \in Nat /\ first <= last
  BY EventSlotsAre
<1>3. before \in Nat /\ WindowOf(now) \in Nat /\ HorizonEnd(now) \in Nat
  BY SlotGeometry
<1>4. target \in Nat
  <2>1. last + 1 \in Nat
    BY <1>2
  <2> HIDE DEF last
  <2>2. FirstCheap(last + 1, HorizonEnd(now)) \in Nat
    BY <1>3, <2>1, FirstCheapIs
  <2> QED
    BY <1>3, <2>2
<1>5. usable \in Nat
  <2>1. AtLeast0(soc - outflow) \in Nat
    BY Positives
  <2>2. Lower(Capacity, AtLeast0(soc - outflow) + limit) \in Nat
    BY <2>1, SizesAre DEF Lower
  <2> QED
    BY <2>2
<1>6. after \in Nat
  <2>1. last + 1 \in Nat /\ target - 1 \in Int
    BY <1>2, <1>4
  <2> HIDE DEF last, target
  <2> QED
    BY <2>1, SumsAre
<1>7. ahead \in Nat
  <2>1. before \in Nat /\ first - 1 \in Int
    BY <1>2, <1>3
  <2> HIDE DEF before, first
  <2> QED
    BY <2>1, SumsAre
<1>8. during \in Nat /\ during >= EventNet(now, first)
  <2>1. last \in Int
    BY <1>2
  <2> HIDE DEF first, last
  <2> QED
    BY <1>2, <2>1, SumsAre
<1>9. EventNet(now, first) \in Nat
  BY <1>2, EventNumbers
<1> HIDE DEF first, last, before, target, after, ahead, during
<1>10. house \in Nat /\ house >= EventNet(now, first)
  BY <1>7, <1>8, <1>9
<1>11. needed \in Nat
  BY <1>6, BufferedIsNatural
<1> HIDE DEF usable, needed, house
<1>12. kept \in Nat
  BY <1>5, <1>11 DEF Lower
<1> HIDE DEF kept
<1>13. /\ AtLeast0(usable - kept - house) \in Nat
       /\ Lower(kept, AtLeast0(usable - house)) \in Nat
       /\ AtLeast0(usable - kept - house) + Lower(kept, AtLeast0(usable - house))
            = AtLeast0(usable - house)
  BY <1>5, <1>10, <1>12 DEF Lower, AtLeast0
<1>14. FromBattery(now) => usable = soc
  BY DEF usable
<1> DEFINE purse == Purse(now, soc, outflow, limit)
<1>15. /\ purse.free = AtLeast0(usable - kept - house) /\ purse.house = house
       /\ purse.kept = kept /\ purse.target = target
       /\ purse.reserve = Lower(kept, AtLeast0(usable - house))
  BY <1>1
<1> HIDE DEF purse
<1>16. /\ purse.free \in Nat /\ purse.house \in Nat /\ purse.kept \in Nat
       /\ purse.reserve \in Nat /\ purse.target \in Nat
  BY <1>4, <1>10, <1>12, <1>13, <1>15
<1>17. FromBattery(now) =>
         /\ purse.free + purse.reserve = AtLeast0(soc - purse.house)
         /\ purse.house >= EventNet(now, Min(EventSlots(now)))
  BY <1>10, <1>13, <1>14, <1>15 DEF first
<1> QED
  BY <1>16, <1>17 DEF purse

\* What is exported are slots of the event.
LEMMA SelectedIs ==
  ASSUME NEW now, NEW purse
  PROVE  Selected(now, purse) \subseteq EventSlots(now)
  BY DEF Selected

\* The charge that a plan requires.
LEMMA SizedIs ==
  ASSUME home \in HomeNumbers, NEW now \in Nat, NEW soc \in Nat, NEW purse,
         NEW chosen \in SUBSET (Nat \cap 0 .. 2 * DaySlots),
         chosen # {} => /\ purse.free \in Nat /\ purse.house \in Nat /\ purse.kept \in Nat
                        /\ purse.reserve \in Nat /\ purse.target \in Nat
  PROVE  LET plan == Sized(now, soc, purse, chosen)
         IN  plan.export = chosen /\ plan.lean \in BOOLEAN /\ plan.required \in Nat
<1> DEFINE Sold(end) == Sum([i \in Nat |-> IF i \in chosen THEN ExportOf(now, i) ELSE 0],
                            now, end)
           sold    == Sold(HorizonEnd(now) - 1)
           early   == Sold(WindowOf(now) - 1)
           spent   == AtLeast0(sold - purse.free)
           bare    == Sum([i \in Nat |-> Uncovered(i)], Carried(now), HorizonEnd(now) - 1)
           deficit == Buffered(bare)
           eventNeed == (IF Max(chosen) >= Carried(now) THEN purse.house + sold ELSE 0)
                        + (IF purse.target > Carried(now) THEN purse.kept - spent ELSE 0)
           reserved == IF chosen = {} THEN SlotReservation(now)
                       ELSE IF Max(chosen) < Carried(now) /\ purse.target <= Carried(now)
                       THEN SlotReservation(now) ELSE eventNeed
           atWindow == AtLeast0(soc - Outflow(now) - early)
           room     == AtLeast0(Capacity - atWindow)
           owed     == AtLeast0(Max({reserved, deficit}) - atWindow)
           required == IF \E i \in chosen : InWindow(i) THEN 0
                       ELSE Lower(owed, Lower(room, ChargeLimit(now)))
<1>1. Sized(now, soc, purse, chosen) =
        [export |-> chosen, lean |-> chosen # {} /\ purse.lean,
         required |-> required]
  BY DEF Sized
<1>2. /\ WindowOf(now) \in Nat /\ HorizonEnd(now) \in Nat
      /\ WindowOf(now) - 1 \in Int /\ HorizonEnd(now) - 1 \in Int
  BY SlotGeometry
<1>3. Carried(now) \in Nat
  BY <1>2 DEF Carried
<1>4. sold \in Nat /\ early \in Nat
  <2>1. ASSUME NEW end \in Int PROVE Sold(end) \in Nat
    BY SoldIs
  <2> HIDE DEF Sold
  <2> QED
    BY <1>2, <2>1
<1>5. deficit \in Nat
  <2>1. bare \in Nat
    BY <1>2, <1>3, SumsAre
  <2> HIDE DEF bare
  <2> QED
    BY <2>1, BufferedIsNatural
<1>6. SlotReservation(now) \in Nat
  <2> DEFINE dear == {i \in Carried(now) .. HorizonEnd(now) - 1 : ~Cheap(i)}
             target == IF dear = {} THEN HorizonEnd(now)
                       ELSE FirstCheap(Min(dear) + 1, HorizonEnd(now))
             carry  == Sum([i \in Nat |-> Uncovered(i)], Carried(now), target - 1)
  <2>1. SlotReservation(now) = Lower(Buffered(carry), Capacity)
    BY DEF SlotReservation
  <2>2. target \in Nat
    <3>1. CASE dear = {}
      BY <1>2, <3>1
    <3>2. CASE dear # {}
      <4>1. IsFiniteSet(Carried(now) .. HorizonEnd(now) - 1)
        BY <1>2, <1>3, FS_Interval
      <4>2. /\ dear \in SUBSET Nat /\ dear \in SUBSET Int
            /\ dear \in SUBSET (Carried(now) .. HorizonEnd(now) - 1)
        BY <1>2, <1>3
      <4>3. target = FirstCheap(Min(dear) + 1, HorizonEnd(now))
        BY <3>2
      <4> HIDE DEF dear, target
      <4>4. IsFiniteSet(dear)
        BY <4>1, <4>2, FS_Subset
      <4>5. Min(dear) \in dear
        BY <3>2, <4>2, <4>4, MinIsLeast
      <4>6. Min(dear) \in Nat
        BY <4>2, <4>5
      <4>7. Min(dear) + 1 \in Nat
        BY <4>6
      <4>8. FirstCheap(Min(dear) + 1, HorizonEnd(now)) \in Nat
        BY <1>2, <4>7, FirstCheapIs
      <4> QED
        BY <4>3, <4>8
    <3> QED
      BY <3>1, <3>2
  <2> HIDE DEF target
  <2>3. target - 1 \in Int
    BY <2>2
  <2>4. carry \in Nat
    BY <1>3, <2>3, SumsAre
  <2> HIDE DEF carry
  <2>5. Buffered(carry) \in Nat
    BY <2>4, BufferedIsNatural
  <2> QED
    BY <2>1, <2>5, SizesAre DEF Lower
<1>7. ChargeLimit(now) \in Nat
  BY <1>2, SumsAre DEF ChargeLimit
<1>8. Outflow(now) \in Nat
  BY <1>2, SumsAre DEF Outflow
<1> HIDE DEF sold, early, deficit
<1>9. reserved \in Int
  <2>1. CASE chosen = {}
    BY <1>6, <2>1
  <2>2. CASE chosen # {}
    <3>1. spent \in Int
      BY <1>4, <2>2 DEF AtLeast0
    <3> HIDE DEF spent
    <3>2. (IF Max(chosen) >= Carried(now) THEN purse.house + sold ELSE 0) \in Int
      BY <1>4, <2>2
    <3>3. (IF purse.target > Carried(now) THEN purse.kept - spent ELSE 0) \in Int
      BY <2>2, <3>1
    <3>4. eventNeed \in Int
      BY <3>2, <3>3
    <3> HIDE DEF eventNeed
    <3> QED
      BY <1>6, <2>2, <3>4
  <2> QED
    BY <2>1, <2>2
<1> HIDE DEF reserved
<1>10. atWindow \in Nat
  BY <1>4, <1>8, Positives
<1> HIDE DEF atWindow
<1>11. room \in Nat
  BY <1>10, SizesAre, Positives
<1>12. Max({reserved, deficit}) \in Int
  <2>1. deficit \in Int
    BY <1>5
  <2> QED
    BY <1>9, <2>1, GreaterOfTwo
<1> DEFINE most == Max({reserved, deficit})
<1>13. owed \in Nat
  <2>1. most \in Int /\ owed = AtLeast0(most - atWindow)
    BY <1>12
  <2> HIDE DEF most, owed
  <2> QED
    BY <1>10, <2>1, Positives
<1> HIDE DEF room, owed
<1>14. required \in Nat
  <2>1. Lower(owed, Lower(room, ChargeLimit(now))) \in Nat
    BY <1>7, <1>11, <1>13 DEF Lower
  <2> QED
    BY <2>1
<1>15. (chosen # {} /\ purse.lean) \in BOOLEAN
  OBVIOUS
<1> HIDE DEF required
<1> QED
  BY <1>1, <1>14, <1>15

-----------------------------------------------------------------------------
(* The planner: what a plan exports, and a slot that happens *)

LEMMA BoundsAre ==
  ASSUME home \in HomeNumbers, NEW now \in Nat
  PROVE  Outflow(now) \in Nat /\ ChargeLimit(now) \in Nat
<1>1. HorizonEnd(now) \in Nat /\ WindowOf(now) \in Nat
  BY SlotGeometry
<1>2. HorizonEnd(now) - 1 \in Int /\ WindowOf(now) - 1 \in Int
  BY <1>1
<1> QED
  BY <1>2, SumsAre DEF Outflow, ChargeLimit

LEMMA PlanIs ==
  ASSUME home \in HomeNumbers, NEW now \in Nat, NEW soc \in Nat
  PROVE  LET plan == Plan(now, soc)
         IN  /\ plan.export \in SUBSET (Nat \cap 0 .. 2 * DaySlots)
             /\ plan.lean \in BOOLEAN /\ plan.required \in Nat
             /\ \A i \in plan.export : i \in
                  Selected(now, Purse(now, soc, Outflow(now), ChargeLimit(now)))
<1> DEFINE purse  == Purse(now, soc, Outflow(now), ChargeLimit(now))
           chosen == IF EventSlots(now) = {} THEN {} ELSE Selected(now, purse)
           plan   == Sized(now, soc, purse, chosen)
<1>1. Plan(now, soc) = plan
  BY DEF Plan, Funded
<1>2. Outflow(now) \in Nat /\ ChargeLimit(now) \in Nat
  BY BoundsAre
<1>3. EventSlots(now) # {} =>
        /\ purse.free \in Nat /\ purse.house \in Nat /\ purse.kept \in Nat
        /\ purse.reserve \in Nat /\ purse.target \in Nat
  BY <1>2, PurseIs
<1> HIDE DEF purse
<1>4. /\ chosen \in SUBSET (Nat \cap 0 .. 2 * DaySlots)
      /\ chosen # {} => EventSlots(now) # {}
      /\ chosen \subseteq Selected(now, purse)
  BY EventSlotsAre, SelectedIs
<1> HIDE DEF chosen
<1>5. plan.export = chosen /\ plan.lean \in BOOLEAN /\ plan.required \in Nat
  BY <1>3, <1>4, SizedIs
<1> HIDE DEF plan
<1> QED
  BY <1>1, <1>4, <1>5 DEF purse

\* A slot that is exported in its turn: the battery holds the house and the whole command,
\* and the line carries the command beside the sun.
LEMMA ExportInTurn ==
  ASSUME home \in HomeNumbers, NEW now \in Nat, NEW soc \in Nat, now \in Plan(now, soc).export,
         NEW sun \in {0, Sun(now)} \union P90(now)
  PROVE  /\ soc >= DischargeUnits /\ DischargeUnits + sun - Load(now) <= SiteExport
         /\ ExportOf(now, now) = DischargeUnits - Load(now)
<1> DEFINE purse    == Purse(now, soc, Outflow(now), ChargeLimit(now))
           drawn    == Sum([j \in Nat |-> ExportOf(now, j)], now, Max(EventSlots(now)))
<1>1. now \in Selected(now, purse)
  BY PlanIs
<1>2. now \in EventSlots(now) /\ EventSlots(now) # {}
  BY <1>1, SelectedIs
<1>3. Min(EventSlots(now)) = now /\ Max(EventSlots(now)) \in Nat /\ now <= Max(EventSlots(now))
  <2>1. /\ Min(EventSlots(now)) \in Nat /\ Max(EventSlots(now)) \in Nat
        /\ Min(EventSlots(now)) <= now /\ now <= Min(EventSlots(now))
        /\ now <= Max(EventSlots(now))
    BY <1>2, EventSlotsAre
  <2> QED
    BY <2>1
<1>4. /\ ~Declines(now, now)
      /\ drawn <= purse.free \/ drawn - purse.free <= purse.reserve
  <2>1. now \in now .. Max(EventSlots(now))
    BY <1>3
  <2> QED
    BY <1>1, <2>1 DEF Selected, Funds
<1>5. FromBattery(now)
  <2>1. CASE InWindow(now)
    BY <1>2, <2>1 DEF FromBattery
  <2>2. CASE ~InWindow(now)
    <3>1. now < WindowEnd(now)
      BY <2>2, SlotGeometry, SizesAre DEF WindowEnd, WindowOf
    <3> QED
      BY <1>2, <1>3, <3>1 DEF FromBattery
  <2> QED
    BY <2>1, <2>2
<1>6. /\ purse.free \in Nat /\ purse.house \in Nat /\ purse.reserve \in Nat
      /\ purse.free + purse.reserve = AtLeast0(soc - purse.house)
      /\ purse.house >= EventNet(now, now)
  <2>1. Outflow(now) \in Nat /\ ChargeLimit(now) \in Nat
    BY BoundsAre
  <2>2. /\ purse.free \in Nat /\ purse.house \in Nat /\ purse.reserve \in Nat
        /\ FromBattery(now) =>
             /\ purse.free + purse.reserve = AtLeast0(soc - purse.house)
             /\ purse.house >= EventNet(now, Min(EventSlots(now)))
    BY <1>2, <2>1, PurseIs
  <2> HIDE DEF purse
  <2> QED
    BY <1>3, <1>5, <2>2
<1>7. EventNet(now, now) = Load(now) /\ SunOf(now, now) = 0
  BY DEF EventNet, SunOf
<1>8. Load(now) \in Nat /\ Sun(now) \in Nat /\ DischargeUnits \in Nat /\ SiteExport \in Nat
  BY SlotNumbers, SizesAre
<1>9. drawn \in Nat /\ drawn >= ExportOf(now, now) /\ ExportOf(now, now) \in Nat
  <2> DEFINE last == Max(EventSlots(now))
  <2>1. last \in Int /\ now <= last
    BY <1>3
  <2> HIDE DEF last
  <2>2. /\ Sum([j \in Nat |-> ExportOf(now, j)], now, last) \in Nat
        /\ Sum([j \in Nat |-> ExportOf(now, j)], now, last) >= ExportOf(now, now)
    BY <2>1, SumsAre
  <2>3. ExportOf(now, now) \in Nat
    BY EventNumbers
  <2> QED
    BY <2>2, <2>3 DEF last
<1> HIDE DEF purse, drawn
<1>10. Surplus(now, now) <= SiteExport /\ ExportOf(now, now) # 0
  BY <1>4, <1>8 DEF Declines, Surplus, AtLeast0, SunOf
<1>11. ExportOf(now, now) = DischargeUnits - Load(now) /\ DischargeUnits - Load(now) > 0
  BY <1>7, <1>8, <1>10 DEF ExportOf, Surplus, Lower, AtLeast0
<1>12. AtLeast0(soc - purse.house) >= DischargeUnits - Load(now)
  BY <1>4, <1>6, <1>8, <1>9, <1>11
<1>13. soc >= DischargeUnits
  BY <1>6, <1>7, <1>8, <1>11, <1>12 DEF AtLeast0
<1>14. DischargeUnits - Load(now) <= SiteExport
  BY <1>7, <1>8, <1>10, <1>11 DEF Surplus, AtLeast0
<1>15. DischargeUnits + sun - Load(now) <= SiteExport
  <2>1. CASE P90(now) = {}
    <3>1. ~(Sun(now) > 0)
      BY <1>4, <2>1 DEF Declines
    <3>2. sun = 0
      BY <1>8, <2>1, <3>1
    <3> QED
      BY <1>8, <1>14, <3>2
  <2>2. CASE P90(now) # {}
    <3>1. PICK v : v \in P90(now)
      BY <2>2
    <3>2. v \in Nat /\ P90(now) = {v} /\ Sun(now) <= v
      BY <3>1, SlotNumbers
    <3>3. Max(P90(now)) = v
      BY <3>2 DEF Max
    <3>4. DischargeUnits + v <= SiteExport
      BY <1>4, <1>8, <2>2, <3>2, <3>3 DEF Declines
    <3>5. sun \in Nat /\ sun <= v
      BY <1>8, <3>2
    <3> QED
      BY <1>8, <3>2, <3>4, <3>5
  <2> QED
    BY <2>1, <2>2
<1> QED
  BY <1>11, <1>13, <1>15

-----------------------------------------------------------------------------
(* The planner: types, and an export in its turn *)

LEMMA CeilIsNatural ==
  ASSUME NEW x \in Nat, NEW n \in Nat \ {0}
  PROVE  Ceil(x, n) \in Nat
<1>1. x + n - 1 \in Nat
  OBVIOUS
<1>2. ASSUME NEW y \in Nat PROVE y \div n \in Nat
  OBVIOUS
<1> QED
  BY <1>1, <1>2 DEF Ceil

LEMMA ServedWithin ==
  ASSUME NEW level \in Nat, NEW need \in Nat, NEW more \in Nat
  PROVE  Served(level, need, more) \in 0 .. Capacity
  BY SizesAre DEF Served, Lower, AtLeast0

\* The half hours of the window that are left, this one among them.
LEMMA WindowLeft ==
  ASSUME NEW now \in Nat, InWindow(now)
  PROVE  Cardinality({i \in now .. WindowEnd(now) - 1 : InWindow(i)}) \in Nat \ {0}
<1> DEFINE slots == {i \in now .. WindowEnd(now) - 1 : InWindow(i)}
<1>1. WindowEnd(now) \in Nat /\ now < WindowEnd(now)
  BY SlotGeometry
<1>2. now \in slots /\ slots \in SUBSET (now .. WindowEnd(now) - 1)
  BY <1>1
<1>3. IsFiniteSet(now .. WindowEnd(now) - 1)
  BY <1>1, FS_Interval
<1> HIDE DEF slots
<1>4. IsFiniteSet(slots) /\ slots # {}
  BY <1>2, <1>3, FS_Subset
<1>5. Cardinality(slots) \in Nat /\ Cardinality(slots) # 0
  BY <1>4, FS_CardinalityType, FS_EmptySet
<1> QED
  BY <1>5 DEF slots

LEMMA PlanStart == PlanInit => PlanTypeOK
<1> SUFFICES ASSUME PlanInit PROVE PlanTypeOK
  OBVIOUS
<1>1. home \in HomeNumbers /\ halfHour = WindowSlots /\ battery = Home.battery
      /\ exports = {} /\ twin = Home.battery /\ gain = 0 /\ lean = FALSE /\ metered = 0
  BY DEF PlanInit
<1>2. Home.battery \in 0 .. Capacity
  BY <1>1, HomeIs
<1>3. halfHour \in WindowSlots .. 2 * DaySlots
  BY <1>1, SizesAre
<1>4. {battery, twin} \subseteq 0 .. Capacity
  BY <1>1, <1>2
<1>5. gain \in Int /\ lean \in BOOLEAN /\ metered \in Int /\ exports \subseteq 0 .. 2 * DaySlots
  <2>1. 0 \in Int /\ FALSE \in BOOLEAN /\ {} \subseteq 0 .. 2 * DaySlots
    OBVIOUS
  <2> QED
    BY ONLY <1>1, <2>1
<1> QED
  BY <1>1, <1>3, <1>4, <1>5 DEF PlanTypeOK

LEMMA PlanStep == PlanTypeOK /\ [PlanNext]_planVars => PlanTypeOK'
<1> SUFFICES ASSUME PlanTypeOK, [PlanNext]_planVars PROVE PlanTypeOK'
  OBVIOUS
<1>1. CASE UNCHANGED planVars
  BY <1>1 DEF PlanTypeOK, planVars
<1>2. CASE PlanNext
  <2>1. PICK sun \in {0, Sun(halfHour)} \union P90(halfHour) : Live(sun)
    BY <1>2 DEF PlanNext
  <2> DEFINE plan == Plan(halfHour, battery)
             need == AtLeast0(Load(halfHour) - sun)
             more == AtLeast0(sun - Load(halfHour))
             left == Cardinality({i \in halfHour .. WindowEnd(halfHour) - 1 : InWindow(i)})
  <2>2. /\ home \in HomeNumbers /\ halfHour \in Nat /\ battery \in Nat /\ twin \in Nat
        /\ battery <= Capacity /\ gain \in Int /\ lean \in BOOLEAN /\ metered \in Int
        /\ halfHour >= WindowSlots
    BY SizesAre DEF PlanTypeOK
  <2>3. sun \in Nat /\ Load(halfHour) \in Nat /\ Price(halfHour) \in Nat /\ ChargeOf(halfHour) \in Nat
    <3>1. /\ Load(halfHour) \in Nat /\ Sun(halfHour) \in Nat /\ P90(halfHour) \in SUBSET Nat
          /\ Price(halfHour) \in Nat /\ ChargeOf(halfHour) \in Nat
      BY <2>2, SlotNumbers
    <3>2. sun \in Nat
      BY <3>1
    <3> QED
      BY <3>1, <3>2
  <2>4. need \in Nat /\ more \in Nat
    BY <2>3, Positives
  <2>5. /\ plan.export \in SUBSET (Nat \cap 0 .. 2 * DaySlots)
        /\ plan.lean \in BOOLEAN /\ plan.required \in Nat
    BY <2>2, PlanIs
  <2>6. Home.rate \in Nat /\ DischargeUnits \in Nat
    BY <2>2, HomeIs, SizesAre
  <2>7. /\ halfHour < 2 * DaySlots /\ exports' = plan.export
        /\ halfHour' = halfHour + 1 /\ home' = home
    BY <2>1 DEF Live
  <2>8. home' \in HomeNumbers /\ halfHour' \in WindowSlots .. 2 * DaySlots
        /\ exports' \subseteq 0 .. 2 * DaySlots
    BY <2>2, <2>5, <2>7, SizesAre
  <2>9. Bought(battery, need) \in Nat /\ Bought(twin, need) \in Nat
    BY <2>2, <2>4, Positives DEF Bought
  <2>10. /\ Served(battery, need, more) \in 0 .. Capacity
         /\ Served(twin, need, more) \in 0 .. Capacity
         /\ Served(battery, 0, more) \in 0 .. Capacity
         /\ Served(twin, 0, more) \in 0 .. Capacity
    <3>1. 0 \in Nat
      OBVIOUS
    <3> HIDE DEF need, more
    <3> QED
      BY <2>2, <2>4, <3>1, ServedWithin
  <2>11. \/ /\ battery' = AtLeast0(battery - DischargeUnits)
            /\ twin' = Served(twin, need, more)
            /\ metered' = DischargeUnits + sun - Load(halfHour)
            /\ gain' = gain + Home.rate * AtLeast0(DischargeUnits - need)
                            + Price(halfHour) * Bought(twin, need)
            /\ lean' = (lean \/ (plan.lean /\ Begins(halfHour)))
         \/ /\ InWindow(halfHour)
            /\ battery' = Served(battery, 0,
                   more + Lower(ChargeOf(halfHour), Ceil(plan.required, left)))
            /\ twin' = battery' /\ metered' = 0 /\ gain' = 0 /\ lean' = FALSE
         \/ /\ battery' = Served(battery, 0, more) /\ twin' = Served(twin, 0, more)
            /\ metered' = 0 /\ UNCHANGED <<gain, lean>>
         \/ /\ battery' = Served(battery, need, more) /\ twin' = Served(twin, need, more)
            /\ metered' = 0
            /\ gain' = gain - Price(halfHour) * (Bought(battery, need) - Bought(twin, need))
            /\ UNCHANGED lean
    BY <2>1 DEF Live
  <2> HIDE DEF need, more, plan, left
  <2>12. CASE /\ battery' = AtLeast0(battery - DischargeUnits)
              /\ twin' = Served(twin, need, more)
              /\ metered' = DischargeUnits + sun - Load(halfHour)
              /\ gain' = gain + Home.rate * AtLeast0(DischargeUnits - need)
                            + Price(halfHour) * Bought(twin, need)
              /\ lean' = (lean \/ (plan.lean /\ Begins(halfHour)))
    <3>1. battery' \in 0 .. Capacity
      BY <2>2, <2>6, <2>12, SizesAre DEF AtLeast0
    <3>2. AtLeast0(DischargeUnits - need) \in Nat
      BY <2>4, <2>6, Positives
    <3>3. Home.rate * AtLeast0(DischargeUnits - need) \in Nat
      BY <2>6, <3>2
    <3>4. Price(halfHour) * Bought(twin, need) \in Nat
      BY <2>3, <2>9
    <3>5. gain' \in Int
      BY <2>2, <2>12, <3>3, <3>4
    <3>6. metered' \in Int /\ lean' \in BOOLEAN
      BY <2>2, <2>3, <2>5, <2>6, <2>12
    <3> QED
      BY <2>8, <2>10, <2>12, <3>1, <3>5, <3>6 DEF PlanTypeOK
  <2>13. CASE /\ InWindow(halfHour)
              /\ battery' = Served(battery, 0,
                     more + Lower(ChargeOf(halfHour), Ceil(plan.required, left)))
              /\ twin' = battery' /\ metered' = 0 /\ gain' = 0 /\ lean' = FALSE
    <3>1. left \in Nat \ {0}
      BY <2>2, <2>13, WindowLeft DEF left
    <3>2. Ceil(plan.required, left) \in Nat
      BY <2>5, <3>1, CeilIsNatural
    <3>3. more + Lower(ChargeOf(halfHour), Ceil(plan.required, left)) \in Nat
      BY <2>3, <2>4, <3>2 DEF Lower
    <3>4. battery' \in 0 .. Capacity
      <4> DEFINE extra == more + Lower(ChargeOf(halfHour), Ceil(plan.required, left))
      <4>1. 0 \in Nat /\ extra \in Nat
        BY <3>3
      <4>2. battery' = Served(battery, 0, extra)
        BY <2>13
      <4> HIDE DEF extra
      <4>3. Served(battery, 0, extra) \in 0 .. Capacity
        BY <2>2, <4>1, ServedWithin
      <4> QED
        BY <4>2, <4>3
    <3>5. FALSE \in BOOLEAN /\ 0 \in Int
      OBVIOUS
    <3> QED
      BY <2>8, <2>13, <3>4, <3>5 DEF PlanTypeOK
  <2>14. CASE /\ battery' = Served(battery, 0, more) /\ twin' = Served(twin, 0, more)
              /\ metered' = 0 /\ UNCHANGED <<gain, lean>>
    BY <2>2, <2>8, <2>10, <2>14 DEF PlanTypeOK
  <2>15. CASE /\ battery' = Served(battery, need, more) /\ twin' = Served(twin, need, more)
              /\ metered' = 0
              /\ gain' = gain - Price(halfHour) * (Bought(battery, need) - Bought(twin, need))
              /\ UNCHANGED lean
    <3>1. Bought(battery, need) - Bought(twin, need) \in Int
      BY <2>9
    <3> DEFINE more2 == Bought(battery, need) - Bought(twin, need)
    <3>2. Price(halfHour) * more2 \in Int
      <4> HIDE DEF more2
      <4> QED
        BY <2>3, <3>1 DEF more2
    <3>3. gain' \in Int
      BY <2>2, <2>15, <3>2
    <3> QED
      BY <2>2, <2>8, <2>10, <2>15, <3>3 DEF PlanTypeOK
  <2> QED
    BY <2>11, <2>12, <2>13, <2>14, <2>15
<1> QED
  BY <1>1, <1>2

\* The planner's numbers, through compute_plan and the half hours it is followed by: the battery
\* and its twin keep within the bank, whatever the household, the event and the sun.
THEOREM PlanTypeCorrect == PlanSpec => []PlanTypeOK
<1>1. PlanInit => PlanTypeOK
  BY PlanStart
<1>2. PlanTypeOK /\ [PlanNext]_planVars => PlanTypeOK'
  BY PlanStep
<1> QED
  BY <1>1, <1>2, PTL DEF PlanSpec

\* Whenever an event's slot is exported (_event_export_plan, _select_export_suffix), the battery
\* holds the whole command and the line stays within the DNO limit, for every household.
THEOREM ExportsCarried == PlanSpec => [][ExportCarried]_planVars
<1>1. ASSUME PlanTypeOK, [PlanNext]_planVars PROVE [ExportCarried]_planVars
  <2>1. CASE UNCHANGED planVars
    BY <2>1
  <2>2. CASE PlanNext
    <3> SUFFICES ASSUME halfHour \in exports'
                 PROVE  battery >= DischargeUnits /\ metered' <= SiteExport
      BY DEF ExportCarried
    <3>1. PICK sun \in {0, Sun(halfHour)} \union P90(halfHour) : Live(sun)
      BY <2>2 DEF PlanNext
    <3>2. home \in HomeNumbers /\ halfHour \in Nat /\ battery \in Nat
      BY <1>1, SizesAre DEF PlanTypeOK
    <3>3. exports' = Plan(halfHour, battery).export
      BY <3>1 DEF Live
    <3>4. metered' = DischargeUnits + sun - Load(halfHour)
      BY <3>1, <3>3 DEF Live
    <3> QED
      BY <3>2, <3>3, <3>4, ExportInTurn
  <2> QED
    BY <1>1, <2>1, <2>2
<1> QED
  BY <1>1, PlanTypeCorrect, PTL DEF PlanSpec

-----------------------------------------------------------------------------
(* The planner: a promised slot is kept *)

\* The two days that are lived, in the days they are counted in.
LEMMA Quotient ==
  ASSUME NEW i \in Nat, NEW d \in Nat \ {0}, NEW r \in 0 .. d - 1
  PROVE  (i = r => i % d = r) /\ (i = d + r => i % d = r)
  OBVIOUS

LEMMA Days ==
  ASSUME NEW i \in Nat, i < 2 * DaySlots
  PROVE  /\ i < DaySlots => Tod(i) = i /\ DayStart(i) = 0
         /\ i >= DaySlots => Tod(i) = i - DaySlots /\ DayStart(i) = DaySlots
<1>1. DaySlots \in Nat \ {0}
  BY SizesAre
<1>2. CASE i < DaySlots
  <2>1. i \in 0 .. DaySlots - 1
    BY <1>1, <1>2
  <2>2. Tod(i) = i
    BY <1>1, <2>1, Quotient DEF Tod
  <2> QED
    BY <1>1, <1>2, <2>2 DEF DayStart
<1>3. CASE i >= DaySlots
  <2>1. i - DaySlots \in 0 .. DaySlots - 1 /\ i = DaySlots + (i - DaySlots)
    BY <1>1, <1>3
  <2>2. Tod(i) = i - DaySlots
    BY <1>1, <2>1, Quotient DEF Tod
  <2> QED
    BY <1>1, <1>3, <2>2 DEF DayStart
<1> QED
  BY <1>1, <1>2, <1>3

\* The window that is running or next, from the end of the first one.
LEMMA WindowsAre ==
  ASSUME NEW p \in Nat, p >= WindowSlots, p < 2 * DaySlots
  PROVE  /\ InWindow(p) <=> p \in DaySlots .. DaySlots + WindowSlots - 1
         /\ p < DaySlots + WindowSlots =>
              WindowOf(p) = DaySlots /\ HorizonEnd(p) = 2 * DaySlots
              /\ WindowEnd(p) = DaySlots + WindowSlots
         /\ p >= DaySlots + WindowSlots =>
              WindowOf(p) = 2 * DaySlots /\ HorizonEnd(p) = 3 * DaySlots
              /\ WindowEnd(p) = 2 * DaySlots + WindowSlots
<1>1. /\ DaySlots \in Nat \ {0} /\ WindowSlots \in 1 .. DaySlots - 1
  BY SizesAre
<1>2. CASE p < DaySlots
  <2>1. Tod(p) = p /\ DayStart(p) = 0
    BY <1>2, Days
  <2> QED
    BY <1>1, <1>2, <2>1 DEF InWindow, WindowOf, WindowEnd, HorizonEnd
<1>3. CASE p >= DaySlots
  <2>1. Tod(p) = p - DaySlots /\ DayStart(p) = DaySlots
    BY <1>3, Days
  <2> QED
    BY <1>1, <1>3, <2>1 DEF InWindow, WindowOf, WindowEnd, HorizonEnd
<1> QED
  BY <1>1, <1>2, <1>3

\* What is left of the event.
From(p) == IF p < Home.first THEN Home.first ELSE p

LEMMA LeastOfRange ==
  ASSUME NEW lo \in Int, NEW hi \in Int, lo <= hi
  PROVE  Min(lo .. hi) = lo /\ Max(lo .. hi) = hi
<1>1. lo .. hi \in SUBSET Int /\ lo .. hi # {} /\ lo \in lo .. hi /\ hi \in lo .. hi
  OBVIOUS
<1>2. IsFiniteSet(lo .. hi)
  BY FS_Interval
<1> DEFINE S == lo .. hi
<1>3. \A x \in S : x \in Int /\ lo <= x /\ x <= hi
  OBVIOUS
<1> HIDE DEF S
<1>4. Min(S) \in S /\ \A y \in S : Min(S) <= y
  BY <1>1, <1>2, MinIsLeast DEF S
<1>5. Max(S) \in S /\ \A y \in S : Max(S) >= y
  BY <1>1, <1>2, MaxIsGreatest DEF S
<1>6. lo \in S /\ hi \in S
  BY <1>1 DEF S
<1>7. Min(S) <= lo /\ lo <= Min(S) /\ Max(S) >= hi /\ Max(S) <= hi
  BY <1>3, <1>4, <1>5, <1>6
<1>8. Min(S) = lo /\ Max(S) = hi
  BY <1>3, <1>4, <1>5, <1>7
<1> QED
  BY <1>8 DEF S

LEMMA EventLeft ==
  ASSUME home \in HomeNumbers, NEW p \in Nat, p >= WindowSlots, p < 2 * DaySlots, p <= Home.last
  PROVE  /\ Home.last \in Nat /\ Home.last < 2 * DaySlots /\ Home.first \in Nat
         /\ From(p) \in Nat /\ p <= From(p) /\ From(p) <= Home.last /\ Home.first <= From(p)
         /\ EventSlots(p) = From(p) .. Home.last /\ EventSlots(p) # {}
         /\ Min(EventSlots(p)) = From(p) /\ Max(EventSlots(p)) = Home.last
<1>1. /\ Home.first \in Nat /\ Home.last \in Home.first .. 2 * DaySlots - 1
      /\ DaySlots \in Nat \ {0} /\ WindowSlots \in Nat
  BY HomeIs, SizesAre
<1>2. HorizonEnd(p) \in Nat /\ HorizonEnd(p) >= 2 * DaySlots
  BY <1>1, WindowsAre
<1>3. From(p) \in Nat /\ p <= From(p) /\ From(p) <= Home.last /\ Home.first <= From(p)
  BY <1>1 DEF From
<1>4. EventSlots(p) = From(p) .. Home.last
  BY <1>1, <1>2, <1>3 DEF EventSlots, From
<1>5. EventSlots(p) # {}
  BY <1>1, <1>3, <1>4
<1>6. Min(From(p) .. Home.last) = From(p) /\ Max(From(p) .. Home.last) = Home.last
  BY <1>1, <1>3, LeastOfRange
<1> QED
  BY <1>1, <1>3, <1>4, <1>5, <1>6

\* An event is funded by the battery as it is when it begins before the window's end.
LEMMA FromBatteryIs ==
  ASSUME home \in HomeNumbers, NEW p \in Nat, p >= WindowSlots, p < 2 * DaySlots, p <= Home.last
  PROVE  FromBattery(p) <=> From(p) < WindowEnd(p)
<1>1. /\ Home.last \in Nat /\ Home.last < 2 * DaySlots
      /\ From(p) \in Nat /\ p <= From(p) /\ From(p) <= Home.last
      /\ EventSlots(p) = From(p) .. Home.last /\ Min(EventSlots(p)) = From(p)
  BY EventLeft
<1>2. DaySlots \in Nat \ {0} /\ WindowSlots \in 1 .. DaySlots - 1
  BY SizesAre
<1>3. From(p) \in EventSlots(p)
  BY <1>1
<1>4. ASSUME NEW i \in EventSlots(p), InWindow(i) PROVE From(p) < WindowEnd(p)
  <2>1. i \in Nat /\ i >= From(p) /\ i >= p /\ i < 2 * DaySlots /\ i >= WindowSlots
    BY <1>1, <1>2
  <2>2. i >= DaySlots /\ i < DaySlots + WindowSlots
    BY <1>2, <1>4, <2>1, WindowsAre
  <2>3. p < DaySlots + WindowSlots
    BY <1>2, <2>1, <2>2
  <2>4. WindowEnd(p) = DaySlots + WindowSlots
    BY <2>3, WindowsAre
  <2> QED
    BY <1>1, <1>2, <2>1, <2>2, <2>4
<1> QED
  BY <1>1, <1>3, <1>4 DEF FromBattery

-----------------------------------------------------------------------------
(* The planner: the purse of an event, and what it pays for *)

Usable(p, soc) == IF FromBattery(p) THEN soc
                  ELSE Lower(Capacity, AtLeast0(soc - Outflow(p)) + ChargeLimit(p))
Before(p) == IF FromBattery(p) THEN p ELSE WindowEnd(p)
House(p)  == Sum([i \in Nat |-> Owed(p, i)], Before(p), From(p) - 1)
             + Sum([i \in Nat |-> EventNet(p, i)], From(p), Home.last)
Target(p) == IF Home.last < WindowOf(p) THEN WindowOf(p)
             ELSE FirstCheap(Home.last + 1, HorizonEnd(p))
Needed(p) == Buffered(Sum([i \in Nat |-> Owed(p, i)], Home.last + 1, Target(p) - 1))
Drawn(p, i) == Sum([j \in Nat |-> ExportOf(p, j)], i, Home.last)
\* What the house leaves of the usable energy, and how much of it the time after does not need.
Spare(p, soc)  == Usable(p, soc) - House(p)
Free(p, soc)   == AtLeast0(Spare(p, soc) - Needed(p))
Pledge(p, soc) == Lower(Needed(p), AtLeast0(Spare(p, soc)))
Post(p)        == Home.last + 1 .. Target(p) - 1
\* Less than the reserve, or the house draws again before the window.
Less(p, soc)   == \/ AtLeast0(Spare(p, soc)) < Needed(p)
                  \/ \E i \in Target(p) .. WindowOf(Target(p)) - 1 : ~Cheap(i)
\* What pays for the energy that is drawn.
Paid(p, soc, drawn) ==
    \/ drawn <= Free(p, soc)
    \/ /\ drawn - Free(p, soc) <= Pledge(p, soc)
       /\ Home.rate > Worst(p, Post(p), drawn - Free(p, soc))

LEMMA PurseNumbers ==
  ASSUME home \in HomeNumbers, NEW p \in Nat, p >= WindowSlots, p < 2 * DaySlots, p <= Home.last,
         NEW soc \in Nat
  PROVE  /\ Usable(p, soc) \in Nat /\ House(p) \in Nat /\ Target(p) \in Nat /\ Needed(p) \in Nat
         /\ Spare(p, soc) \in Int /\ Free(p, soc) \in Nat /\ Pledge(p, soc) \in Nat
         /\ \A i \in Nat : Drawn(p, i) \in Nat
<1>1. /\ Home.last \in Nat /\ From(p) \in Nat /\ WindowEnd(p) \in Nat /\ HorizonEnd(p) \in Nat
      /\ WindowOf(p) \in Nat
  BY EventLeft, SlotGeometry
<1>2. Usable(p, soc) \in Nat
  <2>1. Outflow(p) \in Nat /\ ChargeLimit(p) \in Nat
    BY BoundsAre
  <2>2. AtLeast0(soc - Outflow(p)) \in Nat
    BY <2>1, Positives
  <2> QED
    BY <2>1, <2>2, SizesAre DEF Usable, Lower
<1>3. House(p) \in Nat
  <2>1. Before(p) \in Nat /\ From(p) - 1 \in Int /\ Home.last \in Int
    BY <1>1 DEF Before
  <2>2. Sum([i \in Nat |-> Owed(p, i)], Before(p), From(p) - 1) \in Nat
    BY <2>1, SumsAre
  <2>3. Sum([i \in Nat |-> EventNet(p, i)], From(p), Home.last) \in Nat
    BY <1>1, <2>1, SumsAre
  <2> QED
    BY <2>2, <2>3 DEF House
<1>4. Target(p) \in Nat
  <2>1. Home.last + 1 \in Nat
    BY <1>1
  <2>2. FirstCheap(Home.last + 1, HorizonEnd(p)) \in Nat
    BY <1>1, <2>1, FirstCheapIs
  <2> QED
    BY <1>1, <2>2 DEF Target
<1>5. Needed(p) \in Nat
  <2>1. Home.last + 1 \in Nat /\ Target(p) - 1 \in Int
    BY <1>1, <1>4
  <2>2. Sum([i \in Nat |-> Owed(p, i)], Home.last + 1, Target(p) - 1) \in Nat
    BY <2>1, SumsAre
  <2> QED
    BY <2>2, BufferedIsNatural DEF Needed
<1>6. Spare(p, soc) \in Int
  BY <1>2, <1>3 DEF Spare
<1>7. Free(p, soc) \in Nat /\ Pledge(p, soc) \in Nat
  BY <1>5, <1>6 DEF Free, Pledge, Lower, AtLeast0
<1>8. ASSUME NEW i \in Nat PROVE Drawn(p, i) \in Nat
  <2>1. Home.last \in Int
    BY <1>1
  <2> QED
    BY <2>1, SumsAre DEF Drawn
<1> QED
  BY <1>2, <1>3, <1>4, <1>5, <1>6, <1>7, <1>8

\* Purse of RollingPlan in these terms.
LEMMA PurseOf ==
  ASSUME home \in HomeNumbers, NEW p \in Nat, p >= WindowSlots, p < 2 * DaySlots, p <= Home.last,
         NEW soc \in Nat
  PROVE  LET purse == Purse(p, soc, Outflow(p), ChargeLimit(p))
         IN  /\ purse.free = Free(p, soc) /\ purse.reserve = Pledge(p, soc)
             /\ purse.house = House(p) /\ purse.target = Target(p) /\ purse.post = Post(p)
             /\ purse.kept = IF Home.last < WindowOf(p) THEN Needed(p)
                             ELSE Lower(Needed(p), Usable(p, soc))
             /\ purse.lean <=> Less(p, soc)
<1>1. Min(EventSlots(p)) = From(p) /\ Max(EventSlots(p)) = Home.last
  BY EventLeft
<1> DEFINE kept == IF Home.last < WindowOf(p) THEN Needed(p)
                   ELSE Lower(Needed(p), Usable(p, soc))
<1>2. Purse(p, soc, Outflow(p), ChargeLimit(p)) =
        [free |-> AtLeast0(Usable(p, soc) - kept - House(p)), house |-> House(p), kept |-> kept,
         reserve |-> Lower(kept, AtLeast0(Usable(p, soc) - House(p))),
         post |-> Post(p), target |-> Target(p), lean |-> Less(p, soc)]
  BY <1>1 DEF Purse, Usable, Before, House, Target, Needed, Post, Less, Spare
<1>3. /\ AtLeast0(Usable(p, soc) - kept - House(p)) = Free(p, soc)
      /\ Lower(kept, AtLeast0(Usable(p, soc) - House(p))) = Pledge(p, soc)
  <2>1. Usable(p, soc) \in Nat /\ House(p) \in Nat /\ Needed(p) \in Nat
    BY PurseNumbers
  <2>2. kept = Needed(p) \/ (kept = Usable(p, soc) /\ Usable(p, soc) <= Needed(p))
    BY <2>1 DEF Lower
  <2> HIDE DEF kept
  <2> QED
    BY <2>1, <2>2 DEF Free, Pledge, Spare, Lower, AtLeast0
<1> DEFINE purse == Purse(p, soc, Outflow(p), ChargeLimit(p))
<1>4. /\ purse.free = Free(p, soc) /\ purse.reserve = Pledge(p, soc)
      /\ purse.house = House(p) /\ purse.target = Target(p) /\ purse.post = Post(p)
      /\ purse.kept = kept /\ purse.lean = Less(p, soc)
  BY <1>2, <1>3
<1> QED
  BY <1>4

\* What a plan exports: the slots of the event from which on every one is allowed and paid.
LEMMA ExportsOf ==
  ASSUME home \in HomeNumbers, NEW p \in Nat, p >= WindowSlots, p < 2 * DaySlots, p <= Home.last,
         NEW soc \in Nat, NEW i
  PROVE  i \in Plan(p, soc).export <=>
           /\ i \in From(p) .. Home.last
           /\ \A j \in i .. Home.last : ~Declines(p, j) /\ Paid(p, soc, Drawn(p, j))
<1> DEFINE purse == Purse(p, soc, Outflow(p), ChargeLimit(p))
<1>1. /\ EventSlots(p) = From(p) .. Home.last /\ EventSlots(p) # {}
      /\ Max(EventSlots(p)) = Home.last
  BY EventLeft
<1>2. purse.free = Free(p, soc) /\ purse.reserve = Pledge(p, soc) /\ purse.post = Post(p)
  BY PurseOf
<1>3. Plan(p, soc).export = Selected(p, purse)
  BY <1>1 DEF Plan, Funded, Sized
<1> HIDE DEF purse
<1>4. \A j : Drawn(p, j) <= purse.free \/ Funds(p, purse, Drawn(p, j) - purse.free)
               <=> Paid(p, soc, Drawn(p, j))
  BY <1>2 DEF Paid, Funds
<1>5. Selected(p, purse) =
        {k \in From(p) .. Home.last :
            \A j \in k .. Home.last :
               ~Declines(p, j)
               /\ (Drawn(p, j) <= purse.free \/ Funds(p, purse, Drawn(p, j) - purse.free))}
  BY <1>1 DEF Selected, Drawn
<1> QED
  BY <1>3, <1>4, <1>5

-----------------------------------------------------------------------------
(* The planner: what the next plan sees *)

\* The slot p has happened; no window opens after it and no dispatch is foreseen.
Follows(p) ==
    /\ home \in HomeNumbers /\ Home.dispatch = {}
    /\ p \in Nat /\ p >= WindowSlots /\ p + 1 < 2 * DaySlots /\ ~InWindow(p + 1)
    /\ p + 1 <= Home.last

LEMMA NextSlot ==
  ASSUME NEW p, Follows(p)
  PROVE  /\ home \in HomeNumbers /\ p \in Nat /\ p + 1 \in Nat /\ p >= WindowSlots
         /\ p + 1 >= WindowSlots /\ p < 2 * DaySlots /\ p + 1 < 2 * DaySlots
         /\ p <= Home.last /\ p + 1 <= Home.last
         /\ DayStart(p + 1) = DayStart(p)
         /\ \/ /\ ~InWindow(p) /\ WindowOf(p + 1) = WindowOf(p)
            \/ /\ p = DaySlots + WindowSlots - 1 /\ InWindow(p)
               /\ WindowOf(p) = DaySlots /\ WindowOf(p + 1) = 2 * DaySlots
<1>1. /\ home \in HomeNumbers /\ p \in Nat /\ p >= WindowSlots /\ p + 1 < 2 * DaySlots
      /\ ~InWindow(p + 1) /\ p + 1 <= Home.last
  BY DEF Follows
<1>2. DaySlots \in Nat \ {0} /\ WindowSlots \in 1 .. DaySlots - 1 /\ Home.last \in Nat
  BY <1>1, SizesAre, HomeIs
<1>3. p + 1 \in Nat /\ p + 1 >= WindowSlots /\ p < 2 * DaySlots /\ p <= Home.last
  BY <1>1, <1>2
<1>4. p + 1 \notin DaySlots .. DaySlots + WindowSlots - 1
  BY <1>1, <1>3, WindowsAre
<1>5. CASE p + 1 < DaySlots
  <2>1. DayStart(p + 1) = 0 /\ DayStart(p) = 0
    BY <1>1, <1>2, <1>3, <1>5, Days
  <2>2. ~InWindow(p) /\ WindowOf(p + 1) = WindowOf(p)
    <3>1. p + 1 < DaySlots + WindowSlots /\ p < DaySlots + WindowSlots
          /\ p \notin DaySlots .. DaySlots + WindowSlots - 1
      BY <1>1, <1>2, <1>5
    <3> QED
      BY <1>1, <1>3, <3>1, WindowsAre
  <2> QED
    BY <1>1, <1>3, <2>1, <2>2
<1>6. CASE p + 1 >= DaySlots + WindowSlots
  <2>1. p >= DaySlots /\ p + 1 >= DaySlots
    BY <1>1, <1>2, <1>6
  <2>2. DayStart(p + 1) = DaySlots /\ DayStart(p) = DaySlots
    BY <1>1, <1>3, <2>1, Days
  <2>3. WindowOf(p + 1) = 2 * DaySlots
    BY <1>1, <1>3, <1>6, WindowsAre
  <2>4. CASE p = DaySlots + WindowSlots - 1
    <3>1. p \in DaySlots .. DaySlots + WindowSlots - 1 /\ p < DaySlots + WindowSlots
      BY <1>1, <1>2, <2>1, <2>4
    <3>2. InWindow(p) /\ WindowOf(p) = DaySlots
      BY <1>1, <1>3, <3>1, WindowsAre
    <3> QED
      BY <1>1, <1>3, <2>2, <2>3, <2>4, <3>2
  <2>5. CASE p # DaySlots + WindowSlots - 1
    <3>1. p \notin DaySlots .. DaySlots + WindowSlots - 1 /\ p >= DaySlots + WindowSlots
      BY <1>1, <1>2, <1>6, <2>5
    <3>2. ~InWindow(p) /\ WindowOf(p) = 2 * DaySlots
      BY <1>1, <1>3, <3>1, WindowsAre
    <3> QED
      BY <1>1, <1>3, <2>2, <2>3, <3>2
  <2> QED
    BY <2>4, <2>5
<1> QED
  BY <1>1, <1>2, <1>3, <1>4, <1>5, <1>6

\* The two plans price, forbid and owe the slots to come alike.
LEMMA SameView ==
  ASSUME NEW p, Follows(p), NEW i \in Nat, i > p, i < 2 * DaySlots
  PROVE  /\ EventNet(p + 1, i) = EventNet(p, i) /\ Owed(p + 1, i) = Owed(p, i)
         /\ ExportOf(p + 1, i) = ExportOf(p, i) /\ (Declines(p + 1, i) <=> Declines(p, i))
<1>1. /\ p \in Nat /\ p >= WindowSlots /\ DayStart(p + 1) = DayStart(p) /\ Home.dispatch = {}
      /\ p <= Home.last /\ Home.last \in Nat /\ Home.last < 2 * DaySlots
  BY NextSlot, EventLeft DEF Follows
<1>2. SunOf(p + 1, i) = SunOf(p, i)
  BY <1>1 DEF SunOf
<1>3. Surplus(p + 1, i) = Surplus(p, i)
  BY <1>2 DEF Surplus
<1>4. ExportOf(p + 1, i) = ExportOf(p, i)
  BY <1>3 DEF ExportOf
<1>5. Declines(p + 1, i) <=> Declines(p, i)
  BY <1>1, <1>3, <1>4 DEF Declines
<1>6. EventNet(p + 1, i) = EventNet(p, i) /\ Owed(p + 1, i) = Owed(p, i)
  <2>1. CASE ~InWindow(p) /\ WindowOf(p + 1) = WindowOf(p)
    <3>1. EventNet(p + 1, i) = EventNet(p, i)
      BY <1>1, <2>1 DEF EventNet
    <3> QED
      BY <2>1, <3>1 DEF Owed
  <2>2. CASE /\ p = DaySlots + WindowSlots - 1 /\ InWindow(p)
             /\ WindowOf(p) = DaySlots /\ WindowOf(p + 1) = 2 * DaySlots
    <3>1. DaySlots \in Nat \ {0} /\ WindowSlots \in 1 .. DaySlots - 1
      BY SizesAre
    <3>2. i >= DaySlots /\ p >= DaySlots /\ p < 2 * DaySlots /\ i >= WindowSlots
          /\ i \notin DaySlots .. DaySlots + WindowSlots - 1
      BY <1>1, <2>2, <3>1
    <3>3. DayStart(i) = DaySlots /\ DayStart(p) = DaySlots
      BY <1>1, <3>2, Days
    <3>4. ~Cheap(i)
      BY <1>1, <3>2, WindowsAre DEF Cheap
    <3>5. EventNet(p + 1, i) = Load(i) /\ EventNet(p, i) = Load(i)
      BY <1>1, <3>3 DEF EventNet
    <3> QED
      BY <3>4, <3>5 DEF Owed
  <2> QED
    BY <2>1, <2>2, NextSlot
<1> QED
  BY <1>4, <1>5, <1>6

\* And they keep the same for the time after the event.
LEMMA SameNeeds ==
  ASSUME NEW p, Follows(p)
  PROVE  /\ Target(p + 1) = Target(p) /\ Needed(p + 1) = Needed(p) /\ Target(p) <= 2 * DaySlots
         /\ \A i \in Nat : i > p => Drawn(p + 1, i) = Drawn(p, i)
<1>1. /\ home \in HomeNumbers /\ p \in Nat /\ p + 1 \in Nat /\ p >= WindowSlots
      /\ p + 1 >= WindowSlots /\ p < 2 * DaySlots /\ p + 1 < 2 * DaySlots
      /\ p <= Home.last /\ p + 1 <= Home.last /\ Home.dispatch = {}
  BY NextSlot DEF Follows
<1>2. Home.last \in Nat /\ Home.last < 2 * DaySlots /\ DaySlots \in Nat \ {0}
      /\ WindowSlots \in 1 .. DaySlots - 1
  BY <1>1, EventLeft, SizesAre
<1>3. ASSUME NEW q \in {p, p + 1}, ~(Home.last < WindowOf(q))
      PROVE  HorizonEnd(q) = 2 * DaySlots
  <2>1. q \in Nat /\ q >= WindowSlots /\ q < 2 * DaySlots
    BY <1>1
  <2>2. q < DaySlots + WindowSlots
    <3>1. CASE q >= DaySlots + WindowSlots
      <4>1. WindowOf(q) = 2 * DaySlots
        BY <2>1, <3>1, WindowsAre
      <4> QED
        BY <1>2, <1>3, <4>1
    <3> QED
      BY <1>2, <2>1, <3>1
  <2> QED
    BY <2>1, <2>2, WindowsAre
<1>4. ASSUME NEW from \in Nat PROVE FirstCheap(from, 2 * DaySlots) <= 2 * DaySlots
  <2> DEFINE cheap == {i \in from .. 2 * DaySlots - 1 : Cheap(i)}
  <2>1. CASE cheap = {}
    <3>1. FirstCheap(from, 2 * DaySlots) = 2 * DaySlots
      BY <2>1 DEF FirstCheap
    <3> QED
      BY <1>2, <3>1
  <2>2. CASE cheap # {}
    <3>1. FirstCheap(from, 2 * DaySlots) = Min(cheap)
      BY <2>2 DEF FirstCheap
    <3>2. cheap \in SUBSET Int /\ cheap \in SUBSET (from .. 2 * DaySlots - 1)
      BY <1>2
    <3>3. IsFiniteSet(from .. 2 * DaySlots - 1)
      BY <1>2, FS_Interval
    <3> HIDE DEF cheap
    <3>4. Min(cheap) \in cheap
      BY <2>2, <3>2, <3>3, FS_Subset, MinIsLeast
    <3>5. Min(cheap) \in from .. 2 * DaySlots - 1
      BY <3>2, <3>4
    <3> QED
      BY <1>2, <3>1, <3>5
  <2> QED
    BY <2>1, <2>2
<1>5. Target(p + 1) = Target(p) /\ Target(p) <= 2 * DaySlots
  <2>1. CASE ~InWindow(p) /\ WindowOf(p + 1) = WindowOf(p)
    <3>1. HorizonEnd(p + 1) = HorizonEnd(p)
      BY <2>1 DEF HorizonEnd
    <3>2. Target(p + 1) = Target(p)
      BY <2>1, <3>1 DEF Target
    <3>3. WindowOf(p) <= 2 * DaySlots
      BY <1>1, <1>2, WindowsAre
    <3>4. CASE Home.last < WindowOf(p)
      BY <3>2, <3>3, <3>4 DEF Target
    <3>5. CASE ~(Home.last < WindowOf(p))
      <4>1. HorizonEnd(p) = 2 * DaySlots /\ Home.last + 1 \in Nat
        BY <1>2, <1>3, <3>5
      <4>2. Target(p) = FirstCheap(Home.last + 1, 2 * DaySlots)
        BY <3>5, <4>1 DEF Target
      <4> QED
        BY <1>4, <3>2, <4>1, <4>2
    <3> QED
      BY <3>4, <3>5
  <2>2. CASE /\ p = DaySlots + WindowSlots - 1 /\ InWindow(p)
             /\ WindowOf(p) = DaySlots /\ WindowOf(p + 1) = 2 * DaySlots
    <3>1. ~(Home.last < WindowOf(p)) /\ Home.last < WindowOf(p + 1)
      BY <1>1, <1>2, <2>2
    <3>2. HorizonEnd(p) = 2 * DaySlots
      BY <1>3, <3>1
    <3>3. ASSUME NEW i \in Home.last + 1 .. 2 * DaySlots - 1 PROVE ~Cheap(i)
      <4>1. i \in Nat /\ i >= WindowSlots /\ i < 2 * DaySlots
            /\ i \notin DaySlots .. DaySlots + WindowSlots - 1
        BY <1>1, <1>2, <2>2
      <4> QED
        BY <1>1, <4>1, WindowsAre DEF Cheap
    <3>4. {i \in Home.last + 1 .. 2 * DaySlots - 1 : Cheap(i)} = {}
      BY <3>3
    <3>5. FirstCheap(Home.last + 1, 2 * DaySlots) = 2 * DaySlots
      BY <3>4 DEF FirstCheap
    <3>6. Target(p) = 2 * DaySlots /\ Target(p + 1) = 2 * DaySlots
      BY <2>2, <3>1, <3>2, <3>5 DEF Target
    <3> QED
      BY <1>2, <3>6
  <2> QED
    BY <2>1, <2>2, NextSlot
<1>6. Needed(p + 1) = Needed(p)
  <2> DEFINE F == [i \in Nat |-> Owed(p, i)]
             G == [i \in Nat |-> Owed(p + 1, i)]
             lo == Home.last + 1
             hi == Target(p) - 1
  <2>1. F \in [Nat -> Nat] /\ G \in [Nat -> Nat]
    BY <1>1, EventNumbers
  <2>2. lo \in Nat /\ hi \in Int
    <3>1. Target(p) \in Nat
      BY <1>1, PurseNumbers
    <3> QED
      BY <1>2, <3>1
  <2>3. ASSUME NEW i \in lo .. hi PROVE F[i] = G[i]
    <3>1. i \in Nat /\ i > p /\ i < 2 * DaySlots
      <4>1. Target(p) \in Nat
        BY <1>1, PurseNumbers
      <4> QED
        BY <1>1, <1>2, <1>5, <4>1
    <3> QED
      BY <3>1, SameView
  <2>4. Needed(p) = Buffered(Sum(F, lo, hi)) /\ Needed(p + 1) = Buffered(Sum(G, lo, hi))
    BY <1>5 DEF Needed
  <2> HIDE DEF F, G, lo, hi
  <2>5. Sum(F, lo, hi) = Sum(G, lo, hi)
    BY <2>1, <2>2, <2>3, SameSums
  <2> QED
    BY <2>4, <2>5
<1>7. ASSUME NEW i \in Nat, i > p PROVE Drawn(p + 1, i) = Drawn(p, i)
  <2> DEFINE F == [j \in Nat |-> ExportOf(p, j)]
             G == [j \in Nat |-> ExportOf(p + 1, j)]
             hi == Home.last
  <2>1. F \in [Nat -> Nat] /\ G \in [Nat -> Nat] /\ hi \in Int
    <3>1. \A j \in Nat : ExportOf(p, j) \in Nat /\ ExportOf(p + 1, j) \in Nat
      BY <1>1, EventNumbers
    <3> QED
      BY <1>2, <3>1
  <2>2. ASSUME NEW j \in i .. hi PROVE F[j] = G[j]
    <3>1. j \in Nat /\ j > p /\ j < 2 * DaySlots
      BY <1>1, <1>2, <1>7
    <3> QED
      BY <3>1, SameView
  <2>3. Drawn(p, i) = Sum(F, i, hi) /\ Drawn(p + 1, i) = Sum(G, i, hi)
    BY DEF Drawn
  <2> HIDE DEF F, G, hi
  <2>4. Sum(F, i, hi) = Sum(G, i, hi)
    BY <2>1, <2>2, SameSums
  <2> QED
    BY <2>3, <2>4
<1> QED
  BY <1>5, <1>6, <1>7

\* The house draws its load of the slot that happened, and no more.
LEMMA HouseNext ==
  ASSUME NEW p, Follows(p)
  PROVE  /\ FromBattery(p) => FromBattery(p + 1) /\ House(p + 1) = House(p) - Load(p)
         /\ ~FromBattery(p) => House(p + 1) = House(p)
         /\ ~FromBattery(p) => \/ InWindow(p) /\ FromBattery(p + 1)
                               \/ ~InWindow(p) /\ ~FromBattery(p + 1)
<1>1. /\ home \in HomeNumbers /\ p \in Nat /\ p + 1 \in Nat /\ p >= WindowSlots
      /\ p + 1 >= WindowSlots /\ p < 2 * DaySlots /\ p + 1 < 2 * DaySlots
      /\ p <= Home.last /\ p + 1 <= Home.last /\ Home.dispatch = {}
  BY NextSlot DEF Follows
<1>2. /\ Home.last \in Nat /\ Home.last < 2 * DaySlots /\ Home.first \in Nat
      /\ DaySlots \in Nat \ {0} /\ WindowSlots \in 1 .. DaySlots - 1
      /\ From(p) \in Nat /\ From(p) <= Home.last /\ From(p + 1) \in Nat
      /\ From(p + 1) <= Home.last
  BY <1>1, EventLeft, SizesAre
<1>3. /\ FromBattery(p) <=> From(p) < WindowEnd(p)
      /\ FromBattery(p + 1) <=> From(p + 1) < WindowEnd(p + 1)
  BY <1>1, FromBatteryIs
<1>4. WindowEnd(p) \in Nat /\ WindowEnd(p + 1) \in Nat /\ p + 1 < WindowEnd(p + 1)
  BY <1>1, <1>2, WindowsAre
<1>5. From(p + 1) = IF p < Home.first THEN From(p) ELSE From(p) + 1
  BY <1>1, <1>2 DEF From
<1>6. /\ ~InWindow(p) => WindowEnd(p + 1) = WindowEnd(p)
      /\ InWindow(p) => WindowEnd(p) = p + 1 /\ WindowEnd(p + 1) = 2 * DaySlots + WindowSlots
  <2>1. CASE ~InWindow(p) /\ WindowOf(p + 1) = WindowOf(p)
    BY <2>1 DEF WindowEnd
  <2>2. CASE /\ p = DaySlots + WindowSlots - 1 /\ InWindow(p)
             /\ WindowOf(p) = DaySlots /\ WindowOf(p + 1) = 2 * DaySlots
    BY <1>2, <2>2 DEF WindowEnd
  <2> QED
    BY <2>1, <2>2, NextSlot
<1>7. /\ FromBattery(p) => FromBattery(p + 1)
      /\ ~FromBattery(p) => p < Home.first
      /\ ~FromBattery(p) => \/ InWindow(p) /\ FromBattery(p + 1)
                            \/ ~InWindow(p) /\ ~FromBattery(p + 1)
  <2>1. CASE InWindow(p)
    <3>1. FromBattery(p + 1)
      BY <1>2, <1>3, <1>6, <2>1
    <3>2. ~FromBattery(p) => p < Home.first
      BY <1>1, <1>2, <1>3, <1>6, <2>1 DEF From
    <3> QED
      BY <2>1, <3>1, <3>2
  <2>2. CASE ~InWindow(p)
    <3>1. WindowEnd(p + 1) = WindowEnd(p)
      BY <1>6, <2>2
    <3>2. CASE p < Home.first
      BY <1>3, <1>5, <2>2, <3>1, <3>2
    <3>3. CASE ~(p < Home.first)
      <4>1. From(p) = p /\ From(p + 1) = p + 1
        BY <1>2, <1>5, <3>3 DEF From
      <4>2. FromBattery(p) /\ FromBattery(p + 1)
        BY <1>1, <1>3, <1>4, <3>1, <4>1
      <4> QED
        BY <4>2
    <3> QED
      BY <3>2, <3>3
  <2> QED
    BY <2>1, <2>2
<1> DEFINE O == [i \in Nat |-> Owed(p, i)]
           P == [i \in Nat |-> Owed(p + 1, i)]
           E == [i \in Nat |-> EventNet(p, i)]
           F == [i \in Nat |-> EventNet(p + 1, i)]
<1>8. /\ O \in [Nat -> Nat] /\ P \in [Nat -> Nat] /\ E \in [Nat -> Nat] /\ F \in [Nat -> Nat]
      /\ Home.last \in Int
  <2>1. \A q \in {p, p + 1} : \A i \in Nat : Owed(q, i) \in Nat /\ EventNet(q, i) \in Nat
    BY <1>1, EventNumbers
  <2>2. Home.last \in Int
    BY <1>2
  <2> QED
    BY <2>1, <2>2
<1>9. /\ House(p) = Sum(O, Before(p), From(p) - 1) + Sum(E, From(p), Home.last)
      /\ House(p + 1) = Sum(P, Before(p + 1), From(p + 1) - 1) + Sum(F, From(p + 1), Home.last)
  BY DEF House
<1>10. ASSUME NEW i \in Nat, i > p, i <= Home.last PROVE O[i] = P[i] /\ E[i] = F[i]
  BY <1>1, <1>2, <1>10, SameView
<1>11. E[p] = Load(p) /\ Load(p) \in Nat
  BY <1>1, SlotNumbers DEF EventNet
<1>12. ~InWindow(p) => O[p] = Load(p)
  <2>1. ~InWindow(p) => ~Cheap(p)
    BY <1>1 DEF Cheap
  <2> QED
    BY <1>1, <1>11, <2>1 DEF Owed
<1> HIDE DEF O, P, E, F
<1>13. ASSUME NEW lo \in Nat, lo > p
       PROVE  /\ Sum(O, lo, From(p + 1) - 1) = Sum(P, lo, From(p + 1) - 1)
              /\ Sum(E, lo, Home.last) = Sum(F, lo, Home.last)
  <2>1. \A i \in lo .. From(p + 1) - 1 : O[i] = P[i]
    BY <1>1, <1>2, <1>10, <1>13
  <2>2. \A i \in lo .. Home.last : E[i] = F[i]
    BY <1>1, <1>2, <1>10, <1>13
  <2>3. From(p + 1) - 1 \in Int /\ Home.last \in Int
    BY <1>2
  <2>4. O \in [Nat -> Nat] /\ P \in [Nat -> Nat] /\ E \in [Nat -> Nat] /\ F \in [Nat -> Nat]
    BY <1>8
  <2>5. Sum(O, lo, From(p + 1) - 1) = Sum(P, lo, From(p + 1) - 1)
    BY <2>1, <2>3, <2>4, SameSums
  <2>6. Sum(E, lo, Home.last) = Sum(F, lo, Home.last)
    BY <2>2, <2>3, <2>4, SameSums
  <2> QED
    BY <2>5, <2>6
<1>14. ASSUME FromBattery(p) PROVE House(p + 1) = House(p) - Load(p)
  <2>1. Before(p) = p /\ Before(p + 1) = p + 1
    BY <1>7, <1>14 DEF Before
  <2>2. CASE p < Home.first
    <3>1. From(p + 1) = From(p) /\ p <= From(p) - 1 /\ p < From(p) /\ ~InWindow(p)
      BY <1>1, <1>2, <1>3, <1>5, <1>6, <1>14, <2>2 DEF From
    <3>2. From(p) - 1 \in Int
      BY <1>2
    <3>3. Sum(O, p, From(p) - 1) = O[p] + Sum(O, p + 1, From(p) - 1)
      BY <1>1, <1>8, <3>1, <3>2, SumFirst
    <3>4. /\ Sum(O, p + 1, From(p) - 1) = Sum(P, p + 1, From(p) - 1)
          /\ Sum(E, From(p), Home.last) = Sum(F, From(p), Home.last)
      BY <1>1, <1>2, <1>13, <3>1
    <3>5. Sum(P, p + 1, From(p) - 1) \in Nat /\ Sum(F, From(p), Home.last) \in Nat
      <4>1. P \in [Nat -> Nat] /\ F \in [Nat -> Nat] /\ Home.last \in Int
        BY <1>2, <1>8
      <4>2. Sum(P, p + 1, From(p) - 1) \in Nat
        BY <1>1, <3>2, <4>1, SumIsNatural
      <4>3. Sum(F, From(p), Home.last) \in Nat
        BY <1>2, <4>1, SumIsNatural
      <4> QED
        BY <4>2, <4>3
    <3> QED
      BY <1>9, <1>11, <1>12, <2>1, <3>1, <3>3, <3>4, <3>5
  <2>3. CASE ~(p < Home.first)
    <3>1. From(p) = p /\ From(p + 1) = p + 1 /\ p - 1 \in Int
      BY <1>1, <1>2, <1>5, <2>3 DEF From
    <3>2. Sum(O, p, p - 1) = 0 /\ Sum(P, p + 1, (p + 1) - 1) = 0
      BY <1>1, EmptySum
    <3>3. Sum(E, p, Home.last) = E[p] + Sum(E, p + 1, Home.last)
      <4>1. E \in [Nat -> Nat] /\ Home.last \in Int /\ p <= Home.last /\ p \in Nat
        BY <1>1, <1>2, <1>8
      <4> QED
        BY <4>1, SumFirst
    <3>4. Sum(E, p + 1, Home.last) = Sum(F, p + 1, Home.last)
      <4>1. p + 1 \in Nat /\ p + 1 > p
        BY <1>1
      <4> QED
        BY <1>13, <4>1
    <3>5. Sum(F, p + 1, Home.last) \in Nat
      <4>1. F \in [Nat -> Nat] /\ Home.last \in Int /\ p + 1 \in Nat
        BY <1>1, <1>2, <1>8
      <4> QED
        BY <4>1, SumIsNatural
    <3> QED
      BY <1>9, <1>11, <2>1, <3>1, <3>2, <3>3, <3>4, <3>5
  <2> QED
    BY <2>2, <2>3
<1>15. ASSUME ~FromBattery(p) PROVE House(p + 1) = House(p)
  <2>1. p < Home.first /\ From(p + 1) = From(p) /\ p < From(p)
    BY <1>2, <1>5, <1>7, <1>15 DEF From
  <2>2. Before(p + 1) = Before(p) /\ Before(p) \in Nat /\ Before(p) > p
    <3>1. CASE InWindow(p)
      <4>1. Before(p) = p + 1 /\ Before(p + 1) = p + 1
        BY <1>6, <1>7, <1>15, <3>1 DEF Before
      <4> QED
        BY <1>1, <4>1
    <3>2. CASE ~InWindow(p)
      <4>1. Before(p) = WindowEnd(p) /\ Before(p + 1) = WindowEnd(p + 1)
        BY <1>7, <1>15, <3>2 DEF Before
      <4> QED
        BY <1>1, <1>4, <1>6, <3>2, <4>1
    <3> QED
      BY <3>1, <3>2
  <2>3. /\ Sum(O, Before(p), From(p) - 1) = Sum(P, Before(p), From(p) - 1)
        /\ Sum(E, From(p), Home.last) = Sum(F, From(p), Home.last)
    BY <1>2, <1>13, <2>1, <2>2
  <2> QED
    BY <1>9, <2>1, <2>2, <2>3
<1> QED
  BY <1>7, <1>14, <1>15

LEMMA PricesFinite ==
  ASSUME NEW S \in SUBSET Nat, IsFiniteSet(S)
  PROVE  IsFiniteSet({Price(i) : i \in S})
<1> DEFINE f == [i \in S |-> Price(i)]
<1>1. f \in Surjection(S, {Price(i) : i \in S})
  BY DEF Surjection
<1> QED
  BY <1>1, FS_Surjection

\* A smaller shortfall is not bought dearer.
LEMMA WorstFalls ==
  ASSUME NEW p, Follows(p), NEW s \in Int, NEW t \in Int, t <= s
  PROVE  /\ Worst(p, Post(p), s) \in Nat /\ Worst(p + 1, Post(p), t) \in Nat
         /\ Worst(p + 1, Post(p), t) <= Worst(p, Post(p), s)
<1> DEFINE post == Post(p)
           O == [j \in Nat |-> Owed(p, j)]
           P == [j \in Nat |-> Owed(p + 1, j)]
           dear == {i \in post : Owed(p, i) > 0 /\ Sum(O, i + 1, Max(post)) < s}
           next == {i \in post : Owed(p + 1, i) > 0 /\ Sum(P, i + 1, Max(post)) < t}
           Cost(S) == {Price(i) : i \in S}
<1>1. /\ home \in HomeNumbers /\ p \in Nat /\ p + 1 \in Nat /\ p >= WindowSlots
      /\ p < 2 * DaySlots /\ p + 1 <= Home.last /\ p <= Home.last
  BY NextSlot
<1>2. Home.last \in Nat /\ DaySlots \in Nat /\ Target(p) \in Nat /\ Target(p) <= 2 * DaySlots
  BY <1>1, EventLeft, SizesAre, PurseNumbers, SameNeeds
<1>3. /\ post \in SUBSET Nat /\ \A i \in post : i > p /\ i < 2 * DaySlots
      /\ IsFiniteSet(post)
  <2>1. IsFiniteSet(Home.last + 1 .. Target(p) - 1)
    <3>1. Home.last + 1 \in Int /\ Target(p) - 1 \in Int
      BY <1>2
    <3> QED
      BY <3>1, FS_Interval
  <2> QED
    BY <1>1, <1>2, <2>1 DEF Post
<1>4. /\ Worst(p, post, s) = IF dear = {} THEN 0 ELSE Max(Cost(dear))
      /\ Worst(p + 1, post, t) = IF next = {} THEN 0 ELSE Max(Cost(next))
  BY DEF Worst
<1>5. \A i \in post : Owed(p, i) = Owed(p + 1, i)
  BY <1>3, SameView
<1>6. O \in [Nat -> Nat] /\ P \in [Nat -> Nat]
  BY <1>1, EventNumbers
<1>7. ASSUME NEW i \in post
      PROVE  /\ Sum(O, i + 1, Max(post)) = Sum(P, i + 1, Max(post))
             /\ Sum(O, i + 1, Max(post)) \in Nat
  <2>1. post = Home.last + 1 .. Target(p) - 1 /\ Home.last + 1 <= Target(p) - 1
        /\ Home.last + 1 \in Int /\ Target(p) - 1 \in Int
    BY <1>2, <1>7 DEF Post
  <2>2. Max(post) = Target(p) - 1
    BY <2>1, LeastOfRange
  <2>3. \A j \in i + 1 .. Target(p) - 1 : O[j] = P[j]
    <3>1. \A j \in i + 1 .. Target(p) - 1 : j \in post /\ j \in Nat
      BY <1>3, <2>1
    <3> QED
      BY <1>5, <3>1
  <2>4. i + 1 \in Nat
    BY <1>3
  <2> HIDE DEF post, O, P
  <2> QED
    <3>1. Sum(O, i + 1, Target(p) - 1) = Sum(P, i + 1, Target(p) - 1)
      BY <1>6, <2>1, <2>3, <2>4, SameSums
    <3>2. Sum(O, i + 1, Target(p) - 1) \in Nat
      BY <1>6, <2>1, <2>4, SumIsNatural
    <3> QED
      BY <2>2, <3>1, <3>2
<1>8. next \subseteq dear /\ dear \in SUBSET Nat /\ next \in SUBSET Nat
      /\ dear \in SUBSET post /\ next \in SUBSET post
  <2> HIDE DEF O, P, post
  <2>1. \A i \in post : Sum(P, i + 1, Max(post)) < t => Sum(O, i + 1, Max(post)) < s
    BY <1>7
  <2> QED
    BY <1>3, <1>5, <2>1
<1> HIDE DEF dear, next, post
<1>9. IsFiniteSet(dear) /\ IsFiniteSet(next)
  BY <1>3, <1>8, FS_Subset
<1>10. /\ IsFiniteSet(Cost(dear)) /\ IsFiniteSet(Cost(next))
       /\ Cost(dear) \in SUBSET Int /\ Cost(next) \in SUBSET Int
       /\ Cost(dear) \in SUBSET Nat /\ Cost(next) \in SUBSET Nat /\ Cost(next) \subseteq Cost(dear)
  <2>1. \A i \in Nat : Price(i) \in Nat
    BY <1>1, SlotNumbers
  <2>2. IsFiniteSet(Cost(dear)) /\ IsFiniteSet(Cost(next))
    BY <1>8, <1>9, PricesFinite
  <2>3. Cost(dear) \in SUBSET Nat /\ Cost(next) \in SUBSET Nat /\ Cost(next) \subseteq Cost(dear)
    BY <1>8, <2>1
  <2>4. Cost(dear) \in SUBSET Int /\ Cost(next) \in SUBSET Int
    BY ONLY <2>3
  <2> QED
    BY <2>2, <2>3, <2>4
<1>11. dear # {} => Cost(dear) # {}
  OBVIOUS
<1>12. next # {} => Cost(next) # {}
  OBVIOUS
<1> HIDE DEF Cost
<1>13. dear # {} => Max(Cost(dear)) \in Cost(dear) /\ \A y \in Cost(dear) : Max(Cost(dear)) >= y
  BY <1>10, <1>11, MaxIsGreatest
<1>14. next # {} => Max(Cost(next)) \in Cost(next)
  BY <1>10, <1>12, MaxIsGreatest
<1>15. CASE next = {}
  <2>1. Worst(p + 1, post, t) = 0
    BY <1>4, <1>15
  <2>2. Worst(p, post, s) \in Nat
    BY <1>4, <1>10, <1>13
  <2> QED
    BY <2>1, <2>2 DEF post
<1>16. CASE next # {}
  <2>1. dear # {}
    BY <1>8, <1>16
  <2>2. Worst(p + 1, post, t) = Max(Cost(next)) /\ Worst(p, post, s) = Max(Cost(dear))
    BY <1>4, <1>16, <2>1
  <2>3. Max(Cost(next)) \in Nat /\ Max(Cost(dear)) \in Nat /\ Max(Cost(dear)) >= Max(Cost(next))
    BY <1>10, <1>13, <1>14, <1>16, <2>1
  <2> QED
    BY <2>2, <2>3 DEF post
<1> QED
  BY <1>15, <1>16

\* What was paid stays paid when no more is drawn and as much is left of what is spare.
LEMMA PaidStays ==
  ASSUME NEW p, Follows(p), NEW soc \in Nat, NEW b \in Nat, NEW d \in Nat, NEW e \in Nat,
         e <= d, e - Spare(p + 1, b) <= d - Spare(p, soc), Paid(p, soc, d)
  PROVE  Paid(p + 1, b, e)
<1>1. /\ home \in HomeNumbers /\ p \in Nat /\ p + 1 \in Nat /\ p >= WindowSlots
      /\ p + 1 >= WindowSlots /\ p < 2 * DaySlots /\ p + 1 < 2 * DaySlots
      /\ p <= Home.last /\ p + 1 <= Home.last
  BY NextSlot
<1>2. /\ Needed(p) \in Nat /\ Needed(p + 1) = Needed(p) /\ Post(p + 1) = Post(p)
      /\ Spare(p, soc) \in Int /\ Spare(p + 1, b) \in Int
      /\ Free(p, soc) \in Nat /\ Free(p + 1, b) \in Nat
      /\ Pledge(p, soc) \in Nat /\ Pledge(p + 1, b) \in Nat
  BY <1>1, PurseNumbers, SameNeeds DEF Post
<1>3. d <= Free(p, soc) => e <= Free(p + 1, b)
  BY <1>2 DEF Free, AtLeast0
<1>4. d - Free(p, soc) <= Pledge(p, soc) =>
        \/ e <= Free(p + 1, b)
        \/ /\ e - Free(p + 1, b) <= Pledge(p + 1, b)
           /\ e - Free(p + 1, b) <= d - Free(p, soc)
  BY <1>2 DEF Free, Pledge, AtLeast0, Lower
<1>5. CASE e - Free(p + 1, b) <= d - Free(p, soc) /\ Home.rate > Worst(p, Post(p), d - Free(p, soc))
  <2>1. d - Free(p, soc) \in Int /\ e - Free(p + 1, b) \in Int /\ Home.rate \in Nat
    BY SMTT(30), <1>1, <1>2, HomeIs
  <2>2. /\ Worst(p, Post(p), d - Free(p, soc)) \in Nat
        /\ Worst(p + 1, Post(p), e - Free(p + 1, b)) \in Nat
        /\ Worst(p + 1, Post(p), e - Free(p + 1, b)) <= Worst(p, Post(p), d - Free(p, soc))
    BY <1>5, <2>1, WorstFalls
  <2>3. Home.rate > Worst(p + 1, Post(p + 1), e - Free(p + 1, b))
    BY <1>2, <1>5, <2>1, <2>2
  <2> QED
    BY <1>3, <1>4, <2>3 DEF Paid
<1> QED
  BY <1>3, <1>4, <1>5 DEF Paid

-----------------------------------------------------------------------------
(* The planner: the battery of the next plan *)

\* What the slot p made of a battery of soc, for the least.
Lived(p, soc, level) ==
    LET plan == Plan(p, soc)
        left == Cardinality({i \in p .. WindowEnd(p) - 1 : InWindow(i)})
    IN  /\ p \in plan.export => level = AtLeast0(soc - DischargeUnits)
        /\ p \notin plan.export /\ InWindow(p) =>
             level >= Lower(Capacity, soc + Lower(ChargeOf(p), Ceil(plan.required, left)))
        /\ p \notin plan.export /\ ~InWindow(p) /\ ~Cheap(p) => level >= soc - Load(p)

\* A slot exported in its turn takes from what is spare exactly what it was to be paid.
LEMMA AfterExport ==
  ASSUME NEW p, Follows(p), NEW soc \in Nat, NEW b \in Nat, Lived(p, soc, b),
         p \in Plan(p, soc).export, NEW j \in Nat, j > p
  PROVE  Paid(p + 1, b, Drawn(p, j))
<1>1. /\ home \in HomeNumbers /\ p \in Nat /\ p + 1 \in Nat /\ p >= WindowSlots
      /\ p + 1 >= WindowSlots /\ p < 2 * DaySlots /\ p + 1 < 2 * DaySlots
      /\ p <= Home.last /\ p + 1 <= Home.last
  BY NextSlot
<1>2. /\ soc >= DischargeUnits /\ ExportOf(p, p) = DischargeUnits - Load(p)
      /\ Load(p) \in Nat /\ DischargeUnits \in Nat /\ ExportOf(p, p) \in Nat
  <2>1. 0 \in {0, Sun(p)} \union P90(p)
    OBVIOUS
  <2> QED
    BY <1>1, <2>1, ExportInTurn, SlotNumbers, SizesAre, EventNumbers
<1>3. b = soc - DischargeUnits
  BY <1>2 DEF Lived, AtLeast0
<1>4. p \in From(p) .. Home.last /\ Paid(p, soc, Drawn(p, p))
  <2>1. p \in p .. Home.last
    BY <1>1, EventLeft
  <2> QED
    BY <1>1, <2>1, ExportsOf
<1>5. /\ From(p) \in Nat /\ p <= From(p) /\ Home.last \in Int
      /\ WindowEnd(p) \in Nat /\ p < WindowEnd(p)
  <2>1. p < WindowEnd(p)
    BY <1>1, SizesAre, WindowsAre
  <2>2. WindowEnd(p) \in Nat
    BY <1>1, SlotGeometry
  <2>3. From(p) \in Nat /\ p <= From(p) /\ Home.last \in Nat
    BY <1>1, EventLeft
  <2> QED
    BY <2>1, <2>2, <2>3
<1>6. FromBattery(p)
  BY <1>1, <1>4, <1>5, FromBatteryIs
<1>7. /\ FromBattery(p + 1) /\ House(p + 1) = House(p) - Load(p)
      /\ House(p) \in Nat
  BY <1>1, <1>6, HouseNext, PurseNumbers
<1>8. Spare(p, soc) = soc - House(p) /\ Spare(p + 1, b) = b - House(p + 1)
  BY <1>6, <1>7 DEF Spare, Usable
<1>9. /\ Drawn(p, p) = ExportOf(p, p) + Drawn(p, p + 1) /\ Drawn(p, j) <= Drawn(p, p + 1)
      /\ Drawn(p, p) \in Nat /\ Drawn(p, p + 1) \in Nat /\ Drawn(p, j) \in Nat
  <2> DEFINE F == [i \in Nat |-> ExportOf(p, i)]
  <2>1. F \in [Nat -> Nat] /\ F[p] = ExportOf(p, p)
    BY <1>1, EventNumbers
  <2>2. Drawn(p, p) = Sum(F, p, Home.last) /\ Drawn(p, p + 1) = Sum(F, p + 1, Home.last)
        /\ Drawn(p, j) = Sum(F, j, Home.last)
    BY DEF Drawn
  <2> HIDE DEF F
  <2>3. Sum(F, p, Home.last) = F[p] + Sum(F, p + 1, Home.last)
    <3>1. p \in Nat /\ Home.last \in Int /\ p <= Home.last
      BY <1>1, <1>5
    <3> QED
      BY ONLY <2>1, <3>1, SumFirst
  <2>4. Sum(F, j, Home.last) <= Sum(F, p + 1, Home.last)
    BY <1>1, <1>5, <2>1, SumShrinks
  <2> QED
    BY <1>1, <2>1, <2>2, <2>3, <2>4, PurseNumbers
<1>10. Drawn(p, j) <= Drawn(p, p)
  BY <1>2, <1>9
<1>11. Drawn(p, j) - Spare(p + 1, b) <= Drawn(p, p) - Spare(p, soc)
  BY <1>2, <1>3, <1>7, <1>8, <1>9
<1> QED
  BY <1>4, <1>9, <1>10, <1>11, PaidStays

\* Any other slot leaves at least as much to spare.
LEMMA AfterHouse ==
  ASSUME NEW p, Follows(p), NEW soc \in 0 .. Capacity, NEW b \in 0 .. Capacity, Lived(p, soc, b),
         p \notin Plan(p, soc).export, FromBattery(p)
  PROVE  Spare(p + 1, b) >= Spare(p, soc)
<1>1. /\ home \in HomeNumbers /\ p \in Nat /\ p >= WindowSlots /\ p < 2 * DaySlots
      /\ p <= Home.last /\ Home.dispatch = {} /\ soc \in Nat /\ b \in Nat /\ soc <= Capacity
      /\ Capacity \in Nat
  BY NextSlot, SizesAre DEF Follows
<1>2. /\ FromBattery(p + 1) /\ House(p + 1) = House(p) - Load(p)
      /\ House(p) \in Nat /\ Load(p) \in Nat /\ ChargeOf(p) \in Nat
  BY <1>1, HouseNext, PurseNumbers, SlotNumbers
<1>3. Spare(p, soc) = soc - House(p) /\ Spare(p + 1, b) = b - House(p + 1)
  BY <1>2 DEF Spare, Usable
<1>4. b >= soc - Load(p)
  <2>1. CASE ~InWindow(p)
    <3>1. ~Cheap(p)
      BY <1>1, <2>1 DEF Cheap
    <3> QED
      BY <2>1, <3>1 DEF Lived
  <2>2. CASE InWindow(p)
    <3> DEFINE left == Cardinality({i \in p .. WindowEnd(p) - 1 : InWindow(i)})
               more == Ceil(Plan(p, soc).required, left)
    <3>1. b >= Lower(Capacity, soc + Lower(ChargeOf(p), more))
      BY <2>2 DEF Lived
    <3>2. more \in Nat
      <4>1. left \in Nat \ {0}
        BY <1>1, <2>2, WindowLeft
      <4>2. Plan(p, soc).required \in Nat
        BY <1>1, PlanIs
      <4> HIDE DEF left
      <4> QED
        BY <4>1, <4>2, CeilIsNatural
    <3> HIDE DEF more
    <3> QED
      BY <1>1, <1>2, <3>1, <3>2 DEF Lower
  <2> QED
    BY <2>1, <2>2
<1> QED
  BY <1>1, <1>2, <1>3, <1>4

\* Before its window an event is promised from a bank that the night refills.
LEMMA BeforeNight ==
  ASSUME NEW p, Follows(p), NEW soc \in 0 .. Capacity, NEW b \in 0 .. Capacity,
         Capacity <= ChargeLimit(p + 1), ~FromBattery(p), ~InWindow(p)
  PROVE  Spare(p + 1, b) = Spare(p, soc)
<1>1. /\ home \in HomeNumbers /\ p \in Nat /\ p + 1 \in Nat /\ p >= WindowSlots
      /\ p < 2 * DaySlots /\ p + 1 < 2 * DaySlots /\ p + 1 >= WindowSlots
      /\ p <= Home.last /\ p + 1 <= Home.last /\ soc \in Nat /\ b \in Nat /\ Capacity \in Nat
  BY NextSlot, SizesAre
<1>2. /\ ~FromBattery(p + 1) /\ House(p + 1) = House(p)
      /\ House(p) \in Nat
  BY <1>1, HouseNext, PurseNumbers
<1>3. HorizonEnd(p + 1) = HorizonEnd(p) /\ HorizonEnd(p) \in Nat /\ p < HorizonEnd(p)
  BY <1>1, NextSlot, SlotGeometry DEF HorizonEnd
<1>4. ChargeLimit(p) = ChargeLimit(p + 1)
  <2> DEFINE F == [i \in Nat |-> IF InWindow(i) THEN ChargeOf(i) ELSE 0]
  <2>1. F \in [Nat -> Nat] /\ F[p] = 0
    BY <1>1, SlotNumbers
  <2>2. /\ ChargeLimit(p) = Sum(F, p, HorizonEnd(p) - 1)
        /\ ChargeLimit(p + 1) = Sum(F, p + 1, HorizonEnd(p) - 1)
    BY <1>3 DEF ChargeLimit
  <2>3. HorizonEnd(p) - 1 \in Int /\ p <= HorizonEnd(p) - 1
    BY <1>1, <1>3
  <2> HIDE DEF F
  <2>4. Sum(F, p, HorizonEnd(p) - 1) = F[p] + Sum(F, p + 1, HorizonEnd(p) - 1)
    BY <1>1, <2>1, <2>3, SumFirst
  <2>5. ChargeLimit(p + 1) \in Nat
    BY <1>1, BoundsAre
  <2> QED
    BY <2>1, <2>2, <2>4, <2>5
<1>5. Usable(p, soc) = Capacity /\ Usable(p + 1, b) = Capacity
  <2>1. /\ Outflow(p) \in Nat /\ Outflow(p + 1) \in Nat /\ ChargeLimit(p + 1) \in Nat
    BY <1>1, BoundsAre
  <2>2. AtLeast0(soc - Outflow(p)) \in Nat /\ AtLeast0(b - Outflow(p + 1)) \in Nat
    BY <1>1, <2>1, Positives
  <2> QED
    BY <1>1, <1>2, <1>4, <2>1, <2>2 DEF Usable, Lower
<1> QED
  BY <1>2, <1>5 DEF Spare

\* The last slot of the window charges what its plan requires for the event that follows: the
\* battery it ends with is the usable energy it counted on, or enough for all that it sold.
LEMMA AtDawn ==
  ASSUME NEW p, Follows(p), NEW soc \in 0 .. Capacity, NEW b \in 0 .. Capacity, Lived(p, soc, b),
         ~FromBattery(p), InWindow(p), NEW i \in Plan(p, soc).export, NEW j \in i .. Home.last
  PROVE  Drawn(p, j) <= Free(p + 1, b) \/ Spare(p + 1, b) >= Spare(p, soc)
<1> DEFINE plan   == Plan(p, soc)
           chosen == plan.export
           F      == [k \in Nat |-> ExportOf(p, k)]
           G      == [k \in Nat |-> IF k \in chosen THEN ExportOf(p, k) ELSE 0]
           sold   == Sum(G, p, HorizonEnd(p) - 1)
           spent  == AtLeast0(sold - Free(p, soc))
           kept   == Lower(Needed(p), Usable(p, soc))
           bare    == Sum([k \in Nat |-> Uncovered(k)], Carried(p), HorizonEnd(p) - 1)
           deficit == Buffered(bare)
           reserved == House(p) + sold + (kept - spent)
           charge == ChargeOf(p)
<1>1. /\ home \in HomeNumbers /\ p \in Nat /\ p + 1 \in Nat /\ p >= WindowSlots
      /\ p < 2 * DaySlots /\ p + 1 < 2 * DaySlots /\ p + 1 >= WindowSlots
      /\ p <= Home.last /\ p + 1 <= Home.last /\ soc \in Nat /\ b \in Nat /\ Capacity \in Nat
      /\ soc <= Capacity
  BY NextSlot, SizesAre
<1>2. /\ p = DaySlots + WindowSlots - 1 /\ WindowOf(p) = DaySlots
      /\ DaySlots \in Nat \ {0} /\ WindowSlots \in 1 .. DaySlots - 1
  BY NextSlot, SizesAre
<1>3. HorizonEnd(p) = 2 * DaySlots /\ WindowEnd(p) = p + 1 /\ WindowOf(p) <= p
  BY <1>2 DEF HorizonEnd, WindowEnd
<1>4. /\ FromBattery(p + 1) /\ House(p + 1) = House(p)
      /\ House(p) \in Nat /\ Needed(p) \in Nat /\ Usable(p, soc) \in Nat
      /\ Needed(p + 1) = Needed(p) /\ Free(p, soc) \in Nat
      /\ Target(p) \in Nat /\ Target(p) > p
  <2>1. Target(p) > p
    <3>1. Target(p + 1) = Target(p) /\ WindowOf(p + 1) = 2 * DaySlots
      BY <1>2, NextSlot, SameNeeds
    <3>2. Home.last < 2 * DaySlots
      BY <1>1, EventLeft
    <3>3. Target(p) = 2 * DaySlots
      BY <3>1, <3>2 DEF Target
    <3> QED
      BY <1>1, <3>3
  <2> QED
    BY <1>1, <2>1, HouseNext, PurseNumbers, SameNeeds
<1>5. /\ Spare(p, soc) = Usable(p, soc) - House(p) /\ Spare(p + 1, b) = b - House(p)
  BY <1>4 DEF Spare, Usable
<1>6. Outflow(p) = 0
  <2>1. WindowOf(p) - 1 \in Int /\ WindowOf(p) - 1 < p
    BY <1>1, <1>2, <1>3
  <2> QED
    BY <1>1, <2>1, EmptySum DEF Outflow
<1>7. ChargeLimit(p) = charge /\ charge \in Nat
  <2> DEFINE H == [k \in Nat |-> IF InWindow(k) THEN ChargeOf(k) ELSE 0]
  <2>1. H \in [Nat -> Nat] /\ H[p] = ChargeOf(p) /\ ChargeOf(p) \in Nat
    BY <1>1, SlotNumbers
  <2>2. ASSUME NEW k \in p + 1 .. 2 * DaySlots - 1 PROVE H[k] = 0
    <3>1. k \in Nat /\ k >= WindowSlots /\ k < 2 * DaySlots
          /\ k \notin DaySlots .. DaySlots + WindowSlots - 1
      BY <1>1, <1>2
    <3>2. ~InWindow(k)
      BY <3>1, WindowsAre
    <3> QED
      BY <3>1, <3>2
  <2>3. ChargeLimit(p) = Sum(H, p, 2 * DaySlots - 1)
    BY <1>3 DEF ChargeLimit
  <2>4. 2 * DaySlots - 1 \in Int /\ p <= 2 * DaySlots - 1
    BY <1>1, <1>2
  <2> HIDE DEF H
  <2>5. Sum(H, p + 1, 2 * DaySlots - 1) = 0
    BY <1>1, <2>1, <2>2, <2>4, ZeroSum
  <2>6. Sum(H, p, 2 * DaySlots - 1) = H[p] + Sum(H, p + 1, 2 * DaySlots - 1)
    BY <1>1, <2>1, <2>4, SumFirst
  <2> QED
    BY <2>1, <2>3, <2>5, <2>6
<1>8. Usable(p, soc) = Lower(Capacity, soc + charge)
  <2>1. AtLeast0(soc - Outflow(p)) = soc
    BY <1>1, <1>6 DEF AtLeast0
  <2> QED
    BY <1>7, <2>1 DEF Usable
<1>9. /\ From(p) > p /\ From(p) \in Nat /\ EventSlots(p) # {}
      /\ \A k \in chosen : k \in From(p) .. Home.last
      /\ Home.last \in Nat /\ Home.last < 2 * DaySlots
  <2>1. ~(From(p) < WindowEnd(p)) /\ From(p) \in Nat
    BY <1>1, FromBatteryIs, EventLeft
  <2>2. \A k \in chosen : k \in From(p) .. Home.last
    BY <1>1, ExportsOf
  <2> QED
    BY <1>1, <1>3, <2>1, <2>2, EventLeft
<1>10. p \notin chosen /\ \A k \in chosen : ~InWindow(k) /\ k > p
  <2>1. ASSUME NEW k \in chosen PROVE k > p /\ ~InWindow(k)
    <3>1. k \in Nat /\ k > p /\ k >= WindowSlots /\ k < 2 * DaySlots
          /\ k \notin DaySlots .. DaySlots + WindowSlots - 1
      BY <1>1, <1>2, <1>9
    <3> QED
      BY <3>1, WindowsAre
  <2> QED
    BY <1>1, <2>1
<1>11. \A k \in i .. Home.last : k \in chosen
  BY <1>1, <1>9, ExportsOf
<1>12. /\ sold \in Nat /\ Drawn(p, j) <= sold /\ Drawn(p, j) \in Nat
  <2>1. F \in [Nat -> Nat] /\ G \in [Nat -> Nat]
    <3>1. \A k \in Nat : ExportOf(p, k) \in Nat
      BY <1>1, EventNumbers
    <3> QED
      BY <3>1
  <2>2. j \in Nat /\ j > p /\ i \in Nat
    BY <1>1, <1>9
  <2>3. \A k \in j .. Home.last : F[k] = G[k]
    BY <1>9, <1>11, <2>2
  <2>4. Drawn(p, j) = Sum(F, j, Home.last)
    BY DEF Drawn
  <2>5. \A k \in j .. Home.last : F[k] <= G[k]
    <3>1. \A k \in j .. Home.last : F[k] \in Nat
      BY <2>1, <2>2
    <3> QED
      BY <2>3, <3>1
  <2>6. HorizonEnd(p) - 1 \in Int /\ Home.last \in Int /\ Home.last <= HorizonEnd(p) - 1
    BY <1>2, <1>3, <1>9
  <2> HIDE DEF F, G
  <2>7. Sum(F, j, Home.last) <= Sum(G, j, HorizonEnd(p) - 1)
    BY <2>1, <2>2, <2>5, <2>6, SumGrows
  <2>8. Sum(G, j, HorizonEnd(p) - 1) <= Sum(G, p, HorizonEnd(p) - 1)
    <3>1. p \in Nat /\ j \in Nat /\ p <= j
      BY <1>1, <2>2
    <3>2. HorizonEnd(p) - 1 \in Int
      BY <2>6
    <3> QED
      BY <2>1, <3>1, <3>2, SumShrinks
  <2>9. /\ Sum(F, j, Home.last) \in Nat /\ Sum(G, j, HorizonEnd(p) - 1) \in Nat
        /\ Sum(G, p, HorizonEnd(p) - 1) \in Nat
    BY <1>1, <2>1, <2>2, <2>6, SumIsNatural
  <2> QED
    BY <2>4, <2>7, <2>8, <2>9
<1>13. deficit \in Nat
  <2>1. Carried(p) = p
    BY <1>1, <1>2, <1>3 DEF Carried
  <2>2. HorizonEnd(p) - 1 \in Int
    BY <1>2, <1>3
  <2>3. bare \in Nat
    BY <1>1, <2>1, <2>2, SumsAre
  <2> QED
    BY <2>3, BufferedIsNatural
<1> DEFINE most == Max({reserved, deficit})
           required == Lower(AtLeast0(most - soc), Lower(AtLeast0(Capacity - soc), charge))
<1>14. plan.required = required
  <2> DEFINE purse == Purse(p, soc, Outflow(p), ChargeLimit(p))
             early == Sum(G, p, WindowOf(p) - 1)
             eventNeed == (IF Max(chosen) >= Carried(p) THEN purse.house + sold ELSE 0)
                          + (IF purse.target > Carried(p)
                             THEN purse.kept - AtLeast0(sold - purse.free) ELSE 0)
             due    == IF chosen = {} THEN SlotReservation(p)
                       ELSE IF Max(chosen) < Carried(p) /\ purse.target <= Carried(p)
                       THEN SlotReservation(p) ELSE eventNeed
             atWindow == AtLeast0(soc - Outflow(p) - early)
  <2>1. plan = Sized(p, soc, purse, chosen)
    <3>1. plan = Sized(p, soc, purse, Selected(p, purse))
      BY <1>9 DEF Plan, Funded
    <3>2. chosen = Selected(p, purse)
      BY <3>1 DEF Sized
    <3> QED
      BY <3>1, <3>2
  <2>2. /\ purse.free = Free(p, soc) /\ purse.house = House(p) /\ purse.target = Target(p)
        /\ purse.kept = kept
    <3>1. ~(Home.last < WindowOf(p))
      BY <1>1, <1>2, <1>9
    <3> QED
      BY <1>1, <3>1, PurseOf
  <2>3. chosen # {} /\ Max(chosen) > p /\ Max(chosen) \in Int
    <3>1. chosen # {} /\ chosen \in SUBSET Int /\ chosen \in SUBSET (From(p) .. Home.last)
      BY <1>9
    <3>2. From(p) \in Int /\ Home.last \in Int
      BY <1>9
    <3> HIDE DEF chosen
    <3>3. IsFiniteSet(chosen)
      BY <3>1, <3>2, FS_Interval, FS_Subset
    <3>4. Max(chosen) \in chosen
      BY <3>1, <3>3, MaxIsGreatest
    <3> QED
      BY <1>10, <3>1, <3>4
  <2> HIDE DEF purse, plan
  <2>4. Sized(p, soc, purse, chosen).required =
          IF \E k \in chosen : InWindow(k) THEN 0
          ELSE Lower(AtLeast0(Max({due, deficit}) - atWindow),
                     Lower(AtLeast0(Capacity - atWindow), ChargeLimit(p)))
    BY DEF Sized
  <2>5. Carried(p) = p
    BY <1>1, <1>2, <1>3 DEF Carried
  <2>6. early = 0
    <3>1. WindowOf(p) - 1 \in Int /\ WindowOf(p) - 1 < p
      BY <1>1, <1>2, <1>3
    <3> QED
      BY <1>1, <3>1, EmptySum
  <2>7. atWindow = soc
    BY <1>1, <1>6, <2>6 DEF AtLeast0
  <2>8. due = reserved
    <3>1. eventNeed = reserved
      BY <1>1, <1>4, <2>2, <2>3, <2>5
    <3> HIDE DEF eventNeed, reserved, chosen
    <3> QED
      BY <1>1, <2>3, <2>5, <3>1
  <2> HIDE DEF due, reserved, deficit, atWindow, chosen
  <2>9. plan.required = Lower(AtLeast0(Max({reserved, deficit}) - soc),
                              Lower(AtLeast0(Capacity - soc), ChargeLimit(p)))
    BY <1>10, <2>1, <2>4, <2>7, <2>8
  <2> QED
    BY <1>7, <2>9
<1>15. b >= Lower(Capacity, soc + Lower(charge, plan.required))
  <2> DEFINE left == Cardinality({k \in p .. WindowEnd(p) - 1 : InWindow(k)})
  <2>1. {k \in p .. WindowEnd(p) - 1 : InWindow(k)} = {p}
    BY <1>1, <1>3
  <2>2. left = 1
    BY <2>1, FS_Singleton
  <2>3. plan.required \in Nat
    BY <1>1, PlanIs
  <2>4. b >= Lower(Capacity, soc + Lower(charge, Ceil(plan.required, left)))
    BY <1>10 DEF Lived
  <2> HIDE DEF plan, left, charge
  <2>5. Ceil(plan.required, left) = plan.required
    BY <2>2, <2>3 DEF Ceil
  <2> QED
    BY <2>4, <2>5
<1> HIDE DEF sold, charge, plan, deficit
<1>16. spent \in Nat /\ kept \in Nat /\ reserved \in Int
  BY <1>4, <1>12 DEF AtLeast0, Lower
<1>17. most \in Int /\ most >= reserved
  BY <1>13, <1>16, GreaterOfTwo
<1> HIDE DEF most, reserved
<1>18. b >= Usable(p, soc) \/ b >= reserved
  BY <1>1, <1>7, <1>8, <1>14, <1>15, <1>16, <1>17 DEF Lower, AtLeast0
<1>19. CASE b >= Usable(p, soc)
  BY <1>1, <1>4, <1>5, <1>19
<1>20. CASE b >= reserved
  <2>1. b >= House(p) + sold + (kept - spent)
    BY <1>20 DEF reserved
  <2>2. Spare(p + 1, b) >= sold + kept - spent
    BY <1>1, <1>4, <1>5, <1>12, <1>16, <2>1
  <2>3. CASE Usable(p, soc) < Needed(p)
    <3>1. kept = Usable(p, soc)
      BY <1>4, <2>3 DEF Lower
    <3>2. Free(p, soc) = 0
      BY <1>4, <1>5, <2>3 DEF Free, AtLeast0
    <3>3. spent = sold
      BY <1>12, <3>2 DEF AtLeast0
    <3> QED
      BY <1>1, <1>4, <1>5, <1>12, <2>2, <3>1, <3>3
  <2>4. CASE ~(Usable(p, soc) < Needed(p))
    <3>1. kept = Needed(p)
      BY <1>4, <2>4 DEF Lower
    <3>2. CASE Free(p, soc) >= sold
      <4>1. spent = 0
        BY <1>4, <1>12, <3>2 DEF AtLeast0
      <4>2. Spare(p + 1, b) \in Int /\ Spare(p + 1, b) - Needed(p) >= sold
        BY <1>1, <1>4, <1>5, <1>12, <2>2, <3>1, <4>1
      <4>3. Free(p + 1, b) >= sold /\ Free(p + 1, b) \in Nat
        BY <1>4, <1>12, <4>2 DEF Free, AtLeast0
      <4> QED
        BY <1>12, <4>3
    <3>3. CASE Free(p, soc) < sold
      <4>1. spent = sold - Free(p, soc)
        BY <1>4, <1>12, <3>3 DEF AtLeast0
      <4>2. Spare(p + 1, b) >= Needed(p) + Free(p, soc)
        BY <1>1, <1>4, <1>5, <1>12, <2>2, <3>1, <4>1
      <4>3. Free(p, soc) >= Spare(p, soc) - Needed(p)
        BY <1>4, <1>5 DEF Free, AtLeast0
      <4> QED
        BY <1>1, <1>4, <1>5, <4>2, <4>3
    <3> QED
      BY <1>4, <1>12, <3>2, <3>3
  <2> QED
    BY <2>3, <2>4
<1> QED
  BY <1>18, <1>19, <1>20

-----------------------------------------------------------------------------
(* The planner: a promise and the plans that follow it *)

LEMMA PromiseStays ==
  ASSUME NEW p, Follows(p), NEW soc \in 0 .. Capacity, NEW b \in 0 .. Capacity, Lived(p, soc, b),
         Capacity <= ChargeLimit(p + 1), NEW i \in Plan(p, soc).export, i > p
  PROVE  i \in Plan(p + 1, b).export
<1>1. /\ home \in HomeNumbers /\ p \in Nat /\ p + 1 \in Nat /\ p >= WindowSlots
      /\ p + 1 >= WindowSlots /\ p < 2 * DaySlots /\ p + 1 < 2 * DaySlots
      /\ p <= Home.last /\ p + 1 <= Home.last /\ soc \in Nat /\ b \in Nat
  BY NextSlot, SizesAre
<1>2. /\ i \in From(p) .. Home.last
      /\ \A j \in i .. Home.last : ~Declines(p, j) /\ Paid(p, soc, Drawn(p, j))
  BY <1>1, ExportsOf
<1>3. /\ From(p) \in Nat /\ Home.first <= From(p) /\ From(p + 1) \in Nat
      /\ Home.last \in Nat /\ Home.last < 2 * DaySlots /\ Home.first \in Nat
  BY <1>1, EventLeft
<1>4. i \in From(p + 1) .. Home.last /\ i \in Nat
  BY <1>1, <1>2, <1>3 DEF From
<1>5. ASSUME NEW j \in i .. Home.last
      PROVE  ~Declines(p + 1, j) /\ Paid(p + 1, b, Drawn(p + 1, j))
  <2>1. j \in Nat /\ j > p /\ j < 2 * DaySlots
    <3>1. i \in Nat /\ Home.last \in Nat /\ i > p /\ p \in Nat /\ DaySlots \in Nat
      BY <1>1, <1>3, <1>4, SizesAre
    <3>2. j \in Nat /\ i <= j /\ j <= Home.last
      BY <3>1
    <3> QED
      BY <1>3, <3>1, <3>2
  <2>2. ~Declines(p, j) /\ Paid(p, soc, Drawn(p, j))
    BY <1>2
  <2>3. ~Declines(p + 1, j)
    BY <2>1, <2>2, SameView
  <2>4. Drawn(p + 1, j) = Drawn(p, j) /\ Drawn(p, j) \in Nat
    BY <1>1, <2>1, SameNeeds, PurseNumbers
  <2>5. Spare(p, soc) \in Int /\ Spare(p + 1, b) \in Int
    BY <1>1, PurseNumbers
  <2>6. Spare(p + 1, b) >= Spare(p, soc) => Paid(p + 1, b, Drawn(p, j))
    <3> SUFFICES ASSUME Spare(p + 1, b) >= Spare(p, soc) PROVE Paid(p + 1, b, Drawn(p, j))
      OBVIOUS
    <3> DEFINE d == Drawn(p, j)
    <3>1. d \in Nat /\ d <= d /\ d - Spare(p + 1, b) <= d - Spare(p, soc) /\ Paid(p, soc, d)
      BY <2>2, <2>4, <2>5
    <3> HIDE DEF d
    <3>2. Paid(p + 1, b, d)
      BY <1>1, <3>1, PaidStays
    <3> QED
      BY <3>2 DEF d
  <2>7. CASE p \in Plan(p, soc).export
    <3>1. Paid(p + 1, b, Drawn(p, j))
      BY <1>1, <2>1, <2>7, AfterExport
    <3> QED
      BY <2>3, <2>4, <3>1
  <2>8. CASE p \notin Plan(p, soc).export /\ FromBattery(p)
    <3>1. Spare(p + 1, b) >= Spare(p, soc)
      BY <2>8, AfterHouse
    <3> QED
      BY <2>3, <2>4, <2>6, <3>1
  <2>9. CASE ~FromBattery(p) /\ ~InWindow(p)
    <3>1. Spare(p + 1, b) = Spare(p, soc)
      BY <2>9, BeforeNight
    <3> QED
      BY <2>3, <2>4, <2>5, <2>6, <3>1
  <2>10. CASE ~FromBattery(p) /\ InWindow(p)
    <3>1. Drawn(p, j) <= Free(p + 1, b) \/ Spare(p + 1, b) >= Spare(p, soc)
      BY <2>10, AtDawn
    <3> QED
      BY <2>3, <2>4, <2>6, <3>1 DEF Paid
  <2> QED
    BY <2>7, <2>8, <2>9, <2>10
<1> QED
  BY <1>1, <1>4, <1>5, ExportsOf

\* A household does not change, nor then what is planned for it.
LEMMA PlanFrozen ==
  ASSUME home' = home
  PROVE  /\ \A p, soc : Plan(p, soc)' = Plan(p, soc)
         /\ \A p, soc, b : Lived(p, soc, b)' <=> Lived(p, soc, b)
<1>1. Home' = Home
  BY DEF Home
<1>2. /\ \A i : Load(i)' = Load(i) /\ Sun(i)' = Sun(i) /\ P90(i)' = P90(i)
      /\ \A i : Cheap(i)' <=> Cheap(i)
  BY <1>1 DEF Load, Sun, P90, Cheap, Tod, InWindow
<1>3. \A i : Price(i)' = Price(i) /\ Net(i)' = Net(i)
  BY <1>1, <1>2 DEF Price, Net, CheapRate, Tod
<1>4. \A i : Uncovered(i)' = Uncovered(i) /\ ChargeOf(i)' = ChargeOf(i)
  BY <1>2, <1>3 DEF Uncovered, ChargeOf
<1>5. \A now, i : EventNet(now, i)' = EventNet(now, i)
  BY <1>1, <1>2, <1>3 DEF EventNet, WindowOf, DayStart, Tod, InWindow
<1>6. \A now, i : Owed(now, i)' = Owed(now, i)
  BY <1>1, <1>2, <1>5 DEF Owed, WindowOf, DayStart, Tod, InWindow
<1>7. \A now, i : SunOf(now, i)' = SunOf(now, i)
  BY <1>2 DEF SunOf, DayStart, Tod
<1>8. \A now, i : Surplus(now, i)' = Surplus(now, i)
  BY <1>2, <1>7 DEF Surplus
<1>9. \A now, i : ExportOf(now, i)' = ExportOf(now, i)
  BY <1>8 DEF ExportOf
<1>10. \A now, i : Declines(now, i)' <=> Declines(now, i)
  BY <1>1, <1>2, <1>8, <1>9 DEF Declines, DayStart, Tod, InWindow
<1>11. \A now : EventSlots(now)' = EventSlots(now)
  BY <1>1 DEF EventSlots, HorizonEnd, WindowOf, DayStart, Tod, InWindow
<1>12. \A now : FromBattery(now)' <=> FromBattery(now)
  BY <1>11 DEF FromBattery, InWindow, Tod, WindowEnd, WindowOf, DayStart
<1>13. \A from, end : FirstCheap(from, end)' = FirstCheap(from, end)
  BY <1>2 DEF FirstCheap
<1>14. \A now, post, s : Worst(now, post, s)' = Worst(now, post, s)
  BY ZenonT(60), <1>3, <1>6 DEF Worst
<1>15. \A now : Outflow(now)' = Outflow(now)
  BY <1>4 DEF Outflow, WindowOf, DayStart, Tod, InWindow
<1>16. \A now : ChargeLimit(now)' = ChargeLimit(now)
  BY <1>4 DEF ChargeLimit, HorizonEnd, WindowOf, DayStart, Tod, InWindow
<1>17. \A now, soc, outflow, limit :
         Purse(now, soc, outflow, limit)' = Purse(now, soc, outflow, limit)
  <2> TAKE now, soc, outflow, limit
  <2>1. \A t : WindowOf(t)' = WindowOf(t) /\ WindowEnd(t)' = WindowEnd(t)
              /\ HorizonEnd(t)' = HorizonEnd(t)
    BY DEF WindowOf, WindowEnd, HorizonEnd, DayStart, Tod, InWindow
  <2>2. \A t : (\E i \in t .. WindowOf(t) - 1 : ~Cheap(i))'
                 <=> \E i \in t .. WindowOf(t) - 1 : ~Cheap(i)
    BY <1>2, <2>1
  <2>3. /\ \A lo, hi : Sum([i \in Nat |-> Owed(now, i)], lo, hi)'
                          = Sum([i \in Nat |-> Owed(now, i)], lo, hi)
        /\ \A lo, hi : Sum([i \in Nat |-> EventNet(now, i)], lo, hi)'
                          = Sum([i \in Nat |-> EventNet(now, i)], lo, hi)
    BY <1>5, <1>6
  <2>4. /\ EventSlots(now)' = EventSlots(now) /\ (FromBattery(now)' <=> FromBattery(now))
        /\ \A from, end : FirstCheap(from, end)' = FirstCheap(from, end)
        /\ WindowOf(now)' = WindowOf(now) /\ WindowEnd(now)' = WindowEnd(now)
        /\ HorizonEnd(now)' = HorizonEnd(now)
    BY <1>11, <1>12, <1>13, <2>1
  <2> QED
    BY ZenonT(60), <1>1, <2>2, <2>3, <2>4 DEF Purse
<1>18. \A now, purse, s : Funds(now, purse, s)' <=> Funds(now, purse, s)
  BY <1>1, <1>14 DEF Funds
<1>19. \A now, purse : Selected(now, purse)' = Selected(now, purse)
  BY <1>9, <1>10, <1>11, <1>18 DEF Selected
<1>20. \A now : SlotReservation(now)' = SlotReservation(now)
  BY ZenonT(60), <1>2, <1>4, <1>13 DEF SlotReservation, Carried, HorizonEnd, WindowOf, DayStart, Tod, InWindow
<1>21. \A now, soc, purse, chosen :
         Sized(now, soc, purse, chosen)' = Sized(now, soc, purse, chosen)
  <2> TAKE now, soc, purse, chosen
  <2>1. \A lo, hi : Sum([i \in Nat |-> IF i \in chosen THEN ExportOf(now, i) ELSE 0], lo, hi)'
                     = Sum([i \in Nat |-> IF i \in chosen THEN ExportOf(now, i) ELSE 0], lo, hi)
    BY <1>9
  <2>2. \A lo, hi : Sum([i \in Nat |-> Uncovered(i)], lo, hi)'
                     = Sum([i \in Nat |-> Uncovered(i)], lo, hi)
    BY <1>4
  <2>3. /\ Outflow(now)' = Outflow(now) /\ ChargeLimit(now)' = ChargeLimit(now)
        /\ SlotReservation(now)' = SlotReservation(now)
    BY <1>15, <1>16, <1>20
  <2> QED
    BY <2>1, <2>2, <2>3 DEF Sized, Carried, HorizonEnd, WindowOf, DayStart, Tod, InWindow
<1>22. \A p, soc : Plan(p, soc)' = Plan(p, soc)
  BY <1>11, <1>15, <1>16, <1>17, <1>19, <1>21 DEF Plan, Funded
<1>23. \A p, soc, b : Lived(p, soc, b)' <=> Lived(p, soc, b)
  BY <1>2, <1>4, <1>22 DEF Lived, WindowEnd, WindowOf, DayStart, Tod, InWindow
<1> QED
  BY <1>22, <1>23

-----------------------------------------------------------------------------
(* The planner: every step *)

\* The battery is what the last slot made of the one that the last plan was for.
Followed ==
    halfHour > WindowSlots =>
        \E p \in Nat, soc \in 0 .. Capacity :
           halfHour = p + 1 /\ exports = Plan(p, soc).export /\ Lived(p, soc, battery)

LEMMA LiveIsLived ==
  ASSUME PlanTypeOK, NEW sun \in {0, Sun(halfHour)} \union P90(halfHour), Live(sun)
  PROVE  /\ home' = home /\ halfHour' = halfHour + 1 /\ battery' \in 0 .. Capacity
         /\ exports' = Plan(halfHour, battery).export /\ Lived(halfHour, battery, battery')
<1> DEFINE plan == Plan(halfHour, battery)
           need == AtLeast0(Load(halfHour) - sun)
           more == AtLeast0(sun - Load(halfHour))
           left == Cardinality({i \in halfHour .. WindowEnd(halfHour) - 1 : InWindow(i)})
           gave == Lower(ChargeOf(halfHour), Ceil(plan.required, left))
<1>1. /\ home \in HomeNumbers /\ halfHour \in Nat /\ battery \in Nat
      /\ battery <= Capacity /\ halfHour >= WindowSlots /\ Capacity \in Nat
  BY SizesAre DEF PlanTypeOK
<1>2. sun \in Nat /\ Load(halfHour) \in Nat /\ ChargeOf(halfHour) \in Nat
  <2>1. /\ Load(halfHour) \in Nat /\ Sun(halfHour) \in Nat /\ P90(halfHour) \in SUBSET Nat
        /\ ChargeOf(halfHour) \in Nat
    BY <1>1, SlotNumbers
  <2> QED
    BY <2>1
<1>3. need \in Nat /\ more \in Nat /\ need <= Load(halfHour)
  BY <1>2 DEF AtLeast0
<1>4. plan.required \in Nat
  BY <1>1, PlanIs
<1>5. home' = home /\ halfHour' = halfHour + 1 /\ exports' = plan.export
  BY DEF Live
<1>6. battery' \in 0 .. Capacity
  <2>1. PlanTypeOK'
    <3>1. PlanNext
      BY DEF PlanNext
    <3> QED
      BY <3>1, PlanStep
  <2> QED
    BY <2>1 DEF PlanTypeOK
<1>7. \/ halfHour \in plan.export /\ battery' = AtLeast0(battery - DischargeUnits)
      \/ halfHour \notin plan.export /\ InWindow(halfHour)
         /\ battery' = Served(battery, 0, more + gave)
      \/ halfHour \notin plan.export /\ ~InWindow(halfHour) /\ Cheap(halfHour)
      \/ halfHour \notin plan.export /\ ~Cheap(halfHour) /\ battery' = Served(battery, need, more)
  BY DEF Live
<1>8. ~Cheap(halfHour) => ~InWindow(halfHour)
  BY DEF Cheap
<1> HIDE DEF plan, need, more
<1>9. CASE halfHour \in plan.export /\ battery' = AtLeast0(battery - DischargeUnits)
  BY <1>5, <1>6, <1>9 DEF Lived, plan
<1>10. CASE halfHour \notin plan.export /\ InWindow(halfHour)
            /\ battery' = Served(battery, 0, more + gave)
  <2>1. left \in Nat \ {0}
    BY <1>1, <1>10, WindowLeft
  <2> HIDE DEF left
  <2>2. gave \in Nat
    <3>1. Ceil(plan.required, left) \in Nat
      BY <1>4, <2>1, CeilIsNatural
    <3> QED
      BY <1>2, <3>1 DEF Lower
  <2> HIDE DEF gave
  <2>3. battery' >= Lower(Capacity, battery + gave)
    BY <1>1, <1>3, <1>10, <2>2 DEF Served, Lower, AtLeast0
  <2> QED
    BY <1>5, <1>6, <1>10, <2>3 DEF Lived, plan, gave, left
<1>11. CASE halfHour \notin plan.export /\ ~InWindow(halfHour) /\ Cheap(halfHour)
  BY <1>5, <1>6, <1>11 DEF Lived, plan
<1>12. CASE halfHour \notin plan.export /\ ~Cheap(halfHour) /\ battery' = Served(battery, need, more)
  <2>1. battery' >= battery - Load(halfHour)
    BY <1>1, <1>2, <1>3, <1>12 DEF Served, Lower, AtLeast0
  <2> QED
    BY <1>5, <1>6, <1>8, <1>12, <2>1 DEF Lived, plan
<1> QED
  BY <1>7, <1>9, <1>10, <1>11, <1>12

LEMMA FollowedStart == PlanInit => Followed
<1> SUFFICES ASSUME PlanInit PROVE Followed
  OBVIOUS
<1>1. halfHour = WindowSlots /\ WindowSlots \in Int
  BY SizesAre DEF PlanInit
<1> QED
  BY <1>1 DEF Followed

LEMMA FollowedStep == PlanTypeOK /\ Followed /\ [PlanNext]_planVars => Followed'
<1> SUFFICES ASSUME PlanTypeOK, Followed, [PlanNext]_planVars PROVE Followed'
  OBVIOUS
<1>1. CASE UNCHANGED planVars
  <2>1. home' = home /\ halfHour' = halfHour /\ battery' = battery /\ exports' = exports
    BY <1>1 DEF planVars
  <2>2. /\ \A p, soc : Plan(p, soc)' = Plan(p, soc)
        /\ \A p, soc, b : Lived(p, soc, b)' <=> Lived(p, soc, b)
    BY <2>1, PlanFrozen
  <2>3. \A p, soc : Lived(p, soc, battery)' <=> Lived(p, soc, battery)
    <3>1. \A p, soc, b : b = battery => (Lived(p, soc, b)' <=> Lived(p, soc, b))
      BY <2>2
    <3> QED
      BY ZenonT(60), <1>1, <2>1, <2>2 DEF Lived
  <2> QED
    BY <2>1, <2>2, <2>3 DEF Followed
<1>2. CASE PlanNext
  <2>1. PICK sun \in {0, Sun(halfHour)} \union P90(halfHour) : Live(sun)
    BY <1>2 DEF PlanNext
  <2>2. /\ home' = home /\ halfHour' = halfHour + 1 /\ battery' \in 0 .. Capacity
        /\ exports' = Plan(halfHour, battery).export /\ Lived(halfHour, battery, battery')
    BY <2>1, LiveIsLived
  <2>3. halfHour \in Nat /\ battery \in 0 .. Capacity
    BY SizesAre DEF PlanTypeOK
  <2>4. PICK p \in Nat, soc \in 0 .. Capacity, b \in 0 .. Capacity :
               p = halfHour /\ soc = battery /\ b = battery'
    BY <2>2, <2>3
  <2>5. /\ \A q, s : Plan(q, s)' = Plan(q, s)
        /\ \A q, s, c : Lived(q, s, c)' <=> Lived(q, s, c)
    BY <2>2, PlanFrozen
  <2>6. halfHour' = p + 1 /\ exports' = Plan(p, soc).export /\ Lived(p, soc, b)
    BY <2>2, <2>4
  <2>7. exports' = (Plan(p, soc).export)'
    BY <2>5, <2>6
  <2>8. Lived(p, soc, battery)'
    <3>1. Lived(p, soc, b)'
      BY <2>5, <2>6
    <3>2. p \in (Plan(p, soc).export)' => battery' = AtLeast0(soc - DischargeUnits)
      BY <2>4, <3>1 DEF Lived
    <3> QED
      BY <2>4, <3>1 DEF Lived
  <2> QED
    BY <2>6, <2>7, <2>8 DEF Followed
<1> QED
  BY <1>1, <1>2

\* What _event_export_plan promises from the window's last plan on, the later plans keep until
\* its turn, for every household without a dispatch whose night refills the bank; and in its
\* turn the battery carries it.  No plan knows the last one: each starts from the battery.
THEOREM PromiseKeptAlways == PlanSpec => PromiseKept
<1>1. PlanInit => Followed
  BY FollowedStart
<1>2. PlanTypeOK /\ Followed /\ [PlanNext]_planVars => Followed'
  BY FollowedStep
<1>3. ASSUME PlanTypeOK, Followed, [PlanNext]_planVars PROVE [PromiseHeld]_planVars
  <2>1. CASE UNCHANGED planVars
    BY <2>1
  <2>2. CASE PlanNext
    <3> SUFFICES ASSUME Home.dispatch = {}, Capacity <= ChargeLimit(halfHour),
                        halfHour > WindowSlots, ~InWindow(halfHour),
                        NEW i \in exports, i \notin 0 .. halfHour - 1
                 PROVE  i \in exports'
      BY DEF PromiseHeld
    <3>1. PICK sun \in {0, Sun(halfHour)} \union P90(halfHour) : Live(sun)
      BY <2>2 DEF PlanNext
    <3>2. halfHour < 2 * DaySlots /\ exports' = Plan(halfHour, battery).export
      BY <3>1 DEF Live
    <3>3. PICK p \in Nat, soc \in 0 .. Capacity :
             halfHour = p + 1 /\ exports = Plan(p, soc).export /\ Lived(p, soc, battery)
      BY <1>3 DEF Followed
    <3>4. /\ home \in HomeNumbers /\ halfHour \in Nat /\ battery \in 0 .. Capacity
          /\ soc \in Nat /\ WindowSlots \in Nat
      BY <1>3, SizesAre DEF PlanTypeOK
    <3>5. i \in Selected(p, Purse(p, soc, Outflow(p), ChargeLimit(p))) /\ i \in Nat
      BY <3>3, <3>4, PlanIs
    <3>6. i <= Home.last
      BY <3>5, SelectedIs DEF EventSlots
    <3>7. i >= p + 1
      BY <3>3, <3>4, <3>5
    <3>8. Home.last \in Nat /\ p + 1 <= Home.last
      BY <3>3, <3>4, <3>5, <3>6, <3>7, HomeIs
    <3>9. Follows(p)
      BY <3>2, <3>3, <3>4, <3>8 DEF Follows
    <3>10. i > p /\ i \in Plan(p, soc).export /\ Capacity <= ChargeLimit(p + 1)
      BY <3>3, <3>5, <3>7
    <3>11. i \in Plan(p + 1, battery).export
      BY <3>3, <3>4, <3>9, <3>10, PromiseStays
    <3> QED
      BY <3>2, <3>3, <3>11
  <2> QED
    BY <1>3, <2>1, <2>2
<1>4. [ExportCarried]_planVars /\ [PromiseHeld]_planVars
        => [ExportCarried /\ PromiseHeld]_planVars
  OBVIOUS
<1>5. PlanSpec => []PlanTypeOK /\ [][ExportCarried]_planVars
  BY PlanTypeCorrect, ExportsCarried
<1>6. PlanSpec => [][ExportCarried /\ PromiseHeld]_planVars
  BY <1>1, <1>2, <1>3, <1>4, <1>5, PTL DEF PlanSpec
<1> QED
  BY <1>6 DEF PromiseKept

-----------------------------------------------------------------------------
(* The planner: an export pays *)

\* What the house has to be given before the next window: all it draws through the event, and
\* after it what no dispatch gives.
Owes(j)    == IF j \in Home.first .. Home.last \/ ~Cheap(j) THEN Load(j) ELSE 0
\* The end of the day that is lived, which the next window opens; all that is owed from a slot on
\* until then; what the house draws through what is left of the event.
DayEnd(t)  == DayStart(t) + DaySlots
Bill(t, i) == Sum([j \in Nat |-> Owes(j)], i, DayEnd(t) - 1)
Through(t) == Sum([j \in Nat |-> Load(j)], t, Lower(Home.last, DayEnd(t) - 1))

\* The money covers what the battery lacks of it at the event's rate, and whatever slot the house
\* may have to buy in, with what is still to be exported, is cheaper than that.
Backed(t, level, money, ahead) ==
    /\ money >= Home.rate * AtLeast0(Bill(t, t) - level)
    /\ \A j \in t .. DayEnd(t) - 1 :
          j > Home.last /\ Owes(j) > 0 /\ Bill(t, j + 1) < Bill(t, t) - level + ahead
             => Price(j) < Home.rate

\* The event: the battery carries the house through it and, where dear slots part it from the
\* window, the money covers what will be short by then; and those dear slots themselves.
Selling(t, level, money, sold) ==
    /\ t \in Home.first .. Home.last /\ level >= Through(t)
    /\ Home.last < DayEnd(t) /\ ~InWindow(Home.last + 1) =>
          Backed(t, level, money, IF sold THEN Sum([j \in Nat |-> ExportOf(t, j)], t, Home.last) ELSE 0)
Owing(t, level, money) == t > Home.last /\ ~InWindow(t) /\ Backed(t, level, money, 0)
\* The battery as without the exports; a window that begins, or that follows the event; the event
\* and what comes between it and the window.
Solvent(t, level, other, money, sold) ==
    /\ money >= 0
    /\ \/ ~sold /\ level = other
       \/ InWindow(t) /\ (t = DayStart(t) \/ t > Home.last)
       \/ Selling(t, level, money, sold)
       \/ Owing(t, level, money)
\* The inductive invariant behind ExportPays.
Pays == lean \/ Solvent(halfHour, battery, twin, gain, halfHour - 1 \in exports)

LEMMA SumSplit ==
  ASSUME NEW F \in [Nat -> Nat], NEW lo \in Nat, NEW mid \in Int, NEW hi \in Int,
         lo <= mid + 1, mid <= hi
  PROVE  Sum(F, lo, hi) = Sum(F, lo, mid) + Sum(F, mid + 1, hi)
<1> DEFINE P == {k \in Int : mid <= k /\ k <= hi =>
                    Sum(F, lo, k) = Sum(F, lo, mid) + Sum(F, mid + 1, k)}
<1>1. mid + 1 \in Nat
  OBVIOUS
<1>2. \A k \in Int : Sum(F, lo, k) \in Nat /\ Sum(F, mid + 1, k) \in Nat
  BY <1>1, SumIsNatural
<1>3. ASSUME NEW k \in Int, k < mid + 1 PROVE k \in P
  <2>1. CASE k = mid
    <3>1. Sum(F, mid + 1, k) = 0
      BY <1>1, <2>1, EmptySum
    <3> QED
      BY <1>2, <2>1, <3>1
  <2> QED
    BY <1>3, <2>1
<1>4. ASSUME NEW k \in Int, mid + 1 <= k, k <= hi, k - 1 \in P PROVE k \in P
  <2>1. F[lo] \in Int /\ F[mid + 1] \in Int /\ F[k] \in Nat
    BY <1>1, <1>4
  <2>2. Sum(F, lo, k) = F[k] + Sum(F, lo, k - 1)
    BY <1>4, <2>1, SumLast
  <2>3. Sum(F, mid + 1, k) = F[k] + Sum(F, mid + 1, k - 1)
    BY <1>1, <1>4, <2>1, SumLast
  <2>4. Sum(F, lo, k - 1) = Sum(F, lo, mid) + Sum(F, mid + 1, k - 1)
    BY <1>4
  <2>5. Sum(F, lo, mid) \in Nat /\ Sum(F, mid + 1, k - 1) \in Nat
    BY <1>2, <1>4
  <2>6. Sum(F, lo, k) = Sum(F, lo, mid) + Sum(F, mid + 1, k)
    BY <2>1, <2>2, <2>3, <2>4, <2>5
  <2> QED
    BY <2>6
<1> HIDE DEF P
<1>5. hi \in P
  BY <1>1, <1>3, <1>4, SumsTermByTerm
<1> QED
  BY <1>5 DEF P

\* What greater terms add to the end of a sum is no more than what they add to all of it.
LEMMA SumsDiffer ==
  ASSUME NEW F \in [Nat -> Nat], NEW G \in [Nat -> Nat], NEW lo \in Nat, NEW mid \in Nat,
         NEW hi \in Int, lo <= mid, mid <= hi + 1, \A i \in lo .. hi : F[i] <= G[i]
  PROVE  Sum(G, mid, hi) + Sum(F, lo, hi) <= Sum(F, mid, hi) + Sum(G, lo, hi)
<1>1. PICK m \in Int : m = mid - 1
  OBVIOUS
<1>2. m \in Int /\ lo <= m + 1 /\ m <= hi /\ m + 1 = mid
  BY <1>1
<1>3. /\ Sum(F, lo, hi) = Sum(F, lo, m) + Sum(F, m + 1, hi)
      /\ Sum(G, lo, hi) = Sum(G, lo, m) + Sum(G, m + 1, hi)
  BY <1>2, SumSplit
<1>4. \A i \in lo .. m : F[i] <= G[i]
  BY <1>2
<1>5. Sum(F, lo, m) <= Sum(G, lo, m)
  BY <1>2, <1>4, SumGrows
<1>6. /\ Sum(F, lo, m) \in Nat /\ Sum(G, lo, m) \in Nat
      /\ Sum(F, mid, hi) \in Nat /\ Sum(G, mid, hi) \in Nat
  BY <1>2, SumIsNatural
<1>7. /\ Sum(F, lo, hi) = Sum(F, lo, m) + Sum(F, mid, hi)
      /\ Sum(G, lo, hi) = Sum(G, lo, m) + Sum(G, mid, hi)
  <2>1. m + 1 = mid
    BY <1>2
  <2> QED
    BY <1>3, <2>1, Zenon
<1> QED
  BY <1>5, <1>6, <1>7

\* The slots of the day that is lived, and the one that follows it.
LEMMA NextDay ==
  ASSUME NEW t \in Nat, t < 2 * DaySlots
  PROVE  /\ DayEnd(t) \in Nat /\ t < DayEnd(t) /\ DayStart(t) \in Nat /\ DayStart(t) <= t
         /\ DayEnd(t) <= 2 * DaySlots
         /\ \A i \in DayStart(t) .. DayEnd(t) - 1 :
               /\ i \in Nat /\ DayStart(i) = DayStart(t) /\ DayEnd(i) = DayEnd(t)
               /\ InWindow(i) <=> i < DayStart(t) + WindowSlots
         /\ InWindow(DayEnd(t)) /\ DayStart(DayEnd(t)) = DayEnd(t)
<1>1. DaySlots \in Nat \ {0} /\ WindowSlots \in 1 .. DaySlots - 1
  BY SizesAre
<1>2. /\ t < DaySlots => DayStart(t) = 0
      /\ t >= DaySlots => DayStart(t) = DaySlots
  BY Days
<1>3. \A i \in Nat : /\ i < DaySlots => Tod(i) = i /\ DayStart(i) = 0
                     /\ i >= DaySlots /\ i < 2 * DaySlots =>
                          Tod(i) = i - DaySlots /\ DayStart(i) = DaySlots
  BY <1>1, Days
<1>4. Tod(DaySlots) = 0 /\ Tod(2 * DaySlots) = 0
  <2>1. DaySlots % DaySlots = 0 /\ (2 * DaySlots) % DaySlots = 0
    BY ONLY <1>1
  <2> QED
    BY <2>1 DEF Tod
<1>5. \A i \in DayStart(t) .. DayEnd(t) - 1 :
         /\ i \in Nat /\ DayStart(i) = DayStart(t)
         /\ Tod(i) = i - DayStart(t)
  BY <1>1, <1>2, <1>3 DEF DayEnd
<1>6. DayEnd(t) = DaySlots \/ DayEnd(t) = 2 * DaySlots
  BY <1>1, <1>2 DEF DayEnd
<1>7. Tod(DayEnd(t)) = 0
  BY <1>4, <1>6
<1>8. InWindow(DayEnd(t)) /\ DayStart(DayEnd(t)) = DayEnd(t)
  BY <1>1, <1>6, <1>7 DEF InWindow, DayStart
<1>9. \A i \in DayStart(t) .. DayEnd(t) - 1 :
         /\ DayEnd(i) = DayEnd(t)
         /\ InWindow(i) <=> i < DayStart(t) + WindowSlots
  BY <1>1, <1>2, <1>5 DEF DayEnd, InWindow
<1>10. DayEnd(t) \in Nat /\ t < DayEnd(t) /\ DayStart(t) \in Nat /\ DayStart(t) <= t
       /\ DayEnd(t) <= 2 * DaySlots
  BY <1>1, <1>2 DEF DayEnd
<1> QED
  BY <1>5, <1>8, <1>9, <1>10

LEMMA BillNumbers ==
  ASSUME home \in HomeNumbers, NEW t \in Nat, t < 2 * DaySlots, NEW i \in Nat
  PROVE  /\ Owes(i) \in Nat /\ Bill(t, i) \in Nat /\ Through(t) \in Nat
         /\ [j \in Nat |-> Owes(j)] \in [Nat -> Nat] /\ [j \in Nat |-> Load(j)] \in [Nat -> Nat]
         /\ Home.last \in Nat /\ Home.first \in Nat /\ Home.rate \in Nat
<1>1. \A j \in Nat : Load(j) \in Nat
  BY SlotNumbers
<1>2. \A j \in Nat : Owes(j) \in Nat
  BY <1>1 DEF Owes
<1>3. [j \in Nat |-> Owes(j)] \in [Nat -> Nat] /\ [j \in Nat |-> Load(j)] \in [Nat -> Nat]
  BY <1>1, <1>2
<1>4. Home.last \in Nat /\ Home.first \in Nat /\ Home.rate \in Nat
  BY HomeIs
<1>5. DayEnd(t) \in Nat
  BY NextDay
<1>6. DayEnd(t) - 1 \in Int /\ Lower(Home.last, DayEnd(t) - 1) \in Int
  BY <1>4, <1>5 DEF Lower
<1>7. Bill(t, i) \in Nat
  BY <1>3, <1>6, SumIsNatural DEF Bill
<1>8. Through(t) \in Nat
  BY <1>3, <1>6, SumIsNatural DEF Through
<1> QED
  BY <1>2, <1>3, <1>4, <1>7, <1>8

LEMMA SlotBills ==
  ASSUME home \in HomeNumbers, NEW t \in Nat, t < 2 * DaySlots
  PROVE  /\ Load(t) \in Nat /\ Price(t) \in Nat /\ Through(t) \in Nat
         /\ Bill(t, t) \in Nat /\ Bill(t, t + 1) \in Nat
         /\ Home.last \in Nat /\ Home.rate \in Nat
<1>1. t + 1 \in Nat
  OBVIOUS
<1>2. Bill(t, t + 1) \in Nat
  BY <1>1, BillNumbers
<1> QED
  BY <1>2, SlotNumbers, BillNumbers

\* A slot takes its own from what is owed.
LEMMA BillNext ==
  ASSUME home \in HomeNumbers, NEW t \in Nat, t < 2 * DaySlots
  PROVE  /\ Bill(t, t) = Owes(t) + Bill(t, t + 1)
         /\ t + 1 < DayEnd(t) => /\ DayEnd(t + 1) = DayEnd(t) /\ t + 1 < 2 * DaySlots
                                 /\ \A i : Bill(t + 1, i) = Bill(t, i)
         /\ t <= Home.last => Through(t) >= Load(t)
         /\ t <= Home.last /\ t + 1 < DayEnd(t) => Through(t) = Load(t) + Through(t + 1)
<1> DEFINE O == [j \in Nat |-> Owes(j)]
           L == [j \in Nat |-> Load(j)]
           end == DayEnd(t) - 1
           stop == Lower(Home.last, end)
<1>1. O \in [Nat -> Nat] /\ L \in [Nat -> Nat] /\ Home.last \in Nat
  BY BillNumbers
<1>2. /\ DayEnd(t) \in Nat /\ t < DayEnd(t) /\ DayStart(t) \in Nat /\ DayStart(t) <= t
      /\ DayEnd(t) <= 2 * DaySlots /\ DaySlots \in Nat
      /\ \A i \in DayStart(t) .. DayEnd(t) - 1 : DayEnd(i) = DayEnd(t)
  BY NextDay, SizesAre
<1>3. end \in Int /\ t <= end /\ stop \in Int /\ (t <= Home.last => t <= stop)
  BY <1>1, <1>2 DEF Lower
<1>4. Bill(t, t) = Owes(t) + Bill(t, t + 1)
  <2>1. O[t] = Owes(t)
    OBVIOUS
  <2>2. Bill(t, t) = Sum(O, t, end) /\ Bill(t, t + 1) = Sum(O, t + 1, end)
    BY DEF Bill
  <2> HIDE DEF O, end
  <2>3. O \in [Nat -> Nat] /\ t \in Nat /\ end \in Int /\ t <= end /\ O[t] \in Int
    BY <1>1, <1>3
  <2>4. Sum(O, t, end) = O[t] + Sum(O, t + 1, end)
    BY ONLY <2>3, SumFirst
  <2> QED
    BY ONLY <2>1, <2>2, <2>4
<1>5. t + 1 < DayEnd(t) => /\ DayEnd(t + 1) = DayEnd(t) /\ t + 1 < 2 * DaySlots
                           /\ \A i : Bill(t + 1, i) = Bill(t, i)
  <2> SUFFICES ASSUME t + 1 < DayEnd(t)
               PROVE  /\ DayEnd(t + 1) = DayEnd(t) /\ t + 1 < 2 * DaySlots
                      /\ \A i : Bill(t + 1, i) = Bill(t, i)
    OBVIOUS
  <2>1. t + 1 \in DayStart(t) .. DayEnd(t) - 1 /\ t + 1 < 2 * DaySlots
    BY <1>2
  <2>2. DayEnd(t + 1) = DayEnd(t)
    BY <1>2, <2>1
  <2> QED
    BY <2>1, <2>2 DEF Bill
<1>6. t <= Home.last => Through(t) = Load(t) + Sum(L, t + 1, stop)
  <2>1. L[t] = Load(t)
    OBVIOUS
  <2>2. Through(t) = Sum(L, t, stop)
    BY DEF Through
  <2> HIDE DEF L, stop
  <2> QED
    BY <1>1, <1>3, <2>1, <2>2, SumFirst
<1>7. Sum(L, t + 1, stop) \in Nat
  <2> HIDE DEF L, stop
  <2> QED
    BY <1>1, <1>3, SumIsNatural
<1>8. Load(t) \in Nat
  BY SlotNumbers
<1>9. t + 1 < DayEnd(t) => Through(t + 1) = Sum(L, t + 1, stop)
  BY <1>5 DEF Through
<1> QED
  <2> HIDE DEF L, stop
  <2>1. t <= Home.last => Through(t) >= Load(t)
    BY <1>6, <1>7, <1>8
  <2>2. t <= Home.last /\ t + 1 < DayEnd(t) => Through(t) = Load(t) + Through(t + 1)
    BY <1>6, <1>9
  <2> QED
    BY <1>4, <1>5, <2>1, <2>2

LEMMA ProductsGrow ==
  ASSUME NEW r \in Nat, NEW a \in Nat, NEW b \in Nat, a <= b
  PROVE  r * a <= r * b /\ r * a \in Nat /\ r * b \in Nat
<1>1. PICK d \in Nat : b = a + d
  <2>1. b - a \in Nat /\ b = a + (b - a)
    OBVIOUS
  <2> QED
    BY <2>1
<1>2. r * b = r * a + r * d
  BY <1>1
<1>3. r * a \in Nat /\ r * d \in Nat
  OBVIOUS
<1> QED
  BY <1>2, <1>3

\* What was backed stays backed while the money covers the debt and no more of it is to come.
LEMMA BackedStays ==
  ASSUME home \in HomeNumbers, NEW t \in Nat, t < 2 * DaySlots, t + 1 < DayEnd(t),
         NEW level \in Nat, NEW less \in Nat, NEW money \in Int, NEW more \in Int,
         NEW ahead \in Nat, NEW later \in Nat, Backed(t, level, money, ahead),
         more >= Home.rate * AtLeast0(Bill(t, t + 1) - less),
         Bill(t, t + 1) - less + later <= Bill(t, t) - level + ahead
  PROVE  Backed(t + 1, less, more, later)
<1>1. /\ DayEnd(t + 1) = DayEnd(t) /\ \A i : Bill(t + 1, i) = Bill(t, i)
  BY BillNext
<1>2. more >= Home.rate * AtLeast0(Bill(t + 1, t + 1) - less)
  BY <1>1
<1>3. Bill(t, t) \in Nat /\ Bill(t, t + 1) \in Nat
  BY BillNumbers
<1>4. ASSUME NEW j \in t + 1 .. DayEnd(t) - 1, j > Home.last, Owes(j) > 0,
             Bill(t, j + 1) < Bill(t, t + 1) - less + later
      PROVE  Price(j) < Home.rate
  <2>1. DayEnd(t) \in Nat
    BY NextDay
  <2>2. j \in t .. DayEnd(t) - 1 /\ j \in Nat
    BY <2>1
  <2>3. Bill(t, j + 1) \in Nat
    <3>1. j + 1 \in Nat
      BY <2>2
    <3> QED
      BY <3>1, BillNumbers
  <2>4. Bill(t, j + 1) < Bill(t, t) - level + ahead
    BY <1>3, <1>4, <2>3
  <2> QED
    BY <1>4, <2>2, <2>4 DEF Backed
<1> QED
  BY <1>1, <1>2, <1>4 DEF Backed

\* A slot of the event that leaves the battery what the rest of it draws.
LEMMA EventGoesOn ==
  ASSUME home \in HomeNumbers, NEW t \in Nat, t < 2 * DaySlots, t \in Home.first .. Home.last,
         NEW level \in Nat, NEW money \in Int, NEW sold \in BOOLEAN, NEW other,
         level >= Through(t) - Load(t), money >= 0,
         Home.last < DayEnd(t) /\ ~InWindow(Home.last + 1) /\ t + 1 < DayEnd(t) =>
            Backed(t + 1, level, money,
                   IF sold THEN Sum([j \in Nat |-> ExportOf(t + 1, j)], t + 1, Home.last) ELSE 0)
  PROVE  Solvent(t + 1, level, other, money, sold)
<1>1. /\ DayEnd(t) \in Nat /\ t < DayEnd(t) /\ InWindow(DayEnd(t))
      /\ DayStart(DayEnd(t)) = DayEnd(t)
  BY NextDay
<1>2. Home.last \in Nat /\ Home.first \in Nat /\ t <= Home.last /\ Load(t) \in Nat
  BY BillNumbers, SlotNumbers
<1>3. CASE t + 1 = DayEnd(t)
  BY <1>1, <1>3 DEF Solvent
<1>4. CASE t + 1 < DayEnd(t)
  <2>1. DayEnd(t + 1) = DayEnd(t) /\ Through(t) = Load(t) + Through(t + 1) /\ t + 1 < 2 * DaySlots
    BY <1>2, <1>4, BillNext
  <2>2. Through(t + 1) \in Nat /\ t + 1 \in Nat
    BY <2>1, BillNumbers
  <2>3. level >= Through(t + 1)
    BY <1>2, <2>1, <2>2
  <2>4. CASE t < Home.last
    <3>1. t + 1 \in Home.first .. Home.last
      BY <1>2, <2>4
    <3> QED
      BY <1>4, <2>1, <2>3, <3>1 DEF Selling, Solvent
  <2>5. CASE t = Home.last
    <3>1. t + 1 > Home.last
      BY <1>2, <2>5
    <3>2. CASE InWindow(t + 1)
      BY <3>1, <3>2 DEF Solvent
    <3>3. CASE ~InWindow(t + 1)
      <4>1. Sum([j \in Nat |-> ExportOf(t + 1, j)], t + 1, Home.last) = 0
        BY <1>2, <2>2, <3>1, EmptySum
      <4>2. Backed(t + 1, level, money, 0)
        BY <1>1, <1>4, <2>5, <3>3, <4>1
      <4> QED
        BY <3>1, <3>3, <4>2 DEF Owing, Solvent
    <3> QED
      BY <3>2, <3>3
  <2> QED
    BY <1>2, <2>4, <2>5
<1> QED
  BY <1>1, <1>3, <1>4

\* A slot of the event that is not exported.
LEMMA EventUnsold ==
  ASSUME home \in HomeNumbers, NEW t \in Nat, t < 2 * DaySlots,
         NEW level \in Nat, NEW less \in Nat, NEW money \in Int, NEW more \in Int,
         NEW sold \in BOOLEAN, NEW other, Selling(t, level, money, sold),
         less >= level - Load(t), more >= money, money >= 0
  PROVE  Solvent(t + 1, less, other, more, FALSE)
<1> DEFINE ahead == IF sold THEN Sum([j \in Nat |-> ExportOf(t, j)], t, Home.last) ELSE 0
<1>1. /\ t \in Home.first .. Home.last /\ level >= Through(t)
      /\ Home.last < DayEnd(t) /\ ~InWindow(Home.last + 1) => Backed(t, level, money, ahead)
  BY DEF Selling
<1>2. ahead \in Nat
  <2>1. Home.last \in Int
    BY HomeIs
  <2>2. Sum([j \in Nat |-> ExportOf(t, j)], t, Home.last) \in Nat
    BY <2>1, SumsAre
  <2> QED
    BY <2>2
<1> HIDE DEF ahead
<1>3. /\ Load(t) \in Nat /\ Through(t) \in Nat /\ Bill(t, t) \in Nat /\ Bill(t, t + 1) \in Nat
      /\ Home.rate \in Nat
  BY SlotBills
<1>4. Owes(t) = Load(t)
  BY <1>1 DEF Owes
<1>5. Bill(t, t) = Load(t) + Bill(t, t + 1)
  BY <1>4, BillNext
<1>6. less >= Through(t) - Load(t) /\ more >= 0
  BY <1>1, <1>3
<1>7. ASSUME Home.last < DayEnd(t), ~InWindow(Home.last + 1), t + 1 < DayEnd(t)
      PROVE  Backed(t + 1, less, more, 0)
  <2>1. Backed(t, level, money, ahead)
    BY <1>1, <1>7
  <2>2. Bill(t, t + 1) - less <= Bill(t, t) - level
    BY <1>3, <1>5
  <2>3. /\ AtLeast0(Bill(t, t + 1) - less) \in Nat /\ AtLeast0(Bill(t, t) - level) \in Nat
        /\ AtLeast0(Bill(t, t + 1) - less) <= AtLeast0(Bill(t, t) - level)
    BY <1>3, <2>2 DEF AtLeast0
  <2>4. /\ Home.rate * AtLeast0(Bill(t, t + 1) - less)
             <= Home.rate * AtLeast0(Bill(t, t) - level)
        /\ Home.rate * AtLeast0(Bill(t, t + 1) - less) \in Nat
        /\ Home.rate * AtLeast0(Bill(t, t) - level) \in Nat
    BY <1>3, <2>3, ProductsGrow
  <2>5. money >= Home.rate * AtLeast0(Bill(t, t) - level)
    BY <2>1 DEF Backed
  <2>6. more >= Home.rate * AtLeast0(Bill(t, t + 1) - less)
    BY <2>4, <2>5
  <2>7. Bill(t, t + 1) - less + 0 <= Bill(t, t) - level + ahead
    BY <1>2, <1>3, <2>2
  <2>8. 0 \in Nat
    OBVIOUS
  <2> QED
    BY <1>2, <1>7, <2>1, <2>6, <2>7, <2>8, BackedStays
<1>8. FALSE \in BOOLEAN
  OBVIOUS
<1>9. Home.last < DayEnd(t) /\ ~InWindow(Home.last + 1) /\ t + 1 < DayEnd(t) =>
         Backed(t + 1, less, more,
                IF FALSE THEN Sum([j \in Nat |-> ExportOf(t + 1, j)], t + 1, Home.last) ELSE 0)
  BY <1>7
<1> QED
  BY <1>1, <1>6, <1>8, <1>9, EventGoesOn

\* A slot between the event and the window: what the house buys there was paid for.
LEMMA OwedPaid ==
  ASSUME home \in HomeNumbers, NEW t \in Nat, t < 2 * DaySlots,
         NEW level \in Nat, NEW less \in Nat, NEW money \in Int, NEW more \in Int, NEW other,
         Owing(t, level, money), more >= Home.rate * AtLeast0(Bill(t, t + 1) - less),
         Bill(t, t + 1) - less <= Bill(t, t) - level
  PROVE  Solvent(t + 1, less, other, more, FALSE)
<1>1. /\ DayEnd(t) \in Nat /\ t < DayEnd(t) /\ InWindow(DayEnd(t))
      /\ DayStart(DayEnd(t)) = DayEnd(t) /\ DayStart(t) \in Nat /\ DayStart(t) <= t
      /\ \A i \in DayStart(t) .. DayEnd(t) - 1 : InWindow(i) <=> i < DayStart(t) + WindowSlots
  BY NextDay
<1>2. /\ Home.last \in Nat /\ Home.rate \in Nat /\ Bill(t, t + 1) \in Nat /\ Bill(t, t) \in Nat
      /\ WindowSlots \in Nat
  BY SlotBills, SizesAre
<1>3. t > Home.last /\ ~InWindow(t) /\ Backed(t, level, money, 0)
  BY DEF Owing
<1>4. more >= 0
  <2>1. AtLeast0(Bill(t, t + 1) - less) \in Nat
    BY <1>2 DEF AtLeast0
  <2>2. Home.rate * AtLeast0(Bill(t, t + 1) - less) \in Nat
    BY <1>2, <2>1
  <2> QED
    BY <2>2
<1>5. CASE t + 1 = DayEnd(t)
  BY <1>1, <1>4, <1>5 DEF Solvent
<1>6. CASE t + 1 < DayEnd(t)
  <2>1. ~InWindow(t + 1)
    <3>1. t \in DayStart(t) .. DayEnd(t) - 1 /\ t + 1 \in DayStart(t) .. DayEnd(t) - 1
      BY <1>1, <1>6
    <3>2. ~(t < DayStart(t) + WindowSlots) /\ (InWindow(t + 1) <=> t + 1 < DayStart(t) + WindowSlots)
      BY <1>1, <1>3, <3>1
    <3> QED
      BY <1>1, <1>2, <3>2
  <2>2. t + 1 > Home.last
    BY <1>2, <1>3
  <2>3. Bill(t, t + 1) - less + 0 <= Bill(t, t) - level + 0 /\ 0 \in Nat
    BY <1>2
  <2>4. Backed(t + 1, less, more, 0)
    BY <1>3, <1>6, <2>3, BackedStays
  <2> QED
    BY <1>4, <2>1, <2>2, <2>4 DEF Owing, Solvent
<1>7. t + 1 = DayEnd(t) \/ t + 1 < DayEnd(t)
  BY <1>1
<1> QED
  BY <1>5, <1>6, <1>7

\* The house serves itself from the battery and buys the rest.
LEMMA OwedBought ==
  ASSUME home \in HomeNumbers, NEW t \in Nat, t < 2 * DaySlots, ~Cheap(t),
         NEW level \in Nat, NEW less \in Nat, NEW money \in Int, NEW more \in Int, NEW other,
         NEW need \in Nat, need <= Load(t), Owing(t, level, money),
         less >= AtLeast0(level - need), more >= money - Price(t) * Bought(level, need)
  PROVE  Solvent(t + 1, less, other, more, FALSE)
<1> DEFINE gap  == Bill(t, t) - level
           next == Bill(t, t + 1) - less
           p    == Bought(level, need)
           rate == Home.rate
<1>1. /\ Load(t) \in Nat /\ Price(t) \in Nat /\ rate \in Nat
      /\ Bill(t, t) \in Nat /\ Bill(t, t + 1) \in Nat /\ gap \in Int /\ next \in Int
  BY SlotBills
<1>2. Owes(t) = Load(t) /\ Bill(t, t) = Load(t) + Bill(t, t + 1)
  BY BillNext DEF Owes
<1>3. /\ t > Home.last /\ Backed(t, level, money, 0) /\ money >= rate * AtLeast0(gap)
  BY DEF Owing, Backed
<1>4. p \in Nat /\ (p > 0 => p = need - level) /\ (p = 0 => need <= level)
  BY DEF Bought, AtLeast0
<1>5. next <= gap /\ (p > 0 => next <= gap - p /\ gap - p >= 0)
  BY <1>1, <1>2, <1>4 DEF AtLeast0
<1>6. AtLeast0(gap) \in Nat /\ AtLeast0(next) \in Nat /\ AtLeast0(next) <= AtLeast0(gap)
  BY <1>1, <1>5 DEF AtLeast0
<1>7. /\ rate * AtLeast0(next) <= rate * AtLeast0(gap)
      /\ rate * AtLeast0(next) \in Nat /\ rate * AtLeast0(gap) \in Nat
  BY <1>1, <1>6, ProductsGrow
<1>8. more >= rate * AtLeast0(next)
  <2>1. CASE p = 0
    <3>1. Price(t) * p = 0
      BY <1>1, <2>1
    <3> HIDE DEF gap, next, p, rate
    <3>2. more >= money
      BY <3>1 DEF p
    <3> QED
      BY <1>3, <1>7, <3>2
  <2>2. CASE p > 0
    <3>1. Price(t) < rate
      <4>1. DayEnd(t) \in Nat /\ t < DayEnd(t)
        BY NextDay
      <4>2. t \in t .. DayEnd(t) - 1
        BY <4>1
      <4>3. Owes(t) > 0 /\ Bill(t, t + 1) < Bill(t, t) - level + 0
        BY <1>1, <1>2, <1>4, <2>2
      <4> QED
        BY <1>3, <4>2, <4>3 DEF Backed
    <3>2. Price(t) * p <= rate * p /\ Price(t) * p \in Nat /\ rate * p \in Nat
      <4>1. Price(t) <= rate
        BY <1>1, <3>1
      <4> HIDE DEF p, rate
      <4>2. p * Price(t) <= p * rate /\ p * Price(t) \in Nat /\ p * rate \in Nat
        BY <1>1, <1>4, <4>1, ProductsGrow
      <4>3. p * Price(t) = Price(t) * p /\ p * rate = rate * p
        BY <1>1, <1>4
      <4> QED
        BY <4>2, <4>3
    <3>3. PICK d \in Nat : d = gap - p
      BY <1>1, <1>4, <1>5, <2>2
    <3>4. AtLeast0(gap) = d + p /\ AtLeast0(next) <= d
      BY <1>1, <1>4, <1>5, <2>2, <3>3 DEF AtLeast0
    <3> HIDE DEF gap, next, p, rate
    <3>5. rate * (d + p) = rate * d + rate * p
      BY <1>1, <1>4
    <3>6. rate * AtLeast0(next) <= rate * d /\ rate * d \in Nat
      BY <1>1, <1>6, <3>4, ProductsGrow
    <3>7. money >= rate * d + rate * p
      BY <1>3, <3>4, <3>5
    <3>8. more >= money - Price(t) * p
      BY DEF p
    <3> QED
      BY <1>7, <3>2, <3>6, <3>7, <3>8
  <2> QED
    BY <1>4, <2>1, <2>2
<1> QED
  BY <1>5, <1>8, OwedPaid

\* An event that has begun is funded by the battery as it is, and the sun of its day counts for
\* nothing.
LEMMA EventBegun ==
  ASSUME home \in HomeNumbers, NEW t \in Nat, t >= WindowSlots, t < 2 * DaySlots,
         t \in Home.first .. Home.last, NEW soc \in Nat
  PROVE  /\ From(t) = t /\ Usable(t, soc) = soc
         /\ House(t) = Sum([i \in Nat |-> EventNet(t, i)], t, Home.last)
         /\ \A j \in t .. DayEnd(t) - 1 : EventNet(t, j) = Load(j)
         /\ House(t) >= Through(t)
<1> DEFINE E == [i \in Nat |-> EventNet(t, i)]
           L == [i \in Nat |-> Load(i)]
           stop == Lower(Home.last, DayEnd(t) - 1)
<1>1. /\ t <= Home.last /\ Home.last \in Nat /\ DayEnd(t) \in Nat /\ DayStart(t) \in Nat
      /\ DayStart(t) <= t
      /\ \A i \in DayStart(t) .. DayEnd(t) - 1 : i \in Nat /\ DayStart(i) = DayStart(t)
  BY HomeIs, NextDay
<1>2. From(t) = t
  BY HomeIs DEF From
<1>3. t < WindowEnd(t)
  BY SizesAre, WindowsAre
<1>4. FromBattery(t)
  BY <1>1, <1>2, <1>3, FromBatteryIs
<1>5. House(t) = Sum(E, t, Home.last)
  <2>1. House(t) = Sum([i \in Nat |-> Owed(t, i)], t, t - 1) + Sum(E, t, Home.last)
    BY <1>2, <1>4 DEF House, Before
  <2>2. Sum([i \in Nat |-> Owed(t, i)], t, t - 1) = 0
    BY EmptySum
  <2>3. Sum(E, t, Home.last) \in Nat
    <3>1. Home.last \in Int
      BY <1>1
    <3> QED
      BY <3>1, SumsAre
  <2> QED
    BY <2>1, <2>2, <2>3
<1>6. \A j \in t .. DayEnd(t) - 1 : EventNet(t, j) = Load(j) /\ j \in Nat
  <2>1. \A j \in t .. DayEnd(t) - 1 : j \in DayStart(t) .. DayEnd(t) - 1
    BY <1>1
  <2> QED
    BY <1>1, <2>1 DEF EventNet
<1>7. House(t) >= Through(t)
  <2>1. E \in [Nat -> Nat] /\ L \in [Nat -> Nat]
    BY EventNumbers, BillNumbers
  <2>2. stop \in Int /\ stop <= Home.last /\ stop <= DayEnd(t) - 1 /\ Home.last \in Int
    BY <1>1 DEF Lower
  <2>3. \A i \in t .. stop : L[i] <= E[i]
    <3>1. ASSUME NEW i \in t .. stop PROVE L[i] <= E[i]
      <4>1. i \in t .. DayEnd(t) - 1
        BY <1>1, <2>2
      <4>2. i \in Nat /\ L[i] = E[i] /\ L[i] \in Nat
        BY <1>6, <2>1, <4>1
      <4> QED
        BY <4>2
    <3> QED
      BY <3>1
  <2>4. Through(t) = Sum(L, t, stop)
    BY DEF Through
  <2> HIDE DEF E, L, stop
  <2>5. Sum(L, t, stop) <= Sum(E, t, Home.last)
    BY <2>1, <2>2, <2>3, SumGrows
  <2>6. Sum(L, t, stop) \in Nat /\ Sum(E, t, Home.last) \in Nat
    BY <2>1, <2>2, SumIsNatural
  <2> QED
    BY <1>5, <2>4, <2>5, <2>6
<1> QED
  BY <1>2, <1>4, <1>5, <1>6, <1>7 DEF Usable

\* What is exported in its turn is in the battery beside the house.
LEMMA ExportFunded ==
  ASSUME home \in HomeNumbers, NEW t \in Nat, t >= WindowSlots, t < 2 * DaySlots,
         NEW soc \in Nat, t \in Plan(t, soc).export
  PROVE  /\ t \in Home.first .. Home.last /\ soc >= House(t) + Drawn(t, t)
         /\ Paid(t, soc, Drawn(t, t)) /\ Drawn(t, t) \in Nat /\ Drawn(t, t) > 0
         /\ Drawn(t, t) >= ExportOf(t, t) /\ ExportOf(t, t) \in Nat
<1>1. t \in Selected(t, Purse(t, soc, Outflow(t), ChargeLimit(t)))
  BY PlanIs
<1>2. t \in Home.first .. Home.last
  BY <1>1, SelectedIs DEF EventSlots
<1>3. t <= Home.last /\ Home.last \in Nat /\ Home.first \in Nat
  BY <1>2, HomeIs
<1>4. t \in From(t) .. Home.last /\ ~Declines(t, t) /\ Paid(t, soc, Drawn(t, t))
  <2>1. /\ t \in From(t) .. Home.last
        /\ \A j \in t .. Home.last : ~Declines(t, j) /\ Paid(t, soc, Drawn(t, j))
    BY <1>3, ExportsOf
  <2>2. t \in t .. Home.last
    BY <1>3
  <2> QED
    BY <2>1, <2>2
<1>5. Drawn(t, t) >= ExportOf(t, t) /\ ExportOf(t, t) \in Nat /\ Drawn(t, t) \in Nat
  <2>1. Home.last \in Int
    BY <1>3
  <2> QED
    BY <1>3, <2>1, SumsAre, EventNumbers DEF Drawn
<1>6. ExportOf(t, t) # 0
  BY <1>4 DEF Declines
<1>7. Usable(t, soc) = soc
  BY <1>2, EventBegun
<1>8. /\ House(t) \in Nat /\ Needed(t) \in Nat
      /\ Free(t, soc) \in Nat /\ Pledge(t, soc) \in Nat
  BY <1>3, PurseNumbers
<1>9. /\ Free(t, soc) = AtLeast0(soc - House(t) - Needed(t))
      /\ Pledge(t, soc) = Lower(Needed(t), AtLeast0(soc - House(t)))
  BY <1>7 DEF Free, Pledge, Spare
<1>10. Free(t, soc) + Pledge(t, soc) = AtLeast0(soc - House(t))
  BY <1>8, <1>9 DEF AtLeast0, Lower
<1>11. Drawn(t, t) <= Free(t, soc) + Pledge(t, soc)
  BY <1>4, <1>5, <1>8 DEF Paid
<1>12. soc >= House(t) + Drawn(t, t) /\ Drawn(t, t) > 0
  BY <1>5, <1>6, <1>8, <1>10, <1>11 DEF AtLeast0
<1> QED
  BY <1>2, <1>4, <1>5, <1>12

\* The reserve lasts until nothing dear is left of the day, when no dispatch ends it early.
LEMMA ReserveReaches ==
  ASSUME home \in HomeNumbers, NEW t \in Nat, t >= WindowSlots, t < 2 * DaySlots,
         t \in Home.first .. Home.last, Home.last + 1 < DayEnd(t), ~InWindow(Home.last + 1),
         NEW soc \in Nat, ~Less(t, soc)
  PROVE  /\ Target(t) \in Home.last + 1 .. DayEnd(t)
         /\ \A k \in Target(t) .. DayEnd(t) - 1 : Cheap(k)
<1>1. /\ t <= Home.last /\ Home.last \in Nat /\ DayEnd(t) \in Nat /\ DayStart(t) \in Nat
      /\ DayStart(t) <= t /\ WindowSlots \in Nat /\ DaySlots \in Nat
      /\ \A i \in DayStart(t) .. DayEnd(t) - 1 :
            /\ i \in Nat /\ DayStart(i) = DayStart(t) /\ DayEnd(i) = DayEnd(t)
            /\ InWindow(i) <=> i < DayStart(t) + WindowSlots
  <2>1. /\ DayEnd(t) \in Nat /\ DayStart(t) \in Nat /\ DayStart(t) <= t
        /\ \A i \in DayStart(t) .. DayEnd(t) - 1 :
              /\ i \in Nat /\ DayStart(i) = DayStart(t) /\ DayEnd(i) = DayEnd(t)
              /\ InWindow(i) <=> i < DayStart(t) + WindowSlots
    BY NextDay
  <2>2. WindowSlots \in Nat /\ DaySlots \in Nat
    BY SizesAre
  <2>3. t <= Home.last /\ Home.last \in Nat
    BY HomeIs
  <2> QED
    BY <2>1, <2>2, <2>3
<1> DEFINE from == Home.last + 1
           end  == DayEnd(t)
           near == {i \in from .. end - 1 : Cheap(i)}
<1>2. FirstCheap(from, end) \in from .. end
  <2>1. from \in Nat /\ from < end /\ end \in Nat
    <3>1. Home.last \in Nat /\ DayEnd(t) \in Nat
      BY <1>1
    <3> QED
      BY <3>1
  <2>2. CASE near = {}
    <3>1. FirstCheap(from, end) = end
      BY <2>2 DEF FirstCheap
    <3> HIDE DEF from, end
    <3> QED
      BY <2>1, <3>1
  <2>3. CASE near # {}
    <3>1. FirstCheap(from, end) = Min(near)
      BY <2>3 DEF FirstCheap
    <3> HIDE DEF from, end
    <3>2. IsFiniteSet(from .. end - 1)
      <4>1. from \in Int /\ end - 1 \in Int
        BY <2>1
      <4> QED
        BY <4>1, FS_Interval
    <3>3. near \in SUBSET (from .. end - 1) /\ near \in SUBSET Int
      BY <2>1
    <3> HIDE DEF near
    <3>4. IsFiniteSet(near)
      BY <3>2, <3>3, FS_Subset
    <3>5. Min(near) \in near
      BY <2>3, <3>3, <3>4, MinIsLeast
    <3>6. Min(near) \in from .. end - 1
      BY <3>3, <3>5
    <3> QED
      BY <2>1, <3>1, <3>6
  <2> QED
    BY <2>2, <2>3
<1>3. Target(t) \in from .. end
  <2>1. CASE InWindow(t)
    <3>1. WindowOf(t) = DayStart(t) /\ HorizonEnd(t) = end /\ ~(Home.last < WindowOf(t))
      BY <1>1, <2>1 DEF WindowOf, HorizonEnd, DayEnd
    <3> QED
      BY <1>2, <3>1 DEF Target
  <2>2. CASE ~InWindow(t)
    <3>1. WindowOf(t) = end /\ Home.last < WindowOf(t)
      BY <1>1, <2>2 DEF WindowOf, DayEnd
    <3> QED
      BY <1>1, <3>1 DEF Target
  <2> QED
    BY <2>1, <2>2
<1>4. ASSUME NEW k \in Target(t) .. end - 1 PROVE Cheap(k)
  <2>1. Target(t) \in DayStart(t) .. DayEnd(t) - 1 /\ from \in DayStart(t) .. DayEnd(t) - 1
    BY <1>1, <1>3, <1>4
  <2>2. ~InWindow(Target(t))
    <3>1. ~(from < DayStart(t) + WindowSlots)
      BY <1>1, <2>1
    <3>2. InWindow(Target(t)) <=> Target(t) < DayStart(t) + WindowSlots
      BY <1>1, <2>1
    <3> QED
      BY <1>1, <1>3, <3>1, <3>2
  <2>3. WindowOf(Target(t)) = end
    <3>1. DayStart(Target(t)) = DayStart(t)
      BY <1>1, <2>1
    <3> QED
      BY <2>2, <3>1 DEF WindowOf, DayEnd
  <2>4. k \in Target(t) .. WindowOf(Target(t)) - 1
    BY <1>4, <2>3
  <2> QED
    BY <2>4 DEF Less
<1> QED
  BY <1>3, <1>4

\* A shortfall the reserve pays is bought cheaper than it is sold, whatever slot it falls in.
LEMMA WorstBounds ==
  ASSUME home \in HomeNumbers, NEW t \in Nat, NEW short \in Int, NEW lo \in Nat, NEW hi \in Int,
         NEW j \in lo .. hi, Owed(t, j) > 0,
         Sum([i \in Nat |-> Owed(t, i)], j + 1, hi) < short
  PROVE  Price(j) <= Worst(t, lo .. hi, short) /\ Worst(t, lo .. hi, short) \in Int
<1> DEFINE O == [i \in Nat |-> Owed(t, i)]
           post == lo .. hi
           dear == {i \in post : Owed(t, i) > 0 /\ Sum(O, i + 1, Max(post)) < short}
           cost == {Price(i) : i \in dear}
<1>1. Max(post) = hi
  BY LeastOfRange
<1>2. j \in dear
  BY <1>1
<1>3. Worst(t, post, short) = Max(cost)
  BY <1>2 DEF Worst
<1>4. dear \in SUBSET Nat /\ dear \in SUBSET post
  OBVIOUS
<1>5. IsFiniteSet(post)
  BY FS_Interval
<1> HIDE DEF dear, post
<1>6. IsFiniteSet(dear)
  BY <1>4, <1>5, FS_Subset
<1>7. IsFiniteSet(cost)
  BY <1>4, <1>6, PricesFinite
<1>8. cost \in SUBSET Int /\ cost # {} /\ Price(j) \in cost
  <2>1. \A i \in Nat : Price(i) \in Nat
    BY SlotNumbers
  <2> QED
    BY <1>2, <1>4, <2>1
<1> HIDE DEF cost
<1>9. Max(cost) \in cost /\ \A y \in cost : Max(cost) >= y
  BY <1>7, <1>8, MaxIsGreatest
<1>10. Max(cost) \in Int /\ Price(j) \in Int
  BY <1>8, <1>9
<1> QED
  BY <1>3, <1>8, <1>9, <1>10 DEF post

\* An export that begins with all of its reserve is backed: what is free pays the house to the
\* window, and what is taken of the reserve is sold for more than any slot it may be bought in.
LEMMA ExportBacked ==
  ASSUME home \in HomeNumbers, NEW t \in Nat, t >= WindowSlots, t < 2 * DaySlots,
         NEW soc \in Nat, t \in Plan(t, soc).export, ~Less(t, soc),
         Home.last + 1 < DayEnd(t), ~InWindow(Home.last + 1), NEW money \in Int, money >= 0
  PROVE  Backed(t, soc, money, Drawn(t, t))
<1> DEFINE O == [i \in Nat |-> Owes(i)]
           P == [i \in Nat |-> Owed(t, i)]
           E == [i \in Nat |-> EventNet(t, i)]
           from   == Home.last + 1
           target == Target(t)
           last   == DayEnd(t) - 1
           house  == House(t)
           needed == Needed(t)
           drawn  == Drawn(t, t)
           bare   == Sum(O, from, target - 1)
           priced == Sum(P, from, target - 1)
           short  == drawn - Free(t, soc)
<1>1. /\ t \in Home.first .. Home.last /\ soc >= house + drawn
      /\ Paid(t, soc, drawn) /\ drawn \in Nat /\ drawn > 0
  BY ExportFunded
<1>2. /\ t <= Home.last /\ Home.last \in Nat /\ from \in Nat /\ t <= from
      /\ DayEnd(t) \in Nat /\ last \in Int /\ DayStart(t) \in Nat /\ DayStart(t) <= t
      /\ \A i \in DayStart(t) .. DayEnd(t) - 1 : i \in Nat /\ DayStart(i) = DayStart(t)
  BY HomeIs, NextDay, <1>1
<1>3. /\ house = Sum(E, t, Home.last)
      /\ \A j \in t .. DayEnd(t) - 1 : EventNet(t, j) = Load(j)
      /\ Usable(t, soc) = soc
  BY <1>1, EventBegun
<1>4. target \in from .. DayEnd(t) /\ \A k \in target .. last : Cheap(k)
  BY <1>1, ReserveReaches
<1>5. O \in [Nat -> Nat] /\ P \in [Nat -> Nat] /\ E \in [Nat -> Nat]
  BY BillNumbers, EventNumbers
<1>6. /\ house \in Nat /\ needed \in Nat /\ Free(t, soc) \in Nat /\ Pledge(t, soc) \in Nat
      /\ target \in Nat
  BY <1>2, PurseNumbers
<1>7. target - 1 \in Int /\ target <= last + 1 /\ from <= target
  BY <1>2, <1>4, <1>6
<1>8. house = Sum(O, t, Home.last)
  <2>1. \A j \in t .. Home.last : E[j] = O[j]
    <3>1. ASSUME NEW j \in t .. Home.last PROVE E[j] = O[j]
      <4>1. /\ t \in Nat /\ Home.last \in Nat /\ Home.first \in Nat /\ Home.first <= t
            /\ Home.last + 1 < DayEnd(t) /\ DayEnd(t) \in Nat
        <5>1. Home.first \in Nat
          BY HomeIs
        <5> QED
          BY <1>1, <1>2, <5>1
      <4>2. j \in t .. DayEnd(t) - 1 /\ j \in Home.first .. Home.last /\ j \in Nat
        BY <4>1
      <4> QED
        BY <1>3, <4>2 DEF Owes
    <3> QED
      BY <3>1
  <2> HIDE DEF E, O
  <2>2. Home.last \in Int
    BY <1>2
  <2> QED
    BY <1>3, <1>5, <2>1, <2>2, SameSums
<1>9. \A m \in Nat : from <= m /\ m <= target => Sum(O, m, last) = Sum(O, m, target - 1)
  <2> SUFFICES ASSUME NEW m \in Nat, from <= m, m <= target
               PROVE  Sum(O, m, last) = Sum(O, m, target - 1)
    OBVIOUS
  <2>1. \A k \in target .. last : O[k] = 0
    <3>1. ASSUME NEW k \in target .. last PROVE O[k] = 0
      <4>1. k \in Nat /\ k > Home.last /\ Cheap(k)
        BY <1>2, <1>4, <1>6, <1>7
      <4> QED
        BY <1>2, <4>1 DEF Owes
    <3> QED
      BY <3>1
  <2> HIDE DEF O, target, last
  <2>2. Sum(O, target, last) = 0
    BY <1>2, <1>5, <1>6, <2>1, ZeroSum
  <2>3. PICK mid \in Int : mid = target - 1
    BY <1>7
  <2>4. m <= mid + 1 /\ mid <= last /\ mid + 1 = target
    BY <1>2, <1>6, <1>7, <2>3
  <2>5. Sum(O, m, last) = Sum(O, m, mid) + Sum(O, mid + 1, last)
    <3>1. O \in [Nat -> Nat] /\ m \in Nat /\ mid \in Int /\ last \in Int
      BY <1>2, <1>5
    <3> QED
      BY ONLY <2>4, <3>1, SumSplit
  <2>6. Sum(O, m, mid) \in Nat
    BY <1>5, SumIsNatural
  <2>7. Sum(O, mid + 1, last) = 0
    BY <2>2, <2>4
  <2> QED
    BY <2>3, <2>5, <2>6, <2>7
<1>10. Bill(t, t) = house + bare
  <2>1. Bill(t, t) = Sum(O, t, last)
    BY DEF Bill
  <2>2. t <= Home.last + 1 /\ Home.last <= last /\ Home.last \in Int
    BY <1>2
  <2> HIDE DEF O, last, target
  <2>3. Sum(O, t, last) = Sum(O, t, Home.last) + Sum(O, Home.last + 1, last)
    <3>1. O \in [Nat -> Nat] /\ t \in Nat /\ last \in Int
      BY <1>2, <1>5
    <3> QED
      BY ONLY <2>2, <3>1, SumSplit
  <2>4. Sum(O, from, last) = bare
    BY <1>2, <1>7, <1>9
  <2> QED
    BY <1>8, <2>1, <2>3, <2>4
<1>11. \A i \in from .. target - 1 : O[i] <= P[i]
  <2>1. ASSUME NEW i \in from .. target - 1 PROVE O[i] <= P[i]
    <3>1. i \in t .. DayEnd(t) - 1 /\ i \in Nat /\ i > Home.last
      BY <1>2, <1>4, <1>6, <1>7
    <3>2. EventNet(t, i) = Load(i) /\ Load(i) \in Nat /\ Home.last \in Nat
      BY <1>2, <1>3, <3>1, SlotNumbers
    <3>3. Owes(i) = 0 \/ (Owes(i) = Load(i) /\ ~Cheap(i))
      BY <3>1, <3>2 DEF Owes
    <3>4. Owed(t, i) \in Nat /\ (~Cheap(i) => Owed(t, i) = Load(i))
      BY <3>1, <3>2, EventNumbers DEF Owed
    <3>5. Owes(i) <= Owed(t, i)
      BY <3>2, <3>3, <3>4
    <3> QED
      BY <3>1, <3>5
  <2> QED
    BY <2>1
<1>12. bare \in Nat /\ priced \in Nat /\ bare <= priced
  <2> HIDE DEF O, P, from, target
  <2>1. bare \in Nat /\ priced \in Nat
    BY <1>2, <1>5, <1>7, SumIsNatural
  <2>2. target - 1 <= target - 1
    BY <1>7
  <2>3. bare <= priced
    BY <1>2, <1>5, <1>7, <1>11, <2>2, SumGrows
  <2> QED
    BY <2>1, <2>3
<1>13. needed >= priced
  <2>1. needed = Buffered(priced)
    BY DEF Needed
  <2>2. \A x \in Nat : Buffered(x) >= x
    <3> TAKE x \in Nat
    <3>1. x * BufferPct \in Nat
      BY SizesAre
    <3>2. (x * BufferPct) \div 100 \in Nat
      BY <3>1
    <3> QED
      BY <3>2 DEF Buffered
  <2> HIDE DEF priced, needed
  <2> QED
    BY <1>12, <2>1, <2>2
<1>14. /\ Free(t, soc) = AtLeast0(soc - house - needed)
       /\ Pledge(t, soc) = Lower(needed, AtLeast0(soc - house))
       /\ AtLeast0(soc - house) >= needed
  <2>1. AtLeast0(soc - house) \in Nat
    BY <1>6, Positives
  <2>2. ~(AtLeast0(soc - house) < needed)
    BY <1>3 DEF Less, Spare
  <2>3. AtLeast0(soc - house) >= needed
    <3> HIDE DEF needed
    <3> QED
      BY <1>6, <2>1, <2>2
  <2> QED
    BY <1>3, <2>3 DEF Free, Pledge, Spare
<1> HIDE DEF O, P, E, from, target, last, house, needed, drawn, bare, priced
<1>15. Free(t, soc) = soc - house - needed /\ short = drawn - soc + house + needed
  BY <1>1, <1>6, <1>14 DEF AtLeast0
<1>16. Bill(t, t) <= soc
  <2>1. soc - house - needed \in Nat
    BY <1>6, <1>15
  <2> QED
    BY <1>6, <1>10, <1>12, <1>13, <2>1
<1>17. money >= Home.rate * AtLeast0(Bill(t, t) - soc)
  <2>1. Bill(t, t) \in Nat /\ Home.rate \in Nat
    BY BillNumbers
  <2>2. AtLeast0(Bill(t, t) - soc) = 0
    BY <1>16, <2>1 DEF AtLeast0
  <2>3. Home.rate * 0 = 0
    BY <2>1
  <2> QED
    BY <2>2, <2>3
<1>18. ASSUME NEW j \in t .. DayEnd(t) - 1, j > Home.last, Owes(j) > 0,
              Bill(t, j + 1) < Bill(t, t) - soc + drawn
       PROVE  Price(j) < Home.rate
  <2>1. j \in Nat /\ j + 1 \in Nat /\ from <= j /\ j <= last
    BY <1>2, <1>18 DEF from, last
  <2>2. j < target
    <3>1. SUFFICES ASSUME j >= target PROVE FALSE
      BY <1>6, <2>1
    <3>2. j \in target .. last
      BY <1>2, <1>6, <2>1, <3>1
    <3>3. Cheap(j)
      BY <1>4, <3>2
    <3> QED
      BY <1>2, <1>18, <3>3 DEF Owes
  <2>3. j \in from .. target - 1 /\ j + 1 <= target /\ from <= j + 1 /\ j + 1 <= (target - 1) + 1
    BY <1>2, <1>6, <2>1, <2>2
  <2>4. Bill(t, j + 1) = Sum(O, j + 1, target - 1)
    <3>1. Bill(t, j + 1) = Sum(O, j + 1, last)
      BY DEF Bill, O, last
    <3> QED
      BY <1>9, <2>1, <2>3, <3>1
  <2>5. Sum(P, j + 1, target - 1) + bare <= Sum(O, j + 1, target - 1) + priced
    <3>1. PICK mid \in Nat : mid = j + 1
      BY <2>1
    <3>2. from <= mid /\ mid <= (target - 1) + 1
      BY <2>3, <3>1
    <3>3. Sum(P, mid, target - 1) + Sum(O, from, target - 1)
             <= Sum(O, mid, target - 1) + Sum(P, from, target - 1)
      BY <1>2, <1>5, <1>7, <1>11, <3>2, SumsDiffer
    <3> QED
      BY <3>1, <3>3 DEF bare, priced
  <2>6. Sum(P, j + 1, target - 1) \in Nat /\ Sum(O, j + 1, target - 1) \in Nat
    BY <1>5, <1>7, <2>1, SumIsNatural
  <2>7. Sum(P, j + 1, target - 1) < short
    BY <1>1, <1>6, <1>10, <1>12, <1>13, <1>15, <1>18, <2>4, <2>5, <2>6
  <2>8. short > 0 /\ short \in Int
    BY <1>1, <1>6, <2>6, <2>7
  <2>9. Home.rate > Worst(t, Post(t), short)
    <3>1. ~(drawn <= Free(t, soc))
      BY <1>1, <1>6, <2>8
    <3> QED
      BY <1>1, <3>1 DEF Paid
  <2>10. Owed(t, j) > 0
    <3>1. O[j] = Owes(j) /\ P[j] = Owed(t, j) /\ O[j] \in Nat /\ P[j] \in Nat
      BY <1>5, <2>1 DEF O, P
    <3>2. O[j] <= P[j]
      BY <1>11, <2>3
    <3> QED
      BY <1>18, <3>1, <3>2
  <2>11. Price(j) <= Worst(t, Post(t), short) /\ Worst(t, Post(t), short) \in Int
    <3>1. Sum([i \in Nat |-> Owed(t, i)], j + 1, target - 1) < short
      BY <2>7 DEF P
    <3>2. /\ Price(j) <= Worst(t, from .. target - 1, short)
          /\ Worst(t, from .. target - 1, short) \in Int
      BY <1>2, <1>7, <2>3, <2>8, <2>10, <3>1, WorstBounds
    <3> QED
      BY <3>2 DEF Post, from, target
  <2>12. Price(j) \in Nat /\ Home.rate \in Nat
    BY <2>1, SlotNumbers, HomeIs
  <2> QED
    BY <2>8, <2>9, <2>11, <2>12
<1> QED
  BY <1>17, <1>18 DEF Backed, drawn

\* A slot that is exported in its turn.
LEMMA ExportSlot ==
  ASSUME home \in HomeNumbers, NEW t \in Nat, t >= WindowSlots, t < 2 * DaySlots,
         NEW level \in Nat, NEW money \in Int, NEW more \in Int, NEW sold \in BOOLEAN,
         NEW other, NEW twinned, t \in Plan(t, level).export,
         Solvent(t, level, other, money, sold), ~sold \/ t = DayStart(t) => ~Less(t, level),
         more >= money + Home.rate * ExportOf(t, t)
  PROVE  Solvent(t + 1, AtLeast0(level - DischargeUnits), twinned, more, TRUE)
<1> DEFINE F == [j \in Nat |-> ExportOf(t, j)]
           G == [j \in Nat |-> ExportOf(t + 1, j)]
           less  == level - DischargeUnits
           drawn == Drawn(t, t)
           later == Sum(G, t + 1, Home.last)
           e     == ExportOf(t, t)
           rate  == Home.rate
           gap   == Bill(t, t) - level
<1>1. /\ t \in Home.first .. Home.last /\ level >= House(t) + drawn
      /\ drawn \in Nat /\ drawn >= e /\ e \in Nat
  BY ExportFunded
<1>2. level >= DischargeUnits /\ e = DischargeUnits - Load(t) /\ DischargeUnits \in Nat
  <2>1. 0 \in {0, Sun(t)} \union P90(t)
    OBVIOUS
  <2> QED
    BY <2>1, ExportInTurn, SizesAre
<1>3. /\ Load(t) \in Nat /\ Through(t) \in Nat /\ Bill(t, t) \in Nat /\ Bill(t, t + 1) \in Nat
      /\ rate \in Nat /\ Home.last \in Nat
  BY SlotBills
<1>4. House(t) \in Nat /\ House(t) >= Through(t)
  <2>1. t <= Home.last
    BY <1>1, <1>3
  <2> QED
    BY <1>1, <2>1, EventBegun, PurseNumbers
<1>5. AtLeast0(level - DischargeUnits) = less /\ less \in Nat
  BY <1>2 DEF AtLeast0
<1>6. less >= Through(t) - Load(t)
  <2> HIDE DEF drawn, e
  <2> QED
    BY <1>1, <1>2, <1>3, <1>4
<1>7. rate * e \in Nat /\ money >= 0
  BY <1>1, <1>3 DEF Solvent
<1>8. more >= 0
  <2> HIDE DEF rate, e
  <2>1. more >= money + rate * e
    BY DEF rate, e
  <2> QED
    BY <1>7, <2>1
<1>9. Bill(t, t) = Load(t) + Bill(t, t + 1)
  BY <1>1, BillNext DEF Owes
<1>10. ASSUME Home.last < DayEnd(t), ~InWindow(Home.last + 1), t + 1 < DayEnd(t)
       PROVE  Backed(t + 1, less, more, later)
  <2>1. /\ DayEnd(t) \in Nat /\ InWindow(DayEnd(t)) /\ DayStart(t) \in Nat /\ DayStart(t) <= t
        /\ \A i \in DayStart(t) .. DayEnd(t) - 1 : DayStart(i) = DayStart(t)
    BY NextDay
  <2>2. Home.last + 1 < DayEnd(t)
    <3>1. Home.last + 1 # DayEnd(t)
      BY <1>10, <2>1
    <3> QED
      BY <1>3, <1>10, <2>1, <3>1
  <2>3. Backed(t, level, money, drawn)
    <3>1. CASE ~sold \/ t = DayStart(t)
      <4>1. ~Less(t, level)
        BY <3>1
      <4> QED
        BY <1>7, <1>10, <2>2, <4>1, ExportBacked
    <3>2. CASE sold /\ t # DayStart(t)
      <4>1. t <= Home.last /\ ~(t > Home.last)
        BY <1>1, <1>3
      <4>2. Selling(t, level, money, sold)
        BY <3>2, <4>1 DEF Solvent, Owing
      <4> QED
        BY <1>10, <3>2, <4>2 DEF Selling, Drawn
    <3> QED
      BY <3>1, <3>2
  <2>4. drawn = e + later /\ later \in Nat
    <3>0. t + 1 \in Nat
      OBVIOUS
    <3>1. F \in [Nat -> Nat] /\ G \in [Nat -> Nat] /\ F[t] = e /\ t + 1 \in Nat
      <4>1. F \in [Nat -> Nat] /\ F[t] = e
        BY EventNumbers
      <4>2. G \in [Nat -> Nat]
        BY <3>0, EventNumbers
      <4> QED
        BY <3>0, <4>1, <4>2
    <3>2. t <= Home.last /\ Home.last \in Int
      BY <1>1, <1>3
    <3>3. \A j \in t + 1 .. Home.last : F[j] = G[j]
      <4>1. t + 1 \in DayStart(t) .. DayEnd(t) - 1
        BY <1>10, <2>1
      <4>2. DayStart(t + 1) = DayStart(t)
        BY <2>1, <4>1
      <4>3. \A j : ExportOf(t + 1, j) = ExportOf(t, j)
        BY <4>2 DEF ExportOf, Surplus, SunOf
      <4> QED
        BY <4>3
    <3>4. drawn = Sum(F, t, Home.last)
      BY DEF Drawn
    <3> HIDE DEF F, G, drawn, e
    <3>5. Sum(F, t, Home.last) = F[t] + Sum(F, t + 1, Home.last)
      BY <3>1, <3>2, SumFirst
    <3>6. Sum(F, t + 1, Home.last) = later /\ later \in Nat
      BY <3>1, <3>2, <3>3, SameSums, SumIsNatural
    <3> QED
      BY <3>1, <3>4, <3>5, <3>6
  <2>5. AtLeast0(gap) \in Nat /\ AtLeast0(gap + e) \in Nat /\ AtLeast0(gap + e) <= AtLeast0(gap) + e
        /\ AtLeast0(gap) + e \in Nat /\ Bill(t, t + 1) - less = gap + e
    BY <1>1, <1>2, <1>3, <1>9 DEF AtLeast0
  <2>6. money >= rate * AtLeast0(gap)
    BY <2>3 DEF Backed
  <2>7. more >= money + rate * e
    OBVIOUS
  <2> DEFINE now == AtLeast0(gap)
             hence == AtLeast0(gap + e)
  <2>8. more >= rate * hence
    <3> HIDE DEF gap, e, rate, now, hence
    <3>1. now \in Nat /\ hence \in Nat /\ hence <= now + e /\ now + e \in Nat
      BY <2>5 DEF now, hence
    <3>2. rate * hence <= rate * (now + e) /\ rate * hence \in Nat
      BY <1>3, <3>1, ProductsGrow
    <3>3. rate * (now + e) = rate * now + rate * e
      BY <1>1, <1>3, <3>1
    <3>4. rate * now \in Nat /\ money >= rate * now
      BY <1>3, <2>6, <3>1 DEF now
    <3> QED
      BY <1>7, <2>7, <3>2, <3>3, <3>4
  <2>9. more >= Home.rate * AtLeast0(Bill(t, t + 1) - less)
    BY <2>5, <2>8
  <2>10. Bill(t, t + 1) - less + later <= Bill(t, t) - level + drawn
    <3> HIDE DEF e, drawn, later, less
    <3> QED
      BY <1>1, <1>3, <1>5, <2>4, <2>5
  <2> HIDE DEF less, drawn, later
  <2> QED
    BY <1>1, <1>5, <1>10, <2>3, <2>4, <2>9, <2>10, BackedStays
<1>11. TRUE \in BOOLEAN
  OBVIOUS
<1>12. Home.last < DayEnd(t) /\ ~InWindow(Home.last + 1) /\ t + 1 < DayEnd(t) =>
         Backed(t + 1, less, more,
                IF TRUE THEN Sum([j \in Nat |-> ExportOf(t + 1, j)], t + 1, Home.last) ELSE 0)
  BY <1>10
<1> HIDE DEF less
<1>13. Solvent(t + 1, less, twinned, more, TRUE)
  BY <1>1, <1>5, <1>6, <1>8, <1>11, <1>12, EventGoesOn
<1> QED
  BY <1>5, <1>13

\* A dispatched slot holds the battery.
LEMMA DispatchSlot ==
  ASSUME home \in HomeNumbers, NEW t \in Nat, t < 2 * DaySlots, ~InWindow(t),
         NEW level \in Nat, NEW less \in Nat, less >= level, NEW other, NEW twinned,
         level = other => less = twinned, NEW money \in Int, NEW sold \in BOOLEAN,
         Solvent(t, level, other, money, sold)
  PROVE  Solvent(t + 1, less, twinned, money, FALSE)
<1>1. money >= 0
  BY DEF Solvent
<1>2. CASE level = other
  BY <1>1, <1>2 DEF Solvent
<1>3. CASE Selling(t, level, money, sold)
  <2>1. less >= level - Load(t) /\ money >= money
    BY SlotBills
  <2> QED
    BY <1>1, <1>3, <2>1, EventUnsold
<1>4. CASE Owing(t, level, money)
  <2>1. /\ Bill(t, t) \in Nat /\ Bill(t, t + 1) \in Nat /\ Owes(t) \in Nat /\ Home.rate \in Nat
        /\ Bill(t, t) = Owes(t) + Bill(t, t + 1)
    BY SlotBills, BillNumbers, BillNext
  <2>2. Bill(t, t + 1) - less <= Bill(t, t) - level
    BY <2>1
  <2>3. /\ AtLeast0(Bill(t, t + 1) - less) \in Nat /\ AtLeast0(Bill(t, t) - level) \in Nat
        /\ AtLeast0(Bill(t, t + 1) - less) <= AtLeast0(Bill(t, t) - level)
    BY <2>1, <2>2 DEF AtLeast0
  <2>4. /\ Home.rate * AtLeast0(Bill(t, t + 1) - less)
             <= Home.rate * AtLeast0(Bill(t, t) - level)
        /\ Home.rate * AtLeast0(Bill(t, t + 1) - less) \in Nat
        /\ Home.rate * AtLeast0(Bill(t, t) - level) \in Nat
    BY <2>1, <2>3, ProductsGrow
  <2>5. money >= Home.rate * AtLeast0(Bill(t, t) - level)
    BY <1>4 DEF Owing, Backed
  <2>6. money >= Home.rate * AtLeast0(Bill(t, t + 1) - less)
    BY <2>4, <2>5
  <2> QED
    BY <1>4, <2>2, <2>6, OwedPaid
<1> QED
  BY <1>2, <1>3, <1>4 DEF Solvent

\* In any other slot the house serves itself.
LEMMA HouseSlot ==
  ASSUME home \in HomeNumbers, NEW t \in Nat, t < 2 * DaySlots, ~Cheap(t),
         NEW level \in Nat, NEW less \in Nat, NEW other \in Nat, NEW twinned,
         NEW need \in Nat, need <= Load(t), less >= AtLeast0(level - need),
         level = other => less = twinned, NEW money \in Int, NEW sold \in BOOLEAN,
         Solvent(t, level, other, money, sold), NEW more \in Int,
         more = money - Price(t) * (Bought(level, need) - Bought(other, need))
  PROVE  Solvent(t + 1, less, twinned, more, FALSE)
<1>1. money >= 0 /\ ~InWindow(t)
  BY DEF Solvent, Cheap
<1>2. Load(t) \in Nat /\ Price(t) \in Nat /\ Through(t) \in Nat /\ Home.last \in Nat
  BY SlotBills
<1>3. Bought(level, need) \in Nat /\ Bought(other, need) \in Nat
  BY DEF Bought, AtLeast0
<1> DEFINE mine == Bought(level, need)
           his  == Bought(other, need)
<1>4. Price(t) * his \in Nat /\ Price(t) * mine \in Nat
      /\ Price(t) * (mine - his) = Price(t) * mine - Price(t) * his
  <2> HIDE DEF mine, his
  <2> QED
    BY <1>2, <1>3 DEF mine, his
<1>5. more >= money - Price(t) * mine
  <2>1. more = money - Price(t) * (mine - his)
    OBVIOUS
  <2> HIDE DEF mine, his
  <2> QED
    BY <1>4, <2>1
<1>6. CASE level = other
  <2>1. more = money
    <3>1. Price(t) * (mine - his) = 0
      BY <1>2, <1>3, <1>6
    <3> QED
      BY <3>1
  <2> QED
    BY <1>1, <1>6, <2>1 DEF Solvent
<1>7. CASE Selling(t, level, money, sold)
  <2>1. t <= Home.last /\ level >= Through(t)
    BY <1>7, <1>2 DEF Selling
  <2>2. Through(t) >= Load(t)
    BY <2>1, BillNext
  <2>3. mine = 0 /\ less >= level - Load(t)
    BY <1>2, <2>1, <2>2 DEF Bought, AtLeast0
  <2>4. Price(t) * mine = 0
    BY <1>2, <2>3
  <2>5. more >= money
    <3> HIDE DEF mine
    <3> QED
      BY <1>5, <2>4
  <2> QED
    BY <1>1, <1>7, <2>3, <2>5, EventUnsold
<1>8. CASE Owing(t, level, money)
  BY <1>5, <1>8, OwedBought
<1> QED
  BY <1>1, <1>6, <1>7, <1>8 DEF Solvent

LEMMA SolventFrozen ==
  ASSUME home' = home
  PROVE  \A t, l, o, m, s : Solvent(t, l, o, m, s)' <=> Solvent(t, l, o, m, s)
<1>1. Home' = Home
  BY DEF Home
<1>2. /\ \A i : Load(i)' = Load(i) /\ Sun(i)' = Sun(i) /\ (Cheap(i)' <=> Cheap(i))
      /\ \A i : DayStart(i)' = DayStart(i) /\ DayEnd(i)' = DayEnd(i)
      /\ \A i : InWindow(i)' <=> InWindow(i)
  BY <1>1 DEF Load, Sun, Cheap, DayEnd, DayStart, Tod, InWindow
<1>3. \A i : Price(i)' = Price(i) /\ Owes(i)' = Owes(i)
  BY <1>1, <1>2 DEF Price, CheapRate, Tod, Owes
<1>4. \A t, i : ExportOf(t, i)' = ExportOf(t, i)
  <2>1. \A t, i : SunOf(t, i)' = SunOf(t, i)
    BY <1>2 DEF SunOf
  <2>2. \A t, i : Surplus(t, i)' = Surplus(t, i)
    BY <1>2, <2>1 DEF Surplus
  <2> QED
    BY <2>2 DEF ExportOf
<1>5. \A t, i : Bill(t, i)' = Bill(t, i) /\ Through(t)' = Through(t)
  BY <1>1, <1>2, <1>3 DEF Bill, Through
<1>6. \A t, lo, hi : Sum([j \in Nat |-> ExportOf(t, j)], lo, hi)'
                       = Sum([j \in Nat |-> ExportOf(t, j)], lo, hi)
  BY <1>4
<1>7. \A t, l, m, a : Backed(t, l, m, a)' <=> Backed(t, l, m, a)
  BY <1>1, <1>2, <1>3, <1>5 DEF Backed
<1>8. \A t, l, m, s : Selling(t, l, m, s)' <=> Selling(t, l, m, s)
  BY <1>1, <1>2, <1>5, <1>6, <1>7 DEF Selling
<1>9. \A t, l, m : Owing(t, l, m)' <=> Owing(t, l, m)
  BY <1>1, <1>2, <1>7 DEF Owing
<1> QED
  BY <1>1, <1>2, <1>8, <1>9 DEF Solvent

\* A battery that serves the house keeps what the house does not take.
LEMMA ServedKeeps ==
  ASSUME NEW level \in 0 .. Capacity, NEW need \in Nat, NEW more \in Nat
  PROVE  Served(level, need, more) >= AtLeast0(level - need)
  BY SizesAre DEF Served, Lower, AtLeast0

\* Every slot that is lived.
LEMMA SolventStep ==
  ASSUME PlanTypeOK, Pays, NEW sun \in {0, Sun(halfHour)} \union P90(halfHour), Live(sun)
  PROVE  lean' \/ Solvent(halfHour + 1, battery', twin', gain', halfHour \in exports')
<1> DEFINE plan == Plan(halfHour, battery)
           need == AtLeast0(Load(halfHour) - sun)
           more == AtLeast0(sun - Load(halfHour))
           left == Cardinality({i \in halfHour .. WindowEnd(halfHour) - 1 : InWindow(i)})
           sold == halfHour - 1 \in exports
<1>1. /\ home \in HomeNumbers /\ halfHour \in Nat /\ battery \in 0 .. Capacity
      /\ twin \in 0 .. Capacity /\ gain \in Int /\ halfHour >= WindowSlots
      /\ battery \in Nat /\ twin \in Nat /\ DischargeUnits \in Nat
  BY SizesAre DEF PlanTypeOK
<1>2. /\ sun \in Nat /\ Load(halfHour) \in Nat /\ Price(halfHour) \in Nat /\ Home.rate \in Nat
  <2>1. /\ Load(halfHour) \in Nat /\ Sun(halfHour) \in Nat /\ P90(halfHour) \in SUBSET Nat
        /\ Price(halfHour) \in Nat
    BY <1>1, SlotNumbers
  <2>2. Home.rate \in Nat
    BY <1>1, HomeIs
  <2> QED
    BY <2>1, <2>2
<1>3. need \in Nat /\ more \in Nat /\ need <= Load(halfHour)
  BY <1>2 DEF AtLeast0
<1>4. PlanTypeOK' /\ battery' \in Nat /\ twin' \in Nat /\ gain' \in Int
  <2>1. PlanNext
    BY DEF PlanNext
  <2>2. PlanTypeOK'
    BY <2>1, PlanStep
  <2>3. battery' \in 0 .. Capacity /\ twin' \in 0 .. Capacity /\ gain' \in Int
    BY <2>2 DEF PlanTypeOK
  <2> QED
    BY <2>2, <2>3, SizesAre
<1>5. halfHour < 2 * DaySlots /\ exports' = plan.export /\ sold \in BOOLEAN
  BY DEF Live
<1>6. \/ /\ halfHour \in plan.export
         /\ battery' = AtLeast0(battery - DischargeUnits)
         /\ gain' = gain + Home.rate * AtLeast0(DischargeUnits - need)
                         + Price(halfHour) * Bought(twin, need)
         /\ lean' = (lean \/ (plan.lean /\ Begins(halfHour)))
      \/ /\ halfHour \notin plan.export
         /\ twin' = battery' /\ gain' = 0
      \/ /\ halfHour \notin plan.export /\ ~InWindow(halfHour)
         /\ battery' = Served(battery, 0, more) /\ twin' = Served(twin, 0, more)
         /\ gain' = gain /\ lean' = lean
      \/ /\ halfHour \notin plan.export /\ ~Cheap(halfHour)
         /\ battery' = Served(battery, need, more) /\ twin' = Served(twin, need, more)
         /\ gain' = gain - Price(halfHour) * (Bought(battery, need) - Bought(twin, need))
         /\ lean' = lean
  BY DEF Live
<1>7. lean \/ Solvent(halfHour, battery, twin, gain, sold)
  BY DEF Pays
<1>8. ASSUME halfHour \in plan.export PROVE AtLeast0(DischargeUnits - need) \in Nat
            /\ ExportOf(halfHour, halfHour) \in Nat
            /\ ExportOf(halfHour, halfHour) <= AtLeast0(DischargeUnits - need)
            /\ (plan.lean <=> Less(halfHour, battery))
  <2> DEFINE purse == Purse(halfHour, battery, Outflow(halfHour), ChargeLimit(halfHour))
             chosen == IF EventSlots(halfHour) = {} THEN {} ELSE Selected(halfHour, purse)
  <2>1. plan = Sized(halfHour, battery, purse, chosen)
    BY DEF Plan, Funded
  <2> HIDE DEF purse
  <2>2. plan.export = chosen /\ plan.lean = (chosen # {} /\ purse.lean)
    BY <2>1 DEF Sized
  <2>3. halfHour \in chosen /\ EventSlots(halfHour) # {}
    BY <1>8, <2>2
  <2>4. halfHour <= Home.last
    <3>1. halfHour \in EventSlots(halfHour)
      BY <2>3, SelectedIs
    <3> QED
      BY <1>1, <3>1, HomeIs DEF EventSlots
  <2>5. purse.lean <=> Less(halfHour, battery)
    BY <1>1, <1>5, <2>4, PurseOf DEF purse
  <2>6. ExportOf(halfHour, halfHour) = DischargeUnits - Load(halfHour)
    BY <1>1, <1>8, ExportInTurn
  <2>7. ExportOf(halfHour, halfHour) \in Nat
    BY <1>1, EventNumbers
  <2> HIDE DEF need, plan, chosen
  <2>8. AtLeast0(DischargeUnits - need) \in Nat
        /\ ExportOf(halfHour, halfHour) <= AtLeast0(DischargeUnits - need)
    BY <1>1, <1>2, <1>3, <2>6, <2>7 DEF AtLeast0
  <2> QED
    BY <2>2, <2>3, <2>5, <2>7, <2>8
<1>9. Bought(twin, need) \in Nat
  BY <1>1, <1>3, Positives DEF Bought
<1>10. /\ FALSE \in BOOLEAN /\ TRUE \in BOOLEAN
  OBVIOUS
<1>11. Served(battery, need, more) >= AtLeast0(battery - need)
       /\ Served(battery, 0, more) >= battery
  <2>1. 0 \in Nat /\ AtLeast0(battery - 0) = battery
    BY <1>1 DEF AtLeast0
  <2> HIDE DEF need, more
  <2> QED
    BY <1>1, <1>3, <2>1, ServedKeeps
<1> HIDE DEF plan, need, more, sold
<1>12. CASE /\ halfHour \in plan.export
            /\ battery' = AtLeast0(battery - DischargeUnits)
            /\ gain' = gain + Home.rate * AtLeast0(DischargeUnits - need)
                            + Price(halfHour) * Bought(twin, need)
            /\ lean' = (lean \/ (plan.lean /\ Begins(halfHour)))
  <2> SUFFICES ASSUME ~lean' PROVE Solvent(halfHour + 1, battery', twin', gain', halfHour \in exports')
    OBVIOUS
  <2>1. Solvent(halfHour, battery, twin, gain, sold) /\ ~(plan.lean /\ Begins(halfHour))
    BY <1>7, <1>12
  <2>2. ~sold \/ halfHour = DayStart(halfHour) => ~Less(halfHour, battery)
    BY <1>8, <1>12, <2>1 DEF Begins, sold
  <2> DEFINE full == AtLeast0(DischargeUnits - need)
             e    == ExportOf(halfHour, halfHour)
             p    == Price(halfHour) * Bought(twin, need)
  <2>3. full \in Nat /\ e \in Nat /\ e <= full
    BY <1>8, <1>12
  <2>4. p \in Nat
    BY <1>2, <1>9
  <2>5. gain' = gain + Home.rate * full + p
    BY <1>12
  <2> HIDE DEF full, e, p
  <2>6. Home.rate * e <= Home.rate * full /\ Home.rate * e \in Nat /\ Home.rate * full \in Nat
    BY <1>2, <2>3, ProductsGrow
  <2>7. gain' >= gain + Home.rate * e
    BY <1>1, <2>4, <2>5, <2>6
  <2>8. gain' >= gain + Home.rate * ExportOf(halfHour, halfHour)
    BY <2>7 DEF e
  <2>9. Solvent(halfHour + 1, AtLeast0(battery - DischargeUnits), twin', gain', TRUE)
    BY <1>1, <1>4, <1>5, <1>12, <2>1, <2>2, <2>8, ExportSlot DEF plan, sold
  <2>10. halfHour \in exports'
    BY <1>5, <1>12
  <2> QED
    BY <1>12, <2>9, <2>10 DEF Solvent, Selling
<1>13. CASE /\ halfHour \notin plan.export
            /\ twin' = battery' /\ gain' = 0
  BY <1>5, <1>13 DEF Solvent
<1>14. CASE /\ halfHour \notin plan.export /\ ~InWindow(halfHour)
            /\ battery' = Served(battery, 0, more) /\ twin' = Served(twin, 0, more)
            /\ gain' = gain /\ lean' = lean
  <2> SUFFICES ASSUME ~lean PROVE Solvent(halfHour + 1, battery', twin', gain', halfHour \in exports')
    BY <1>14
  <2>1. Solvent(halfHour, battery, twin, gain, sold)
    BY <1>7
  <2>2. battery' >= battery /\ (battery = twin => battery' = twin')
    BY <1>11, <1>14
  <2>3. /\ ~InWindow(halfHour) /\ battery' \in Nat /\ halfHour < 2 * DaySlots
        /\ sold \in BOOLEAN /\ home \in HomeNumbers /\ halfHour \in Nat /\ battery \in Nat
        /\ gain \in Int
    BY <1>1, <1>4, <1>5, <1>14
  <2>4. Solvent(halfHour + 1, battery', twin', gain, FALSE)
    BY ONLY <2>1, <2>2, <2>3, DispatchSlot
  <2> QED
    BY <1>5, <1>14, <2>4 DEF Solvent, Selling
<1>15. CASE /\ halfHour \notin plan.export /\ ~Cheap(halfHour)
            /\ battery' = Served(battery, need, more) /\ twin' = Served(twin, need, more)
            /\ gain' = gain - Price(halfHour) * (Bought(battery, need) - Bought(twin, need))
            /\ lean' = lean
  <2> SUFFICES ASSUME ~lean PROVE Solvent(halfHour + 1, battery', twin', gain', halfHour \in exports')
    BY <1>15
  <2>1. Solvent(halfHour, battery, twin, gain, sold)
    BY <1>7
  <2>2. battery' >= AtLeast0(battery - need) /\ (battery = twin => battery' = twin')
    BY <1>11, <1>15
  <2>3. Solvent(halfHour + 1, battery', twin', gain', FALSE)
    BY <1>1, <1>3, <1>4, <1>5, <1>15, <2>1, <2>2, HouseSlot DEF sold
  <2> QED
    BY <1>5, <1>15, <2>3 DEF Solvent, Selling
<1> QED
  BY <1>6, <1>12, <1>13, <1>14, <1>15

LEMMA PaysStart == PlanInit => Pays
<1> SUFFICES ASSUME PlanInit PROVE Pays
  OBVIOUS
<1>1. battery = twin /\ gain = 0 /\ exports = {} /\ 0 >= 0
  BY DEF PlanInit
<1>2. (halfHour - 1 \in exports) = FALSE
  BY <1>1
<1> QED
  BY <1>1, <1>2 DEF Pays, Solvent

LEMMA PaysStep == PlanTypeOK /\ Pays /\ [PlanNext]_planVars => Pays'
<1> SUFFICES ASSUME PlanTypeOK, Pays, [PlanNext]_planVars PROVE Pays'
  OBVIOUS
<1>1. home' = home
  <2>1. CASE PlanNext
    BY <2>1 DEF PlanNext, Live
  <2> QED
    BY <2>1 DEF planVars
<1>2. \A t, l, o, m, s : Solvent(t, l, o, m, s)' <=> Solvent(t, l, o, m, s)
  BY <1>1, SolventFrozen
<1>3. PICK t, l, o, m, s : /\ t = halfHour' /\ l = battery' /\ o = twin' /\ m = gain'
                           /\ s = (halfHour' - 1 \in exports')
  OBVIOUS
<1>4. lean' \/ Solvent(t, l, o, m, s)
  <2>1. CASE UNCHANGED planVars
    <3>1. lean \/ Solvent(halfHour, battery, twin, gain, halfHour - 1 \in exports)
      BY DEF Pays
    <3>2. /\ lean' = lean /\ t = halfHour /\ l = battery /\ o = twin /\ m = gain
          /\ s = (halfHour - 1 \in exports)
      BY <1>3, <2>1 DEF planVars
    <3> QED
      BY <3>1, <3>2
  <2>2. CASE PlanNext
    <3>1. PICK sun \in {0, Sun(halfHour)} \union P90(halfHour) : Live(sun)
      BY <2>2 DEF PlanNext
    <3>2. lean' \/ Solvent(halfHour + 1, battery', twin', gain', halfHour \in exports')
      BY <3>1, SolventStep
    <3>3. halfHour' = halfHour + 1 /\ halfHour \in Int
      BY <3>1, SizesAre DEF Live, PlanTypeOK
    <3>4. halfHour' - 1 = halfHour
      BY <3>3
    <3>5. s = (halfHour \in exports') /\ t = halfHour + 1
      BY <1>3, <3>3, <3>4
    <3> QED
      BY <1>3, <3>2, <3>5
  <2> QED
    BY <2>1, <2>2
<1>5. lean' \/ Solvent(t, l, o, m, s)'
  BY <1>2, <1>4
<1> QED
  BY <1>3, <1>5 DEF Pays

\* A paid event that _event_export_plan takes on with the whole reserve (_select_export_suffix,
\* shortfall_price) has earned by the next window no less than what the house buys because of
\* it, for every household, tariff and price, and however the sun fails the forecast.
THEOREM ExportPaysAlways == PlanSpec => []ExportPays
<1>1. PlanInit => Pays
  BY PaysStart
<1>2. PlanTypeOK /\ Pays /\ [PlanNext]_planVars => Pays'
  BY PaysStep
<1>3. Pays => ExportPays
  BY DEF Pays, Solvent, ExportPays
<1> QED
  BY <1>1, <1>2, <1>3, PlanTypeCorrect, PTL DEF PlanSpec

-----------------------------------------------------------------------------
(* The services side by side *)

LEMMA EachPartSteps ==
  [Next]_addonVars => /\ [LegacyNext]_legacyVars /\ [ProgNext]_programVars
                      /\ [PlanNext]_planVars /\ [StoreNext]_storeVars
<1>1. CASE Holds(LegacyNext)
  BY <1>1 DEF Holds, Serves
<1>2. CASE Serves("program", ProgNext, <<legacyVars, planVars, storeVars>>)
  BY <1>2 DEF Serves
<1>3. CASE Serves("planner", PlanNext, <<legacyVars, programVars, storeVars>>)
  BY <1>3 DEF Serves
<1>4. CASE Serves("settings", StoreNext, <<legacyVars, programVars, planVars>>)
  BY <1>4 DEF Serves
<1>5. CASE UNCHANGED addonVars
  BY <1>5 DEF addonVars
<1> QED
  BY <1>1, <1>2, <1>3, <1>4, <1>5 DEF Next

\* What TLC explores side by side is, service by service, the service's own specification: each
\* theorem above is one about the run.
THEOREM EachServiceItself == FairSpec => LegacySpec /\ ProgSpec /\ PlanSpec /\ StoreSpec
<1>1. Init => LegacyInit /\ ProgInit /\ PlanInit /\ StoreInit
  BY DEF Init
<1> QED
  BY <1>1, EachPartSteps, PTL DEF FairSpec, LegacySpec, ProgSpec, PlanSpec, StoreSpec

\* The services keep their types side by side.
THEOREM ServicesTyped == FairSpec => []TypesOK
<1>1. LegacyTypeOK /\ ProgTypeOK /\ PlanTypeOK /\ StoreTypeOK => TypesOK
  BY DEF TypesOK
<1> QED
  BY <1>1, EachServiceItself, HoldTypeCorrect, ProgTypeCorrect, PlanTypeCorrect,
     StoreTypeCorrect, PTL
=================================================================================
