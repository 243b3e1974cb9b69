------------------------------ MODULE ReadinessBook ------------------------------
(***************************************************************************)
(* The add-on's readiness evidence.  Each half-hour's first tick captures  *)
(* the plan in force, ticks inside the charge window sample the guard, and *)
(* a background task joins each closed day with Home Assistant's           *)
(* statistics, once, and evaluates the latest qualifying days.  Statistics *)
(* arrive late or never, reads fail, ticks are missed, the daemon stops.   *)
(*                                                                         *)
(* Abstracted: a day has DaySlots slots of which the first is cheap, in    *)
(* the charge window; a slot's components are one statistic; cost and      *)
(* forecast error always clear the bar.                                    *)
(***************************************************************************)
EXTENDS Integers, FiniteSets

CONSTANTS
    BookDays,       \* closed days in a behaviour
    SlotsADay,
    SettleSlots,    \* SETTLE_DELAY
    RetrySlots,     \* RETRY_DELAY
    HorizonSlots,   \* EVIDENCE_HORIZON
    KeptSlots,      \* STATS_RETENTION
    WindowDays,     \* readiness_window_days
    BookTroubles,   \* bad reads, gaps, breaches, failed joins and saves, restarts
    ModeSwitches

ASSUME BookAssumption ==
    /\ {BookDays, SlotsADay, SettleSlots, RetrySlots, WindowDays} \subseteq Nat \ {0}
    /\ HorizonSlots \in Nat /\ KeptSlots \in Nat /\ KeptSlots >= SlotsADay + HorizonSlots
    /\ BookTroubles \in Nat /\ ModeSwitches \in Nat

VARIABLES
    wall,           \* slot, and whether BOUNDARY_TOLERANCE has passed in it
    observing,      \* committed_mode is observe
    planned,        \* last_revision
    ticked,         \* last_readiness_slot
    tries,          \* _next_attempt
    evaluated,      \* readiness_evaluated
    task,           \* readiness_task: its tick and the day it has come to
    slotRows,       \* readiness_slots
    guardRows,      \* readiness_guard: what was sampled in a slot
    dayRows,        \* readiness_days: none, or the reasons for exclusion
    statistics,     \* Home Assistant's, per slot
    forecastDays,   \* days with a driving forecast issued before they began
    notified,       \* the authority's readiness_notice
    rearmed,        \* history: no notice since the last failing evaluation
    bookLeft        \* troubles and mode switches

bookVars == <<wall, observing, planned, ticked, tries, evaluated, task, slotRows, guardRows,
              dayRows, statistics, forecastDays, notified, rearmed, bookLeft>>

Days      == 0 .. BookDays - 1
LastSlot  == (BookDays - 1) * SlotsADay + KeptSlots + 1
Slots     == 0 .. LastSlot
MeasuredSlots  == 0 .. BookDays * SlotsADay - 1   \* the recorded days' slots
Start(d)  == d * SlotsADay
End(d)    == Start(d) + SlotsADay
SlotsOf(d) == Start(d) .. End(d) - 1
DayOf(t)  == t \div SlotsADay
Cheap(t)  == t % SlotsADay = 0
Missing   == {}                     \* a row that is not there
SlotRow   == [observe : BOOLEAN, energy : BOOLEAN, hold : BOOLEAN]
Gaps      == {"missed", "gap", "slot", "start", "end", "cheap"}
NoTask    == [on |-> FALSE, now |-> 0, day |-> 0]

BookTypeOK ==
    /\ wall \in [slot : Slots, late : BOOLEAN] /\ observing \in BOOLEAN /\ planned \in BOOLEAN
    /\ ticked \in Slots \union {-1} /\ tries \in [Days -> 0 .. LastSlot + RetrySlots]
    /\ evaluated \in Int /\ task \in [on : BOOLEAN, now : Slots, day : 0 .. BookDays]
    /\ slotRows \in [Slots -> {Missing} \union {{r} : r \in SlotRow}]
    /\ guardRows \in [MeasuredSlots -> SUBSET {"valid", "invalid", "breach"}]
    /\ dayRows \in [Days -> {Missing} \union {{g} : g \in SUBSET Gaps}]
    /\ statistics \in [MeasuredSlots -> {"open", "coming", "measured", "none"}]
    /\ forecastDays \subseteq Days /\ notified \in BOOLEAN /\ rearmed \in BOOLEAN
    /\ bookLeft \in [troubles : 0 .. BookTroubles, switches : 0 .. ModeSwitches]

BookInit ==
    /\ wall = [slot |-> 0, late |-> FALSE] /\ observing = TRUE /\ planned = FALSE
    /\ ticked = -1 /\ tries = [d \in Days |-> 0] /\ evaluated = -1 /\ task = NoTask
    /\ slotRows = [t \in Slots |-> Missing] /\ guardRows = [t \in MeasuredSlots |-> {}]
    /\ dayRows = [d \in Days |-> Missing] /\ statistics = [t \in MeasuredSlots |-> "open"]
    /\ forecastDays = {} /\ notified = FALSE /\ rearmed = TRUE
    /\ bookLeft = [troubles |-> BookTroubles, switches |-> ModeSwitches]

Trouble  == bookLeft.troubles > 0 /\ bookLeft' = [bookLeft EXCEPT !.troubles = @ - 1]
Memory   == <<planned, ticked, tries, evaluated, task>>
Stored   == <<slotRows, guardRows, dayRows, notified, rearmed>>
World    == <<wall, observing, statistics>>

-----------------------------------------------------------------------------
(* The world *)

\* The boundary passes, with or without a tick; a slot ends: the recorder compiles its
\* statistics soon, or lost them.
SlotPasses ==
    /\ IF ~wall.late
       THEN /\ wall' = [wall EXCEPT !.late = TRUE] /\ UNCHANGED statistics
            /\ IF ticked = wall.slot THEN UNCHANGED bookLeft ELSE Trouble
       ELSE /\ wall.slot < LastSlot /\ \A t \in MeasuredSlots : t < wall.slot => statistics[t] # "coming"
            /\ wall' = [slot |-> wall.slot + 1, late |-> FALSE]
            /\ IF wall.slot \notin MeasuredSlots THEN UNCHANGED <<statistics, bookLeft>>
               ELSE \/ statistics' = [statistics EXCEPT ![wall.slot] = "coming"] /\ UNCHANGED bookLeft
                    \/ statistics' = [statistics EXCEPT ![wall.slot] = "none"] /\ Trouble
    /\ UNCHANGED <<observing, Memory, Stored, forecastDays>>

Compiles ==
    /\ \E t \in MeasuredSlots : statistics[t] = "coming"
    /\ statistics' = [t \in MeasuredSlots |-> IF statistics[t] = "coming" THEN "measured" ELSE statistics[t]]
    /\ UNCHANGED <<wall, observing, Memory, Stored, forecastDays, bookLeft>>

OwnerSwitches ==
    /\ bookLeft.switches > 0 /\ bookLeft' = [bookLeft EXCEPT !.switches = @ - 1]
    /\ observing' = ~observing
    /\ UNCHANGED <<wall, statistics, Memory, Stored, forecastDays>>

\* A plan run leaves its revision and tomorrow's forecast.
PlanRun ==
    /\ planned' = TRUE
    /\ forecastDays' = forecastDays \union ({DayOf(wall.slot) + 1} \intersect Days)
    /\ UNCHANGED <<World, ticked, tries, evaluated, task, Stored, bookLeft>>

DaemonRestart ==
    /\ Trouble /\ planned' = FALSE /\ ticked' = -1 /\ tries' = [d \in Days |-> 0]
    /\ evaluated' = -1 /\ task' = NoTask
    /\ UNCHANGED <<World, Stored, forecastDays>>

-----------------------------------------------------------------------------
(* A tick *)

\* The first tick of a slot, while it is within the tolerance; a row is never replaced.
Captures == ticked # wall.slot /\ planned /\ ~wall.late /\ slotRows[wall.slot] = Missing
Captured(row) == [slotRows EXCEPT ![wall.slot] = {row}]
CapturedRow == [observe |-> observing, energy |-> TRUE, hold |-> TRUE]

RecordSlot ==
    IF ~Captures THEN UNCHANGED <<slotRows, bookLeft>>
    ELSE \/ slotRows' = Captured(CapturedRow) /\ UNCHANGED bookLeft
         \/ \E row \in {[CapturedRow EXCEPT !.energy = FALSE], [CapturedRow EXCEPT !.hold = FALSE]} :
               slotRows' = Captured(row) /\ Trouble
         \/ UNCHANGED slotRows /\ Trouble

Guarded == observing /\ Cheap(wall.slot) /\ wall.slot \in MeasuredSlots
RecordGuard(sample) ==
    guardRows' = IF ~Guarded THEN guardRows
                 ELSE [guardRows EXCEPT ![wall.slot] = @ \union IF planned THEN sample ELSE {"invalid"}]

BookTick ==
    /\ ticked' = wall.slot
    /\ \/ RecordSlot /\ RecordGuard({"valid"})
       \/ ~Captures /\ UNCHANGED slotRows /\ Trouble /\ RecordGuard({"valid", "breach"})
    /\ task' = IF task.on THEN task ELSE [on |-> TRUE, now |-> wall.slot, day |-> 0]
    /\ UNCHANGED <<World, planned, tries, evaluated, dayRows, notified, rearmed, forecastDays>>

-----------------------------------------------------------------------------
(* The background task *)

Recorded == {t \in Slots : slotRows[t] # Missing}
FirstSlot == CHOOSE t \in Recorded : \A u \in Recorded : t <= u
Row(t) == CHOOSE r \in slotRows[t] : TRUE

\* Mutant for TLC: a day is joined as soon as it has closed.
SettledAtOnce(d) == task.now >= End(d)
Settled(d)  == task.now >= End(d) + SettleSlots
Expired(d) == task.now - Start(d) > KeptSlots

\* Later captures supply the end energy and the next cheap rate.
NoEnd(d)   == slotRows[End(d)] = Missing \/ ~Row(End(d)).energy
NoCheap(d) == \A t \in End(d) .. End(d) + HorizonSlots - 1 \intersect Slots :
                 ~Cheap(t) \/ slotRows[t] = Missing
Pending(d) == task.now < End(d) + HorizonSlots /\ (NoEnd(d) \/ NoCheap(d))
ReasonsOf(d) ==
    (IF Expired(d) THEN {"missed", "gap"} ELSE {})
    \union (IF \E t \in SlotsOf(d) : statistics[t] # "measured" THEN {"gap"} ELSE {})
    \union (IF \A t \in SlotsOf(d) : slotRows[t] # Missing /\ Row(t).observe /\ Row(t).hold
            THEN {} ELSE {"slot"})
    \union (IF slotRows[Start(d)] # Missing /\ Row(Start(d)).energy THEN {} ELSE {"start"})
    \union (IF NoEnd(d) THEN {"end"} ELSE {}) \union (IF NoCheap(d) THEN {"cheap"} ELSE {})

Retried(d) == [tries EXCEPT ![d] = task.now + RetrySlots]
SnapshotDay(d) ==
    IF Pending(d) THEN tries' = Retried(d) /\ UNCHANGED dayRows
    ELSE dayRows' = [dayRows EXCEPT ![d] = {ReasonsOf(d)}] /\ tries' = [tries EXCEPT ![d] = 0]

Due(d) == Recorded # {} /\ DayOf(FirstSlot) <= d /\ dayRows[d] = Missing /\ tries[d] <= task.now /\ Settled(d)

JoinDay ==
    LET d == task.day
    IN  /\ task.on /\ d \in Days /\ d < DayOf(task.now)
        /\ task' = [task EXCEPT !.day = @ + 1]
        /\ IF ~Due(d) THEN UNCHANGED <<tries, dayRows, bookLeft>>
           ELSE \/ SnapshotDay(d) /\ UNCHANGED bookLeft
                \/ ~Expired(d) /\ tries' = Retried(d) /\ UNCHANGED dayRows /\ Trouble
        /\ UNCHANGED <<World, planned, ticked, evaluated, slotRows, guardRows, notified,
                       rearmed, forecastDays>>

Candidates == {d \in Days : dayRows[d] = {{}} /\ d \in forecastDays}
Chosen == {d \in Candidates : Cardinality({e \in Candidates : e > d}) < WindowDays}
Windows == {t \in UNION {SlotsOf(d) : d \in Chosen} : Cheap(t)}
Sampled == {t \in Windows : "valid" \in guardRows[t]}
Verdict ==
    IF \/ \E t \in UNION {SlotsOf(d) : d \in Chosen} : "breach" \in guardRows[t]
       \/ Sampled # {} /\ Sampled # Windows
    THEN "fail"
    ELSE IF Cardinality(Chosen) < WindowDays \/ Sampled = {} THEN "insufficient" ELSE "pass"

\* The flag is saved before the notice goes out; a failed save sends nothing.
NotifyReadiness ==
    CASE Verdict = "fail" ->
            \/ notified' = FALSE /\ rearmed' = TRUE /\ UNCHANGED bookLeft
            \/ UNCHANGED notified /\ rearmed' = TRUE /\ Trouble
      [] Verdict = "pass" /\ ~notified ->
            \/ notified' = TRUE /\ rearmed' = FALSE /\ UNCHANGED bookLeft
            \/ UNCHANGED <<notified, rearmed>> /\ Trouble
      [] OTHER -> UNCHANGED <<notified, rearmed, bookLeft>>

Evaluate ==
    LET closed == DayOf(task.now) - 1
    IN  /\ task.on /\ ~(task.day \in Days /\ task.day < DayOf(task.now))
        /\ task' = NoTask
        /\ IF evaluated # closed /\ closed \in Days /\ dayRows[closed] # Missing
           THEN evaluated' = closed /\ NotifyReadiness
           ELSE UNCHANGED <<evaluated, notified, rearmed, bookLeft>>
        /\ UNCHANGED <<World, planned, ticked, tries, slotRows, guardRows, dayRows, forecastDays>>

BookNext ==
    \/ SlotPasses \/ Compiles \/ OwnerSwitches \/ PlanRun \/ DaemonRestart
    \/ BookTick \/ JoinDay \/ Evaluate

BookSpec == BookInit /\ [][BookNext]_bookVars

-----------------------------------------------------------------------------
(* Properties *)

\* What a new day row says of day d.
Honest(d, reasons) ==
    /\ reasons = {} => \A t \in SlotsOf(d) : Row(t).observe /\ statistics[t] = "measured"
    /\ "gap" \in reasons /\ "missed" \notin reasons => \E t \in SlotsOf(d) : statistics[t] = "none"
    /\ "end" \in reasons => wall.slot > End(d) \/ slotRows[End(d)] # Missing

\* Evidence is never rewritten.  A day qualifies only when every slot was captured in Observe and
\* measured; it is excluded for a gap only when the recorder lost the slot or no longer has it,
\* and for its end energy only when that cannot be captured any more, though joins fail, are
\* retried and run behind the ticks.  One notice is sent until an evaluation fails again.
EvidenceHonest ==
    [][/\ \A t \in Recorded : slotRows'[t] = slotRows[t]
       /\ \A d \in Days : dayRows[d] # Missing => dayRows'[d] = dayRows[d]
       /\ \A d \in Days : dayRows[d] = Missing => \A r \in dayRows'[d] : Honest(d, r)
       /\ notified' /\ ~notified => rearmed]_bookVars
=================================================================================
