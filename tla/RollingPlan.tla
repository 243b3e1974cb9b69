------------------------------- MODULE RollingPlan -------------------------------
(***************************************************************************)
(* The charge planner as the household lives it: at every half hour the    *)
(* plan is computed afresh from the battery of that moment (compute_plan), *)
(* the first slot of it happens, and the next plan knows nothing of the    *)
(* last one.  A paid event is exported by the suffix of its slots that the *)
(* battery can fund beside the house; the night's charge is sized for what *)
(* comes after it.                                                         *)
(*                                                                         *)
(* Energy is whole units above min_soc and a plan is made at a slot's      *)
(* start, so no slot is part-elapsed; the forecast repeats daily, with the *)
(* solar haircut taken; one bank, no major loads, no V2L; efficiency 1.    *)
(* The sun may fail the forecast, the house never exceeds its load.        *)
(***************************************************************************)
EXTENDS Integers, FiniteSetsExt

CONSTANTS
    DaySlots,       \* slots of a day; the charge window opens at midnight
    WindowSlots,    \* length of the charge window
    Capacity,       \* battery_capacity_kwh between min_soc and target_cap
    DischargeUnits, \* what the bank can discharge in a slot
    SiteExport,     \* site_export_kw, the DNO's and the supply's ceiling
    ChargeUnits,    \* what the bank can charge in a slot
    SupplyUnits,    \* what the supply carries in a slot
    BufferPct,      \* buffer_pct
    HomeNumbers,    \* names of the households
    Homes           \* what each is: load, solar, its P90 if known and price by time of
                    \* day, dispatched slots, the event's slots and rate, the first battery

ASSUME PlanAssumption ==
    /\ DaySlots \in Nat \ {0} /\ WindowSlots \in 1 .. DaySlots - 1
    /\ {Capacity, DischargeUnits, SiteExport, ChargeUnits, SupplyUnits, BufferPct} \subseteq Nat
    /\ DOMAIN Homes = HomeNumbers
    /\ \A i \in HomeNumbers : LET h == Homes[i] IN
        /\ {h.load, h.solar, h.price} \subseteq [0 .. DaySlots - 1 -> Nat]
        /\ h.first \in Nat /\ h.last \in h.first .. 2 * DaySlots - 1 /\ h.rate \in Nat
        /\ h.dispatch \subseteq Nat /\ h.battery \in 0 .. Capacity
        /\ h.p90 \in [0 .. DaySlots - 1 -> SUBSET Nat]
        \* a reading whose P50 exceeds its P90 is refused (solar_source.py:118)
        /\ \A t \in 0 .. DaySlots - 1 : \A v \in h.p90[t] : h.p90[t] = {v} /\ h.solar[t] <= v

VARIABLES
    home,       \* the household's number
    halfHour,   \* the slot that is about to begin
    battery,    \* its energy above min_soc
    exports,    \* slots that the last plan exports
    twin,       \* history: the battery without the exports since the last window
    gain,       \* history: what they were paid, less what the house bought because of them
    lean,       \* history: when its export began, or at midnight, the battery held less than the
                \* whole reserve, or a dispatch ended the reserve before the window
    metered     \* history: what the last slot put on the line while exporting

planVars == <<home, halfHour, battery, exports, twin, gain, lean, metered>>

Home == Homes[home]
CheapRate == 1
AtLeast0(x) == IF x > 0 THEN x ELSE 0
Lower(x, y) == IF x < y THEN x ELSE y
Sum(f, lo, hi) == LET upTo[i \in lo - 1 .. hi] == IF i < lo THEN 0 ELSE f[i] + upTo[i - 1]
                  IN  IF hi < lo THEN 0 ELSE upTo[hi]

-----------------------------------------------------------------------------
(* Geometry and tariff: compute_horizon_geometry, _cheap_fractions *)

Tod(i)        == i % DaySlots
DayStart(i)   == i - Tod(i)
InWindow(i)   == Tod(i) < WindowSlots
\* The running or next window, and the slots up to the one that follows it.
WindowOf(now) == IF InWindow(now) THEN DayStart(now) ELSE DayStart(now) + DaySlots
WindowEnd(now)  == WindowOf(now) + WindowSlots
HorizonEnd(now) == WindowOf(now) + DaySlots
Load(i)  == Home.load[Tod(i)]
Sun(i)   == Home.solar[Tod(i)]
P90(i)   == Home.p90[Tod(i)]
Cheap(i) == InWindow(i) \/ i \in Home.dispatch
Price(i) == IF Cheap(i) THEN CheapRate ELSE Home.price[Tod(i)]
Net(i)   == AtLeast0(Load(i) - Sun(i))
Uncovered(i) == IF Cheap(i) THEN 0 ELSE Net(i)
FirstCheap(from, end) == LET cheap == {i \in from .. end - 1 : Cheap(i)}
                         IN  IF cheap = {} THEN end ELSE Min(cheap)
Buffered(x)  == x + (x * BufferPct) \div 100

-----------------------------------------------------------------------------
(* The paid event: _event_export_plan and _select_export_suffix *)

\* Today's solar funds nothing, and before the window nothing cheap does.
EventNet(now, i) ==
    IF Home.last < WindowOf(now) \/ DayStart(i) = DayStart(now) THEN Load(i) ELSE Net(i)
Owed(now, i) == IF Home.last >= WindowOf(now) /\ Cheap(i) THEN 0 ELSE EventNet(now, i)

\* The fixed command against the DNO limit: of today an unknown sun is refused, a P90 is added.
SunOf(now, i)  == IF DayStart(i) = DayStart(now) THEN 0 ELSE Sun(i)
Surplus(now, i) == AtLeast0(DischargeUnits + SunOf(now, i) - Load(i))
ExportOf(now, i) == Lower(SiteExport, Surplus(now, i))
Declines(now, i) ==
    \/ /\ DayStart(i) = DayStart(now)
       /\ IF P90(i) = {} THEN Sun(i) > 0 ELSE DischargeUnits + Max(P90(i)) > SiteExport
    \/ i \in Home.dispatch /\ ~InWindow(i)
    \/ Surplus(now, i) > SiteExport \/ ExportOf(now, i) = 0

EventSlots(now) == {i \in now .. HorizonEnd(now) - 1 : i \in Home.first .. Home.last}
\* A mutant for TLC: tonight's charge funds tonight's event.
ChargedAhead(now) == FALSE
\* A charge that has not happened funds no event before its window's end.
FromBattery(now) == \E i \in EventSlots(now) : InWindow(i) \/ Min(EventSlots(now)) < WindowEnd(now)

Worst(now, post, shortfall) ==
    LET After(i) == Sum([j \in Nat |-> Owed(now, j)], i + 1, Max(post))
        bought   == {i \in post : Owed(now, i) > 0 /\ After(i) < shortfall}
    IN  IF bought = {} THEN 0 ELSE Max({Price(i) : i \in bought})

\* What the event may draw on and what it has to leave: the house through the event, and
\* the stretch after it, which only a dearer event may spend.
Purse(now, soc, outflow, limit) ==
    LET event  == EventSlots(now)
        before == IF FromBattery(now) THEN now ELSE WindowEnd(now)
        target == IF Home.last < WindowOf(now) THEN WindowOf(now)
                  ELSE FirstCheap(Max(event) + 1, HorizonEnd(now))
        usable == IF FromBattery(now) THEN soc
                  ELSE Lower(Capacity, AtLeast0(soc - outflow) + limit)
        needed == Buffered(Sum([i \in Nat |-> Owed(now, i)], Max(event) + 1, target - 1))
        kept   == IF Home.last < WindowOf(now) THEN needed ELSE Lower(needed, usable)
        house  == Sum([i \in Nat |-> Owed(now, i)], before, Min(event) - 1)
                  + Sum([i \in Nat |-> EventNet(now, i)], Min(event), Max(event))
    IN  [free |-> AtLeast0(usable - kept - house), house |-> house, kept |-> kept,
         reserve |-> Lower(kept, AtLeast0(usable - house)),
         post |-> Max(event) + 1 .. target - 1, target |-> target,
         \* history: less than the reserve, or the house draws again before the window
         lean |-> \/ AtLeast0(usable - house) < needed
                  \/ \E i \in target .. WindowOf(target) - 1 : ~Cheap(i)]

\* A mutant for TLC: the reserve pays whatever it is bought back at.
AnySpend(now, purse, shortfall) == shortfall <= purse.reserve
Funds(now, purse, shortfall) ==
    shortfall <= purse.reserve /\ Home.rate > Worst(now, purse.post, shortfall)

\* Backwards from the event's end, until a slot is refused or cannot be funded.
Selected(now, purse) ==
    LET event == EventSlots(now)
        Drawn(i)  == Sum([j \in Nat |-> ExportOf(now, j)], i, Max(event))
        Taken(i)  == /\ ~Declines(now, i)
                     /\ Drawn(i) <= purse.free \/ Funds(now, purse, Drawn(i) - purse.free)
    IN  {i \in event : \A j \in i .. Max(event) : Taken(j)}

-----------------------------------------------------------------------------
(* The night's charge: compute_plan and _slot_reservation *)

Remaining(now) == {i \in now .. HorizonEnd(now) - 1 : InWindow(i)}
ChargeOf(i) == AtLeast0(Lower(ChargeUnits, SupplyUnits - Load(i)))
ChargeLimit(now) ==
    Sum([i \in Nat |-> IF InWindow(i) THEN ChargeOf(i) ELSE 0], now, HorizonEnd(now) - 1)
Outflow(now) == Sum([i \in Nat |-> Uncovered(i)], now, WindowOf(now) - 1)
Carried(now) == IF now < WindowOf(now) THEN WindowOf(now) ELSE now

\* What has to be carried to the first cheap slot after the expensive run.
SlotReservation(now) ==
    LET dear   == {i \in Carried(now) .. HorizonEnd(now) - 1 : ~Cheap(i)}
        target == IF dear = {} THEN HorizonEnd(now) ELSE FirstCheap(Min(dear) + 1, HorizonEnd(now))
    IN  Lower(Buffered(Sum([i \in Nat |-> Uncovered(i)], Carried(now), target - 1)), Capacity)

\* The plan: the slots exported, and what the rest of the window has to add for them.
Sized(now, soc, purse, chosen) ==
    LET Sold(end) == Sum([i \in Nat |-> IF i \in chosen THEN ExportOf(now, i) ELSE 0], now, end)
        sold    == Sold(HorizonEnd(now) - 1)
        early   == Sold(WindowOf(now) - 1)
        spent   == AtLeast0(sold - purse.free)
        deficit == Buffered(Sum([i \in Nat |-> Uncovered(i)], Carried(now), HorizonEnd(now) - 1))
        eventNeed == (IF Max(chosen) >= Carried(now) THEN purse.house + sold ELSE 0)
                     + (IF purse.target > Carried(now) THEN purse.kept - spent ELSE 0)
        reserved == IF chosen = {} THEN SlotReservation(now)
                    ELSE IF Max(chosen) < Carried(now) /\ purse.target <= Carried(now)
                    THEN SlotReservation(now) ELSE eventNeed
        atWindow == AtLeast0(soc - Outflow(now) - early)
        room     == AtLeast0(Capacity - atWindow)
        owed     == AtLeast0(Max({reserved, deficit}) - atWindow)
    IN  [export   |-> chosen, lean |-> chosen # {} /\ purse.lean,
         required |-> IF \E i \in chosen : InWindow(i) THEN 0
                      ELSE Lower(owed, Lower(room, ChargeLimit(now)))]
Funded(now, soc, purse) ==
    Sized(now, soc, purse, IF EventSlots(now) = {} THEN {} ELSE Selected(now, purse))
Plan(now, soc) == Funded(now, soc, Purse(now, soc, Outflow(now), ChargeLimit(now)))

-----------------------------------------------------------------------------
(* A slot happens *)

PlanTypeOK ==
    /\ home \in HomeNumbers /\ halfHour \in WindowSlots .. 2 * DaySlots
    /\ {battery, twin} \subseteq 0 .. Capacity /\ exports \subseteq 0 .. 2 * DaySlots
    /\ gain \in Int /\ lean \in BOOLEAN /\ metered \in Int

PlanInit ==
    /\ home \in HomeNumbers /\ halfHour = WindowSlots /\ battery = Home.battery
    /\ exports = {} /\ twin = Home.battery /\ gain = 0 /\ lean = FALSE /\ metered = 0

Ceil(x, n) == (x + n - 1) \div n
\* A battery that serves the house and takes what the sun leaves, and what the house buys.
Served(level, need, more) == Lower(Capacity, AtLeast0(level - need) + more)
Bought(level, need)       == AtLeast0(need - level)

\* A new export, or the first of its slots that belongs to the new day.
Begins(i) == i - 1 \notin exports \/ i = DayStart(i)

\* The fixed command discharges through an exported slot; the window charges evenly to what
\* the plan requires; a dispatch holds the battery; in any other slot it serves the house.
Live(sun) ==
    /\ halfHour < 2 * DaySlots
    /\ \E plan \in {Plan(halfHour, battery)} :
       LET need == AtLeast0(Load(halfHour) - sun)
           more == AtLeast0(sun - Load(halfHour))
           left == Cardinality({i \in halfHour .. WindowEnd(halfHour) - 1 : InWindow(i)})
       IN  /\ exports' = plan.export
           /\ \/ /\ halfHour \in plan.export
                 /\ battery' = AtLeast0(battery - DischargeUnits)
                 /\ twin' = Served(twin, need, more)
                 /\ metered' = DischargeUnits + sun - Load(halfHour)
                 /\ gain' = gain + Home.rate * AtLeast0(DischargeUnits - need)
                            + Price(halfHour) * Bought(twin, need)
                 /\ lean' = (lean \/ (plan.lean /\ Begins(halfHour)))
              \/ /\ halfHour \notin plan.export /\ InWindow(halfHour)
                 /\ battery' = Served(battery, 0,
                        more + Lower(ChargeOf(halfHour), Ceil(plan.required, left)))
                 /\ twin' = battery' /\ metered' = 0 /\ gain' = 0 /\ lean' = FALSE
              \/ /\ halfHour \notin plan.export /\ ~InWindow(halfHour) /\ Cheap(halfHour)
                 /\ battery' = Served(battery, 0, more) /\ twin' = Served(twin, 0, more)
                 /\ metered' = 0 /\ UNCHANGED <<gain, lean>>
              \/ /\ halfHour \notin plan.export /\ ~Cheap(halfHour)
                 /\ battery' = Served(battery, need, more) /\ twin' = Served(twin, need, more)
                 /\ metered' = 0
                 /\ gain' = gain - Price(halfHour) * (Bought(battery, need) - Bought(twin, need))
                 /\ UNCHANGED lean
    /\ halfHour' = halfHour + 1 /\ UNCHANGED home

PlanNext == \E sun \in {0, Sun(halfHour)} \union P90(halfHour) : Live(sun)
PlanSpec == PlanInit /\ [][PlanNext]_planVars

-----------------------------------------------------------------------------
(* Properties *)

\* When an exported slot's turn comes, whatever the sun did since it was promised, the battery
\* carries the house and the whole export, so nothing is bought to be sold; and up to the P90 of
\* the sun the fixed command puts no more on the line than the DNO allows.
ExportCarried == halfHour \in exports' => battery >= DischargeUnits /\ metered' <= SiteExport

\* A slot promised by the last plan of the window or a later one is never dropped by the next,
\* although that knows neither the promise nor what of its reserve is already spent, where a
\* night refills the bank (tomorrow's event is promised before its charge) and no dispatch is
\* foreseen.
PromiseHeld ==
    (/\ Home.dispatch = {} /\ Capacity <= ChargeLimit(halfHour)
     /\ halfHour > WindowSlots /\ ~InWindow(halfHour))
      => exports \ 0 .. halfHour - 1 \subseteq exports'

\* What is promised is delivered: a promise lasts until its turn, and is carried then.
PromiseKept == [][ExportCarried /\ PromiseHeld]_planVars

\* What the event paid is more than what the house buys back for it by the next window, however
\* the sun fails, when the battery held all of the reserve that the shortfall is priced in and no
\* dispatch ends the reserve early.
ExportPays == InWindow(halfHour) => lean \/ gain >= 0
=============================================================================
