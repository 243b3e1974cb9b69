------------------------------- MODULE SupplyGuard -------------------------------
(***************************************************************************)
(* The supply guard of one grid connection and the charge currents of its  *)
(* inverters.  Guard cuts and plan applies share one lock and one clamp:   *)
(* requests share the allowance in proportion, reductions are written      *)
(* before increases, and a cut is a saved ceiling that only held headroom  *)
(* lifts again.  Power, current and losses are one unit; a report is true  *)
(* when it arrives, and how long something lasted is a choice.             *)
(*                                                                         *)
(* Abstracted: all inverters share one bank; manual sessions, where polls  *)
(* of the owner's edits become requests, and warn-only sites are left out. *)
(***************************************************************************)
EXTENDS Naturals, FiniteSets, Functions

CONSTANTS
    Units,          \* the inverters of the connection
    MaxA,           \* the charge current limit of one
    SupplyLimit,    \* the connection's import limit
    Restores,       \* cuts lifted in a day (48 in the code)
    GuardEpochs,    \* bound on authority epochs
    GuardFaults     \* failed reads, writes and saves, untrusted SoC, restarts in a behaviour

ASSUME GuardAssumption ==
    IsFiniteSet(Units) /\ MaxA \in Nat /\ SupplyLimit \in Nat /\ Restores \in Nat
    /\ GuardEpochs \in Nat \ {0} /\ GuardFaults \in Nat

VARIABLES
    amps,           \* the charge current registers
    requests,       \* last_requested_a: the inverters that have a request
    askedEpoch,     \* _request_epoch
    guard,          \* GuardState
    saved,          \* the durable part of it
    saveFailed,     \* a save failed: no writes until the entry is loaded again
    authority,      \* epoch and mode
    work,           \* the writes that are still to do under guard.lock
    house,          \* the other load of the house
    guardFaults     \* GuardFaults left

guardVars == <<amps, requests, askedEpoch, guard, saved, saveFailed, authority, work,
               house, guardFaults>>
requested == <<requests, askedEpoch>>

Total(f)  == FoldFunction(+, 0, f)
Everything == Cardinality(Units) * MaxA
NoCut     == Everything + 1
Least(S)  == CHOOSE n \in S : \A m \in S : n <= m
Amps      == [Units -> 0 .. MaxA]
NoAmps    == [i \in Units |-> 0]
Requests  == UNION {[S -> 0 .. MaxA] : S \in SUBSET Units}
Nobody    == [i \in {} |-> 0]
Durable   == [cut : 0 .. NoCut, left : 0 .. Restores, epoch : 1 .. GuardEpochs, latched : BOOLEAN]
NoWork    == [kind |-> "none", targets |-> NoAmps, todo |-> {}, down |-> {}, lower |-> {},
              unit |-> {}, before |-> Nobody, cut |-> NoCut,
              latched |-> FALSE, epoch |-> 1]

GuardTypeOK ==
    /\ amps \in Amps /\ requests \in Requests /\ askedEpoch \in 1 .. GuardEpochs
    /\ guard \in [cut : 0 .. NoCut, left : 0 .. Restores, epoch : 1 .. GuardEpochs,
                  latched : BOOLEAN, count : 0 .. 2, steady : BOOLEAN, restored : BOOLEAN]
    /\ saved \in Durable /\ saveFailed \in BOOLEAN
    /\ authority \in [epoch : 1 .. GuardEpochs, mode : {"observe", "protect", "optimise"}]
    /\ work.kind \in {"none", "plan", "guard"} /\ work.targets \in Amps /\ work.todo \subseteq Units
    /\ house \in 0 .. SupplyLimit /\ guardFaults \in 0 .. GuardFaults

Fresh(epoch) == [cut |-> NoCut, left |-> Restores, epoch |-> epoch, latched |-> FALSE,
                 count |-> 0, steady |-> FALSE, restored |-> FALSE]
DurablePart(g) == [cut |-> g.cut, left |-> g.left, epoch |-> g.epoch, latched |-> g.latched]

GuardInit ==
    /\ amps = NoAmps /\ requests = Nobody /\ askedEpoch = 1
    /\ guard = Fresh(1) /\ saved = DurablePart(guard) /\ saveFailed = FALSE
    /\ authority = [epoch |-> 1, mode |-> "optimise"] /\ work = NoWork
    /\ house = 0 /\ guardFaults = GuardFaults

-----------------------------------------------------------------------------
(* Helpers *)

Faulty    == guardFaults > 0 /\ guardFaults' = guardFaults - 1
Permitted == ~saveFailed /\ authority.mode # "observe"
Available == IF house < SupplyLimit THEN SupplyLimit - house ELSE 0
Overload  == house + Total(amps) > SupplyLimit

\* A mutant for TLC: a share that is rounded up.
ShareUp(i, R, cut) ==
    IF Total(R) = 0 THEN 0 ELSE Least({R[i], (cut * R[i] + Total(R) - 1) \div Total(R)})

\* clamp_intent: a proportional share of the ceiling, rounded down.
Share(i, R, cut) == IF Total(R) = 0 THEN 0 ELSE Least({R[i], (cut * R[i]) \div Total(R)})

\* A loaded cut is only written again in its own epoch.
Replay(g) == ~g.restored \/ g.epoch = authority.epoch

SaveGuard(g, next) ==
    \/ guard' = g /\ saved' = DurablePart(g) /\ work' = next /\ UNCHANGED <<saveFailed, guardFaults>>
    \/ /\ Faulty /\ saved' \in {saved, DurablePart(g)} /\ saveFailed' = TRUE /\ work' = NoWork
       /\ guard' = IF guard.cut # NoCut /\ g.cut > guard.cut
                   THEN [g EXCEPT !.cut = guard.cut, !.latched = guard.latched] ELSE g

-----------------------------------------------------------------------------
(* supply_guard.step *)

Counted(g, R) ==
    LET count == IF ~Overload THEN 0 ELSE IF g.count < 2 THEN g.count + 1 ELSE 2
        low   == Least({Total(R), Available, g.cut})
    IN  IF count = 2 /\ Total(R) > 0 /\ low < g.cut
        THEN [g EXCEPT !.count = count, !.cut = low, !.epoch = authority.epoch, !.restored = FALSE]
        ELSE [g EXCEPT !.count = count]

\* Headroom that has held lifts the cut, as long as the day's budget lasts.
FreshSteps(R, known) ==
    LET g == Counted(guard, R)
    IN  IF ~(known # {} /\ g.cut # NoCut /\ Total(R) > 0 /\ Available > Total(R))
        THEN {[g EXCEPT !.steady = FALSE]}
        ELSE {[g EXCEPT !.steady = TRUE]} \union
             IF g.steady /\ g.left > 0 /\ Permitted /\ Replay(g)
             THEN {[g EXCEPT !.cut = NoCut, !.latched = FALSE, !.steady = FALSE, !.left = @ - 1,
                             !.restored = FALSE, !.epoch = authority.epoch]}
             ELSE {}

\* Two minutes without a reading, after one with too little headroom, halve the request.
MissingSteps(R) ==
    LET g == [guard EXCEPT !.count = 0, !.steady = FALSE]
    IN  {g} \union
        IF ~g.latched /\ Total(R) > 0
        THEN {[g EXCEPT !.cut = Least({Total(R) \div 2, g.cut}), !.latched = TRUE,
                        !.epoch = authority.epoch, !.restored = FALSE]}
        ELSE {}

\* async_evaluate: residents stand in for what was not requested in this epoch, and can
\* only be lowered; so can everything when a loaded cut is written again.
GuardWork(R, known, cut) ==
    LET lower   == IF guard.restored THEN Units ELSE Units \ known
        share   == [i \in Units |-> Share(i, R, cut)]
        targets == [i \in Units |-> IF i \in lower THEN Least({share[i], amps[i]}) ELSE share[i]]
    IN  [NoWork EXCEPT !.kind = "guard", !.targets = targets, !.todo = Units, !.lower = lower,
                       !.down = {i \in Units : targets[i] < amps[i]},
                       !.cut = guard.cut, !.latched = guard.latched, !.epoch = authority.epoch]

\* The requests of this epoch, and the residents for the rest.
KnownRequests == IF Permitted /\ askedEpoch # authority.epoch THEN Nobody ELSE requests
Combined(known) ==
    [i \in Units |-> IF i \in DOMAIN known THEN known[i] ELSE IF Permitted THEN amps[i] ELSE 0]

Decide(g, R, known, fresh) ==
    LET able    == Permitted /\ Replay(g) /\ Total(R) > 0
        rewrite == g.restored /\ able /\ fresh
        next    == IF rewrite THEN [g EXCEPT !.restored = FALSE] ELSE g
        write   == able /\ (rewrite \/ g.cut # guard.cut \/ g.latched # guard.latched)
        todo    == IF write THEN GuardWork(R, DOMAIN known, next.cut) ELSE NoWork
    IN  /\ requests' = known
        /\ askedEpoch' = IF Permitted THEN authority.epoch ELSE askedEpoch
        /\ IF DurablePart(next) = DurablePart(guard)
           THEN /\ guard' = next /\ work' = todo /\ UNCHANGED <<saved, saveFailed, guardFaults>>
           ELSE SaveGuard(next, todo)
        /\ UNCHANGED <<amps, authority, house>>

Report ==
    /\ work = NoWork
    /\ LET R == Combined(KnownRequests) IN
       \E g \in FreshSteps(R, DOMAIN KnownRequests) : Decide(g, R, KnownRequests, TRUE)

ReportMissing ==
    /\ work = NoWork /\ guardFaults > 0
    /\ LET R == Combined(KnownRequests) IN
       \E g \in MissingSteps(R) : Decide(g, R, KnownRequests, FALSE)

-----------------------------------------------------------------------------
(* Plan applies: _async_held and _async_transaction *)

\* Every inverter that has a request in this epoch moves with the new one.
PlanCurrent(i, a) ==
    /\ work = NoWork /\ authority.mode = "optimise" /\ ~saveFailed
    /\ LET before  == IF askedEpoch = authority.epoch THEN requests ELSE Nobody
           known   == [j \in {i} \union DOMAIN before |-> IF j = i THEN a ELSE before[j]]
           targets == [j \in Units |-> IF j \in DOMAIN known THEN Share(j, known, guard.cut) ELSE 0]
           down    == {j \in DOMAIN known : targets[j] < amps[j]}
       IN  /\ requests' = known /\ askedEpoch' = authority.epoch
           /\ work' = [NoWork EXCEPT !.kind = "plan", !.targets = targets, !.todo = DOMAIN known,
                        !.down = down, !.unit = {i}, !.before = before, !.epoch = authority.epoch]
    /\ UNCHANGED <<amps, guard, saved, saveFailed, authority, house, guardFaults>>

-----------------------------------------------------------------------------
(* _async_commit, one inverter after the other, reductions first *)

Due(i)     == i \in work.todo /\ (i \in work.down \/ work.todo \intersect work.down = {})
Refused    == \/ authority.epoch # work.epoch
              \/ authority.mode \notin (IF work.kind = "plan" THEN {"optimise"}
                                        ELSE {"protect", "optimise"})
Target(i)  == IF i \in work.lower THEN Least({work.targets[i], amps[i]}) ELSE work.targets[i]

CommitCurrent(i) ==
    /\ Due(i) /\ ~Refused
    /\ amps' = [amps EXCEPT ![i] = Target(i)]
    /\ work' = IF work.todo = {i} THEN NoWork ELSE [work EXCEPT !.todo = @ \ {i}]
    /\ UNCHANGED <<requested, guard, saved, saveFailed, authority, house, guardFaults>>

\* A plan's request that was refused or never attempted is not kept.
PlanStops(i, refused) ==
    /\ work.kind = "plan" /\ work' = NoWork
    /\ IF ~refused /\ (i \in work.unit \/ work.unit \intersect work.todo = {})
       THEN UNCHANGED requests
       ELSE requests' = work.before
    /\ UNCHANGED <<askedEpoch, guard, saved, saveFailed>>

\* A failed guard write keeps the old ceiling and is written again on fresh readings.
GuardStops ==
    /\ work.kind = "guard" /\ work' = NoWork
    /\ guard' = LET g == [guard EXCEPT !.restored = TRUE]
                IN  IF work.cut # NoCut /\ guard.cut > work.cut
                    THEN [g EXCEPT !.cut = work.cut, !.latched = work.latched, !.steady = FALSE]
                    ELSE g
    /\ saved' = DurablePart(guard') /\ UNCHANGED <<requested, saveFailed>>

Stops(i, refused) == PlanStops(i, refused) \/ GuardStops

CommitRefused(i) ==
    /\ Due(i) /\ Refused /\ Stops(i, TRUE)
    /\ UNCHANGED <<amps, authority, house, guardFaults>>

\* The SoC is not trusted for an increase, or the bus fails before or after the write.
CommitFails(i) ==
    /\ Due(i) /\ ~Refused /\ Faulty
    /\ \/ Target(i) > amps[i] /\ Stops(i, TRUE) /\ UNCHANGED amps
       \/ Stops(i, FALSE) /\ amps' \in {amps, [amps EXCEPT ![i] = Target(i)]}
    /\ UNCHANGED <<authority, house>>

-----------------------------------------------------------------------------
HouseLoad ==
    /\ house' \in {0, SupplyLimit} \ {house}
    /\ UNCHANGED <<amps, requested, guard, saved, saveFailed, authority, work, guardFaults>>

GuardAuthority(mode) ==
    /\ authority.epoch < GuardEpochs
    /\ authority' = [epoch |-> authority.epoch + 1, mode |-> mode]
    /\ UNCHANGED <<amps, requested, guard, saved, saveFailed, work, house, guardFaults>>

NewDay ==
    /\ work = NoWork /\ guard.left < Restores /\ guard' = [guard EXCEPT !.left = Restores]
    /\ UNCHANGED <<amps, requested, saved, saveFailed, authority, work, house, guardFaults>>

\* async_start: a cut of another epoch is dropped, one of this epoch is written again.
GuardRestart ==
    /\ Faulty /\ work' = NoWork /\ saveFailed' = FALSE /\ requests' = Nobody
    /\ askedEpoch' = authority.epoch
    /\ guard' = LET g == Fresh(authority.epoch) IN
                IF saved.epoch # authority.epoch THEN g
                ELSE [g EXCEPT !.cut = saved.cut, !.left = saved.left, !.latched = saved.latched,
                               !.restored = saved.cut # NoCut]
    /\ UNCHANGED <<amps, saved, authority, house>>

GuardCommit == \E i \in Units : CommitCurrent(i) \/ CommitRefused(i)
GuardNext ==
    \/ Report \/ ReportMissing
    \/ (\E i \in Units, a \in 0 .. MaxA : PlanCurrent(i, a))
    \/ GuardCommit \/ (\E i \in Units : CommitFails(i))
    \/ HouseLoad \/ (\E mode \in {"observe", "protect", "optimise"} : GuardAuthority(mode))
    \/ NewDay \/ GuardRestart

\* A transaction goes on under its lock, and reports keep arriving.
GuardFairness == WF_guardVars(GuardCommit) /\ SF_guardVars(Report)
GuardSpec     == GuardInit /\ [][GuardNext]_guardVars
GuardFairSpec == GuardSpec /\ GuardFairness

-----------------------------------------------------------------------------
(* Properties *)

\* A queued apply never undoes a cut that was accepted: no write brings the connection's
\* currents above the ceiling.
CutHolds ==
    [][amps' # amps /\ Total(amps') > Total(amps) => Total(amps') <= guard.cut]_guardVars

\* When every inverter has asked in this epoch, or the guard writes, reductions come first
\* and no write lifts the total above the ceiling.
CutKept ==
    [][amps' # amps /\ Total(amps') > Total(amps) /\ (work.kind = "guard" \/ work.todo \union
       DOMAIN work.before = Units) => Total(amps') <= guard.cut]_guardVars
=============================================================================
