------------------------------- MODULE BankTrust --------------------------------
(***************************************************************************)
(* The integration's trust in one bank's SoC.  Frames are polled over a    *)
(* connection that may be lost and come back; once per wall minute the     *)
(* monitor judges the newest frame: an energy balance against the battery  *)
(* power, the age of the last good read, and lost validation.  Failures    *)
(* count towards fallback, and trust comes back only through continuous    *)
(* recovery.  Nothing of it survives a restart but the fallback cause.     *)
(*                                                                         *)
(* Abstracted: an SoC is one of a few levels, a level apart for a minute's *)
(* full power; energy is kept doubled (trapezoid of whole powers) and      *)
(* saturates above every comparison; wall clocks do not step backwards;    *)
(* the site stays the integration's.                                       *)
(***************************************************************************)
EXTENDS Naturals

CONSTANTS
    Levels,         \* what a frame may show
    Powers,         \* absolute battery power, in levels per minute
    Tolerance,      \* ENERGY_TOLERANCE_PCT, in levels
    MaxAge,         \* soc_max_report_age_minutes
    Threshold,      \* soc_failure_threshold
    Recovery        \* soc_recovery_minutes

ASSUME BankAssumption ==
    /\ Levels \subseteq Nat /\ \E l \in Levels : \A k \in Levels : k <= l
    /\ Powers \subseteq Nat /\ Tolerance \in Nat
    /\ MaxAge \in Nat \ {0} /\ Threshold \in Nat \ {0} /\ Recovery \in Nat \ {0}

VARIABLES
    up,             \* the inverter is validated on a live connection
    good,           \* NativeSoc._good, the last good read, and the connection it came from
    view,           \* what the monitor last published
    bank,           \* the monitor's counters and recovery
    energy,         \* its energy balance since the baseline
    cause,          \* soc_integrity is a cause of the active fallback
    minute,         \* this minute's observation has been made; the one before was
    shown,          \* history: what the last judged minute showed afresh
    passes,         \* history: minutes in a row that were judged fresh and passed
    fails,          \* history: judged minutes in a row that failed
    owed            \* history: a recovery is owed

bankVars == <<up, good, view, bank, energy, cause, minute, shown, passes, fails, owed>>

Most     == CHOOSE l \in Levels : \A k \in Levels : k <= l
Enough   == 2 * (Most + Tolerance) + 1
AtMost(n, top) == IF n > top THEN top ELSE n
Readings == {{}} \union {{l} : l \in Levels}
Measured == {{}} \union {{p} : p \in Powers}
Reasons  == {"ok", "implausible", "read_failed", "unavailable", "stale"}
Reads    == [value : Readings, power : Measured, fresh : BOOLEAN, age : 0 .. MaxAge + 1]
Unread   == [value |-> {}, power |-> {}, fresh |-> FALSE, age |-> 0]
NoFrame  == [held |-> FALSE, read |-> Unread]
NoGood   == [of |-> "none", read |-> Unread]
NoView   == [value |-> {}, age |-> MaxAge + 1, trust |-> "untrusted", reason |-> "unavailable"]
NewBank  == [failures |-> 0, blocked |-> FALSE, failed |-> FALSE, since |-> {}, ready |-> FALSE]
NewBalance == [base |-> {}, used |-> 0, power |-> {}, waited |-> 0, rejected |-> {}]

BankTypeOK ==
    /\ up \in BOOLEAN /\ good \in [of : {"none", "this", "earlier"}, read : Reads]
    /\ view \in [value : Readings, age : 0 .. MaxAge + 1, reason : Reasons,
                 trust : {"trusted", "untrusted", "recovering"}]
    /\ bank \in [failures : 0 .. Threshold, blocked : BOOLEAN, failed : BOOLEAN,
                 since : {{}} \union {{n} : n \in 0 .. Recovery}, ready : BOOLEAN]
    /\ energy \in [base : Readings, used : 0 .. Enough, power : Measured,
                   waited : 0 .. Enough, rejected : Readings]
    /\ cause \in BOOLEAN /\ minute \in [judged : BOOLEAN, last : BOOLEAN]
    /\ shown \in Readings /\ passes \in 0 .. Recovery + 1 /\ fails \in 0 .. Threshold
    /\ owed \in BOOLEAN

BankInit ==
    /\ up = TRUE /\ good = NoGood /\ view = NoView
    /\ bank = NewBank /\ energy = NewBalance /\ cause = FALSE
    /\ minute = [judged |-> FALSE, last |-> FALSE]
    /\ shown = {} /\ passes = 0 /\ fails = 0 /\ owed = FALSE

Remembered == <<shown, passes, fails, owed>>

-----------------------------------------------------------------------------
(* The wire *)

\* What NativeDevices.reading answers: nothing of this connection, the read that is kept, or
\* a newer one, which may not decode.
Frames ==
    {NoFrame} \union {[held |-> TRUE, read |-> r] : r \in IF good.of = "this" THEN {good.read} ELSE {}}
    \union {[held |-> TRUE, read |-> [value |-> v, power |-> p, fresh |-> TRUE, age |-> 0]] :
             v \in Readings, p \in Measured}

LinkLost ==
    /\ up /\ up' = FALSE
    /\ good' = IF good.of = "none" THEN good ELSE [good EXCEPT !.of = "earlier"]
    /\ UNCHANGED <<view, bank, energy, cause, minute, Remembered>>

LinkBack ==
    /\ ~up /\ up' = TRUE
    /\ UNCHANGED <<good, view, bank, energy, cause, minute, Remembered>>

Aged(read) == [read EXCEPT !.age = AtMost(@ + 1, MaxAge + 1)]

\* A minute ends, judged or not.
MinuteEnds ==
    /\ minute' = [judged |-> FALSE, last |-> minute.judged]
    /\ good' = IF good.of = "none" THEN good ELSE [good EXCEPT !.read = Aged(@)]
    /\ view' = Aged(view)
    /\ energy' = [energy EXCEPT !.waited = AtMost(@ + 1, Enough)]
    /\ bank' = [bank EXCEPT !.since = {AtMost(n + 1, Recovery) : n \in @}]
    /\ passes' = IF minute.judged THEN passes ELSE 0
    /\ UNCHANGED <<up, cause, shown, fails, owed>>

-----------------------------------------------------------------------------
(* The verdict on a fresh reading *)

\* A kept read of an earlier connection is dropped, and counts as lost validation once.
Sound == up /\ good.of # "earlier"
KeptRead(f)  == IF ~Sound THEN NoGood
         ELSE IF f.held THEN [of |-> "this", read |-> f.read] ELSE good
Power(f) == IF f.held THEN KeptRead(f).read.power ELSE {}
FreshRead(f) == KeptRead(f).read.fresh

\* Both powers are known: the trapezoid since the last one.
Used(power) ==
    IF power # {} /\ energy.power # {}
    THEN LET p == CHOOSE p \in power : TRUE
             q == CHOOSE q \in energy.power : TRUE
         IN  AtMost(energy.used + (p + q) * energy.waited, Enough)
    ELSE energy.used

Apart(a, b) == IF a > b THEN a - b ELSE b - a
Unexplained(delta, used) == \/ 2 * delta > used + 2 * Tolerance
                            \/ delta = 0 /\ used > 2 * Tolerance
Implausible(f) ==
    /\ Power(f) # {}
    /\ \E v \in KeptRead(f).read.value, b \in energy.base : Unexplained(Apart(v, b), Used(Power(f)))
Jump(f) == Implausible(f) /\ KeptRead(f).read.value # energy.base

\* Two distinct reads in a row may confirm a recalibration.
SeenTwice(f) == Jump(f) /\ KeptRead(f).read.value = energy.rejected

FreshReason(f) ==
    IF KeptRead(f).read.value = {} THEN "unavailable"
    ELSE IF Implausible(f) /\ ~SeenTwice(f) THEN "implausible"
    ELSE IF KeptRead(f).read.age > MaxAge THEN "stale" ELSE "ok"
\* An old read keeps its verdict while it ages; it is never judged again.
KeptReason ==
    IF view.value = {} THEN "unavailable" ELSE IF view.age > MaxAge THEN "stale" ELSE view.reason
Reason(f) == IF ~Sound THEN "read_failed" ELSE IF FreshRead(f) THEN FreshReason(f) ELSE KeptReason

Balance(f) ==
    IF FreshRead(f)
    THEN LET value == KeptRead(f).read.value
             accepted == FreshReason(f) = "ok" /\ value # energy.base
         IN  [base |-> IF accepted THEN value ELSE energy.base,
              used |-> IF accepted THEN 0 ELSE Used(Power(f)),
              power |-> Power(f), waited |-> 0,
              rejected |-> IF Jump(f) /\ FreshReason(f) # "ok" THEN value ELSE {}]
    ELSE IF Power(f) # {} THEN [energy EXCEPT !.rejected = {}]
    ELSE [energy EXCEPT !.rejected = {}, !.power = {}, !.waited = 0]

-----------------------------------------------------------------------------
(* The monitor *)

NotRecovering(b) == [b EXCEPT !.since = {}, !.ready = FALSE]
Failing(b) ==
    LET n == AtMost(b.failures + 1, Threshold)
    IN  NotRecovering([b EXCEPT !.failures = n, !.failed = TRUE,
                                !.blocked = @ \/ n >= Threshold])

\* Mutant for TLC: a missed minute does not break a recovery.
GapIgnored(b, fresh) == fresh
\* Only a fresh read of the very next minute continues a recovery.
Gapless(b, fresh) == fresh /\ (b.since = {} \/ minute.last)
Recovering(b, fresh) ==
    LET from  == IF Gapless(b, fresh) THEN b ELSE NotRecovering(b)
        since == IF fresh /\ from.since = {} THEN {0} ELSE from.since
    IN  [from EXCEPT !.since = since, !.failed = FALSE,
                     !.ready = IF fresh THEN Recovery \in since ELSE @]

Passing(b, fresh) ==
    IF ~b.blocked THEN [b EXCEPT !.failures = 0, !.failed = FALSE]
    ELSE LET c == Recovering(b, fresh) IN IF c.ready /\ ~cause THEN NewBank ELSE c

\* Of a read that has been judged only its power is asked for again.
Judged(read) == [Unread EXCEPT !.power = read.power]

\* The first observation of a minute.
Observe(f) ==
    /\ ~minute.judged /\ minute' = [minute EXCEPT !.judged = TRUE]
    /\ LET judging == [bank EXCEPT !.blocked = @ \/ cause]
           kept == IF FreshRead(f) THEN KeptRead(f).read ELSE view
           ok   == Reason(f) = "ok"
       IN  /\ bank' = IF ok THEN Passing(judging, FreshRead(f)) ELSE Failing(judging)
           /\ view' = [value |-> kept.value, age |-> kept.age, reason |-> Reason(f),
                       trust |-> IF ~ok THEN "untrusted"
                                 ELSE IF bank'.blocked THEN "recovering" ELSE "trusted"]
           /\ passes' = IF ok /\ FreshRead(f) THEN AtMost(passes + 1, Recovery + 1) ELSE 0
           /\ fails' = IF ok THEN 0 ELSE AtMost(fails + 1, Threshold)
           /\ owed' = ((owed \/ cause \/ fails' >= Threshold)
                       /\ ~(passes' > Recovery /\ ~cause))
    /\ energy' = Balance(f)
    /\ shown' = IF FreshRead(f) THEN KeptRead(f).read.value ELSE {}
    /\ good' = [KeptRead(f) EXCEPT !.read = Judged(@)]
    /\ UNCHANGED <<up, cause>>

\* A later one of the same minute: validation lost since then counts once, and nothing is
\* believed again.
ObserveAgain(f) ==
    /\ minute.judged
    /\ LET late == ~Sound /\ ~bank.failed
           judging == [bank EXCEPT !.blocked = @ \/ cause]
       IN  /\ bank' = IF late THEN Failing(judging) ELSE judging
           /\ energy' = IF late THEN [energy EXCEPT !.rejected = {}] ELSE energy
           /\ view' = IF ~Sound THEN [view EXCEPT !.trust = "untrusted", !.reason = "read_failed"]
                      ELSE IF cause /\ view.trust = "trusted"
                           THEN [view EXCEPT !.trust = "recovering", !.reason = "ok"] ELSE view
           /\ passes' = IF ~Sound THEN 0 ELSE passes
           /\ fails' = IF late THEN AtMost(fails + 1, Threshold) ELSE fails
           /\ owed' = (owed \/ cause \/ fails' >= Threshold)
           /\ shown' = IF late THEN {} ELSE shown
    /\ good' = KeptRead(f)
    /\ UNCHANGED <<up, cause, minute>>

-----------------------------------------------------------------------------
(* The fallback controller and restarts *)

\* NativeSoc.bank: what consumers are told between observations too.
Masked(f) == ~Sound \/ (f.held /\ f.read.fresh /\ f.read.value = {}) \/ view.age > MaxAge
Trusted   == view.trust = "trusted" /\ ~cause

Requested     == bank.blocked /\ ~bank.ready
RecoveryReady == (\E f \in Frames : ~Masked(f)) /\ view.reason = "ok" /\ (bank.ready \/ Trusted)

Fall ==
    /\ ~cause /\ Requested /\ cause' = TRUE
    /\ UNCHANGED <<up, good, view, bank, energy, minute, Remembered>>

\* Recovered, or Optimise left: a new mode starts without causes.
CauseEnds(left) ==
    /\ cause /\ (left \/ RecoveryReady) /\ cause' = FALSE
    /\ UNCHANGED <<up, good, view, bank, energy, minute, Remembered>>

BankRestart ==
    /\ up' = TRUE /\ good' = NoGood /\ view' = NoView
    /\ bank' = NewBank /\ energy' = NewBalance
    /\ minute' = [judged |-> FALSE, last |-> FALSE]
    /\ shown' = {} /\ passes' = 0 /\ fails' = 0 /\ owed' = FALSE
    /\ UNCHANGED cause

BankNext ==
    \/ LinkLost \/ LinkBack \/ MinuteEnds
    \/ \E f \in Frames : Observe(f) \/ ObserveAgain(f)
    \/ Fall \/ \E left \in BOOLEAN : CauseEnds(left)
    \/ BankRestart

BankSpec == BankInit /\ [][BankNext]_bankVars

-----------------------------------------------------------------------------
(* Properties *)

\* Believed without an explanation: only what two judged minutes in a row showed afresh, or
\* what was read without power.
BelievedTwice ==
    energy'.base # energy.base /\ energy'.base # {} /\ energy'.power # {} =>
        \A b \in energy.base, v \in energy'.base :
            Unexplained(Apart(v, b), Used(energy'.power)) => shown = {v}

\* Trust is earned: after Threshold failed minutes in a row, or under the fallback cause, a
\* bank is trusted again only after Recovery minutes each judged fresh and passing, whatever
\* is lost, missed, repeated or reconnected in between; one wild reading is never believed;
\* and fallback is asked for only while that recovery is owed.
TrustEarned ==
    [][/\ (view'.trust = "trusted" => ~owed')
       /\ (cause' /\ ~cause => owed)
       /\ BelievedTwice]_bankVars
=================================================================================
