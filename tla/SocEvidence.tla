------------------------------ MODULE SocEvidence -------------------------------
(***************************************************************************)
(* The add-on's SoC integrity: one checked observation of a Home Assistant *)
(* entity per minute.  A value is judged against the energy that went      *)
(* through the battery, against the age of its last report and, when it is *)
(* old, against a live sibling entity.  Failures are counted on disk and   *)
(* lead to fallback; recovery needs stable reports and is never persisted. *)
(*                                                                         *)
(* Abstracted: levels one minute's full power apart, energy doubled and    *)
(* saturated; the fallback attempts and their read-backs (SolisProgram)    *)
(* are one status; a tick's writes to disk succeed.                        *)
(***************************************************************************)
EXTENDS Naturals, Sequences

CONSTANTS
    SocLevels,      \* what the entity may show
    SocSlack,       \* ENERGY_TOLERANCE_PCT, in levels
    ReportAge,      \* soc_max_report_age_minutes
    UnchangedAge,   \* MAX_UNCHANGED
    FailuresAllowed,\* soc_failure_threshold
    StableMinutes   \* soc_recovery_minutes

ASSUME EvidenceAssumption ==
    /\ SocLevels \subseteq Nat /\ \E l \in SocLevels : \A k \in SocLevels : k <= l
    /\ SocSlack \in Nat /\ ReportAge \in Nat
    /\ UnchangedAge \in Nat /\ ReportAge <= UnchangedAge
    /\ FailuresAllowed \in Nat \ {0} /\ StableMinutes \in Nat \ {0}

VARIABLES
    driver,         \* solis with a fallback current, solis without, or alphaess
    balance,        \* baseline, energy since, last power and minutes since, rejected value
    failures,       \* consecutive failures and operating state
    saved,          \* the same, in ha_spark_soc_monitor.json
    stable,         \* recovery progress: minutes, first and last report, a newer one was seen
    trail,          \* history: the minutes of this process that a recovery may rest on
    failedRun,      \* history: failed observations in a row, in any process
    lastSeen        \* history: what the previous observation showed

evidenceVars == <<driver, balance, failures, saved, stable, trail, failedRun, lastSeen>>

Cap(n, top) == IF n > top THEN top ELSE n
Highest  == CHOOSE l \in SocLevels : \A k \in SocLevels : k <= l
Plenty   == 2 * (Highest + SocSlack) + 1
Ages     == 0 .. UnchangedAge + 1
Shown    == {{}} \union {{l} : l \in SocLevels}
\* Power of one level per minute, or unreadable.
SocPower == {{}, {1}}
Sightings == [value : Shown, age : Ages, source : BOOLEAN, power : SocPower]
States   == {"normal", "pending", "threshold", "fallback"}
Counts   == [count : 0 .. FailuresAllowed, state : States]
Healthy  == [count |-> 0, state |-> "normal"]
Stables  == [on : BOOLEAN, minutes : 0 .. StableMinutes, first : Ages, last : Ages,
             newer : BOOLEAN, ready : BOOLEAN, gap : BOOLEAN]
Unstable == [on |-> FALSE, minutes |-> 0, first |-> 0, last |-> 0, newer |-> FALSE,
             ready |-> FALSE, gap |-> FALSE]
Unweighed == [base |-> {}, used |-> 0, power |-> {}, waited |-> 0, rejected |-> {}]
Minutes  == [seen : BOOLEAN, ok : BOOLEAN, age : Ages]

EvidenceTypeOK ==
    /\ driver \in {"fallback", "plain", "alphaess"}
    /\ balance \in [base : Shown, used : 0 .. Plenty, power : SocPower, waited : 0 .. Plenty,
                    rejected : Shown]
    /\ failures \in Counts /\ saved \in Counts /\ stable \in Stables
    /\ trail \in Seq(Minutes)
    /\ failedRun \in 0 .. FailuresAllowed /\ lastSeen \in Shown

EvidenceInit ==
    /\ driver \in {"fallback", "plain", "alphaess"} /\ balance = Unweighed
    /\ failures = Healthy /\ saved = Healthy /\ stable = Unstable
    /\ trail = <<>> /\ failedRun = 0 /\ lastSeen = {}

-----------------------------------------------------------------------------
(* One checked observation *)

\* Powers of this observation and the last one, over the minutes between them.
SocUsed(power) ==
    IF power # {} /\ balance.power # {} THEN Cap(balance.used + 2 * balance.waited, Plenty)
    ELSE balance.used

Far(a, b) == IF a > b THEN a - b ELSE b - a
Unbalanced(v, b, used) == \/ 2 * Far(v, b) > used + 2 * SocSlack
                          \/ v = b /\ used > 2 * SocSlack
OutOfBalance(o) ==
    o.power # {} /\ \E v \in o.value, b \in balance.base : Unbalanced(v, b, SocUsed(o.power))
SocJump(o) == OutOfBalance(o) /\ o.value # balance.base

SourceProves(o) == o.source /\ o.age <= UnchangedAge
Recent(o)       == o.age <= ReportAge \/ SourceProves(o)

Recalibrated(o) == SocJump(o) /\ o.value = balance.rejected
Passes(o) == o.value # {} /\ (~OutOfBalance(o) \/ Recalibrated(o)) /\ Recent(o)

Weighed(o) ==
    LET accepted == Passes(o) /\ o.value # balance.base
    IN  [base |-> IF accepted THEN o.value ELSE balance.base,
         used |-> IF accepted THEN 0 ELSE SocUsed(o.power),
         power |-> o.power, waited |-> 1,
         rejected |-> IF SocJump(o) /\ ~Passes(o) THEN o.value ELSE {}]

-----------------------------------------------------------------------------
(* Recovery *)

Older(age) == Cap(age + 1, UnchangedAge + 1)
\* A minute later.
Later(s) == IF s.on THEN [s EXCEPT !.minutes = Cap(@ + 1, StableMinutes),
                                   !.first = Older(@), !.last = Older(@)] ELSE s

\* Report times that went backwards, or a missed minute where minutes count, start it over.
Broken(s, o) == \/ s.on /\ driver = "alphaess" /\ s.gap
                \/ s.on /\ o.age > s.last
Begun(o) == [Unstable EXCEPT !.on = TRUE, !.first = o.age]
Advanced(o) ==
    LET s == IF ~stable.on \/ Broken(stable, o) THEN Begun(o) ELSE stable
        newer == s.newer \/ o.age < s.first
    IN  [s EXCEPT !.last = o.age, !.newer = newer, !.gap = FALSE,
                  !.ready = newer /\ s.minutes >= StableMinutes]

Recovers == \/ failures.state = "fallback"
            \/ driver = "alphaess" /\ failures.state = "threshold"

\* Mutant for TLC: a failure does not break the recovery that is under way.
KeptGoing == stable
StartedOver == Unstable

Counted == Cap(failures.count + 1, FailuresAllowed)
Failed == [count |-> Counted,
           state |-> IF failures.state = "fallback" THEN "fallback"
                     ELSE IF Counted >= FailuresAllowed THEN "threshold" ELSE "pending"]

Window == StableMinutes + 1
Trailed(m) ==
    LET all == Append([i \in DOMAIN trail |-> [trail[i] EXCEPT !.age = Older(@)]], m)
    IN  IF Len(all) > Window THEN Tail(all) ELSE all

RecordPass(o) ==
    IF Recovers THEN UNCHANGED failures /\ stable' = Later(Advanced(o))
    ELSE failures' = Healthy /\ UNCHANGED stable
RecordOnce(o) ==
    /\ IF Passes(o) THEN RecordPass(o) ELSE failures' = Failed /\ stable' = Later(StartedOver)
    /\ saved' = failures'

\* One minute's tick: judged, counted once, and saved.
Sight(o) ==
    /\ balance' = Weighed(o) /\ RecordOnce(o)
    /\ trail' = Trailed([seen |-> TRUE, ok |-> Passes(o), age |-> o.age])
    /\ failedRun' = IF Passes(o) THEN 0 ELSE Cap(failedRun + 1, FailuresAllowed)
    /\ lastSeen' = o.value
    /\ UNCHANGED driver

\* The tick failed as a whole, or the daemon was busy.
NoSighting ==
    /\ balance' = [balance EXCEPT !.waited = IF @ = 0 THEN 0 ELSE Cap(@ + 1, Plenty)]
    /\ stable' = [Later(stable) EXCEPT !.gap = stable.on]
    /\ trail' = Trailed([seen |-> FALSE, ok |-> FALSE, age |-> 0])
    /\ UNCHANGED <<driver, failures, saved, failedRun, lastSeen>>

\* Solis with a configured current: the threshold asks for the fallback program.
AskFallback ==
    /\ driver = "fallback" /\ failures.state = "threshold"
    /\ failures' = [failures EXCEPT !.state = "fallback"] /\ saved' = failures'
    /\ UNCHANGED <<driver, balance, stable, trail, failedRun, lastSeen>>

\* A fresh normal plan was applied; the AlphaESS needs this minute's observation as well.
CompleteRecovery ==
    /\ driver = "alphaess" => trail # <<>> /\ trail[Len(trail)].ok
    /\ stable.ready /\ failures.state \in {"fallback", "threshold"}
    /\ failures' = Healthy /\ saved' = Healthy /\ stable' = Unstable
    /\ UNCHANGED <<driver, balance, trail, failedRun, lastSeen>>

MonitorRestart ==
    /\ failures' = saved /\ balance' = Unweighed /\ stable' = Unstable
    /\ trail' = <<>> /\ lastSeen' = {}
    /\ UNCHANGED <<driver, saved, failedRun>>

EvidenceNext ==
    \/ \E o \in Sightings : Sight(o)
    \/ NoSighting \/ AskFallback \/ CompleteRecovery \/ MonitorRestart

EvidenceSpec == EvidenceInit /\ [][EvidenceNext]_evidenceVars

-----------------------------------------------------------------------------
(* Properties *)

Blocked(f) == f.state \in {"threshold", "fallback"}

\* The minutes a recovery rests on: none failed, reports never went back, and the AlphaESS
\* saw every one.
Stable ==
    /\ Len(trail) = Window
    /\ \A i \in 1 .. Window : trail[i].seen => trail[i].ok
    /\ \A i, j \in 1 .. Window : i < j /\ trail[i].seen /\ trail[j].seen =>
            trail[j].age <= trail[i].age
    /\ driver = "alphaess" => \A i \in 1 .. Window : trail[i].seen

\* Blocked only after FailuresAllowed failures in a row, restarts included; and a blocked
\* device, where recovery is required, is given back only after StableMinutes of stable
\* evidence in one process.  A jump nothing explains is believed only when it is seen twice
\* in a row, and no value older than UnchangedAge passes, whatever the source reports.
EvidenceKept ==
    [][/\ Blocked(failures') /\ ~Blocked(failures) => failedRun' >= FailuresAllowed
       /\ ~Blocked(failures') /\ Blocked(failures) /\ Recovers => Stable
       /\ \A b \in balance.base, v \in balance'.base :
            v # b /\ balance'.power # {} /\ Unbalanced(v, b, SocUsed(balance'.power)) =>
                lastSeen = {v}
       /\ trail' # trail /\ trail' # <<>> /\ trail'[Len(trail')].ok =>
            trail'[Len(trail')].age <= UnchangedAge]_evidenceVars
=================================================================================
