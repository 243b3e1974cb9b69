-------------------------- MODULE AuthorityLifecycle --------------------------
(***************************************************************************)
(* The operating modes of an integration-owned site.  AuthorityControl     *)
(* saves a grant first and executes its transition step by step, retrying  *)
(* until each step verifies; NativeFallback enters and leaves the fallback *)
(* schedule; plans from the add-on write one inverter after the other.     *)
(* All of them take the authority lock, but only for one of their steps:   *)
(* an owner's request, a tick, a lost add-on, a failed save, a restart and *)
(* a repair come in between, and what was learned in memory about the      *)
(* devices meets a record that has moved on.                               *)
(*                                                                         *)
(* Abstracted: the two fallback causes are one, holds are only the steps   *)
(* that reconcile or release them, an inverter's charging schedule is who  *)
(* wrote it, times are only compared with the moments the code compares    *)
(* them with.  One lock hold is one action: within it only a failed save   *)
(* or a restart can come between two writes, and both are in the model.    *)
(***************************************************************************)
EXTENDS Naturals, Sequences, FiniteSets

CONSTANTS
    Inverters,      \* the native inverters
    Requests,       \* requests and new add-on sessions in a behaviour
    Surprises,      \* times the add-on or its SoC is lost
    Glitches,       \* device writes that fail or do not verify
    SaveFaults,     \* saves that cannot be verified
    Restarts,       \* restarts of Home Assistant
    Repairs         \* confirmations of Observe after a failed save

ASSUME InvertersAssumption == IsFiniteSet(Inverters) /\ Inverters # {}
ASSUME LimitsAssumption ==
    /\ Requests \in Nat /\ Surprises \in Nat /\ Glitches \in Nat
    /\ SaveFaults \in Nat /\ Restarts \in Nat /\ Repairs \in Nat

VARIABLES
    auth,           \* the authority record on disk; memory equals it while status is ok
    status,         \* AuthorityStore.status: a failed save exposes no authority
    phase,          \* AuthorityControl: starting, in its grace, or ready
    evidence,       \* add-on liveness and SoC: bad, fine, or recovered for long enough
    resident,       \* who wrote the charging schedule each inverter runs
    exporting,      \* a discharge window is programmed
    verified,       \* NativeFallback.verified: epoch of the verified fallback, 0 for none
    exiting,        \* NativeFallback.exit_since is set
    retrying,       \* NativeFallback.retry_at lies ahead
    reapply,        \* NativeFallback.reapply_at is unset or past
    job,            \* the apply command being executed
    lastApply,      \* NativeChargeBoundary.last_apply
    planned,        \* history: inverters a plan wrote since the causes cleared
    requests, surprises, glitches, faults, restarts

memory  == <<verified, exiting, retrying, reapply, job, lastApply>>
devices == <<resident, exporting>>
budgets == <<requests, surprises, glitches, faults, restarts>>
vars    == <<auth, status, phase, evidence, resident, exporting, verified, exiting, retrying,
             reapply, job, lastApply, planned, requests, surprises, glitches, faults, restarts>>

-----------------------------------------------------------------------------
(* Values *)

Modes   == {"observe", "protect", "optimise"}
Steps   == {"verify_fresh_plan", "write_fallback", "cancel_export", "evaluate_protection",
            "release_holds"}
Writers == {"owner", "plan", "fallback"}

\* AuthorityState: target and steps are the transition, returnTo and timed the manual
\* session, active and causes the fallback.
Authority == [store : Nat, epoch : Nat, mode : Modes, target : Modes \union {"none"},
              steps : Seq(Steps), returnTo : Modes \union {"none"}, timed : BOOLEAN,
              active : BOOLEAN, causes : BOOLEAN]

\* An apply and what is left of one: accepted under which store and epoch, and whether
\* since the fallback's exit, or its last retry, began.
Job       == [store : Nat, epoch : Nat, left : SUBSET Inverters, ok : BOOLEAN, counts : BOOLEAN]
Apply     == [store : Nat, epoch : Nat, ok : BOOLEAN, counts : BOOLEAN]

NoJob     == [store |-> 0, epoch |-> 0, left |-> {}, ok |-> FALSE, counts |-> FALSE]
NoApply   == [store |-> 0, epoch |-> 0, ok |-> FALSE, counts |-> FALSE]
Unverified == [i \in Inverters |-> 0]

\* AuthorityStore._fresh_observe
FreshObserve(store) ==
    [store |-> store, epoch |-> 1, mode |-> "observe", target |-> "none", steps |-> <<>>,
     returnTo |-> "none", timed |-> FALSE, active |-> FALSE, causes |-> FALSE]

TypeOK ==
    /\ auth \in Authority
    /\ status \in {"ok", "save_failed"} /\ phase \in {"starting", "grace", "ready"}
    /\ evidence \in {"bad", "fine", "recovered"}
    /\ resident \in [Inverters -> Writers] /\ exporting \in BOOLEAN
    /\ verified \in [Inverters -> Nat]
    /\ exiting \in BOOLEAN /\ retrying \in BOOLEAN /\ reapply \in BOOLEAN
    /\ job \in Job /\ lastApply \in Apply /\ planned \in SUBSET Inverters
    /\ requests \in Nat /\ surprises \in Nat /\ glitches \in Nat
    /\ faults \in Nat /\ restarts \in Nat

Init ==
    /\ auth = FreshObserve(1) /\ status = "ok" /\ phase = "ready" /\ evidence = "fine"
    /\ resident = [i \in Inverters |-> "owner"] /\ exporting = FALSE
    /\ verified = Unverified /\ exiting = FALSE /\ retrying = FALSE /\ reapply = TRUE
    /\ job = NoJob /\ lastApply = NoApply /\ planned = {}
    /\ requests = Requests /\ surprises = Surprises /\ glitches = Glitches
    /\ faults = SaveFaults /\ restarts = Restarts

-----------------------------------------------------------------------------
(* AuthorityStore *)

Saved(candidate) == auth' = candidate /\ UNCHANGED <<status, faults>>

\* The save is not verified: disk may hold any of these, and no authority is exposed.
SaveFails(candidates) ==
    /\ faults > 0
    /\ faults' = faults - 1
    /\ status' = "save_failed"
    /\ auth' \in candidates \union {auth}

\* AuthorityRepairFlow, AuthorityStore.async_confirm_observe: a new identity, in place.
Repair ==
    /\ status = "save_failed" /\ auth.store <= Repairs
    /\ auth' = FreshObserve(auth.store + 1) /\ status' = "ok"
    /\ UNCHANGED <<phase, evidence, devices, memory, planned, budgets>>

-----------------------------------------------------------------------------
(* Requests: transitions.propose_transition, saved by AuthorityControl.async_request *)

Known   == status = "ok"
Running == Known /\ phase \in {"grace", "ready"}
InManual == auth.returnTo # "none"

Granted(changes) == [changes EXCEPT !.epoch = auth.epoch + 1]

Handover(a, target, steps) ==
    Granted([a EXCEPT !.steps = steps, !.target = IF steps = <<>> THEN "none" ELSE target])

\* A request that is not refused: saved, or not verified and refused.
Request(candidate) ==
    /\ Saved(candidate) \/ SaveFails({candidate})
    /\ UNCHANGED <<phase, evidence, devices, memory, planned, surprises, glitches, restarts>>

Asked == Known /\ requests > 0 /\ requests' = requests - 1

ExportSteps(mode) == IF mode = "optimise" THEN <<"cancel_export">> ELSE <<>>

\* start_manual_control, over whatever transition is in progress.
StartManual(timed, keep) ==
    /\ Asked
    /\ auth.mode # "observe" /\ ~InManual
    /\ LET a     == [auth EXCEPT !.returnTo = auth.mode, !.timed = timed]
           steps == ExportSteps(auth.mode) \o (IF keep THEN <<>> ELSE <<"release_holds">>)
       IN  Request(Handover(a, auth.mode, steps))

\* A mutant for TLC: a consumer that serves a request while an apply still runs.
ConsumerIgnored == TRUE
\* Protect and Optimise are commands of the add-on, consumed one after the other.
ConsumerFree == job = NoJob

\* During a manual session they change only where it returns to.
ChangeReturn(mode) ==
    /\ Asked /\ ConsumerFree
    /\ InManual /\ mode \in {"protect", "optimise"} \ {auth.returnTo}
    /\ Request(Granted([auth EXCEPT !.returnTo = mode]))

ResumeSteps ==
    IF auth.returnTo # "optimise" THEN <<"evaluate_protection">>
    ELSE IF auth.causes THEN <<"write_fallback">> ELSE <<"verify_fresh_plan">>

Resumed ==
    Handover([auth EXCEPT !.mode = auth.returnTo, !.returnTo = "none", !.timed = FALSE],
             auth.returnTo, ResumeSteps)
CanResume == InManual /\ auth.target = "none"

Resume == Asked /\ CanResume /\ Request(Resumed)

\* AuthorityControl.async_expire, by the authority tick.
Expire ==
    /\ Running /\ auth.timed /\ CanResume
    /\ Request(Resumed) /\ UNCHANGED requests

Observe ==
    /\ Asked
    /\ auth.target # "observe" /\ ~(auth.mode = "observe" /\ auth.target = "none")
    /\ LET pending == \E n \in 1 .. Len(auth.steps) : auth.steps[n] = "cancel_export"
           first   == IF ~InManual /\ auth.mode = "optimise"
                      THEN <<"cancel_export", "write_fallback">>
                      ELSE IF pending THEN <<"cancel_export">> ELSE <<>>
       IN  Request(Handover([auth EXCEPT !.returnTo = "none", !.timed = FALSE], "observe",
                            Append(first, "release_holds")))

\* Outside a manual session they are handovers; Optimise needs a live session and a
\* recovered SoC.
ToOptimise ==
    /\ Asked /\ ConsumerFree
    /\ ~InManual /\ auth.target = "none" /\ auth.mode # "optimise" /\ evidence # "bad"
    /\ Request(Handover([auth EXCEPT !.mode = "optimise"], "optimise", <<"verify_fresh_plan">>))

ToProtect ==
    /\ Asked /\ ConsumerFree
    /\ ~InManual /\ auth.target = "none" /\ auth.mode # "protect"
    /\ Request(IF auth.mode = "optimise"
               THEN Handover(auth, "protect", <<"cancel_export", "write_fallback">>)
               ELSE Handover([auth EXCEPT !.mode = "protect"], "protect",
                             <<"evaluate_protection">>))

\* AuthorityControl.async_new_session: the add-on has rebooted.
NewSession == Asked /\ Request(Granted(auth))

-----------------------------------------------------------------------------
(* Fallback: NativeFallback, on the native tick *)

\* NativeChargeBoundary._refusal for a fallback write.
\* A mutant for TLC: the owner's starting schedule needs a live fallback too.
FallbackOnlyLive(a) == a.mode = "optimise" /\ a.returnTo = "none" /\ a.active
FallbackPermitted(a) ==
    /\ a.mode = "optimise" /\ a.returnTo = "none"
    /\ a.target \in {"protect", "observe"} \/ a.active

\* NativeFallback._apply_one for each target: some verify, some fail before or after the
\* write; what was verified before stays so.
WriteFallback(before, targets, epoch, done) ==
    \E torn \in SUBSET (targets \ done) :
      /\ \/ done = targets /\ UNCHANGED glitches
         \/ done # targets /\ glitches > 0 /\ glitches' = glitches - 1
      /\ resident' = [i \in Inverters |-> IF i \in done \union torn THEN "fallback" ELSE resident[i]]
      /\ verified' = [i \in Inverters |-> IF i \in done THEN epoch ELSE before[i]]

ApplyFallback(before, targets, epoch) ==
    \E done \in SUBSET targets : WriteFallback(before, targets, epoch, done)

Due(before, epoch) == {i \in Inverters : before[i] # epoch}

\* NativeFallback._evaluate: when it looks at all, and what the causes are now.
Evaluates ==
    /\ status = "ok" /\ phase = "ready"
    /\ auth.mode = "optimise" /\ ~InManual /\ auth.target \in {"none", "optimise"}
Causes == IF auth.causes THEN evidence # "recovered" ELSE evidence = "bad"

NoExit == exiting' = FALSE /\ retrying' = FALSE /\ reapply' = TRUE

EnterFallback ==
    /\ Evaluates /\ ~auth.active /\ Causes
    /\ LET entered == Granted([auth EXCEPT !.active = TRUE, !.causes = TRUE])
       IN  \/ /\ Saved(entered)
              /\ exporting' \in {exporting, FALSE}
              /\ ApplyFallback(verified, Due(verified, entered.epoch), entered.epoch)
              /\ NoExit
           \/ /\ SaveFails({entered})
              /\ UNCHANGED <<devices, verified, exiting, retrying, reapply, glitches>>
    /\ UNCHANGED <<phase, evidence, job, lastApply, planned, requests, surprises, restarts>>

\* A mutant for TLC: what was verified before an exit plan is still believed.
StillBelieved == verified
\* An exit plan may have overwritten the schedule: re-verify it.
Believed == IF auth.causes THEN verified ELSE Unverified

KeepFallback ==
    /\ Evaluates /\ auth.active /\ Causes
    /\ LET kept == [auth EXCEPT !.causes = TRUE]
       IN  \/ /\ Saved(kept)
              /\ ApplyFallback(Believed, Due(Believed, auth.epoch), auth.epoch)
              /\ NoExit
           \/ /\ ~auth.causes /\ SaveFails({kept})
              /\ verified' = Believed
              /\ UNCHANGED <<resident, exiting, retrying, reapply, glitches>>
    /\ planned' = {}
    /\ UNCHANGED <<phase, evidence, exporting, job, lastApply, requests, surprises, restarts>>

\* What was accepted before this moment counts no longer.
Uncount == job' = [job EXCEPT !.counts = FALSE] /\ lastApply' = [lastApply EXCEPT !.counts = FALSE]

\* NativeFallback._exit_pending without a plan to judge: the schedule once more, unless it
\* is verified everywhere, at most every five minutes.
ReapplyIfDue ==
    IF Due(verified, auth.epoch) # {} /\ reapply
    THEN ApplyFallback(verified, Inverters, auth.epoch) /\ reapply' = FALSE
    ELSE UNCHANGED <<resident, verified, reapply, glitches>>

ClearCauses ==
    /\ Evaluates /\ auth.active /\ auth.causes /\ ~Causes
    /\ LET cleared == [auth EXCEPT !.causes = FALSE]
       IN  \/ Saved(cleared) /\ ReapplyIfDue /\ exiting' = TRUE /\ Uncount
           \/ SaveFails({cleared}) /\ UNCHANGED <<resident, memory, glitches>>
    /\ planned' = {} /\ UNCHANGED <<retrying>>
    /\ UNCHANGED <<phase, evidence, exporting, requests, surprises, restarts>>

Exits == Evaluates /\ auth.active /\ ~auth.causes /\ ~Causes /\ ~retrying

\* A mutant for TLC: any plan of this epoch, however old, judges the exit.
OfThisEpoch(last) == last.epoch = auth.epoch
\* Only plans accepted after the exit began, or after the last retry, count.
Judges(last) == last.epoch = auth.epoch /\ last.counts /\ exiting

\* The exit plan failed somewhere: back to the verified schedule for five minutes.
RetryExit ==
    /\ Exits /\ Judges(lastApply) /\ ~lastApply.ok
    /\ ApplyFallback(Unverified, Inverters, auth.epoch)
    /\ retrying' = TRUE /\ planned' = {}
    /\ UNCHANGED <<auth, status, phase, evidence, exporting, exiting, reapply, job, lastApply,
                   requests, surprises, faults, restarts>>

EndFallback ==
    /\ Exits /\ Judges(lastApply) /\ lastApply.ok
    /\ LET ended == Granted([auth EXCEPT !.active = FALSE])
       IN  \/ Saved(ended) /\ verified' = Unverified /\ NoExit
           \/ SaveFails({ended}) /\ UNCHANGED <<verified, exiting, retrying, reapply>>
    /\ UNCHANGED <<phase, evidence, devices, job, lastApply, planned, requests, surprises,
                   glitches, restarts>>

AwaitExitPlan ==
    /\ Exits /\ ~Judges(lastApply)
    /\ exiting' = TRUE
    /\ IF exiting THEN UNCHANGED <<job, lastApply>> ELSE Uncount
    /\ ReapplyIfDue
    /\ UNCHANGED <<auth, status, phase, evidence, exporting, retrying, planned, requests,
                   surprises, faults, restarts>>

\* Five minutes pass: for a failed exit plan, for the next attempt at the schedule.
RetryOver ==
    /\ retrying /\ retrying' = FALSE
    /\ Uncount
    /\ UNCHANGED <<auth, status, phase, evidence, devices, verified, exiting, reapply, planned,
                   budgets>>

ReapplyAgain ==
    /\ ~reapply /\ reapply' = TRUE
    /\ UNCHANGED <<auth, status, phase, evidence, devices, verified, exiting, retrying, job,
                   lastApply, planned, budgets>>

-----------------------------------------------------------------------------
(* Transition steps: AuthorityControl._advance, right after a request or by async_retry *)

\* A mutant for TLC: nothing is retried while the owner has control.
OutsideManual == Running /\ auth.target # "none" /\ ~InManual
CanAdvance == Running /\ auth.target # "none"

At(step) ==
    /\ CanAdvance /\ auth.steps # <<>> /\ Head(auth.steps) = step
    /\ step \in {"verify_fresh_plan", "write_fallback", "cancel_export"} => phase = "ready"

\* A mutant for TLC: the transition is dropped before its target is claimed.
CommittedLate(a) == LET b == [a EXCEPT !.target = "none"] IN [b EXCEPT !.mode = b.target]
\* Only now is the verified handover claimed.
Committed(a) ==
    LET ends == a.active /\ a.returnTo = "none" /\ a.target # "optimise"
    IN  [a EXCEPT !.mode = a.target, !.target = "none", !.active = @ /\ ~ends,
                  !.causes = @ /\ ~ends, !.epoch = IF ends THEN @ + 1 ELSE @]

Progressed == [auth EXCEPT !.steps = Tail(@)]

\* The step is verified: its progress is saved, and after the last one its claim.
Advances ==
    LET claim == IF Progressed.steps = <<>> THEN Committed(Progressed) ELSE Progressed
    IN  Saved(claim) \/ SaveFails({Progressed, claim})
\* The step is not verified: it stays, and its failing action is saved.
Stays == Saved(auth) \/ SaveFails({})

Stepping == UNCHANGED <<phase, evidence, exiting, retrying, reapply, job, lastApply, planned,
                        requests, surprises, restarts>>

\* plan_verified since the transition started: epochs begin again after a repair, but
\* what another store accepted is older than every transition of this one.
FreshPlan == lastApply.ok /\ lastApply.epoch = auth.epoch /\ lastApply.store = auth.store

VerifyFreshPlan ==
    /\ At("verify_fresh_plan") /\ FreshPlan /\ Advances
    /\ Stepping /\ UNCHANGED <<devices, verified, glitches>>

CancelExport ==
    /\ At("cancel_export")
    /\ Stepping /\ UNCHANGED <<resident, verified>>
    /\ \/ exporting' = FALSE /\ Advances /\ UNCHANGED glitches
       \/ /\ glitches > 0 /\ glitches' = glitches - 1
          /\ exporting' \in {exporting, FALSE} /\ Stays

WriteFallbackStep ==
    /\ At("write_fallback")
    /\ Stepping /\ UNCHANGED exporting
    /\ \E done \in SUBSET Inverters :
         IF FallbackPermitted(auth)
         THEN /\ WriteFallback(verified, Inverters, auth.epoch, done)
              /\ IF done = Inverters THEN Advances ELSE Stays
         ELSE done = {} /\ Stays /\ UNCHANGED <<resident, verified, glitches>>

\* Where the schedule is refused or invalid it never traps the owner on the way to Observe.
SkipFallback ==
    /\ At("write_fallback") /\ auth.target = "observe" /\ Advances
    /\ \E done \in SUBSET Inverters :
         /\ resident' = [i \in Inverters |-> IF i \in done THEN "fallback" ELSE resident[i]]
         /\ verified' = [i \in Inverters |-> IF i \in done THEN auth.epoch ELSE verified[i]]
    /\ Stepping /\ UNCHANGED <<exporting, glitches>>

\* evaluate_protection and release_holds.
Protection ==
    /\ At("evaluate_protection") \/ At("release_holds")
    /\ Stepping /\ UNCHANGED <<devices, verified>>
    /\ \/ Advances /\ UNCHANGED glitches
       \/ glitches > 0 /\ glitches' = glitches - 1 /\ Stays

\* The last step's progress was saved, and the claim was not.
Claim ==
    /\ CanAdvance /\ auth.steps = <<>>
    /\ Saved(Committed(auth)) \/ SaveFails({Committed(auth)})
    /\ Stepping /\ UNCHANGED <<devices, verified, glitches>>

-----------------------------------------------------------------------------
(* Plans: NativeChargeBoundary.async_apply, one inverter's group after the other *)

\* The consumer found the command's epoch to be the current one.
AcceptPlan ==
    /\ Known /\ job = NoJob
    /\ job' = [store |-> auth.store, epoch |-> auth.epoch, left |-> Inverters, ok |-> TRUE,
               counts |-> TRUE]
    /\ UNCHANGED <<auth, status, phase, evidence, devices, verified, exiting, retrying, reapply,
                   lastApply, planned, budgets>>

\* A mutant for TLC: a plan that does not look at the transition.
PlanUnderTransition ==
    /\ status = "ok" /\ phase = "ready" /\ auth.epoch = job.epoch
    /\ auth.mode = "optimise" /\ ~InManual
    /\ auth.active => ~auth.causes /\ ~retrying
\* NativeChargeBoundary._refusal for a plan.
PlanPermitted ==
    /\ status = "ok" /\ phase = "ready" /\ auth.epoch = job.epoch
    /\ auth.mode = "optimise" /\ ~InManual /\ auth.target \in {"none", "optimise"}
    /\ auth.active => ~auth.causes /\ ~retrying

\* What async_apply remembers, after the last group.
GroupEnds(i, ok) ==
    LET rest == [job EXCEPT !.left = @ \ {i}, !.ok = @ /\ ok]
    IN  IF rest.left # {} THEN job' = rest /\ UNCHANGED lastApply
        ELSE /\ job' = NoJob
             /\ lastApply' = [store |-> job.store, epoch |-> job.epoch, ok |-> rest.ok,
                              counts |-> job.counts]

Group == UNCHANGED <<auth, status, phase, evidence, verified, exiting, retrying, reapply,
                     requests, surprises, faults, restarts>>

\* Charging is written and read back; the export half is armed, cleared or left.
GroupApplies(i) ==
    /\ i \in job.left /\ PlanPermitted
    /\ resident' = [resident EXCEPT ![i] = "plan"]
    /\ exporting' \in IF auth.active THEN {exporting, FALSE} ELSE BOOLEAN
    /\ planned' = planned \union {i}
    /\ GroupEnds(i, TRUE) /\ Group /\ UNCHANGED glitches

GroupFails(i) ==
    /\ i \in job.left /\ PlanPermitted
    /\ glitches > 0 /\ glitches' = glitches - 1
    /\ resident' \in {resident, [resident EXCEPT ![i] = "plan"]}
    /\ GroupEnds(i, FALSE) /\ Group /\ UNCHANGED <<exporting, planned>>

GroupRefused(i) ==
    /\ i \in job.left /\ ~PlanPermitted
    /\ GroupEnds(i, FALSE) /\ Group /\ UNCHANGED <<devices, planned, glitches>>

-----------------------------------------------------------------------------
(* Everything else that happens *)

\* async_retry_export_records: an armed half whose authority is gone is cleared.
ClearExport ==
    /\ Running /\ exporting /\ auth.mode # "observe"
    /\ \A n \in 1 .. Len(auth.steps) : auth.steps[n] # "cancel_export"
    /\ auth.mode # "optimise" \/ InManual \/ auth.active
    /\ exporting' = FALSE
    /\ UNCHANGED <<auth, status, phase, evidence, resident, memory, planned, budgets>>

\* An owner's own schedule, where the entities take one.
OwnerWrites(i) ==
    /\ Running /\ auth.target = "none"
    /\ InManual \/ (auth.mode # "optimise" /\ ~auth.active)
    /\ resident' = [resident EXCEPT ![i] = "owner"]
    /\ UNCHANGED <<auth, status, phase, evidence, exporting, memory, planned, budgets>>

\* The add-on falls silent or its SoC fails; both recover by continuing to be well.
Lose ==
    /\ surprises > 0 /\ evidence # "bad"
    /\ surprises' = surprises - 1 /\ evidence' = "bad"
    /\ UNCHANGED <<auth, status, phase, devices, memory, planned, requests, glitches, faults,
                   restarts>>

Recover ==
    /\ evidence # "recovered"
    /\ evidence' = IF evidence = "bad" THEN "fine" ELSE "recovered"
    /\ UNCHANGED <<auth, status, phase, devices, memory, planned, budgets>>

\* Home Assistant restarts: the record is read again, whichever of the two a failed save
\* left, and everything learned in memory is gone.
Restart ==
    /\ restarts > 0 /\ restarts' = restarts - 1
    /\ status' = "ok" /\ phase' = "starting"
    /\ verified' = Unverified /\ NoExit /\ job' = NoJob /\ lastApply' = NoApply
    /\ UNCHANGED <<auth, evidence, devices, planned, requests, surprises, glitches, faults>>

\* AuthorityControl.async_start: a session that expired meanwhile expires now, and then
\* the grace begins, in which only protection writes.
Startup ==
    /\ phase = "starting" /\ status = "ok" /\ phase' = "grace"
    /\ \/ UNCHANGED <<auth, status, faults>>
       \/ auth.timed /\ CanResume /\ (Saved(Resumed) \/ SaveFails({Resumed}))
    /\ UNCHANGED <<evidence, devices, memory, planned, requests, surprises, glitches, restarts>>

GraceEnds ==
    /\ phase = "grace" /\ phase' = "ready"
    /\ UNCHANGED <<auth, status, evidence, devices, memory, planned, budgets>>

-----------------------------------------------------------------------------
Owner == \/ \E timed, keep \in BOOLEAN : StartManual(timed, keep)
         \/ \E mode \in Modes : ChangeReturn(mode)
         \/ Resume \/ Observe \/ ToOptimise \/ ToProtect \/ NewSession

Evaluate == EnterFallback \/ KeepFallback \/ ClearCauses \/ RetryExit \/ EndFallback \/ AwaitExitPlan

Advance == \/ VerifyFreshPlan \/ CancelExport \/ WriteFallbackStep \/ SkipFallback \/ Protection
           \/ Claim

ApplyGroup == \E i \in Inverters : GroupApplies(i) \/ GroupFails(i) \/ GroupRefused(i)

Next ==
    \/ Owner \/ Expire \/ Repair \/ Evaluate \/ RetryOver \/ ReapplyAgain \/ Advance
    \/ AcceptPlan \/ ApplyGroup \/ ClearExport \/ (\E i \in Inverters : OwnerWrites(i))
    \/ Lose \/ Recover \/ Restart \/ Startup \/ GraceEnds

Spec == Init /\ [][Next]_vars

\* The ticks evaluate and retry, an apply that began ends, timers run out, the add-on
\* recovers and plans again.
Fairness ==
    /\ WF_vars(Evaluate) /\ WF_vars(Advance) /\ WF_vars(Expire) /\ WF_vars(RetryOver)
    /\ WF_vars(ReapplyAgain) /\ WF_vars(AcceptPlan) /\ WF_vars(ApplyGroup) /\ WF_vars(Recover)
    /\ WF_vars(Startup) /\ WF_vars(GraceEnds)
FairSpec == Spec /\ Fairness

-----------------------------------------------------------------------------
(* Properties *)

\* AuthorityControl._advance: Optimise is left for Observe or Protect only with its export
\* cancelled, and by a handover to Protect only with the owner's starting schedule on
\* every inverter, whatever superseded or restarted it; a repair promises nothing.
LeftClean ==
    [][auth.mode = "optimise" /\ auth'.mode # "optimise" /\ auth'.store = auth.store
         => /\ ~exporting'
            /\ auth.target = "protect" => \A i \in Inverters : resident'[i] = "fallback"]_vars

\* NativeFallback._exit_pending: fallback ends in Optimise only after plans have written
\* every inverter since the causes cleared.
EndsOnPlan ==
    [][auth.active /\ ~auth'.active /\ auth'.mode = "optimise" => planned = Inverters]_vars

\* NativeFallback.in_force: what is reported in force was read back.
InForce ==
    status = "ok" /\ auth.active /\ auth.causes /\ (\A i \in Inverters : verified[i] = auth.epoch)
      => \A i \in Inverters : resident[i] = "fallback"

\* AuthorityStore._fresh_observe: epochs begin again after a repair, and still no plan that
\* was accepted before it writes after it.
NoOldPlan ==
    [][\A i \in Inverters : resident'[i] = "plan" /\ resident[i] # "plan"
         => job.store = auth.store]_vars

\* AuthorityControl.async_expire: a session with a deadline ends; async_retry: so does a handover
\* to Observe or Protect.
SwitchesEnd ==
    /\ auth.timed ~> (~auth.timed \/ status # "ok")
    /\ \A mode \in {"observe", "protect"} :
         auth.target = mode ~> (auth.target # mode \/ status # "ok")

\* The activation of Optimise ends once a fresh plan has been applied and verified.
ActivationEnds ==
    (auth.target = "optimise" /\ FreshPlan) ~> (auth.target # "optimise" \/ status # "ok")
=============================================================================
