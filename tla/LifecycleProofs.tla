---------------------------- MODULE LifecycleProofs ----------------------------
(***************************************************************************)
(* Proofs about the authority lifecycle, for every set of inverters and    *)
(* every budget of requests and faults: the types, that Optimise is left   *)
(* clean, that fallback ends only on plans, that no plan writes in a store *)
(* it was not accepted in, and that without a repair what is reported in   *)
(* force is.                                                               *)
(***************************************************************************)
EXTENDS AuthorityLifecycle, SequenceTheorems, TLAPS

-----------------------------------------------------------------------------
(* Records *)

\* The steps that requests ask for.
LEMMA StepSequences ==
  /\ <<>> \in Seq(Steps) /\ <<"cancel_export">> \in Seq(Steps)
  /\ <<"release_holds">> \in Seq(Steps)
  /\ <<"cancel_export", "write_fallback">> \in Seq(Steps)
BY DEF Steps

\* An authority record's fields.
LEMMA AuthorityFields ==
  ASSUME NEW a \in Authority
  PROVE  /\ a.store \in Nat /\ a.epoch \in Nat /\ a.mode \in Modes
         /\ a.target \in Modes \union {"none"} /\ a.steps \in Seq(Steps)
         /\ a.returnTo \in Modes \union {"none"} /\ a.timed \in BOOLEAN
         /\ a.active \in BOOLEAN /\ a.causes \in BOOLEAN
BY DEF Authority

\* A grant changes the epoch and keeps the rest.
LEMMA GrantedRecord ==
  ASSUME NEW a \in Authority, auth \in Authority
  PROVE  /\ Granted(a) \in Authority
         /\ Granted(a).mode = a.mode /\ Granted(a).target = a.target /\ Granted(a).steps = a.steps
         /\ Granted(a).returnTo = a.returnTo /\ Granted(a).store = a.store
         /\ Granted(a).active = a.active /\ Granted(a).causes = a.causes
<1>1. auth.epoch + 1 \in Nat
  BY AuthorityFields
<1> QED
  BY <1>1, SMTT(60) DEF Granted, Authority

\* A handover sets the target and the steps, and keeps the rest.
LEMMA HandoverRecord ==
  ASSUME NEW a \in Authority, NEW target \in Modes, NEW steps \in Seq(Steps), auth \in Authority
  PROVE  LET h == Handover(a, target, steps)
         IN  /\ h \in Authority /\ h.mode = a.mode /\ h.steps = steps
             /\ h.target = IF steps = <<>> THEN "none" ELSE target
             /\ h.returnTo = a.returnTo /\ h.store = a.store
             /\ h.active = a.active /\ h.causes = a.causes
<1>1. [a EXCEPT !.steps = steps, !.target = IF steps = <<>> THEN "none" ELSE target] \in Authority
  BY DEF Authority
<1> QED
  BY <1>1, GrantedRecord DEF Handover, Authority

\* A claim takes the target as the mode, and is no longer a transition.
LEMMA CommittedRecord ==
  ASSUME NEW a \in Authority, a.target \in Modes
  PROVE  LET c == Committed(a)
         IN  /\ c \in Authority /\ c.mode = a.target /\ c.target = "none" /\ c.steps = a.steps
             /\ c.returnTo = a.returnTo /\ c.store = a.store
             /\ c.active => a.active
             /\ a.active /\ ~c.active => a.target # "optimise"
<1> DEFINE ends == a.active /\ a.returnTo = "none" /\ a.target # "optimise"
           b    == [a EXCEPT !.mode = a.target, !.target = "none"]
           c    == [b EXCEPT !.active = b.active /\ ~ends, !.causes = b.causes /\ ~ends,
                             !.epoch = IF ends THEN b.epoch + 1 ELSE b.epoch]
<1>1. b \in Authority /\ b.mode = a.target /\ b.target = "none" /\ b.steps = a.steps
      /\ b.returnTo = a.returnTo /\ b.store = a.store /\ b.active = a.active
      /\ b.causes = a.causes /\ b.epoch = a.epoch
  BY DEF Authority
<1>2. (b.active /\ ~ends) \in BOOLEAN /\ (b.causes /\ ~ends) \in BOOLEAN
      /\ (IF ends THEN b.epoch + 1 ELSE b.epoch) \in Nat
  BY <1>1, AuthorityFields
<1>3. Committed(a) = c
  BY <1>1 DEF Committed, Authority
<1> HIDE DEF b
<1>4. c \in Authority /\ c.mode = b.mode /\ c.target = b.target /\ c.steps = b.steps
      /\ c.returnTo = b.returnTo /\ c.store = b.store
  BY <1>1, <1>2 DEF Authority
<1>5. c.active = (b.active /\ ~ends)
  BY <1>1 DEF Authority
<1> QED
  BY <1>1, <1>3, <1>4, <1>5

\* What is left of a transition after its first step.
LEMMA ProgressedRecord ==
  ASSUME auth \in Authority, auth.steps # <<>>
  PROVE  /\ Progressed \in Authority /\ Progressed.steps = Tail(auth.steps)
         /\ Progressed.mode = auth.mode /\ Progressed.target = auth.target
         /\ Progressed.returnTo = auth.returnTo /\ Progressed.store = auth.store
         /\ Progressed.active = auth.active
<1>1. Tail(auth.steps) \in Seq(Steps)
  BY HeadTailProperties DEF Authority
<1> QED
  BY <1>1 DEF Progressed, Authority

\* A resumed session has returned to its mode, as a handover.
LEMMA ResumedRecord ==
  ASSUME auth \in Authority, CanResume
  PROVE  /\ Resumed \in Authority /\ Resumed.mode = auth.returnTo /\ Resumed.returnTo = "none"
         /\ Resumed.store = auth.store /\ Resumed.active = auth.active
         /\ Resumed.target = auth.returnTo
<1> DEFINE a == [auth EXCEPT !.mode = auth.returnTo, !.returnTo = "none", !.timed = FALSE]
<1>1. a \in Authority /\ auth.returnTo \in Modes /\ a.mode = auth.returnTo /\ a.returnTo = "none"
      /\ a.store = auth.store /\ a.active = auth.active
  BY DEF Authority, CanResume, InManual
<1>2. ResumeSteps \in Seq(Steps) /\ ResumeSteps # <<>>
  BY DEF ResumeSteps, Steps
<1>3. Resumed = Handover(a, auth.returnTo, ResumeSteps)
  BY DEF Resumed
<1> HIDE DEF a
<1> QED
  BY <1>1, <1>2, <1>3, HandoverRecord

\* What a save leaves, verified or not.
LEMMA SaveTypes ==
  ASSUME TypeOK, NEW c \in Authority, NEW S \in SUBSET Authority, Saved(c) \/ SaveFails(S)
  PROVE  auth' \in Authority /\ status' \in {"ok", "save_failed"} /\ faults' \in Nat
BY DEF TypeOK, Saved, SaveFails

\* A request that is made leaves only the authority changed.
LEMMA RequestTypes ==
  ASSUME TypeOK, NEW c \in Authority, Request(c), requests' \in Nat
  PROVE  TypeOK'
<1>1. auth' \in Authority /\ status' \in {"ok", "save_failed"} /\ faults' \in Nat
  <2>1. {c} \in SUBSET Authority
    OBVIOUS
  <2> QED
    BY <2>1, SaveTypes DEF Request
<1> QED
  BY <1>1 DEF Request, TypeOK, devices, memory

-----------------------------------------------------------------------------
(* Types *)

\* Every request proposes an authority record.
LEMMA OwnerTypes ==
  ASSUME TypeOK, Owner \/ Expire
  PROVE  TypeOK'
<1>1. auth \in Authority /\ requests \in Nat
  BY DEF TypeOK
<1> USE <1>1
<1>2. ASSUME NEW timed \in BOOLEAN, NEW keep \in BOOLEAN, StartManual(timed, keep) PROVE TypeOK'
  <2> DEFINE a == [auth EXCEPT !.returnTo = auth.mode, !.timed = timed]
             steps == ExportSteps(auth.mode) \o (IF keep THEN <<>> ELSE <<"release_holds">>)
  <2>1. a \in Authority /\ auth.mode \in Modes
    BY DEF Authority
  <2>2. steps \in Seq(Steps)
    <3>1. ExportSteps(auth.mode) \in Seq(Steps)
      BY StepSequences DEF ExportSteps
    <3>2. (IF keep THEN <<>> ELSE <<"release_holds">>) \in Seq(Steps)
      BY StepSequences
    <3> QED
      BY <3>1, <3>2, ConcatProperties
  <2>3. Request(Handover(a, auth.mode, steps)) /\ requests' \in Nat
    BY <1>2 DEF StartManual, Asked
  <2> HIDE DEF a, steps
  <2> QED
    BY <2>1, <2>2, <2>3, HandoverRecord, RequestTypes
<1>3. ASSUME NEW mode \in Modes, ChangeReturn(mode) PROVE TypeOK'
  <2>1. [auth EXCEPT !.returnTo = mode] \in Authority
    BY DEF Authority
  <2> QED
    BY <1>3, <2>1, GrantedRecord, RequestTypes DEF ChangeReturn, Asked
<1>4. CASE Resume
  BY <1>4, ResumedRecord, RequestTypes DEF Resume, Asked
<1>5. CASE Expire
  BY <1>5, ResumedRecord, RequestTypes DEF Expire
<1>6. CASE Observe
  <2>1. PICK first \in {<<"cancel_export", "write_fallback">>, <<"cancel_export">>, <<>>} :
          Request(Handover([auth EXCEPT !.returnTo = "none", !.timed = FALSE], "observe",
                           Append(first, "release_holds")))
    BY <1>6 DEF Observe
  <2>2. Append(first, "release_holds") \in Seq(Steps)
    <3>1. first \in Seq(Steps) /\ "release_holds" \in Steps
      BY StepSequences DEF Steps
    <3> QED
      BY <3>1, AppendProperties
  <2>3. [auth EXCEPT !.returnTo = "none", !.timed = FALSE] \in Authority /\ "observe" \in Modes
    BY DEF Authority, Modes
  <2>4. requests' \in Nat
    BY <1>6 DEF Observe, Asked
  <2> QED
    BY <2>1, <2>2, <2>3, <2>4, HandoverRecord, RequestTypes
<1>7. CASE ToOptimise
  <2>1. [auth EXCEPT !.mode = "optimise"] \in Authority /\ "optimise" \in Modes
        /\ <<"verify_fresh_plan">> \in Seq(Steps)
    BY DEF Authority, Modes, Steps
  <2>2. Handover([auth EXCEPT !.mode = "optimise"], "optimise", <<"verify_fresh_plan">>)
          \in Authority
    BY <2>1, HandoverRecord
  <2> QED
    BY <1>7, <2>2, RequestTypes DEF ToOptimise, Asked
<1>8. CASE ToProtect
  <2>1. [auth EXCEPT !.mode = "protect"] \in Authority /\ "protect" \in Modes
        /\ <<"evaluate_protection">> \in Seq(Steps)
        /\ <<"cancel_export", "write_fallback">> \in Seq(Steps)
    BY DEF Authority, Modes, Steps
  <2>2. /\ Handover(auth, "protect", <<"cancel_export", "write_fallback">>) \in Authority
        /\ Handover([auth EXCEPT !.mode = "protect"], "protect", <<"evaluate_protection">>)
             \in Authority
    BY <2>1, HandoverRecord
  <2> QED
    BY <1>8, <2>2, RequestTypes DEF ToProtect, Asked
<1>9. CASE NewSession
  BY <1>9, GrantedRecord, RequestTypes DEF NewSession, Asked
<1> QED
  BY <1>2, <1>3, <1>4, <1>5, <1>6, <1>7, <1>8, <1>9 DEF Owner

\* Writing the fallback schedule.
LEMMA FallbackTypes ==
  ASSUME TypeOK, NEW before \in [Inverters -> Nat], NEW targets \in SUBSET Inverters,
         NEW epoch \in Nat, ApplyFallback(before, targets, epoch)
  PROVE  resident' \in [Inverters -> Writers] /\ verified' \in [Inverters -> Nat]
         /\ glitches' \in Nat
<1>1. PICK done \in SUBSET targets : WriteFallback(before, targets, epoch, done)
  BY DEF ApplyFallback
<1>2. PICK torn \in SUBSET (targets \ done) :
        /\ \/ done = targets /\ UNCHANGED glitches
           \/ done # targets /\ glitches > 0 /\ glitches' = glitches - 1
        /\ resident' = [i \in Inverters |-> IF i \in done \union torn THEN "fallback" ELSE resident[i]]
        /\ verified' = [i \in Inverters |-> IF i \in done THEN epoch ELSE before[i]]
  BY <1>1 DEF WriteFallback
<1>3. resident' \in [Inverters -> Writers]
  BY <1>2 DEF TypeOK, Writers
<1>4. verified' \in [Inverters -> Nat]
  BY <1>2
<1>5. glitches' \in Nat
  BY <1>2 DEF TypeOK
<1> QED
  BY <1>3, <1>4, <1>5

\* The evaluation's saves and writes.
LEMMA EvaluateTypes ==
  ASSUME TypeOK, Evaluate \/ RetryOver \/ ReapplyAgain
  PROVE  TypeOK'
<1>1. auth \in Authority /\ auth.epoch \in Nat /\ verified \in [Inverters -> Nat]
      /\ Unverified \in [Inverters -> Nat]
  BY DEF TypeOK, Authority, Unverified
<1>2. Uncount => job' \in Job /\ lastApply' \in Apply
  BY DEF Uncount, TypeOK, Job, Apply
<1>3. ReapplyIfDue => /\ resident' \in [Inverters -> Writers] /\ verified' \in [Inverters -> Nat]
                      /\ glitches' \in Nat /\ reapply' \in BOOLEAN
  <2>1. CASE ApplyFallback(verified, Inverters, auth.epoch) /\ reapply' = FALSE
    BY <1>1, <2>1, FallbackTypes
  <2>2. CASE UNCHANGED <<resident, verified, reapply, glitches>>
    BY <2>2 DEF TypeOK
  <2> QED
    BY <2>1, <2>2 DEF ReapplyIfDue
<1>4. CASE EnterFallback
  <2> DEFINE entered == Granted([auth EXCEPT !.active = TRUE, !.causes = TRUE])
  <2>1. entered \in Authority
    <3>1. [auth EXCEPT !.active = TRUE, !.causes = TRUE] \in Authority
      BY <1>1 DEF Authority
    <3> QED
      BY <1>1, <3>1, GrantedRecord
  <2>2. /\ \/ /\ Saved(entered)
              /\ exporting' \in {exporting, FALSE}
              /\ ApplyFallback(verified, Due(verified, entered.epoch), entered.epoch)
              /\ NoExit
           \/ /\ SaveFails({entered})
              /\ UNCHANGED <<devices, verified, exiting, retrying, reapply, glitches>>
        /\ UNCHANGED <<phase, evidence, job, lastApply, planned, requests, surprises, restarts>>
    BY <1>4 DEF EnterFallback
  <2> HIDE DEF entered
  <2>3. entered.epoch \in Nat /\ Due(verified, entered.epoch) \in SUBSET Inverters
        /\ {entered} \in SUBSET Authority
    BY <2>1, AuthorityFields DEF Due
  <2>4. auth' \in Authority /\ status' \in {"ok", "save_failed"} /\ faults' \in Nat
    BY <2>1, <2>2, <2>3, SaveTypes
  <2>5. CASE ApplyFallback(verified, Due(verified, entered.epoch), entered.epoch) /\ NoExit
             /\ exporting' \in {exporting, FALSE}
    <3>1. resident' \in [Inverters -> Writers] /\ verified' \in [Inverters -> Nat]
          /\ glitches' \in Nat
      BY <1>1, <2>3, <2>5, FallbackTypes
    <3> QED
      BY <2>2, <2>4, <2>5, <3>1 DEF TypeOK, NoExit
  <2>6. CASE UNCHANGED <<devices, verified, exiting, retrying, reapply, glitches>>
    BY <2>2, <2>4, <2>6 DEF TypeOK, devices
  <2> QED
    BY <2>2, <2>5, <2>6
<1>5. CASE KeepFallback
  <2> DEFINE kept == [auth EXCEPT !.causes = TRUE]
  <2>1. kept \in Authority /\ {kept} \in SUBSET Authority
    BY <1>1 DEF Authority
  <2>2. Believed \in [Inverters -> Nat] /\ Due(Believed, auth.epoch) \in SUBSET Inverters
    BY <1>1 DEF Believed, Due
  <2>3. /\ \/ /\ Saved(kept)
              /\ ApplyFallback(Believed, Due(Believed, auth.epoch), auth.epoch)
              /\ NoExit
           \/ /\ SaveFails({kept})
              /\ verified' = Believed
              /\ UNCHANGED <<resident, exiting, retrying, reapply, glitches>>
        /\ planned' = {}
        /\ UNCHANGED <<phase, evidence, exporting, job, lastApply, requests, surprises, restarts>>
    BY <1>5 DEF KeepFallback
  <2> HIDE DEF kept
  <2>4. auth' \in Authority /\ status' \in {"ok", "save_failed"} /\ faults' \in Nat
    BY <2>1, <2>3, SaveTypes
  <2>5. CASE ApplyFallback(Believed, Due(Believed, auth.epoch), auth.epoch) /\ NoExit
    <3>1. resident' \in [Inverters -> Writers] /\ verified' \in [Inverters -> Nat]
          /\ glitches' \in Nat
      BY <1>1, <2>2, <2>5, FallbackTypes
    <3> QED
      BY <2>3, <2>4, <2>5, <3>1 DEF TypeOK, NoExit
  <2>6. CASE verified' = Believed /\ UNCHANGED <<resident, exiting, retrying, reapply, glitches>>
    BY <2>2, <2>3, <2>4, <2>6 DEF TypeOK
  <2> QED
    BY <2>3, <2>5, <2>6
<1>6. CASE ClearCauses
  <2> DEFINE cleared == [auth EXCEPT !.causes = FALSE]
  <2>1. cleared \in Authority /\ {cleared} \in SUBSET Authority
    BY <1>1 DEF Authority
  <2>2. /\ \/ Saved(cleared) /\ ReapplyIfDue /\ exiting' = TRUE /\ Uncount
           \/ SaveFails({cleared}) /\ UNCHANGED <<resident, memory, glitches>>
        /\ planned' = {} /\ UNCHANGED <<retrying>>
        /\ UNCHANGED <<phase, evidence, exporting, requests, surprises, restarts>>
    BY <1>6 DEF ClearCauses
  <2> HIDE DEF cleared
  <2>3. auth' \in Authority /\ status' \in {"ok", "save_failed"} /\ faults' \in Nat
    BY <2>1, <2>2, SaveTypes
  <2>4. CASE ReapplyIfDue /\ exiting' = TRUE /\ Uncount
    BY <1>2, <1>3, <2>2, <2>3, <2>4 DEF TypeOK
  <2>5. CASE UNCHANGED <<resident, memory, glitches>>
    BY <2>2, <2>3, <2>5 DEF TypeOK, memory
  <2> QED
    BY <2>2, <2>4, <2>5
<1>7. CASE RetryExit
  <2>1. resident' \in [Inverters -> Writers] /\ verified' \in [Inverters -> Nat]
        /\ glitches' \in Nat
    BY <1>1, <1>7, FallbackTypes DEF RetryExit
  <2> QED
    BY <1>7, <2>1 DEF RetryExit, TypeOK
<1>8. CASE EndFallback
  <2> DEFINE ended == Granted([auth EXCEPT !.active = FALSE])
  <2>1. ended \in Authority /\ {ended} \in SUBSET Authority
    <3>1. [auth EXCEPT !.active = FALSE] \in Authority
      BY <1>1 DEF Authority
    <3> QED
      BY <1>1, <3>1, GrantedRecord
  <2>2. /\ \/ Saved(ended) /\ verified' = Unverified /\ NoExit
           \/ SaveFails({ended}) /\ UNCHANGED <<verified, exiting, retrying, reapply>>
        /\ UNCHANGED <<phase, evidence, devices, job, lastApply, planned, requests, surprises,
                       glitches, restarts>>
    BY <1>8 DEF EndFallback
  <2> HIDE DEF ended
  <2>3. auth' \in Authority /\ status' \in {"ok", "save_failed"} /\ faults' \in Nat
    BY <2>1, <2>2, SaveTypes
  <2> QED
    BY <1>1, <2>2, <2>3 DEF TypeOK, NoExit, devices
<1>9. CASE AwaitExitPlan
  <2>1. job' \in Job /\ lastApply' \in Apply
    BY <1>2, <1>9 DEF AwaitExitPlan, TypeOK
  <2> QED
    BY <1>3, <1>9, <2>1 DEF AwaitExitPlan, TypeOK
<1>10. CASE RetryOver
  BY <1>2, <1>10 DEF RetryOver, TypeOK, devices, budgets
<1>11. CASE ReapplyAgain
  BY <1>11 DEF ReapplyAgain, TypeOK, devices, budgets
<1> QED
  BY <1>4, <1>5, <1>6, <1>7, <1>8, <1>9, <1>10, <1>11 DEF Evaluate

\* The steps of a transition.
LEMMA AdvanceTypes ==
  ASSUME TypeOK, Advance
  PROVE  TypeOK'
<1>1. auth \in Authority /\ auth.epoch \in Nat
  BY DEF TypeOK, Authority
<1>2. CanAdvance => auth.target \in Modes
  BY <1>1 DEF CanAdvance, Authority
<1>3. ASSUME auth.steps # <<>>, CanAdvance, Advances
      PROVE  auth' \in Authority /\ status' \in {"ok", "save_failed"} /\ faults' \in Nat
  <2>1. Progressed \in Authority /\ Committed(Progressed) \in Authority
    BY <1>1, <1>2, <1>3, ProgressedRecord, CommittedRecord
  <2> DEFINE claim == IF Progressed.steps = <<>> THEN Committed(Progressed) ELSE Progressed
  <2>2. Saved(claim) \/ SaveFails({Progressed, claim})
    BY <1>3 DEF Advances
  <2>3. claim \in Authority /\ {Progressed, claim} \in SUBSET Authority
    BY <2>1
  <2> HIDE DEF claim
  <2> QED
    BY <2>2, <2>3, SaveTypes
<1>4. Stays => auth' \in Authority /\ status' \in {"ok", "save_failed"} /\ faults' \in Nat
  <2>1. {} \in SUBSET Authority
    OBVIOUS
  <2> QED
    BY <1>1, <2>1, SaveTypes DEF Stays
<1>5. CASE VerifyFreshPlan
  <2>1. auth' \in Authority /\ status' \in {"ok", "save_failed"} /\ faults' \in Nat
    BY <1>3, <1>5 DEF VerifyFreshPlan, At
  <2> QED
    BY <1>5, <2>1 DEF VerifyFreshPlan, Stepping, TypeOK, devices
<1>6. CASE CancelExport
  <2>1. auth' \in Authority /\ status' \in {"ok", "save_failed"} /\ faults' \in Nat
    BY <1>3, <1>4, <1>6 DEF CancelExport, At
  <2>2. exporting' \in BOOLEAN
    BY <1>6 DEF CancelExport, TypeOK
  <2>3. glitches' \in Nat
    <3>1. UNCHANGED glitches \/ (glitches > 0 /\ glitches' = glitches - 1)
      BY <1>6 DEF CancelExport
    <3> QED
      BY <3>1 DEF TypeOK
  <2> QED
    BY <1>6, <2>1, <2>2, <2>3 DEF CancelExport, Stepping, TypeOK
<1>7. CASE WriteFallbackStep
  <2>1. auth' \in Authority /\ status' \in {"ok", "save_failed"} /\ faults' \in Nat
    BY <1>3, <1>4, <1>7 DEF WriteFallbackStep, At
  <2>2. resident' \in [Inverters -> Writers] /\ verified' \in [Inverters -> Nat]
        /\ glitches' \in Nat
    <3>1. CASE ApplyFallback(verified, Inverters, auth.epoch)
      BY <1>1, <3>1, FallbackTypes DEF TypeOK
    <3>2. CASE UNCHANGED <<resident, verified, glitches>>
      BY <3>2 DEF TypeOK
    <3> QED
      BY <1>7, <3>1, <3>2 DEF WriteFallbackStep, ApplyFallback
  <2> QED
    BY <1>7, <2>1, <2>2 DEF WriteFallbackStep, Stepping, TypeOK
<1>8. CASE SkipFallback
  <2>1. auth' \in Authority /\ status' \in {"ok", "save_failed"} /\ faults' \in Nat
    BY <1>3, <1>8 DEF SkipFallback, At
  <2>2. PICK done \in SUBSET Inverters :
          /\ resident' = [i \in Inverters |-> IF i \in done THEN "fallback" ELSE resident[i]]
          /\ verified' = [i \in Inverters |-> IF i \in done THEN auth.epoch ELSE verified[i]]
    BY <1>8 DEF SkipFallback
  <2>3. resident' \in [Inverters -> Writers]
    BY <2>2 DEF TypeOK, Writers
  <2>4. verified' \in [Inverters -> Nat]
    BY <1>1, <2>2 DEF TypeOK
  <2> QED
    BY <1>8, <2>1, <2>3, <2>4 DEF SkipFallback, Stepping, TypeOK
<1>9. CASE Protection
  <2>1. auth' \in Authority /\ status' \in {"ok", "save_failed"} /\ faults' \in Nat
    BY <1>3, <1>4, <1>9 DEF Protection, At
  <2> QED
    BY <1>9, <2>1 DEF Protection, Stepping, TypeOK, devices
<1>10. CASE Claim
  <2>1. Committed(auth) \in Authority /\ {Committed(auth)} \in SUBSET Authority
    BY <1>1, <1>2, <1>10, CommittedRecord DEF Claim
  <2>2. auth' \in Authority /\ status' \in {"ok", "save_failed"} /\ faults' \in Nat
    BY <1>10, <2>1, SaveTypes DEF Claim
  <2> QED
    BY <1>10, <2>2 DEF Claim, Stepping, TypeOK, devices
<1> QED
  BY <1>5, <1>6, <1>7, <1>8, <1>9, <1>10 DEF Advance

\* Plans, one inverter after the other.
LEMMA PlanTypes ==
  ASSUME TypeOK, AcceptPlan \/ ApplyGroup
  PROVE  TypeOK'
<1>1. CASE AcceptPlan
  BY <1>1 DEF AcceptPlan, TypeOK, Authority, Job, devices, budgets
<1>2. ASSUME NEW i \in Inverters, NEW ok \in BOOLEAN, GroupEnds(i, ok)
      PROVE  job' \in Job /\ lastApply' \in Apply
  <2> DEFINE rest == [job EXCEPT !.left = @ \ {i}, !.ok = @ /\ ok]
  <2>1. rest \in Job /\ NoJob \in Job
    BY DEF TypeOK, Job, NoJob
  <2>2. [store |-> job.store, epoch |-> job.epoch, ok |-> rest.ok, counts |-> job.counts] \in Apply
    BY <2>1 DEF TypeOK, Job, Apply
  <2> QED
    BY <1>2, <2>1, <2>2 DEF GroupEnds, TypeOK
<1>3. ASSUME NEW i \in Inverters, GroupApplies(i) PROVE TypeOK'
  <2>1. job' \in Job /\ lastApply' \in Apply
    BY <1>2, <1>3 DEF GroupApplies
  <2>2. resident' \in [Inverters -> Writers] /\ exporting' \in BOOLEAN
        /\ planned' \in SUBSET Inverters
    BY <1>3 DEF GroupApplies, TypeOK, Writers
  <2> QED
    BY <1>3, <2>1, <2>2 DEF GroupApplies, Group, TypeOK
<1>4. ASSUME NEW i \in Inverters, GroupFails(i) PROVE TypeOK'
  <2>1. job' \in Job /\ lastApply' \in Apply
    BY <1>2, <1>4 DEF GroupFails
  <2>2. resident' \in [Inverters -> Writers] /\ glitches' \in Nat
    BY <1>4 DEF GroupFails, TypeOK, Writers
  <2> QED
    BY <1>4, <2>1, <2>2 DEF GroupFails, Group, TypeOK
<1>5. ASSUME NEW i \in Inverters, GroupRefused(i) PROVE TypeOK'
  <2>1. job' \in Job /\ lastApply' \in Apply
    BY <1>2, <1>5 DEF GroupRefused
  <2> QED
    BY <1>5, <2>1 DEF GroupRefused, Group, TypeOK, devices
<1> QED
  BY <1>1, <1>3, <1>4, <1>5 DEF ApplyGroup

\* Everything else that happens.
LEMMA WorldTypes ==
  ASSUME TypeOK,
         \/ Repair \/ ClearExport \/ (\E i \in Inverters : OwnerWrites(i))
         \/ Lose \/ Recover \/ Restart \/ Startup \/ GraceEnds
  PROVE  TypeOK'
<1>1. CASE Repair
  <2>1. FreshObserve(auth.store + 1) \in Authority
    BY DEF TypeOK, Authority, FreshObserve, Modes
  <2> QED
    BY <1>1, <2>1 DEF Repair, TypeOK, devices, memory, budgets
<1>2. CASE ClearExport
  BY <1>2 DEF ClearExport, TypeOK, memory, budgets
<1>3. ASSUME NEW i \in Inverters, OwnerWrites(i) PROVE TypeOK'
  <2>1. resident' \in [Inverters -> Writers]
    BY <1>3 DEF OwnerWrites, TypeOK, Writers
  <2> QED
    BY <1>3, <2>1 DEF OwnerWrites, TypeOK, memory, budgets
<1>4. CASE Lose \/ Recover
  BY <1>4 DEF Lose, Recover, TypeOK, devices, memory, budgets
<1>5. CASE Restart
  <2>1. NoJob \in Job /\ NoApply \in Apply /\ Unverified \in [Inverters -> Nat]
    BY DEF NoJob, NoApply, Job, Apply, Unverified
  <2>2. restarts' \in Nat /\ requests' \in Nat /\ surprises' \in Nat /\ glitches' \in Nat
        /\ faults' \in Nat /\ auth' \in Authority /\ evidence' \in {"bad", "fine", "recovered"}
        /\ resident' \in [Inverters -> Writers] /\ exporting' \in BOOLEAN
        /\ planned' \in SUBSET Inverters
    BY <1>5 DEF Restart, TypeOK, devices
  <2> QED
    BY <1>5, <2>1, <2>2 DEF Restart, TypeOK, NoExit, devices
<1>6. CASE Startup
  <2>1. auth' \in Authority /\ status' \in {"ok", "save_failed"} /\ faults' \in Nat
    <3>1. CASE UNCHANGED <<auth, status, faults>>
      BY <3>1 DEF TypeOK
    <3>2. CASE CanResume /\ (Saved(Resumed) \/ SaveFails({Resumed}))
      <4>1. Resumed \in Authority /\ {Resumed} \in SUBSET Authority
        BY <3>2, ResumedRecord DEF TypeOK
      <4> QED
        BY <3>2, <4>1, SaveTypes
    <3> QED
      BY <1>6, <3>1, <3>2 DEF Startup
  <2> QED
    BY <1>6, <2>1 DEF Startup, TypeOK, devices, memory
<1>7. CASE GraceEnds
  BY <1>7 DEF GraceEnds, TypeOK, devices, memory, budgets
<1> QED
  BY <1>1, <1>2, <1>3, <1>4, <1>5, <1>6, <1>7

\* Every step keeps the types.
LEMMA TypesKept ==
  ASSUME TypeOK, [Next]_vars
  PROVE  TypeOK'
<1>1. CASE UNCHANGED vars
  BY <1>1 DEF vars, TypeOK
<1> QED
  BY <1>1, OwnerTypes, EvaluateTypes, AdvanceTypes, PlanTypes, WorldTypes DEF Next

\* Every variable of the lifecycle keeps its type, whatever is requested, lost or fails.
THEOREM TypeCorrect == Spec => []TypeOK
<1>1. Init => TypeOK
  <2>1. FreshObserve(1) \in Authority
    BY DEF FreshObserve, Authority, Modes
  <2>2. NoJob \in Job /\ NoApply \in Apply
    BY DEF NoJob, NoApply, Job, Apply
  <2>3. [i \in Inverters |-> "owner"] \in [Inverters -> Writers]
        /\ Unverified \in [Inverters -> Nat]
    BY DEF Writers, Unverified
  <2> QED
    BY <2>1, <2>2, <2>3, LimitsAssumption DEF Init, TypeOK
<1> QED
  BY <1>1, TypesKept, PTL DEF Spec

-----------------------------------------------------------------------------
(* Leaving Optimise *)

Has(steps, step) == \E n \in 1 .. Len(steps) : steps[n] = step
OnFallback(written) == \A i \in Inverters : written[i] = "fallback"

\* A transition toward Optimise is in Optimise, and one without steps to come is over.  In
\* Optimise, whoever is taking over has the export cancelled or still to cancel, and Protect
\* has the fallback schedule on every inverter or still to write.
Clean(a, armed, written) ==
    /\ a.target = "none" => a.steps = <<>>
    /\ a.target = "optimise" => a.mode = "optimise"
    /\ a.mode = "optimise" =>
         /\ a.returnTo # "none" => a.target \in {"none", "optimise"}
         /\ armed /\ (a.returnTo # "none" \/ a.target \in {"protect", "observe"})
              => Has(a.steps, "cancel_export")
         /\ a.target = "protect" => Has(a.steps, "write_fallback") \/ OnFallback(written)

HandoverInv == Clean(auth, exporting, resident)

\* What LeftClean says of one step.
LeftStep ==
    auth.mode = "optimise" /\ auth'.mode # "optimise" /\ auth'.store = auth.store
      => ~exporting' /\ (auth.target = "protect" => OnFallback(resident'))

\* A transition without steps has none to come.
LEMMA NothingIsLeft == \A step : ~Has(<<>>, step)
BY DEF Has

\* A step other than the first is still to come when the first is done.
LEMMA TailHas ==
  ASSUME NEW steps \in Seq(Steps), steps # <<>>, NEW step, Has(steps, step), Head(steps) # step
  PROVE  Has(Tail(steps), step)
<1>1. PICK n \in 1 .. Len(steps) : steps[n] = step
  BY DEF Has
<1>2. steps[1] # step /\ Len(Tail(steps)) = Len(steps) - 1 /\ Len(steps) \in Nat
  BY HeadTailProperties
<1>3. n - 1 \in 1 .. Len(Tail(steps))
  BY <1>1, <1>2
<1>4. Tail(steps)[n - 1] = steps[n]
  BY <1>2, <1>3
<1> QED
  BY <1>1, <1>3, <1>4 DEF Has

\* A sequence of steps that begins with one has it, whatever follows.
LEMMA FirstHas ==
  /\ \A steps \in Seq(Steps), step \in Steps, first \in Seq(Steps) :
       first # <<>> /\ first[1] = step => Has(first \o steps, step)
  /\ Has(<<"cancel_export", "write_fallback">>, "cancel_export")
  /\ Has(<<"cancel_export", "write_fallback">>, "write_fallback")
<1>1. ASSUME NEW steps \in Seq(Steps), NEW step \in Steps, NEW first \in Seq(Steps),
             first # <<>>, first[1] = step
      PROVE  Has(first \o steps, step)
  <2>1. Len(first) \in Nat /\ Len(first) > 0 /\ Len(steps) \in Nat
    BY <1>1, EmptySeq
  <2>2. Len(first \o steps) = Len(first) + Len(steps) /\ (first \o steps)[1] = first[1]
    BY <2>1, ConcatProperties
  <2> QED
    BY <1>1, <2>1, <2>2 DEF Has
<1>2. LET s == <<"cancel_export", "write_fallback">>
      IN  Len(s) = 2 /\ s[1] = "cancel_export" /\ s[2] = "write_fallback"
  OBVIOUS
<1> QED
  BY <1>1, <1>2 DEF Has

\* Where nobody takes over nothing is promised.
LEMMA CalmClean ==
  ASSUME NEW a, NEW armed, NEW written,
         a.target \in {"none", "optimise"}, a.returnTo = "none",
         a.target = "none" => a.steps = <<>>, a.target = "optimise" => a.mode = "optimise"
  PROVE  Clean(a, armed, written)
BY DEF Clean

\* Outside Optimise nothing is promised either.
LEMMA OutsideClean ==
  ASSUME NEW a, NEW armed, NEW written,
         a.target \notin {"none", "optimise"}, a.mode # "optimise"
  PROVE  Clean(a, armed, written)
BY DEF Clean

\* Less export and more fallback schedules change nothing.
LEMMA CleanerStill ==
  ASSUME NEW a, NEW armed, NEW written, Clean(a, armed, written),
         NEW less, NEW more, less => armed, OnFallback(written) => OnFallback(more)
  PROVE  Clean(a, less, more)
BY DEF Clean

\* A verified step of the transition leaves the rest of the promise.
LEMMA ProgressClean ==
  ASSUME auth \in Authority, HandoverInv, CanAdvance, auth.steps # <<>>,
         NEW less, NEW more, less => exporting, OnFallback(resident) => OnFallback(more),
         Head(auth.steps) = "cancel_export" => ~less,
         Head(auth.steps) = "write_fallback" /\ auth.target = "protect" => OnFallback(more)
  PROVE  Clean(Progressed, less, more)
<1>1. /\ Progressed.steps = Tail(auth.steps) /\ Progressed.mode = auth.mode
      /\ Progressed.target = auth.target /\ Progressed.returnTo = auth.returnTo
  BY ProgressedRecord
<1>2. auth.steps \in Seq(Steps)
  BY AuthorityFields
<1>3. less /\ Has(auth.steps, "cancel_export") => Has(Tail(auth.steps), "cancel_export")
  BY <1>2, TailHas
<1>4. auth.target = "protect" /\ Has(auth.steps, "write_fallback") /\ ~OnFallback(more)
        => Has(Tail(auth.steps), "write_fallback")
  BY <1>2, TailHas
<1> QED
  BY <1>1, <1>3, <1>4 DEF Clean, HandoverInv, CanAdvance

\* A claim without steps to come keeps the promise, and fulfils it.
LEMMA CommitClean ==
  ASSUME NEW a \in Authority, a.target \in Modes, a.steps = <<>>,
         NEW armed, NEW written, Clean(a, armed, written)
  PROVE  /\ Clean(Committed(a), armed, written)
         /\ a.mode = "optimise" /\ Committed(a).mode # "optimise"
              => ~armed /\ (a.target = "protect" => OnFallback(written))
<1>1. LET c == Committed(a)
      IN  c.mode = a.target /\ c.target = "none" /\ c.steps = <<>> /\ c.returnTo = a.returnTo
  BY CommittedRecord
<1>2. ~Has(a.steps, "cancel_export") /\ ~Has(a.steps, "write_fallback")
  BY NothingIsLeft
<1>3. a.target # "optimise" => a.target \in {"protect", "observe"}
  BY DEF Modes
<1>4. a.target # "none"
  BY DEF Modes
<1> QED
  BY <1>1, <1>2, <1>3, <1>4 DEF Clean

\* A request that keeps the mode, or leaves it clean, over unchanged devices.
LEMMA RequestClean ==
  ASSUME HandoverInv, NEW c, Request(c), Clean(c, exporting, resident),
         auth.mode = "optimise" /\ c.mode # "optimise"
           => ~exporting /\ (auth.target = "protect" => OnFallback(resident))
  PROVE  HandoverInv' /\ LeftStep
<1>1. auth' \in {c, auth} /\ exporting' = exporting /\ resident' = resident
  BY DEF Request, Saved, SaveFails, devices
<1> QED
  BY <1>1 DEF HandoverInv, LeftStep, Clean, OnFallback

\* A session is resumed with its transition over, so with no export armed.
LEMMA ResumedClean ==
  ASSUME auth \in Authority, HandoverInv, CanResume
  PROVE  /\ Clean(Resumed, exporting, resident)
         /\ auth.mode = "optimise" => ~exporting /\ auth.target # "protect"
<1>1. Resumed.mode = auth.returnTo /\ Resumed.returnTo = "none" /\ Resumed.target = auth.returnTo
      /\ auth.returnTo # "none"
  BY ResumedRecord DEF CanResume, InManual
<1>2. Clean(Resumed, exporting, resident)
  BY <1>1 DEF Clean
<1>3. auth.mode = "optimise" => ~exporting /\ auth.target # "protect"
  BY NothingIsLeft DEF HandoverInv, Clean, CanResume, InManual
<1> QED
  BY <1>2, <1>3

\* Requests give new promises, which hold when they are given.
LEMMA OwnerClean ==
  ASSUME TypeOK, HandoverInv, Owner \/ Expire
  PROVE  HandoverInv' /\ LeftStep
<1>1. auth \in Authority /\ auth.mode \in Modes /\ auth.steps \in Seq(Steps)
  BY AuthorityFields DEF TypeOK
<1>2. ASSUME NEW timed \in BOOLEAN, NEW keep \in BOOLEAN, StartManual(timed, keep)
      PROVE  HandoverInv' /\ LeftStep
  <2> DEFINE a == [auth EXCEPT !.returnTo = auth.mode, !.timed = timed]
             last == IF keep THEN <<>> ELSE <<"release_holds">>
             steps == ExportSteps(auth.mode) \o last
             c == Handover(a, auth.mode, steps)
  <2>1. a \in Authority /\ a.mode = auth.mode
    BY <1>1 DEF Authority
  <2>2. last \in Seq(Steps) /\ ExportSteps(auth.mode) \in Seq(Steps)
    BY StepSequences DEF ExportSteps
  <2>3. steps \in Seq(Steps)
    BY <2>2, ConcatProperties
  <2>4. auth.mode = "optimise" => Has(steps, "cancel_export")
    <3>1. ASSUME auth.mode = "optimise" PROVE ExportSteps(auth.mode) = <<"cancel_export">>
      BY <3>1 DEF ExportSteps
    <3>2. LET first == <<"cancel_export">>
          IN  first \in Seq(Steps) /\ first # <<>> /\ first[1] = "cancel_export"
      BY StepSequences
    <3>3. "cancel_export" \in Steps
      BY DEF Steps
    <3> QED
      BY <2>2, <3>1, <3>2, <3>3, FirstHas
  <2>5. Request(c)
    BY <1>2 DEF StartManual
  <2> HIDE DEF a, last, steps
  <2>6. c.mode = auth.mode /\ c.steps = steps /\ c.target = IF steps = <<>> THEN "none" ELSE auth.mode
    BY <1>1, <2>1, <2>3, HandoverRecord
  <2> HIDE DEF c
  <2>7. Clean(c, exporting, resident)
    BY <1>1, <2>4, <2>6 DEF Clean, Modes
  <2> QED
    BY <2>5, <2>6, <2>7, RequestClean
<1>3. ASSUME NEW mode \in Modes, ChangeReturn(mode) PROVE HandoverInv' /\ LeftStep
  <2> DEFINE a == [auth EXCEPT !.returnTo = mode]
             c == Granted(a)
  <2>1. a \in Authority /\ a.mode = auth.mode /\ a.target = auth.target /\ a.steps = auth.steps
        /\ a.returnTo = mode
    BY <1>1 DEF Authority
  <2>2. Request(c) /\ auth.returnTo # "none"
    BY <1>3 DEF ChangeReturn, InManual
  <2> HIDE DEF a
  <2>3. c.mode = auth.mode /\ c.target = auth.target /\ c.steps = auth.steps
    BY <1>1, <2>1, GrantedRecord
  <2> HIDE DEF c
  <2>4. Clean(c, exporting, resident)
    BY <2>2, <2>3 DEF HandoverInv, Clean
  <2> QED
    BY <2>2, <2>3, <2>4, RequestClean
<1>4. CASE Resume \/ Expire
  <2>1. CanResume /\ Request(Resumed)
    BY <1>4 DEF Resume, Expire
  <2> QED
    BY <1>1, <2>1, ResumedClean, RequestClean
<1>5. CASE Observe
  <2> DEFINE a == [auth EXCEPT !.returnTo = "none", !.timed = FALSE]
             first == IF ~InManual /\ auth.mode = "optimise"
                      THEN <<"cancel_export", "write_fallback">>
                      ELSE IF Has(auth.steps, "cancel_export") THEN <<"cancel_export">> ELSE <<>>
             steps == Append(first, "release_holds")
             goal == "observe"
             c == Handover(a, goal, steps)
  <2>1. Request(c)
    BY <1>5 DEF Observe, Has
  <2>2. a \in Authority /\ a.mode = auth.mode /\ goal \in Modes
    BY <1>1 DEF Authority, Modes
  <2>3. first \in Seq(Steps) /\ "release_holds" \in Steps /\ "cancel_export" \in Steps
        /\ <<"release_holds">> \in Seq(Steps)
    BY StepSequences DEF Steps
  <2>4. steps \in Seq(Steps) /\ steps # <<>> /\ steps = first \o <<"release_holds">>
    BY <2>3, AppendProperties, AppendIsConcat
  <2>5. auth.mode = "optimise" /\ (InManual => Has(auth.steps, "cancel_export"))
          => Has(steps, "cancel_export")
    <3>1. ASSUME auth.mode = "optimise", InManual => Has(auth.steps, "cancel_export")
          PROVE  first # <<>> /\ first[1] = "cancel_export"
      BY <3>1
    <3> HIDE DEF first
    <3> QED
      BY <2>3, <2>4, <3>1, FirstHas
  <2> HIDE DEF a, first, steps, goal
  <2>6. c.mode = auth.mode /\ c.steps = steps /\ c.target = goal /\ a.returnTo = c.returnTo
    <3>1. a \in Authority /\ goal \in Modes /\ steps \in Seq(Steps) /\ steps # <<>>
      BY <2>2, <2>4
    <3>2. c.mode = a.mode /\ c.steps = steps /\ c.target = goal /\ c.returnTo = a.returnTo
      BY <1>1, <3>1, HandoverRecord
    <3> QED
      BY <2>2, <3>2
  <2>7. a.returnTo = "none"
    BY <1>1 DEF Authority, a
  <2> HIDE DEF c
  <2>8. Clean(c, exporting, resident)
    BY <2>4, <2>5, <2>6, <2>7 DEF HandoverInv, Clean, InManual, goal
  <2> QED
    BY <2>1, <2>6, <2>8, RequestClean
<1>6. CASE ToOptimise
  <2> DEFINE a == [auth EXCEPT !.mode = "optimise"]
             goal == "optimise"
             steps == <<"verify_fresh_plan">>
             c == Handover(a, goal, steps)
  <2>1. a \in Authority /\ a.mode = "optimise" /\ a.returnTo = auth.returnTo
        /\ goal \in Modes
    BY <1>1 DEF Authority, Modes
  <2>2. steps \in Seq(Steps) /\ steps # <<>>
    BY DEF Steps
  <2>3. Request(c) /\ auth.returnTo = "none"
    BY <1>6 DEF ToOptimise, InManual
  <2> HIDE DEF a, goal, steps
  <2>4. c.mode = "optimise" /\ c.target = goal /\ c.returnTo = "none"
    BY <1>1, <2>1, <2>2, <2>3, HandoverRecord
  <2> HIDE DEF c
  <2>5. Clean(c, exporting, resident)
    BY <2>4, CalmClean DEF goal
  <2> QED
    BY <2>3, <2>4, <2>5, RequestClean
<1>7. CASE ToProtect
  <2>1. CASE auth.mode = "optimise"
    <3> DEFINE steps == <<"cancel_export", "write_fallback">>
               c == Handover(auth, "protect", steps)
    <3>1. steps \in Seq(Steps) /\ steps # <<>> /\ "protect" \in Modes
      BY StepSequences DEF Modes
    <3>2. Has(steps, "cancel_export") /\ Has(steps, "write_fallback")
      BY FirstHas
    <3>3. Request(c) /\ auth.returnTo = "none"
      BY <1>7, <2>1 DEF ToProtect, InManual
    <3> HIDE DEF steps
    <3>4. c.mode = auth.mode /\ c.target = "protect" /\ c.steps = steps
          /\ c.returnTo = auth.returnTo
      BY <1>1, <3>1, HandoverRecord
    <3> HIDE DEF c
    <3>5. Clean(c, exporting, resident)
      BY <3>2, <3>3, <3>4 DEF Clean
    <3> QED
      BY <3>3, <3>4, <3>5, RequestClean
  <2>2. CASE auth.mode # "optimise"
    <3> DEFINE a == [auth EXCEPT !.mode = "protect"]
               goal == "protect"
               steps == <<"evaluate_protection">>
               c == Handover(a, goal, steps)
    <3>1. a \in Authority /\ a.mode = "protect" /\ goal \in Modes
      BY <1>1 DEF Authority, Modes
    <3>2. steps \in Seq(Steps) /\ steps # <<>>
      BY DEF Steps
    <3>3. Request(c)
      BY <1>7, <2>2 DEF ToProtect
    <3> HIDE DEF a, goal, steps
    <3>4. c.mode = "protect" /\ c.target = goal
      BY <1>1, <3>1, <3>2, HandoverRecord
    <3> HIDE DEF c
    <3>5. Clean(c, exporting, resident)
      BY <3>4, OutsideClean DEF goal
    <3> QED
      BY <2>2, <3>3, <3>5, RequestClean
  <2> QED
    BY <2>1, <2>2
<1>8. CASE NewSession
  <2> DEFINE c == Granted(auth)
  <2>1. Request(c) /\ c.mode = auth.mode /\ c.target = auth.target /\ c.steps = auth.steps
        /\ c.returnTo = auth.returnTo
    BY <1>1, <1>8, GrantedRecord DEF NewSession
  <2> HIDE DEF c
  <2>2. Clean(c, exporting, resident)
    BY <2>1 DEF HandoverInv, Clean
  <2> QED
    BY <2>1, <2>2, RequestClean
<1> QED
  BY <1>2, <1>3, <1>4, <1>5, <1>6, <1>7, <1>8 DEF Owner

\* Fallback is evaluated only where nobody takes over.
LEMMA EvaluateClean ==
  ASSUME TypeOK, HandoverInv, Evaluate
  PROVE  HandoverInv' /\ LeftStep
<1>1. auth \in Authority
  BY DEF TypeOK
<1>2. Evaluates
  BY DEF Evaluate, EnterFallback, KeepFallback, ClearCauses, RetryExit, EndFallback,
         AwaitExitPlan, Exits
<1> DEFINE Calm(a) == /\ a.mode = auth.mode /\ a.target = auth.target /\ a.steps = auth.steps
                      /\ a.returnTo = auth.returnTo
<1>3. Calm(auth')
  <2>1. /\ \A b \in BOOLEAN : Calm([auth EXCEPT !.causes = b])
        /\ Calm(Granted([auth EXCEPT !.active = TRUE, !.causes = TRUE]))
        /\ Calm(Granted([auth EXCEPT !.active = FALSE]))
    BY <1>1 DEF Authority, Granted
  <2> HIDE DEF Calm
  <2>2. Calm(auth)
    BY DEF Calm
  <2>3. ASSUME NEW c, Calm(c), Saved(c) \/ SaveFails({c}) PROVE Calm(auth')
    BY <2>2, <2>3 DEF Saved, SaveFails
  <2>4. CASE EnterFallback
    BY <2>1, <2>3, <2>4 DEF EnterFallback
  <2>5. CASE KeepFallback
    BY <2>1, <2>3, <2>5 DEF KeepFallback
  <2>6. CASE ClearCauses
    BY <2>1, <2>3, <2>6 DEF ClearCauses
  <2>7. CASE EndFallback
    BY <2>1, <2>3, <2>7 DEF EndFallback
  <2>8. CASE RetryExit \/ AwaitExitPlan
    BY <2>2, <2>8 DEF RetryExit, AwaitExitPlan
  <2> QED
    BY <2>4, <2>5, <2>6, <2>7, <2>8 DEF Evaluate
<1>4. auth.mode = "optimise" /\ auth.returnTo = "none" /\ auth.target \in {"none", "optimise"}
  BY <1>2 DEF Evaluates, InManual
<1>5. auth.target = "none" => auth.steps = <<>>
  BY DEF HandoverInv, Clean
<1> QED
  BY <1>3, <1>4, <1>5 DEF HandoverInv, Clean, LeftStep

\* Whatever a save leaves of a verified step is clean.
LEMMA AdvancesClean ==
  ASSUME auth \in Authority, CanAdvance, auth.steps # <<>>, Advances,
         Clean(auth, exporting', resident'), Clean(Progressed, exporting', resident')
  PROVE  HandoverInv' /\ LeftStep
<1>1. /\ Progressed \in Authority /\ Progressed.mode = auth.mode
      /\ Progressed.target = auth.target /\ auth.target \in Modes
  BY ProgressedRecord, AuthorityFields DEF CanAdvance
<1>2. CASE Progressed.steps = <<>>
  <2>1. auth' \in {auth, Progressed, Committed(Progressed)}
    BY <1>2 DEF Advances, Saved, SaveFails
  <2>2. /\ Clean(Committed(Progressed), exporting', resident')
        /\ Progressed.mode = "optimise" /\ Committed(Progressed).mode # "optimise"
             => ~exporting' /\ (Progressed.target = "protect" => OnFallback(resident'))
    BY <1>1, <1>2, CommitClean
  <2> QED
    BY <1>1, <2>1, <2>2 DEF HandoverInv, LeftStep, Clean
<1>3. CASE Progressed.steps # <<>>
  <2>1. auth' \in {auth, Progressed}
    BY <1>3 DEF Advances, Saved, SaveFails
  <2> QED
    BY <1>1, <2>1 DEF HandoverInv, LeftStep, Clean
<1> QED
  BY <1>2, <1>3

\* A step that stays leaves the record as it is.
LEMMA StaysClean ==
  ASSUME Stays, Clean(auth, exporting', resident')
  PROVE  HandoverInv' /\ LeftStep
<1>1. auth' = auth
  BY DEF Stays, Saved, SaveFails
<1> QED
  BY <1>1 DEF HandoverInv, LeftStep, Clean

\* The steps of a transition keep its promise, and its claim fulfils it.
LEMMA AdvanceClean ==
  ASSUME TypeOK, HandoverInv, Advance
  PROVE  HandoverInv' /\ LeftStep
<1>1. auth \in Authority
  BY DEF TypeOK
<1>2. ASSUME CanAdvance, auth.steps # <<>>, Advances,
             exporting' => exporting, OnFallback(resident) => OnFallback(resident'),
             Head(auth.steps) = "cancel_export" => ~exporting',
             Head(auth.steps) = "write_fallback" /\ auth.target = "protect"
               => OnFallback(resident')
      PROVE  HandoverInv' /\ LeftStep
  <2>1. Clean(auth, exporting', resident')
    BY <1>2, CleanerStill DEF HandoverInv
  <2>2. Clean(Progressed, exporting', resident')
    BY <1>1, <1>2, ProgressClean
  <2> QED
    BY <1>1, <1>2, <2>1, <2>2, AdvancesClean
<1>3. ASSUME Stays, exporting' => exporting, OnFallback(resident) => OnFallback(resident')
      PROVE  HandoverInv' /\ LeftStep
  <2>1. Clean(auth, exporting', resident')
    BY <1>3, CleanerStill DEF HandoverInv
  <2> QED
    BY <1>3, <2>1, StaysClean
<1>4. CASE VerifyFreshPlan
  <2>1. exporting' = exporting /\ resident' = resident /\ CanAdvance /\ auth.steps # <<>>
        /\ Head(auth.steps) = "verify_fresh_plan" /\ Advances
    BY <1>4 DEF VerifyFreshPlan, At, devices
  <2> QED
    BY <1>2, <2>1
<1>5. CASE CancelExport
  <2>1. resident' = resident /\ CanAdvance /\ auth.steps # <<>>
        /\ Head(auth.steps) = "cancel_export"
    BY <1>5 DEF CancelExport, At
  <2>2. (~exporting' /\ Advances) \/ (exporting' \in {exporting, FALSE} /\ Stays)
    BY <1>5 DEF CancelExport
  <2> QED
    BY <1>2, <1>3, <2>1, <2>2
<1>6. CASE WriteFallbackStep
  <2>1. exporting' = exporting /\ CanAdvance /\ auth.steps # <<>>
        /\ Head(auth.steps) = "write_fallback"
    BY <1>6 DEF WriteFallbackStep, At
  <2>2. PICK done \in SUBSET Inverters :
          IF FallbackPermitted(auth)
          THEN /\ WriteFallback(verified, Inverters, auth.epoch, done)
               /\ IF done = Inverters THEN Advances ELSE Stays
          ELSE done = {} /\ Stays /\ UNCHANGED <<resident, verified, glitches>>
    BY <1>6 DEF WriteFallbackStep
  <2>3. OnFallback(resident) => OnFallback(resident')
    BY <2>2 DEF WriteFallback, OnFallback
  <2>4. CASE Stays
    BY <1>3, <2>1, <2>3, <2>4
  <2>5. CASE Advances /\ done = Inverters /\ WriteFallback(verified, Inverters, auth.epoch, done)
    <3>1. OnFallback(resident')
      BY <2>5 DEF WriteFallback, OnFallback
    <3> QED
      BY <1>2, <2>1, <2>5, <3>1
  <2> QED
    BY <2>2, <2>4, <2>5
<1>7. CASE SkipFallback
  <2>1. exporting' = exporting /\ CanAdvance /\ auth.steps # <<>> /\ auth.target = "observe"
        /\ Head(auth.steps) = "write_fallback" /\ Advances
    BY <1>7 DEF SkipFallback, At
  <2>2. OnFallback(resident) => OnFallback(resident')
    BY <1>7 DEF SkipFallback, OnFallback
  <2> QED
    BY <1>2, <2>1, <2>2
<1>8. CASE Protection
  <2>1. exporting' = exporting /\ resident' = resident /\ CanAdvance /\ auth.steps # <<>>
        /\ Head(auth.steps) \in {"evaluate_protection", "release_holds"} /\ (Advances \/ Stays)
    BY <1>8 DEF Protection, At, devices
  <2> QED
    BY <1>2, <1>3, <2>1
<1>9. CASE Claim
  <2>1. exporting' = exporting /\ resident' = resident /\ auth.steps = <<>>
        /\ auth.target \in Modes /\ auth' \in {auth, Committed(auth)}
    BY <1>1, <1>9, AuthorityFields DEF Claim, CanAdvance, Saved, SaveFails, devices
  <2>2. /\ Clean(Committed(auth), exporting, resident)
        /\ auth.mode = "optimise" /\ Committed(auth).mode # "optimise"
             => ~exporting /\ (auth.target = "protect" => OnFallback(resident))
    BY <1>1, <2>1, CommitClean DEF HandoverInv
  <2> QED
    BY <2>1, <2>2 DEF HandoverInv, LeftStep, Clean, OnFallback
<1> QED
  BY <1>4, <1>5, <1>6, <1>7, <1>8, <1>9 DEF Advance

\* A plan writes only where nobody takes over.
LEMMA PlanClean ==
  ASSUME TypeOK, HandoverInv, AcceptPlan \/ ApplyGroup
  PROVE  HandoverInv' /\ LeftStep
<1>1. auth' = auth
  BY DEF AcceptPlan, ApplyGroup, GroupApplies, GroupFails, GroupRefused, Group
<1>2. CASE exporting' = exporting /\ resident' = resident
  BY <1>1, <1>2 DEF HandoverInv, LeftStep, Clean, OnFallback
<1>3. CASE PlanPermitted
  <2>1. auth.returnTo = "none" /\ auth.target \in {"none", "optimise"}
        /\ auth.mode = "optimise"
    BY <1>3 DEF PlanPermitted, InManual
  <2> QED
    BY <1>1, <2>1 DEF HandoverInv, LeftStep, Clean
<1> QED
  BY <1>2, <1>3 DEF AcceptPlan, ApplyGroup, GroupApplies, GroupFails, GroupRefused, devices

\* The owner writes where no handover is in progress, and a repair starts in Observe.
LEMMA WorldClean ==
  ASSUME TypeOK, HandoverInv,
         \/ Repair \/ ClearExport \/ (\E i \in Inverters : OwnerWrites(i))
         \/ RetryOver \/ ReapplyAgain \/ Lose \/ Recover \/ Restart \/ Startup \/ GraceEnds
  PROVE  HandoverInv' /\ LeftStep
<1>1. auth \in Authority
  BY DEF TypeOK
<1>2. CASE Repair
  <2>1. auth'.store = auth.store + 1 /\ auth'.mode = "observe" /\ auth'.target = "none"
        /\ auth'.steps = <<>>
    BY <1>2 DEF Repair, FreshObserve
  <2>2. auth'.store # auth.store
    BY <1>1, <2>1, AuthorityFields
  <2> QED
    BY <2>1, <2>2 DEF HandoverInv, LeftStep, Clean
<1>3. CASE ClearExport
  <2>1. auth' = auth /\ resident' = resident /\ ~exporting'
    BY <1>3 DEF ClearExport
  <2> QED
    BY <2>1 DEF HandoverInv, LeftStep, Clean, OnFallback
<1>4. CASE \E i \in Inverters : OwnerWrites(i)
  <2>1. auth' = auth /\ exporting' = exporting /\ auth.target = "none"
    BY <1>4 DEF OwnerWrites
  <2> QED
    BY <2>1 DEF HandoverInv, LeftStep, Clean
<1>5. CASE RetryOver \/ ReapplyAgain \/ Lose \/ Recover \/ Restart \/ GraceEnds
  <2>1. auth' = auth /\ exporting' = exporting /\ resident' = resident
    BY <1>5 DEF RetryOver, ReapplyAgain, Lose, Recover, Restart, GraceEnds, devices
  <2> QED
    BY <2>1 DEF HandoverInv, LeftStep, Clean, OnFallback
<1>6. CASE Startup
  <2>1. exporting' = exporting /\ resident' = resident
        /\ (auth' = auth \/ (auth' \in {auth, Resumed} /\ CanResume))
    BY <1>6 DEF Startup, devices, Saved, SaveFails
  <2> QED
    BY <1>1, <2>1, ResumedClean DEF HandoverInv, LeftStep, Clean, OnFallback
<1> QED
  BY <1>2, <1>3, <1>4, <1>5, <1>6

\* Every step keeps the handover's promises, and leaves Optimise clean.
LEMMA HandoverKept ==
  ASSUME TypeOK, HandoverInv, [Next]_vars
  PROVE  HandoverInv' /\ LeftStep
<1>1. CASE UNCHANGED vars
  BY <1>1 DEF vars, HandoverInv, LeftStep, Clean, OnFallback
<1> QED
  BY <1>1, OwnerClean, EvaluateClean, AdvanceClean, PlanClean, WorldClean DEF Next

\* Whatever supersedes, restarts or fails in a handover, Optimise is left only with its
\* export cancelled, and for Protect only with the fallback schedule on every inverter.
THEOREM LeavesClean == Spec => LeftClean
<1>1. Init => HandoverInv
  BY DEF Init, FreshObserve, HandoverInv, Clean
<1>2. TypeOK /\ HandoverInv /\ [Next]_vars => HandoverInv' /\ LeftStep
  BY HandoverKept
<1>3. LeftStep => (auth.mode = "optimise" /\ auth'.mode # "optimise" /\ auth'.store = auth.store
                    => /\ ~exporting'
                       /\ auth.target = "protect"
                            => \A i \in Inverters : resident'[i] = "fallback")
  BY DEF LeftStep, OnFallback
<1> QED
  BY <1>1, <1>2, <1>3, TypeCorrect, PTL DEF Spec, LeftClean

-----------------------------------------------------------------------------
(* Leaving fallback *)

\* While an exit is awaited, a plan that counts for it and succeeded has written every
\* inverter since the causes cleared, and one that runs has written those it is past.
ExitInv ==
    status = "ok" /\ auth.active /\ exiting /\ ~retrying =>
      /\ lastApply.counts /\ lastApply.ok => planned = Inverters
      /\ job.counts /\ job.ok => Inverters \ job.left \subseteq planned

\* What EndsOnPlan says of one step.
EndStep == auth.active /\ ~auth'.active /\ auth'.mode = "optimise" => planned = Inverters

\* What neither makes fallback active nor touches what the exit is judged by.
LEMMA ExitUntouched ==
  ASSUME ExitInv, status' = "ok" => status = "ok", auth'.active => auth.active,
         UNCHANGED <<exiting, retrying, job, lastApply, planned>>,
         auth'.active = auth.active \/ auth'.mode # "optimise"
  PROVE  ExitInv' /\ EndStep
<1>1. ExitInv'
  BY DEF ExitInv
<1>2. EndStep
  BY DEF EndStep
<1> QED
  BY <1>1, <1>2

\* Requests leave fallback to its evaluation.
LEMMA OwnerExit ==
  ASSUME TypeOK, ExitInv, Owner \/ Expire
  PROVE  ExitInv' /\ EndStep
<1>1. auth \in Authority
  BY DEF TypeOK
<1>2. ASSUME NEW c, c.active = auth.active, Request(c) PROVE ExitInv' /\ EndStep
  <2>1. auth' \in {auth, c} /\ (status' = "ok" => status = "ok")
        /\ UNCHANGED <<exiting, retrying, job, lastApply, planned>>
    BY <1>2 DEF Request, Saved, SaveFails, memory
  <2> QED
    BY <1>2, <2>1, ExitUntouched
<1> HIDE DEF ExitInv, EndStep
<1>3. \A a, mode, steps :
        /\ Granted(a).active = a.active \/ a \notin Authority
        /\ Handover(a, mode, steps).active = a.active \/ a \notin Authority
  BY <1>1 DEF Granted, Handover, Authority
<1>4. ASSUME NEW timed \in BOOLEAN, NEW keep \in BOOLEAN, StartManual(timed, keep)
      PROVE  ExitInv' /\ EndStep
  <2> DEFINE a == [auth EXCEPT !.returnTo = auth.mode, !.timed = timed]
  <2>1. a \in Authority /\ a.active = auth.active
    BY <1>1 DEF Authority
  <2>2. \E steps : Request(Handover(a, auth.mode, steps))
    BY <1>4 DEF StartManual
  <2> HIDE DEF a
  <2> QED
    BY <1>2, <1>3, <2>1, <2>2
<1>5. ASSUME NEW mode \in Modes, ChangeReturn(mode) PROVE ExitInv' /\ EndStep
  <2> DEFINE a == [auth EXCEPT !.returnTo = mode]
  <2>1. a \in Authority /\ a.active = auth.active /\ Request(Granted(a))
    BY <1>1, <1>5 DEF Authority, ChangeReturn
  <2> HIDE DEF a
  <2> QED
    BY <1>2, <1>3, <2>1
<1>6. CASE Resume \/ Expire
  <2>1. CanResume /\ Request(Resumed)
    BY <1>6 DEF Resume, Expire
  <2> QED
    BY <1>1, <1>2, <2>1, ResumedRecord
<1>7. CASE Observe
  <2> DEFINE a == [auth EXCEPT !.returnTo = "none", !.timed = FALSE]
  <2>1. a \in Authority /\ a.active = auth.active
    BY <1>1 DEF Authority
  <2>2. \E steps : Request(Handover(a, "observe", steps))
    BY <1>7 DEF Observe
  <2> HIDE DEF a
  <2> QED
    BY <1>2, <1>3, <2>1, <2>2
<1>8. CASE ToOptimise
  <2> DEFINE a == [auth EXCEPT !.mode = "optimise"]
  <2>1. a \in Authority /\ a.active = auth.active
    BY <1>1 DEF Authority, Modes
  <2>2. \E steps : Request(Handover(a, "optimise", steps))
    BY <1>8 DEF ToOptimise
  <2> HIDE DEF a
  <2> QED
    BY <1>2, <1>3, <2>1, <2>2
<1>9. CASE ToProtect
  <2> DEFINE a == [auth EXCEPT !.mode = "protect"]
  <2>1. a \in Authority /\ a.active = auth.active
    BY <1>1 DEF Authority, Modes
  <2>2. \E steps : Request(Handover(auth, "protect", steps)) \/ Request(Handover(a, "protect", steps))
    BY <1>9 DEF ToProtect
  <2> HIDE DEF a
  <2> QED
    BY <1>1, <1>2, <1>3, <2>1, <2>2
<1>10. CASE NewSession
  BY <1>1, <1>2, <1>3, <1>10 DEF NewSession
<1> QED
  BY <1>4, <1>5, <1>6, <1>7, <1>8, <1>9, <1>10 DEF Owner

\* Saving a record that keeps fallback active, or a failed save, ends nothing.
LEMMA SavedActive ==
  ASSUME NEW c, Saved(c) \/ SaveFails({c})
  PROVE  auth' \in {auth, c} /\ (status' = "ok" => status = "ok" /\ auth' = c)
BY DEF Saved, SaveFails

\* The evaluation counts afresh whenever causes clear or a retry begins, and ends fallback
\* only on a plan that counts.
LEMMA EvaluateExit ==
  ASSUME TypeOK, ExitInv, Evaluate \/ RetryOver \/ ReapplyAgain
  PROVE  ExitInv' /\ EndStep
<1>1. auth \in Authority
  BY DEF TypeOK
<1>2. /\ \A b \in BOOLEAN : [auth EXCEPT !.causes = b].active = auth.active
      /\ Granted([auth EXCEPT !.active = TRUE, !.causes = TRUE]).active = TRUE
      /\ Granted([auth EXCEPT !.active = FALSE]).active = FALSE
  BY <1>1 DEF Authority, Granted
<1>3. Uncount => ~job'.counts /\ ~lastApply'.counts
  BY DEF Uncount, TypeOK, Job, Apply
<1>4. CASE EnterFallback
  <2> DEFINE c == Granted([auth EXCEPT !.active = TRUE, !.causes = TRUE])
  <2>1. ~auth.active /\ ((Saved(c) /\ ~exiting') \/ SaveFails({c}))
    BY <1>4 DEF EnterFallback, NoExit
  <2>2. status' = "ok" => ~exiting'
    BY <2>1 DEF Saved, SaveFails
  <2> QED
    BY <2>1, <2>2 DEF ExitInv, EndStep
<1>5. CASE KeepFallback
  <2> DEFINE c == [auth EXCEPT !.causes = TRUE]
  <2>1. ((Saved(c) /\ ~exiting') \/ SaveFails({c})) /\ c.active = auth.active
    BY <1>2, <1>5 DEF KeepFallback, NoExit
  <2> HIDE DEF c
  <2>2. (status' = "ok" => ~exiting') /\ auth'.active = auth.active
    BY <2>1 DEF Saved, SaveFails
  <2> QED
    BY <2>2 DEF ExitInv, EndStep
<1>6. CASE ClearCauses
  <2> DEFINE c == [auth EXCEPT !.causes = FALSE]
  <2>1. ((Saved(c) /\ Uncount) \/ SaveFails({c})) /\ c.active = auth.active
    BY <1>2, <1>6 DEF ClearCauses
  <2> HIDE DEF c
  <2>2. (status' = "ok" => Uncount) /\ auth'.active = auth.active
    BY <2>1 DEF Saved, SaveFails
  <2> QED
    BY <1>3, <2>2 DEF ExitInv, EndStep
<1>7. CASE RetryExit
  BY <1>7 DEF RetryExit, ExitInv, EndStep
<1>8. CASE EndFallback
  <2> DEFINE c == Granted([auth EXCEPT !.active = FALSE])
  <2>1. planned = Inverters
    BY <1>8 DEF EndFallback, Exits, Evaluates, Judges, ExitInv
  <2>2. ((Saved(c) /\ ~exiting') \/ SaveFails({c}))
    BY <1>8 DEF EndFallback, NoExit
  <2>3. status' = "ok" => ~exiting'
    BY <2>2 DEF Saved, SaveFails
  <2> QED
    BY <2>1, <2>3 DEF ExitInv, EndStep
<1>9. CASE AwaitExitPlan
  <2>1. auth' = auth /\ status' = status /\ retrying' = retrying /\ planned' = planned
        /\ (Uncount \/ (exiting /\ UNCHANGED <<job, lastApply>>))
    BY <1>9 DEF AwaitExitPlan, TypeOK
  <2> QED
    BY <1>3, <2>1 DEF ExitInv, EndStep
<1>10. CASE RetryOver
  BY <1>3, <1>10 DEF RetryOver, ExitInv, EndStep
<1>11. CASE ReapplyAgain
  BY <1>11, ExitUntouched DEF ReapplyAgain
<1> QED
  BY <1>4, <1>5, <1>6, <1>7, <1>8, <1>9, <1>10, <1>11 DEF Evaluate

\* A transition ends fallback only by leaving Optimise.
LEMMA AdvanceExit ==
  ASSUME TypeOK, ExitInv, Advance
  PROVE  ExitInv' /\ EndStep
<1>1. auth \in Authority
  BY DEF TypeOK
<1>2. UNCHANGED <<exiting, retrying, job, lastApply, planned>> /\ CanAdvance
  BY DEF Advance, VerifyFreshPlan, CancelExport, WriteFallbackStep, SkipFallback, Protection,
         Claim, Stepping, At
<1>3. auth.target \in Modes
  BY <1>1, <1>2, AuthorityFields DEF CanAdvance
<1>4. ASSUME auth.steps # <<>>, Advances PROVE ExitInv' /\ EndStep
  <2>1. Progressed \in Authority /\ Progressed.active = auth.active
        /\ Progressed.target = auth.target
    BY <1>1, <1>4, ProgressedRecord
  <2>2. LET c == Committed(Progressed)
        IN  (c.active => auth.active) /\ (c.active = auth.active \/ c.mode # "optimise")
    BY <1>1, <1>3, <2>1, CommittedRecord, AuthorityFields
  <2>3. auth' \in {auth, Progressed, Committed(Progressed)} /\ (status' = "ok" => status = "ok")
    BY <1>4 DEF Advances, Saved, SaveFails
  <2> QED
    BY <1>2, <2>1, <2>2, <2>3, ExitUntouched
<1>5. ASSUME auth' = auth, status' = "ok" => status = "ok" PROVE ExitInv' /\ EndStep
  BY <1>2, <1>5, ExitUntouched
<1>6. Stays => auth' = auth /\ (status' = "ok" => status = "ok")
  BY DEF Stays, Saved, SaveFails
<1>7. CASE Claim
  <2>1. auth' \in {auth, Committed(auth)} /\ (status' = "ok" => status = "ok")
    BY <1>7 DEF Claim, Saved, SaveFails
  <2>2. LET c == Committed(auth)
        IN  (c.active => auth.active) /\ (c.active = auth.active \/ c.mode # "optimise")
    BY <1>1, <1>3, CommittedRecord, AuthorityFields
  <2> QED
    BY <1>2, <2>1, <2>2, ExitUntouched
<1>8. Claim \/ Stays \/ (auth.steps # <<>> /\ Advances)
  BY DEF Advance, VerifyFreshPlan, CancelExport, WriteFallbackStep, SkipFallback, Protection, At
<1> QED
  BY <1>4, <1>5, <1>6, <1>7, <1>8

\* A plan that has written every inverter says so when it ends.
LEMMA PlanExit ==
  ASSUME TypeOK, ExitInv, AcceptPlan \/ ApplyGroup
  PROVE  ExitInv' /\ EndStep
<1>1. auth' = auth /\ status' = status /\ exiting' = exiting /\ retrying' = retrying
  BY DEF AcceptPlan, ApplyGroup, GroupApplies, GroupFails, GroupRefused, Group
<1>2. CASE AcceptPlan
  BY <1>1, <1>2 DEF AcceptPlan, ExitInv, EndStep
<1>3. ASSUME NEW i \in Inverters, NEW ok \in BOOLEAN, i \in job.left, GroupEnds(i, ok),
             IF ok THEN planned' = planned \union {i} ELSE planned' = planned
      PROVE  ExitInv'
  <2> DEFINE rest == [job EXCEPT !.left = @ \ {i}, !.ok = @ /\ ok]
  <2>1. rest.left = job.left \ {i} /\ rest.ok = (job.ok /\ ok) /\ rest.counts = job.counts
    BY DEF TypeOK, Job
  <2>2. IF rest.left # {} THEN job' = rest /\ UNCHANGED lastApply
        ELSE job' = NoJob /\ lastApply'.ok = rest.ok /\ lastApply'.counts = job.counts
    BY <1>3 DEF GroupEnds
  <2> HIDE DEF rest
  <2>3. ~NoJob.counts
    BY DEF NoJob
  <2>4. planned \in SUBSET Inverters /\ job.left \in SUBSET Inverters
    BY DEF TypeOK, Job
  <2>5. rest.ok => job.ok /\ planned' = planned \union {i}
    BY <1>3, <2>1
  <2>6. planned' \in SUBSET Inverters /\ (planned = Inverters => planned' = Inverters)
    BY <1>3, <2>4
  <2>7. SUFFICES ASSUME status = "ok", auth.active, exiting, ~retrying
                 PROVE  /\ lastApply'.counts /\ lastApply'.ok => planned' = Inverters
                        /\ job'.counts /\ job'.ok => Inverters \ job'.left \subseteq planned'
    BY <1>1 DEF ExitInv
  <2>8. (lastApply.counts /\ lastApply.ok => planned = Inverters)
        /\ (job.counts /\ job.ok => Inverters \ job.left \subseteq planned)
    BY <2>7 DEF ExitInv
  <2>9. rest.ok /\ job.counts => Inverters \ rest.left \subseteq planned'
    BY <2>1, <2>5, <2>8
  <2>10. CASE rest.left # {}
    BY <2>1, <2>2, <2>6, <2>8, <2>9, <2>10
  <2>11. CASE rest.left = {}
    BY <2>2, <2>3, <2>6, <2>9, <2>11
  <2> QED
    BY <2>10, <2>11
<1>4. ASSUME ApplyGroup PROVE ExitInv'
  <2>1. PICK i \in Inverters, ok \in BOOLEAN :
          /\ i \in job.left /\ GroupEnds(i, ok)
          /\ IF ok THEN planned' = planned \union {i} ELSE planned' = planned
    BY <1>4 DEF ApplyGroup, GroupApplies, GroupFails, GroupRefused
  <2> QED
    BY <1>3, <2>1
<1>5. EndStep
  BY <1>1 DEF EndStep
<1> QED
  BY <1>2, <1>4, <1>5

\* A restart forgets the exit, and a repair the fallback.
LEMMA WorldExit ==
  ASSUME TypeOK, ExitInv,
         \/ Repair \/ ClearExport \/ (\E i \in Inverters : OwnerWrites(i))
         \/ Lose \/ Recover \/ Restart \/ Startup \/ GraceEnds
  PROVE  ExitInv' /\ EndStep
<1>1. CASE Repair
  <2>1. ~auth'.active /\ auth'.mode = "observe"
    BY <1>1 DEF Repair, FreshObserve
  <2> QED
    BY <2>1 DEF ExitInv, EndStep
<1>2. CASE ClearExport \/ (\E i \in Inverters : OwnerWrites(i)) \/ Lose \/ Recover \/ GraceEnds
  <2>1. auth' = auth /\ status' = status /\ UNCHANGED <<exiting, retrying, job, lastApply, planned>>
    BY <1>2 DEF ClearExport, OwnerWrites, Lose, Recover, GraceEnds, memory
  <2> QED
    BY <2>1, ExitUntouched
<1>3. CASE Restart
  <2>1. auth' = auth /\ ~exiting'
    BY <1>3 DEF Restart, NoExit
  <2> QED
    BY <2>1 DEF ExitInv, EndStep
<1>4. CASE Startup
  <2>1. (auth' = auth \/ (auth' \in {auth, Resumed} /\ CanResume))
        /\ (status' = "ok" => status = "ok")
        /\ UNCHANGED <<exiting, retrying, job, lastApply, planned>>
    BY <1>4 DEF Startup, Saved, SaveFails, memory
  <2> QED
    BY <2>1, ResumedRecord, ExitUntouched DEF TypeOK
<1> QED
  BY <1>1, <1>2, <1>3, <1>4

\* Every step keeps what is known of an exit plan.
LEMMA ExitKept ==
  ASSUME TypeOK, ExitInv, [Next]_vars
  PROVE  ExitInv' /\ EndStep
<1>1. CASE UNCHANGED vars
  BY <1>1, ExitUntouched DEF vars
<1> QED
  BY <1>1, OwnerExit, EvaluateExit, AdvanceExit, PlanExit, WorldExit DEF Next

\* Fallback ends in Optimise only after plans have written every inverter since its causes
\* cleared.
THEOREM FallbackEndsOnPlan == Spec => EndsOnPlan
<1>1. Init => ExitInv
  BY DEF Init, ExitInv
<1>2. TypeOK /\ ExitInv /\ [Next]_vars => ExitInv' /\ EndStep
  BY ExitKept
<1>3. EndStep => (auth.active /\ ~auth'.active /\ auth'.mode = "optimise" => planned = Inverters)
  BY DEF EndStep
<1> QED
  BY <1>1, <1>2, <1>3, TypeCorrect, PTL DEF Spec, EndsOnPlan

-----------------------------------------------------------------------------
(* In force *)

\* The owner has no manual session on the way to Observe, and what is remembered as
\* verified is of an epoch that has been; of the present one it is not while the owner has
\* control, and while there are causes it holds of the device.
VerifiedInv ==
    /\ auth.epoch >= 1
    /\ auth.target = "observe" => auth.returnTo = "none"
    /\ status = "ok" => \A i \in Inverters :
         /\ verified[i] <= auth.epoch
         /\ verified[i] = auth.epoch => auth.returnTo = "none"
         /\ verified[i] = auth.epoch /\ auth.active /\ auth.causes => resident[i] = "fallback"

\* What is verified, and has causes, is in force.
LEMMA VerifiedInForce == VerifiedInv => InForce
BY DEF VerifiedInv, InForce

\* Where nothing is written, and nothing granted, nothing is believed anew.
LEMMA VerifiedUntouched ==
  ASSUME VerifiedInv, status' = "ok" => status = "ok", verified' = verified,
         auth'.epoch = auth.epoch, auth'.returnTo = auth.returnTo,
         auth'.target \in {auth.target, "none"},
         auth'.active /\ auth'.causes => auth.active /\ auth.causes,
         \A i \in Inverters : resident'[i] = resident[i] \/ resident'[i] = "fallback"
  PROVE  VerifiedInv'
BY DEF VerifiedInv

\* A write of the schedule under the present epoch keeps what was verified, or has written.
LEMMA VerifiedWritten ==
  ASSUME TypeOK, VerifiedInv, status = "ok", auth'.epoch = auth.epoch,
         auth.returnTo = "none", auth'.returnTo = "none",
         auth'.active /\ auth'.causes => auth.active /\ auth.causes,
         \A i \in Inverters :
           \/ verified'[i] = auth.epoch /\ resident'[i] = "fallback"
           \/ verified'[i] = verified[i] /\ resident'[i] \in {resident[i], "fallback"}
  PROVE  VerifiedInv'
<1>1. auth.epoch \in Nat /\ \A i \in Inverters : verified[i] \in Nat
  BY AuthorityFields DEF TypeOK
<1> QED
  BY <1>1 DEF VerifiedInv

\* What a write of the schedule leaves verified, it has written.
LEMMA WrittenVerified ==
  ASSUME TypeOK, NEW before \in [Inverters -> Nat], NEW targets \in SUBSET Inverters,
         NEW epoch \in Nat, NEW done \in SUBSET targets,
         WriteFallback(before, targets, epoch, done)
  PROVE  \A i \in Inverters :
           \/ verified'[i] = epoch /\ resident'[i] = "fallback"
           \/ verified'[i] = before[i] /\ resident'[i] \in {resident[i], "fallback"}
BY DEF WriteFallback, TypeOK

\* A request that is saved is a new grant, under which nothing is verified yet.
LEMMA RequestVerified ==
  ASSUME TypeOK, VerifiedInv, status = "ok", NEW c, Request(c), c.epoch = auth.epoch + 1,
         c.target = "observe" => c.returnTo = "none"
  PROVE  VerifiedInv'
<1>1. verified' = verified /\ auth.epoch \in Nat /\ \A i \in Inverters : verified[i] \in Nat
  BY AuthorityFields DEF Request, memory, TypeOK
<1>2. auth' \in {c, auth} /\ (status' = "ok" => auth' = c)
  BY DEF Request, Saved, SaveFails
<1>3. CASE status' = "ok"
  BY <1>1, <1>2, <1>3 DEF VerifiedInv
<1>4. CASE status' # "ok"
  BY <1>1, <1>2, <1>4 DEF VerifiedInv
<1> QED
  BY <1>3, <1>4

\* Every request is a new grant.
LEMMA GrantedEpoch ==
  ASSUME TypeOK
  PROVE  /\ \A a \in Authority : Granted(a).epoch = auth.epoch + 1
         /\ \A a \in Authority : \A mode, steps : Handover(a, mode, steps).epoch = auth.epoch + 1
         /\ \A a \in Authority : \A mode, steps : Handover(a, mode, steps).target \in {mode, "none"}
         /\ \A a \in Authority : \A mode, steps : Handover(a, mode, steps).returnTo = a.returnTo
         /\ CanResume => Resumed.epoch = auth.epoch + 1
<1>1. /\ \A a \in Authority : Granted(a).epoch = auth.epoch + 1
      /\ \A a \in Authority : \A mode, steps : Handover(a, mode, steps).epoch = auth.epoch + 1
      /\ \A a \in Authority : \A mode, steps : Handover(a, mode, steps).returnTo = a.returnTo
  BY DEF Granted, Handover, Authority
<1>2. \A a \in Authority : \A mode, steps : Handover(a, mode, steps).target \in {mode, "none"}
  BY DEF Granted, Handover, Authority
<1>3. Resumed.epoch = auth.epoch + 1
  <2> DEFINE a == [auth EXCEPT !.mode = auth.returnTo, !.returnTo = "none", !.timed = FALSE]
  <2>1. Resumed = [[a EXCEPT !.steps = ResumeSteps,
                             !.target = IF ResumeSteps = <<>> THEN "none" ELSE auth.returnTo]
                     EXCEPT !.epoch = auth.epoch + 1]
    BY DEF Resumed, Handover, Granted
  <2> QED
    BY <2>1 DEF TypeOK, Authority
<1> QED
  BY <1>1, <1>2, <1>3

\* A request is a new grant, and never gives a session on the way to Observe.
LEMMA OwnerVerified ==
  ASSUME TypeOK, VerifiedInv, Owner \/ Expire
  PROVE  VerifiedInv'
<1>1. auth \in Authority
  BY DEF TypeOK
<1>2. status = "ok"
  BY DEF Owner, StartManual, ChangeReturn, Resume, Observe, ToOptimise, ToProtect, NewSession,
         Asked, Known, Expire, Running
<1>3. ASSUME NEW c, Request(c), c.epoch = auth.epoch + 1, c.target = "observe" => c.returnTo = "none"
      PROVE  VerifiedInv'
  BY <1>2, <1>3, RequestVerified
<1>4. ASSUME NEW timed \in BOOLEAN, NEW keep \in BOOLEAN, StartManual(timed, keep)
      PROVE  VerifiedInv'
  <2> DEFINE a == [auth EXCEPT !.returnTo = auth.mode, !.timed = timed]
  <2>1. a \in Authority
    BY <1>1 DEF Authority
  <2>2. auth.mode # "observe" /\ \E steps : Request(Handover(a, auth.mode, steps))
    BY <1>4 DEF StartManual
  <2> HIDE DEF a
  <2>3. PICK steps : Request(Handover(a, auth.mode, steps))
    BY <2>2
  <2>4. Handover(a, auth.mode, steps).target # "observe"
        /\ Handover(a, auth.mode, steps).epoch = auth.epoch + 1
    BY <2>1, <2>2, GrantedEpoch
  <2> QED
    BY <1>3, <2>3, <2>4
<1>5. ASSUME NEW mode \in Modes, ChangeReturn(mode) PROVE VerifiedInv'
  <2> DEFINE a == [auth EXCEPT !.returnTo = mode]
  <2>1. a \in Authority /\ a.target = auth.target
    BY <1>1 DEF Authority
  <2>2. Request(Granted(a)) /\ auth.returnTo # "none"
    BY <1>5 DEF ChangeReturn, InManual
  <2> HIDE DEF a
  <2>3. Granted(a).epoch = auth.epoch + 1 /\ Granted(a).target = auth.target
    BY <1>1, <2>1, GrantedEpoch, GrantedRecord
  <2>4. auth.target # "observe"
    BY <2>2 DEF VerifiedInv
  <2> QED
    BY <1>3, <2>2, <2>3, <2>4
<1>6. CASE Resume \/ Expire
  <2>1. CanResume /\ Request(Resumed)
    BY <1>6 DEF Resume, Expire
  <2> QED
    BY <1>1, <1>3, <2>1, ResumedRecord, GrantedEpoch
<1>7. CASE Observe
  <2> DEFINE a == [auth EXCEPT !.returnTo = "none", !.timed = FALSE]
  <2>1. a \in Authority /\ a.returnTo = "none"
    BY <1>1 DEF Authority
  <2>2. \E steps : Request(Handover(a, "observe", steps))
    BY <1>7 DEF Observe
  <2> HIDE DEF a
  <2> QED
    BY <1>3, <2>1, <2>2, GrantedEpoch
<1>8. CASE ToOptimise
  <2> DEFINE a == [auth EXCEPT !.mode = "optimise"]
  <2>1. a \in Authority /\ a.returnTo = auth.returnTo
    BY <1>1 DEF Authority, Modes
  <2>2. auth.returnTo = "none" /\ \E steps : Request(Handover(a, "optimise", steps))
    BY <1>8 DEF ToOptimise, InManual
  <2> HIDE DEF a
  <2> QED
    BY <1>3, <2>1, <2>2, GrantedEpoch
<1>9. CASE ToProtect
  <2> DEFINE a == [auth EXCEPT !.mode = "protect"]
  <2>1. a \in Authority /\ a.returnTo = auth.returnTo
    BY <1>1 DEF Authority, Modes
  <2>2. auth.returnTo = "none"
        /\ \E steps : Request(Handover(auth, "protect", steps)) \/ Request(Handover(a, "protect", steps))
    BY <1>9 DEF ToProtect, InManual
  <2> HIDE DEF a
  <2> QED
    BY <1>1, <1>3, <2>1, <2>2, GrantedEpoch
<1>10. CASE NewSession
  <2>1. Granted(auth).target = auth.target /\ Granted(auth).returnTo = auth.returnTo
        /\ Granted(auth).epoch = auth.epoch + 1
    BY <1>1, GrantedEpoch, GrantedRecord
  <2> QED
    BY <1>3, <1>10, <2>1 DEF NewSession, VerifiedInv
<1> QED
  BY <1>4, <1>5, <1>6, <1>7, <1>8, <1>9, <1>10 DEF Owner

\* Entering fallback is a new grant, and a returning cause believes only what it may.
LEMMA EvaluateVerified ==
  ASSUME TypeOK, VerifiedInv, Evaluate \/ RetryOver \/ ReapplyAgain
  PROVE  VerifiedInv'
<1>1. auth \in Authority /\ auth.epoch \in Nat /\ verified \in [Inverters -> Nat]
      /\ Unverified \in [Inverters -> Nat] /\ \A i \in Inverters : verified[i] \in Nat
  BY AuthorityFields DEF TypeOK, Unverified
<1>2. Evaluate => status = "ok" /\ auth.returnTo = "none" /\ auth.target # "observe"
  BY DEF Evaluate, EnterFallback, KeepFallback, ClearCauses, RetryExit, EndFallback,
         AwaitExitPlan, Exits, Evaluates, InManual
<1>3. /\ \A b \in BOOLEAN : /\ [auth EXCEPT !.causes = b].epoch = auth.epoch
                            /\ [auth EXCEPT !.causes = b].returnTo = auth.returnTo
                            /\ [auth EXCEPT !.causes = b].target = auth.target
                            /\ [auth EXCEPT !.causes = b].causes = b
      /\ \A b \in BOOLEAN : LET c == Granted([auth EXCEPT !.active = b])
                            IN  c.epoch = auth.epoch + 1 /\ c.returnTo = auth.returnTo
                                /\ c.target = auth.target
      /\ LET c == Granted([auth EXCEPT !.active = TRUE, !.causes = TRUE])
         IN  c.epoch = auth.epoch + 1 /\ c.returnTo = auth.returnTo /\ c.target = auth.target
  BY <1>1 DEF Authority, Granted
<1>4. ReapplyIfDue =>
        \A i \in Inverters :
          \/ verified'[i] = auth.epoch /\ resident'[i] = "fallback"
          \/ verified'[i] = verified[i] /\ resident'[i] \in {resident[i], "fallback"}
  BY <1>1, WrittenVerified DEF ReapplyIfDue, ApplyFallback
\* A save that failed leaves the record on disk only.
<1>5. ASSUME NEW c, SaveFails({c}), c.epoch \in {auth.epoch, auth.epoch + 1},
             c.target # "observe", Evaluate
      PROVE  VerifiedInv'
  <2>1. auth' \in {auth, c} /\ status' # "ok"
    BY <1>5 DEF SaveFails
  <2> QED
    BY <1>1, <1>2, <1>5, <2>1 DEF VerifiedInv
<1>6. CASE EnterFallback
  <2> DEFINE c == Granted([auth EXCEPT !.active = TRUE, !.causes = TRUE])
  <2>1. c.epoch = auth.epoch + 1 /\ c.returnTo = "none" /\ c.target # "observe" /\ Evaluate
    BY <1>2, <1>3, <1>6 DEF Evaluate
  <2>2. SaveFails({c}) \/ (Saved(c) /\ ApplyFallback(verified, Due(verified, c.epoch), c.epoch))
    BY <1>6 DEF EnterFallback
  <2> HIDE DEF c
  <2>3. CASE Saved(c) /\ ApplyFallback(verified, Due(verified, c.epoch), c.epoch)
    <3>1. Due(verified, c.epoch) \in SUBSET Inverters /\ c.epoch \in Nat
      BY <1>1, <2>1 DEF Due
    <3>2. \A i \in Inverters : \/ verified'[i] = c.epoch /\ resident'[i] = "fallback"
                               \/ verified'[i] = verified[i]
      BY <1>1, <2>3, <3>1, WrittenVerified DEF ApplyFallback
    <3>3. auth' = c
      BY <2>3 DEF Saved
    <3> QED
      BY <1>1, <1>2, <2>1, <3>2, <3>3 DEF VerifiedInv
  <2> QED
    BY <1>5, <2>1, <2>2, <2>3
<1>7. CASE KeepFallback
  <2> DEFINE c == [auth EXCEPT !.causes = TRUE]
  <2>1. c.epoch = auth.epoch /\ c.returnTo = "none" /\ c.target # "observe" /\ Evaluate
        /\ auth.active
    BY <1>2, <1>3, <1>7 DEF Evaluate, KeepFallback
  <2>2. SaveFails({c})
        \/ (Saved(c) /\ ApplyFallback(Believed, Due(Believed, auth.epoch), auth.epoch))
    BY <1>7 DEF KeepFallback
  <2> HIDE DEF c
  <2>3. CASE Saved(c) /\ ApplyFallback(Believed, Due(Believed, auth.epoch), auth.epoch)
    <3>1. Believed \in [Inverters -> Nat] /\ Due(Believed, auth.epoch) \in SUBSET Inverters
      BY <1>1 DEF Believed, Due
    <3>2. \A i \in Inverters :
            \/ verified'[i] = auth.epoch /\ resident'[i] = "fallback"
            \/ verified'[i] = Believed[i] /\ resident'[i] \in {resident[i], "fallback"}
      BY <1>1, <2>3, <3>1, WrittenVerified DEF ApplyFallback
    <3>3. auth' = c
      BY <2>3 DEF Saved
    <3>4. CASE auth.causes
      BY <1>1, <1>2, <2>1, <3>2, <3>3, <3>4 DEF VerifiedInv, Believed
    <3>5. CASE ~auth.causes
      <4>1. \A i \in Inverters : Believed[i] = 0
        BY <3>5 DEF Believed, Unverified
      <4> QED
        BY <1>1, <1>2, <2>1, <3>2, <3>3, <4>1 DEF VerifiedInv
    <3> QED
      BY <3>4, <3>5
  <2> QED
    BY <1>5, <2>1, <2>2, <2>3
<1>8. CASE ClearCauses
  <2> DEFINE c == [auth EXCEPT !.causes = FALSE]
  <2>1. c.epoch = auth.epoch /\ c.returnTo = "none" /\ c.target # "observe" /\ ~c.causes
        /\ Evaluate
    BY <1>2, <1>3, <1>8 DEF Evaluate
  <2>2. SaveFails({c}) \/ (Saved(c) /\ ReapplyIfDue)
    BY <1>8 DEF ClearCauses
  <2> HIDE DEF c
  <2>3. CASE Saved(c) /\ ReapplyIfDue
    <3>1. auth' = c
      BY <2>3 DEF Saved
    <3>2. VerifiedInv'
      BY <1>1, <1>2, <1>4, <2>1, <2>3, <3>1 DEF VerifiedInv
    <3> QED
      BY <3>2
  <2> QED
    BY <1>5, <2>1, <2>2, <2>3
<1>9. CASE RetryExit
  <2>1. auth' = auth /\ ~auth.causes /\ ApplyFallback(Unverified, Inverters, auth.epoch)
    BY <1>9 DEF RetryExit, Exits
  <2>2. \A i \in Inverters : verified'[i] = auth.epoch \/ verified'[i] = Unverified[i]
    BY <1>1, <2>1, WrittenVerified DEF ApplyFallback
  <2>3. \A i \in Inverters : Unverified[i] = 0
    BY DEF Unverified
  <2> QED
    BY <1>1, <1>2, <1>9, <2>1, <2>2, <2>3 DEF VerifiedInv, Evaluate
<1>10. CASE EndFallback
  <2> DEFINE c == Granted([auth EXCEPT !.active = FALSE])
  <2>1. c.epoch = auth.epoch + 1 /\ c.target # "observe" /\ Evaluate
    BY <1>2, <1>3, <1>10 DEF Evaluate
  <2>2. SaveFails({c}) \/ (Saved(c) /\ verified' = Unverified)
    BY <1>10 DEF EndFallback
  <2> HIDE DEF c
  <2>3. CASE Saved(c) /\ verified' = Unverified
    <3>1. auth' = c /\ \A i \in Inverters : verified'[i] = 0
      BY <2>3 DEF Saved, Unverified
    <3> QED
      BY <1>1, <2>1, <3>1 DEF VerifiedInv
  <2> QED
    BY <1>5, <2>1, <2>2, <2>3
<1>11. CASE AwaitExitPlan
  <2>1. auth' = auth /\ ReapplyIfDue /\ Evaluate /\ status = "ok"
    BY <1>2, <1>11 DEF AwaitExitPlan, Evaluate
  <2> QED
    BY <1>2, <1>4, <2>1, VerifiedWritten
<1>12. CASE RetryOver \/ ReapplyAgain
  <2>1. auth' = auth /\ status' = status /\ verified' = verified /\ resident' = resident
    BY <1>12 DEF RetryOver, ReapplyAgain, devices
  <2> QED
    BY <2>1, VerifiedUntouched
<1> QED
  BY <1>6, <1>7, <1>8, <1>9, <1>10, <1>11, <1>12 DEF Evaluate

\* A claim is a new grant when it ends fallback.
LEMMA CommittedGrant ==
  ASSUME NEW a \in Authority
  PROVE  LET c == Committed(a)
         IN  /\ c.epoch \in {a.epoch, a.epoch + 1} /\ c.returnTo = a.returnTo
             /\ c.target = "none"
             /\ c.active /\ c.causes => a.active /\ a.causes /\ c.epoch = a.epoch
<1> DEFINE ends == a.active /\ a.returnTo = "none" /\ a.target # "optimise"
<1>1. Committed(a).epoch = IF ends THEN a.epoch + 1 ELSE a.epoch
  BY DEF Committed, Authority
<1>2. Committed(a).returnTo = a.returnTo /\ Committed(a).target = "none"
  BY DEF Committed, Authority
<1>3. Committed(a).active = (a.active /\ ~ends) /\ Committed(a).causes = (a.causes /\ ~ends)
  BY DEF Committed, Authority
<1> QED
  BY <1>1, <1>2, <1>3

\* The steps of a transition write the schedule only where the owner is not in control.
LEMMA AdvanceVerified ==
  ASSUME TypeOK, VerifiedInv, Advance
  PROVE  VerifiedInv'
<1>1. auth \in Authority /\ auth.epoch \in Nat /\ verified \in [Inverters -> Nat]
      /\ \A i \in Inverters : verified[i] \in Nat
  BY AuthorityFields DEF TypeOK
<1>2. CanAdvance /\ status = "ok"
  BY DEF Advance, VerifyFreshPlan, CancelExport, WriteFallbackStep, SkipFallback, Protection,
         Claim, At, CanAdvance, Running, Known
<1> DEFINE Grants(c) == /\ c.epoch \in {auth.epoch, auth.epoch + 1} /\ c.returnTo = auth.returnTo
                        /\ c.target \in {auth.target, "none"}
                        /\ c.active /\ c.causes
                             => auth.active /\ auth.causes /\ c.epoch = auth.epoch
<1>3. Grants(auth')
  <2>1. CASE auth' = auth
    BY <2>1
  <2>2. CASE auth.steps # <<>> /\ Advances
    <3>1. Progressed \in Authority /\ Progressed.target = auth.target
          /\ Progressed.returnTo = auth.returnTo
      BY <1>1, <2>2, ProgressedRecord
    <3>2. Progressed.epoch = auth.epoch /\ Progressed.active = auth.active
          /\ Progressed.causes = auth.causes
      BY <1>1 DEF Progressed, Authority
    <3>3. auth' \in {auth, Progressed, Committed(Progressed)}
      BY <2>2 DEF Advances, Saved, SaveFails
    <3> QED
      BY <3>1, <3>2, <3>3, CommittedGrant
  <2>3. CASE Claim
    <3>1. auth' \in {auth, Committed(auth)}
      BY <2>3 DEF Claim, Saved, SaveFails
    <3> QED
      BY <1>1, <3>1, CommittedGrant
  <2>4. Stays => auth' = auth
    BY DEF Stays, Saved, SaveFails
  <2> QED
    BY <2>1, <2>2, <2>3, <2>4 DEF Advance, VerifyFreshPlan, CancelExport, WriteFallbackStep,
         SkipFallback, Protection, At
<1> HIDE DEF Grants
<1>4. ASSUME \A i \in Inverters :
               \/ verified'[i] = auth.epoch /\ resident'[i] = "fallback" /\ auth.returnTo = "none"
               \/ verified'[i] = verified[i] /\ resident'[i] \in {resident[i], "fallback"}
      PROVE  VerifiedInv'
  BY <1>1, <1>2, <1>3, <1>4 DEF VerifiedInv, Grants
<1>5. CASE UNCHANGED <<resident, verified>>
  BY <1>4, <1>5
<1>6. CASE WriteFallbackStep
  <2>1. PICK done \in SUBSET Inverters :
          \/ FallbackPermitted(auth) /\ WriteFallback(verified, Inverters, auth.epoch, done)
          \/ UNCHANGED <<resident, verified, glitches>>
    BY <1>6 DEF WriteFallbackStep
  <2>2. CASE FallbackPermitted(auth) /\ WriteFallback(verified, Inverters, auth.epoch, done)
    <3>1. auth.returnTo = "none"
      BY <2>2 DEF FallbackPermitted
    <3> QED
      BY <1>1, <1>4, <2>2, <3>1, WrittenVerified
  <2> QED
    BY <1>5, <2>1, <2>2
<1>7. CASE SkipFallback
  <2>1. auth.returnTo = "none"
    BY <1>7 DEF SkipFallback, VerifiedInv
  <2>2. \A i \in Inverters :
          \/ verified'[i] = auth.epoch /\ resident'[i] = "fallback"
          \/ verified'[i] = verified[i] /\ resident'[i] = resident[i]
    BY <1>7 DEF SkipFallback
  <2> QED
    BY <1>4, <2>1, <2>2
<1> QED
  BY <1>5, <1>6, <1>7 DEF Advance, VerifyFreshPlan, CancelExport, Protection, Claim, devices

\* A plan writes only while there are no causes.
LEMMA PlanVerified ==
  ASSUME TypeOK, VerifiedInv, AcceptPlan \/ ApplyGroup
  PROVE  VerifiedInv'
<1>1. auth' = auth /\ status' = status /\ verified' = verified
  BY DEF AcceptPlan, ApplyGroup, GroupApplies, GroupFails, GroupRefused, Group
<1>2. resident' = resident \/ PlanPermitted
  BY DEF AcceptPlan, ApplyGroup, GroupApplies, GroupFails, GroupRefused, devices
<1>3. CASE PlanPermitted
  <2>1. ~(auth.active /\ auth.causes)
    BY <1>3 DEF PlanPermitted
  <2> QED
    BY <1>1, <2>1 DEF VerifiedInv
<1>4. CASE resident' = resident
  BY <1>1, <1>4, VerifiedUntouched
<1> QED
  BY <1>2, <1>3, <1>4

\* Without a repair every later record is of a later epoch or of a memory that is empty.
LEMMA WorldVerified ==
  ASSUME TypeOK, VerifiedInv,
         \/ ClearExport \/ (\E i \in Inverters : OwnerWrites(i))
         \/ Lose \/ Recover \/ Restart \/ Startup \/ GraceEnds
  PROVE  VerifiedInv'
<1>1. auth \in Authority /\ auth.epoch \in Nat /\ \A i \in Inverters : verified[i] \in Nat
  BY AuthorityFields DEF TypeOK
<1>2. CASE ClearExport \/ Lose \/ Recover \/ GraceEnds
  <2>1. auth' = auth /\ status' = status /\ verified' = verified /\ resident' = resident
    BY <1>2 DEF ClearExport, Lose, Recover, GraceEnds, devices, memory
  <2> QED
    BY <2>1, VerifiedUntouched
<1>3. CASE \E i \in Inverters : OwnerWrites(i)
  <2>1. auth' = auth /\ status' = status /\ verified' = verified
        /\ (auth.returnTo # "none" \/ ~auth.active)
    BY <1>3 DEF OwnerWrites, memory, InManual
  <2> QED
    BY <2>1 DEF VerifiedInv
<1>4. CASE Restart
  <2>1. auth' = auth /\ \A i \in Inverters : verified'[i] = 0
    BY <1>4 DEF Restart, Unverified
  <2> QED
    BY <1>1, <2>1 DEF VerifiedInv
<1>5. CASE Startup
  <2>1. verified' = verified /\ resident' = resident /\ status = "ok"
    BY <1>5 DEF Startup, devices, memory
  <2>2. CASE UNCHANGED <<auth, status, faults>>
    BY <2>1, <2>2, VerifiedUntouched
  <2>3. CASE CanResume /\ (Saved(Resumed) \/ SaveFails({Resumed}))
    <3>1. Resumed.returnTo = "none" /\ Resumed.epoch = auth.epoch + 1
      BY <1>1, <2>3, ResumedRecord, GrantedEpoch
    <3>2. auth' \in {auth, Resumed} /\ (status' = "ok" => auth' = Resumed)
      BY <2>3 DEF Saved, SaveFails
    <3> QED
      BY <1>1, <2>1, <3>1, <3>2 DEF VerifiedInv
  <2> QED
    BY <1>5, <2>2, <2>3 DEF Startup
<1> QED
  BY <1>2, <1>3, <1>4, <1>5

\* Stores are numbered from one.
StoreInv == auth.store >= 1

\* Without repairs allowed none is made.
LEMMA NoRepair ==
  ASSUME Repairs = 0, TypeOK, StoreInv
  PROVE  ~Repair
BY AuthorityFields DEF Repair, TypeOK, StoreInv

\* A request's record is of the same store.
LEMMA GrantedStore ==
  ASSUME TypeOK
  PROVE  /\ \A a \in Authority : Granted(a).store = a.store
         /\ \A a \in Authority : \A mode, steps : Handover(a, mode, steps).store = a.store
BY DEF Granted, Handover, Authority

\* Requests stay in their store.
LEMMA OwnerStore ==
  ASSUME TypeOK, Owner \/ Expire
  PROVE  auth'.store = auth.store
<1>1. auth \in Authority
  BY DEF TypeOK
<1>2. ASSUME NEW c, Request(c), c.store = auth.store PROVE auth'.store = auth.store
  BY <1>2 DEF Request, Saved, SaveFails
<1>3. ASSUME NEW a \in Authority, a.store = auth.store, NEW mode,
             \E steps : Request(Handover(a, mode, steps))
      PROVE  auth'.store = auth.store
  BY <1>2, <1>3, GrantedStore
<1>4. ASSUME NEW timed \in BOOLEAN, NEW keep \in BOOLEAN, StartManual(timed, keep)
      PROVE  auth'.store = auth.store
  <2> DEFINE a == [auth EXCEPT !.returnTo = auth.mode, !.timed = timed]
  <2>1. auth.mode \in Modes
    BY <1>1, AuthorityFields
  <2>2. a \in Authority /\ a.store = auth.store
    BY <1>1, <2>1 DEF Authority
  <2>3. \E steps : Request(Handover(a, auth.mode, steps))
    BY <1>4 DEF StartManual
  <2> HIDE DEF a
  <2> QED
    BY <1>3, <2>2, <2>3
<1>5. ASSUME NEW mode \in Modes, ChangeReturn(mode) PROVE auth'.store = auth.store
  <2>1. [auth EXCEPT !.returnTo = mode] \in Authority
        /\ [auth EXCEPT !.returnTo = mode].store = auth.store
    BY <1>1 DEF Authority
  <2> QED
    BY <1>2, <1>5, <2>1, GrantedStore DEF ChangeReturn
<1>6. CASE Resume \/ Expire
  <2>1. CanResume /\ Request(Resumed)
    BY <1>6 DEF Resume, Expire
  <2> QED
    BY <1>1, <1>2, <2>1, ResumedRecord
<1>7. CASE Observe
  <2> DEFINE a == [auth EXCEPT !.returnTo = "none", !.timed = FALSE]
  <2>1. a \in Authority /\ a.store = auth.store
    BY <1>1 DEF Authority
  <2>2. \E steps : Request(Handover(a, "observe", steps))
    BY <1>7 DEF Observe
  <2> HIDE DEF a
  <2> QED
    BY <1>3, <2>1, <2>2
<1>8. CASE ToOptimise
  <2> DEFINE a == [auth EXCEPT !.mode = "optimise"]
  <2>1. a \in Authority /\ a.store = auth.store
    BY <1>1 DEF Authority, Modes
  <2>2. \E steps : Request(Handover(a, "optimise", steps))
    BY <1>8 DEF ToOptimise
  <2> HIDE DEF a
  <2> QED
    BY <1>3, <2>1, <2>2
<1>9. CASE ToProtect
  <2> DEFINE a == [auth EXCEPT !.mode = "protect"]
  <2>1. a \in Authority /\ a.store = auth.store
    BY <1>1 DEF Authority, Modes
  <2>2. (\E steps : Request(Handover(auth, "protect", steps)))
        \/ (\E steps : Request(Handover(a, "protect", steps)))
    BY <1>9 DEF ToProtect
  <2> HIDE DEF a
  <2> QED
    BY <1>1, <1>3, <2>1, <2>2
<1>10. CASE NewSession
  BY <1>1, <1>2, <1>10, GrantedStore DEF NewSession
<1> QED
  BY <1>4, <1>5, <1>6, <1>7, <1>8, <1>9, <1>10 DEF Owner

\* So do fallback and its plans.
LEMMA EvaluateStore ==
  ASSUME TypeOK, Evaluate
  PROVE  auth'.store = auth.store
<1>1. auth \in Authority
  BY DEF TypeOK
<1>2. CASE EnterFallback
  <2> DEFINE a == [auth EXCEPT !.active = TRUE, !.causes = TRUE]
  <2>1. a \in Authority /\ a.store = auth.store
    BY <1>1 DEF Authority
  <2>2. auth' \in {auth, Granted(a)}
    BY <1>2 DEF EnterFallback, Saved, SaveFails
  <2> HIDE DEF a
  <2> QED
    BY <2>1, <2>2, GrantedStore
<1>3. CASE KeepFallback \/ ClearCauses
  <2>1. auth' \in {auth, [auth EXCEPT !.causes = TRUE], [auth EXCEPT !.causes = FALSE]}
    BY <1>3 DEF KeepFallback, ClearCauses, Saved, SaveFails
  <2> QED
    BY <1>1, <2>1 DEF Authority
<1>4. CASE RetryExit \/ AwaitExitPlan
  BY <1>4 DEF RetryExit, AwaitExitPlan
<1>5. CASE EndFallback
  <2> DEFINE a == [auth EXCEPT !.active = FALSE]
  <2>1. a \in Authority /\ a.store = auth.store
    BY <1>1 DEF Authority
  <2>2. auth' \in {auth, Granted(a)}
    BY <1>5 DEF EndFallback, Saved, SaveFails
  <2> HIDE DEF a
  <2> QED
    BY <2>1, <2>2, GrantedStore
<1> QED
  BY <1>2, <1>3, <1>4, <1>5 DEF Evaluate

\* So does a transition, and what it claims.
LEMMA AdvanceStore ==
  ASSUME TypeOK, Advance
  PROVE  auth'.store = auth.store
<1>1. auth \in Authority /\ auth.target \in Modes
  BY AuthorityFields DEF TypeOK, Advance, VerifyFreshPlan, CancelExport, WriteFallbackStep,
       SkipFallback, Protection, Claim, At, CanAdvance
<1>2. CASE auth' = auth
  BY <1>2
<1>3. CASE auth.steps # <<>> /\ Advances
  <2>1. Progressed \in Authority /\ Progressed.target = auth.target
        /\ Progressed.store = auth.store
    BY <1>1, <1>3, ProgressedRecord
  <2>2. auth' \in {auth, Progressed, Committed(Progressed)}
    BY <1>3 DEF Advances, Saved, SaveFails
  <2> QED
    BY <1>1, <2>1, <2>2, CommittedRecord
<1>4. CASE Claim
  <2>1. auth' \in {auth, Committed(auth)}
    BY <1>4 DEF Claim, Saved, SaveFails
  <2> QED
    BY <1>1, <2>1, CommittedRecord
<1>5. Stays => auth' = auth
  BY DEF Stays, Saved, SaveFails
<1> QED
  BY <1>2, <1>3, <1>4, <1>5 DEF Advance, VerifyFreshPlan, CancelExport, WriteFallbackStep,
       SkipFallback, Protection, At

\* Only a repair begins a new store.
LEMMA StoreKept ==
  ASSUME TypeOK, StoreInv, [Next]_vars, ~Repair
  PROVE  StoreInv'
<1>1. auth \in Authority
  BY DEF TypeOK
<1>2. CASE \/ RetryOver \/ ReapplyAgain \/ AcceptPlan \/ ApplyGroup \/ ClearExport
           \/ (\E i \in Inverters : OwnerWrites(i))
           \/ Lose \/ Recover \/ Restart \/ GraceEnds \/ UNCHANGED vars
  BY <1>2 DEF RetryOver, ReapplyAgain, AcceptPlan, ApplyGroup, GroupApplies, GroupFails,
       GroupRefused, Group, ClearExport, OwnerWrites, Lose, Recover, Restart, GraceEnds, vars,
       StoreInv
<1>3. CASE Startup
  <2>1. auth' = auth \/ (CanResume /\ auth' = Resumed)
    BY <1>3 DEF Startup, Saved, SaveFails
  <2> QED
    BY <1>1, <2>1, ResumedRecord DEF StoreInv
<1>4. CASE Owner \/ Expire \/ Evaluate \/ Advance
  BY <1>4, OwnerStore, EvaluateStore, AdvanceStore DEF StoreInv
<1> QED
  BY <1>2, <1>3, <1>4 DEF Next

\* Without a repair, what is reported in force was read back from the device and stands on
\* it: epochs only grow, and every grant outdates what was verified before it.
THEOREM ReadBackInForce == ASSUME Repairs = 0 PROVE Spec => []InForce
<1> DEFINE Inv == StoreInv /\ VerifiedInv
<1>1. Init => Inv
  <2> SUFFICES ASSUME Init PROVE Inv
    OBVIOUS
  <2>1. auth.store = 1 /\ auth.epoch = 1 /\ auth.target = "none" /\ auth.returnTo = "none"
        /\ ~auth.active /\ verified = Unverified
    BY DEF Init, FreshObserve
  <2> QED
    BY <2>1 DEF StoreInv, VerifiedInv, Unverified
<1>2. TypeOK /\ Inv /\ [Next]_vars => Inv'
  <2> SUFFICES ASSUME TypeOK, Inv, [Next]_vars PROVE Inv'
    OBVIOUS
  <2>1. ~Repair
    BY NoRepair
  <2>2. StoreInv'
    BY <2>1, StoreKept
  <2>3. CASE UNCHANGED vars
    BY <2>2, <2>3 DEF vars, VerifiedInv
  <2>4. CASE Next
    BY <2>1, <2>2, <2>4, OwnerVerified, EvaluateVerified, AdvanceVerified, PlanVerified,
       WorldVerified DEF Next
  <2> QED
    BY <2>3, <2>4
<1>3. Inv => InForce
  BY VerifiedInForce
<1> QED
  BY <1>1, <1>2, <1>3, TypeCorrect, PTL DEF Spec

-----------------------------------------------------------------------------
(* No old plan *)

\* Optimise is held, returned to or claimed: only in one of these may a plan come to write.
Wanted(a) == a.mode = "optimise" \/ a.returnTo = "optimise" \/ a.target = "optimise"

\* Where Optimise may come about, the plan under way was accepted in this very store: it is
\* asked for only while none is, and a repair leaves it out of reach.
JobInv == Wanted(auth) /\ job.left # {} => job.store = auth.store

\* A step that changes no plan under way, and brings Optimise about only between plans.
LEMMA JobUntouched ==
  ASSUME JobInv, auth'.store = auth.store, Wanted(auth') => Wanted(auth) \/ job = NoJob,
         job'.left = job.left, job'.store = job.store
  PROVE  JobInv'
<1>1. job = NoJob => job.left = {}
  BY DEF NoJob
<1>2. SUFFICES ASSUME Wanted(auth'), job'.left # {} PROVE job'.store = auth'.store
  BY DEF JobInv, Wanted
<1> QED
  BY <1>1, <1>2 DEF JobInv

\* A request wants Optimise only where it was wanted, or between plans.
LEMMA OwnerWants ==
  ASSUME TypeOK, Owner \/ Expire, Wanted(auth')
  PROVE  Wanted(auth) \/ job = NoJob
<1>1. auth \in Authority
  BY DEF TypeOK
<1>2. ASSUME NEW c, Request(c), Wanted(c) => Wanted(auth) PROVE Wanted(auth)
  BY <1>2 DEF Request, Saved, SaveFails
<1>3. ASSUME NEW a \in Authority, NEW mode \in Modes, NEW steps \in Seq(Steps),
             Request(Handover(a, mode, steps)),
             a.mode = "optimise" \/ a.returnTo = "optimise" \/ mode = "optimise" => Wanted(auth)
      PROVE  Wanted(auth)
  <2> DEFINE h == Handover(a, mode, steps)
  <2>1. h.mode = a.mode /\ h.returnTo = a.returnTo /\ h.target \in {"none", mode}
    BY <1>1, <1>3, HandoverRecord
  <2> HIDE DEF h
  <2>2. Wanted(h) => Wanted(auth)
    BY <1>3, <2>1 DEF Wanted
  <2>3. Request(h)
    BY <1>3 DEF h
  <2> QED
    BY <1>2, <2>2, <2>3
<1>4. ASSUME NEW timed \in BOOLEAN, NEW keep \in BOOLEAN, StartManual(timed, keep)
      PROVE  Wanted(auth)
  <2> DEFINE a == [auth EXCEPT !.returnTo = auth.mode, !.timed = timed]
             steps == ExportSteps(auth.mode) \o (IF keep THEN <<>> ELSE <<"release_holds">>)
  <2>1. auth.mode \in Modes
    BY <1>1, AuthorityFields
  <2>2. a \in Authority /\ a.mode = auth.mode /\ a.returnTo = auth.mode
    BY <1>1, <2>1 DEF Authority
  <2>3. steps \in Seq(Steps)
    <3>1. ExportSteps(auth.mode) \in Seq(Steps)
          /\ (IF keep THEN <<>> ELSE <<"release_holds">>) \in Seq(Steps)
      BY StepSequences DEF ExportSteps
    <3> QED
      BY <3>1, ConcatProperties
  <2>4. Request(Handover(a, auth.mode, steps))
    BY <1>4 DEF StartManual
  <2> HIDE DEF a, steps
  <2> QED
    BY <1>3, <2>1, <2>2, <2>3, <2>4 DEF Wanted
<1>5. ASSUME NEW mode \in Modes, ChangeReturn(mode) PROVE job = NoJob
  BY <1>5 DEF ChangeReturn, ConsumerFree
<1>6. CASE Resume \/ Expire
  <2>1. CanResume /\ Request(Resumed)
    BY <1>6 DEF Resume, Expire
  <2>2. Wanted(Resumed) => Wanted(auth)
    BY <1>1, <2>1, ResumedRecord DEF Wanted
  <2> QED
    BY <1>2, <2>1, <2>2
<1>7. CASE Observe
  <2> DEFINE a == [auth EXCEPT !.returnTo = "none", !.timed = FALSE]
             pending == \E n \in 1 .. Len(auth.steps) : auth.steps[n] = "cancel_export"
             first == IF ~InManual /\ auth.mode = "optimise"
                      THEN <<"cancel_export", "write_fallback">>
                      ELSE IF pending THEN <<"cancel_export">> ELSE <<>>
  <2>1. a \in Authority /\ a.mode = auth.mode /\ a.returnTo = "none"
    BY <1>1 DEF Authority
  <2>2. Append(first, "release_holds") \in Seq(Steps)
    <3>1. first \in Seq(Steps)
      BY StepSequences
    <3> HIDE DEF first
    <3> QED
      BY <3>1 DEF Steps
  <2>3. Request(Handover(a, "observe", Append(first, "release_holds")))
    BY <1>7 DEF Observe
  <2> HIDE DEF a, first
  <2> QED
    BY <1>3, <2>1, <2>2, <2>3 DEF Wanted, Modes
<1>8. CASE ToOptimise
  BY <1>8 DEF ToOptimise, ConsumerFree
<1>9. CASE ToProtect
  <2> DEFINE a == [auth EXCEPT !.mode = "protect"]
  <2>1. a \in Authority /\ a.mode = "protect" /\ a.returnTo = auth.returnTo
    BY <1>1 DEF Authority, Modes
  <2>2. \/ Request(Handover(auth, "protect", <<"cancel_export", "write_fallback">>))
        \/ Request(Handover(a, "protect", <<"evaluate_protection">>))
    BY <1>9 DEF ToProtect
  <2>3. <<"evaluate_protection">> \in Seq(Steps) /\ "protect" \in Modes
    BY DEF Steps, Modes
  <2> HIDE DEF a
  <2>4. CASE Request(Handover(auth, "protect", <<"cancel_export", "write_fallback">>))
    BY <1>1, <1>3, <2>3, <2>4, StepSequences DEF Wanted
  <2>5. CASE Request(Handover(a, "protect", <<"evaluate_protection">>))
    BY <1>3, <2>1, <2>3, <2>5 DEF Wanted
  <2> QED
    BY <2>2, <2>4, <2>5
<1>10. CASE NewSession
  <2>1. Wanted(Granted(auth)) => Wanted(auth)
    BY <1>1, GrantedRecord DEF Wanted
  <2> QED
    BY <1>2, <1>10, <2>1 DEF NewSession
<1> QED
  BY <1>4, <1>5, <1>6, <1>7, <1>8, <1>9, <1>10 DEF Owner

\* Requests leave the plan under way alone.
LEMMA OwnerJob ==
  ASSUME Owner \/ Expire
  PROVE  job' = job
<1>1. ASSUME NEW c, Request(c) PROVE job' = job
  BY <1>1 DEF Request, memory
<1> QED
  BY <1>1 DEF Owner, Expire, StartManual, ChangeReturn, Resume, Observe, ToOptimise, ToProtect,
     NewSession

\* Fallback is a matter of Optimise already held, and lets the plan under way be.
LEMMA EvaluateJob ==
  ASSUME TypeOK, JobInv, Evaluate
  PROVE  JobInv'
<1>1. auth'.store = auth.store
  BY EvaluateStore
<1>2. Wanted(auth)
  BY DEF Evaluate, EnterFallback, KeepFallback, ClearCauses, RetryExit, EndFallback,
     AwaitExitPlan, Exits, Evaluates, Wanted
<1>3. job'.left = job.left /\ job'.store = job.store
  <2>1. job' = job \/ job' = [job EXCEPT !.counts = FALSE]
    BY DEF Evaluate, EnterFallback, KeepFallback, ClearCauses, RetryExit, EndFallback,
       AwaitExitPlan, Uncount, memory
  <2> QED
    BY <2>1 DEF TypeOK, Job
<1> QED
  BY <1>1, <1>2, <1>3, JobUntouched

\* A transition claims no more than it was asked for.
LEMMA AdvanceJob ==
  ASSUME TypeOK, JobInv, Advance
  PROVE  JobInv'
<1>1. auth \in Authority /\ auth.target \in Modes
  BY AuthorityFields DEF TypeOK, Advance, VerifyFreshPlan, CancelExport, WriteFallbackStep,
       SkipFallback, Protection, Claim, At, CanAdvance
<1>2. auth'.store = auth.store
  BY AdvanceStore
<1>3. job' = job
  BY DEF Advance, VerifyFreshPlan, CancelExport, WriteFallbackStep, SkipFallback, Protection,
     Claim, Stepping
<1>4. CASE auth' = auth
  BY <1>2, <1>3, <1>4, JobUntouched
<1>5. CASE auth.steps # <<>> /\ Advances
  <2>1. Progressed \in Authority /\ Progressed.target = auth.target
        /\ Progressed.mode = auth.mode /\ Progressed.returnTo = auth.returnTo
    BY <1>1, <1>5, ProgressedRecord
  <2>2. auth' \in {auth, Progressed, Committed(Progressed)}
    BY <1>5 DEF Advances, Saved, SaveFails
  <2>3. Wanted(Committed(Progressed)) => Wanted(auth)
    BY <1>1, <2>1, CommittedRecord DEF Wanted
  <2>4. Wanted(auth') => Wanted(auth)
    BY <2>1, <2>2, <2>3 DEF Wanted
  <2> QED
    BY <1>2, <1>3, <2>4, JobUntouched
<1>6. CASE Claim
  <2>1. auth' \in {auth, Committed(auth)}
    BY <1>6 DEF Claim, Saved, SaveFails
  <2>2. Wanted(auth') => Wanted(auth)
    BY <1>1, <2>1, CommittedRecord DEF Wanted
  <2> QED
    BY <1>2, <1>3, <2>2, JobUntouched
<1>7. Stays => auth' = auth
  BY DEF Stays, Saved, SaveFails
<1> QED
  BY <1>4, <1>5, <1>6, <1>7 DEF Advance, VerifyFreshPlan, CancelExport, WriteFallbackStep,
       SkipFallback, Protection, At

\* A plan is accepted under the store of its moment, and keeps it to its last group.
LEMMA PlanJob ==
  ASSUME TypeOK, JobInv, AcceptPlan \/ ApplyGroup
  PROVE  JobInv'
<1>1. CASE AcceptPlan
  BY <1>1 DEF AcceptPlan, JobInv
<1>2. ASSUME NEW i \in Inverters, NEW ok, i \in job.left, GroupEnds(i, ok), auth' = auth
      PROVE  JobInv'
  <2> DEFINE rest == [job EXCEPT !.left = @ \ {i}, !.ok = @ /\ ok]
  <2>1. rest.store = job.store
    BY DEF TypeOK, Job
  <2>2. job' = rest \/ job' = NoJob
    BY <1>2 DEF GroupEnds
  <2>3. job' = NoJob => job'.left = {}
    BY DEF NoJob
  <2> HIDE DEF rest
  <2> QED
    BY <1>2, <2>1, <2>2, <2>3 DEF JobInv, Wanted
<1> QED
  BY <1>1, <1>2 DEF ApplyGroup, GroupApplies, GroupFails, GroupRefused, Group

\* A repair grants Observe and a restart forgets the plan; nothing else concerns either.
LEMMA WorldJob ==
  ASSUME TypeOK, JobInv,
         \/ Repair \/ RetryOver \/ ReapplyAgain \/ ClearExport
         \/ (\E i \in Inverters : OwnerWrites(i))
         \/ Lose \/ Recover \/ Restart \/ Startup \/ GraceEnds
  PROVE  JobInv'
<1>1. CASE Repair
  BY <1>1 DEF Repair, FreshObserve, JobInv, Wanted
<1>2. CASE RetryOver
  <2>1. job'.left = job.left /\ job'.store = job.store
    BY <1>2 DEF RetryOver, Uncount, TypeOK, Job
  <2> QED
    BY <1>2, <2>1, JobUntouched DEF RetryOver
<1>3. CASE \/ ReapplyAgain \/ ClearExport \/ (\E i \in Inverters : OwnerWrites(i))
           \/ Lose \/ Recover \/ GraceEnds
  BY <1>3 DEF ReapplyAgain, ClearExport, OwnerWrites, Lose, Recover, GraceEnds, memory, JobInv
<1>4. CASE Restart
  BY <1>4 DEF Restart, NoJob, JobInv
<1>5. CASE Startup
  <2>1. job' = job /\ (auth' = auth \/ (CanResume /\ auth' = Resumed))
    BY <1>5 DEF Startup, Saved, SaveFails, memory
  <2>2. auth'.store = auth.store /\ (Wanted(auth') => Wanted(auth))
    BY <2>1, ResumedRecord DEF TypeOK, Wanted
  <2> QED
    BY <2>1, <2>2, JobUntouched
<1> QED
  BY <1>1, <1>2, <1>3, <1>4, <1>5

\* Only a plan's group turns an inverter to the plan, in Optimise.
LEMMA OldPlanStays ==
  ASSUME TypeOK, JobInv, [Next]_vars, NEW i \in Inverters,
         resident'[i] = "plan", resident[i] # "plan"
  PROVE  job.store = auth.store
<1>1. ASSUME NEW j \in Inverters, GroupApplies(j) \/ GroupFails(j)
      PROVE  job.store = auth.store
  BY <1>1 DEF GroupApplies, GroupFails, PlanPermitted, JobInv, Wanted
<1>2. ASSUME NEW before, NEW targets, NEW epoch, ApplyFallback(before, targets, epoch)
      PROVE  resident'[i] \in {"fallback", resident[i]}
  BY <1>2 DEF ApplyFallback, WriteFallback
<1>3. ASSUME NEW j \in Inverters, OwnerWrites(j) PROVE resident'[i] \in {"owner", resident[i]}
  BY <1>3 DEF OwnerWrites, TypeOK
<1>4. CASE UNCHANGED resident
  BY <1>4
<1>5. CASE Evaluate
  BY <1>2, <1>5 DEF Evaluate, EnterFallback, KeepFallback, ClearCauses, RetryExit, EndFallback,
     AwaitExitPlan, ReapplyIfDue, devices
<1>6. CASE Advance
  <2>1. CASE WriteFallbackStep \/ SkipFallback
    BY <2>1 DEF WriteFallbackStep, SkipFallback, WriteFallback
  <2>2. CASE UNCHANGED resident
    BY <2>2
  <2> QED
    BY <1>6, <2>1, <2>2 DEF Advance, VerifyFreshPlan, CancelExport, Protection, Claim, devices
<1>7. CASE Owner \/ Expire
  <2>1. ASSUME NEW c, Request(c) PROVE UNCHANGED resident
    BY <2>1 DEF Request, devices
  <2> QED
    BY <1>4, <1>7, <2>1 DEF Owner, Expire, StartManual, ChangeReturn, Resume, Observe,
       ToOptimise, ToProtect, NewSession
<1>8. CASE AcceptPlan \/ ApplyGroup
  BY <1>1, <1>8 DEF AcceptPlan, ApplyGroup, GroupRefused, devices
<1>9. CASE \/ Repair \/ RetryOver \/ ReapplyAgain \/ ClearExport
           \/ Lose \/ Recover \/ Restart \/ Startup \/ GraceEnds \/ UNCHANGED vars
  BY <1>9 DEF Repair, RetryOver, ReapplyAgain, ClearExport, Lose, Recover, Restart, Startup,
     GraceEnds, devices, vars
<1> QED
  BY <1>3, <1>5, <1>6, <1>7, <1>8, <1>9 DEF Next

\* No plan accepted before a repair ever writes after it, although epochs begin again.
THEOREM OldPlansNeverWrite == Spec => NoOldPlan
<1>1. Init => JobInv
  BY DEF Init, FreshObserve, JobInv, Wanted
<1>2. TypeOK /\ JobInv /\ [Next]_vars => JobInv'
  <2> SUFFICES ASSUME TypeOK, JobInv, [Next]_vars PROVE JobInv'
    OBVIOUS
  <2>1. CASE UNCHANGED vars
    BY <2>1 DEF vars, JobInv
  <2>2. CASE Owner \/ Expire
    BY <2>2, OwnerStore, OwnerWants, OwnerJob, JobUntouched
  <2> QED
    BY <2>1, <2>2, EvaluateJob, AdvanceJob, PlanJob, WorldJob DEF Next
<1>3. TypeOK /\ JobInv /\ [Next]_vars
        => [\A i \in Inverters : resident'[i] = "plan" /\ resident[i] # "plan"
              => job.store = auth.store]_vars
  BY OldPlanStays
<1> QED
  BY <1>1, <1>2, <1>3, TypeCorrect, PTL DEF Spec, NoOldPlan

=============================================================================
