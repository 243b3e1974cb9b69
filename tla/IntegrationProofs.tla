--------------------------- MODULE IntegrationProofs ---------------------------
(***************************************************************************)
(* Proofs about the integration's own services, each over its own state    *)
(* and for every value of its constants.  Protection holds: the types, and *)
(* that the owner's Off is left alone.  Supervised export: the types, that *)
(* a window never stands without its record, and that a tripped event is   *)
(* never armed again.  The supply guard: the types, and that no write      *)
(* lifts the connection's total above the ceiling.  The Solcast quota: the *)
(* types, that no day is called more often than its quota allows, and that *)
(* nothing takes the reserved poll's calls.  Last, what TLC explores side  *)
(* by side is each service's own behaviour.                                *)
(***************************************************************************)
EXTENDS MCIntegration, Integers, FiniteSetTheorems, WellFoundedInduction, TLAPS

-----------------------------------------------------------------------------
(* Protection holds *)

\* Only what is kept is confirmed.
Requested(H) == \A c \in Causes : H[c].confirmed => H[c].kept

\* The fields of a hold.
LEMMA HoldFields ==
  ASSUME NEW h \in Hold
  PROVE  /\ h.kept \in BOOLEAN /\ h.confirmed \in BOOLEAN /\ h.pending \in BOOLEAN
         /\ h.clear \in 0 .. Reports
BY DEF Hold

\* No hold at all is a record, and owns nothing.
LEMMA NoHoldTypes == NoHolds \in [Causes -> Hold] /\ Requested(NoHolds) /\ ~Owned(NoHolds)
BY HoldAssumption DEF NoHolds, NoHold, Hold, Requested, Owned, Kept

\* A pass that advances the evidence changes neither what is kept nor what is confirmed.
LEMMA AdvancedHolds ==
  ASSUME HoldTypeOK, Requested(holds)
  PROVE  /\ Advanced \in [Causes -> Hold] /\ Requested(Advanced)
         /\ Owned(Advanced) => Owned(holds)
<1>1. ASSUME NEW c \in Causes
      PROVE  /\ Advanced[c] \in Hold /\ Advanced[c].kept = holds[c].kept
             /\ Advanced[c].confirmed = holds[c].confirmed
  <2>1. holds[c] \in Hold
    BY DEF HoldTypeOK
  <2>2. CASE ~holds[c].kept
    <3>1. Advanced[c] = NoHold /\ ~holds[c].confirmed
      BY <2>2 DEF Advanced, Requested
    <3>2. NoHold \in Hold /\ NoHold.kept = FALSE /\ NoHold.confirmed = FALSE
      BY HoldAssumption DEF NoHold, Hold
    <3>3. holds[c].kept = FALSE /\ holds[c].confirmed = FALSE
      BY <2>1, <2>2, <3>1, HoldFields
    <3> QED
      BY <3>1, <3>2, <3>3
  <2>3. CASE holds[c].kept
    <3> DEFINE h == holds[c]
               count == IF h.clear < Reports THEN h.clear + 1 ELSE Reports
    <3>1. Advanced[c] = IF c = "ev" THEN AdvanceEv(h) ELSE AdvanceDispatch(h)
      BY <2>3 DEF Advanced
    <3>2. count \in 0 .. Reports
      BY <2>1, HoldFields, HoldAssumption
    <3>3. /\ AdvanceEv(h) \in Hold /\ AdvanceEv(h).kept = h.kept
          /\ AdvanceEv(h).confirmed = h.confirmed
      <4>1. CASE seen.ev # "clear"
        <5>1. AdvanceEv(h) = [h EXCEPT !.clear = 0, !.pending = FALSE] /\ 0 \in 0 .. Reports
          BY <4>1, HoldAssumption DEF AdvanceEv
        <5> QED
          BY <2>1, <5>1 DEF Hold
      <4>2. CASE seen.ev = "clear" /\ ~seen.report
        BY <2>1, <4>2 DEF AdvanceEv
      <4>3. CASE seen.ev = "clear" /\ seen.report
        <5>1. AdvanceEv(h) = [h EXCEPT !.clear = count, !.pending = count = Reports]
          BY <4>3 DEF AdvanceEv
        <5> HIDE DEF count
        <5> QED
          BY <2>1, <3>2, <5>1 DEF Hold
      <4> QED
        BY <4>1, <4>2, <4>3
    <3>4. (IF seen.dispatch = "unknown" THEN seen.ended ELSE seen.dispatch = "off") \in BOOLEAN
      BY DEF HoldTypeOK, Evidence
    <3>5. /\ AdvanceDispatch(h) \in Hold /\ AdvanceDispatch(h).kept = h.kept
          /\ AdvanceDispatch(h).confirmed = h.confirmed
      BY <2>1, <3>4 DEF AdvanceDispatch, Hold
    <3> QED
      BY <3>1, <3>3, <3>5
  <2> QED
    BY <2>2, <2>3
<1>2. DOMAIN Advanced = Causes /\ Advanced = [c \in Causes |-> Advanced[c]]
  BY DEF Advanced
<1> QED
  BY <1>1, <1>2 DEF Requested, Owned, Kept

\* Confirming marks what is kept.
LEMMA MarkedHolds ==
  ASSUME holds \in [Causes -> Hold]
  PROVE  Marked(holds) \in [Causes -> Hold] /\ Requested(Marked(holds))
BY DEF Marked, Hold, Requested

\* Asking for a release changes neither what is kept nor what is confirmed.
LEMMA ReleasingHolds ==
  ASSUME holds \in [Causes -> Hold], Requested(holds),
         NEW H, H = [c \in Causes |-> [holds[c] EXCEPT !.pending = holds[c].kept]]
  PROVE  H \in [Causes -> Hold] /\ Requested(H) /\ (Owned(H) <=> Owned(holds))
<1>1. ASSUME NEW c \in Causes
      PROVE  H[c] \in Hold /\ H[c].kept = holds[c].kept /\ H[c].confirmed = holds[c].confirmed
  BY DEF Hold
<1>2. H \in [Causes -> Hold]
  BY <1>1
<1> QED
  BY <1>1, <1>2 DEF Requested, Owned, Kept

\* A request may add to what is kept, and confirms nothing.
LEMMA RequestedHolds ==
  ASSUME HoldTypeOK, Requested(holds), NEW before, NEW H, H = HoldRequests(before)
  PROVE  /\ H \in [Causes -> Hold] /\ Requested(H)
         /\ Owned(H) => Owned(holds) /\ before = "off"
<1> DEFINE create == before # "off" \/ Owned(holds)
           Asks(c) == IF c = "ev" THEN EvWanted /\ ~holds[c].kept ELSE seen.dispatch = "on"
           wanted  == [c \in Causes |-> IF create /\ Asks(c)
                                        THEN [holds[c] EXCEPT !.kept = TRUE, !.pending = FALSE]
                                        ELSE holds[c]]
<1>1. H = [c \in Causes |-> [wanted[c] EXCEPT !.confirmed = @ /\ before = "off"]]
  BY DEF HoldRequests
<1>2. ASSUME NEW c \in Causes
      PROVE  /\ H[c] \in Hold /\ (holds[c].kept => H[c].kept)
             /\ H[c].confirmed = (holds[c].confirmed /\ before = "off")
  <2>1. holds[c] \in Hold
    BY DEF HoldTypeOK
  <2>2. /\ wanted[c] \in Hold /\ (holds[c].kept => wanted[c].kept)
        /\ wanted[c].confirmed = holds[c].confirmed
    BY <2>1 DEF Hold
  <2> HIDE DEF wanted
  <2>3. H[c] = [wanted[c] EXCEPT !.confirmed = @ /\ before = "off"]
    BY <1>1
  <2>4. (wanted[c].confirmed /\ before = "off") \in BOOLEAN
    OBVIOUS
  <2> QED
    BY <2>2, <2>3, <2>4 DEF Hold
<1>3. H \in [Causes -> Hold]
  BY <1>1, <1>2
<1> QED
  BY <1>2, <1>3 DEF Requested, Owned, Kept

-----------------------------------------------------------------------------
(* Protection holds: types *)

\* What a save leaves: the old record or the new one.
LEMMA HoldSaveLeaves ==
  ASSUME HoldTypeOK, NEW H \in [Causes -> Hold], NEW next \in Pass, SaveHolds(H, next)
  PROVE  /\ holds' \in [Causes -> Hold] /\ exposed' \in BOOLEAN /\ pass' \in Pass
         /\ mishaps' \in 0 .. HoldSurprises
         /\ (holds' = H /\ pass' = next) \/ (holds' \in {holds, H} /\ pass' = NoPass)
<1>1. Mishap => mishaps' \in 0 .. HoldSurprises
  BY HoldAssumption DEF HoldTypeOK, Mishap
<1>2. NoPass \in Pass
  BY DEF NoPass, Pass
<1> QED
  BY <1>1, <1>2 DEF HoldTypeOK, SaveHolds

\* Every step of a pass is a pass.
LEMMA PassSteps ==
  ASSUME HoldTypeOK
  PROVE  /\ NoPass \in Pass
         /\ \A s \in {"request", "off", "confirm", "release", "on", "drop"} :
              At(s) \in Pass /\ At(s).step = s
BY DEF HoldTypeOK, Pass, NoPass, At

LEMMA HoldTypeStep ==
  ASSUME HoldTypeOK, Requested(holds), [HoldNext]_holdVars
  PROVE  HoldTypeOK' /\ Requested(holds')
<1> USE PassSteps
<1>1. CASE UNCHANGED holdVars
  BY <1>1 DEF holdVars, HoldTypeOK, Requested, Hold, Evidence, Pass
<1>2. CASE Reconcile
  <2>1. Advanced \in [Causes -> Hold] /\ Requested(Advanced)
    BY AdvancedHolds
  <2>2. PICK s \in {"request", "release"} : SaveHolds(Advanced, At(s))
    BY <1>2 DEF Reconcile
  <2>3. seen' \in Evidence
    BY <1>2 DEF Reconcile, HoldTypeOK, Evidence
  <2> QED
    BY <1>2, <2>1, <2>2, <2>3, HoldSaveLeaves DEF Reconcile, HoldTypeOK, Requested
<1>3. ASSUME NEW removal \in BOOLEAN, HandoverRelease(removal)
      PROVE  HoldTypeOK' /\ Requested(holds')
  BY <1>3 DEF HandoverRelease, HoldTypeOK, Requested, outside, Pass
<1>4. CASE RequestHold
  <2> DEFINE before == IF polledOff THEN "off" ELSE switch
             H      == HoldRequests(before)
  <2>1. H \in [Causes -> Hold] /\ Requested(H)
    BY RequestedHolds
  <2>2. PICK next \in Pass : SaveHolds(H, next)
    BY <1>4 DEF RequestHold
  <2> HIDE DEF H
  <2> QED
    BY <1>4, <2>1, <2>2, HoldSaveLeaves DEF RequestHold, HoldTypeOK, Requested, outside
<1>5. CASE RequestUnread
  <2>1. holds' \in [Causes -> Hold] /\ Requested(holds')
    BY <1>5, RequestedHolds DEF RequestUnread
  <2>2. mishaps' \in 0 .. HoldSurprises
    BY <1>5, HoldAssumption DEF RequestUnread, Mishap, HoldTypeOK
  <2>3. pass' \in Pass
    BY <1>5 DEF RequestUnread
  <2> QED
    BY <1>5, <2>1, <2>2, <2>3 DEF RequestUnread, HoldTypeOK, outside
<1>6. CASE RequestRefused
  BY <1>6 DEF RequestRefused, HoldTypeOK, Requested, outside, Leave
<1>7. CASE WriteOff
  <2>1. mishaps' \in 0 .. HoldSurprises
    BY <1>7, HoldAssumption DEF WriteOff, Mishap, HoldTypeOK
  <2>2. holds' = holds /\ exposed' = exposed /\ pass' \in Pass
    BY <1>7 DEF WriteOff, Leave
  <2>3. switch' \in {"on", "off"} /\ polledOff' \in BOOLEAN /\ offBy' \in {"hold", "owner"}
    BY <1>7 DEF WriteOff, HoldTypeOK
  <2> QED
    BY <1>7, <2>1, <2>2, <2>3 DEF WriteOff, HoldTypeOK, Requested, outside
<1>8. CASE Confirm
  <2>1. Marked(holds) \in [Causes -> Hold] /\ Requested(Marked(holds))
    BY MarkedHolds DEF HoldTypeOK
  <2> QED
    BY <1>8, <2>1, HoldSaveLeaves DEF Confirm, HoldTypeOK, Requested, outside
<1>9. CASE Release
  <2> DEFINE R == [c \in Causes |-> [holds[c] EXCEPT !.pending = holds[c].kept]]
  <2>1. R \in [Causes -> Hold] /\ Requested(R)
    BY ReleasingHolds DEF HoldTypeOK
  <2>2. \/ Leave /\ UNCHANGED mishaps
        \/ SaveHolds(NoHolds, NoPass)
        \/ SaveHolds(R, At("on"))
    BY <1>9 DEF Release
  <2>3. UNCHANGED <<outside, switch, polledOff, offBy>>
    BY <1>9 DEF Release
  <2> HIDE DEF R
  <2>4. CASE Leave /\ UNCHANGED mishaps
    BY <2>3, <2>4 DEF Leave, HoldTypeOK, Requested, outside
  <2>5. CASE SaveHolds(NoHolds, NoPass)
    BY <2>3, <2>5, NoHoldTypes, HoldSaveLeaves DEF HoldTypeOK, Requested, outside
  <2>6. CASE SaveHolds(R, At("on"))
    BY <2>1, <2>3, <2>6, HoldSaveLeaves DEF HoldTypeOK, Requested, outside
  <2> QED
    BY <2>2, <2>4, <2>5, <2>6
<1>10. CASE ReleaseRefused
  <2>1. mishaps' \in 0 .. HoldSurprises
    BY <1>10, HoldAssumption DEF ReleaseRefused, Mishap, HoldTypeOK
  <2> QED
    BY <1>10, <2>1 DEF ReleaseRefused, Leave, HoldTypeOK, Requested, outside
<1>11. CASE WriteOn
  <2>1. mishaps' \in 0 .. HoldSurprises
    BY <1>11, HoldAssumption DEF WriteOn, Mishap, HoldTypeOK
  <2> QED
    BY <1>11, <2>1 DEF WriteOn, Leave, HoldTypeOK, Requested, outside
<1>12. CASE Drop
  BY <1>12, NoHoldTypes, HoldSaveLeaves DEF Drop, HoldTypeOK, Requested, outside
<1>13. CASE OwnerFlips \/ HoldRestart
  <2>1. mishaps' \in 0 .. HoldSurprises
    BY <1>13, HoldAssumption DEF OwnerFlips, HoldRestart, Mishap, HoldTypeOK
  <2> QED
    BY <1>13, <2>1 DEF OwnerFlips, HoldRestart, HoldTypeOK, Requested, outside
<1>14. CASE NewEvidence \/ ClearReport
  <2>1. seen' \in Evidence
    BY <1>14 DEF NewEvidence, ClearReport, HoldTypeOK, Evidence
  <2> QED
    BY <1>14, <2>1 DEF NewEvidence, ClearReport, HoldTypeOK, Requested
<1>15. CASE Poll \/ NewMode
  BY <1>15 DEF Poll, NewMode, HoldTypeOK, Requested, outside
<1> QED
  BY <1>1, <1>2, <1>3, <1>4, <1>5, <1>6, <1>7, <1>8, <1>9, <1>10, <1>11, <1>12, <1>13,
     <1>14, <1>15 DEF HoldNext, HoldStep

LEMMA HoldTypeInit == HoldInit => HoldTypeOK /\ Requested(holds)
<1> SUFFICES ASSUME HoldInit
             PROVE  HoldTypeOK /\ Requested(holds)
  OBVIOUS
<1>1. seen \in Evidence /\ NoPass \in Pass
  BY DEF HoldInit, Evidence, NoPass, Pass
<1>2. mishaps \in 0 .. HoldSurprises
  BY HoldAssumption DEF HoldInit
<1> QED
  BY <1>1, <1>2, NoHoldTypes DEF HoldInit, HoldTypeOK

\* Every state a behaviour reaches is well typed: AuthorityState.holds, the evidence counts
\* up to the limit, and the pass under way.
THEOREM HoldTypeCorrect == HoldSpec => []HoldTypeOK
<1>1. HoldTypeOK /\ Requested(holds) /\ [HoldNext]_holdVars
        => (HoldTypeOK /\ Requested(holds))'
  BY HoldTypeStep DEF Requested
<1> QED
  BY <1>1, HoldTypeInit, PTL DEF HoldSpec

-----------------------------------------------------------------------------
(* Protection holds: whose Off the switch shows *)

\* Why a release never undoes the owner's Off: while a hold is confirmed, or is about to be,
\* the Off is the hold's, and On is written for a confirmed hold only.
OffOwned ==
  /\ switch = "off" /\ (Owned(holds) \/ pass.step = "confirm") => offBy = "hold"
  /\ pass.step = "on" => Owned(holds)
HoldInv == HoldTypeOK /\ Requested(holds) /\ OffOwned

\* A save of a record that owns no more than before, on to a step that asks no more.
LEMMA SaveKeepsOwner ==
  ASSUME HoldInv, NEW H, NEW next, SaveHolds(H, next), UNCHANGED <<switch, offBy>>,
         switch = "off" /\ (Owned(H) \/ next.step = "confirm") => offBy = "hold",
         next.step = "on" => Owned(H)
  PROVE  OffOwned'
<1>1. NoPass.step = "idle"
  BY DEF NoPass
<1>2. CASE holds' = H /\ pass' = next
  BY <1>2 DEF OffOwned, Owned, Kept
<1>3. CASE holds' \in {holds, H} /\ pass' = NoPass
  BY <1>1, <1>3 DEF HoldInv, OffOwned, Owned, Kept
<1> QED
  BY <1>2, <1>3 DEF SaveHolds

LEMMA HoldInvStep ==
  ASSUME HoldInv, [HoldNext]_holdVars
  PROVE  HoldInv'
<1>1. HoldTypeOK /\ Requested(holds) /\ OffOwned
  BY DEF HoldInv
<1>2. HoldTypeOK' /\ Requested(holds')
  BY <1>1, HoldTypeStep
<1>3. NoPass.step = "idle"
  BY DEF NoPass
<1> SUFFICES OffOwned'
  BY <1>2 DEF HoldInv, Requested
<1>4. CASE UNCHANGED holdVars
  BY <1>1, <1>4 DEF holdVars, OffOwned, Owned, Kept
<1>5. CASE Reconcile
  <2>1. PICK s \in {"request", "release"} : SaveHolds(Advanced, At(s))
    BY <1>5 DEF Reconcile
  <2>2. UNCHANGED <<switch, offBy>> /\ (Owned(Advanced) => Owned(holds)) /\ At(s).step = s
    BY <1>1, <1>5, AdvancedHolds, PassSteps DEF Reconcile
  <2> QED
    BY <1>1, <2>1, <2>2, SaveKeepsOwner DEF OffOwned
<1>6. ASSUME NEW removal \in BOOLEAN, HandoverRelease(removal)
      PROVE  OffOwned'
  BY <1>1, <1>6 DEF HandoverRelease, OffOwned, Owned, Kept
<1>7. CASE RequestHold
  <2> DEFINE before == IF polledOff THEN "off" ELSE switch
             H      == HoldRequests(before)
             next   == IF Kept(H) = {} THEN NoPass
                       ELSE IF before = "on" THEN At("off")
                       ELSE IF Owned(H) THEN At("confirm") ELSE NoPass
  <2>1. SaveHolds(H, next) /\ UNCHANGED <<switch, offBy>>
    BY <1>7 DEF RequestHold
  <2>2. Owned(H) => Owned(holds)
    BY <1>1, RequestedHolds
  <2>3. next.step # "on" /\ (next.step = "confirm" => Owned(H))
    BY <1>1, <1>3, PassSteps
  <2> HIDE DEF H, next
  <2> QED
    BY <1>1, <2>1, <2>2, <2>3, SaveKeepsOwner DEF OffOwned
<1>8. CASE RequestUnread
  <2>1. ~Owned(holds')
    BY <1>1, <1>8, RequestedHolds DEF RequestUnread
  <2>2. pass'.step \in {"idle", "off"}
    BY <1>1, <1>3, <1>8, PassSteps DEF RequestUnread
  <2> QED
    BY <2>1, <2>2 DEF OffOwned, Owned, Kept
<1>9. CASE WriteOff
  <2>1. \/ switch' = "off" /\ offBy' = "hold" /\ pass' = At("confirm")
        \/ pass' = NoPass /\ (UNCHANGED <<switch, offBy>> \/ offBy' = "hold")
    BY <1>9 DEF WriteOff, Leave
  <2>2. holds' = holds /\ At("confirm").step = "confirm"
    BY <1>1, <1>9, PassSteps DEF WriteOff, Leave
  <2> QED
    BY <1>1, <1>3, <2>1, <2>2 DEF OffOwned, Owned, Kept
<1>10. CASE Confirm
  BY <1>1, <1>3, <1>10, SaveKeepsOwner DEF Confirm, OffOwned
<1>11. CASE Release
  <2> DEFINE R == [c \in Causes |-> [holds[c] EXCEPT !.pending = holds[c].kept]]
  <2>1. Owned(R) <=> Owned(holds)
    BY <1>1, ReleasingHolds DEF HoldTypeOK
  <2>2. \/ Leave
        \/ SaveHolds(NoHolds, NoPass)
        \/ Owned(holds) /\ SaveHolds(R, At("on"))
    BY <1>11 DEF Release
  <2>3. UNCHANGED <<switch, offBy>> /\ At("on").step = "on"
    BY <1>1, <1>11, PassSteps DEF Release
  <2> HIDE DEF R
  <2>4. CASE Leave
    BY <1>1, <1>3, <2>3, <2>4 DEF Leave, OffOwned, Owned, Kept
  <2>5. CASE SaveHolds(NoHolds, NoPass)
    BY <1>3, <2>3, <2>5, NoHoldTypes, SaveKeepsOwner
  <2>6. CASE Owned(holds) /\ SaveHolds(R, At("on"))
    BY <1>1, <2>1, <2>3, <2>6, SaveKeepsOwner DEF OffOwned
  <2> QED
    BY <2>2, <2>4, <2>5, <2>6
<1>12. CASE WriteOn
  <2>1. At("drop").step = "drop"
    BY <1>1, PassSteps
  <2> QED
    BY <1>1, <1>3, <1>12, <2>1 DEF WriteOn, Leave, OffOwned, Owned, Kept
<1>13. CASE Drop
  BY <1>3, <1>13, NoHoldTypes, SaveKeepsOwner DEF Drop
<1>14. CASE OwnerFlips
  BY <1>1, <1>14 DEF OwnerFlips, OffOwned, Owned, Kept
<1>15. CASE RequestRefused \/ ReleaseRefused \/ HoldRestart
  BY <1>1, <1>3, <1>15 DEF RequestRefused, ReleaseRefused, HoldRestart, Leave, OffOwned, Owned, Kept
<1>16. CASE Poll \/ NewEvidence \/ ClearReport \/ NewMode
  BY <1>1, <1>16 DEF Poll, NewEvidence, ClearReport, NewMode, OffOwned, Owned, Kept
<1> QED
  BY <1>4, <1>5, <1>6, <1>7, <1>8, <1>9, <1>10, <1>11, <1>12, <1>13, <1>14, <1>15, <1>16
  DEF HoldNext, HoldStep

\* NativeHolds' promise: no pass turns On a switch that the owner turned Off, whatever
\* failed, restarted or was read stale in between.
THEOREM OwnersOffKept == HoldSpec => OwnersOff
<1>1. HoldInit => HoldInv
  BY HoldTypeInit, NoHoldTypes DEF HoldInit, HoldInv, OffOwned, NoPass
<1>2. HoldInv /\ [HoldNext]_holdVars => HoldInv'
  BY HoldInvStep
<1>3. HoldInv => (pass.step = "on" /\ switch = "off" => offBy = "hold")
  BY DEF HoldInv, OffOwned
<1>4. HoldInv /\ [HoldNext]_holdVars
        => [pass.step = "on" /\ switch = "off" /\ switch' = "on" => offBy = "hold"]_holdVars
  BY <1>3
<1> QED
  BY <1>1, <1>2, <1>4, PTL DEF HoldSpec, OwnersOff

-----------------------------------------------------------------------------
(* Supervised export: authority records and jobs *)

Job == [step : Jobs, event : 0 .. Events, locked : BOOLEAN,
        epoch : 0 .. MaxExportEpoch, copy : Authority]

\* An authority record's fields.
LEMMA AuthorityFields ==
  ASSUME NEW a \in Authority
  PROVE  /\ a.epoch \in 1 .. MaxExportEpoch /\ a.mode \in {"optimise", "fallback", "leaving", "off"}
         /\ a.sup \in SUBSET Event /\ a.latched \in SUBSET Event /\ a.record \in Record
         /\ a.record.event \in 0 .. Events /\ a.record.epoch \in 0 .. MaxExportEpoch
         /\ a.record.bound \in BOOLEAN
BY DEF Authority, Record

\* A new state of the record is a record, and the rest is as it was.
LEMMA RecordMoves ==
  ASSUME NEW a \in Authority, NEW s \in {"unknown", "armed", "preserved", "stop_pending", "cleared"},
         NEW b, b = [a EXCEPT !.record.state = s]
  PROVE  b \in Authority /\ b.record.state = s /\ b.latched = a.latched
<1>1. b = [a EXCEPT !.record = [a.record EXCEPT !.state = s]]
  OBVIOUS
<1>2. a.record \in Record
  BY AuthorityFields
<1>3. [a.record EXCEPT !.state = s] \in Record /\ [a.record EXCEPT !.state = s].state = s
  BY <1>2 DEF Record
<1> QED
  BY <1>1, <1>3 DEF Authority

\* The empty record and no job.
LEMMA BlankTypes ==
  /\ Blank \in Authority /\ NoRecord \in Record /\ NoJob \in Job
  /\ NoJob.step = "idle" /\ NoJob.locked = FALSE
<1>1. 1 \in 1 .. MaxExportEpoch /\ 0 \in 0 .. MaxExportEpoch /\ 0 \in 0 .. Events
  BY ExportAssumption
<1>2. NoRecord \in Record
  BY <1>1 DEF NoRecord, Record
<1>3. Blank \in Authority
  BY <1>1, <1>2 DEF Blank, Authority
<1> QED
  BY <1>1, <1>2, <1>3 DEF NoJob, Job, Jobs

\* A pass that begins, and its next step.
LEMMA JobSteps ==
  ASSUME job \in Job
  PROVE  /\ \A s \in Jobs, e \in 0 .. Events, n \in 0 .. MaxExportEpoch, l \in BOOLEAN :
              /\ Begin(s, e, n, l) \in Job
              /\ Begin(s, e, n, l).step = s /\ Begin(s, e, n, l).locked = l
         /\ \A s \in Jobs : /\ Then(s) \in Job /\ Then(s).step = s
                            /\ Then(s).locked = job.locked /\ Then(s).event = job.event
         /\ \A s \in Jobs, a \in Authority :
              LET j == [Then(s) EXCEPT !.copy = a]
              IN  j \in Job /\ j.step = s /\ j.locked = job.locked /\ j.copy = a
<1>1. ASSUME NEW s \in Jobs, NEW e \in 0 .. Events, NEW n \in 0 .. MaxExportEpoch, NEW l \in BOOLEAN
      PROVE  /\ Begin(s, e, n, l) \in Job
             /\ Begin(s, e, n, l).step = s /\ Begin(s, e, n, l).locked = l
  BY BlankTypes DEF Begin, NoJob, Job
<1>2. ASSUME NEW s \in Jobs
      PROVE  /\ Then(s) \in Job /\ Then(s).step = s
             /\ Then(s).locked = job.locked /\ Then(s).event = job.event
  BY DEF Then, Job
<1>3. ASSUME NEW s \in Jobs, NEW a \in Authority, NEW j, j = [Then(s) EXCEPT !.copy = a]
      PROVE  j \in Job /\ j.step = s /\ j.locked = job.locked /\ j.copy = a
  BY <1>2, <1>3 DEF Job
<1> QED
  BY <1>1, <1>2, <1>3

\* What a save leaves: the old state or the new one.
LEMMA ExportSaveLeaves ==
  ASSUME ExportTypeOK, NEW a \in Authority, NEW next \in Job, SaveAuth(a, next)
  PROVE  /\ auth' \in Authority /\ stored' \in BOOLEAN /\ job' \in Job
         /\ faultsLeft' \in 0 .. ExportFaults
         /\ auth' \in {auth, a} /\ job' \in {next, NoJob}
<1>1. Fault => faultsLeft' \in 0 .. ExportFaults
  BY ExportAssumption DEF ExportTypeOK, Fault
<1> QED
  BY <1>1, BlankTypes DEF ExportTypeOK, SaveAuth, Job

-----------------------------------------------------------------------------
(* Supervised export: the states that are saved *)

\* What a supervision, its end, an expiry and a new epoch save.
Supervised(e) == [auth EXCEPT !.sup = @ \union {e},
                              !.record.bound = @ /\ auth.record.event # e]
Ended(e)      == [auth EXCEPT !.sup = @ \ {e}]
Expired       == [auth EXCEPT !.sup = {e \in @ : ~EventOver(e)},
                              !.latched = {e \in @ : ~EventOver(e)}]
Moved(mode)   == [auth EXCEPT !.epoch = @ + 1, !.mode = mode,
                              !.sup = IF mode = "leaving" THEN {} ELSE @]
Ahead         == [auth EXCEPT !.record = [event |-> job.event, epoch |-> auth.epoch,
                                          bound |-> TRUE, state |-> "unknown"]]
Latched(e)    == [auth EXCEPT !.latched = @ \union {e}, !.sup = {},
                              !.record.state = "stop_pending"]

LEMMA SupervisedState ==
  ASSUME auth \in Authority, NEW e \in Event, NEW a, a = Supervised(e)
  PROVE  /\ a \in Authority /\ a.record.state = auth.record.state /\ a.latched = auth.latched
<1> DEFINE r == [auth.record EXCEPT !.bound = @ /\ auth.record.event # e]
<1>1. a = [auth EXCEPT !.sup = @ \union {e}, !.record = r]
  BY DEF Supervised
<1>2. auth.record \in Record /\ auth.sup \union {e} \in SUBSET Event
  BY AuthorityFields
<1>3. r \in Record /\ r.state = auth.record.state
  BY <1>2 DEF Record
<1> HIDE DEF r
<1>4. a.record = r /\ a.latched = auth.latched
  BY <1>1 DEF Authority
<1>5. a \in Authority
  BY <1>1, <1>2, <1>3 DEF Authority
<1> QED
  BY <1>3, <1>4, <1>5

LEMMA EndedState ==
  ASSUME auth \in Authority, NEW e \in Event, NEW a, a = Ended(e)
  PROVE  /\ a \in Authority /\ a.record = auth.record /\ a.latched = auth.latched
BY DEF Ended, Authority

LEMMA ExpiredState ==
  ASSUME auth \in Authority, NEW a, a = Expired
  PROVE  /\ a \in Authority /\ a.record = auth.record
         /\ a.latched = {e \in auth.latched : ~EventOver(e)}
BY DEF Expired, Authority

LEMMA MovedState ==
  ASSUME auth \in Authority, auth.epoch < MaxExportEpoch,
         NEW mode \in {"optimise", "fallback", "leaving", "off"}, NEW a, a = Moved(mode)
  PROVE  /\ a \in Authority /\ a.record = auth.record /\ a.latched = auth.latched
<1>1. auth.epoch + 1 \in 1 .. MaxExportEpoch
  BY AuthorityFields, ExportAssumption
<1> QED
  BY <1>1 DEF Moved, Authority

LEMMA AheadState ==
  ASSUME auth \in Authority, job \in Job, NEW a, a = Ahead
  PROVE  /\ a \in Authority /\ a.record.state = "unknown" /\ a.latched = auth.latched
<1>1. auth.epoch \in 0 .. MaxExportEpoch
  BY AuthorityFields, ExportAssumption
<1>2. [event |-> job.event, epoch |-> auth.epoch, bound |-> TRUE, state |-> "unknown"] \in Record
  BY <1>1 DEF Record, Job
<1> QED
  BY <1>2 DEF Ahead, Authority

LEMMA LatchedState ==
  ASSUME auth \in Authority, NEW e \in Event, NEW a, a = Latched(e)
  PROVE  /\ a \in Authority /\ a.record.state = "stop_pending"
         /\ a.latched = auth.latched \union {e}
<1> DEFINE r == [auth.record EXCEPT !.state = "stop_pending"]
<1>1. a = [auth EXCEPT !.latched = @ \union {e}, !.sup = {}, !.record = r]
  BY DEF Latched
<1>2. auth.record \in Record /\ auth.latched \union {e} \in SUBSET Event /\ {} \in SUBSET Event
  BY AuthorityFields
<1>3. r \in Record /\ r.state = "stop_pending"
  BY <1>2 DEF Record
<1> HIDE DEF r
<1>4. a.record = r /\ a.latched = auth.latched \union {e}
  BY <1>1 DEF Authority
<1>5. a \in Authority
  BY <1>1, <1>2, <1>3 DEF Authority
<1> QED
  BY <1>3, <1>4, <1>5

-----------------------------------------------------------------------------
(* Supervised export: groups of actions *)

\* A supervision, an expiry and a new epoch are saves beside any unlocked pass, which leave
\* the record's state and only the latches of what is over.
ControlAction == \/ \E e \in Event : Supervise(e)
                 \/ ExpireSupervisions
                 \/ \E mode \in {"optimise", "fallback", "leaving"} : NewAuthority(mode)

LEMMA ControlSaves ==
  ASSUME ExportTypeOK, ControlAction
  PROVE  \E a \in Authority :
           /\ ControlFree /\ SaveAuth(a, job) /\ UNCHANGED <<slot, clock, trusted, tripVars>>
           /\ a.record.state = auth.record.state
           /\ \A e \in auth.latched : e \in a.latched \/ EventOver(e)
<1>1. auth \in Authority
  BY DEF ExportTypeOK
<1>2. ASSUME NEW e \in Event, Supervise(e)
      PROVE  SaveAuth(Supervised(e), job) /\ ControlFree /\ UNCHANGED <<slot, clock, trusted, tripVars>>
  BY <1>2 DEF Supervise, Supervised
<1>3. ASSUME ExpireSupervisions
      PROVE  SaveAuth(Expired, job) /\ ControlFree /\ UNCHANGED <<slot, clock, trusted, tripVars>>
  BY <1>3 DEF ExpireSupervisions, Expired
<1>4. ASSUME NEW mode \in {"optimise", "fallback", "leaving"}, NewAuthority(mode)
      PROVE  /\ SaveAuth(Moved(mode), job) /\ ControlFree /\ auth.epoch < MaxExportEpoch
             /\ UNCHANGED <<slot, clock, trusted, tripVars>>
  BY <1>4 DEF NewAuthority, Moved
<1>5. CASE \E e \in Event : Supervise(e)
  BY <1>1, <1>2, <1>5, SupervisedState
<1>6. CASE ExpireSupervisions
  BY <1>1, <1>3, <1>6, ExpiredState
<1>7. CASE \E mode \in {"optimise", "fallback", "leaving"} : NewAuthority(mode)
  BY <1>1, <1>4, <1>7, MovedState
<1> QED
  BY <1>5, <1>6, <1>7 DEF ControlAction

\* The end of a supervision and an apply without an event save, and may begin a cleanup.
LEMMA BusSaves ==
  ASSUME ExportTypeOK, (\E e \in Event : EndSupervision(e)) \/ ApplyNone
  PROVE  \E a \in Authority, j \in {job, Begin("zero", 0, auth.epoch, TRUE)} :
           /\ ControlFree /\ BusFree /\ SaveAuth(a, j)
           /\ UNCHANGED <<slot, clock, trusted, tripVars>>
           /\ a.record = auth.record /\ a.latched = auth.latched
<1>1. auth \in Authority
  BY DEF ExportTypeOK
<1>2. ASSUME NEW e \in Event, EndSupervision(e)
      PROVE  /\ \E j \in {job, Begin("zero", 0, auth.epoch, TRUE)} : SaveAuth(Ended(e), j)
             /\ ControlFree /\ BusFree /\ UNCHANGED <<slot, clock, trusted, tripVars>>
  BY <1>2 DEF EndSupervision, Ended
<1>3. [auth EXCEPT !.sup = {}] \in Authority
  BY <1>1 DEF Authority
<1>4. [auth EXCEPT !.sup = {}].record = auth.record /\ [auth EXCEPT !.sup = {}].latched = auth.latched
  BY <1>1 DEF Authority
<1>5. CASE \E e \in Event : EndSupervision(e)
  BY <1>1, <1>2, <1>5, EndedState
<1>6. CASE ApplyNone
  BY <1>3, <1>4, <1>6 DEF ApplyNone
<1> QED
  BY <1>5, <1>6

\* An apply and a retry begin a pass that holds every lock.
LEMMA Begins ==
  ASSUME ExportTypeOK, (\E e \in Event : ApplyReady(e)) \/ ApplyRefused \/ RetryRecord
  PROVE  /\ ControlFree /\ BusFree /\ \E s \in {"ahead", "zero"}, e \in 0 .. Events :
                                         job' = Begin(s, e, auth.epoch, TRUE)
         /\ UNCHANGED <<auth, stored, slot, clock, trusted, tripVars, faultsLeft>>
<1>1. 0 \in 0 .. Events /\ Event \subseteq 0 .. Events
  BY ExportAssumption DEF Event
<1> QED
  BY <1>1 DEF ApplyReady, ApplyRefused, RetryRecord

\* A record that is watched is on an event.
LEMMA WatchedEvent ==
  ASSUME ExportTypeOK, Watching
  PROVE  auth.record.event \in Event
<1> DEFINE e == auth.record.event
<1>1. e \in 0 .. Events /\ clock = 2 * e - 1 /\ clock \in 0 .. 2 * Events
  BY AuthorityFields DEF Watching, EventOpen, ExportTypeOK
<1> HIDE DEF e
<1>2. e >= 1
  BY <1>1, ExportAssumption
<1>3. e \in Event
  BY <1>1, <1>2, ExportAssumption DEF Event
<1> QED
  BY <1>3 DEF e

-----------------------------------------------------------------------------
(* Supervised export: types *)

LEMMA ExportTypeStep ==
  ASSUME ExportTypeOK, [ExportNext]_exportVars
  PROVE  ExportTypeOK'
<1>1. /\ auth \in Authority /\ job \in Job /\ auth.epoch \in 0 .. MaxExportEpoch
      /\ 0 \in 0 .. Events /\ 0 \in 0 .. MaxExportEpoch /\ 0 \in 0 .. 2
  BY ExportAssumption, AuthorityFields DEF ExportTypeOK, Job
<1>2. Fault => faultsLeft' \in 0 .. ExportFaults
  BY ExportAssumption DEF ExportTypeOK, Fault
<1>3. /\ \A s \in Jobs, e \in 0 .. Events, n \in 0 .. MaxExportEpoch, l \in BOOLEAN : Begin(s, e, n, l) \in Job
      /\ \A s \in Jobs : Then(s) \in Job
      /\ \A s \in Jobs, a \in Authority : [Then(s) EXCEPT !.copy = a] \in Job
  BY <1>1, JobSteps
<1>4. ASSUME UNCHANGED <<slot, clock, trusted, tripVars>>,
             auth' \in Authority, stored' \in BOOLEAN, job' \in Job, faultsLeft' \in 0 .. ExportFaults
      PROVE  ExportTypeOK'
  BY <1>4 DEF ExportTypeOK, tripVars, Job
<1>5. CASE UNCHANGED exportVars
  BY <1>5 DEF exportVars, ExportTypeOK, tripVars
<1>6. CASE ControlAction
  BY <1>1, <1>4, <1>6, ControlSaves, ExportSaveLeaves
<1>7. CASE (\E e \in Event : EndSupervision(e)) \/ ApplyNone
  <2>1. Begin("zero", 0, auth.epoch, TRUE) \in Job
    BY <1>1, <1>3 DEF Jobs
  <2> QED
    BY <1>1, <1>4, <1>7, <2>1, BusSaves, ExportSaveLeaves
<1>8. CASE (\E e \in Event : ApplyReady(e)) \/ ApplyRefused \/ RetryRecord
  <2>1. job' \in Job
    BY <1>1, <1>3, <1>8, Begins DEF Jobs
  <2> QED
    BY <1>4, <1>8, <2>1, Begins DEF ExportTypeOK
<1>9. CASE SaveAhead
  <2>1. Ahead \in Authority /\ Then("arm") \in Job /\ SaveAuth(Ahead, Then("arm"))
    BY <1>1, <1>3, <1>9, AheadState DEF SaveAhead, Jobs, Ahead
  <2> QED
    BY <1>4, <1>9, <2>1, ExportSaveLeaves DEF SaveAhead
<1>10. CASE Arm
  <2>1. job' \in Job
    BY <1>3, <1>10, BlankTypes DEF Arm, Jobs
  <2>2. slot' \in 0 .. Events /\ faultsLeft' \in 0 .. ExportFaults
    BY <1>1, <1>2, <1>10 DEF Arm, ExportTypeOK, Job
  <2> QED
    BY <1>10, <2>1, <2>2 DEF Arm, ExportTypeOK, tripVars, Job
<1>11. CASE Commit
  <2>1. [auth EXCEPT !.record.state = "armed"] \in Authority
    BY <1>1, RecordMoves
  <2> QED
    BY <1>4, <1>11, <2>1, BlankTypes, ExportSaveLeaves DEF Commit
<1>12. CASE ZeroHalf
  <2>1. job' \in Job
    BY <1>3, <1>12, BlankTypes DEF ZeroHalf, Jobs
  <2>2. slot' \in 0 .. Events /\ faultsLeft' \in 0 .. ExportFaults
    BY <1>1, <1>2, <1>12 DEF ZeroHalf, ExportTypeOK
  <2> QED
    BY <1>12, <2>1, <2>2 DEF ZeroHalf, ExportTypeOK, tripVars, Job
<1>13. CASE MarkCleared
  <2>1. [auth EXCEPT !.record.state = "cleared"] \in Authority
    BY <1>1, RecordMoves
  <2>2. job' \in Job
    BY <1>3, <1>13, <2>1, BlankTypes DEF MarkCleared, Jobs
  <2> QED
    BY <1>4, <1>13, <2>2 DEF MarkCleared, ExportTypeOK
<1>14. CASE PublishCleared
  <2>1. job.copy \in Authority /\ [Then("leave") EXCEPT !.copy = Blank] \in Job
    BY <1>1, <1>3, BlankTypes DEF Job, Jobs
  <2>2. /\ auth' \in Authority /\ stored' \in BOOLEAN /\ job' \in Job
        /\ faultsLeft' \in 0 .. ExportFaults
    <3>1. stored' \in BOOLEAN /\ auth' \in {auth, job.copy}
          /\ job' \in {NoJob, [Then("leave") EXCEPT !.copy = Blank]}
          /\ (Fault \/ faultsLeft' = faultsLeft)
      BY <1>14 DEF PublishCleared
    <3> QED
      BY <1>1, <1>2, <2>1, <3>1, BlankTypes DEF ExportTypeOK
  <2> QED
    BY <1>4, <1>14, <2>2 DEF PublishCleared, ExportTypeOK
<1>15. CASE LeaveOptimise
  <2>1. [auth EXCEPT !.mode = "off"] \in Authority
    BY <1>1 DEF Authority
  <2> QED
    BY <1>4, <1>15, <2>1, BlankTypes, ExportSaveLeaves DEF LeaveOptimise
<1>16. CASE TripClear
  <2>1. job' \in Job /\ cutting' \in 0 .. MaxExportEpoch
    BY <1>1, <1>3, <1>16 DEF TripClear, Jobs, ExportTypeOK
  <2> QED
    BY <1>16, <2>1 DEF TripClear, ExportTypeOK, Job
<1>17. CASE ReconcileRecord
  <2>1. [auth EXCEPT !.record.state = "preserved"] \in Authority
    BY <1>1, RecordMoves
  <2>2. /\ auth' \in Authority /\ stored' \in BOOLEAN /\ job' \in Job
        /\ faultsLeft' \in 0 .. ExportFaults /\ trusted' \in BOOLEAN
    <3>1. CASE SaveAuth([auth EXCEPT !.record.state = "preserved"], NoJob) /\ trusted' = stored'
      BY <2>1, <3>1, BlankTypes, ExportSaveLeaves
    <3>2. CASE trusted' = TRUE /\ UNCHANGED <<auth, stored, job, faultsLeft>>
      BY <1>1, <3>2 DEF ExportTypeOK
    <3>3. CASE job' = Begin("zero", 0, auth.epoch, TRUE) /\ UNCHANGED <<auth, stored, trusted, faultsLeft>>
      BY <1>1, <1>3, <3>3 DEF ExportTypeOK, Jobs
    <3>4. CASE ~Obligation
      BY <1>17, <3>2, <3>4 DEF ReconcileRecord
    <3>5. CASE Obligation /\ Matches(auth.record) /\ slot = auth.record.event
      BY <1>17, <3>1, <3>5 DEF ReconcileRecord
    <3>6. CASE Obligation /\ ~(Matches(auth.record) /\ slot = auth.record.event)
      BY <1>17, <3>3, <3>6 DEF ReconcileRecord
    <3> QED
      BY <3>4, <3>5, <3>6
  <2> QED
    BY <1>17, <2>2 DEF ReconcileRecord, ExportTypeOK, tripVars, Job
<1>18. ASSUME NEW high \in BOOLEAN, Reading(high)
       PROVE  ExportTypeOK'
  BY <1>18 DEF Reading, ExportTypeOK
<1>19. CASE Trip
  <2> DEFINE e == auth.record.event
  <2>1. e \in Event
    BY <1>19, WatchedEvent DEF Trip
  <2>2. Latched(e) \in Authority /\ SaveAuth(Latched(e), job)
    BY <1>1, <1>19, <2>1, LatchedState DEF Trip, Latched
  <2>3. tripped' \subseteq Event /\ cutting' \in 0 .. MaxExportEpoch /\ over' \in 0 .. 2
    BY <1>1, <1>19, <2>1 DEF Trip, ExportTypeOK
  <2>4. auth' \in Authority /\ stored' \in BOOLEAN /\ job' \in Job /\ faultsLeft' \in 0 .. ExportFaults
    BY <1>1, <2>2, ExportSaveLeaves
  <2> QED
    BY <1>19, <2>3, <2>4 DEF Trip, ExportTypeOK, Job
<1>20. CASE Tick
  BY <1>20, ExportAssumption DEF Tick, ExportTypeOK, tripVars
<1>a. CASE ExportRestart
  BY <1>1, <1>2, <1>a, BlankTypes DEF ExportRestart, ExportTypeOK, Job
<1> QED
  BY <1>5, <1>6, <1>7, <1>8, <1>9, <1>10, <1>11, <1>12, <1>13, <1>14, <1>15, <1>16, <1>17,
     <1>18, <1>19, <1>20, <1>a DEF ExportNext, ExportJob, ControlAction

LEMMA ExportTypeInit == ExportInit => ExportTypeOK
<1> SUFFICES ASSUME ExportInit
             PROVE  ExportTypeOK
  OBVIOUS
<1>1. [Blank EXCEPT !.mode = "optimise"] \in Authority /\ NoJob \in Job
  BY BlankTypes DEF Authority
<1>2. /\ 0 \in 0 .. Events /\ 0 \in 0 .. 2 * Events /\ 0 \in 0 .. 2 /\ 0 \in 0 .. MaxExportEpoch
      /\ ExportFaults \in 0 .. ExportFaults
  BY ExportAssumption
<1> QED
  BY <1>1, <1>2 DEF ExportInit, ExportTypeOK, Job

\* Every state a behaviour reaches is well typed: the authority record on disk, the slot, the
\* pass under way and the tripwire's count.
THEOREM ExportTypeCorrect == ExportSpec => []ExportTypeOK
<1>1. ExportTypeOK /\ [ExportNext]_exportVars => ExportTypeOK'
  BY ExportTypeStep
<1> QED
  BY <1>1, ExportTypeInit, PTL DEF ExportSpec

-----------------------------------------------------------------------------
(* Supervised export: a window has its record *)

\* Why a window never stands without its record: a pass that arms holds the authority lock and
\* has saved the record ahead, and one that retires a record has read the slot empty, which
\* only a pass fills.
PassOrder ==
  /\ job.step \in {"ahead", "arm", "commit", "leave"} => job.locked
  /\ job.step \in {"arm", "commit"} => Obligation
  /\ job.step \in {"mark", "publish", "leave"} => slot = 0
WindowInv == PassOrder /\ Obligated

\* A step that leaves the slot, retires no record and does not go on with a pass keeps both.
LEMMA WindowKept ==
  ASSUME WindowInv, slot' = slot,
         auth'.record.state = auth.record.state \/ auth'.record.state # "cleared",
         \/ job' = job
         \/ job'.step \in {"idle", "zero"}
         \/ job'.step = "ahead" /\ job'.locked
  PROVE  WindowInv'
BY DEF WindowInv, PassOrder, Obligated, Obligation

LEMMA WindowStep ==
  ASSUME ExportTypeOK, WindowInv, [ExportNext]_exportVars
  PROVE  WindowInv'
<1>1. /\ auth \in Authority /\ job \in Job /\ NoJob.step = "idle"
      /\ PassOrder /\ (slot # 0 => Obligation)
  BY BlankTypes DEF ExportTypeOK, Job, WindowInv, Obligated
<1>2. /\ \A s \in Jobs : Then(s).step = s /\ Then(s).locked = job.locked
      /\ [Then("leave") EXCEPT !.copy = Blank].step = "leave"
      /\ [Then("leave") EXCEPT !.copy = Blank].locked = job.locked
      /\ \A a \in Authority : [Then("publish") EXCEPT !.copy = a].step = "publish"
  BY <1>1, JobSteps, BlankTypes DEF Jobs
<1>3. ASSUME NEW s \in {"ahead", "zero"}, NEW e \in 0 .. Events, NEW l \in BOOLEAN,
             NEW n \in 0 .. MaxExportEpoch, job' = Begin(s, e, n, l)
      PROVE  job'.step = s /\ job'.locked = l
  BY <1>1, <1>3, JobSteps DEF Jobs
<1>a. 0 \in 0 .. Events /\ auth.epoch \in 0 .. MaxExportEpoch
  BY <1>1, ExportAssumption, AuthorityFields
<1>b. job' = Begin("zero", 0, auth.epoch, TRUE) => job'.step = "zero"
  BY <1>3, <1>a
<1>4. CASE UNCHANGED exportVars
  BY <1>4, WindowKept DEF exportVars
<1>5. CASE ControlAction
  <2>1. PICK a \in Authority :
          /\ ControlFree /\ SaveAuth(a, job) /\ UNCHANGED slot
          /\ a.record.state = auth.record.state
    BY <1>5, ControlSaves
  <2>2. auth' \in {auth, a} /\ job' \in {job, NoJob}
    BY <2>1 DEF SaveAuth
  <2> QED
    BY <1>1, <2>1, <2>2, WindowKept
<1>6. CASE (\E e \in Event : EndSupervision(e)) \/ ApplyNone
  <2>1. PICK a \in Authority, j \in {job, Begin("zero", 0, auth.epoch, TRUE)} :
          SaveAuth(a, j) /\ UNCHANGED slot /\ a.record = auth.record
    BY <1>6, BusSaves
  <2>2. auth' \in {auth, a} /\ job' \in {job, NoJob, Begin("zero", 0, auth.epoch, TRUE)}
    BY <2>1 DEF SaveAuth
  <2>3. auth'.record.state = auth.record.state /\ (job' = job \/ job'.step \in {"idle", "zero"})
    BY <1>1, <1>b, <2>1, <2>2
  <2> QED
    BY <2>1, <2>3, WindowKept
<1>7. CASE (\E e \in Event : ApplyReady(e)) \/ ApplyRefused \/ RetryRecord
  <2>1. PICK s \in {"ahead", "zero"}, e \in 0 .. Events : job' = Begin(s, e, auth.epoch, TRUE)
    BY <1>7, Begins
  <2>2. job'.step = s /\ job'.locked
    BY <1>3, <1>a, <2>1
  <2> QED
    BY <1>7, <2>2, Begins, WindowKept
<1>8. CASE SaveAhead
  <2>1. Ahead.record.state = "unknown" /\ SaveAuth(Ahead, Then("arm")) /\ UNCHANGED slot /\ job.locked
    BY <1>1, <1>8, AheadState DEF SaveAhead, Ahead, PassOrder
  <2>2. CASE auth' = Ahead /\ job' = Then("arm")
    BY <1>1, <1>2, <2>1, <2>2 DEF WindowInv, PassOrder, Obligated, Obligation, Jobs
  <2>3. CASE auth' \in {auth, Ahead} /\ job' = NoJob
    BY <1>1, <2>1, <2>3, WindowKept
  <2> QED
    BY <1>2, <2>1, <2>2, <2>3 DEF SaveAuth, Jobs
<1>9. CASE Arm
  <2>1. Obligation /\ job.locked /\ auth' = auth
    BY <1>1, <1>9 DEF Arm, PassOrder
  <2>2. job' = Then("commit") \/ job'.step \in {"idle", "zero"}
    BY <1>1, <1>2, <1>9 DEF Arm, Jobs
  <2> QED
    BY <1>2, <2>1, <2>2 DEF WindowInv, PassOrder, Obligated, Obligation, Jobs
<1>10. CASE Commit
  <2>1. [auth EXCEPT !.record.state = "armed"].record.state = "armed"
    BY <1>1, RecordMoves
  <2>2. auth' \in {auth, [auth EXCEPT !.record.state = "armed"]} /\ job' = NoJob /\ slot' = slot
    BY <1>10 DEF Commit, SaveAuth
  <2> QED
    BY <1>1, <2>1, <2>2, WindowKept
<1>11. CASE ZeroHalf
  <2>1. auth' = auth /\ slot' \in {slot, 0}
    BY <1>11 DEF ZeroHalf
  <2>2. job' = NoJob \/ (job' = Then("mark") /\ slot' = 0)
    BY <1>11 DEF ZeroHalf
  <2> QED
    BY <1>1, <1>2, <2>1, <2>2 DEF WindowInv, PassOrder, Obligated, Obligation, Jobs
<1>12. CASE MarkCleared
  <2>1. [auth EXCEPT !.record.state = "cleared"] \in Authority
    BY <1>1, RecordMoves
  <2>2. auth' = auth /\ slot' = slot /\ slot = 0 /\ job'.step \in {"idle", "publish"}
    BY <1>1, <1>2, <1>12, <2>1 DEF MarkCleared, PassOrder, Jobs
  <2> QED
    BY <1>1, <2>2 DEF WindowInv, PassOrder, Obligated, Obligation
<1>13. CASE PublishCleared
  <2>1. slot = 0 /\ slot' = 0
    BY <1>1, <1>13 DEF PublishCleared, PassOrder
  <2>2. job' = NoJob \/ (job.locked /\ job' = [Then("leave") EXCEPT !.copy = Blank])
    BY <1>13 DEF PublishCleared, SaveAuth
  <2>3. job'.step \in {"idle", "leave"} /\ (job'.step = "leave" => job'.locked)
    BY <1>1, <1>2, <2>2, BlankTypes DEF Jobs
  <2> QED
    BY <2>1, <2>3 DEF WindowInv, PassOrder, Obligated
<1>14. CASE LeaveOptimise
  <2>1. slot = 0 /\ slot' = 0 /\ job' = NoJob
    BY <1>1, <1>14 DEF LeaveOptimise, PassOrder, SaveAuth
  <2> QED
    BY <1>1, <2>1 DEF WindowInv, PassOrder, Obligated
<1>15. CASE TripClear
  <2>1. job' = job \/ job' = Begin("zero", 0, cutting, FALSE)
    BY <1>15 DEF TripClear
  <2>2. cutting \in 0 .. MaxExportEpoch
    BY DEF ExportTypeOK
  <2> QED
    BY <1>3, <1>15, <1>a, <2>1, <2>2, WindowKept DEF TripClear
<1>16. CASE ReconcileRecord
  <2>1. [auth EXCEPT !.record.state = "preserved"].record.state = "preserved"
    BY <1>1, RecordMoves
  <2>2. /\ auth' \in {auth, [auth EXCEPT !.record.state = "preserved"]} /\ slot' = slot
        /\ job' \in {job, NoJob, Begin("zero", 0, auth.epoch, TRUE)}
    BY <1>16 DEF ReconcileRecord, SaveAuth
  <2>3. job' = job \/ job'.step \in {"idle", "zero"}
    BY <1>1, <1>b, <2>2
  <2> QED
    BY <2>1, <2>2, <2>3, WindowKept
<1>17. ASSUME NEW high \in BOOLEAN, Reading(high)
       PROVE  WindowInv'
  BY <1>17, WindowKept DEF Reading
<1>18. CASE Trip
  <2> DEFINE a == Latched(auth.record.event)
  <2>1. auth.record.event \in Event
    BY <1>18, WatchedEvent DEF Trip
  <2>2. a.record.state = "stop_pending"
    BY <1>1, <2>1, LatchedState
  <2>3. auth' \in {auth, a} /\ job' \in {job, NoJob} /\ slot' = slot
    BY <1>18 DEF Trip, SaveAuth, Latched
  <2> QED
    BY <1>1, <2>2, <2>3, WindowKept
<1>19. CASE Tick
  BY <1>19, WindowKept DEF Tick
<1>20. CASE ExportRestart
  BY <1>1, <1>20, WindowKept DEF ExportRestart
<1> QED
  BY <1>4, <1>5, <1>6, <1>7, <1>8, <1>9, <1>10, <1>11, <1>12, <1>13, <1>14, <1>15, <1>16,
     <1>17, <1>18, <1>19, <1>20 DEF ExportNext, ExportJob, ControlAction

\* A window in Slot 1 always has a durable record that somebody will retire, over failed
\* writes, saves on either side of a crash, overwritten records and changed modes.
THEOREM WindowObligated == ExportSpec => []Obligated
<1>1. ExportInit => WindowInv
  BY BlankTypes DEF ExportInit, WindowInv, PassOrder, Obligated
<1>2. ExportTypeOK /\ WindowInv /\ [ExportNext]_exportVars => WindowInv'
  BY WindowStep
<1>3. WindowInv => Obligated
  BY DEF WindowInv
<1> QED
  BY <1>1, <1>2, <1>3, ExportTypeCorrect, PTL DEF ExportSpec

-----------------------------------------------------------------------------
(* Supervised export: a tripped event stays latched *)

\* The clear after a trip runs without the authority lock, so a save beside it may be lost.
Clearing == cutting # 0 \/ (job.step # "idle" /\ ~job.locked)

\* Why no latch is lost: until its clear is done no record is live, so no other trip latches
\* beside it, and the state that the clear writes back holds every latch that still matters.
Latches(L) == \A e \in tripped : e \in L \/ EventOver(e)
TripInv ==
  /\ Latches(auth.latched)
  /\ job.step = "publish" => Latches(job.copy.latched)
  /\ job.step # "idle" => cutting = 0
  /\ Clearing => auth.record.state \in {"stop_pending", "cleared"}

\* A step that loses no latch, starts no clear and publishes nothing new.
LEMMA TripKept ==
  ASSUME ExportTypeOK, TripInv, tripped' = tripped, clock' \in Nat, clock' >= clock,
         \A e \in auth.latched : e \in auth'.latched \/ EventOver(e),
         job'.step = "publish" => job' = job,
         job'.step # "idle" => cutting' = 0,
         Clearing' => Clearing /\ auth'.record.state = auth.record.state
  PROVE  TripInv'
<1>1. ASSUME NEW e \in tripped, EventOver(e)
      PROVE  EventOver(e)'
  <2>1. e \in Nat /\ clock \in Nat /\ clock >= 2 * e
    BY <1>1 DEF EventOver, Event, ExportTypeOK
  <2> QED
    BY <2>1 DEF EventOver
<1>2. ASSUME NEW e \in tripped'
      PROVE  e \in auth'.latched \/ EventOver(e)'
  BY <1>1, <1>2 DEF TripInv, Latches
<1>3. ASSUME job'.step = "publish", NEW e \in tripped'
      PROVE  e \in job'.copy.latched \/ EventOver(e)'
  BY <1>1, <1>3 DEF TripInv, Latches
<1> QED
  BY <1>2, <1>3 DEF TripInv, Latches

LEMMA TripStep ==
  ASSUME ExportTypeOK, WindowInv, TripInv, [ExportNext]_exportVars
  PROVE  TripInv'
<1>1. /\ auth \in Authority /\ job \in Job /\ clock \in Nat
      /\ NoJob.step = "idle" /\ NoJob.locked = FALSE /\ PassOrder
  BY BlankTypes DEF ExportTypeOK, Job, WindowInv
<1>2. /\ \A s \in Jobs : Then(s).step = s /\ Then(s).locked = job.locked
      /\ [Then("leave") EXCEPT !.copy = Blank].step = "leave"
      /\ [Then("leave") EXCEPT !.copy = Blank].locked = job.locked
      /\ \A a \in Authority : /\ [Then("publish") EXCEPT !.copy = a].locked = job.locked
                              /\ [Then("publish") EXCEPT !.copy = a].copy = a
  BY <1>1, JobSteps, BlankTypes DEF Jobs
<1>3. ASSUME NEW s \in {"ahead", "zero"}, NEW e \in 0 .. Events, NEW l \in BOOLEAN,
             NEW n \in 0 .. MaxExportEpoch, job' = Begin(s, e, n, l)
      PROVE  job'.step = s /\ job'.locked = l
  BY <1>1, <1>3, JobSteps DEF Jobs
<1>a. 0 \in 0 .. Events /\ auth.epoch \in 0 .. MaxExportEpoch
  BY <1>1, ExportAssumption, AuthorityFields
<1>b. job' = Begin("zero", 0, auth.epoch, TRUE) => job'.step = "zero" /\ job'.locked
  BY <1>3, <1>a
<1>4. CASE UNCHANGED exportVars
  BY <1>1, <1>4, TripKept DEF exportVars, TripInv, Clearing
<1>5. CASE ControlAction
  <2>1. PICK a \in Authority :
          /\ SaveAuth(a, job) /\ UNCHANGED <<slot, clock, trusted, tripVars>>
          /\ a.record.state = auth.record.state
          /\ \A e \in auth.latched : e \in a.latched \/ EventOver(e)
    BY <1>5, ControlSaves
  <2>2. auth' \in {auth, a} /\ job' \in {job, NoJob} /\ UNCHANGED <<clock, cutting, tripped>>
    BY <2>1 DEF SaveAuth, tripVars
  <2> QED
    BY <1>1, <2>1, <2>2, TripKept DEF TripInv, Clearing
<1>6. CASE (\E e \in Event : EndSupervision(e)) \/ ApplyNone
  <2>1. PICK a \in Authority, j \in {job, Begin("zero", 0, auth.epoch, TRUE)} :
          /\ BusFree /\ SaveAuth(a, j) /\ UNCHANGED <<slot, clock, trusted, tripVars>>
          /\ a.latched = auth.latched
    BY <1>6, BusSaves
  <2>2. /\ auth' \in {auth, a} /\ job' \in {job, NoJob, Begin("zero", 0, auth.epoch, TRUE)}
        /\ UNCHANGED <<clock, cutting, tripped>> /\ job = NoJob /\ cutting = 0
    BY <2>1 DEF SaveAuth, tripVars, BusFree
  <2>3. job'.step \in {"idle", "zero"} /\ (job'.step # "idle" => job'.locked)
    BY <1>1, <1>b, <2>2
  <2> QED
    BY <1>1, <2>1, <2>2, <2>3, TripKept DEF Clearing
<1>7. CASE (\E e \in Event : ApplyReady(e)) \/ ApplyRefused \/ RetryRecord
  <2>1. PICK s \in {"ahead", "zero"}, e \in 0 .. Events : job' = Begin(s, e, auth.epoch, TRUE)
    BY <1>7, Begins
  <2>2. job'.step = s /\ job'.locked
    BY <1>3, <1>a, <2>1
  <2>3. UNCHANGED <<auth, clock, cutting, tripped>> /\ cutting = 0
    BY <1>7, Begins DEF tripVars, BusFree
  <2> QED
    BY <1>1, <2>2, <2>3, TripKept DEF Clearing
<1>8. CASE SaveAhead
  <2>1. /\ Ahead.latched = auth.latched /\ SaveAuth(Ahead, Then("arm"))
        /\ UNCHANGED <<clock, cutting, tripped>> /\ job.locked /\ cutting = 0
    BY <1>1, <1>8, AheadState DEF SaveAhead, Ahead, PassOrder, TripInv, tripVars
  <2>2. auth' \in {auth, Ahead} /\ job' \in {Then("arm"), NoJob}
    BY <2>1 DEF SaveAuth
  <2>3. job'.step \in {"idle", "arm"} /\ (job'.step # "idle" => job'.locked)
    BY <1>1, <1>2, <2>1, <2>2 DEF Jobs
  <2> QED
    BY <1>1, <2>1, <2>2, <2>3, TripKept DEF Clearing
<1>9. CASE Arm
  <2>1. job.locked /\ cutting = 0 /\ UNCHANGED <<auth, clock, cutting, tripped>>
    BY <1>1, <1>9 DEF Arm, PassOrder, TripInv, tripVars
  <2>2. job' \in {Then("commit"), Then("zero"), NoJob}
    BY <1>9 DEF Arm
  <2>3. job'.step \in {"idle", "commit", "zero"} /\ (job'.step # "idle" => job'.locked)
    BY <1>1, <1>2, <2>1, <2>2 DEF Jobs
  <2> QED
    BY <1>1, <2>1, <2>3, TripKept DEF Clearing
<1>10. CASE Commit
  <2> DEFINE a == [auth EXCEPT !.record.state = "armed"]
  <2>1. a.latched = auth.latched
    BY <1>1, RecordMoves
  <2>2. /\ auth' \in {auth, a} /\ job' = NoJob
        /\ UNCHANGED <<clock, cutting, tripped>> /\ cutting = 0
    BY <1>10 DEF Commit, SaveAuth, TripInv, tripVars
  <2> HIDE DEF a
  <2> QED
    BY <1>1, <2>1, <2>2, TripKept DEF Clearing
<1>11. CASE ZeroHalf
  <2>1. UNCHANGED <<auth, clock, cutting, tripped>> /\ cutting = 0 /\ job' \in {NoJob, Then("mark")}
        /\ job.step = "zero"
    BY <1>11 DEF ZeroHalf, TripInv, tripVars
  <2>2. job'.step \in {"idle", "mark"} /\ (job'.step # "idle" => job'.locked = job.locked)
    BY <1>1, <1>2, <2>1 DEF Jobs
  <2> QED
    BY <1>1, <2>1, <2>2, TripKept DEF Clearing
<1>12. CASE MarkCleared
  <2> DEFINE a == [auth EXCEPT !.record.state = "cleared"]
  <2>1. a \in Authority /\ a.latched = auth.latched
    BY <1>1, RecordMoves
  <2>2. UNCHANGED <<auth, clock, cutting, tripped>> /\ cutting = 0 /\ job.step = "mark"
    BY <1>12 DEF MarkCleared, TripInv, tripVars
  <2>3. job' = NoJob \/ job' = [Then("publish") EXCEPT !.copy = a]
    BY <1>12 DEF MarkCleared
  <2> HIDE DEF a
  <2>4. CASE job' = NoJob
    BY <1>1, <2>2, <2>4, TripKept DEF Clearing
  <2>5. CASE job' = [Then("publish") EXCEPT !.copy = a]
    <3>1. job'.locked = job.locked /\ job'.copy.latched = auth.latched
      BY <1>2, <2>1, <2>5
    <3> QED
      BY <2>2, <3>1 DEF TripInv, Latches, Clearing, EventOver
  <2> QED
    BY <2>3, <2>4, <2>5
<1>13. CASE PublishCleared
  <2>1. /\ auth' \in {auth, job.copy} /\ UNCHANGED <<clock, cutting, tripped>> /\ cutting = 0
        /\ job.step = "publish" /\ Latches(auth.latched) /\ Latches(job.copy.latched)
    BY <1>13 DEF PublishCleared, SaveAuth, TripInv, tripVars
  <2>2. job' = NoJob \/ (job.locked /\ job' = [Then("leave") EXCEPT !.copy = Blank])
    BY <1>13 DEF PublishCleared, SaveAuth
  <2>3. job'.step \in {"idle", "leave"} /\ (job'.step = "leave" => job'.locked)
    BY <1>1, <1>2, <2>2
  <2> QED
    BY <2>1, <2>3 DEF TripInv, Latches, Clearing, EventOver
<1>14. CASE LeaveOptimise
  <2> DEFINE a == [auth EXCEPT !.mode = "off"]
  <2>1. a.latched = auth.latched
    BY <1>1 DEF Authority
  <2>2. /\ auth' \in {auth, a} /\ job' = NoJob
        /\ UNCHANGED <<clock, cutting, tripped>> /\ cutting = 0
    BY <1>14 DEF LeaveOptimise, SaveAuth, TripInv, tripVars
  <2> HIDE DEF a
  <2> QED
    BY <1>1, <2>1, <2>2, TripKept DEF Clearing
<1>15. CASE TripClear
  <2>1. /\ job' = job \/ job' = Begin("zero", 0, cutting, FALSE)
        /\ UNCHANGED <<auth, clock, tripped>> /\ job = NoJob /\ cutting # 0 /\ cutting' = 0
    BY <1>15 DEF TripClear
  <2>2. cutting \in 0 .. MaxExportEpoch
    BY DEF ExportTypeOK
  <2>3. job'.step \in {"idle", "zero"}
    BY <1>1, <1>3, <1>a, <2>1, <2>2
  <2> QED
    BY <1>1, <2>1, <2>3, TripKept DEF Clearing
<1>16. CASE ReconcileRecord
  <2> DEFINE a == [auth EXCEPT !.record.state = "preserved"]
  <2>1. a.latched = auth.latched
    BY <1>1, RecordMoves
  <2>2. /\ auth' \in {auth, a}
        /\ job' \in {NoJob, Begin("zero", 0, auth.epoch, TRUE)}
        /\ UNCHANGED <<clock, cutting, tripped>> /\ cutting = 0
    BY <1>16 DEF ReconcileRecord, SaveAuth, BusFree, tripVars
  <2>3. job'.step \in {"idle", "zero"} /\ (job'.step # "idle" => job'.locked)
    BY <1>1, <1>b, <2>2
  <2> HIDE DEF a
  <2> QED
    BY <1>1, <2>1, <2>2, <2>3, TripKept DEF Clearing
<1>17. ASSUME NEW high \in BOOLEAN, Reading(high)
       PROVE  TripInv'
  BY <1>1, <1>17, TripKept DEF Reading, TripInv, Clearing
<1>18. CASE Trip
  <2> DEFINE e == auth.record.event
             a == Latched(e)
  <2>1. e \in Event
    BY <1>18, WatchedEvent DEF Trip
  <2>2. a.record.state = "stop_pending" /\ a.latched = auth.latched \union {e}
    BY <1>1, <2>1, LatchedState
  <2>3. ~Clearing
    BY <1>18 DEF Trip, Watching, Live, RecordLive, TripInv
  <2>4. /\ auth' \in {auth, a} /\ job' \in {job, NoJob} /\ clock' = clock
        /\ tripped' = IF e \in auth'.latched THEN tripped \union {e} ELSE tripped
        /\ cutting' = IF stored' THEN auth.epoch ELSE cutting
        /\ stored' => auth' = a
    BY <1>18 DEF Trip, SaveAuth, Latched
  <2>5. job.step = "idle" /\ cutting = 0
    BY <1>18, <2>3 DEF Clearing, Trip, ControlFree
  <2> HIDE DEF a
  <2>6. Latches(auth.latched)'
    BY <2>2, <2>4 DEF TripInv, Latches, EventOver
  <2>7. job'.step = "idle"
    BY <1>1, <2>4, <2>5
  <2> QED
    BY <2>2, <2>4, <2>5, <2>6, <2>7 DEF TripInv, Clearing
<1>19. CASE Tick
  BY <1>1, <1>19, TripKept DEF Tick, TripInv, Clearing, tripVars
<1>20. CASE ExportRestart
  BY <1>1, <1>20, TripKept DEF ExportRestart, Clearing
<1> QED
  BY <1>4, <1>5, <1>6, <1>7, <1>8, <1>9, <1>10, <1>11, <1>12, <1>13, <1>14, <1>15, <1>16,
     <1>17, <1>18, <1>19, <1>20 DEF ExportNext, ExportJob, ControlAction

\* A window in Slot 1 is never of an event that a trip has latched, whatever is supervised,
\* applied, written back by the clear or restarted afterwards.
THEOREM TripsStay == ExportSpec => TrippedStays
<1>1. ExportInit => WindowInv /\ TripInv
  BY BlankTypes DEF ExportInit, WindowInv, PassOrder, Obligated, TripInv, Latches, Clearing
<1>2. ExportTypeOK /\ WindowInv /\ TripInv /\ [ExportNext]_exportVars => WindowInv' /\ TripInv'
  BY WindowStep, TripStep
<1>3. ExportTypeOK /\ TripInv /\ [ExportNext]_exportVars
        => [slot' # slot => slot' \notin tripped]_exportVars
  <2> SUFFICES ASSUME ExportTypeOK, TripInv, [ExportNext]_exportVars, slot' # slot
               PROVE  slot' \notin tripped
    OBVIOUS
  <2>1. CASE Arm
    <3>1. slot' = job.event /\ Permits(job.event)
      BY <2>1 DEF Arm
    <3> QED
      BY <3>1 DEF Permits, TripInv, Latches
  <2>2. CASE ZeroHalf
    BY <2>2 DEF ZeroHalf, ExportTypeOK, Event
  <2>3. ASSUME ControlAction \/ (\E e \in Event : EndSupervision(e)) \/ ApplyNone
               \/ (\E e \in Event : ApplyReady(e)) \/ ApplyRefused \/ RetryRecord
        PROVE  FALSE
    BY <2>3, ControlSaves, BusSaves, Begins
  <2>4. ASSUME \/ UNCHANGED exportVars \/ SaveAhead \/ Commit \/ MarkCleared \/ PublishCleared
               \/ LeaveOptimise \/ TripClear \/ ReconcileRecord \/ Trip \/ Tick \/ ExportRestart
        PROVE  FALSE
    BY <2>4 DEF exportVars, SaveAhead, Commit, MarkCleared, PublishCleared, LeaveOptimise,
                TripClear, ReconcileRecord, Trip, Tick, ExportRestart
  <2>5. ASSUME NEW high \in BOOLEAN, Reading(high)
        PROVE  FALSE
    BY <2>5 DEF Reading
  <2> QED
    BY <2>1, <2>2, <2>3, <2>4, <2>5 DEF ExportNext, ExportJob, ControlAction
<1> QED
  BY <1>1, <1>2, <1>3, ExportTypeCorrect, PTL DEF ExportSpec, TrippedStays

-----------------------------------------------------------------------------
(* The supply guard: sums over the inverters *)

\* What holds of no element, and of a set with one element more, holds of a finite set: the
\* sets of which it does not hold have no least one.
LEMMA SubsetsOneByOne ==
  ASSUME NEW S, IsFiniteSet(S), NEW Q, {} \in Q,
         \A s \in SUBSET S : \A x \in S \ s : s \in Q => s \union {x} \in Q
  PROVE  S \in Q
<1> DEFINE Bad == {s \in FiniteSubsetsOf(S) : s \notin Q}
<1>1. IsWellFoundedOn(StrictSubsetOrdering(S), FiniteSubsetsOf(S))
  BY FS_StrictSubsetOrderingWellFounded
<1>2. ASSUME Bad # {} PROVE FALSE
  <2>1. PICK s \in Bad : \A t \in Bad : ~(<<t, s>> \in StrictSubsetOrdering(S))
    BY <1>1, <1>2, WFMin, Zenon
  <2>2. s \in SUBSET S /\ IsFiniteSet(s) /\ s \notin Q /\ s # {}
    BY DEF FiniteSubsetsOf
  <2>3. PICK x : x \in s
    BY <2>2
  <2> DEFINE t == s \ {x}
  <2>4. IsFiniteSet(t) /\ t \in SUBSET S /\ x \in S \ t /\ s = t \union {x} /\ t # s
    BY <2>2, <2>3, FS_RemoveElement
  <2>5. t \notin Q
    BY <2>2, <2>4
  <2>6. t \in Bad
    BY <2>4, <2>5 DEF FiniteSubsetsOf
  <2>7. <<t, s>> \in StrictSubsetOrdering(S)
    BY <2>2, <2>4 DEF StrictSubsetOrdering
  <2> QED
    BY <2>1, <2>6, <2>7
<1>3. S \in FiniteSubsetsOf(S)
  BY DEF FiniteSubsetsOf
<1> QED
  BY <1>2, <1>3

\* The sum of naturals is the size of a pile of pairs.
Pile(f, s) == {p \in s \X Nat : 1 <= p[2] /\ p[2] <= f[p[1]]}
LEMMA PileAdds ==
  ASSUME NEW S, IsFiniteSet(S), NEW M \in Nat, NEW f \in [S -> 0 .. M]
  PROVE  /\ Cardinality(Pile(f, {})) = 0
         /\ \A s \in SUBSET S : IsFiniteSet(Pile(f, s)) /\ Cardinality(Pile(f, s)) \in Nat
         /\ \A s \in SUBSET S : \A x \in S \ s :
              Cardinality(Pile(f, s \union {x})) = f[x] + Cardinality(Pile(f, s))
<1>1. Cardinality(Pile(f, {})) = 0
  <2>1. Pile(f, {}) = {}
    BY DEF Pile
  <2> QED
    BY <2>1, FS_EmptySet
<1>2. ASSUME NEW s \in SUBSET S
      PROVE  IsFiniteSet(Pile(f, s)) /\ Cardinality(Pile(f, s)) \in Nat
  <2>1. IsFiniteSet(s) /\ IsFiniteSet(1 .. M)
    BY FS_Subset, FS_Interval
  <2>2. IsFiniteSet(s \X (1 .. M))
    BY <2>1, FS_Product
  <2>3. Pile(f, s) \subseteq s \X (1 .. M)
    <3> SUFFICES ASSUME NEW p \in Pile(f, s) PROVE p \in s \X (1 .. M)
      OBVIOUS
    <3>1. p \in s \X Nat /\ 1 <= p[2] /\ p[2] <= f[p[1]]
      BY DEF Pile
    <3>2. PICK i \in s, n \in Nat : p = <<i, n>>
      BY <3>1
    <3>3. f[i] \in 0 .. M /\ 1 <= n /\ n <= f[i]
      BY <3>1, <3>2
    <3>4. n \in 1 .. M
      BY <3>3
    <3> QED
      BY <3>2, <3>4
  <2> QED
    BY <2>2, <2>3, FS_Subset, FS_CardinalityType
<1>3. ASSUME NEW s \in SUBSET S, NEW x \in S \ s
      PROVE  Cardinality(Pile(f, s \union {x})) = f[x] + Cardinality(Pile(f, s))
  <2> DEFINE top == {x} \X (1 .. f[x])
  <2>1. f[x] \in Nat /\ f[x] \in Int /\ 1 \in Int
    BY <1>3
  <2>2. IsFiniteSet(top) /\ Cardinality(top) = f[x]
    <3>1. IsFiniteSet({x}) /\ Cardinality({x}) = 1
      BY FS_Singleton
    <3>2. IsFiniteSet(1 .. f[x]) /\ Cardinality(1 .. f[x]) = f[x]
      BY <2>1, FS_Interval
    <3>3. IsFiniteSet(top) /\ Cardinality(top) = Cardinality({x}) * Cardinality(1 .. f[x])
      BY <3>1, <3>2, FS_Product
    <3> QED
      BY <3>1, <3>2, <3>3, <2>1
  <2>3. Pile(f, s \union {x}) = Pile(f, s) \union top
    <3>1. \A i, n : <<i, n>> \in Pile(f, s \union {x}) <=>
                      (i \in s \/ i = x) /\ n \in Nat /\ 1 <= n /\ n <= f[i]
      BY DEF Pile
    <3>2. \A i, n : <<i, n>> \in Pile(f, s) <=> i \in s /\ n \in Nat /\ 1 <= n /\ n <= f[i]
      BY DEF Pile
    <3>3. \A i, n : <<i, n>> \in top <=> i = x /\ n \in Nat /\ 1 <= n /\ n <= f[i]
      BY <2>1
    <3>4. /\ \A p \in Pile(f, s \union {x}) : \E i, n : p = <<i, n>>
          /\ \A p \in Pile(f, s) : \E i, n : p = <<i, n>>
          /\ \A p \in top : \E i, n : p = <<i, n>>
      BY DEF Pile
    <3> HIDE DEF top
    <3>5. ASSUME NEW p \in Pile(f, s \union {x}) PROVE p \in Pile(f, s) \union top
      <4>1. PICK i, n : p = <<i, n>>
        BY <3>4
      <4> QED
        BY <4>1, <3>1, <3>2, <3>3
    <3>6. ASSUME NEW p \in Pile(f, s) \union top PROVE p \in Pile(f, s \union {x})
      <4>1. PICK i, n : p = <<i, n>>
        BY <3>4
      <4> QED
        BY <4>1, <3>1, <3>2, <3>3
    <3> QED
      BY <3>5, <3>6
  <2>4. Pile(f, s) \intersect top = {}
    <3>1. \A p \in Pile(f, s) : p[1] \in s
      BY DEF Pile
    <3>2. \A p \in top : p[1] = x
      OBVIOUS
    <3> QED
      BY <3>1, <3>2
  <2>5. IsFiniteSet(Pile(f, s)) /\ Cardinality(Pile(f, s)) \in Nat
    BY <1>2
  <2> HIDE DEF top
  <2>6. Cardinality(Pile(f, s) \union top)
          = Cardinality(Pile(f, s)) + Cardinality(top) - Cardinality(Pile(f, s) \intersect top)
    BY <2>2, <2>5, FS_Union
  <2>7. Cardinality(Pile(f, s) \intersect top) = 0
    BY <2>4, FS_EmptySet
  <2>8. Cardinality(Pile(f, s) \union top) = f[x] + Cardinality(Pile(f, s))
    <3> DEFINE c == Cardinality(Pile(f, s))
               d == Cardinality(Pile(f, s) \union top)
    <3>1. c \in Nat /\ d = c + f[x] - 0
      BY <2>2, <2>5, <2>6, <2>7
    <3> HIDE DEF c, d
    <3>2. d = f[x] + c
      BY <3>1, <2>1
    <3> QED
      BY <3>2 DEF c, d
  <2> QED
    BY <2>3, <2>8
<1> QED
  BY <1>1, <1>2, <1>3

\* The fold adds the same, in whatever order it takes the elements.
Taken(s) == CHOOSE x \in s : TRUE
Adds(f, S, g) == g = [s \in SUBSET S |-> IF s = {} THEN 0 ELSE f[Taken(s)] + g[s \ {Taken(s)}]]
LEMMA TotalSize ==
  ASSUME NEW S, IsFiniteSet(S), NEW M \in Nat, NEW f \in [S -> 0 .. M]
  PROVE  Total(f) = Cardinality(Pile(f, S)) /\ Total(f) \in Nat
<1> DEFINE size == [s \in SUBSET S |-> Cardinality(Pile(f, s))]
           sum  == CHOOSE g : Adds(f, S, g)
<1>1. Total(f) = sum[S]
  BY DEF Total, FoldFunction, FoldFunctionOnSet, MapThenFoldSet, Adds, Taken
<1>2. \A s \in SUBSET S : s # {} => Taken(s) \in s
  BY DEF Taken
<1>3. Adds(f, S, size)
  <2>1. ASSUME NEW s \in SUBSET S
        PROVE  size[s] = IF s = {} THEN 0 ELSE f[Taken(s)] + size[s \ {Taken(s)}]
    <3>1. CASE s = {}
      BY <3>1, PileAdds
    <3>2. CASE s # {}
      <4> DEFINE x == Taken(s)
                 t == s \ {x}
      <4>1. x \in S \ t /\ t \in SUBSET S /\ s = t \union {x}
        BY <1>2, <3>2
      <4> HIDE DEF x, t
      <4>2. Cardinality(Pile(f, t \union {x})) = f[x] + Cardinality(Pile(f, t))
        BY <4>1, PileAdds
      <4>3. size[s] = f[x] + size[t]
        BY <4>1, <4>2
      <4> QED
        BY <3>2, <4>3 DEF x, t
    <3> QED
      BY <3>1, <3>2
  <2>2. size = [s \in SUBSET S |-> size[s]]
    OBVIOUS
  <2> HIDE DEF size
  <2> QED
    BY <2>1, <2>2 DEF Adds
<1> HIDE DEF size
<1>4. Adds(f, S, sum)
  BY <1>3
<1> HIDE DEF sum
<1>5. /\ sum[{}] = 0
      /\ \A s \in SUBSET S : s # {} => sum[s] = f[Taken(s)] + sum[s \ {Taken(s)}]
      /\ size[{}] = 0
      /\ \A s \in SUBSET S : s # {} => size[s] = f[Taken(s)] + size[s \ {Taken(s)}]
  BY <1>3, <1>4 DEF Adds
\* Where every proper subset's sums agree, its own do.
<1> DEFINE Q == {s \in SUBSET S : \A t \in SUBSET s : sum[t] = size[t]}
<1>6. {} \in Q
  BY <1>5
<1>7. ASSUME NEW s \in SUBSET S, NEW x \in S \ s, s \in Q PROVE s \union {x} \in Q
  <2> DEFINE Bad == {t \in SUBSET (s \union {x}) : sum[t] # size[t]}
  <2>1. SUFFICES ASSUME Bad # {} PROVE FALSE
    BY <1>7
  <2>2. Bad \subseteq FiniteSubsetsOf(S)
    BY FS_Subset DEF FiniteSubsetsOf
  <2>3. IsWellFoundedOn(StrictSubsetOrdering(S), FiniteSubsetsOf(S))
    BY FS_StrictSubsetOrderingWellFounded
  <2> HIDE DEF Bad
  <2>4. PICK t \in Bad : \A u \in Bad : ~(<<u, t>> \in StrictSubsetOrdering(S))
    BY <2>1, <2>2, <2>3, WFMin, Zenon
  <2> USE DEF Bad
  <2>5. t # {} /\ t \in SUBSET S
    BY <1>5
  <2>6. Taken(t) \in t
    BY <1>2, <2>5
  <2>7. t \ {Taken(t)} \notin Bad
    <3>1. <<t \ {Taken(t)}, t>> \in StrictSubsetOrdering(S)
      BY <2>5, <2>6 DEF StrictSubsetOrdering
    <3> QED
      BY <2>4, <3>1
  <2>8. sum[t \ {Taken(t)}] = size[t \ {Taken(t)}]
    BY <2>7
  <2> QED
    BY <1>5, <2>5, <2>8
<1>8. S \in Q
  <2> HIDE DEF Q
  <2> QED
    BY <1>6, <1>7, SubsetsOneByOne
<1>9. sum[S] = size[S]
  BY <1>8
<1>10. size[S] = Cardinality(Pile(f, S))
  BY DEF size
<1> QED
  BY <1>1, <1>9, <1>10, PileAdds

\* What is not larger anywhere has no larger sum.
LEMMA TotalMonotone ==
  ASSUME NEW S, IsFiniteSet(S), NEW M \in Nat, NEW f \in [S -> 0 .. M], NEW g \in [S -> 0 .. M],
         \A i \in S : f[i] <= g[i]
  PROVE  Total(f) <= Total(g)
<1>1. Pile(f, S) \subseteq Pile(g, S)
  <2> SUFFICES ASSUME NEW i \in S, NEW n \in Nat, 1 <= n, n <= f[i]
               PROVE  n <= g[i]
    BY DEF Pile
  <2>1. f[i] \in Nat /\ g[i] \in Nat /\ f[i] <= g[i]
    OBVIOUS
  <2> QED
    BY <2>1
<1>2. IsFiniteSet(Pile(g, S))
  BY PileAdds
<1> QED
  BY <1>1, <1>2, FS_Subset, TotalSize

LEMMA LeastOfTwo ==
  ASSUME NEW a \in Int, NEW b \in Int
  PROVE  Least({a, b}) \in {a, b} /\ Least({a, b}) <= a /\ Least({a, b}) <= b
<1>1. \E n \in {a, b} : \A m \in {a, b} : n <= m
  <2>1. CASE a <= b
    BY <2>1
  <2>2. CASE b <= a
    BY <2>2
  <2> QED
    BY <2>1, <2>2
<1> QED
  BY <1>1 DEF Least

LEMMA LeastOfThree ==
  ASSUME NEW a \in Int, NEW b \in Int, NEW c \in Int
  PROVE  Least({a, b, c}) \in {a, b, c} /\ Least({a, b, c}) <= c
<1>1. \E n \in {a, b, c} : \A m \in {a, b, c} : n <= m
  <2>1. CASE a <= b /\ a <= c
    BY <2>1
  <2>2. CASE b <= a /\ b <= c
    BY <2>2
  <2>3. CASE c <= a /\ c <= b
    BY <2>3
  <2> QED
    BY <2>1, <2>2, <2>3
<1> QED
  BY <1>1 DEF Least

LEMMA TotalIsNatural == ASSUME NEW R \in Amps PROVE Total(R) \in Nat
  BY GuardAssumption, TotalSize DEF Amps

LEMMA PartTotalIsNatural == ASSUME NEW R \in Requests PROVE Total(R) \in Nat /\ DOMAIN R \subseteq Units
<1>1. PICK S \in SUBSET Units : R \in [S -> 0 .. MaxA]
  BY DEF Requests
<1>2. IsFiniteSet(S) /\ MaxA \in Nat
  BY GuardAssumption, FS_Subset
<1> QED
  BY <1>1, <1>2, TotalSize

\* A share is no larger than the request, and in proportion to it.
LEMMA ShareIsProportional ==
  ASSUME NEW i, NEW R, R[i] \in 0 .. MaxA, NEW cut \in Nat, Total(R) \in Nat
  PROVE  /\ Share(i, R, cut) \in 0 .. MaxA /\ Share(i, R, cut) <= R[i]
         /\ Total(R) * Share(i, R, cut) <= cut * R[i]
         /\ Total(R) = 0 => Share(i, R, cut) = 0
<1> DEFINE T == Total(R)
           c == cut * R[i]
<1>1. R[i] \in Nat /\ c \in Nat /\ R[i] <= MaxA /\ MaxA \in Nat
  BY GuardAssumption
<1>2. CASE T = 0
  <2>1. Share(i, R, cut) = 0
    BY <1>2 DEF Share
  <2>2. T * 0 = 0
    BY <1>2
  <2> QED
    BY <1>1, <2>1, <2>2
<1>3. CASE T # 0
  <2> DEFINE q == c \div T
             h == Share(i, R, cut)
  <2>1. T \in Nat \ {0}
    BY <1>3
  <2> HIDE DEF T, c
  <2>2. q \in Nat /\ T * q <= c
    <3>1. c \in Int /\ T \in Int /\ 0 < T /\ 0 <= c
      BY <2>1, <1>1
    <3>2. q \in Int /\ T * q <= c /\ c < T * q + T
      BY <3>1
    <3>3. ASSUME q < 0 PROVE FALSE
      <4>1. T * q <= T * (-1)
        BY <3>1, <3>2, <3>3
      <4> QED
        BY <4>1, <3>1, <3>2
    <3> QED
      BY <3>2, <3>3
  <2>3. h = Least({R[i], q})
    BY <1>3 DEF Share, T, c
  <2>4. h \in {R[i], q} /\ h <= R[i] /\ h <= q
    <3> HIDE DEF q, h
    <3>1. R[i] \in Int /\ q \in Int
      BY <2>2, <1>1
    <3>2. Least({R[i], q}) \in {R[i], q} /\ Least({R[i], q}) <= R[i] /\ Least({R[i], q}) <= q
      BY ONLY <3>1, LeastOfTwo
    <3> QED
      BY <2>3, <3>2
  <2>5. h \in Nat
    BY <2>2, <2>4, <1>1
  <2> HIDE DEF h, q
  <2>6. T * h <= T * q
    BY <2>1, <2>2, <2>4, <2>5
  <2>7. T * h \in Nat /\ T * q \in Nat
    BY <2>1, <2>2, <2>5
  <2>8. T * h <= c
    BY <1>1, <2>2, <2>6, <2>7
  <2> QED
    BY <1>1, <1>3, <2>4, <2>5, <2>8 DEF T, c, h
<1> QED
  BY <1>2, <1>3

\* What no share exceeds stays within the ceiling in total.
LEMMA SharesStayWithin ==
  ASSUME NEW R \in Amps, NEW cut \in Nat, NEW g \in Amps,
         \A i \in Units : g[i] <= Share(i, R, cut)
  PROVE  Total(g) <= cut
<1> DEFINE T == Total(R)
<1>1. T \in Nat /\ Total(g) \in Nat /\ IsFiniteSet(Units) /\ MaxA \in Nat
  BY TotalIsNatural, GuardAssumption
<1>2. \A i \in Units : R[i] \in 0 .. MaxA /\ g[i] \in 0 .. MaxA
  BY DEF Amps
<1>3. \A i \in Units : Share(i, R, cut) <= R[i] /\ T * Share(i, R, cut) <= cut * R[i]
                       /\ Share(i, R, cut) \in 0 .. MaxA
  BY <1>1, <1>2, ShareIsProportional
<1> HIDE DEF T
<1>4. \A i \in Units : g[i] <= R[i] /\ T * g[i] <= cut * R[i]
  <2> SUFFICES ASSUME NEW i \in Units PROVE g[i] <= R[i] /\ T * g[i] <= cut * R[i]
    OBVIOUS
  <2> DEFINE a == g[i]
             b == Share(i, R, cut)
             r == R[i]
  <2>1. a \in Nat /\ b \in Nat /\ r \in Nat /\ a <= b /\ b <= r /\ T * b <= cut * r
    BY <1>1, <1>2, <1>3
  <2> HIDE DEF a, b, r
  <2>2. T * a <= T * b
    BY <1>1, <2>1
  <2>3. T * a \in Nat /\ T * b \in Nat /\ cut * r \in Nat
    BY <1>1, <2>1
  <2>4. a <= r /\ T * a <= cut * r
    BY <2>1, <2>2, <2>3
  <2> QED
    BY <2>4 DEF a, r
<1> DEFINE G(s) == Cardinality(Pile(g, s))
           P(s) == Cardinality(Pile(R, s))
           Q == {s \in SUBSET Units : T * G(s) <= cut * P(s)}
<1>5. /\ G({}) = 0 /\ P({}) = 0
      /\ \A s \in SUBSET Units : G(s) \in Nat /\ P(s) \in Nat
      /\ \A s \in SUBSET Units : \A x \in Units \ s :
           G(s \union {x}) = g[x] + G(s) /\ P(s \union {x}) = R[x] + P(s)
  BY <1>1, PileAdds DEF Amps
<1>6. Total(g) = G(Units) /\ T = P(Units)
  BY <1>1, TotalSize DEF Amps, T
<1> HIDE DEF G, P
<1>7. {} \in Q
  <2>1. T * 0 <= cut * 0
    BY <1>1
  <2> QED
    BY <2>1, <1>5
<1>8. ASSUME NEW s \in SUBSET Units, NEW x \in Units \ s, s \in Q PROVE s \union {x} \in Q
  <2> DEFINE a == g[x]
             r == R[x]
             A == G(s)
             B == P(s)
  <2>1. a \in Nat /\ r \in Nat /\ T * a <= cut * r
    BY <1>2, <1>4
  <2>2. A \in Nat /\ B \in Nat /\ T * A <= cut * B
    BY <1>5, <1>8
  <2> HIDE DEF a, r, A, B
  <2>3. T * (a + A) = T * a + T * A /\ cut * (r + B) = cut * r + cut * B
    BY <1>1, <2>1, <2>2
  <2>4. T * a \in Nat /\ T * A \in Nat /\ cut * r \in Nat /\ cut * B \in Nat
    BY <1>1, <2>1, <2>2
  <2>5. T * (a + A) <= cut * (r + B)
    BY <2>1, <2>2, <2>3, <2>4
  <2> QED
    BY <2>5, <1>5 DEF a, r, A, B
<1>9. Units \in Q
  <2> HIDE DEF Q
  <2> QED
    BY <1>1, <1>7, <1>8, SubsetsOneByOne
<1>10. T * Total(g) <= cut * T
  BY <1>6, <1>9
<1>11. CASE T = 0
  <2>1. Total(g) <= Total(R)
    BY <1>1, <1>4, TotalMonotone DEF Amps
  <2> QED
    BY <1>1, <1>11, <2>1 DEF T
<1>12. CASE T # 0
  <2> DEFINE n == Total(g)
  <2>1. n \in Nat /\ T * n <= cut * T /\ T \in Nat \ {0}
    BY <1>1, <1>10, <1>12
  <2> HIDE DEF n
  <2>2. ASSUME n > cut PROVE FALSE
    <3>1. n >= cut + 1
      BY <2>1, <2>2
    <3>2. T * n >= T * (cut + 1)
      BY <2>1, <3>1
    <3>3. T * (cut + 1) = cut * T + T
      BY <2>1
    <3>4. cut * T \in Nat /\ T * n \in Nat /\ T > 0
      BY <2>1
    <3> QED
      BY <2>1, <3>2, <3>3, <3>4
  <2>3. n <= cut
    BY <2>1, <2>2
  <2> QED
    BY <2>3 DEF n
<1> QED
  BY <1>11, <1>12

-----------------------------------------------------------------------------
(* The supply guard: the work under way *)

WorkType ==
    [kind : {"none", "plan", "guard"}, targets : Amps, todo : SUBSET Units, down : SUBSET Units,
     lower : SUBSET Units, unit : SUBSET Units, before : Requests, cut : 0 .. NoCut,
     latched : BOOLEAN, epoch : 1 .. GuardEpochs]
GuardType ==
    [cut : 0 .. NoCut, left : 0 .. Restores, epoch : 1 .. GuardEpochs, latched : BOOLEAN,
     count : 0 .. 2, steady : BOOLEAN, restored : BOOLEAN]

Falls(j) == j \in work.todo \intersect work.down
Covered  == work.kind = "guard"
            \/ (work.kind = "plan" /\ work.todo \union DOMAIN work.before = Units)

\* What is to fall still stands above its target, what is not stands at or below it, and the
\* targets of all inverters share the ceiling.
WorkOK ==
    /\ work.kind = "none" => work.todo = {}
    /\ \A j \in Units : Falls(j) => work.targets[j] < amps[j]
    /\ \A j \in Units :
         work.kind # "none" /\ (work.kind = "guard" \/ j \in work.todo \union DOMAIN work.before)
         /\ ~Falls(j) => amps[j] <= work.targets[j]
    /\ Covered => Total(work.targets) <= guard.cut
GuardInv == GuardTypeOK /\ work \in WorkType /\ WorkOK

LEMMA GuardNaturals ==
  /\ Everything \in Nat /\ NoCut \in Nat /\ MaxA \in Nat /\ SupplyLimit \in Nat /\ Restores \in Nat
  /\ GuardEpochs \in Nat /\ 1 \in 1 .. GuardEpochs /\ GuardFaults \in Nat /\ 0 \in 0 .. MaxA
  /\ NoCut \in 0 .. NoCut /\ Restores \in 0 .. Restores /\ GuardFaults \in 0 .. GuardFaults
  /\ 0 \in 0 .. SupplyLimit
<1>1. Cardinality(Units) \in Nat
  BY GuardAssumption, FS_CardinalityType
<1>2. Everything \in Nat /\ NoCut \in Nat
  BY <1>1, GuardAssumption DEF Everything, NoCut
<1> QED
  BY <1>2, GuardAssumption

LEMMA RestTypes ==
  /\ NoAmps \in Amps /\ Nobody \in Requests /\ NoWork \in WorkType
<1>1. NoAmps \in Amps
  BY GuardNaturals DEF NoAmps, Amps
<1>2. Nobody \in Requests
  <2>1. Nobody \in [{} -> 0 .. MaxA]
    BY DEF Nobody
  <2> QED
    BY <2>1 DEF Requests
<1>3. FALSE \in BOOLEAN
  OBVIOUS
<1>4. NoWork \in WorkType
  BY <1>1, <1>2, <1>3, GuardNaturals DEF NoWork, WorkType
<1> QED
  BY <1>1, <1>2, <1>4

LEMMA FreshTypes ==
  ASSUME NEW e \in 1 .. GuardEpochs
  PROVE  Fresh(e) \in GuardType
<1>1. FALSE \in BOOLEAN /\ 0 \in 0 .. 2
  OBVIOUS
<1> QED
  BY <1>1, GuardNaturals DEF Fresh, GuardType

LEMMA DurableTypes ==
  ASSUME NEW g \in GuardType
  PROVE  DurablePart(g) \in Durable
  BY DEF DurablePart, GuardType, Durable

LEMMA ShareIsACurrent ==
  ASSUME NEW R \in Requests, NEW i \in DOMAIN R, NEW cut \in 0 .. NoCut
  PROVE  Share(i, R, cut) \in 0 .. MaxA
<1>1. R[i] \in 0 .. MaxA
  BY DEF Requests
<1>2. cut \in Nat /\ Total(R) \in Nat
  BY GuardNaturals, PartTotalIsNatural
<1> QED
  BY <1>1, <1>2, ShareIsProportional

LEMMA AmpsAreRequests == ASSUME NEW R \in Amps PROVE R \in Requests /\ DOMAIN R = Units
  BY DEF Amps, Requests

LEMMA CombinedTypes ==
  ASSUME NEW known \in Requests, amps \in Amps
  PROVE  Combined(known) \in Amps
<1>1. PICK S \in SUBSET Units : known \in [S -> 0 .. MaxA]
  BY DEF Requests
<1>2. ASSUME NEW i \in Units
      PROVE  (IF i \in DOMAIN known THEN known[i] ELSE IF Permitted THEN amps[i] ELSE 0) \in 0 .. MaxA
  <2>1. CASE i \in DOMAIN known
    BY <1>1, <2>1
  <2>2. CASE i \notin DOMAIN known /\ Permitted
    BY <2>2 DEF Amps
  <2>3. CASE i \notin DOMAIN known /\ ~Permitted
    BY <2>3, GuardNaturals
  <2> QED
    BY <2>1, <2>2, <2>3
<1> QED
  BY <1>2 DEF Combined, Amps

LEMMA KnownTypes == GuardTypeOK => KnownRequests \in Requests
  BY RestTypes DEF GuardTypeOK, KnownRequests

\* The guard's targets: currents, no larger than the shares, and never above the resident where
\* they may only fall.
LEMMA GuardWorkTypes ==
  ASSUME GuardInv, NEW R \in Amps, NEW known \in SUBSET Units, NEW cut \in 0 .. NoCut
  PROVE  LET w == GuardWork(R, known, cut)
         IN  /\ w \in WorkType /\ w.kind = "guard" /\ w.todo = Units
             /\ w.down = {i \in Units : w.targets[i] < amps[i]}
             /\ Total(w.targets) <= cut
<1> DEFINE lower == IF guard.restored THEN Units ELSE Units \ known
           share == [i \in Units |-> Share(i, R, cut)]
           targets == [i \in Units |-> IF i \in lower THEN Least({share[i], amps[i]}) ELSE share[i]]
           w == GuardWork(R, known, cut)
<1>1. cut \in Nat /\ R \in Requests /\ DOMAIN R = Units /\ amps \in Amps
  BY GuardNaturals, AmpsAreRequests DEF GuardInv, GuardTypeOK
<1>2. \A i \in Units : share[i] \in 0 .. MaxA
  BY <1>1, ShareIsACurrent
<1>3. ASSUME NEW i \in Units PROVE targets[i] \in 0 .. MaxA /\ targets[i] <= share[i]
  <2> DEFINE a == share[i]
             b == amps[i]
  <2>1. a \in 0 .. MaxA /\ b \in 0 .. MaxA
    BY <1>1, <1>2 DEF Amps
  <2> HIDE DEF a, b
  <2>2. a \in Int /\ b \in Int /\ a <= a
    BY <2>1, GuardNaturals
  <2>3. Least({a, b}) \in {a, b} /\ Least({a, b}) <= a
    BY ONLY <2>2, LeastOfTwo
  <2>4. targets[i] = IF i \in lower THEN Least({a, b}) ELSE a
    BY DEF a, b
  <2>5. targets[i] \in 0 .. MaxA /\ targets[i] <= a
    <3> HIDE DEF targets
    <3> QED
      BY <2>1, <2>2, <2>3, <2>4
  <2> QED
    BY <2>5 DEF a
<1>4. targets \in Amps
  <2> HIDE DEF share
  <2>1. \A i \in Units : targets[i] \in 0 .. MaxA
    BY <1>3
  <2> QED
    BY <2>1 DEF Amps
<1>5. lower \in SUBSET Units
  OBVIOUS
<1>6. Total(targets) <= cut
  <2>1. \A i \in Units : targets[i] <= Share(i, R, cut)
    BY <1>3
  <2> HIDE DEF targets
  <2> QED
    BY <1>1, <1>4, <2>1, SharesStayWithin
<1>7. w = [NoWork EXCEPT !.kind = "guard", !.targets = targets, !.todo = Units, !.lower = lower,
                       !.down = {i \in Units : targets[i] < amps[i]},
                       !.cut = guard.cut, !.latched = guard.latched, !.epoch = authority.epoch]
  BY DEF GuardWork
<1>8. guard.cut \in 0 .. NoCut /\ guard.latched \in BOOLEAN /\ authority.epoch \in 1 .. GuardEpochs
  BY DEF GuardInv, GuardTypeOK
<1> HIDE DEF targets, lower, w
<1>9. w \in WorkType
  BY <1>4, <1>5, <1>7, <1>8, RestTypes DEF WorkType
<1>10. w.kind = "guard" /\ w.todo = Units /\ w.targets = targets
       /\ w.down = {i \in Units : targets[i] < amps[i]}
  BY <1>7 DEF NoWork
<1> QED
  BY <1>6, <1>9, <1>10 DEF w

LEMMA NoWorkIsOK == work' = NoWork => (work \in WorkType /\ WorkOK)'
<1> SUFFICES ASSUME work' = NoWork PROVE (work \in WorkType /\ WorkOK)'
  OBVIOUS
<1>1. work'.kind = "none" /\ work'.todo = {} /\ work' \in WorkType
  BY RestTypes DEF NoWork
<1> QED
  BY <1>1 DEF WorkOK, Covered, Falls

LEMMA RestIsTyped ==
  GuardTypeOK <=>
    /\ amps \in Amps /\ requests \in Requests /\ askedEpoch \in 1 .. GuardEpochs
    /\ guard \in GuardType /\ saved \in Durable /\ saveFailed \in BOOLEAN
    /\ authority \in [epoch : 1 .. GuardEpochs, mode : {"observe", "protect", "optimise"}]
    /\ work.kind \in {"none", "plan", "guard"} /\ work.targets \in Amps /\ work.todo \subseteq Units
    /\ house \in 0 .. SupplyLimit /\ guardFaults \in 0 .. GuardFaults
  BY DEF GuardTypeOK, GuardType

LEMMA FaultIsTyped == guardFaults \in 0 .. GuardFaults /\ Faulty => guardFaults' \in 0 .. GuardFaults
  BY GuardNaturals DEF Faulty

LEMMA SavedGuard ==
  ASSUME GuardTypeOK, NEW g \in GuardType, NEW next, SaveGuard(g, next)
  PROVE  /\ guard' \in GuardType /\ saved' \in Durable /\ saveFailed' \in BOOLEAN
         /\ guardFaults' \in 0 .. GuardFaults
         /\ (guard' = g /\ work' = next) \/ work' = NoWork
<1>1. guard \in GuardType /\ saved \in Durable /\ saveFailed \in BOOLEAN
      /\ guardFaults \in 0 .. GuardFaults
  BY RestIsTyped
<1>2. CASE guard' = g /\ saved' = DurablePart(g) /\ work' = next /\ UNCHANGED <<saveFailed, guardFaults>>
  BY <1>1, <1>2, DurableTypes
<1>3. CASE /\ Faulty /\ saved' \in {saved, DurablePart(g)} /\ saveFailed' = TRUE /\ work' = NoWork
           /\ guard' = IF guard.cut # NoCut /\ g.cut > guard.cut
                       THEN [g EXCEPT !.cut = guard.cut, !.latched = guard.latched] ELSE g
  <2>1. saved' \in Durable /\ saveFailed' \in BOOLEAN /\ guardFaults' \in 0 .. GuardFaults
    BY <1>1, <1>3, DurableTypes, FaultIsTyped
  <2>2. guard.cut \in 0 .. NoCut /\ guard.latched \in BOOLEAN
    BY <1>1 DEF GuardType
  <2>3. [g EXCEPT !.cut = guard.cut, !.latched = guard.latched] \in GuardType
    BY <2>2 DEF GuardType
  <2>4. guard' \in GuardType
    BY <1>3, <2>3
  <2> QED
    BY <1>3, <2>1, <2>4
<1> QED
  BY <1>2, <1>3 DEF SaveGuard

LEMMA AvailableIsNatural == GuardTypeOK => Available \in Nat
<1> SUFFICES ASSUME GuardTypeOK PROVE Available \in Nat
  OBVIOUS
<1>1. house \in Nat /\ SupplyLimit \in Nat
  BY GuardNaturals DEF GuardTypeOK
<1>2. CASE house < SupplyLimit
  BY <1>1, <1>2 DEF Available
<1>3. CASE ~(house < SupplyLimit)
  BY <1>3 DEF Available
<1> QED
  BY <1>2, <1>3

LEMMA CountedTypes ==
  ASSUME GuardTypeOK, NEW R \in Amps
  PROVE  Counted(guard, R) \in GuardType
<1> DEFINE count == IF ~Overload THEN 0 ELSE IF guard.count < 2 THEN guard.count + 1 ELSE 2
           low == Least({Total(R), Available, guard.cut})
<1>1. guard \in GuardType /\ authority.epoch \in 1 .. GuardEpochs
  BY RestIsTyped
<1>2. guard.count \in 0 .. 2 /\ guard.cut \in 0 .. NoCut
  BY <1>1 DEF GuardType
<1>3. count \in 0 .. 2
  <2>1. CASE ~Overload
    BY <2>1
  <2>2. CASE Overload /\ guard.count < 2
    BY <1>2, <2>2
  <2>3. CASE Overload /\ ~(guard.count < 2)
    BY <2>3
  <2> QED
    BY <2>1, <2>2, <2>3
<1>4. low \in 0 .. NoCut
  <2> DEFINE a == Total(R)
             b == Available
             c == guard.cut
  <2>1. a \in Nat /\ b \in Nat /\ c \in Nat /\ c <= NoCut
    BY <1>2, TotalIsNatural, AvailableIsNatural, GuardNaturals
  <2> HIDE DEF a, b, c
  <2>2. a \in Int /\ b \in Int /\ c \in Int
    BY <2>1
  <2>3. Least({a, b, c}) \in {a, b, c} /\ Least({a, b, c}) <= c
    BY ONLY <2>2, LeastOfThree
  <2>4. Least({a, b, c}) \in 0 .. NoCut
    BY <2>1, <2>3, GuardNaturals
  <2> QED
    BY <2>4 DEF a, b, c
<1> HIDE DEF count, low
<1>5. FALSE \in BOOLEAN
  OBVIOUS
<1>6. [guard EXCEPT !.count = count, !.cut = low, !.epoch = authority.epoch, !.restored = FALSE]
        \in GuardType
  BY <1>1, <1>3, <1>4, <1>5 DEF GuardType
<1>7. [guard EXCEPT !.count = count] \in GuardType
  BY <1>1, <1>3 DEF GuardType
<1>8. Counted(guard, R) \in
        {[guard EXCEPT !.count = count, !.cut = low, !.epoch = authority.epoch, !.restored = FALSE],
         [guard EXCEPT !.count = count]}
  BY DEF Counted, count, low
<1> QED
  BY <1>6, <1>7, <1>8

LEMMA FreshStepsTypes ==
  ASSUME GuardTypeOK, NEW R \in Amps, NEW known, NEW g \in FreshSteps(R, known)
  PROVE  g \in GuardType
<1> DEFINE c == Counted(guard, R)
           steady == [c EXCEPT !.steady = TRUE]
           unsteady == [c EXCEPT !.steady = FALSE]
           lifted == [c EXCEPT !.cut = NoCut, !.latched = FALSE, !.steady = FALSE, !.left = @ - 1,
                               !.restored = FALSE, !.epoch = authority.epoch]
<1>1. c \in GuardType /\ authority.epoch \in 1 .. GuardEpochs
  BY CountedTypes, RestIsTyped
<1> HIDE DEF c
<1>2. TRUE \in BOOLEAN /\ FALSE \in BOOLEAN
  OBVIOUS
<1>3. steady \in GuardType /\ unsteady \in GuardType
  BY <1>1, <1>2 DEF GuardType
<1>4. c.left > 0 => lifted \in GuardType
  <2>1. c.left \in 0 .. Restores
    BY <1>1 DEF GuardType
  <2>2. c.left > 0 => c.left - 1 \in 0 .. Restores
    BY <2>1, GuardNaturals
  <2> QED
    BY <1>1, <1>2, <2>2, GuardNaturals DEF GuardType
<1>5. g = unsteady \/ g = steady \/ (c.left > 0 /\ g = lifted)
  <2>1. CASE ~(known # {} /\ c.cut # NoCut /\ Total(R) > 0 /\ Available > Total(R))
    BY <2>1 DEF FreshSteps, c
  <2>2. CASE known # {} /\ c.cut # NoCut /\ Total(R) > 0 /\ Available > Total(R)
    <3> HIDE DEF steady, lifted
    <3>1. g \in {steady} \union (IF c.steady /\ c.left > 0 /\ Permitted /\ Replay(c)
                               THEN {lifted} ELSE {})
      BY <2>2 DEF FreshSteps, c, steady, lifted
    <3> QED
      BY <3>1
  <2> QED
    BY <2>1, <2>2
<1> HIDE DEF steady, unsteady, lifted
<1> QED
  BY <1>3, <1>4, <1>5

LEMMA MissingStepsTypes ==
  ASSUME GuardTypeOK, NEW R \in Amps, NEW g \in MissingSteps(R)
  PROVE  g \in GuardType
<1> DEFINE c == [guard EXCEPT !.count = 0, !.steady = FALSE]
           low == Least({Total(R) \div 2, c.cut})
           halved == [c EXCEPT !.cut = low, !.latched = TRUE, !.epoch = authority.epoch,
                               !.restored = FALSE]
<1>1. guard \in GuardType /\ authority.epoch \in 1 .. GuardEpochs
  BY RestIsTyped
<1>2. TRUE \in BOOLEAN /\ FALSE \in BOOLEAN /\ 0 \in 0 .. 2
  OBVIOUS
<1>3. c \in GuardType
  BY <1>1, <1>2 DEF GuardType
<1> HIDE DEF c
<1>4. low \in 0 .. NoCut
  <2> DEFINE a == Total(R) \div 2
             b == c.cut
  <2>1. a \in Nat /\ b \in Nat /\ b <= NoCut
    <3>1. Total(R) \in Nat
      BY TotalIsNatural
    <3>2. a \in Nat
      BY <3>1
    <3>3. b \in 0 .. NoCut
      BY <1>3 DEF GuardType
    <3> QED
      BY <3>2, <3>3, GuardNaturals
  <2> HIDE DEF a, b
  <2>2. a \in Int /\ b \in Int
    BY <2>1
  <2>3. Least({a, b}) \in {a, b} /\ Least({a, b}) <= b
    BY ONLY <2>2, LeastOfTwo
  <2>4. Least({a, b}) \in 0 .. NoCut
    BY <2>1, <2>3, GuardNaturals
  <2> QED
    BY <2>4 DEF a, b
<1> HIDE DEF low
<1>5. halved \in GuardType
  BY <1>1, <1>2, <1>3, <1>4 DEF GuardType
<1> HIDE DEF halved
<1>6. g \in {c} \union (IF ~c.latched /\ Total(R) > 0 THEN {halved} ELSE {})
  BY DEF MissingSteps, c, low, halved
<1> QED
  BY <1>3, <1>5, <1>6

LEMMA DecideKeeps ==
  ASSUME GuardInv, NEW R \in Amps, NEW known \in Requests, NEW fresh \in BOOLEAN,
         NEW g \in GuardType, Decide(g, R, known, fresh)
  PROVE  GuardInv'
<1> DEFINE able    == Permitted /\ Replay(g) /\ Total(R) > 0
           rewrite == g.restored /\ able /\ fresh
           next    == IF rewrite THEN [g EXCEPT !.restored = FALSE] ELSE g
           write   == able /\ (rewrite \/ g.cut # guard.cut \/ g.latched # guard.latched)
           new     == GuardWork(R, DOMAIN known, next.cut)
           todo    == IF write THEN new ELSE NoWork
<1>1. next \in GuardType
  <2>1. [g EXCEPT !.restored = FALSE] \in GuardType
    <3>1. FALSE \in BOOLEAN
      OBVIOUS
    <3> QED
      BY <3>1 DEF GuardType
  <2> QED
    BY <2>1
<1>2. /\ requests' = known
      /\ askedEpoch' = IF Permitted THEN authority.epoch ELSE askedEpoch
      /\ IF DurablePart(next) = DurablePart(guard)
         THEN /\ guard' = next /\ work' = todo /\ UNCHANGED <<saved, saveFailed, guardFaults>>
         ELSE SaveGuard(next, todo)
      /\ UNCHANGED <<amps, authority, house>>
  BY DEF Decide
<1>3. DOMAIN known \in SUBSET Units
  BY PartTotalIsNatural
<1> HIDE DEF able, rewrite, next, write
<1>4. next.cut \in 0 .. NoCut
  BY <1>1 DEF GuardType
<1>5. /\ new \in WorkType /\ new.kind = "guard" /\ new.todo = Units
      /\ new.down = {i \in Units : new.targets[i] < amps[i]}
      /\ Total(new.targets) <= next.cut
  BY <1>3, <1>4, GuardWorkTypes
<1> HIDE DEF new
<1>6. todo = new \/ todo = NoWork
  OBVIOUS
<1> HIDE DEF todo
<1>7. /\ guard' \in GuardType /\ saved' \in Durable /\ saveFailed' \in BOOLEAN
      /\ guardFaults' \in 0 .. GuardFaults
      /\ (guard' = next /\ work' = todo) \/ work' = NoWork
  <2>1. GuardTypeOK
    BY DEF GuardInv
  <2>2. CASE DurablePart(next) = DurablePart(guard)
    BY <1>1, <1>2, <2>1, <2>2, RestIsTyped
  <2>3. CASE DurablePart(next) # DurablePart(guard)
    <3>1. SaveGuard(next, todo)
      BY <1>2, <2>3
    <3> QED
      BY <1>1, <2>1, <3>1, SavedGuard
  <2> QED
    BY <2>2, <2>3
<1>8. (work \in WorkType /\ WorkOK)'
  <2>1. CASE work' = NoWork
    BY <2>1, NoWorkIsOK
  <2>2. CASE guard' = next /\ work' = new
    <3>1. amps' = amps /\ amps \in Amps
      BY <1>2 DEF GuardInv, GuardTypeOK
    <3>2. work'.kind = "guard" /\ work'.todo = Units /\ work' \in WorkType
          /\ work'.down = {i \in Units : work'.targets[i] < amps[i]}
          /\ Total(work'.targets) <= guard'.cut
      BY <1>5, <2>2
    <3>3. ASSUME NEW j \in Units, ~Falls(j)' PROVE amps'[j] <= work'.targets[j]
      <4>1. j \notin work'.down
        BY <3>2, <3>3 DEF Falls
      <4>2. ~(work'.targets[j] < amps[j])
        BY <3>2, <4>1
      <4>3. work'.targets[j] \in Int /\ amps[j] \in Int
        BY <3>1, <3>2, GuardNaturals DEF WorkType, Amps
      <4> QED
        BY <3>1, <4>2, <4>3
    <3>4. Total(work.targets)' <= guard'.cut
      BY <3>2
    <3>5. ASSUME NEW j \in Units, Falls(j)' PROVE work'.targets[j] < amps'[j]
      BY <3>1, <3>2, <3>5 DEF Falls
    <3> QED
      BY <3>2, <3>3, <3>4, <3>5 DEF WorkOK
  <2> QED
    BY <1>6, <1>7, <2>1, <2>2
<1>9. GuardTypeOK'
  <2>1. askedEpoch' \in 1 .. GuardEpochs
    BY <1>2, RestIsTyped DEF GuardInv, GuardTypeOK
  <2>2. amps' \in Amps /\ house' \in 0 .. SupplyLimit
        /\ authority' \in [epoch : 1 .. GuardEpochs, mode : {"observe", "protect", "optimise"}]
    BY <1>2 DEF GuardInv, GuardTypeOK
  <2>3. work'.kind \in {"none", "plan", "guard"} /\ work'.targets \in Amps /\ work'.todo \subseteq Units
    BY <1>8 DEF WorkType
  <2> QED
    BY <1>2, <1>7, <2>1, <2>2, <2>3 DEF GuardTypeOK, GuardType
<1> QED
  BY <1>8, <1>9 DEF GuardInv

LEMMA ReportKeeps == GuardInv /\ (Report \/ ReportMissing) => GuardInv'
<1> SUFFICES ASSUME GuardInv, Report \/ ReportMissing PROVE GuardInv'
  OBVIOUS
<1> DEFINE K == KnownRequests
           R == Combined(K)
<1>1. K \in Requests /\ GuardTypeOK
  BY KnownTypes DEF GuardInv
<1> HIDE DEF K
<1>2. R \in Amps
  BY <1>1, CombinedTypes DEF GuardTypeOK
<1> HIDE DEF R
<1>3. TRUE \in BOOLEAN /\ FALSE \in BOOLEAN
  OBVIOUS
<1>4. CASE Report
  <2>1. PICK g \in FreshSteps(R, DOMAIN K) : Decide(g, R, K, TRUE)
    BY <1>4 DEF Report, K, R
  <2>2. g \in GuardType
    BY <1>1, <1>2, FreshStepsTypes
  <2> QED
    BY <1>1, <1>2, <1>3, <2>1, <2>2, DecideKeeps
<1>5. CASE ReportMissing
  <2>1. PICK g \in MissingSteps(R) : Decide(g, R, K, FALSE)
    BY <1>5 DEF ReportMissing, K, R
  <2>2. g \in GuardType
    BY <1>1, <1>2, MissingStepsTypes
  <2> QED
    BY <1>1, <1>2, <1>3, <2>1, <2>2, DecideKeeps
<1> QED
  BY <1>4, <1>5

With(i, a, before) == [j \in {i} \union DOMAIN before |-> IF j = i THEN a ELSE before[j]]
LEMMA WithRequest ==
  ASSUME NEW i \in Units, NEW a \in 0 .. MaxA, NEW before \in Requests
  PROVE  /\ With(i, a, before) \in Requests
         /\ DOMAIN (With(i, a, before)) = {i} \union DOMAIN before
<1> DEFINE known == With(i, a, before)
<1>1. known = [x \in {i} \union DOMAIN before |-> IF x = i THEN a ELSE before[x]]
  BY DEF With
<1>2. PICK S \in SUBSET Units : before \in [S -> 0 .. MaxA]
  BY DEF Requests
<1>3. known \in [{i} \union S -> 0 .. MaxA] /\ {i} \union S \in SUBSET Units
  <2> HIDE DEF known
  <2>1. \A x \in {i} \union S : (IF x = i THEN a ELSE before[x]) \in 0 .. MaxA
    BY <1>2
  <2> QED
    BY <1>1, <1>2, <2>1
<1>4. known \in Requests
  <2> HIDE DEF known
  <2> QED
    BY <1>3 DEF Requests
<1> QED
  BY <1>1, <1>4

LEMMA PlanKeeps ==
  ASSUME GuardInv, NEW i \in Units, NEW a \in 0 .. MaxA, PlanCurrent(i, a)
  PROVE  GuardInv'
<1> DEFINE before  == IF askedEpoch = authority.epoch THEN requests ELSE Nobody
           known   == With(i, a, before)
           targets == [j \in Units |-> IF j \in DOMAIN known THEN Share(j, known, guard.cut) ELSE 0]
           down    == {j \in DOMAIN known : targets[j] < amps[j]}
           new     == [NoWork EXCEPT !.kind = "plan", !.targets = targets, !.todo = DOMAIN known,
                        !.down = down, !.unit = {i}, !.before = before, !.epoch = authority.epoch]
<1>1. GuardTypeOK
  BY DEF GuardInv
<1>2. /\ requests' = known /\ askedEpoch' = authority.epoch /\ work' = new
      /\ UNCHANGED <<amps, guard, saved, saveFailed, authority, house, guardFaults>>
  BY DEF PlanCurrent, With
<1>3. before \in Requests
  BY <1>1, RestTypes DEF GuardTypeOK
<1> HIDE DEF before
<1>4. known \in Requests /\ DOMAIN known = {i} \union DOMAIN before
  BY <1>3, WithRequest
<1> HIDE DEF known
<1>5. DOMAIN known \in SUBSET Units
  BY <1>4, PartTotalIsNatural
<1>6. guard.cut \in 0 .. NoCut /\ authority.epoch \in 1 .. GuardEpochs /\ amps \in Amps
  BY <1>1 DEF GuardTypeOK
<1>7. targets \in Amps
  <2>1. ASSUME NEW j \in Units
        PROVE  (IF j \in DOMAIN known THEN Share(j, known, guard.cut) ELSE 0) \in 0 .. MaxA
    <3>1. CASE j \in DOMAIN known
      BY <1>4, <1>6, <3>1, ShareIsACurrent
    <3>2. CASE j \notin DOMAIN known
      BY <3>2, GuardNaturals
    <3> QED
      BY <3>1, <3>2
  <2> QED
    BY <2>1 DEF Amps
<1>8. DOMAIN known = Units => Total(targets) <= guard.cut
  <2> SUFFICES ASSUME DOMAIN known = Units PROVE Total(targets) <= guard.cut
    OBVIOUS
  <2>1. known \in Amps
    BY <1>4 DEF Requests, Amps
  <2>2. ASSUME NEW j \in Units PROVE targets[j] <= Share(j, known, guard.cut)
    <3>1. targets[j] = Share(j, known, guard.cut)
      OBVIOUS
    <3>2. targets[j] \in Int
      <4> HIDE DEF targets
      <4> QED
        BY <1>7, GuardNaturals DEF Amps
    <3> QED
      BY <3>1, <3>2
  <2> HIDE DEF targets
  <2>3. guard.cut \in Nat
    BY <1>6, GuardNaturals
  <2> QED
    BY <1>7, <2>1, <2>2, <2>3, SharesStayWithin
<1> HIDE DEF targets
<1>9. new \in WorkType
  BY <1>3, <1>5, <1>6, <1>7, RestTypes DEF WorkType
<1>10. /\ new.kind = "plan" /\ new.todo = DOMAIN known /\ new.targets = targets
       /\ new.down = {j \in DOMAIN known : targets[j] < amps[j]} /\ new.before = before
  BY DEF NoWork
<1> HIDE DEF new
<1>11. WorkOK'
  <2>1. work'.kind = "plan" /\ work'.todo = DOMAIN known /\ work'.targets = targets
        /\ work'.before = before /\ amps' = amps /\ guard' = guard
        /\ work'.down = {j \in DOMAIN known : targets[j] < amps[j]}
    BY <1>2, <1>10
  <2>2. ASSUME NEW j \in Units, j \in work'.todo \union DOMAIN work'.before, ~Falls(j)'
        PROVE  amps'[j] <= work'.targets[j]
    <3>1. j \in DOMAIN known
      BY <1>4, <2>1, <2>2
    <3>2. ~(targets[j] < amps[j])
      BY <2>1, <2>2, <3>1 DEF Falls
    <3>3. targets[j] \in Int /\ amps[j] \in Int
      BY <1>6, <1>7, GuardNaturals DEF Amps
    <3> QED
      BY <2>1, <3>2, <3>3
  <2>3. Covered' => Total(work.targets)' <= guard'.cut
    BY <1>4, <1>8, <2>1 DEF Covered
  <2>4. ASSUME NEW j \in Units, Falls(j)' PROVE work'.targets[j] < amps'[j]
    BY <2>1, <2>4 DEF Falls
  <2> QED
    BY <2>1, <2>2, <2>3, <2>4 DEF WorkOK
<1>12. GuardTypeOK'
  <2>1. work'.kind \in {"none", "plan", "guard"} /\ work'.targets \in Amps /\ work'.todo \subseteq Units
    BY <1>2, <1>5, <1>7, <1>10
  <2> QED
    BY <1>1, <1>2, <1>4, <2>1 DEF GuardTypeOK
<1> QED
  BY <1>2, <1>9, <1>11, <1>12 DEF GuardInv

LEMMA TargetIsACurrent ==
  ASSUME GuardInv, NEW i \in Units
  PROVE  /\ Target(i) \in 0 .. MaxA /\ Target(i) <= work.targets[i]
         /\ i \in work.lower => Target(i) <= amps[i]
         /\ [amps EXCEPT ![i] = Target(i)] \in Amps
<1> DEFINE a == work.targets[i]
           b == amps[i]
<1>1. a \in 0 .. MaxA /\ b \in 0 .. MaxA /\ amps \in Amps
  BY DEF GuardInv, GuardTypeOK, Amps
<1> HIDE DEF a, b
<1>2. a \in Int /\ b \in Int /\ a <= a
  BY <1>1, GuardNaturals
<1>3. Least({a, b}) \in {a, b} /\ Least({a, b}) <= a /\ Least({a, b}) <= b
  BY ONLY <1>2, LeastOfTwo
<1>4. Target(i) = IF i \in work.lower THEN Least({a, b}) ELSE a
  BY DEF Target, a, b
<1>5. Target(i) \in 0 .. MaxA /\ Target(i) <= a /\ (i \in work.lower => Target(i) <= b)
  BY <1>1, <1>2, <1>3, <1>4
<1>6. [amps EXCEPT ![i] = Target(i)] \in Amps
  BY <1>1, <1>5 DEF Amps
<1> QED
  BY <1>5, <1>6 DEF a, b

LEMMA CommitKeeps ==
  ASSUME GuardInv, NEW i \in Units, CommitCurrent(i)
  PROVE  GuardInv'
<1>1. /\ Due(i) /\ amps' = [amps EXCEPT ![i] = Target(i)]
      /\ work' = IF work.todo = {i} THEN NoWork ELSE [work EXCEPT !.todo = @ \ {i}]
      /\ UNCHANGED <<requested, guard, saved, saveFailed, authority, house, guardFaults>>
  BY DEF CommitCurrent
<1>2. amps' \in Amps /\ amps \in Amps /\ work \in WorkType
  BY <1>1, TargetIsACurrent DEF GuardInv, GuardTypeOK
<1>3. (work \in WorkType /\ WorkOK)'
  <2>1. CASE work.todo = {i}
    BY <1>1, <2>1, NoWorkIsOK
  <2>2. CASE work.todo # {i}
    <3>1. /\ work' \in WorkType /\ work'.kind = work.kind /\ work'.targets = work.targets
          /\ work'.todo = work.todo \ {i} /\ work'.down = work.down /\ work'.before = work.before
          /\ guard' = guard
      BY <1>1, <1>2, <2>2 DEF WorkType
    <3>2. i \in work.todo /\ work.kind # "none"
      BY <1>1 DEF Due, GuardInv, WorkOK
    <3>3. ASSUME NEW j \in Units, ~Falls(j)',
                 work'.kind = "guard" \/ j \in work'.todo \union DOMAIN work'.before
          PROVE  amps'[j] <= work'.targets[j]
      <4>1. CASE j = i
        <5>1. amps'[i] = Target(i)
          BY <1>1, <1>2 DEF Amps
        <5> QED
          BY <3>1, <4>1, <5>1, TargetIsACurrent
      <4>2. CASE j # i
        <5>1. amps'[j] = amps[j]
          BY <1>1, <1>2, <4>2 DEF Amps
        <5>2. ~Falls(j) /\ (work.kind = "guard" \/ j \in work.todo \union DOMAIN work.before)
          BY <3>1, <3>3, <4>2 DEF Falls
        <5>3. amps[j] <= work.targets[j]
          BY <3>2, <5>2 DEF GuardInv, WorkOK
        <5> QED
          BY <3>1, <5>1, <5>3
      <4> QED
        BY <4>1, <4>2
    <3>4. Covered' => Total(work.targets)' <= guard'.cut
      <4>1. Covered' => Covered
        BY <3>1, <3>2 DEF Covered, GuardInv, GuardTypeOK
      <4>2. Covered => Total(work.targets) <= guard.cut
        BY DEF GuardInv, WorkOK
      <4> QED
        BY <3>1, <4>1, <4>2
    <3>5. ASSUME NEW j \in Units, Falls(j)' PROVE work'.targets[j] < amps'[j]
      <4>1. Falls(j) /\ j # i
        BY <3>1, <3>5 DEF Falls
      <4>2. amps'[j] = amps[j] /\ work.targets[j] < amps[j]
        BY <1>1, <1>2, <4>1 DEF Amps, GuardInv, WorkOK
      <4> QED
        BY <3>1, <4>2
    <3> QED
      BY <3>1, <3>2, <3>3, <3>4, <3>5 DEF WorkOK
  <2> QED
    BY <2>1, <2>2
<1>4. GuardTypeOK'
  BY <1>1, <1>2, <1>3 DEF GuardInv, GuardTypeOK, WorkType, requested
<1> QED
  BY <1>3, <1>4 DEF GuardInv

LEMMA StopTypes ==
  ASSUME GuardInv, NEW i \in Units, NEW refused \in BOOLEAN, Stops(i, refused)
  PROVE  /\ work' = NoWork /\ requests' \in Requests /\ askedEpoch' = askedEpoch
         /\ guard' \in GuardType /\ saved' \in Durable /\ saveFailed' = saveFailed
<1>1. work \in WorkType /\ requests \in Requests /\ guard \in GuardType /\ saved \in Durable
  BY DEF GuardInv, GuardTypeOK, GuardType
<1>2. CASE PlanStops(i, refused)
  <2>1. work.before \in Requests
    BY <1>1 DEF WorkType
  <2>2. requests' = requests \/ requests' = work.before
    BY <1>2 DEF PlanStops
  <2> QED
    BY <1>1, <1>2, <2>1, <2>2 DEF PlanStops
<1>3. CASE GuardStops
  <2> DEFINE g == [guard EXCEPT !.restored = TRUE]
             h == [g EXCEPT !.cut = work.cut, !.latched = work.latched, !.steady = FALSE]
  <2>1. TRUE \in BOOLEAN /\ FALSE \in BOOLEAN
    OBVIOUS
  <2>2. work.cut \in 0 .. NoCut /\ work.latched \in BOOLEAN
    BY <1>1 DEF WorkType
  <2>3. g \in GuardType
    BY <1>1, <2>1 DEF GuardType
  <2> HIDE DEF g
  <2>4. h \in GuardType
    BY <2>1, <2>2, <2>3 DEF GuardType
  <2> HIDE DEF h
  <2>5. guard' = h \/ guard' = g
    BY <1>3 DEF GuardStops, g, h
  <2>6. guard' \in GuardType
    BY <2>3, <2>4, <2>5
  <2>7. saved' = DurablePart(guard')
    BY <1>3 DEF GuardStops
  <2>8. saved' \in Durable
    BY <2>6, <2>7, DurableTypes
  <2> QED
    BY <1>1, <1>3, <2>6, <2>8 DEF GuardStops, requested
<1> QED
  BY <1>2, <1>3 DEF Stops

LEMMA StoppedIsOK ==
  ASSUME GuardInv, work' = NoWork, amps' \in Amps, requests' \in Requests,
         askedEpoch' \in 1 .. GuardEpochs, guard' \in GuardType, saved' \in Durable,
         saveFailed' \in BOOLEAN, guardFaults' \in 0 .. GuardFaults, UNCHANGED <<authority, house>>
  PROVE  GuardInv'
<1>1. (work \in WorkType /\ WorkOK)'
  BY NoWorkIsOK
<1>2. GuardTypeOK'
  BY <1>1 DEF GuardInv, GuardTypeOK, GuardType, WorkType
<1> QED
  BY <1>1, <1>2 DEF GuardInv

LEMMA StopKeeps ==
  ASSUME GuardInv, NEW i \in Units, CommitRefused(i) \/ CommitFails(i)
  PROVE  GuardInv'
<1>1. GuardTypeOK /\ TRUE \in BOOLEAN /\ FALSE \in BOOLEAN
  BY DEF GuardInv
<1>2. CASE CommitRefused(i)
  <2>1. Stops(i, TRUE) /\ UNCHANGED <<amps, authority, house, guardFaults>>
    BY <1>2 DEF CommitRefused
  <2>2. /\ work' = NoWork /\ requests' \in Requests /\ askedEpoch' = askedEpoch
        /\ guard' \in GuardType /\ saved' \in Durable /\ saveFailed' = saveFailed
    BY <1>1, <2>1, StopTypes
  <2> QED
    BY <1>1, <2>1, <2>2, StoppedIsOK DEF GuardTypeOK
<1>3. CASE CommitFails(i)
  <2>1. Faulty /\ UNCHANGED <<authority, house>>
    BY <1>3 DEF CommitFails
  <2>2. PICK refused \in BOOLEAN : Stops(i, refused)
    BY <1>1, <1>3 DEF CommitFails
  <2>3. amps' \in Amps
    BY <1>1, <1>3, TargetIsACurrent DEF CommitFails, GuardTypeOK
  <2>4. /\ work' = NoWork /\ requests' \in Requests /\ askedEpoch' = askedEpoch
        /\ guard' \in GuardType /\ saved' \in Durable /\ saveFailed' = saveFailed
    BY <2>2, StopTypes
  <2>5. guardFaults' \in 0 .. GuardFaults
    BY <1>1, <2>1, FaultIsTyped DEF GuardTypeOK
  <2> QED
    BY <1>1, <2>1, <2>3, <2>4, <2>5, StoppedIsOK DEF GuardTypeOK
<1> QED
  BY <1>2, <1>3

LEMMA RestartKeeps == GuardInv /\ GuardRestart => GuardInv'
<1> SUFFICES ASSUME GuardInv, GuardRestart PROVE GuardInv'
  OBVIOUS
<1> DEFINE g == Fresh(authority.epoch)
           h == [g EXCEPT !.cut = saved.cut, !.left = saved.left, !.latched = saved.latched,
                          !.restored = saved.cut # NoCut]
<1>1. GuardTypeOK /\ authority.epoch \in 1 .. GuardEpochs /\ saved \in Durable
  BY DEF GuardInv, GuardTypeOK
<1>2. g \in GuardType
  BY <1>1, FreshTypes
<1> HIDE DEF g
<1>3. saved.cut \in 0 .. NoCut /\ saved.left \in 0 .. Restores /\ saved.latched \in BOOLEAN
  BY <1>1 DEF Durable
<1>4. (saved.cut # NoCut) \in BOOLEAN
  OBVIOUS
<1>5. h \in GuardType
  BY <1>2, <1>3, <1>4 DEF GuardType
<1> HIDE DEF h
<1>6. /\ Faulty /\ work' = NoWork /\ saveFailed' = FALSE /\ requests' = Nobody
      /\ askedEpoch' = authority.epoch /\ (guard' = g \/ guard' = h)
      /\ UNCHANGED <<amps, saved, authority, house>>
  BY DEF GuardRestart, g, h
<1>7. FALSE \in BOOLEAN
  OBVIOUS
<1>8. guardFaults' \in 0 .. GuardFaults
  BY <1>1, <1>6, FaultIsTyped DEF GuardTypeOK
<1>9. amps' \in Amps /\ saved' \in Durable /\ requests' \in Requests /\ saveFailed' \in BOOLEAN
      /\ guard' \in GuardType /\ askedEpoch' \in 1 .. GuardEpochs
  BY <1>1, <1>2, <1>5, <1>6, <1>7, RestTypes DEF GuardTypeOK
<1> QED
  BY <1>6, <1>8, <1>9, StoppedIsOK

LEMMA GuardStep == GuardInv /\ [GuardNext]_guardVars => GuardInv'
<1> SUFFICES ASSUME GuardInv, [GuardNext]_guardVars PROVE GuardInv'
  OBVIOUS
<1> USE DEF requested
<1>1. ASSUME UNCHANGED <<amps, requests, askedEpoch, saved, saveFailed, work>>,
             guard' \in GuardType, guard'.cut = guard.cut, house' \in 0 .. SupplyLimit,
             authority' \in [epoch : 1 .. GuardEpochs, mode : {"observe", "protect", "optimise"}],
             guardFaults' = guardFaults
      PROVE  GuardInv'
  <2>1. WorkOK'
    BY <1>1 DEF GuardInv, WorkOK, Covered, Falls
  <2>2. GuardTypeOK' /\ work' \in WorkType
    BY <1>1 DEF GuardInv, GuardTypeOK, GuardType
  <2> QED
    BY <2>1, <2>2 DEF GuardInv
<1>2. /\ guard \in GuardType /\ house \in 0 .. SupplyLimit
      /\ authority \in [epoch : 1 .. GuardEpochs, mode : {"observe", "protect", "optimise"}]
  BY DEF GuardInv, GuardTypeOK, GuardType
<1>3. CASE Report \/ ReportMissing
  BY <1>3, ReportKeeps
<1>4. ASSUME NEW i \in Units, NEW a \in 0 .. MaxA, PlanCurrent(i, a) PROVE GuardInv'
  BY <1>4, PlanKeeps
<1>5. ASSUME NEW i \in Units, CommitCurrent(i) PROVE GuardInv'
  BY <1>5, CommitKeeps
<1>6. ASSUME NEW i \in Units, CommitRefused(i) \/ CommitFails(i) PROVE GuardInv'
  BY <1>6, StopKeeps
<1>7. CASE HouseLoad
  <2>1. house' \in 0 .. SupplyLimit
    BY <1>7, GuardNaturals DEF HouseLoad
  <2> QED
    BY <1>1, <1>2, <1>7, <2>1 DEF HouseLoad
<1>8. ASSUME NEW mode \in {"observe", "protect", "optimise"}, GuardAuthority(mode) PROVE GuardInv'
  <2>1. authority.epoch \in 1 .. GuardEpochs /\ authority.epoch < GuardEpochs
    BY <1>2, <1>8 DEF GuardAuthority
  <2>2. authority.epoch + 1 \in 1 .. GuardEpochs
    BY <2>1, GuardNaturals
  <2>3. authority' \in [epoch : 1 .. GuardEpochs, mode : {"observe", "protect", "optimise"}]
    BY <1>8, <2>2 DEF GuardAuthority
  <2> QED
    BY <1>1, <1>2, <1>8, <2>3 DEF GuardAuthority
<1>9. CASE NewDay
  <2>1. guard' \in GuardType /\ guard'.cut = guard.cut
    BY <1>2, <1>9, GuardNaturals DEF NewDay, GuardType
  <2> QED
    BY <1>1, <1>2, <1>9, <2>1 DEF NewDay
<1>10. CASE GuardRestart
  BY <1>10, RestartKeeps
<1>11. CASE UNCHANGED guardVars
  BY <1>1, <1>2, <1>11 DEF guardVars
<1> QED
  BY <1>3, <1>4, <1>5, <1>6, <1>7, <1>8, <1>9, <1>10, <1>11 DEF GuardNext, GuardCommit

LEMMA GuardStart == GuardInit => GuardInv
<1> SUFFICES ASSUME GuardInit PROVE GuardInv
  OBVIOUS
<1>1. FALSE \in BOOLEAN
  OBVIOUS
<1>2. Fresh(1) \in GuardType
  BY GuardNaturals, FreshTypes
<1>3. saved \in Durable /\ guard \in GuardType
  BY <1>2, DurableTypes DEF GuardInit
<1>4. work.kind = "none" /\ work.todo = {} /\ work \in WorkType
  BY RestTypes DEF GuardInit, NoWork
<1>5. WorkOK
  BY <1>4 DEF WorkOK, Covered, Falls
<1>6. GuardTypeOK
  BY <1>1, <1>3, <1>4, RestTypes, GuardNaturals DEF GuardInit, GuardTypeOK, GuardType, WorkType
<1> QED
  BY <1>4, <1>5, <1>6 DEF GuardInv

LEMMA GuardAlways == GuardSpec => []GuardInv
  BY GuardStart, GuardStep, PTL DEF GuardSpec

\* The guard's state keeps its types.
THEOREM GuardTypeCorrect == GuardSpec => []GuardTypeOK
<1>1. GuardInv => GuardTypeOK
  BY DEF GuardInv
<1> QED
  BY <1>1, GuardAlways, PTL

LEMMA IncreaseKeepsCut ==
  ASSUME GuardInv, [GuardNext]_guardVars, amps' # amps, Total(amps') > Total(amps), Covered
  PROVE  Total(amps') <= guard.cut
<1>1. PICK i \in Units : CommitCurrent(i) \/ CommitFails(i)
  BY DEF GuardNext, GuardCommit, guardVars, Report, ReportMissing, Decide, PlanCurrent,
         CommitRefused, HouseLoad, GuardAuthority, NewDay, GuardRestart
<1>2. Due(i) /\ amps' = [amps EXCEPT ![i] = Target(i)]
  BY <1>1 DEF CommitCurrent, CommitFails
<1>3. /\ amps \in Amps /\ amps' \in Amps /\ work.targets \in Amps /\ guard.cut \in 0 .. NoCut
      /\ IsFiniteSet(Units) /\ MaxA \in Nat /\ work.kind # "none"
  BY <1>2, TargetIsACurrent, GuardAssumption DEF GuardInv, GuardTypeOK, Covered
<1>4. Total(amps) \in Nat /\ Total(amps') \in Nat /\ Total(work.targets) \in Nat
  BY <1>3, TotalIsNatural
<1>5. /\ \A j \in Units : amps[j] \in Int /\ work.targets[j] \in Int
      /\ Target(i) \in Int /\ Target(i) <= work.targets[i]
  BY <1>3, TargetIsACurrent, GuardNaturals DEF Amps
\* A write that does not raise this inverter does not raise the total.
<1>6. Target(i) > amps[i]
  <2>1. SUFFICES ASSUME Target(i) <= amps[i] PROVE FALSE
    BY <1>5
  <2>2. ASSUME NEW j \in Units PROVE amps'[j] <= amps[j]
    <3>1. CASE j = i
      BY <1>2, <1>3, <2>1, <3>1 DEF Amps
    <3>2. CASE j # i
      <4>1. amps'[j] = amps[j]
        BY <1>2, <1>3, <3>2 DEF Amps
      <4> QED
        BY <4>1, <1>5
    <3> QED
      BY <3>1, <3>2
  <2>3. Total(amps') <= Total(amps)
    BY <1>3, <2>2, TotalMonotone DEF Amps
  <2> QED
    BY <1>4, <2>3
\* It is no reduction, so none is left, and every inverter stands at or below its target.
<1>7. ~Falls(i)
  <2>1. Falls(i) => work.targets[i] < amps[i]
    BY DEF GuardInv, WorkOK
  <2> QED
    BY <1>5, <1>6, <2>1
<1>8. ASSUME NEW j \in Units PROVE amps'[j] <= work.targets[j]
  <2>1. CASE j = i
    BY <1>2, <1>3, <1>5, <2>1 DEF Amps
  <2>2. CASE j # i
    <3>1. amps'[j] = amps[j]
      BY <1>2, <1>3, <2>2 DEF Amps
    <3>2. ~Falls(j)
      BY <1>2, <1>7 DEF Due, Falls
    <3>3. work.kind = "guard" \/ j \in work.todo \union DOMAIN work.before
      BY DEF Covered
    <3>4. amps[j] <= work.targets[j]
      BY <1>3, <3>2, <3>3 DEF GuardInv, WorkOK
    <3> QED
      BY <3>1, <3>4
  <2> QED
    BY <2>1, <2>2
<1>9. Total(amps') <= Total(work.targets)
  BY <1>3, <1>8, TotalMonotone DEF Amps
<1>10. Total(work.targets) <= guard.cut
  BY DEF GuardInv, WorkOK
<1>11. guard.cut \in Int
  BY <1>3, GuardNaturals
<1> QED
  BY <1>4, <1>9, <1>10, <1>11

\* Reductions come first, and where every inverter's current is under the guard's or the plan's
\* control, no write lifts the connection's total above the ceiling, whatever the number of
\* inverters and the requests (_async_commit, clamp_intent).
THEOREM CutKeptAlways == GuardSpec => CutKept
<1>1. GuardInv /\ [GuardNext]_guardVars =>
        [amps' # amps /\ Total(amps') > Total(amps)
         /\ (work.kind = "guard" \/ work.todo \union DOMAIN work.before = Units)
           => Total(amps') <= guard.cut]_guardVars
  <2> SUFFICES ASSUME GuardInv, [GuardNext]_guardVars, amps' # amps, Total(amps') > Total(amps),
                      work.kind = "guard" \/ work.todo \union DOMAIN work.before = Units
               PROVE  Total(amps') <= guard.cut
    OBVIOUS
  <2>1. Covered
    <3>1. PICK i \in Units : CommitCurrent(i) \/ CommitFails(i)
      BY DEF GuardNext, GuardCommit, guardVars, Report, ReportMissing, Decide, PlanCurrent,
             CommitRefused, HouseLoad, GuardAuthority, NewDay, GuardRestart
    <3>2. i \in work.todo
      BY <3>1 DEF CommitCurrent, CommitFails, Due
    <3> QED
      BY <3>2 DEF Covered, GuardInv, WorkOK, GuardTypeOK
  <2> QED
    BY <2>1, IncreaseKeepsCut
<1> QED
  BY <1>1, GuardAlways, PTL DEF GuardSpec, CutKept

-----------------------------------------------------------------------------
(* The Solcast quota *)

\* A count's fields.
LEMMA QuotaFields ==
  ASSUME NEW q \in Quota
  PROVE  /\ q.day \in 1 .. Days /\ q.used \in 0 .. Spent /\ q.until \in 0 .. Days + 1
         /\ q.pending \in BOOLEAN /\ q.released \in 0 .. Days
BY DEF Quota

\* Who may hold the gate's lock, the polls there are, and what a file may be.
Holders == [who : {"none", "poll", "flow"}, pc : {"idle", "recovering", "saving", "sent"}]
Polls   == [kind : Asking \union {"none", "release"}, site : 0 .. Sites, retries : 0 .. 2]
Files   == Quota \union {NoFile, Unreadable}

LEMMA QuotaRange ==
  /\ Days \in Nat /\ Calls \in Nat /\ Sites \in Nat /\ QuotaFaults \in Nat /\ Spent = Calls + 1
  /\ 0 \in 0 .. Spent /\ Spent \in 0 .. Spent /\ 0 \in 0 .. Days + 1 /\ 0 \in 0 .. Days
  /\ 1 \in 1 .. Days /\ QuotaFaults \in 0 .. QuotaFaults
<1>1. Days \in Nat /\ Days >= 1 /\ Calls \in Nat /\ Sites \in Nat /\ QuotaFaults \in Nat
  BY QuotaAssumption
<1> QED
  BY <1>1 DEF Spent

\* The gate and the poll without anybody in either, and a poll that has only its kind.
LEMMA Nothing ==
  /\ FreeGate \in Holders /\ FreeGate.who = "none" /\ FreeGate.pc = "idle"
  /\ NoPoll \in Polls /\ NoPoll.kind = "none"
<1>1. 0 \in 0 .. Sites /\ 0 \in 0 .. 2
  BY QuotaRange
<1> QED
  BY <1>1 DEF FreeGate, NoPoll, Holders, Polls

LEMMA PollOfKind ==
  ASSUME NEW kind \in Asking \union {"none", "release"}
  PROVE  [NoPoll EXCEPT !.kind = kind] \in Polls /\ [NoPoll EXCEPT !.kind = kind].kind = kind
<1>1. 0 \in 0 .. Sites /\ 0 \in 0 .. 2
  BY QuotaRange
<1> QED
  BY <1>1 DEF NoPoll, Polls

\* A record bounds the calls S of its day, knows of no later one but those in L, and releases
\* nothing but a day in F.
Backed(q, n, S, L, F) ==
    /\ \A d \in (1 .. Days) \ L : /\ d > q.day => S[d] = 0
                                  /\ d = q.day => S[d] + n <= q.used
    /\ q.released \in F \union {0}

\* The days whose held-back calls anybody may have.
Freed    == turns \union strays
Saving   == holder.pc = "saving"
Reserved == holder.who = "poll" /\ poll.kind = "reserved"

\* What was sent is within the account.
CountOK ==
    /\ today \in 1 .. Days /\ sent \in [1 .. Days -> Nat] /\ marks \in Nat
    /\ lost \subseteq 1 .. Days /\ QuotaHeld
\* Memory, as long as it is used, and the file account for it, n calls in hand.
StoreOK(n) ==
    /\ gate \in Quota /\ file \in Files /\ gateFailed \in BOOLEAN
    /\ quotaFaults \in 0 .. QuotaFaults
    /\ gateFailed \/ Backed(gate, n, sent, lost, Freed)
    /\ file \in Quota => Backed(file, 0, sent, lost, Freed)
\* A reserved poll runs on its own day, or on one it strayed into.
PollOK ==
    /\ poll \in Polls /\ status \in Statuses
    /\ tried \in 0 .. Days /\ turns \subseteq 0 .. Days /\ strays \subseteq 1 .. Days
    /\ poll.kind \in {"reserved", "release"} => today = tried \/ today \in strays
    /\ poll.kind = "release" => tried \in turns
\* A call that is charged but not sent leaves what is held back for the reserved poll.
HolderOK ==
    /\ holder \in Holders /\ (gateFailed => holder = FreeGate)
    /\ holder.who = "poll" => poll.kind \in Asking
    /\ Saving => /\ holder.who # "none" /\ gate.used <= Calls
                 /\ ~Reserved /\ gate.day \notin Freed => gate.used + Sites <= Calls
QuotaInv == CountOK /\ StoreOK(IF Saving THEN 1 ELSE 0) /\ PollOK /\ HolderOK

LEMMA QuotaInvTyped == QuotaInv => QuotaTypeOK
BY DEF QuotaInv, CountOK, StoreOK, PollOK, HolderOK, QuotaTypeOK, Files, Holders, Polls

\* Forgetting calls and freeing days take nothing from a record.
LEMMA BackedGrows ==
  ASSUME NEW q, NEW n, NEW S, NEW L, NEW F, Backed(q, n, S, L, F),
         NEW M, L \subseteq M, NEW G, F \subseteq G
  PROVE  Backed(q, n, S, M, G)
BY DEF Backed

\* Nor does dropping a charge that was not sent.
LEMMA BackedDropped ==
  ASSUME CountOK, NEW q \in Quota, NEW L, NEW F, Backed(q, 1, sent, L, F)
  PROVE  Backed(q, 0, sent, L, F)
<1>1. \A d \in 1 .. Days : sent[d] \in Nat
  BY DEF CountOK
<1>2. q.used \in Int
  BY QuotaFields, QuotaRange
<1> QED
  BY <1>1, <1>2 DEF Backed

LEMMA QuotaFaultTyped ==
  ASSUME quotaFaults \in 0 .. QuotaFaults, QuotaFault
  PROVE  quotaFaults' \in 0 .. QuotaFaults
BY QuotaRange DEF QuotaFault

\* Nothing sent is forgotten, and no day is taken back.
Onward == UNCHANGED <<sent, lost>> /\ Freed \subseteq Freed'

LEMMA StoreStays ==
  ASSUME NEW n, StoreOK(n), UNCHANGED store, Onward
  PROVE  StoreOK(n)'
<1>1. /\ gate' = gate /\ file' = file /\ gateFailed' = gateFailed /\ quotaFaults' = quotaFaults
      /\ sent' = sent /\ lost' = lost /\ lost \subseteq lost' /\ Freed \subseteq Freed'
  BY DEF store, Onward
<1>2. ASSUME NEW q, NEW k, Backed(q, k, sent, lost, Freed)
      PROVE  Backed(q, k, sent', lost', Freed')
  BY <1>1, <1>2, BackedGrows
<1> QED
  BY <1>1, <1>2 DEF StoreOK

LEMMA SavedStore ==
  ASSUME NEW n, StoreOK(n), NEW g \in Quota, Backed(g, 0, sent, lost, Freed), SaveQuota(g), Onward
  PROVE  StoreOK(0)'
<1>1. /\ gate' = g /\ file' \in {file, g} /\ gateFailed' \in BOOLEAN
      /\ quotaFaults' \in 0 .. QuotaFaults
      /\ sent' = sent /\ lost' = lost /\ lost \subseteq lost' /\ Freed \subseteq Freed'
  BY QuotaFaultTyped DEF SaveQuota, StoreOK, Onward
<1>2. ASSUME NEW q, Backed(q, 0, sent, lost, Freed)
      PROVE  Backed(q, 0, sent', lost', Freed')
  BY <1>1, <1>2, BackedGrows
<1>3. file' \in Files /\ (file' \in Quota => Backed(file', 0, sent, lost, Freed))
  BY <1>1 DEF StoreOK, Files
<1> QED
  BY <1>1, <1>2, <1>3 DEF StoreOK

\* Whoever has no place in the gate keeps it.
LEMMA FreeHolder == holder' = FreeGate => HolderOK' /\ ~Saving'
BY Nothing DEF HolderOK, Saving

LEMMA FinishKeeps ==
  ASSUME PollOK, NEW outcome, Finish(outcome), UNCHANGED <<today, tried, strays>>
  PROVE  PollOK' /\ Freed \subseteq Freed'
<1>1. status' \in Statuses
  BY DEF Finish, Statuses
<1>2. CASE poll.kind = "reserved"
  <2>1. poll' = [NoPoll EXCEPT !.kind = "release"] /\ turns' = turns \union {tried}
    BY <1>2 DEF Finish
  <2>2. poll' \in Polls /\ poll'.kind = "release"
    BY <2>1, PollOfKind
  <2> QED
    BY <1>1, <1>2, <2>1, <2>2 DEF PollOK, Freed
<1>3. CASE poll.kind # "reserved"
  BY <1>1, <1>3, Nothing DEF Finish, PollOK, Freed
<1> QED
  BY <1>2, <1>3

LEMMA DeclinedKeeps ==
  ASSUME PollOK, NEW who, Declined(who), UNCHANGED <<today, tried, strays>>
  PROVE  PollOK' /\ Freed \subseteq Freed' /\ holder' = FreeGate
<1>1. CASE who = "flow"
  BY <1>1 DEF Declined, PollOK, Freed
<1>2. CASE who # "flow"
  BY <1>2, FinishKeeps DEF Declined
<1> QED
  BY <1>1, <1>2 DEF Declined

\* A count brought to the present day.
LEMMA RolledBacked ==
  ASSUME CountOK, gate \in Quota, Backed(gate, 0, sent, lost, Freed)
  PROVE  /\ Rolled(gate) \in Quota /\ Rolled(gate).day >= today
         /\ Rolled(gate).released = gate.released
         /\ Backed(Rolled(gate), 0, sent, lost, Freed)
<1>1. today \in 1 .. Days /\ (\A d \in 1 .. Days : sent[d] \in Nat) /\ gate.day \in 1 .. Days
  BY QuotaFields DEF CountOK
<1>2. CASE gate.day < today
  <2>1. PICK r : r = [gate EXCEPT !.day = today, !.used = 0, !.until = 0]
    OBVIOUS
  <2>2. Rolled(gate) = r
    BY <1>2, <2>1 DEF Rolled
  <2>3. r \in Quota /\ r.day = today /\ r.used = 0 /\ r.released = gate.released
    BY <1>1, <2>1, QuotaRange DEF Quota
  <2>4. Backed(r, 0, sent, lost, Freed)
    BY <1>1, <1>2, <2>3 DEF Backed
  <2> QED
    BY <1>1, <2>2, <2>3, <2>4
<1>3. CASE ~(gate.day < today)
  BY <1>1, <1>3 DEF Rolled
<1> QED
  BY <1>2, <1>3

\* A record is left in memory, and no save is tried.
LEMMA RecordedStore ==
  ASSUME StoreOK(0), NEW g \in Quota, Backed(g, 0, sent, lost, Freed), gate' = g, ~gateFailed,
         UNCHANGED <<file, gateFailed, quotaFaults>>, Onward
  PROVE  StoreOK(0)'
<1>1. sent' = sent /\ lost' = lost /\ lost \subseteq lost' /\ Freed \subseteq Freed'
  BY DEF Onward
<1>2. ASSUME NEW q, Backed(q, 0, sent, lost, Freed)
      PROVE  Backed(q, 0, sent', lost', Freed')
  BY <1>1, <1>2, BackedGrows
<1> QED
  BY <1>2 DEF StoreOK

\* What Charge does while the gate is open.
Charged(who, reserved) ==
    \/ Refuses(Rolled(gate), reserved) /\ gate' = Rolled(gate) /\ Declined(who)
    \/ /\ ~Refuses(Rolled(gate), reserved) /\ gate' = [Rolled(gate) EXCEPT !.used = @ + 1]
       /\ holder' = [who |-> who, pc |-> "saving"] /\ UNCHANGED <<poll, status, turns>>

\* A call is declined, or charged to a day that keeps what it has to.
LEMMA ChargeKeeps ==
  ASSUME QuotaInv, NEW who \in {"poll", "flow"},
         StoreOK(0), who = "poll" => poll.kind \in Asking,
         Charge(who, who = "poll" /\ poll.kind = "reserved"),
         UNCHANGED <<today, tried, sent, marks, strays, lost>>
  PROVE  QuotaInv'
<1> DEFINE reserved == who = "poll" /\ poll.kind = "reserved"
<1>1. CountOK /\ PollOK /\ today \in 1 .. Days
  BY DEF QuotaInv, CountOK
<1>2. CountOK'
  BY <1>1 DEF CountOK, QuotaHeld
<1>3. UNCHANGED <<file, gateFailed, quotaFaults>>
  BY DEF Charge
<1>4. CASE gateFailed /\ Declined(who) /\ UNCHANGED gate
  <2>1. PollOK' /\ Freed \subseteq Freed' /\ holder' = FreeGate
    BY <1>1, <1>4, DeclinedKeeps
  <2>2. StoreOK(0)'
    BY <1>3, <1>4, <2>1, StoreStays DEF store, Onward
  <2> QED
    BY <1>2, <2>1, <2>2, FreeHolder DEF QuotaInv
<1>5. CASE ~gateFailed /\ Charged(who, reserved)
  <2>1. gate \in Quota /\ Backed(gate, 0, sent, lost, Freed)
    BY <1>5 DEF StoreOK
  <2>2. PICK g : g = Rolled(gate)
    OBVIOUS
  <2>3. g \in Quota /\ g.day >= today /\ g.released = gate.released
        /\ Backed(g, 0, sent, lost, Freed)
    BY <1>1, <2>1, <2>2, RolledBacked
  <2>4. CASE Refuses(g, reserved) /\ gate' = g /\ Declined(who)
    <3>1. PollOK' /\ Freed \subseteq Freed' /\ holder' = FreeGate
      BY <1>1, <2>4, DeclinedKeeps
    <3>2. StoreOK(0)'
      BY <1>3, <1>5, <2>3, <2>4, <3>1, RecordedStore DEF Onward
    <3> QED
      BY <1>2, <3>1, <3>2, FreeHolder DEF QuotaInv
  <2>5. CASE /\ ~Refuses(g, reserved) /\ gate' = [g EXCEPT !.used = @ + 1]
             /\ holder' = [who |-> who, pc |-> "saving"] /\ UNCHANGED <<poll, status, turns>>
    <3>1. ~(g.day > today) /\ ~(g.used >= Calls) /\ (reserved \/ ~HeldBack(g))
      BY <2>5 DEF Refuses
    <3>2. g.day = today /\ g.used \in Int /\ g.used < Calls /\ g.used + 1 \in 0 .. Spent
      BY <1>1, <2>3, <3>1, QuotaFields, QuotaRange
    <3>3. gate' \in Quota /\ gate'.day = today /\ gate'.used = g.used + 1
          /\ gate'.released = g.released
      BY <2>3, <2>5, <3>2 DEF Quota
    <3>4. Freed' = Freed /\ PollOK'
      BY <1>1, <2>5 DEF Freed, PollOK
    <3>5. Backed(gate', 1, sent, lost, Freed)
      <4>1. \A d \in 1 .. Days : sent[d] \in Nat
        BY <1>1 DEF CountOK
      <4> QED
        BY <2>3, <3>2, <3>3, <4>1 DEF Backed
    <3>6. StoreOK(1)'
      BY <1>3, <3>3, <3>4, <3>5 DEF StoreOK
    <3>7. Saving' /\ holder'.who = who /\ holder' \in Holders /\ (Reserved' <=> reserved)
      BY <2>5 DEF Saving, Reserved, Holders
    <3>8. ~reserved /\ today \notin Freed => gate'.used + Sites <= Calls
      <4>1. g.released \in Freed \union {0}
        BY <2>3 DEF Backed
      <4> QED
        BY <1>1, <3>1, <3>2, <3>3, <4>1, QuotaRange DEF HeldBack
    <3>9. HolderOK'
      BY <1>3, <1>5, <2>5, <3>2, <3>3, <3>4, <3>7, <3>8, QuotaRange DEF HolderOK
    <3> QED
      BY <1>2, <3>4, <3>6, <3>7, <3>9 DEF QuotaInv
  <2> QED
    BY <1>5, <2>2, <2>4, <2>5 DEF Charged
<1> QED
  BY <1>4, <1>5 DEF Charge, Charged

\* A charged call is sent, and keeps what is promised of the day; or the next day is charged.
LEMMA DispatchKeeps ==
  ASSUME QuotaInv, Dispatch
  PROVE  /\ QuotaInv'
         /\ ~Reserved /\ today \notin Freed \union lost /\ sent' # sent
              => sent'[today] + Sites <= Calls
<1>1. CountOK /\ StoreOK(1) /\ PollOK /\ HolderOK /\ Saving /\ holder # FreeGate
      /\ UNCHANGED <<today, tried, marks, strays, lost>>
  BY Nothing DEF QuotaInv, Dispatch, Saving
<1>2. ~gateFailed /\ gate \in Quota /\ Backed(gate, 1, sent, lost, Freed)
  BY <1>1 DEF HolderOK, StoreOK
<1>3. today \in 1 .. Days /\ sent \in [1 .. Days -> Nat]
  BY <1>1 DEF CountOK
<1>4. CASE gate.day = today
  <2>1. /\ file' = gate /\ sent' = [sent EXCEPT ![today] = @ + 1]
        /\ holder' = [holder EXCEPT !.pc = "sent"]
        /\ UNCHANGED <<gate, gateFailed, quotaFaults, poll, status, turns>>
    BY <1>4 DEF Dispatch
  <2>2. sent' \in [1 .. Days -> Nat] /\ sent'[today] = sent[today] + 1
        /\ (\A d \in 1 .. Days : d # today => sent'[d] = sent[d])
    BY <1>3, <2>1
  <2>3. today \notin lost => sent[today] + 1 <= gate.used
    BY <1>2, <1>3, <1>4 DEF Backed
  <2>4. gate.used \in Int /\ gate.used <= Calls /\ sent[today] \in Int
        /\ (~Reserved /\ today \notin Freed => gate.used + Sites <= Calls)
    BY <1>1, <1>2, <1>3, <1>4, QuotaFields, QuotaRange DEF HolderOK
  <2>5. QuotaHeld'
    BY <1>1, <2>2, <2>3, <2>4, QuotaRange DEF QuotaHeld, CountOK
  <2>6. CountOK'
    BY <1>1, <2>2, <2>5 DEF CountOK
  <2>7. Backed(gate, 0, sent', lost, Freed)
    BY <1>2, <1>3, <1>4, <2>2, <2>3, <2>4 DEF Backed
  <2>8. Freed' = Freed /\ PollOK'
    BY <1>1, <2>1 DEF Freed, PollOK
  <2>9. StoreOK(0)'
    BY <1>1, <1>2, <2>1, <2>7, <2>8 DEF StoreOK, Files
  <2>10. holder' \in Holders /\ holder'.who = holder.who /\ ~Saving'
    BY <1>1, <2>1 DEF HolderOK, Holders, Saving
  <2>11. HolderOK'
    BY <1>1, <1>2, <2>1, <2>10 DEF HolderOK
  <2>12. ~Reserved /\ today \notin Freed \union lost => sent'[today] + Sites <= Calls
    BY <2>2, <2>3, <2>4, QuotaRange
  <2> QED
    BY <2>6, <2>8, <2>9, <2>10, <2>11, <2>12 DEF QuotaInv
<1>5. CASE gate.day # today
  <2>1. /\ Charge(holder.who, holder.who = "poll" /\ poll.kind = "reserved")
        /\ UNCHANGED sent
    BY <1>5 DEF Dispatch
  <2>2. holder.who \in {"poll", "flow"} /\ (holder.who = "poll" => poll.kind \in Asking)
    BY <1>1 DEF HolderOK, Holders
  <2>3. StoreOK(0)
    BY <1>1, <1>2, BackedDropped DEF StoreOK
  <2> QED
    BY <1>1, <2>1, <2>2, <2>3, ChargeKeeps
<1> QED
  BY <1>4, <1>5

\* The save of a charge fails, and the call is not sent.
LEMMA ChargeFailsKeeps == QuotaInv /\ ChargeFails => QuotaInv'
<1> SUFFICES ASSUME QuotaInv, ChargeFails PROVE QuotaInv'
  OBVIOUS
<1>1. /\ file' \in {file, gate} /\ gateFailed' = TRUE /\ Declined(holder.who) /\ QuotaFault
      /\ UNCHANGED <<today, gate, tried, sent, marks, strays, lost>>
  BY DEF ChargeFails
<1>2. CountOK /\ StoreOK(1) /\ PollOK /\ HolderOK /\ holder # FreeGate
  BY Nothing DEF QuotaInv, ChargeFails, Saving
<1>3. gate \in Quota /\ Backed(gate, 0, sent, lost, Freed)
  BY <1>2, BackedDropped DEF HolderOK, StoreOK
<1>4. PollOK' /\ Freed \subseteq Freed' /\ holder' = FreeGate
  BY <1>1, <1>2, DeclinedKeeps
<1>5. CountOK'
  BY <1>1, <1>2 DEF CountOK, QuotaHeld
<1>6. file' \in Files /\ (file' \in Quota => Backed(file', 0, sent, lost, Freed))
  BY <1>1, <1>2, <1>3 DEF StoreOK, Files
<1>7. file' \in Quota => Backed(file', 0, sent', lost', Freed')
  <2>1. lost \subseteq lost' /\ sent' = sent
    BY <1>1
  <2> QED
    BY <1>4, <1>6, <2>1, BackedGrows
<1>8. quotaFaults' \in 0 .. QuotaFaults
  BY <1>1, <1>2, QuotaFaultTyped DEF StoreOK
<1>9. StoreOK(0)'
  BY <1>1, <1>3, <1>6, <1>7, <1>8 DEF StoreOK
<1> QED
  BY <1>4, <1>5, <1>9, FreeHolder DEF QuotaInv

\* Steps that wait for the gate and leave it free, having saved a record or nothing.
LEMMA SavesKeep ==
  ASSUME QuotaInv, ~Saving, holder' = FreeGate, PollOK', Freed \subseteq Freed',
         UNCHANGED <<today, sent, lost>>, marks' \in Nat,
         \/ UNCHANGED store
         \/ \E g \in Quota : Backed(g, 0, sent, lost, Freed) /\ SaveQuota(g)
  PROVE  QuotaInv'
<1>1. CountOK /\ StoreOK(0)
  BY DEF QuotaInv
<1>2. CountOK'
  BY <1>1 DEF CountOK, QuotaHeld
<1>3. StoreOK(0)'
  BY <1>1, StoreStays, SavedStore DEF Onward
<1> QED
  BY <1>2, <1>3, FreeHolder DEF QuotaInv

\* A record keeps what it accounts for when its other fields change.
LEMMA SameCount ==
  ASSUME NEW q, NEW r, NEW S, NEW L, NEW F, Backed(q, 0, S, L, F),
         r.day = q.day, r.used = q.used, r.released \in F \union {0}
  PROVE  Backed(r, 0, S, L, F)
BY DEF Backed

\* The account is exhausted until tomorrow.
LEMMA ExhaustSaves ==
  ASSUME CountOK, gate \in Quota, Backed(gate, 0, sent, lost, Freed), Exhaust
  PROVE  \E g \in Quota : Backed(g, 0, sent, lost, Freed) /\ SaveQuota(g)
<1>1. PICK r : r = IF gate.day < today THEN [gate EXCEPT !.day = today, !.used = 0] ELSE gate
  OBVIOUS
<1>2. today \in 1 .. Days /\ gate.day \in 1 .. Days /\ (\A d \in 1 .. Days : sent[d] \in Nat)
  BY QuotaFields DEF CountOK
<1>3. r \in Quota /\ Backed(r, 0, sent, lost, Freed)
  <2>1. CASE gate.day < today
    <3>1. r = [gate EXCEPT !.day = today, !.used = 0]
      BY <1>1, <2>1
    <3>2. r \in Quota /\ r.day = today /\ r.used = 0 /\ r.released = gate.released
      BY <1>2, <3>1, QuotaRange DEF Quota
    <3> QED
      BY <1>2, <2>1, <3>2 DEF Backed
  <2>2. CASE ~(gate.day < today)
    BY <1>1, <2>2
  <2> QED
    BY <2>1, <2>2
<1>4. PICK g : g = [r EXCEPT !.until = today + 1]
  OBVIOUS
<1>5. today + 1 \in 0 .. Days + 1
  BY <1>2, QuotaRange
<1>6. g \in Quota /\ g.day = r.day /\ g.used = r.used /\ g.released = r.released
  BY <1>3, <1>4, <1>5 DEF Quota
<1>7. r.released \in Freed \union {0}
  BY <1>3 DEF Backed
<1>8. Backed(g, 0, sent, lost, Freed)
  BY <1>3, <1>6, <1>7, SameCount
<1>9. SaveQuota(g)
  BY <1>1, <1>4 DEF Exhaust
<1> QED
  BY <1>6, <1>8, <1>9

\* An answer changes nothing that was counted, and at most says that the day is over.
LEMMA AnswersKeep ==
  ASSUME QuotaInv, NEW outcome, PollAnswered(outcome) \/ FlowAnswered(outcome)
  PROVE  QuotaInv'
<1>1. CountOK /\ StoreOK(0) /\ PollOK /\ HolderOK /\ ~Saving /\ holder # FreeGate
      /\ holder' = FreeGate /\ UNCHANGED <<today, tried, sent, strays, lost>>
  BY Nothing DEF QuotaInv, PollAnswered, FlowAnswered, Saving, history
<1>2. gate \in Quota /\ Backed(gate, 0, sent, lost, Freed)
  BY <1>1 DEF HolderOK, StoreOK
<1>3. poll \in Polls /\ poll.kind \in Asking \union {"none", "release"} /\ marks \in Nat
  BY <1>1 DEF PollOK, Polls, CountOK
<1>4. CASE PollAnswered(outcome)
  <2>1. UNCHANGED store \/ \E g \in Quota : Backed(g, 0, sent, lost, Freed) /\ SaveQuota(g)
    BY <1>1, <1>2, <1>4, ExhaustSaves DEF PollAnswered
  <2>2. PollOK' /\ Freed \subseteq Freed'
    <3>1. CASE Finish(outcome)
      BY <1>1, <3>1, FinishKeeps
    <3>2. CASE /\ outcome = "busy" /\ poll.retries < 2
               /\ poll' = [poll EXCEPT !.retries = @ + 1] /\ UNCHANGED <<status, turns>>
      <4>1. poll' \in Polls /\ poll'.kind = poll.kind
        BY <1>3, <3>2 DEF Polls
      <4> QED
        BY <1>1, <3>2, <4>1 DEF PollOK, Freed
    <3>3. CASE /\ outcome = "ok" /\ poll.site + 1 < Sites
               /\ poll' = [poll EXCEPT !.site = @ + 1] /\ UNCHANGED <<status, turns>>
      <4>1. poll' \in Polls /\ poll'.kind = poll.kind
        BY <1>3, <3>3, QuotaRange DEF Polls
      <4> QED
        BY <1>1, <3>3, <4>1 DEF PollOK, Freed
    <3> QED
      BY <1>4, <3>1, <3>2, <3>3 DEF PollAnswered
  <2>3. marks' \in Nat
    BY <1>3, <1>4 DEF PollAnswered
  <2> QED
    BY <1>1, <2>1, <2>2, <2>3, SavesKeep
<1>5. CASE FlowAnswered(outcome)
  <2>1. UNCHANGED store \/ \E g \in Quota : Backed(g, 0, sent, lost, Freed) /\ SaveQuota(g)
    <3>1. CASE SaveQuota([gate EXCEPT !.pending = TRUE])
      <4>1. PICK g : g = [gate EXCEPT !.pending = TRUE]
        OBVIOUS
      <4>2. g \in Quota /\ g.day = gate.day /\ g.used = gate.used /\ g.released = gate.released
        BY <1>2, <4>1 DEF Quota
      <4>3. gate.released \in Freed \union {0}
        BY <1>2 DEF Backed
      <4>4. Backed(g, 0, sent, lost, Freed)
        BY <1>2, <4>2, <4>3, SameCount
      <4> QED
        BY <3>1, <4>1, <4>2, <4>4
    <3>2. CASE Exhaust
      BY <1>1, <1>2, <3>2, ExhaustSaves
    <3> QED
      BY <1>5, <3>1, <3>2 DEF FlowAnswered
  <2>2. poll' \in {poll, NoPoll} /\ status' \in Statuses /\ UNCHANGED turns /\ marks' \in Nat
    BY <1>1, <1>3, <1>5 DEF FlowAnswered, PollOK, Statuses, history
  <2>3. PollOK' /\ Freed \subseteq Freed'
    BY <1>1, <2>2, Nothing DEF PollOK, Freed
  <2> QED
    BY <1>1, <2>1, <2>2, <2>3, SavesKeep
<1> QED
  BY <1>4, <1>5

\* Polls start, ask and release their day; flows ask.
LEMMA PollsKeep ==
  ASSUME QuotaInv,
         DayPoll \/ ReservedPoll \/ ReservedPasses \/ FirstFetch \/ PollAsks \/ ReleaseDay
           \/ FlowAsks
  PROVE  QuotaInv'
<1>1. CountOK /\ StoreOK(IF Saving THEN 1 ELSE 0) /\ PollOK /\ HolderOK /\ today \in 1 .. Days
      /\ gate \in Quota /\ today \in 0 .. Days
  BY QuotaRange DEF QuotaInv, CountOK, StoreOK
<1>2. ASSUME UNCHANGED <<today, store, holder, sent, marks, lost>>, PollOK', Freed \subseteq Freed',
             holder.who # "poll" \/ UNCHANGED poll
      PROVE  QuotaInv'
  <2>1. CountOK'
    BY <1>1, <1>2 DEF CountOK, QuotaHeld
  <2>2. StoreOK(IF Saving THEN 1 ELSE 0)'
    <3>1. Saving' = Saving
      BY <1>2 DEF Saving
    <3>2. CASE Saving
      BY <1>1, <1>2, <3>1, <3>2, StoreStays DEF Onward
    <3>3. CASE ~Saving
      BY <1>1, <1>2, <3>1, <3>3, StoreStays DEF Onward
    <3> QED
      BY <3>2, <3>3
  <2>3. HolderOK'
    <3>1. (Reserved' <=> Reserved) /\ (Saving' <=> Saving)
      BY <1>2 DEF Reserved, Saving
    <3> QED
      BY <1>1, <1>2, <3>1 DEF HolderOK, store
  <2> QED
    BY <1>2, <2>1, <2>2, <2>3 DEF QuotaInv
<1>3. ASSUME NEW kind \in Asking, Starts(kind)
      PROVE  /\ poll' \in Polls /\ poll'.kind = kind /\ holder.who # "poll"
             /\ UNCHANGED <<today, holder, status, sent, marks, turns, lost>>
  <2>1. poll = NoPoll /\ poll' = [NoPoll EXCEPT !.kind = kind]
        /\ UNCHANGED <<today, holder, status, sent, marks, turns, lost>>
    BY <1>3 DEF Starts
  <2>2. "none" \notin Asking
    BY DEF Asking
  <2> QED
    BY <1>1, <2>1, <2>2, PollOfKind, Nothing DEF HolderOK
<1>4. CASE DayPoll
  <2>1. "day" \in Asking
    BY DEF Asking
  <2>2. Starts("day") /\ UNCHANGED <<store, tried, strays>>
    BY <1>4 DEF DayPoll
  <2>3. PollOK' /\ Freed \subseteq Freed'
    BY <1>1, <1>3, <2>1, <2>2 DEF PollOK, Freed
  <2> QED
    BY <1>2, <1>3, <2>1, <2>2, <2>3
<1>5. CASE ReservedPoll
  <2>1. "reserved" \in Asking
    BY DEF Asking
  <2>2. Starts("reserved") /\ UNCHANGED store
        /\ \/ tried' = today /\ UNCHANGED strays
           \/ strays' = strays \union ({today} \ {tried}) /\ UNCHANGED tried
    BY <1>5 DEF ReservedPoll
  <2>3. /\ poll' \in Polls /\ poll'.kind = "reserved" /\ holder.who # "poll"
        /\ UNCHANGED <<today, holder, status, sent, marks, turns, lost>>
    BY <1>3, <2>1, <2>2
  <2>4. PollOK' /\ Freed \subseteq Freed'
    BY <1>1, <2>2, <2>3 DEF PollOK, Freed
  <2> QED
    BY <1>2, <2>2, <2>3, <2>4
<1>6. CASE ReservedPasses
  <2>1. /\ poll.kind \notin {"reserved", "release"} /\ tried' = today
        /\ UNCHANGED <<today, store, holder, poll, status, sent, marks, turns, strays, lost>>
    BY <1>6 DEF ReservedPasses, history
  <2>2. PollOK' /\ Freed \subseteq Freed'
    BY <1>1, <2>1 DEF PollOK, Freed
  <2> QED
    BY <1>2, <2>1, <2>2
<1>7. CASE FirstFetch
  <2>1. ~gateFailed /\ holder = FreeGate /\ SaveQuota(FirstTaken(gate))
        /\ UNCHANGED <<tried, strays>>
    BY <1>7 DEF FirstFetch
  <2>2. PICK g : g = FirstTaken(gate)
    OBVIOUS
  <2>3. ~Saving /\ Backed(gate, 0, sent, lost, Freed)
    BY <1>1, <2>1, Nothing DEF Saving, StoreOK
  <2>4. g \in Quota /\ g.day = gate.day /\ g.used = gate.used /\ g.released = gate.released
    BY <1>1, <2>2 DEF FirstTaken, Quota
  <2>5. gate.released \in Freed \union {0}
    BY <2>3 DEF Backed
  <2>6. Backed(g, 0, sent, lost, Freed)
    BY <2>3, <2>4, <2>5, SameCount
  <2>7. "first" \in Asking
    BY DEF Asking
  <2>8. UNCHANGED <<today, holder, status, sent, marks, turns, lost>>
        /\ (UNCHANGED poll \/ (poll' \in Polls /\ poll'.kind = "first"))
    BY <1>3, <1>7, <2>7 DEF FirstFetch
  <2>9. PollOK' /\ Freed \subseteq Freed' /\ marks' \in Nat
    BY <1>1, <2>1, <2>8 DEF PollOK, Freed, CountOK
  <2>10. SaveQuota(g) /\ holder' = FreeGate
    BY <2>1, <2>2, <2>8
  <2> QED
    BY <2>3, <2>4, <2>6, <2>8, <2>9, <2>10, SavesKeep
<1>8. CASE PollAsks
  <2>1. poll.kind \in Asking /\ holder = FreeGate /\ Charge("poll", poll.kind = "reserved")
        /\ UNCHANGED <<today, tried, sent, marks, strays, lost>>
    BY <1>8 DEF PollAsks
  <2>2. StoreOK(0)
    BY <1>1, <2>1, Nothing DEF Saving
  <2>3. Charge("poll", "poll" = "poll" /\ poll.kind = "reserved")
    BY <2>1
  <2> QED
    BY <2>1, <2>2, <2>3, ChargeKeeps
<1>9. CASE FlowAsks
  <2>1. holder = FreeGate /\ Charge("flow", FALSE)
        /\ UNCHANGED <<today, tried, sent, marks, strays, lost>>
    BY <1>9 DEF FlowAsks
  <2>2. StoreOK(0)
    BY <1>1, <2>1, Nothing DEF Saving
  <2>3. Charge("flow", "flow" = "poll" /\ poll.kind = "reserved")
    BY <2>1
  <2> QED
    BY <2>1, <2>2, <2>3, ChargeKeeps
<1>10. CASE ReleaseDay
  <2>1. /\ poll.kind = "release" /\ holder = FreeGate /\ poll' = NoPoll
        /\ UNCHANGED <<today, holder, status, tried, sent, marks, turns, strays, lost>>
    BY <1>10 DEF ReleaseDay, history
  <2>2. PollOK' /\ Freed \subseteq Freed' /\ marks' \in Nat
    BY <1>1, <2>1, Nothing DEF PollOK, Freed, CountOK
  <2>3. ~Saving /\ holder' = FreeGate
    BY <2>1, Nothing DEF Saving
  <2>4. CASE gateFailed
    <3>1. UNCHANGED store
      BY <1>10, <2>4 DEF ReleaseDay
    <3> QED
      BY <2>1, <2>2, <2>3, <3>1, SavesKeep
  <2>5. CASE ~gateFailed
    <3>1. PICK g : g = [gate EXCEPT !.released = today]
      OBVIOUS
    <3>2. SaveQuota(g)
      BY <1>10, <2>5, <3>1 DEF ReleaseDay
    <3>3. g \in Quota /\ g.day = gate.day /\ g.used = gate.used /\ g.released = today
      BY <1>1, <3>1 DEF Quota
    <3>4. today \in Freed \union {0}
      BY <1>1, <2>1 DEF PollOK, Freed
    <3>5. Backed(gate, 0, sent, lost, Freed)
      BY <1>1, <2>3, <2>5 DEF StoreOK
    <3>6. Backed(g, 0, sent, lost, Freed)
      BY <3>3, <3>4, <3>5, SameCount
    <3> QED
      BY <2>1, <2>2, <2>3, <3>2, <3>3, <3>6, SavesKeep
  <2> QED
    BY <2>4, <2>5
<1> QED
  BY <1>4, <1>5, <1>6, <1>7, <1>8, <1>9, <1>10

\* What a start reads accounts for every call that is not lost with the file.
LEMMA LoadKeeps ==
  ASSUME CountOK, StoreOK(IF Saving THEN 1 ELSE 0), NEW f \in Files,
         f \in Quota => Backed(f, 0, sent, lost, Freed),
         Load(f), QuotaFault, UNCHANGED <<today, sent, marks, turns, strays>>
  PROVE  CountOK' /\ StoreOK(0)' /\ HolderOK' /\ ~Saving'
<1>1. /\ today \in 1 .. Days /\ sent \in [1 .. Days -> Nat] /\ lost \subseteq 1 .. Days
      /\ Freed' = Freed /\ quotaFaults' \in 0 .. QuotaFaults
  BY QuotaFaultTyped DEF CountOK, StoreOK, Freed
<1>2. ASSUME NEW used \in 0 .. Spent
      PROVE  /\ NewGate(used) \in Quota /\ NewGate(used).day = today
             /\ NewGate(used).used = used /\ NewGate(used).released = 0
  BY <1>1, <1>2, QuotaRange DEF NewGate, Quota
<1>3. NoFile \notin Quota /\ Unreadable \notin Quota /\ NoFile # Unreadable
  <2>1. NoFile.day = 0 /\ Unreadable.day = 0 /\ NoFile.found = FALSE /\ Unreadable.found = TRUE
    BY DEF NoFile, Unreadable
  <2> QED
    BY <2>1, QuotaFields
<1>4. ASSUME lost \subseteq lost', lost' \subseteq 1 .. Days
      PROVE  CountOK'
  BY <1>1, <1>4 DEF CountOK, QuotaHeld
<1>5. CASE gateFailed' = TRUE /\ gate' = NewGate(0) /\ file' = f /\ holder' = FreeGate
           /\ UNCHANGED lost
  <2>1. gate' \in Quota
    BY <1>2, <1>5, QuotaRange
  <2>2. StoreOK(0)'
    BY <1>1, <1>5, <2>1 DEF StoreOK
  <2> QED
    BY <1>1, <1>4, <1>5, <2>2, FreeHolder
<1>6. CASE gateFailed' = FALSE /\ f \in Quota
  <2>1. gate' = f /\ file' = f /\ holder' = FreeGate /\ lost' = lost
    BY <1>3, <1>6 DEF Load
  <2>2. StoreOK(0)'
    BY <1>1, <1>6, <2>1 DEF StoreOK
  <2> QED
    BY <1>1, <1>4, <2>1, <2>2, FreeHolder
<1>7. CASE gateFailed' = FALSE /\ f \notin Quota
  <2> DEFINE gone == {d \in 1 .. Days : sent[d] > 0 /\ (d > today \/ (d = today /\ f = NoFile))}
             used == IF f = NoFile THEN 0 ELSE Spent
  <2>1. /\ gate' = NewGate(used) /\ lost' = lost \union gone
        /\ file' \in {NoFile, Unreadable}
        /\ (holder' = FreeGate \/ holder' = [FreeGate EXCEPT !.pc = "recovering"])
    BY <1>3, <1>7 DEF Load, Files
  <2>2. lost \subseteq lost' /\ lost' \subseteq 1 .. Days
    BY <1>1, <2>1
  <2>3. used \in 0 .. Spent
    BY QuotaRange
  <2>4. gate' \in Quota /\ gate'.day = today /\ gate'.used = used /\ gate'.released = 0
    BY <1>2, <2>1, <2>3
  <2>5. ASSUME NEW d \in (1 .. Days) \ lost'
        PROVE  (d > today => sent[d] = 0) /\ (d = today => sent[d] + 0 <= used)
    <3>1. sent[d] \in Nat /\ sent[d] <= Calls /\ d \notin gone
      BY <1>1, <2>1, <2>2, <2>5 DEF CountOK, QuotaHeld
    <3> QED
      BY <1>1, <3>1, QuotaRange
  <2>6. Backed(gate', 0, sent, lost', Freed)
    BY <2>4, <2>5 DEF Backed
  <2>7. file' \in Files /\ file' \notin Quota
    BY <1>3, <2>1 DEF Files
  <2>8. StoreOK(0)'
    BY <1>1, <1>7, <2>4, <2>6, <2>7 DEF StoreOK
  <2>9. HolderOK' /\ ~Saving'
    <3>1. CASE holder' = FreeGate
      BY <3>1, FreeHolder
    <3>2. CASE holder' = [FreeGate EXCEPT !.pc = "recovering"]
      BY <1>7, <3>2 DEF HolderOK, Saving, FreeGate, Holders
    <3> QED
      BY <2>1, <3>1, <3>2
  <2> QED
    BY <1>4, <2>2, <2>8, <2>9
<1> QED
  BY <1>5, <1>6, <1>7 DEF Load

\* The clock moves, the count rolls, the entry reloads, Home Assistant stops and starts again.
LEMMA MishapsKeep ==
  ASSUME QuotaInv,
         Midnight \/ ClockBack \/ RollOver \/ LearnWindow \/ Reload \/ Crash \/ Recover
  PROVE  QuotaInv'
<1>1. CountOK /\ StoreOK(IF Saving THEN 1 ELSE 0) /\ PollOK /\ HolderOK /\ today \in 1 .. Days
      /\ gate \in Quota /\ quotaFaults \in 0 .. QuotaFaults /\ marks \in Nat
  BY DEF QuotaInv, CountOK, StoreOK
<1>2. CASE Midnight \/ ClockBack
  <2>1. /\ today' \in 1 .. Days /\ quotaFaults' \in 0 .. QuotaFaults
        /\ strays' = (IF poll.kind \in {"reserved", "release"} THEN strays \union {today'} ELSE strays)
        /\ UNCHANGED <<gate, file, gateFailed, holder, poll, status, tried, sent, marks, turns, lost>>
    BY <1>1, <1>2, QuotaRange, QuotaFaultTyped DEF Midnight, ClockBack, DayChanges
  <2>2. CountOK'
    BY <1>1, <2>1 DEF CountOK, QuotaHeld
  <2>3. PollOK' /\ Freed \subseteq Freed'
    BY <1>1, <2>1 DEF PollOK, Freed
  <2>4. ASSUME NEW q, NEW k, Backed(q, k, sent, lost, Freed)
        PROVE  Backed(q, k, sent', lost', Freed')
    BY <2>1, <2>3, <2>4, BackedGrows
  <2>5. (Reserved' <=> Reserved) /\ Saving' = Saving
    BY <2>1 DEF Reserved, Saving
  <2>6. StoreOK(IF Saving THEN 1 ELSE 0)'
    BY <1>1, <2>1, <2>4, <2>5 DEF StoreOK
  <2>7. HolderOK'
    BY <1>1, <2>1, <2>3, <2>5 DEF HolderOK
  <2> QED
    BY <2>2, <2>3, <2>6, <2>7 DEF QuotaInv
<1>3. CASE RollOver \/ LearnWindow
  <2>1. holder = FreeGate /\ ~gateFailed /\ (SaveQuota(Rolled(gate)) \/ SaveQuota(gate))
        /\ UNCHANGED <<today, holder, poll, status, tried, sent, marks, turns, strays, lost>>
    BY <1>3 DEF RollOver, LearnWindow, history
  <2>2. ~Saving /\ Backed(gate, 0, sent, lost, Freed)
    BY <1>1, <2>1, Nothing DEF Saving, StoreOK
  <2>3. \E g \in Quota : Backed(g, 0, sent, lost, Freed) /\ SaveQuota(g)
    BY <1>1, <2>1, <2>2, RolledBacked
  <2>4. PollOK' /\ Freed \subseteq Freed'
    BY <1>1, <2>1 DEF PollOK, Freed
  <2> QED
    BY <1>1, <2>1, <2>2, <2>3, <2>4, SavesKeep
<1>4. CASE Recover
  <2>1. /\ holder.pc = "recovering" /\ holder' = FreeGate /\ (SaveQuota(gate) \/ UNCHANGED store)
        /\ UNCHANGED <<today, poll, status, tried, sent, marks, turns, strays, lost>>
    BY <1>4 DEF Recover, history
  <2>2. ~Saving /\ holder # FreeGate
    BY <2>1, Nothing DEF Saving
  <2>3. Backed(gate, 0, sent, lost, Freed)
    BY <1>1, <2>2 DEF HolderOK, StoreOK
  <2>4. PollOK' /\ Freed \subseteq Freed'
    BY <1>1, <2>1 DEF PollOK, Freed
  <2> QED
    BY <1>1, <2>1, <2>2, <2>3, <2>4, SavesKeep
<1>5. CASE Reload
  <2>1. /\ QuotaFault /\ poll' = NoPoll /\ holder' = (IF holder.who = "poll" THEN FreeGate ELSE holder)
        /\ file' \in {file, gate} /\ (file' # file => holder = [who |-> "poll", pc |-> "saving"])
        /\ UNCHANGED <<today, gate, gateFailed, status, tried, sent, marks, turns, strays, lost>>
    BY <1>5 DEF Reload, history
  <2>2. CountOK'
    BY <1>1, <2>1 DEF CountOK, QuotaHeld
  <2>3. PollOK' /\ Freed' = Freed
    BY <1>1, <2>1, Nothing DEF PollOK, Freed
  <2>4. quotaFaults' \in 0 .. QuotaFaults
    BY <1>1, <2>1, QuotaFaultTyped
  <2>5. gateFailed \/ Backed(gate, 0, sent, lost, Freed)
    BY <1>1, BackedDropped DEF StoreOK
  <2>6. file' \in Files /\ (file' \in Quota => Backed(file', 0, sent, lost, Freed))
    <3>1. CASE file' = file
      BY <1>1, <3>1 DEF StoreOK
    <3>2. CASE file' # file
      <4>1. holder # FreeGate /\ file' = gate
        BY <2>1, <3>2 DEF FreeGate
      <4> QED
        BY <1>1, <2>5, <4>1 DEF HolderOK, Files
    <3> QED
      BY <3>1, <3>2
  <2>7. CASE holder.who = "poll"
    <3>1. StoreOK(0)'
      BY <1>1, <2>1, <2>3, <2>4, <2>5, <2>6 DEF StoreOK
    <3> QED
      BY <2>1, <2>2, <2>3, <2>7, <3>1, FreeHolder DEF QuotaInv
  <2>8. CASE holder.who # "poll"
    <3>1. holder' = holder /\ Saving' = Saving /\ ~Reserved /\ ~Reserved'
      BY <2>1, <2>8 DEF Saving, Reserved
    <3>2. StoreOK(IF Saving THEN 1 ELSE 0)'
      BY <1>1, <2>1, <2>3, <2>4, <2>6, <3>1 DEF StoreOK
    <3>3. HolderOK'
      BY <1>1, <2>1, <2>3, <2>8, <3>1 DEF HolderOK
    <3> QED
      BY <2>2, <2>3, <3>2, <3>3 DEF QuotaInv
  <2> QED
    BY <2>7, <2>8
<1>6. CASE Crash
  <2>1. /\ QuotaFault /\ poll' = NoPoll
        /\ UNCHANGED <<today, status, tried, sent, marks, turns, strays>>
        /\ Load(file) \/ Load(Unreadable) \/ (Saving /\ Load(gate))
    BY <1>6 DEF Crash, Saving
  <2>2. PICK f \in Files : Load(f) /\ (f \in Quota => Backed(f, 0, sent, lost, Freed))
    <3>1. CASE Load(file)
      BY <1>1, <3>1 DEF StoreOK
    <3>2. CASE Load(Unreadable)
      <4>1. Unreadable.day = 0 /\ Unreadable \in Files
        BY DEF Unreadable, Files
      <4> QED
        BY <3>2, <4>1, QuotaFields
    <3>3. CASE Saving /\ Load(gate)
      <4>1. ~gateFailed
        BY <1>1, <3>3, Nothing DEF HolderOK, Saving
      <4>2. Backed(gate, 0, sent, lost, Freed)
        BY <1>1, <3>3, <4>1, BackedDropped DEF StoreOK
      <4> QED
        BY <1>1, <3>3, <4>2 DEF Files
    <3> QED
      BY <2>1, <3>1, <3>2, <3>3
  <2>3. CountOK' /\ StoreOK(0)' /\ HolderOK' /\ ~Saving'
    BY <1>1, <2>1, <2>2, LoadKeeps
  <2>4. PollOK'
    BY <1>1, <2>1, Nothing DEF PollOK
  <2> QED
    BY <2>3, <2>4 DEF QuotaInv
<1> QED
  BY <1>2, <1>3, <1>4, <1>5, <1>6

\* Every step keeps the invariant, and only a dispatch sends.
LEMMA QuotaStep ==
  ASSUME QuotaInv, [QuotaNext]_quotaVars
  PROVE  /\ QuotaInv'
         /\ sent' # sent /\ ~Reserved /\ today \notin turns \union strays \union lost
              => sent'[today] + Sites <= Calls
<1>1. CASE UNCHANGED quotaVars
  <2>1. /\ UNCHANGED <<today, gate, file, gateFailed, quotaFaults, holder, poll, status, tried, sent>>
        /\ UNCHANGED <<marks, turns, strays, lost>>
    BY <1>1 DEF quotaVars, store, history
  <2>2. Freed' = Freed /\ (Saving' <=> Saving) /\ (Reserved' <=> Reserved)
    BY <2>1 DEF Freed, Saving, Reserved
  <2>3. CountOK' /\ PollOK' /\ HolderOK'
    BY <2>1, <2>2 DEF QuotaInv, CountOK, QuotaHeld, PollOK, HolderOK
  <2>4. StoreOK(IF Saving THEN 1 ELSE 0)'
    BY <2>1, <2>2 DEF QuotaInv, StoreOK
  <2> QED
    BY <2>1, <2>3, <2>4 DEF QuotaInv
<1>2. CASE Dispatch
  BY <1>2, DispatchKeeps DEF Freed
<1>3. CASE ChargeFails
  <2>1. sent' = sent
    BY <1>3 DEF ChargeFails
  <2> QED
    BY <1>3, <2>1, ChargeFailsKeeps
<1>4. CASE \E o \in {"ok", "auth_failed", "quota_exhausted", "busy", "stale"} :
              PollAnswered(o) \/ FlowAnswered(o)
  <2>1. sent' = sent
    BY <1>4 DEF PollAnswered, FlowAnswered
  <2> QED
    BY <1>4, <2>1, AnswersKeep
<1>5. CASE DayPoll \/ ReservedPoll \/ ReservedPasses \/ FirstFetch \/ PollAsks \/ ReleaseDay
             \/ FlowAsks
  <2>1. sent' = sent
    BY <1>5 DEF DayPoll, ReservedPoll, ReservedPasses, FirstFetch, PollAsks, ReleaseDay, FlowAsks,
                Starts
  <2> QED
    BY <1>5, <2>1, PollsKeep
<1>6. CASE Midnight \/ ClockBack \/ RollOver \/ LearnWindow \/ Reload \/ Crash \/ Recover
  <2>1. sent' = sent
    BY <1>6 DEF Midnight, ClockBack, DayChanges, RollOver, LearnWindow, Reload, Crash, Recover
  <2> QED
    BY <1>6, <2>1, MishapsKeep
<1> QED
  BY <1>1, <1>2, <1>3, <1>4, <1>5, <1>6 DEF QuotaNext

LEMMA QuotaStarts == QuotaInit => QuotaInv
<1> SUFFICES ASSUME QuotaInit PROVE QuotaInv
  OBVIOUS
<1>1. /\ today = 1 /\ gate = NewGate(0) /\ file = NoFile /\ gateFailed = FALSE
      /\ holder = FreeGate /\ poll = NoPoll /\ status = "other"
      /\ tried = 0 /\ sent = [d \in 1 .. Days |-> 0] /\ marks = 0
      /\ quotaFaults = QuotaFaults /\ turns = {} /\ strays = {} /\ lost = {}
  BY DEF QuotaInit
<1>2. sent \in [1 .. Days -> Nat] /\ (\A d \in 1 .. Days : sent[d] = 0)
  BY <1>1
<1>3. gate \in Quota /\ gate.day = 1 /\ gate.used = 0 /\ gate.released = 0
  <2>1. FALSE \in BOOLEAN
    OBVIOUS
  <2>2. gate = [day |-> 1, used |-> 0, until |-> 0, pending |-> FALSE, released |-> 0]
    BY <1>1 DEF NewGate
  <2> QED
    BY <2>1, <2>2, QuotaRange DEF Quota
<1>4. CountOK
  BY <1>1, <1>2, QuotaRange DEF CountOK, QuotaHeld
<1>5. StoreOK(0)
  <2>1. file \in Files /\ file \notin Quota
    <3>1. NoFile.day = 0
      BY DEF NoFile
    <3> QED
      BY <1>1, <3>1, QuotaFields DEF Files
  <2>2. Backed(gate, 0, sent, lost, Freed)
    BY <1>2, <1>3, QuotaRange DEF Backed
  <2> QED
    BY <1>1, <1>3, <2>1, <2>2, QuotaRange DEF StoreOK
<1>6. PollOK
  <2>1. "other" \in Statuses
    BY DEF Statuses
  <2> QED
    BY <1>1, <2>1, QuotaRange, Nothing DEF PollOK
<1>7. HolderOK /\ ~Saving
  BY <1>1, Nothing DEF HolderOK, Saving
<1> QED
  BY <1>4, <1>5, <1>6, <1>7 DEF QuotaInv

\* The quota's counts, its file and its polls keep their types, whatever fails and wherever the
\* clock goes: no charge leaves the range of the counter, no retry or site is one too many.
THEOREM QuotaTypeCorrect == QuotaSpec => []QuotaTypeOK
  BY QuotaStarts, QuotaStep, QuotaInvTyped, PTL DEF QuotaSpec

\* No UTC day sees more calls than the account has, and none spends what is held back before the
\* day's own reserved poll has had its last answer, through failed saves, reloads, crashes, a
\* file that does not parse and whose repair may fail or be cut short, a clock that steps back
\* and a midnight at any moment.  What is left out is what QuotaKept leaves out: days whose calls
\* went with the file, and days that another day's reserved poll strayed into.
THEOREM QuotaHolds == QuotaSpec => QuotaKept
<1>1. QuotaInv /\ [QuotaNext]_quotaVars => QuotaInv'
  BY QuotaStep
<1>2. QuotaInv /\ [QuotaNext]_quotaVars
        => [/\ QuotaHeld'
            /\ sent' # sent /\ ~(holder.who = "poll" /\ poll.kind = "reserved")
               /\ today \notin turns \union strays \union lost
                 => sent'[today] + Sites <= Calls]_quotaVars
  BY QuotaStep DEF QuotaInv, CountOK, Reserved
<1> QED
  BY QuotaStarts, <1>1, <1>2, PTL DEF QuotaSpec, QuotaKept

-----------------------------------------------------------------------------
(* The services side by side *)

LEMMA EachPartSteps ==
  [Next]_integrationVars => /\ [HoldNext]_holdVars /\ [ExportNext]_exportVars
                            /\ [GuardNext]_guardVars /\ [QuotaNext]_quotaVars
<1>1. CASE Holding(HoldNext)
  BY <1>1 DEF Holding, IsPart
<1>2. CASE Exporting(ExportNext)
  BY <1>2 DEF Exporting, IsPart
<1>3. CASE Guarding(GuardNext)
  BY <1>3 DEF Guarding, IsPart
<1>4. CASE Fetching(QuotaNext)
  BY <1>4 DEF Fetching, IsPart
<1>5. CASE UNCHANGED integrationVars
  BY <1>5 DEF integrationVars
<1> QED
  BY <1>1, <1>2, <1>3, <1>4, <1>5 DEF Next

\* What TLC explores side by side is, service by service, the service's own specification: each
\* theorem above is one about the run.
THEOREM EachServiceItself == FairSpec => HoldSpec /\ ExportSpec /\ GuardSpec /\ QuotaSpec
<1>1. Init => HoldInit /\ ExportInit /\ GuardInit /\ QuotaInit
  BY DEF Init
<1> QED
  BY <1>1, EachPartSteps, PTL DEF FairSpec, HoldSpec, ExportSpec, GuardSpec, QuotaSpec

\* The services keep their types side by side.
THEOREM ServicesTyped == FairSpec => []TypesOK
<1>1. HoldTypeOK /\ ExportTypeOK /\ GuardTypeOK /\ QuotaTypeOK => TypesOK
  BY DEF TypesOK
<1> QED
  BY <1>1, EachServiceItself, HoldTypeCorrect, ExportTypeCorrect, GuardTypeCorrect,
     QuotaTypeCorrect, PTL
=================================================================================
