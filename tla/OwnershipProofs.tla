---------------------------- MODULE OwnershipProofs ----------------------------
(***************************************************************************)
(* Theorems about the ownership hand-over, for every number of write       *)
(* failures, restarts, snapshots in flight, store identities and revisions,*)
(* and for either value of RetiredMirror.                                  *)
(***************************************************************************)
EXTENDS OwnershipHandshake, SequenceTheorems, TLAPS

-----------------------------------------------------------------------------
(* Sequences: what removing or dropping snapshots leaves in flight. *)

\* Dropping a prefix of a queue leaves a queue of the same snapshots.
LEMMA DropPrefix ==
    ASSUME NEW S, NEW s \in Seq(S), NEW i \in 1 .. Len(s)
    PROVE  /\ SubSeq(s, i + 1, Len(s)) \in Seq(S)
           /\ \A j \in 1 .. Len(SubSeq(s, i + 1, Len(s))) :
                 \E k \in 1 .. Len(s) : SubSeq(s, i + 1, Len(s))[j] = s[k]
           /\ i = Len(s) => SubSeq(s, i + 1, Len(s)) = <<>>
<1> DEFINE t == SubSeq(s, i + 1, Len(s))
<1>1. t \in Seq(S) /\ Len(t) = Len(s) - i
  BY SubSeqProperties
<1>2. \A j \in 1 .. Len(t) : t[j] = s[i + j] /\ i + j \in 1 .. Len(s)
  <2> TAKE j \in 1 .. Len(t)
  <2>1. t[j] = s[i + 1 + j - 1]
    BY <1>1, SubSeqProperties
  <2> QED BY <1>1, <2>1
<1>3. i = Len(s) => t = <<>>
  BY <1>1, EmptySeq
<1> QED BY <1>1, <1>2, <1>3

\* Taking one snapshot out of a queue leaves a queue of the same snapshots.
LEMMA RemoveOne ==
    ASSUME NEW S, NEW s \in Seq(S), NEW i \in 1 .. Len(s)
    PROVE  /\ RemoveAt(s, i) \in Seq(S)
           /\ \A j \in 1 .. Len(RemoveAt(s, i)) :
                 \E k \in 1 .. Len(s) : RemoveAt(s, i)[j] = s[k]
<1> DEFINE a == SubSeq(s, 1, i - 1)
           b == SubSeq(s, i + 1, Len(s))
<1>1. a \in Seq(S) /\ \A j \in 1 .. Len(a) : \E k \in 1 .. Len(s) : a[j] = s[k]
  <2>1. a \in Seq(S) /\ Len(a) = i - 1
    BY SubSeqProperties
  <2>2. \A j \in 1 .. Len(a) : a[j] = s[1 + j - 1]
    BY <2>1, SubSeqProperties
  <2> QED BY <2>1, <2>2
<1>2. b \in Seq(S) /\ \A j \in 1 .. Len(b) : \E k \in 1 .. Len(s) : b[j] = s[k]
  BY DropPrefix
<1> HIDE DEF a, b
<1>3. a \o b \in Seq(S) /\ \A j \in 1 .. Len(a \o b) : \E k \in 1 .. Len(s) : (a \o b)[j] = s[k]
  <2>1. /\ a \o b \in Seq(S) /\ Len(a \o b) = Len(a) + Len(b)
        /\ \A j \in 1 .. Len(a) + Len(b) : (a \o b)[j] = IF j <= Len(a) THEN a[j] ELSE b[j - Len(a)]
    BY <1>1, <1>2, ConcatProperties
  <2>2. Len(a) \in Nat /\ Len(b) \in Nat
    BY <1>1, <1>2, LenProperties
  <2>3. ASSUME NEW j \in 1 .. Len(a \o b) PROVE \E k \in 1 .. Len(s) : (a \o b)[j] = s[k]
    <3>1. CASE j <= Len(a)
      <4>1. (a \o b)[j] = a[j] /\ j \in 1 .. Len(a)
        BY <2>1, <2>2, <3>1
      <4> QED BY <1>1, <4>1
    <3>2. CASE ~(j <= Len(a))
      <4>1. (a \o b)[j] = b[j - Len(a)] /\ j - Len(a) \in 1 .. Len(b)
        BY <2>1, <2>2, <3>2
      <4> QED BY <1>2, <4>1
    <3> QED BY <3>1, <3>2
  <2> QED BY <2>1, <2>3
<1>4. RemoveAt(s, i) = a \o b
  BY DEF RemoveAt, a, b
<1> QED BY <1>3, <1>4

-----------------------------------------------------------------------------
(* Type correctness *)

\* A fresh installation has every variable in its type.
LEMMA TypeInit == Init => TypeOK
<1> SUFFICES ASSUME Init PROVE TypeOK
  OBVIOUS
<1>1. IntegrationTypeOK
  <2>1. op \in Ops
    BY DEF Init, Idle, Ops, Owners, Sides
  <2>2. summary \in Summaries
    BY DEF Init, Summaries, NoSummary
  <2>3. options \in Topologies
    BY BoundsAssumption DEF Init, Topologies
  <2> QED BY <2>1, <2>2, <2>3 DEF Init, IntegrationTypeOK, Owners, Sides
<1>2. AddonTypeOK
  <2>1. 0 \in StoreIds /\ 1 \in StoreIds
    BY BoundsAssumption DEF StoreIds
  <2>2. topology \in Topologies
    BY BoundsAssumption DEF Init, Topologies
  <2>3. pend \in [kind : {"none", "save", "initial"}, id : StoreIds, quiet : BOOLEAN]
    BY <2>1 DEF Init, NoPend
  <2> QED BY <2>1, <2>2, <2>3 DEF Init, AddonTypeOK
<1>3. requests \in Seq(Snapshots) /\ reply \in Summaries /\ faults \in Nat /\ restarts \in Nat
  BY BoundsAssumption DEF Init, Summaries, NoSummary
<1> QED BY <1>1, <1>2, <1>3 DEF TypeOK

\* Every summary the add-on can build is one of Summaries.
LEMMA SummaryTypes ==
    /\ NoSummary \in Summaries /\ Invalid \in Summaries
    /\ TypeOK => AddonSummary \in Summaries /\ FailedSummary \in Summaries
<1>1. NoSummary \in Summaries /\ Invalid \in Summaries
  BY DEF Summaries, NoSummary, Invalid
<1>2. ASSUME TypeOK PROVE AddonSummary \in Summaries
  <2>1. RetirementStatus \in {"none", "active", "retired"} /\ Known \in BOOLEAN
    BY DEF RetirementStatus, Known
  <2>2. saveFailed \in BOOLEAN /\ store.quiet \in BOOLEAN
    BY <1>2 DEF TypeOK, AddonTypeOK
  <2> QED BY <2>1, <2>2, RetiredMirrorAssumption DEF AddonSummary, Summaries
<1>3. ASSUME AddonSummary \in Summaries PROVE FailedSummary \in Summaries
  BY <1>3 DEF FailedSummary, Summaries
<1> QED BY <1>1, <1>2, <1>3

\* Beginning a save keeps the record's types.
LEMMA BeginSaveType ==
    ASSUME IntegrationTypeOK, NEW target \in Owners,
           NEW why \in {"load", "request", "advance"}, BeginSave(target, why)
    PROVE  op' \in Ops /\ verified' \in BOOLEAN /\ owner' \in Owners
BY DEF BeginSave, IntegrationTypeOK, Ops

\* A dropped entry's types, for unload and crash alike.
LEMMA DropType ==
    ASSUME TypeOK, Drop
    PROVE  /\ ownerFile' \in Owners \union {"absent"}
           /\ authFile' \in {"absent", "ok", "torn", "retired"}
           /\ authQuiet' \in BOOLEAN /\ authFresh' \in BOOLEAN
           /\ loaded' \in BOOLEAN /\ owner' \in Owners /\ verified' \in BOOLEAN
           /\ reconcile' \in BOOLEAN
           /\ authStatus' = "uninitialised" /\ op' \in Ops /\ ctl' = "idle" /\ flow' = "none"
           /\ hb' = "idle" /\ summary' \in Summaries /\ reply' \in Summaries
<1>1. op \in Ops /\ op.target \in Owners
  BY DEF TypeOK, IntegrationTypeOK, Ops
<1> QED BY <1>1, SummaryTypes DEF Drop, TypeOK, IntegrationTypeOK, Ops, Idle, Owners, Sides

\* A write that fails spends one of the failures left.
LEMMA SpendType ==
    ASSUME faults \in Nat, NEW outcome,
           \/ Spend(outcome)
           \/ (outcome # "ok" => faults > 0) /\ faults' = IF outcome = "ok" THEN faults ELSE faults - 1
    PROVE  faults' \in Nat
BY DEF Spend

\* The integration's steps leave the add-on's variables alone.
LEMMA AddonUnchanged == AddonTypeOK /\ UNCHANGED addon => AddonTypeOK'
BY DEF AddonTypeOK, addon

\* Every step of the integration keeps every variable in its type.
LEMMA IntegrationStepType == TypeOK /\ IntegrationNext => TypeOK'
<1> SUFFICES ASSUME TypeOK, IntegrationNext PROVE TypeOK'
  OBVIOUS
<1> USE DEF TypeOK, IntegrationTypeOK
<1>0. op.target \in Owners /\ op.why \in {"load", "request", "advance"} /\ Idle \in Ops
  BY DEF Ops, Idle, Owners, Sides
<1>1. ASSUME NEW outcome \in Outcomes, SaveEnd(outcome) PROVE TypeOK'
  <2>1. AddonTypeOK' /\ faults' \in Nat
    BY <1>1, SpendType, AddonUnchanged DEF SaveEnd
  <2>2. flow' \in Sides \union {"none"} /\ authStatus' \in
          {"uninitialised", "ok", "unknown", "save_failed", "retired"}
    BY <1>1 DEF SaveEnd, TargetOf, Sides
  <2>3. ownerFile' \in Owners \union {"absent"} /\ owner' \in Owners /\ op' \in Ops
    BY <1>0, <1>1 DEF SaveEnd
  <2>4. verified' \in BOOLEAN /\ reconcile' \in BOOLEAN
    BY <1>1 DEF SaveEnd
  <2> QED BY <1>1, <2>1, <2>2, <2>3, <2>4 DEF SaveEnd, network
<1>2. ASSUME NEW outcome \in Outcomes, RetireEnd(outcome) PROVE TypeOK'
  BY <1>2, <1>0, BeginSaveType, SummaryTypes, BoundsAssumption
     DEF RetireEnd, AddonTypeOK, intDisk, intMem, addon, network, auth, Spend, Owners, Sides
<1>3. ASSUME NEW outcome \in Outcomes, CtlEnd(outcome) PROVE TypeOK'
  <2>1. AddonTypeOK' /\ faults' \in Nat
    BY <1>3, SpendType, AddonUnchanged DEF CtlEnd
  <2>2. authQuiet' \in BOOLEAN /\ authFresh' \in BOOLEAN
    BY <1>3 DEF CtlEnd
  <2> QED BY <1>3, <2>1, <2>2 DEF CtlEnd, network
<1>4. ASSUME NEW outcome \in Outcomes \union {"torn"}, InitialiseEnd(outcome) PROVE TypeOK'
  <2>1. AddonTypeOK'
    BY <1>4, AddonUnchanged DEF InitialiseEnd
  <2>2. CASE authFile \in {"absent", "retired"} /\ authStatus # "save_failed"
    <3>1. faults' \in Nat
      BY <1>4, <2>2, SpendType DEF InitialiseEnd
    <3>2. op' \in Ops /\ verified' \in BOOLEAN /\ owner' \in Owners /\ hb' \in {"idle", "wait", "advance"}
      BY <1>0, <1>4, <2>2, BeginSaveType DEF InitialiseEnd, Owners, Sides
    <3>3. authFile' \in {"absent", "ok", "torn", "retired"} /\ authQuiet' \in BOOLEAN
            /\ authFresh' \in BOOLEAN /\ authStatus' \in {"ok", "save_failed"}
      BY <1>4, <2>2 DEF InitialiseEnd
    <3> QED BY <1>4, <2>1, <3>1, <3>2, <3>3 DEF InitialiseEnd, network
  <2>3. CASE ~(authFile \in {"absent", "retired"} /\ authStatus # "save_failed")
    BY <1>0, <1>4, <2>1, <2>3 DEF InitialiseEnd, network, auth
  <2> QED BY <2>2, <2>3
<1>5. ASSUME NEW outcome \in Outcomes \union {"torn"}, IntConfirmObserve(outcome) PROVE TypeOK'
  <2>1. AddonTypeOK' /\ faults' \in Nat
    BY <1>5, SpendType, AddonUnchanged DEF IntConfirmObserve
  <2>2. authFile' \in {"absent", "ok", "torn", "retired"} /\ authQuiet' \in BOOLEAN
          /\ authFresh' \in BOOLEAN
    BY <1>5 DEF IntConfirmObserve
  <2> QED BY <1>5, <2>1, <2>2 DEF IntConfirmObserve, network
<1>6. ASSUME NEW t \in Sides, FlowRequest(t) PROVE TypeOK'
  BY <1>6, <1>0, BeginSaveType, SummaryTypes, BoundsAssumption
     DEF FlowRequest, AddonTypeOK, intDisk, intMem, addon, network, auth, PendingFor, Owners, Sides
<1>7. ASSUME NEW q \in {"quiet", "busy"}, CtlBegin(q) PROVE TypeOK'
  BY <1>7, <1>0, BeginSaveType, SummaryTypes, BoundsAssumption
     DEF CtlBegin, AddonTypeOK, intDisk, intMem, addon, network, auth, Owners
<1>8. ASSUME Load PROVE TypeOK'
  <2>1. AddonTypeOK'
    BY <1>8, AddonUnchanged DEF Load
  <2>2. authStatus' \in {"uninitialised", "ok", "unknown", "save_failed", "retired"}
    BY <1>8 DEF Load
  <2>3. owner' \in Owners /\ verified' \in BOOLEAN /\ reconcile' \in BOOLEAN /\ op' \in Ops
    <3>1. Withdrawn(ownerFile) \in Owners
      BY DEF Withdrawn, Owners, Sides
    <3>2. \A x \in Owners : [step |-> "save", target |-> x, why |-> "load"] \in Ops
      BY DEF Ops
    <3>3. "addon" \in Owners /\ "pending_integration" \in Owners
      BY DEF Owners, Sides
    <3>4. reconcile' \in BOOLEAN
      BY <1>8 DEF Load
    <3> QED BY <1>8, <3>1, <3>2, <3>3, <3>4 DEF Load
  <2> QED BY <1>8, <2>1, <2>2, <2>3 DEF Load, intDisk, network
<1>9. ASSUME Commit PROVE TypeOK'
  <2>1. AddonTypeOK'
    BY <1>9, AddonUnchanged DEF Commit
  <2>2. options' \in Topologies
    BY <1>9 DEF Commit, Topologies
  <2> QED BY <1>9, <2>1, <2>2, DropType DEF Commit
<1>10. ASSUME IntCrash PROVE TypeOK'
  BY <1>10, <1>0, BeginSaveType, SummaryTypes, BoundsAssumption, DropType
     DEF IntCrash, AddonTypeOK, intDisk, intMem, addon, network, auth, Topologies
<1>11. ASSUME NEW o \in [native : BOOLEAN, rev : 0 .. MaxRevision], RestoreOptions(o) PROVE TypeOK'
  <2>1. AddonTypeOK'
    BY <1>11, AddonUnchanged DEF RestoreOptions
  <2>2. o \in Topologies
    BY BoundsAssumption DEF Topologies
  <2> QED BY <1>11, <2>1, <2>2 DEF RestoreOptions, network, auth
<1>12. ASSUME Send PROVE TypeOK'
  <2>1. AddonTypeOK'
    BY <1>12, AddonUnchanged DEF Send
  <2>2. requests' \in Seq(Snapshots)
    <3>1. CASE verified
      <4> DEFINE o == IF owner = "integration" /\ authStatus # "ok" THEN "missing" ELSE owner
                 r == [owner |-> o, native |-> options.native, rev |-> options.rev]
      <4>1. r \in Snapshots
        BY DEF Snapshots, Topologies
      <4>2. requests' = Append(requests, r)
        BY <1>12, <3>1 DEF Send
      <4> QED BY <4>1, <4>2, AppendProperties
    <3>2. CASE ~verified
      BY <1>12, <3>2 DEF Send
    <3> QED BY <3>1, <3>2
  <2>3. summary' \in Summaries /\ reply' \in Summaries /\ hb' \in {"idle", "wait", "advance"}
    BY <1>12, SummaryTypes DEF Send
  <2> QED BY <1>12, <2>1, <2>2, <2>3 DEF Send, intDisk
<1>13. ASSUME Timeout PROVE TypeOK'
  BY <1>13, <1>0, BeginSaveType, SummaryTypes, BoundsAssumption
     DEF Timeout, AddonTypeOK, intDisk, intMem, addon, network, auth, Owners
<1>14. ASSUME Deliver PROVE TypeOK'
  BY <1>14, <1>0, BeginSaveType, SummaryTypes, BoundsAssumption
     DEF Deliver, AddonTypeOK, intDisk, intMem, addon, network, auth, Owners
<1>15. ASSUME Expire PROVE TypeOK'
  BY <1>15, <1>0, BeginSaveType, SummaryTypes, BoundsAssumption
     DEF Expire, AddonTypeOK, intDisk, intMem, addon, network, auth, Owners
<1>16. ASSUME Advance PROVE TypeOK'
  BY <1>16, <1>0, BeginSaveType, SummaryTypes, BoundsAssumption
     DEF Advance, AddonTypeOK, intDisk, intMem, addon, network, auth, Owners, Sides, PendingFor, Withdrawn, Ops
<1> QED
  BY <1>1, <1>2, <1>3, <1>4, <1>5, <1>6, <1>7, <1>8, <1>9, <1>10, <1>11, <1>12, <1>13, <1>14, <1>15, <1>16 DEF IntegrationNext

\* The add-on's steps leave the integration's variables alone.
LEMMA IntegrationUnchanged ==
    IntegrationTypeOK /\ UNCHANGED intDisk /\ UNCHANGED intMem => IntegrationTypeOK'
BY DEF IntegrationTypeOK, intDisk, intMem

\* Every write the handler can make keeps the add-on's store in its types.
LEMMA HandoverType ==
    ASSUME TypeOK, NEW outcome,
           RetireStore(outcome) \/ AckRetired(outcome) \/ OfferCandidate(outcome)
               \/ RestoreStore(outcome),
           topology' \in Topologies
    PROVE  AddonTypeOK' /\ faults' \in Nat
<1> USE DEF TypeOK, AddonTypeOK
<1>1. ASSUME RetireStore(outcome) PROVE AddonTypeOK' /\ faults' \in Nat
  <2>1. faults' \in Nat
    BY <1>1, SpendType DEF RetireStore
  <2>2. 0 \in StoreIds /\ store.id \in StoreIds
    BY BoundsAssumption DEF StoreIds
  <2>3. marker' \in [kind : {"plain", "retired", "pending_addon"}, id : StoreIds, cand : StoreIds]
    BY <1>1, <2>2 DEF RetireStore
  <2>4. pend' \in [kind : {"none", "save", "initial"}, id : StoreIds, quiet : BOOLEAN]
    BY <1>1, <2>2 DEF RetireStore, NoPend
  <2> QED BY <1>1, <2>1, <2>2, <2>3, <2>4 DEF RetireStore
<1>2. ASSUME AckRetired(outcome) PROVE AddonTypeOK' /\ faults' \in Nat
  <2>1. faults' \in Nat
    BY <1>2, SpendType DEF AckRetired
  <2> QED BY <1>2, <2>1 DEF AckRetired
<1>3. ASSUME OfferCandidate(outcome) PROVE AddonTypeOK' /\ faults' \in Nat
  <2> DEFINE fresh == marker.kind = "retired"
             cand  == IF fresh THEN newestId + 1 ELSE marker.cand
  <2>1. faults' \in Nat
    BY <1>3, SpendType DEF OfferCandidate
  <2>2. cand \in StoreIds
    BY <1>3, BoundsAssumption DEF OfferCandidate, StoreIds
  <2>3. newestId' \in StoreIds
    BY <1>3, <2>2 DEF OfferCandidate
  <2>4. marker' \in [kind : {"plain", "retired", "pending_addon"}, id : StoreIds, cand : StoreIds]
    <3>1. marker' = marker \/ marker' = [marker EXCEPT !.kind = "pending_addon", !.cand = cand]
      BY <1>3 DEF OfferCandidate
    <3> QED BY <2>2, <3>1
  <2>5. store' \in [id : StoreIds, quiet : BOOLEAN]
    <3>1. store' = store \/ store' = [id |-> cand, quiet |-> TRUE]
      BY <1>3 DEF OfferCandidate
    <3>2. store \in [id : StoreIds, quiet : BOOLEAN]
      OBVIOUS
    <3>3. [id |-> cand, quiet |-> TRUE] \in [id : StoreIds, quiet : BOOLEAN]
      BY <2>2
    <3> QED BY ONLY <3>1, <3>2, <3>3
  <2> QED BY <1>3, <2>1, <2>3, <2>4, <2>5 DEF OfferCandidate
<1>4. ASSUME RestoreStore(outcome) PROVE AddonTypeOK' /\ faults' \in Nat
  <2>1. faults' \in Nat
    BY <1>4, SpendType DEF RestoreStore
  <2>2. 0 \in StoreIds
    BY BoundsAssumption DEF StoreIds
  <2>3. marker' \in [kind : {"plain", "retired", "pending_addon"}, id : StoreIds, cand : StoreIds]
    BY <1>4, <2>2 DEF RestoreStore
  <2> QED BY <1>4, <2>1, <2>3 DEF RestoreStore
<1> QED BY <1>1, <1>2, <1>3, <1>4

\* A fresh store written, or half written, keeps the types too.
LEMMA PersistInitialType ==
    ASSUME TypeOK, NEW id \in StoreIds, NEW outcome, PersistInitial(id, outcome)
    PROVE  /\ store' \in [id : StoreIds, quiet : BOOLEAN]
           /\ marker' \in [kind : {"plain", "retired", "pending_addon"}, id : StoreIds, cand : StoreIds]
           /\ pend' \in [kind : {"none", "save", "initial"}, id : StoreIds, quiet : BOOLEAN]
           /\ saveFailed' \in BOOLEAN /\ mem' \in StoreIds /\ synced' \in BOOLEAN /\ faults' \in Nat
<1> USE DEF TypeOK, AddonTypeOK
<1>1. 0 \in StoreIds
  BY BoundsAssumption DEF StoreIds
<1>2. faults' \in Nat
  BY SpendType DEF PersistInitial
<1>3. store' \in [id : StoreIds, quiet : BOOLEAN]
  BY DEF PersistInitial
<1>4. marker' \in [kind : {"plain", "retired", "pending_addon"}, id : StoreIds, cand : StoreIds]
  BY <1>1 DEF PersistInitial
<1>5. pend' \in [kind : {"none", "save", "initial"}, id : StoreIds, quiet : BOOLEAN]
  BY <1>1 DEF PersistInitial, NoPend
<1> QED BY <1>2, <1>3, <1>4, <1>5 DEF PersistInitial

\* Every step of the add-on and of the network keeps every variable in its type.
LEMMA AddonStepType == TypeOK /\ AddonNext => TypeOK'
<1> SUFFICES ASSUME TypeOK, AddonNext PROVE TypeOK'
  OBVIOUS
<1> USE DEF TypeOK
<1>0. 0 \in StoreIds /\ NoPend \in [kind : {"none", "save", "initial"}, id : StoreIds, quiet : BOOLEAN]
  BY BoundsAssumption DEF StoreIds, NoPend
<1>1. ASSUME NEW outcome \in Outcomes, NEW q \in BOOLEAN, AddonSave(q, outcome) PROVE TypeOK'
  <2>1. IntegrationTypeOK' /\ faults' \in Nat
    BY <1>1, IntegrationUnchanged, SpendType DEF AddonSave
  <2>2. store' \in [id : StoreIds, quiet : BOOLEAN]
    BY <1>1 DEF AddonSave, AddonTypeOK
  <2>3. pend' \in [kind : {"none", "save", "initial"}, id : StoreIds, quiet : BOOLEAN]
    BY <1>0, <1>1 DEF AddonSave, AddonTypeOK
  <2> QED BY <1>1, <2>1, <2>2, <2>3 DEF AddonSave, AddonTypeOK, network
<1>2. ASSUME NEW outcome \in Outcomes \union {"torn"}, AddonRetry(outcome) PROVE TypeOK'
  <2>1. IntegrationTypeOK'
    BY <1>2, IntegrationUnchanged DEF AddonRetry
  <2>2. CASE pend.kind = "initial" /\ PersistInitial(pend.id, outcome)
    BY <1>2, <2>1, <2>2, PersistInitialType DEF AddonRetry, AddonTypeOK, network
  <2>3. CASE pend.kind = "save"
    <3>1. faults' \in Nat
      BY <1>2, <2>3, SpendType DEF AddonRetry
    <3>2. store' \in [id : StoreIds, quiet : BOOLEAN]
      BY <1>2, <2>3 DEF AddonRetry, AddonTypeOK
    <3>3. pend' \in [kind : {"none", "save", "initial"}, id : StoreIds, quiet : BOOLEAN]
      BY <1>0, <1>2, <2>3 DEF AddonRetry, AddonTypeOK
    <3>4. synced' \in BOOLEAN /\ saveFailed' \in BOOLEAN /\ mem' \in StoreIds
      BY <1>2, <2>3 DEF AddonRetry, AddonTypeOK
    <3> QED BY <1>2, <2>1, <2>3, <3>1, <3>2, <3>3, <3>4 DEF AddonRetry, AddonTypeOK, network
  <2> QED BY <1>2, <2>2, <2>3 DEF AddonRetry
<1>3. ASSUME NEW outcome \in Outcomes \union {"torn"}, ConfirmObserve(outcome) PROVE TypeOK'
  <2>1. IntegrationTypeOK'
    BY <1>3, IntegrationUnchanged DEF ConfirmObserve
  <2>2. newestId + 1 \in StoreIds
    BY <1>3, BoundsAssumption DEF ConfirmObserve, AddonTypeOK, StoreIds
  <2> QED BY <1>3, <2>1, <2>2, PersistInitialType DEF ConfirmObserve, AddonTypeOK, network
<1>4. ASSUME NEW outcome \in Outcomes, AddonRestart(outcome) PROVE TypeOK'
  <2>1. IntegrationTypeOK' /\ faults' \in Nat
    BY <1>4, IntegrationUnchanged, SpendType DEF AddonRestart
  <2>2. requests' \in Seq(Snapshots) /\ restarts' \in Nat /\ reply' \in Summaries
    BY <1>4 DEF AddonRestart
  <2>3. mem' \in StoreIds /\ saveFailed' \in BOOLEAN /\ synced' \in BOOLEAN
    BY <1>0, <1>4 DEF AddonRestart, AddonTypeOK
  <2>4. pend' \in [kind : {"none", "save", "initial"}, id : StoreIds, quiet : BOOLEAN]
    BY <1>0, <1>4 DEF AddonRestart, AddonTypeOK
  <2> QED BY <1>4, <2>1, <2>2, <2>3, <2>4 DEF AddonRestart, AddonTypeOK
<1>5. ASSUME NEW i \in 1 .. Len(requests), Reject(i) PROVE TypeOK'
  BY <1>5, IntegrationUnchanged, AddonUnchanged, RemoveOne, SummaryTypes DEF Reject, Answer
<1>6. ASSUME NEW i \in 1 .. Len(requests), Lose(i) PROVE TypeOK'
  BY <1>6, IntegrationUnchanged, AddonUnchanged, RemoveOne DEF Lose
<1>7. ASSUME NEW i \in 1 .. Len(requests), NEW outcome \in Outcomes \union {"torn"},
             Accept(i, outcome)
      PROVE  TypeOK'
  <2>1. IntegrationTypeOK' /\ restarts' \in Nat
    BY <1>7, IntegrationUnchanged DEF Accept
  <2>2. requests' \in Seq(Snapshots)
    BY <1>7, DropPrefix DEF Accept
  <2>3. topology' \in Topologies
    <3>1. requests[i] \in Snapshots
      BY LenProperties
    <3> QED BY <1>7, <3>1 DEF Accept, Candidate, Topologies, Snapshots, AddonTypeOK
  <2>4. AddonTypeOK' /\ faults' \in Nat
    <3>1. CASE UNCHANGED <<store, marker, mem, synced, saveFailed, pend, retiredIds, newestId,
                           faults>>
      BY <2>3, <3>1 DEF AddonTypeOK
    <3> QED BY <1>7, <2>3, <3>1, HandoverType DEF Accept
  <2>5. reply' \in Summaries
    <3>1. AddonSummary' \in Summaries /\ FailedSummary' \in Summaries
      <4>1. RetirementStatus' \in {"none", "active", "retired"} /\ Known' \in BOOLEAN
        BY DEF RetirementStatus, Known
      <4>2. saveFailed' \in BOOLEAN /\ store'.quiet \in BOOLEAN
        BY <2>4 DEF AddonTypeOK
      <4>3. AddonSummary' \in Summaries
        BY <4>1, <4>2, RetiredMirrorAssumption DEF AddonSummary, Summaries
      <4> QED BY <4>3 DEF FailedSummary, Summaries
    <3> QED BY <1>7, <3>1 DEF Accept, Answer
  <2> QED BY <2>1, <2>2, <2>3, <2>4, <2>5
<1> QED
  BY <1>1, <1>2, <1>3, <1>4, <1>5, <1>6, <1>7 DEF AddonNext

\* So does every step of either process, and a step that changes nothing.
LEMMA TypeStep == TypeOK /\ [Next]_vars => TypeOK'
<1> SUFFICES ASSUME TypeOK, [Next]_vars PROVE TypeOK'
  OBVIOUS
<1>1. CASE UNCHANGED vars
  BY <1>1 DEF vars, TypeOK, IntegrationTypeOK, AddonTypeOK
<1> QED BY <1>1, IntegrationStepType, AddonStepType DEF Next

\* Every variable of both processes, their files and the network keeps its type.
THEOREM TypeCorrect == Spec => []TypeOK
BY TypeInit, TypeStep, PTL DEF Spec

-----------------------------------------------------------------------------
(* Mutual exclusion *)

\* FenceInvariant without the types: each part is named in OwnershipHandshake.
FenceParts ==
    /\ AnswerIsLast /\ RetiredAnswer /\ InitialiseAnswered /\ RecordVerified
    /\ UnloadedIsIdle /\ RetryUnfenced /\ RecordFenced

\* A fresh installation: nothing in flight, and the record is the add-on's.
LEMMA FenceInit == Init => FenceInvariant
<1> SUFFICES ASSUME Init PROVE FenceInvariant
  OBVIOUS
<1>1. TypeOK
  BY TypeInit
<1>2. ~IntegrationsRecord /\ op.step = "idle"
  BY DEF Init, IntegrationsRecord, OnIntegration, Idle
<1>3. AnswerIsLast /\ RetiredAnswer /\ RecordVerified /\ UnloadedIsIdle /\ RetryUnfenced
  BY <1>2 DEF Init, AnswerIsLast, RetiredAnswer, RecordVerified, UnloadedIsIdle, RetryUnfenced,
     NoPend, Fenced
<1> QED BY <1>1, <1>2, <1>3 DEF FenceInvariant, InitialiseAnswered, RecordFenced

\* The integration's steps: the fence itself stands still, and the record comes to
\* be the integration's only on the answer of a fenced add-on.
LEMMA IntegrationFence == FenceInvariant /\ IntegrationNext => FenceParts'
<1> SUFFICES ASSUME FenceInvariant, IntegrationNext PROVE FenceParts'
  OBVIOUS
<1> USE DEF FenceInvariant, FenceParts
<1>0. TypeOK /\ owner \in Owners /\ ownerFile \in Owners \union {"absent"} /\ op.target \in Owners
        /\ hb \in {"idle", "wait", "advance"}
  BY DEF TypeOK, IntegrationTypeOK, Ops
<1>1. ASSUME NEW outcome \in Outcomes, SaveEnd(outcome) PROVE FenceParts'
  <2>1. /\ op.step = "save" /\ op' = Idle /\ loaded' = loaded
        /\ hb' = "idle" \/ hb' = hb
        /\ UNCHANGED <<marker, pend, saveFailed, requests, reply>>
    BY <1>1 DEF SaveEnd, addon, network
  <2>2. /\ ownerFile' \in {ownerFile, op.target}
        /\ \/ owner' = owner /\ verified' = verified
           \/ owner' = op.target /\ ownerFile' = op.target
    BY <1>1 DEF SaveEnd, OnDisk
  <2>3. AnswerIsLast' /\ RetiredAnswer' /\ InitialiseAnswered' /\ UnloadedIsIdle' /\ RetryUnfenced'
    BY <2>1 DEF AnswerIsLast, RetiredAnswer, InitialiseAnswered, UnloadedIsIdle, RetryUnfenced,
       Fenced, Idle
  <2>4. RecordVerified'
    BY <2>1, <2>2 DEF RecordVerified, Idle
  <2>5. RecordFenced'
    <3>1. IntegrationsRecord' => IntegrationsRecord
      BY <2>1, <2>2 DEF IntegrationsRecord, Idle
    <3> QED BY <2>1, <3>1 DEF RecordFenced, Fenced
  <2> QED BY <2>3, <2>4, <2>5
<1>2. ASSUME NEW outcome \in Outcomes, RetireEnd(outcome) PROVE FenceParts'
  BY <1>0, <1>2
     DEF RetireEnd, AnswerIsLast, RetiredAnswer, InitialiseAnswered, RecordVerified, UnloadedIsIdle,
         RetryUnfenced, RecordFenced, IntegrationsRecord, OnIntegration, Fenced,
         intDisk, addon, network, auth, BeginSave, IsPending, Idle, Owners, Sides
<1>3. ASSUME NEW outcome \in Outcomes, CtlEnd(outcome) PROVE FenceParts'
  BY <1>0, <1>3
     DEF CtlEnd, AnswerIsLast, RetiredAnswer, InitialiseAnswered, RecordVerified, UnloadedIsIdle,
         RetryUnfenced, RecordFenced, IntegrationsRecord, OnIntegration, Fenced,
         intDisk, addon, network, auth
<1>4. ASSUME NEW outcome \in Outcomes \union {"torn"}, InitialiseEnd(outcome) PROVE FenceParts'
  BY <1>0, <1>4
     DEF InitialiseEnd, AnswerIsLast, RetiredAnswer, InitialiseAnswered, RecordVerified, UnloadedIsIdle,
         RetryUnfenced, RecordFenced, IntegrationsRecord, OnIntegration, Fenced,
         intDisk, addon, network, auth, BeginSave, IsPending, Idle, Owners, Sides
<1>5. ASSUME NEW outcome \in Outcomes \union {"torn"}, IntConfirmObserve(outcome) PROVE FenceParts'
  BY <1>0, <1>5
     DEF IntConfirmObserve, AnswerIsLast, RetiredAnswer, InitialiseAnswered, RecordVerified, UnloadedIsIdle,
         RetryUnfenced, RecordFenced, IntegrationsRecord, OnIntegration, Fenced,
         intDisk, addon, network, auth
<1>6. ASSUME NEW t \in Sides, FlowRequest(t) PROVE FenceParts'
  BY <1>0, <1>6
     DEF FlowRequest, AnswerIsLast, RetiredAnswer, InitialiseAnswered, RecordVerified, UnloadedIsIdle,
         RetryUnfenced, RecordFenced, IntegrationsRecord, OnIntegration, Fenced,
         intDisk, addon, network, auth, BeginSave, Refused, IsPending, PendingFor, Idle, Owners, Sides
<1>7. ASSUME NEW q \in {"quiet", "busy"}, CtlBegin(q) PROVE FenceParts'
  BY <1>0, <1>7
     DEF CtlBegin, AnswerIsLast, RetiredAnswer, InitialiseAnswered, RecordVerified, UnloadedIsIdle,
         RetryUnfenced, RecordFenced, IntegrationsRecord, OnIntegration, Fenced,
         intDisk, addon, network, auth
<1>8. ASSUME Load PROVE FenceParts'
  BY <1>0, <1>8
     DEF Load, AnswerIsLast, RetiredAnswer, InitialiseAnswered, RecordVerified, UnloadedIsIdle,
         RetryUnfenced, RecordFenced, IntegrationsRecord, OnIntegration, Fenced,
         intDisk, addon, network, auth, Withdrawn, IsPending, Idle, Owners, Sides
<1>9. ASSUME Commit PROVE FenceParts'
  BY <1>0, <1>9
     DEF Commit, AnswerIsLast, RetiredAnswer, InitialiseAnswered, RecordVerified, UnloadedIsIdle,
         RetryUnfenced, RecordFenced, IntegrationsRecord, OnIntegration, Fenced,
         intDisk, addon, network, auth, Drop, Idle, Owners, Sides
<1>10. ASSUME IntCrash PROVE FenceParts'
  BY <1>0, <1>10
     DEF IntCrash, AnswerIsLast, RetiredAnswer, InitialiseAnswered, RecordVerified, UnloadedIsIdle,
         RetryUnfenced, RecordFenced, IntegrationsRecord, OnIntegration, Fenced,
         intDisk, addon, network, auth, Drop, Idle, Owners, Sides
<1>11. ASSUME NEW o \in [native : BOOLEAN, rev : 0 .. MaxRevision], RestoreOptions(o) PROVE FenceParts'
  BY <1>0, <1>11
     DEF RestoreOptions, AnswerIsLast, RetiredAnswer, InitialiseAnswered, RecordVerified, UnloadedIsIdle,
         RetryUnfenced, RecordFenced, IntegrationsRecord, OnIntegration, Fenced,
         intDisk, addon, network, auth
<1>12. ASSUME Send PROVE FenceParts'
  BY <1>0, <1>12
     DEF Send, AnswerIsLast, RetiredAnswer, InitialiseAnswered, RecordVerified, UnloadedIsIdle,
         RetryUnfenced, RecordFenced, IntegrationsRecord, OnIntegration, Fenced,
         intDisk, addon, network, auth, NoSummary
<1>13. ASSUME Timeout PROVE FenceParts'
  BY <1>0, <1>13
     DEF Timeout, AnswerIsLast, RetiredAnswer, InitialiseAnswered, RecordVerified, UnloadedIsIdle,
         RetryUnfenced, RecordFenced, IntegrationsRecord, OnIntegration, Fenced,
         intDisk, addon, network, auth, NoSummary
<1>14. ASSUME Deliver PROVE FenceParts'
  BY <1>0, <1>14
     DEF Deliver, AnswerIsLast, RetiredAnswer, InitialiseAnswered, RecordVerified, UnloadedIsIdle,
         RetryUnfenced, RecordFenced, IntegrationsRecord, OnIntegration, Fenced,
         intDisk, addon, network, auth
<1>15. ASSUME Expire PROVE FenceParts'
  BY <1>0, <1>15
     DEF Expire, AnswerIsLast, RetiredAnswer, InitialiseAnswered, RecordVerified, UnloadedIsIdle,
         RetryUnfenced, RecordFenced, IntegrationsRecord, OnIntegration, Fenced,
         intDisk, addon, network, auth
<1>16. ASSUME Advance PROVE FenceParts'
  BY <1>0, <1>16
     DEF Advance, AnswerIsLast, RetiredAnswer, InitialiseAnswered, RecordVerified, UnloadedIsIdle,
         RetryUnfenced, RecordFenced, IntegrationsRecord, OnIntegration, Fenced,
         intDisk, addon, network, auth, BeginSave, Refused, IsPending, PendingFor, Withdrawn, Idle, Owners, Sides
<1> QED
  BY <1>1, <1>2, <1>3, <1>4, <1>5, <1>6, <1>7, <1>8, <1>9, <1>10, <1>11, <1>12, <1>13, <1>14, <1>15, <1>16 DEF IntegrationNext

\* The add-on's steps: only a snapshot of an add-on-owned record lifts the fence.
LEMMA AddonFence == FenceInvariant /\ AddonNext => FenceParts'
<1> SUFFICES ASSUME FenceInvariant, AddonNext PROVE FenceParts'
  OBVIOUS
<1> USE DEF FenceInvariant, FenceParts
<1>0. TypeOK /\ requests \in Seq(Snapshots) /\ hb \in {"idle", "wait", "advance"}
  BY DEF TypeOK, IntegrationTypeOK
\* A step that leaves the fence, the record and the queue alone.
<1>1. ASSUME UNCHANGED <<intDisk, intMem, network>>,
             Fenced' <=> Fenced, pend'.kind # "none" => saveFailed' /\ ~Fenced
      PROVE  FenceParts'
  BY <1>1 DEF intDisk, intMem, network, AnswerIsLast, RetiredAnswer, InitialiseAnswered,
     RecordVerified, UnloadedIsIdle, RetryUnfenced, RecordFenced, IntegrationsRecord
<1>2. ASSUME NEW outcome \in Outcomes, NEW q \in BOOLEAN, AddonSave(q, outcome) PROVE FenceParts'
  BY <1>1, <1>2 DEF AddonSave, AddonHolds, Known, Fenced, NoPend
<1>3. ASSUME NEW outcome \in Outcomes \union {"torn"}, AddonRetry(outcome) PROVE FenceParts'
  <2>1. ~Fenced
    BY <1>3 DEF AddonRetry, RetryUnfenced
  <2>2. CASE pend.kind = "initial" /\ PersistInitial(pend.id, outcome)
    BY <1>1, <1>3, <2>1, <2>2 DEF AddonRetry, PersistInitial, Fenced, NoPend
  <2>3. CASE pend.kind = "save" /\ UNCHANGED marker
    <3>1. pend'.kind # "none" => saveFailed'
      <4>1. (IF outcome = "ok" THEN pend' = NoPend ELSE pend' = pend) /\ (outcome # "ok" => saveFailed')
        BY <1>3, <2>3, Zenon DEF AddonRetry
      <4> QED BY <4>1 DEF NoPend
    <3>2. UNCHANGED <<intDisk, intMem, network>>
      BY <1>3 DEF AddonRetry
    <3>3. Fenced' <=> Fenced
      BY <2>3 DEF Fenced
    <3> QED BY <1>1, <2>1, <3>1, <3>2, <3>3
  <2> QED BY <1>3, <2>2, <2>3 DEF AddonRetry
<1>4. ASSUME NEW outcome \in Outcomes \union {"torn"}, ConfirmObserve(outcome) PROVE FenceParts'
  BY <1>1, <1>4 DEF ConfirmObserve, PersistInitial, Fenced, NoPend
<1>5. ASSUME NEW outcome \in Outcomes, AddonRestart(outcome) PROVE FenceParts'
  <2>1. UNCHANGED <<intDisk, intMem, reply, marker>> /\ requests' = <<>>
    BY <1>5 DEF AddonRestart
  <2>2. pend'.kind # "none" => saveFailed' /\ ~Fenced
    BY <1>5 DEF AddonRestart, NoPend, Fenced
  <2> QED
    BY <2>1, <2>2 DEF intDisk, intMem, AnswerIsLast, RetiredAnswer, InitialiseAnswered,
       RecordVerified, UnloadedIsIdle, RetryUnfenced, RecordFenced, IntegrationsRecord, Fenced
<1>6. ASSUME NEW i \in 1 .. Len(requests), Reject(i) \/ Lose(i) PROVE FenceParts'
  <2>1. /\ UNCHANGED <<intDisk, intMem, addon>>
        /\ requests' = RemoveAt(requests, i)
        /\ reply' \in {reply, Invalid}
        /\ reply' # reply => hb = "wait"
    BY <1>6 DEF Reject, Lose, Answer, Awaited
  <2>2. \A j \in 1 .. Len(requests') : \E k \in 1 .. Len(requests) : requests'[j] = requests[k]
    BY <1>0, <2>1, RemoveOne
  <2>3. requests # <<>>
    BY <1>0, EmptySeq
  <2>4. AnswerIsLast' /\ RetiredAnswer' /\ InitialiseAnswered'
    BY <2>1, <2>3 DEF intDisk, intMem, addon, AnswerIsLast, RetiredAnswer, InitialiseAnswered,
       Fenced, Invalid, NoSummary
  <2>5. RecordVerified' /\ UnloadedIsIdle' /\ RetryUnfenced'
    BY <2>1 DEF intDisk, intMem, addon, RecordVerified, UnloadedIsIdle, RetryUnfenced, Fenced
  <2>6. RecordFenced'
    BY <2>1, <2>2 DEF intDisk, intMem, addon, RecordFenced, IntegrationsRecord, Fenced
  <2> QED BY <2>4, <2>5, <2>6
<1>7. ASSUME NEW i \in 1 .. Len(requests), NEW outcome \in Outcomes \union {"torn"},
             Accept(i, outcome)
      PROVE  FenceParts'
  <2>1. UNCHANGED <<intDisk, intMem>> /\ requests' = SubSeq(requests, i + 1, Len(requests))
    BY <1>7 DEF Accept
  <2>2. /\ \A j \in 1 .. Len(requests') : \E k \in 1 .. Len(requests) : requests'[j] = requests[k]
        /\ i = Len(requests) => requests' = <<>>
    BY <1>0, <2>1, DropPrefix
  <2>3. requests # <<>>
    BY <1>0, EmptySeq
  <2>4. hb # "advance" /\ (hb = "wait" => reply \in {NoSummary, Invalid})
    BY <1>0, <2>3 DEF AnswerIsLast
  \* Lifting the fence takes a snapshot of an add-on-owned record.
  <2>5. Fenced /\ ~Fenced' => requests[i].owner = "addon"
    <3>1. "kind" \in DOMAIN marker
      BY <1>0 DEF TypeOK, AddonTypeOK
    <3>2. CASE RetireStore(outcome) \/ AckRetired(outcome) \/ OfferCandidate(outcome)
      BY <3>1, <3>2 DEF RetireStore, AckRetired, OfferCandidate, Fenced
    <3>3. CASE UNCHANGED marker
      BY <3>3 DEF Fenced
    <3> QED BY <1>7, <3>2, <3>3 DEF Accept
  <2>6. pend'.kind # "none" => saveFailed' /\ ~Fenced'
    <3>1. CASE RetireStore(outcome) /\ CanHandover(requests[i].owner)
      BY <3>1 DEF RetireStore, CanHandover, RetryUnfenced, Fenced, NoPend
    <3>2. CASE AckRetired(outcome) \/ OfferCandidate(outcome) \/ RestoreStore(outcome)
      BY <3>2 DEF AckRetired, OfferCandidate, RestoreStore, RetryUnfenced, Fenced
    <3>3. CASE UNCHANGED <<store, marker, mem, synced, saveFailed, pend, retiredIds, newestId,
                           faults>>
      BY <3>3 DEF RetryUnfenced, Fenced
    <3> QED BY <1>7, <3>1, <3>2, <3>3 DEF Accept
  <2>7. AnswerIsLast' /\ InitialiseAnswered' /\ RecordVerified' /\ UnloadedIsIdle' /\ RetryUnfenced'
    <3>1. AnswerIsLast'
      BY <1>7, <2>1, <2>2, <2>4 DEF Accept, Answer, Awaited, AnswerIsLast, intMem
    <3> QED
      BY <2>1, <2>4, <2>6, <3>1 DEF intDisk, intMem, InitialiseAnswered, RecordVerified,
         UnloadedIsIdle, RetryUnfenced, Fenced
  <2>8. RetiredAnswer'
    <3>1. reply' = reply \/ reply' = FailedSummary' \/ reply' = AddonSummary'
      BY <1>7 DEF Accept, Answer
    <3>2. (hb # "idle" => reply.active # "retired") /\ hb' = hb
      BY <1>0, <2>1, <2>4 DEF NoSummary, Invalid, intMem
    <3>3. FailedSummary'.active # "retired" /\ (AddonSummary'.active = "retired" => Fenced')
      BY DEF FailedSummary, AddonSummary, RetirementStatus, Fenced
    <3> QED BY <3>1, <3>2, <3>3 DEF RetiredAnswer
  <2>9. RecordFenced'
    BY <2>1, <2>2, <2>5 DEF intDisk, intMem, RecordFenced, IntegrationsRecord
  <2> QED BY <2>7, <2>8, <2>9
<1> QED
  BY <1>2, <1>3, <1>4, <1>5, <1>6, <1>7 DEF AddonNext

\* The fence's invariant is inductive.
LEMMA FenceStep == FenceInvariant /\ [Next]_vars => FenceInvariant'
<1> SUFFICES ASSUME FenceInvariant, [Next]_vars PROVE FenceInvariant'
  OBVIOUS
<1>1. TypeOK'
  BY TypeStep DEF FenceInvariant
<1>2. CASE UNCHANGED vars
  BY <1>1, <1>2 DEF vars, FenceInvariant, AnswerIsLast, RetiredAnswer, InitialiseAnswered,
     RecordVerified, UnloadedIsIdle, RetryUnfenced, RecordFenced, IntegrationsRecord, Fenced
<1>3. CASE Next
  BY <1>1, <1>3, IntegrationFence, AddonFence DEF Next, FenceInvariant, FenceParts
<1> QED BY <1>2, <1>3

\* Whatever either process does, fails to write or loses, the marker fences the
\* add-on for as long as any copy of the record, on disk, in memory or in a save
\* in flight, is on the integration's side, and no snapshot that could lift the
\* fence is in flight (async_advance, heartbeat, handover).
THEOREM FenceCorrect == Spec => []FenceInvariant
BY FenceInit, FenceStep, PTL DEF Spec

\* An integration that holds authority has a verified record of its own, so the
\* add-on's store is fenced and not known.
LEMMA FenceExcludes == FenceInvariant => SingleAuthority /\ FencedWhileIntegrations
<1> SUFFICES ASSUME FenceInvariant PROVE SingleAuthority /\ FencedWhileIntegrations
  OBVIOUS
<1>1. FencedWhileIntegrations
  BY DEF FenceInvariant, RecordFenced, IntegrationsRecord, OnIntegration,
     FencedWhileIntegrations, Side
<1>2. SingleAuthority
  BY DEF FenceInvariant, RecordFenced, IntegrationsRecord, OnIntegration, SingleAuthority,
     IntegrationHolds, AddonHolds, Known, Fenced
<1> QED BY <1>1, <1>2

\* At no time do the two processes both hold write authority, whatever is lost,
\* late, half written or restarted.
THEOREM MutualExclusion == Spec => []SingleAuthority
BY FenceCorrect, FenceExcludes, PTL

\* The add-on's disk stays fenced for as long as the record is the integration's.
THEOREM DurableFence == Spec => []FencedWhileIntegrations
BY FenceCorrect, FenceExcludes, PTL

-----------------------------------------------------------------------------
(* Retired identities stay retired *)

IdentityParts ==
    /\ IdentitiesBounded
    /\ marker.kind = "plain" => marker.id \notin retiredIds
    /\ marker.kind = "pending_addon" => marker.cand \notin retiredIds
    /\ pend.kind # "none" => pend.id \notin retiredIds

\* A fresh installation has one identity, and it is not retired.
LEMMA IdentityInit == Init => IdentityInvariant
<1> SUFFICES ASSUME Init PROVE IdentityInvariant
  OBVIOUS
<1>1. FenceInvariant
  BY FenceInit
<1>2. IdentitiesBounded
  BY DEF Init, IdentitiesBounded, NoPend
<1> QED BY <1>1, <1>2 DEF Init, IdentityInvariant, NoPend

\* Only these variables matter; a step that leaves them alone changes nothing.
LEMMA IdentityUnchanged ==
    IdentityInvariant /\ UNCHANGED <<store, marker, mem, pend, retiredIds, newestId>> => IdentityParts'
BY DEF IdentityInvariant, IdentityParts, IdentitiesBounded

\* The handler's writes retire the identity that is known, and offer only new ones.
LEMMA IdentityHandover ==
    ASSUME IdentityInvariant, NEW outcome, NEW o,
           \/ CanHandover(o) /\ (RetireStore(outcome) \/ AckRetired(outcome) \/ OfferCandidate(outcome))
           \/ RestoreStore(outcome)
    PROVE  IdentityParts'
<1> USE DEF IdentityInvariant
<1>0. /\ store.id \in Nat /\ marker.id \in Nat /\ marker.cand \in Nat /\ mem \in Nat
      /\ pend.id \in Nat /\ newestId \in Nat /\ retiredIds \subseteq Nat
  BY BoundsAssumption DEF FenceInvariant, TypeOK, AddonTypeOK, StoreIds
<1>1. ASSUME RetireStore(outcome), CanHandover(o) PROVE IdentityParts'
  <2>1. pend.kind = "none" /\ ~Fenced
    BY <1>1 DEF RetireStore, CanHandover, FenceInvariant, RetryUnfenced
  <2>2. pend'.kind = "none" /\ pend'.id <= newestId /\ mem' <= newestId
    BY <1>0, <1>1, <2>1 DEF RetireStore, NoPend, IdentitiesBounded
  <2>3. CASE UNCHANGED <<marker, retiredIds>>
    BY <1>1, <2>2, <2>3 DEF RetireStore, IdentityParts, IdentitiesBounded
  <2>4. CASE /\ marker' = [kind |-> "retired", id |-> store.id, cand |-> 0]
             /\ retiredIds' = retiredIds \union {store.id}
    BY <1>0, <1>1, <2>2, <2>4 DEF RetireStore, IdentityParts, IdentitiesBounded
  <2> QED BY <1>1, <2>3, <2>4 DEF RetireStore
<1>2. ASSUME AckRetired(outcome) PROVE IdentityParts'
  BY <1>2, IdentityUnchanged DEF AckRetired
<1>3. ASSUME OfferCandidate(outcome) PROVE IdentityParts'
  <2> DEFINE fresh == marker.kind = "retired"
             cand  == IF fresh THEN newestId + 1 ELSE marker.cand
  <2>1. /\ DOMAIN marker = {"kind", "id", "cand"}
        /\ UNCHANGED <<mem, pend, retiredIds>>
        /\ marker.kind \in {"retired", "pending_addon"}
    BY <1>3 DEF OfferCandidate, Fenced, FenceInvariant, TypeOK, AddonTypeOK
  <2>2. cand \notin retiredIds
    BY <1>0, <2>1 DEF IdentitiesBounded
  <2>3. CASE outcome = "before"
    BY <1>3, <2>3, IdentityUnchanged DEF OfferCandidate, OnDisk
  <2>4. CASE outcome # "before"
    <3>1. marker' = [marker EXCEPT !.kind = "pending_addon", !.cand = cand]
      BY <1>3, <2>4 DEF OfferCandidate
    <3>2. store' = store \/ store' = [id |-> cand, quiet |-> TRUE]
      BY <1>3 DEF OfferCandidate
    <3>3. newestId <= newestId' /\ cand <= newestId' /\ newestId' \in Nat
      BY <1>0, <1>3, <2>1, <2>4 DEF OfferCandidate, IdentitiesBounded
    <3> HIDE DEF cand
    <3>4. marker'.kind = "pending_addon" /\ marker'.cand = cand /\ marker'.id = marker.id
      BY <2>1, <3>1
    <3>5. store'.id <= newestId'
      BY <1>0, <3>2, <3>3 DEF IdentitiesBounded
    <3>6. IdentitiesBounded'
      BY <1>0, <2>1, <3>3, <3>4, <3>5 DEF IdentitiesBounded
    <3> QED BY <2>1, <2>2, <3>4, <3>6 DEF IdentityParts
  <2> QED BY <2>3, <2>4
<1>4. ASSUME RestoreStore(outcome) PROVE IdentityParts'
  <2>1. marker.kind = "pending_addon" /\ marker.cand \notin retiredIds
    BY <1>4 DEF RestoreStore
  <2>2. marker' = marker \/ marker' = [kind |-> "plain", id |-> marker.cand, cand |-> 0]
    BY <1>4 DEF RestoreStore
  <2>3. mem' = mem \/ mem' = marker.cand
    BY <1>4 DEF RestoreStore
  <2>4. UNCHANGED <<store, pend, retiredIds, newestId>>
    BY <1>4 DEF RestoreStore
  <2> QED BY <1>0, <2>1, <2>2, <2>3, <2>4 DEF IdentityParts, IdentitiesBounded
<1> QED BY <1>1, <1>2, <1>3, <1>4

\* A store written whole or in part under an identity that was never retired.
LEMMA IdentityPersist ==
    ASSUME IdentityInvariant, NEW id \in Nat, NEW outcome, PersistInitial(id, outcome),
           id \notin retiredIds, id <= newestId', newestId <= newestId', newestId' \in Nat,
           UNCHANGED retiredIds
    PROVE  IdentityParts'
<1> USE DEF IdentityInvariant
<1>0. /\ store.id \in Nat /\ marker.id \in Nat /\ marker.cand \in Nat /\ mem \in Nat
      /\ pend.id \in Nat /\ newestId \in Nat /\ retiredIds \subseteq Nat
  BY BoundsAssumption DEF FenceInvariant, TypeOK, AddonTypeOK, StoreIds
<1>1. store' = store \/ store' = [id |-> id, quiet |-> TRUE]
  BY DEF PersistInitial
<1>2. marker' = marker \/ marker' = [kind |-> "plain", id |-> id, cand |-> 0]
  BY DEF PersistInitial
<1>3. pend' = NoPend \/ pend' = [kind |-> "initial", id |-> id, quiet |-> TRUE]
  BY DEF PersistInitial
<1>4. mem' = mem \/ mem' = id
  BY DEF PersistInitial
<1>5. IdentitiesBounded'
  BY <1>0, <1>1, <1>2, <1>3, <1>4 DEF IdentitiesBounded, NoPend
<1> QED BY <1>2, <1>3, <1>5 DEF IdentityParts, NoPend

\* The identities' invariant is inductive.
LEMMA IdentityStep == IdentityInvariant /\ [Next]_vars => IdentityInvariant'
<1> SUFFICES ASSUME IdentityInvariant, [Next]_vars PROVE IdentityParts'
  BY FenceStep DEF IdentityInvariant, IdentityParts
<1> USE DEF IdentityInvariant
<1>0. /\ store.id \in Nat /\ marker.id \in Nat /\ marker.cand \in Nat /\ mem \in Nat
      /\ pend.id \in Nat /\ newestId \in Nat /\ retiredIds \subseteq Nat
      /\ pend.kind \in {"none", "save", "initial"}
  BY BoundsAssumption DEF FenceInvariant, TypeOK, AddonTypeOK, StoreIds
<1>1. CASE UNCHANGED vars
  BY <1>1, IdentityUnchanged DEF vars
<1>2. CASE IntegrationNext
  BY <1>2, IdentityUnchanged DEF IntegrationNext, SaveEnd, RetireEnd, CtlEnd, InitialiseEnd,
     IntConfirmObserve, FlowRequest, CtlBegin, Load, Commit, IntCrash, RestoreOptions, Send,
     Timeout, Deliver, Expire, Advance, addon
<1>3. ASSUME NEW outcome \in Outcomes, NEW q \in BOOLEAN, AddonSave(q, outcome) PROVE IdentityParts'
  <2>1. /\ marker.kind = "plain" /\ mem = marker.id /\ mem = store.id
        /\ UNCHANGED <<marker, mem, retiredIds, newestId>>
    BY <1>3 DEF AddonSave, AddonHolds, Known
  <2>2. pend' = NoPend \/ pend' = [kind |-> "save", id |-> mem, quiet |-> q]
    BY <1>3 DEF AddonSave
  <2>3. store'.id = store.id
    BY <1>3 DEF AddonSave, FenceInvariant, TypeOK, AddonTypeOK
  <2>4. (pend'.kind = "none" /\ pend'.id = 0) \/ pend'.id = mem
    BY <2>2 DEF NoPend
  <2>5. IdentitiesBounded'
    <3>1. 0 <= newestId /\ mem <= newestId
      BY <1>0 DEF IdentitiesBounded
    <3>2. pend'.id <= newestId'
      BY <2>1, <2>4, <3>1
    <3> HIDE DEF IdentityInvariant
    <3> QED BY <2>1, <2>3, <3>2 DEF IdentityInvariant, IdentitiesBounded
  <2> QED BY <2>1, <2>4, <2>5 DEF IdentityParts
<1>4. ASSUME NEW outcome \in Outcomes \union {"torn"}, AddonRetry(outcome) PROVE IdentityParts'
  <2>1. CASE pend.kind = "initial" /\ PersistInitial(pend.id, outcome)
    BY <1>0, <1>4, <2>1, IdentityPersist DEF AddonRetry, IdentitiesBounded
  <2>2. CASE pend.kind = "save" /\ UNCHANGED marker
    <3>1. (pend' = NoPend \/ pend' = pend) /\ (mem' = mem \/ mem' = pend.id)
      <4>1. IF outcome = "ok" THEN pend' = NoPend /\ mem' = pend.id ELSE pend' = pend /\ mem' = mem
        BY <1>4, <2>2, Zenon DEF AddonRetry
      <4> QED BY <4>1
    <3>2. store'.id = store.id
      BY <1>4, <2>2 DEF AddonRetry, FenceInvariant, TypeOK, AddonTypeOK
    <3>3. UNCHANGED <<retiredIds, newestId>>
      BY <1>4 DEF AddonRetry
    <3> QED BY <1>0, <2>2, <3>1, <3>2, <3>3 DEF IdentityParts, IdentitiesBounded, NoPend
  <2> QED BY <1>4, <2>1, <2>2 DEF AddonRetry
<1>5. ASSUME NEW outcome \in Outcomes \union {"torn"}, ConfirmObserve(outcome) PROVE IdentityParts'
  <2>1. newestId + 1 \notin retiredIds
    BY <1>0 DEF IdentitiesBounded
  <2> QED BY <1>0, <1>5, <2>1, IdentityPersist DEF ConfirmObserve
<1>6. ASSUME NEW outcome \in Outcomes, AddonRestart(outcome) PROVE IdentityParts'
  <2>1. UNCHANGED <<store, marker, retiredIds, newestId>>
    BY <1>6 DEF AddonRestart
  <2>2. /\ mem' \in {0, store.id}
        /\ \/ pend' = NoPend
           \/ marker.kind = "plain" /\ marker.id = store.id
                /\ pend' = [kind |-> "save", id |-> store.id, quiet |-> store.quiet]
    BY <1>6 DEF AddonRestart
  <2> QED BY <1>0, <2>1, <2>2 DEF IdentityParts, IdentitiesBounded, NoPend
<1>7. ASSUME NEW i \in 1 .. Len(requests), Reject(i) \/ Lose(i) PROVE IdentityParts'
  BY <1>7, IdentityUnchanged DEF Reject, Lose, addon
<1>8. ASSUME NEW i \in 1 .. Len(requests), NEW outcome \in Outcomes \union {"torn"},
             Accept(i, outcome)
      PROVE  IdentityParts'
  BY <1>8, IdentityUnchanged, IdentityHandover DEF Accept
<1>9. CASE AddonNext
  BY <1>3, <1>4, <1>5, <1>6, <1>7, <1>8, <1>9 DEF AddonNext
<1> QED BY <1>1, <1>2, <1>9 DEF Next

\* No sequence of retirements, rollbacks, repairs, failed writes and restarts makes a
\* retired store identity known authority again.
THEOREM RetiredForGood == Spec => []NoResurrection
<1>1. IdentityInvariant => NoResurrection
  BY DEF IdentityInvariant, NoResurrection, Known
<1> QED BY IdentityInit, IdentityStep, <1>1, PTL DEF Spec
-----------------------------------------------------------------------------
(* The protocol implements AuthorityGrant *)

GrantParts == SavesForward /\ HandoverHeld /\ QuietFence /\ QuietSide

\* A fresh installation has no save, no work and no fence.
LEMMA GrantInit == Init => GrantInvariant
<1> SUFFICES ASSUME Init PROVE GrantInvariant
  OBVIOUS
<1>1. FenceInvariant
  BY FenceInit
<1>2. SavesForward /\ HandoverHeld /\ QuietFence /\ QuietSide
  BY DEF Init, Idle, SavesForward, HandoverHeld, QuietFence, QuietSide, IntegrationBusy
<1> QED BY <1>1, <1>2 DEF GrantInvariant

\* A verified record is the one on disk, whichever side is asked for next.
LEMMA RecordOnDisk ==
    ASSUME FenceInvariant, verified
    PROVE  /\ op.step # "save"
           /\ owner # "addon" => ownerFile = owner
           /\ owner = "addon" => ownerFile \in {"addon", "absent"}
           /\ owner \in {"addon", "integration", "pending_integration", "pending_addon"}
BY DEF FenceInvariant, RecordVerified, TypeOK, IntegrationTypeOK, Owners, Sides

\* Steps that leave the record, the saves, both stores and the fence alone.
LEMMA GrantUnchanged ==
    ASSUME GrantInvariant,
           UNCHANGED <<ownerFile, op, ctl, authFile, authQuiet, owner, verified, marker, store>>
    PROVE  GrantParts'
BY DEF GrantInvariant, GrantParts, SavesForward, HandoverHeld, QuietFence, QuietSide, Side,
   IntegrationBusy, Fenced

\* The entry's objects go away in the middle of any write of theirs.
LEMMA GrantDrop ==
    ASSUME GrantInvariant, Drop, UNCHANGED <<store, marker>>
    PROVE  GrantParts'
<1> USE DEF GrantInvariant
<1>1. SavesForward' /\ HandoverHeld'
  BY DEF Drop, Idle, SavesForward, HandoverHeld
<1>2. QuietFence'
  BY DEF QuietFence, Fenced
<1>3. ctl' = "idle"
  BY DEF Drop
<1>4. CASE UNCHANGED ownerFile
  <2>1. Side' = Side
    BY <1>4 DEF Side
  <2>2. Side = "addon" => ~IntegrationBusy'
    BY DEF Drop, QuietSide, IntegrationBusy
  <2> QED BY <1>1, <1>2, <1>3, <2>1, <2>2 DEF GrantParts, QuietSide
<1>5. CASE op.step = "save" /\ ownerFile' = op.target
  <2>1. CASE ctl = "idle"
    <3>1. UNCHANGED <<authFile, authQuiet>>
      BY <1>5, <2>1 DEF Drop
    <3>2. Side' = "addon" => Side = "addon" \/ authFile = "retired"
      BY <1>5 DEF SavesForward, Side, IsPending
    <3> QED BY <1>1, <1>2, <1>3, <3>1, <3>2 DEF GrantParts, QuietSide, IntegrationBusy
  <2>2. CASE ctl # "idle"
    <3>1. Side = "integration"
      BY <2>2 DEF QuietSide, Side
    <3>2. Side' = "integration"
      BY <1>5, <2>2, <3>1 DEF SavesForward, Side, IsPending
    <3> QED BY <1>1, <1>2, <1>3, <3>2 DEF GrantParts, QuietSide
  <2> QED BY <2>1, <2>2
<1> QED BY <1>4, <1>5 DEF Drop

\* What a save that begins needs: the record it replaces.
LEMMA GrantBegins ==
    ASSUME GrantInvariant, NEW target, NEW why, BeginSave(target, why), verified,
           UNCHANGED <<ownerFile, ctl, store, marker>>,
           Side = "addon" => ~IntegrationBusy',
           \/ target = "pending_integration" /\ owner = "addon"
           \/ target = "pending_addon" /\ owner = "integration"
           \/ target = "integration" /\ IsPending(owner)
           \/ target = "addon" /\ owner = "pending_integration"
           \/ target = "addon" /\ owner = "pending_addon" /\ ctl = "idle" /\ authFile' = "retired"
    PROVE  GrantParts'
<1> USE DEF GrantInvariant
<1>1. op'.step = "save" /\ op'.target = target
  BY DEF BeginSave
<1>2. /\ owner = "addon" => ownerFile \in {"addon", "absent"}
      /\ owner # "addon" => ownerFile = owner
  BY RecordOnDisk
<1>3. SavesForward'
  BY <1>1, <1>2 DEF SavesForward, IsPending
<1>4. HandoverHeld'
  BY <1>1 DEF HandoverHeld
<1>5. QuietFence' /\ QuietSide'
  BY DEF QuietFence, Fenced, QuietSide, Side
<1> QED BY <1>3, <1>4, <1>5 DEF GrantParts

\* Every step of the integration keeps the save in flight, and the work, on the side
\* of the record.
LEMMA IntegrationGrant == GrantInvariant /\ IntegrationNext => GrantParts'
<1> SUFFICES ASSUME GrantInvariant, IntegrationNext PROVE GrantParts'
  OBVIOUS
<1> USE DEF GrantInvariant
<1>1. ASSUME NEW outcome \in Outcomes, SaveEnd(outcome) PROVE GrantParts'
  <2>1. /\ op' = Idle /\ op.step = "save"
        /\ UNCHANGED <<authFile, authQuiet, ctl, store, marker>>
        /\ ownerFile' = ownerFile \/ ownerFile' = op.target
    BY <1>1 DEF SaveEnd, addon
  <2>2. SavesForward' /\ HandoverHeld' /\ QuietFence'
    BY <2>1 DEF Idle, SavesForward, HandoverHeld, QuietFence, Fenced
  <2>3. Side' = "addon" => Side = "addon" \/ (authFile = "retired" /\ ctl = "idle")
    BY <2>1 DEF SavesForward, Side, IsPending
  <2>4. QuietSide'
    BY <2>1, <2>3 DEF QuietSide, IntegrationBusy
  <2> QED BY <2>2, <2>4 DEF GrantParts
<1>2. ASSUME NEW outcome \in Outcomes, RetireEnd(outcome) PROVE GrantParts'
  <2>1. /\ op.step = "retire" /\ ctl = "idle" /\ verified /\ owner = "pending_addon"
        /\ UNCHANGED <<ownerFile, authQuiet, ctl, store, marker>>
    BY <1>2 DEF RetireEnd, HandoverHeld, addon
  <2>2. Side = "integration"
    BY <2>1, RecordOnDisk DEF Side
  <2>3. CASE BeginSave("addon", "advance") /\ authFile' = "retired"
    BY <2>1, <2>2, <2>3, GrantBegins
  <2>4. CASE op' = Idle
    BY <2>1, <2>2, <2>4 DEF Idle, GrantParts, SavesForward, HandoverHeld, QuietFence, Fenced,
       QuietSide, Side
  <2> QED BY <1>2, <2>3, <2>4 DEF RetireEnd, OnDisk
<1>3. ASSUME NEW outcome \in Outcomes, CtlEnd(outcome) PROVE GrantParts'
  <2>1. /\ ctl # "idle" /\ ctl' = "idle"
        /\ UNCHANGED <<ownerFile, authFile, op, owner, verified, store, marker>>
    BY <1>3 DEF CtlEnd, addon
  <2>2. Side' # "addon"
    BY <2>1 DEF QuietSide, Side
  <2> QED
    BY <2>1, <2>2 DEF GrantParts, SavesForward, HandoverHeld, QuietFence, Fenced, QuietSide
<1>4. ASSUME NEW outcome \in Outcomes \union {"torn"}, InitialiseEnd(outcome) PROVE GrantParts'
  <2>1. /\ op.step = "initialise" /\ ctl = "idle" /\ verified /\ owner = "pending_integration"
        /\ UNCHANGED <<ownerFile, ctl, store, marker>>
    BY <1>4 DEF InitialiseEnd, HandoverHeld, addon
  <2>2. Side = "addon" => ~IntegrationBusy'
    BY <1>4, <2>1 DEF InitialiseEnd, QuietSide, IntegrationBusy, auth
  <2>3. BeginSave("integration", "advance") \/ (op' = Idle /\ UNCHANGED <<owner, verified>>)
    BY <1>4 DEF InitialiseEnd
  <2>4. CASE BeginSave("integration", "advance")
    BY <2>1, <2>2, <2>4, GrantBegins DEF IsPending
  <2>5. CASE op' = Idle
    BY <2>1, <2>2, <2>5 DEF Idle, GrantParts, SavesForward, HandoverHeld, QuietFence, Fenced,
       QuietSide, Side
  <2> QED BY <2>3, <2>4, <2>5
<1>5. ASSUME NEW outcome \in Outcomes \union {"torn"}, IntConfirmObserve(outcome) PROVE GrantParts'
  <2>1. /\ authFile # "retired"
        /\ UNCHANGED <<ownerFile, op, owner, verified, ctl, store, marker>>
    BY <1>5 DEF IntConfirmObserve, addon
  <2>2. IntegrationBusy' => IntegrationBusy
    BY <1>5 DEF IntConfirmObserve, IntegrationBusy
  <2>3. SavesForward'
    BY <2>1 DEF SavesForward
  <2> QED
    BY <2>1, <2>2, <2>3 DEF GrantParts, HandoverHeld, QuietFence, Fenced, QuietSide, Side
<1>6. ASSUME NEW t \in Sides, FlowRequest(t) PROVE GrantParts'
  <2>1. /\ verified /\ ~IsPending(owner) /\ op = Idle
        /\ UNCHANGED <<ownerFile, authFile, authQuiet, ctl, store, marker>>
    BY <1>6 DEF FlowRequest, Refused, intDisk, addon
  <2>2. CASE UNCHANGED <<op, owner, verified>>
    BY <2>1, <2>2, GrantUnchanged
  <2>3. CASE t # owner /\ BeginSave(PendingFor(t), "request")
    <3>1. \/ PendingFor(t) = "pending_integration" /\ owner = "addon"
          \/ PendingFor(t) = "pending_addon" /\ owner = "integration"
      BY <2>1, <2>3, RecordOnDisk DEF PendingFor, IsPending, Sides
    <3>2. Side = "addon" => ~IntegrationBusy'
      BY <2>1 DEF QuietSide, IntegrationBusy
    <3> QED BY <2>1, <2>3, <3>1, <3>2, GrantBegins
  <2> QED BY <1>6, <2>2, <2>3 DEF FlowRequest
<1>7. ASSUME NEW q \in {"quiet", "busy"}, CtlBegin(q) PROVE GrantParts'
  <2>1. /\ verified /\ owner = "integration" /\ ctl = "idle"
        /\ UNCHANGED <<ownerFile, authFile, authQuiet, op, owner, verified, store, marker>>
    BY <1>7 DEF CtlBegin, IntegrationHolds, intDisk, addon
  <2>2. op.step # "save" /\ Side = "integration"
    BY <2>1, RecordOnDisk DEF Side
  <2> QED
    BY <2>1, <2>2 DEF GrantParts, SavesForward, HandoverHeld, QuietFence, Fenced, QuietSide, Side
<1>8. CASE Load
  <2>1. UNCHANGED <<ownerFile, authFile, authQuiet, ctl, store, marker>>
    BY <1>8 DEF Load, intDisk, addon
  <2>2. op = Idle
    BY <1>8 DEF Load, FenceInvariant, UnloadedIsIdle
  <2>3. \/ op' = Idle
        \/ /\ IsPending(ownerFile)
           /\ op' = [step |-> "save", target |-> Withdrawn(ownerFile), why |-> "load"]
    BY <1>8, <2>2 DEF Load, IsPending
  <2>4. SavesForward' /\ HandoverHeld'
    BY <2>1, <2>3 DEF SavesForward, HandoverHeld, IsPending, Withdrawn, Idle
  <2>5. QuietFence' /\ QuietSide'
    BY <2>1 DEF QuietFence, Fenced, QuietSide, Side, IntegrationBusy
  <2> QED BY <2>4, <2>5 DEF GrantParts
<1>9. CASE Commit
  BY <1>9, GrantDrop DEF Commit, addon
<1>10. CASE IntCrash
  BY <1>10, GrantDrop DEF IntCrash, addon
<1>11. ASSUME NEW o \in [native : BOOLEAN, rev : 0 .. MaxRevision], RestoreOptions(o)
       PROVE  GrantParts'
  BY <1>11, GrantUnchanged DEF RestoreOptions, auth, addon
<1>12. CASE Send \/ Timeout \/ Deliver \/ Expire
  BY <1>12, GrantUnchanged DEF Send, Timeout, Deliver, Expire, intDisk, addon
<1>13. CASE Advance
  <2>1. /\ op = Idle
        /\ UNCHANGED <<ownerFile, authFile, authQuiet, ctl, store, marker>>
    BY <1>13 DEF Advance, intDisk, addon
  <2>2. Side = "addon" => ~IntegrationBusy'
    BY <2>1 DEF QuietSide, IntegrationBusy
  <2>3. ASSUME ~Refused(IF owner = "addon" THEN "integration" ELSE "addon", reply),
               BeginSave(PendingFor(IF owner = "addon" THEN "integration" ELSE "addon"), "advance")
        PROVE  GrantParts'
    <3>1. verified /\ ~IsPending(owner)
      BY <2>3 DEF Refused
    <3>2. CASE owner = "addon"
      BY <2>1, <2>2, <2>3, <3>1, <3>2, GrantBegins DEF PendingFor
    <3>3. CASE owner # "addon"
      <4>1. owner = "integration"
        BY <3>1, <3>3, RecordOnDisk DEF IsPending
      <4> QED BY <2>1, <2>2, <2>3, <3>1, <4>1, GrantBegins DEF PendingFor
    <3> QED BY <3>2, <3>3
  <2>4. ASSUME verified, IsPending(owner), BeginSave(Withdrawn(owner), "advance") PROVE GrantParts'
    <3>1. CASE owner = "pending_integration"
      BY <2>1, <2>2, <2>4, <3>1, GrantBegins DEF Withdrawn
    <3>2. CASE owner = "pending_addon"
      BY <2>1, <2>2, <2>4, <3>2, GrantBegins DEF Withdrawn
    <3> QED BY <2>4, <3>1, <3>2 DEF IsPending
  <2>5. ASSUME verified, IsPending(owner), BeginSave("integration", "advance") PROVE GrantParts'
    BY <2>1, <2>2, <2>5, GrantBegins
  <2>6. ASSUME verified, UNCHANGED <<owner, verified>>,
               \/ owner = "pending_integration" /\ op'.step = "initialise"
               \/ owner = "pending_addon" /\ op'.step = "retire"
        PROVE  GrantParts'
    BY <2>1, <2>2, <2>6 DEF GrantParts, SavesForward, HandoverHeld, QuietFence, Fenced, QuietSide, Side
  <2>7. CASE UNCHANGED <<op, owner, verified>>
    BY <2>1, <2>7, GrantUnchanged
  <2> QED BY <1>13, <2>3, <2>4, <2>5, <2>6, <2>7 DEF Advance
<1> QED
  BY <1>1, <1>2, <1>3, <1>4, <1>5, <1>6, <1>7, <1>8, <1>9, <1>10, <1>11, <1>12, <1>13
     DEF IntegrationNext

\* The add-on fences its store only when it is quiet, and works only unfenced.
LEMMA AddonGrant == GrantInvariant /\ AddonNext => GrantParts'
<1> SUFFICES ASSUME GrantInvariant, AddonNext PROVE GrantParts'
  OBVIOUS
<1> USE DEF GrantInvariant
<1>1. UNCHANGED <<ownerFile, op, ctl, authFile, authQuiet, owner, verified>>
  <2>1. UNCHANGED <<intDisk, intMem>>
    BY DEF AddonNext, AddonSave, AddonRestart, AddonRetry, ConfirmObserve, Reject, Lose, Accept
  <2> QED BY <2>1 DEF intDisk, intMem
<1>2. SavesForward' /\ HandoverHeld' /\ QuietSide'
  BY <1>1 DEF SavesForward, HandoverHeld, QuietSide, Side, IntegrationBusy
<1>3. marker \in [kind : {"plain", "retired", "pending_addon"}, id : StoreIds, cand : StoreIds]
        /\ store \in [id : StoreIds, quiet : BOOLEAN]
  BY DEF FenceInvariant, TypeOK, AddonTypeOK
<1>4. ASSUME NEW outcome \in Outcomes, NEW q \in BOOLEAN, AddonSave(q, outcome) PROVE QuietFence'
  BY <1>4 DEF AddonSave, AddonHolds, Known, QuietFence, Fenced
<1>5. ASSUME NEW id, NEW outcome, PersistInitial(id, outcome) PROVE QuietFence'
  <2>1. marker' = marker \/ marker'.kind = "plain"
    BY <1>5 DEF PersistInitial
  <2>2. store' = store \/ store'.quiet
    BY <1>5 DEF PersistInitial
  <2> QED BY <2>1, <2>2 DEF QuietFence, Fenced
<1>6. ASSUME NEW outcome \in Outcomes \union {"torn"}, AddonRetry(outcome) PROVE QuietFence'
  BY <1>5, <1>6 DEF AddonRetry, QuietFence, Fenced
<1>7. ASSUME NEW outcome \in Outcomes \union {"torn"}, ConfirmObserve(outcome) PROVE QuietFence'
  BY <1>5, <1>7 DEF ConfirmObserve
<1>8. ASSUME UNCHANGED <<store, marker>> PROVE QuietFence'
  BY <1>8 DEF QuietFence, Fenced
<1>9. ASSUME NEW i \in 1 .. Len(requests), NEW outcome \in Outcomes \union {"torn"},
             Accept(i, outcome)
      PROVE  QuietFence'
  <2>1. CASE CanHandover(requests[i].owner) /\ RetireStore(outcome)
    BY <2>1 DEF CanHandover, RetireStore, QuietFence
  <2>2. CASE AckRetired(outcome)
    BY <1>8, <2>2 DEF AckRetired
  <2>3. CASE CanHandover(requests[i].owner) /\ OfferCandidate(outcome)
    <3>1. store.quiet
      BY <2>3 DEF CanHandover
    <3>2. store' = store \/ store'.quiet
      BY <2>3 DEF OfferCandidate
    <3> QED BY <3>1, <3>2 DEF QuietFence
  <2>4. CASE RestoreStore(outcome)
    BY <1>8, <2>4 DEF RestoreStore, QuietFence, Fenced
  <2>5. CASE UNCHANGED <<store, marker, mem, synced, saveFailed, pend, retiredIds, newestId,
                         faults>>
    BY <1>8, <2>5
  <2> QED BY <1>9, <2>1, <2>2, <2>3, <2>4, <2>5 DEF Accept
<1>10. QuietFence'
  BY <1>4, <1>6, <1>7, <1>8, <1>9 DEF AddonNext, AddonRestart, Reject, Lose, addon
<1> QED BY <1>2, <1>10 DEF GrantParts

\* The invariant of the promise is inductive.
LEMMA GrantStep == GrantInvariant /\ [Next]_vars => GrantInvariant'
<1> SUFFICES ASSUME GrantInvariant, [Next]_vars PROVE GrantParts'
  BY FenceStep DEF GrantInvariant, GrantParts
<1>1. CASE UNCHANGED vars
  BY <1>1, GrantUnchanged DEF vars
<1> QED BY <1>1, IntegrationGrant, AddonGrant DEF Next

\* Authority is held for the side of the record, and the other side has no work in hand.
HeldForRecord ==
    /\ IntegrationHolds => Side = "integration"
    /\ AddonHolds => Side = "addon"
    /\ Side = "addon" => ~IntegrationBusy
    /\ Side = "integration" => store.quiet
    /\ Side \in Sides

LEMMA GrantHeld == GrantInvariant => HeldForRecord
<1> SUFFICES ASSUME GrantInvariant PROVE HeldForRecord
  OBVIOUS
<1> USE DEF GrantInvariant
<1>1. Side = "integration" => Fenced
  BY FenceExcludes DEF FencedWhileIntegrations
<1>2. IntegrationHolds => Side = "integration"
  BY RecordOnDisk DEF IntegrationHolds, Side
<1> QED
  BY <1>1, <1>2 DEF HeldForRecord, AddonHolds, Known, Fenced, QuietSide, QuietFence, Side, Sides

\* The record changes sides only by a settling save, verified or not, and then nobody
\* holds authority, no work is in hand, and neither store is written.
LEMMA SidesChange ==
    ASSUME GrantInvariant, Next, Side' # Side
    PROVE  /\ ~IntegrationHolds /\ ~AddonHolds /\ ~AddonHolds' /\ store.quiet /\ ~IntegrationBusy
           /\ UNCHANGED <<store, authFile, authQuiet>>
<1> USE DEF GrantInvariant
<1>1. ownerFile' # ownerFile
  BY DEF Side
<1>2. /\ op.step = "save" /\ ownerFile' = op.target /\ UNCHANGED <<store, marker>>
      /\ (\E outcome \in Outcomes : SaveEnd(outcome)) \/ Drop
  <2>1. ASSUME NEW outcome \in Outcomes, SaveEnd(outcome) PROVE <1>2!1
    BY <1>1, <2>1 DEF SaveEnd, addon
  <2>2. CASE Commit \/ IntCrash
    BY <1>1, <2>2 DEF Commit, IntCrash, Drop, addon
  <2>3. CASE AddonNext
    <3>1. UNCHANGED intDisk
      BY <2>3 DEF AddonNext, AddonSave, AddonRestart, AddonRetry, ConfirmObserve, Reject, Lose, Accept
    <3> QED BY <1>1, <3>1 DEF intDisk
  <2>4. CASE IntegrationNext /\ ~(\E outcome \in Outcomes : SaveEnd(outcome)) /\ ~Commit /\ ~IntCrash
    BY <1>1, <2>4 DEF IntegrationNext, RetireEnd, CtlEnd, InitialiseEnd, IntConfirmObserve,
       FlowRequest, CtlBegin, Load, RestoreOptions, Send, Timeout, Deliver, Expire, Advance, intDisk
  <2> QED BY <1>1, <2>1, <2>2, <2>3, <2>4 DEF Next, SaveEnd, addon
<1>3. ~verified
  BY <1>2, RecordOnDisk
<1>4. Fenced
  BY <1>2 DEF Side, FenceInvariant, RecordFenced, IntegrationsRecord, OnIntegration
<1>5. ctl = "idle" /\ ~IntegrationBusy
  BY <1>2 DEF SavesForward, QuietSide, Side, IsPending, IntegrationBusy
<1>6. UNCHANGED <<authFile, authQuiet>>
  BY <1>2, <1>5 DEF SaveEnd, Drop
<1> QED
  BY <1>2, <1>3, <1>4, <1>5, <1>6 DEF IntegrationHolds, AddonHolds, Known, Fenced, QuietFence

\* Every behaviour of the two processes, their files and the network is a behaviour of
\* AuthorityGrant: each step operates for the side the record names or, when the record
\* changes sides, finds nobody holding authority and nobody at work.
THEOREM PromiseKeptByHandshake == Spec => ImplementsGrant
<1> DEFINE holder == IF IntegrationHolds THEN "integration" ELSE IF AddonHolds THEN "addon" ELSE "none"
           busy   == [s \in Sides |-> IF s = "addon" THEN ~store.quiet ELSE IntegrationBusy]
<1>1. Init => Grant!Init
  <2> SUFFICES ASSUME Init PROVE Grant!Init
    OBVIOUS
  <2>1. Side = "addon" /\ ~IntegrationHolds /\ store.quiet /\ ~IntegrationBusy
    BY DEF Init, Side, IntegrationHolds, IntegrationBusy
  <2>2. holder \in {"none", "addon"}
    BY <2>1
  <2>3. (~store.quiet) = FALSE /\ IntegrationBusy = FALSE
    BY DEF Init, IntegrationBusy
  <2>4. busy = [s \in {"addon", "integration"} |-> IF s = "addon" THEN FALSE ELSE FALSE]
    BY <2>3, Zenon DEF Sides
  <2>5. busy = [s \in {"addon", "integration"} |-> FALSE]
    BY <2>4
  <2> QED BY <2>1, <2>2, <2>5 DEF Grant!Init, Grant!Parties
<1>2. GrantInvariant' => HeldForRecord'
  BY GrantHeld, PTL
<1>3. GrantInvariant /\ GrantInvariant' /\ [Next]_vars => [Grant!Next]_(Grant!vars)
  <2> SUFFICES ASSUME GrantInvariant, GrantInvariant', [Next]_vars
               PROVE  [Grant!Next]_(Grant!vars)
    OBVIOUS
  <2>1. HeldForRecord /\ HeldForRecord'
    BY <1>2, GrantHeld
  <2>2. holder' \in {"none", Side'}
    BY <2>1 DEF HeldForRecord
  <2>3. CASE Side' = Side
    <3>1. ~busy'["integration"] \/ Side = "integration"
      BY <2>1, <2>3 DEF HeldForRecord, Sides
    <3>2. ~busy'["addon"] \/ Side = "addon"
      BY <2>1, <2>3 DEF HeldForRecord, Sides
    <3>3. busy' \in [Sides -> BOOLEAN]
      BY DEF IntegrationBusy
    <3> HIDE DEF holder, busy
    <3>4. \A s \in {"addon", "integration"} \ {Side} : busy'[s] => busy[s]
      BY <3>1, <3>2
    <3> QED
      BY <2>2, <2>3, <3>3, <3>4 DEF Grant!Next, Grant!Operate, Grant!Parties, Sides, holder, busy
  <2>4. CASE Side' # Side
    <3>1. Next
      BY <2>4 DEF vars, Side
    <3>2. /\ ~IntegrationHolds /\ ~AddonHolds /\ ~AddonHolds' /\ store.quiet /\ ~IntegrationBusy
          /\ UNCHANGED <<store, authFile, authQuiet>>
      BY <2>4, <3>1, SidesChange
    <3>3. holder = "none"
      BY <3>2
    <3>4. busy' = busy
      BY <3>2 DEF IntegrationBusy
    <3>5. \A s \in Sides : ~busy[s]
      BY <3>2, Zenon DEF Sides
    <3>6. Side' \in Sides
      BY <2>1 DEF HeldForRecord
    <3> HIDE DEF holder, busy
    <3> QED
      BY <2>2, <2>4, <3>3, <3>4, <3>5, <3>6 DEF Grant!Next, Grant!Switch, Grant!Parties, Sides, holder, busy
  <2> QED BY <2>3, <2>4
<1> QED BY <1>1, <1>3, GrantInit, GrantStep, PTL DEF Spec, ImplementsGrant, Grant!Spec
=============================================================================
