-------------------------- MODULE OwnershipHandshake --------------------------
(***************************************************************************)
(* The durable hand-over of write authority between the two processes of   *)
(* ha-spark: the add-on daemon (src/ha_spark) and the Home Assistant       *)
(* integration (src/custom_components/ha_spark).  Each side keeps its own  *)
(* authority store; the integration also keeps an ownership record that    *)
(* says which of the two a site belongs to.  The only channel is the       *)
(* integration's heartbeat: it posts a snapshot naming its ownership       *)
(* record, and the reply carries a summary of the add-on's store.          *)
(*                                                                         *)
(* What is abstracted: an authority state is the identity of its store     *)
(* plus one Boolean "quiet" (Observe, no holds, no transition, no manual   *)
(* session), and, on the integration's side, whether its epoch is still 1; *)
(* a topology document is "every inverter native" and its revision; a      *)
(* durable write either succeeds, fails before replacing the file, or      *)
(* replaces the file and then reports failure.                             *)
(***************************************************************************)
EXTENDS Naturals, Sequences, SequencesExt

CONSTANTS
    WriteFaults,    \* how many durable writes may fail in a behaviour
    Restarts,       \* how many crashes, restarts and option restores may occur
    MaxInFlight,    \* snapshots the network may hold at once
    MaxStores,      \* add-on store identities a behaviour may create
    MaxRevision,    \* topology revisions a behaviour may commit
    RetiredMirror   \* mode in the summary's legacy authority block once the add-on is retired

(* The source gives "authority_unknown": authority_block sees no known      *)
(* state.  The integration's own tests answer "observe"; that value opens   *)
(* the reverse half of the protocol for checking.                           *)
ASSUME BoundsAssumption ==
    /\ WriteFaults \in Nat /\ Restarts \in Nat
    /\ MaxInFlight \in Nat /\ MaxStores \in Nat \ {0} /\ MaxRevision \in Nat
ASSUME RetiredMirrorAssumption == RetiredMirror \in {"authority_unknown", "observe"}

VARIABLES
    \* integration, durable
    ownerFile,      \* ownership record on disk
    authFile,       \* two-file authority store on disk: store and marker together
    authQuiet,      \* the stored authority state is quiet
    authFresh,      \* the stored authority state has epoch 1
    options,        \* committed topology option
    \* integration, in memory
    loaded,         \* the config entry is set up
    owner,          \* OwnershipStore.owner
    verified,       \* OwnershipStore.verified
    reconcile,      \* OwnershipStore.reconcile
    authStatus,     \* AuthorityStore.status
    op,             \* the coroutine that holds the ownership lock, at its await
    ctl,            \* AuthorityControl's save in flight under the store lock
    flow,           \* options flow that still has to commit its topology
    hb,             \* heartbeat task
    summary,        \* last counted summary while connected
    \* add-on, durable
    store,          \* authority.json
    marker,         \* authority.marker.json
    topology,       \* accepted topology record
    \* add-on, in memory
    mem,            \* identity of AuthorityStore._state, 0 for None
    synced,         \* disk holds exactly the in-memory state
    saveFailed,     \* AuthorityStore.save_failed
    pend,           \* AuthorityStore._pending
    \* network
    requests,       \* snapshots in flight, oldest first
    reply,          \* answer to the snapshot the heartbeat waits for
    \* history and budgets
    retiredIds,     \* store identities ever retired on disk
    newestId,       \* last store identity created
    faults,         \* durable-write failures left
    restarts        \* crashes left

intDisk  == <<ownerFile, authFile, authQuiet, authFresh, options>>
auth     == <<authFile, authQuiet, authFresh, authStatus>>
intMem   == <<loaded, owner, verified, reconcile, authStatus, op, ctl, flow, hb, summary>>
addon    == <<store, marker, topology, mem, synced, saveFailed, pend, retiredIds, newestId>>
network  == <<requests, reply>>
vars     == <<ownerFile, authFile, authQuiet, authFresh, options, loaded, owner, verified,
              reconcile, authStatus, op, ctl, flow, hb, summary, store, marker, topology,
              mem, synced, saveFailed, pend, requests, reply, retiredIds, newestId,
              faults, restarts>>

-----------------------------------------------------------------------------
(* Values *)

Sides  == {"addon", "integration"}
Owners == Sides \union {"pending_integration", "pending_addon"}

\* A mutant for TLC: an abort that deletes the record instead of rewriting it.
WithdrawnDeletes(o) == "absent"
IsPending(o)  == o \in {"pending_integration", "pending_addon"}
PendingFor(t) == IF t = "integration" THEN "pending_integration" ELSE "pending_addon"
Withdrawn(o)  == IF o = "pending_integration" THEN "addon" ELSE "integration"
TargetOf(o)   == IF o = "pending_integration" THEN "integration" ELSE "addon"

\* The outcomes of one durable write, and the budget the failures spend.
Outcomes == {"ok", "before", "after"}
Spend(outcome) ==
    \/ outcome = "ok" /\ UNCHANGED faults
    \/ outcome # "ok" /\ faults > 0 /\ faults' = faults - 1
OnDisk(outcome) == outcome \in {"ok", "after"}

StoreIds   == 0 .. MaxStores
Topologies == [native : BOOLEAN, rev : Nat]
Summaries  == [active : {"none", "invalid", "active", "retired"}, ok : BOOLEAN,
               quiet : BOOLEAN, mirror : {"observe", "authority_unknown", "other"}]
NoSummary  == [active |-> "none", ok |-> FALSE, quiet |-> FALSE, mirror |-> "authority_unknown"]
Invalid    == [NoSummary EXCEPT !.active = "invalid"]
Snapshots  == [owner : Owners \union {"missing"}, native : BOOLEAN, rev : Nat]

Idle == [step |-> "idle", target |-> "addon", why |-> "load"]
Ops  == [step : {"idle", "save", "initialise", "retire"}, target : Owners,
         why : {"load", "request", "advance"}]
NoPend == [kind |-> "none", id |-> 0, quiet |-> TRUE]

\* All inverters native means the integration is the requested owner.
DerivedOwner == IF options.native THEN "integration" ELSE "addon"

IntegrationTypeOK ==
    /\ ownerFile \in Owners \union {"absent"}
    /\ authFile \in {"absent", "ok", "torn", "retired"}
    /\ authQuiet \in BOOLEAN /\ authFresh \in BOOLEAN
    /\ options \in Topologies
    /\ loaded \in BOOLEAN /\ owner \in Owners /\ verified \in BOOLEAN /\ reconcile \in BOOLEAN
    /\ authStatus \in {"uninitialised", "ok", "unknown", "save_failed", "retired"}
    /\ op \in Ops
    /\ ctl \in {"idle", "quiet", "busy"}
    /\ flow \in Sides \union {"none"}
    /\ hb \in {"idle", "wait", "advance"}
    /\ summary \in Summaries

AddonTypeOK ==
    /\ store \in [id : StoreIds, quiet : BOOLEAN]
    /\ marker \in [kind : {"plain", "retired", "pending_addon"}, id : StoreIds, cand : StoreIds]
    /\ topology \in Topologies
    /\ mem \in StoreIds /\ synced \in BOOLEAN /\ saveFailed \in BOOLEAN
    /\ pend \in [kind : {"none", "save", "initial"}, id : StoreIds, quiet : BOOLEAN]
    /\ retiredIds \subseteq StoreIds /\ newestId \in StoreIds

TypeOK ==
    /\ IntegrationTypeOK /\ AddonTypeOK
    /\ requests \in Seq(Snapshots) /\ reply \in Summaries
    /\ faults \in Nat /\ restarts \in Nat

-----------------------------------------------------------------------------
(* Who holds authority *)

\* AuthorityControl.owned plus a known authority state: every native write needs both.
IntegrationHolds ==
    loaded /\ verified /\ ~reconcile /\ owner = "integration" /\ authStatus = "ok"

\* A mutant for TLC: a loader that takes a retirement marker for a plain one.
KnownAnyMarker == mem # 0 /\ synced /\ store.id = mem /\ marker.id = mem

\* AuthorityStore.known: disk holds exactly this writer's state under a plain marker.
Known == /\ marker.kind = "plain" /\ mem # 0 /\ synced
         /\ store.id = mem /\ marker.id = mem

\* WriteGate.mode_for refuses everything else before it looks at the mode.
AddonHolds == Known /\ ~saveFailed

\* Handshake evidence on the add-on's disk.
RetirementStatus ==
    IF marker.kind = "retired" /\ marker.id = store.id THEN "retired"
    ELSE IF marker.kind = "pending_addon" /\ marker.cand = store.id THEN "active"
    ELSE "none"

Fenced == marker.kind # "plain"

\* The v4 summary the server builds from the store as it stands.
AddonSummary ==
    LET status == RetirementStatus
    IN  IF status # "none" /\ ~saveFailed
        THEN [active |-> status, ok |-> TRUE, quiet |-> TRUE,
              mirror |-> IF status = "retired" THEN RetiredMirror ELSE "authority_unknown"]
        ELSE [active |-> "active", ok |-> Known /\ ~saveFailed, quiet |-> Known /\ store.quiet,
              mirror |-> IF ~Known THEN "authority_unknown"
                         ELSE IF store.quiet THEN "observe" ELSE "other"]

\* A mutant for TLC: a failed handover acknowledged all the same.
FailedAcknowledged == [active |-> "retired", ok |-> TRUE, quiet |-> TRUE, mirror |-> AddonSummary.mirror]

\* A failed handover is reported as a failed save, never as an acknowledgement.
FailedSummary == [active |-> "active", ok |-> FALSE, quiet |-> FALSE,
                  mirror |-> AddonSummary.mirror]

-----------------------------------------------------------------------------
(* Initial state: both sides installed, the entry set up, nothing migrated. *)

Init ==
    /\ ownerFile = "absent" /\ authFile = "absent"
    /\ authQuiet = TRUE /\ authFresh = TRUE
    /\ options = [native |-> FALSE, rev |-> 0]
    /\ loaded = TRUE /\ owner = "addon" /\ verified = TRUE /\ reconcile = FALSE
    /\ authStatus = "uninitialised"
    /\ op = Idle /\ ctl = "idle" /\ flow = "none" /\ hb = "idle" /\ summary = NoSummary
    /\ store = [id |-> 1, quiet |-> TRUE]
    /\ marker = [kind |-> "plain", id |-> 1, cand |-> 0]
    /\ topology = [native |-> FALSE, rev |-> 0]
    /\ mem = 1 /\ synced = TRUE /\ saveFailed = FALSE /\ pend = NoPend
    /\ requests = <<>> /\ reply = NoSummary
    /\ retiredIds = {} /\ newestId = 1
    /\ faults = WriteFaults /\ restarts = Restarts

-----------------------------------------------------------------------------
(* Integration: the ownership record *)

\* OwnershipStore.refusal, for a request to move to side t on summary s.
Refused(t, s) ==
    \/ ~verified
    \/ IsPending(owner)
    \/ /\ t # owner
       /\ \/ s.active \notin {"active", "retired"}
          \/ ~s.ok
          \/ owner = "addon" /\ s.active # "active"
          \/ ~s.quiet
          \/ s.mirror # "observe"
          \/ owner = "integration" /\ ~(authStatus = "ok" /\ authQuiet)

\* _save up to its first await: the record is fenced before the write starts.
BeginSave(target, why) ==
    /\ op' = [step |-> "save", target |-> target, why |-> why]
    /\ verified' = FALSE
    /\ owner' = IF IsPending(target) THEN target ELSE owner

\* _save from the write to its caller's return; failures leave the fence up.
SaveEnd(outcome) ==
    /\ op.step = "save"
    /\ Spend(outcome)
    /\ op' = Idle
    /\ hb' = IF op.why = "advance" THEN "idle" ELSE hb
    /\ ownerFile' = IF OnDisk(outcome) THEN op.target ELSE ownerFile
    /\ IF outcome = "ok"
       THEN /\ owner' = op.target /\ verified' = TRUE
            /\ reconcile' = (reconcile /\ op.why # "advance")
            /\ flow' = IF op.why = "request" THEN TargetOf(op.target) ELSE flow
            /\ UNCHANGED authStatus
       ELSE authStatus' = "save_failed" /\ UNCHANGED <<owner, verified, reconcile, flow>>
    /\ UNCHANGED <<authFile, authQuiet, authFresh, options, loaded, ctl, summary>>
    /\ UNCHANGED <<addon, network, restarts>>

\* async_load of both stores during entry setup.
Load ==
    /\ ~loaded
    /\ loaded' = TRUE
    /\ authStatus' = CASE authFile = "absent" -> "uninitialised"
                       [] authFile = "torn" -> "unknown"
                       [] OTHER -> authFile
    /\ LET absent   == ownerFile = "absent"
           uncommitted == \/ ownerFile = "pending_integration" /\ DerivedOwner = "addon"
                          \/ ownerFile = "pending_addon" /\ DerivedOwner = "integration"
       IN  \/ /\ absent /\ DerivedOwner = "addon"
              /\ owner' = "addon" /\ verified' = TRUE /\ UNCHANGED <<reconcile, op>>
           \/ /\ absent /\ DerivedOwner = "integration"
              /\ owner' = "pending_integration" /\ verified' = FALSE /\ UNCHANGED <<reconcile, op>>
           \/ /\ ~absent /\ uncommitted
              /\ owner' = ownerFile /\ verified' = FALSE /\ UNCHANGED reconcile
              /\ op' = [step |-> "save", target |-> Withdrawn(ownerFile), why |-> "load"]
           \/ /\ ~absent /\ ~uncommitted
              /\ owner' = ownerFile /\ verified' = TRUE /\ UNCHANGED op
              /\ reconcile' = (~IsPending(ownerFile) /\ ownerFile # DerivedOwner)
    /\ UNCHANGED <<intDisk, ctl, flow, hb, summary, addon, network, faults, restarts>>

\* The options flow's save step: a switch is durably requested, an edit that
\* keeps the owner goes straight to its commit.
FlowRequest(t) ==
    /\ loaded /\ flow = "none" /\ op = Idle /\ options.rev < MaxRevision
    /\ ~Refused(t, summary)
    /\ IF t = owner
       THEN flow' = t /\ UNCHANGED <<op, owner, verified>>
       ELSE BeginSave(PendingFor(t), "request") /\ UNCHANGED flow
    /\ UNCHANGED <<intDisk, loaded, reconcile, authStatus, ctl, hb, summary>>
    /\ UNCHANGED <<addon, network, faults, restarts>>

\* The entry's objects are gone; a write they had started may have reached disk.
Drop ==
    /\ loaded' = FALSE /\ owner' = "addon" /\ verified' = FALSE /\ reconcile' = FALSE
    /\ authStatus' = "uninitialised"
    /\ op' = Idle /\ ctl' = "idle" /\ flow' = "none" /\ hb' = "idle" /\ summary' = NoSummary
    /\ reply' = NoSummary
    /\ ownerFile' \in {ownerFile} \union (IF op.step = "save" THEN {op.target} ELSE {})
    /\ \/ UNCHANGED <<authFile, authQuiet, authFresh>>
       \/ /\ ctl # "idle"
          /\ authQuiet' = (ctl = "quiet") /\ authFresh' = FALSE /\ UNCHANGED authFile
       \/ /\ op.step = "initialise" /\ authFile \in {"absent", "retired"}
          /\ authStatus # "save_failed"
          /\ authFile' \in {"ok", "torn"} /\ authQuiet' = TRUE /\ authFresh' = TRUE
       \/ /\ op.step = "retire" /\ authFile = "ok" /\ authQuiet /\ authStatus # "save_failed"
          /\ ctl = "idle"
          /\ authFile' = "retired" /\ UNCHANGED <<authQuiet, authFresh>>

\* The flow's create-entry: new options, then the entry reloads.
Commit ==
    /\ flow # "none"
    /\ options' = [native |-> flow = "integration", rev |-> options.rev + 1]
    /\ Drop
    /\ UNCHANGED <<addon, requests, faults, restarts>>

\* Home Assistant stops or crashes.
IntCrash ==
    /\ loaded /\ restarts > 0
    /\ restarts' = restarts - 1
    /\ Drop
    /\ UNCHANGED <<options, addon, requests, faults>>

\* Options restored from a backup, or edited, while the entry is not set up.
RestoreOptions(o) ==
    /\ ~loaded /\ restarts > 0 /\ o # options
    /\ o.rev <= options.rev \/ (~o.native /\ o.rev = options.rev + 1)
    /\ restarts' = restarts - 1
    /\ options' = o
    /\ UNCHANGED <<ownerFile, auth, loaded, owner, verified, reconcile, op, ctl, flow, hb,
                   summary, addon, network, faults>>

-----------------------------------------------------------------------------
(* Integration: the heartbeat *)

\* _async_update_data up to the post; an unverified record is not even sent.
Send ==
    /\ loaded /\ hb = "idle"
    /\ IF verified
       THEN /\ Len(requests) < MaxInFlight
            /\ LET o == IF owner = "integration" /\ authStatus # "ok" THEN "missing" ELSE owner
               IN  requests' = Append(requests, [owner |-> o, native |-> options.native,
                                                 rev |-> options.rev])
            /\ reply' = NoSummary /\ hb' = "wait" /\ UNCHANGED summary
       ELSE /\ summary # NoSummary
            /\ summary' = NoSummary /\ UNCHANGED <<requests, reply, hb>>
    /\ UNCHANGED <<intDisk, loaded, owner, verified, reconcile, authStatus, op, ctl, flow>>
    /\ UNCHANGED <<addon, faults, restarts>>

\* No answer in time, or the connection failed.
Timeout ==
    /\ hb = "wait"
    /\ hb' = "idle" /\ reply' = NoSummary
    /\ UNCHANGED <<intDisk, loaded, owner, verified, reconcile, authStatus, op, ctl, flow,
                   summary, addon, requests, faults, restarts>>

\* The answer arrives: a refused snapshot counts for nothing.
Deliver ==
    /\ hb = "wait" /\ reply # NoSummary
    /\ IF reply = Invalid THEN hb' = "idle" /\ UNCHANGED summary
                          ELSE hb' = "advance" /\ summary' = reply
    /\ UNCHANGED <<intDisk, loaded, owner, verified, reconcile, authStatus, op, ctl, flow,
                   addon, network, faults, restarts>>

\* 120 seconds without a counted heartbeat.
Expire ==
    /\ loaded /\ summary # NoSummary
    /\ summary' = NoSummary
    /\ UNCHANGED <<intDisk, loaded, owner, verified, reconcile, authStatus, op, ctl, flow, hb,
                   addon, network, faults, restarts>>

\* A mutant for TLC: a pending request that is never withdrawn.
LostNever(s) == FALSE

\* A pending request whose admission the add-on no longer supports is withdrawn.
AdmissionLost(s) == ~s.ok \/ ~s.quiet

\* async_advance once it has the lock, up to its first await.
Advance ==
    /\ hb = "advance" /\ op = Idle
    /\ LET s      == reply
           target == IF owner = "addon" THEN "integration" ELSE "addon"
           switch == reconcile /\ ~Refused(target, s)
           open   == ~reconcile /\ verified /\ IsPending(owner)
           lost   == open /\ AdmissionLost(s)
           granted == open /\ ~lost /\ owner = "pending_integration" /\ s.active = "retired"
           returned == open /\ ~lost /\ owner = "pending_addon" /\ s.active = "active"
           settle == granted /\ authStatus = "ok" /\ authQuiet /\ authFresh
           create == granted /\ authStatus # "ok"
       IN  \/ switch /\ BeginSave(PendingFor(target), "advance") /\ UNCHANGED hb
           \/ lost /\ BeginSave(Withdrawn(owner), "advance") /\ UNCHANGED hb
           \/ settle /\ BeginSave("integration", "advance") /\ UNCHANGED hb
           \/ /\ create
              /\ op' = [step |-> "initialise", target |-> "integration", why |-> "advance"]
              /\ UNCHANGED <<owner, verified, hb>>
           \/ /\ returned
              /\ op' = [step |-> "retire", target |-> "addon", why |-> "advance"]
              /\ UNCHANGED <<owner, verified, hb>>
           \/ /\ ~(switch \/ lost \/ settle \/ create \/ returned)
              /\ hb' = "idle" /\ UNCHANGED <<op, owner, verified>>
    /\ UNCHANGED <<intDisk, loaded, reconcile, authStatus, ctl, flow, summary>>
    /\ UNCHANGED <<addon, network, faults, restarts>>

\* async_initialise: a fresh store, then the settling save under the same lock.
InitialiseEnd(outcome) ==
    /\ op.step = "initialise" /\ ctl = "idle"
    /\ IF authFile \in {"absent", "retired"} /\ authStatus # "save_failed"
       THEN /\ outcome # "ok" => faults > 0
            /\ faults' = IF outcome = "ok" THEN faults ELSE faults - 1
            /\ authFile' = CASE outcome = "before" -> authFile
                             [] outcome = "torn" -> "torn"
                             [] OTHER -> "ok"
            /\ authQuiet' = TRUE /\ authFresh' = TRUE
            /\ authStatus' = IF outcome = "ok" THEN "ok" ELSE "save_failed"
            /\ IF outcome = "ok" THEN BeginSave("integration", "advance") /\ UNCHANGED hb
               ELSE op' = Idle /\ hb' = "idle" /\ UNCHANGED <<owner, verified>>
       ELSE /\ outcome = "ok"
            /\ op' = Idle /\ hb' = "idle" /\ UNCHANGED <<owner, verified, auth, faults>>
    /\ UNCHANGED <<ownerFile, options, loaded, reconcile, ctl, flow, summary>>
    /\ UNCHANGED <<addon, network, restarts>>

\* async_retire: only a quiet store is retired, and only once.
RetireEnd(outcome) ==
    /\ op.step = "retire" /\ ctl = "idle"
    /\ \/ /\ authFile = "retired" /\ outcome = "ok"
          /\ BeginSave("addon", "advance")
          /\ UNCHANGED <<authFile, authStatus, hb, faults>>
       \/ /\ authFile # "retired" /\ outcome = "ok"
          /\ authFile # "ok" \/ authStatus = "save_failed" \/ ~authQuiet
          /\ op' = Idle /\ hb' = "idle"
          /\ UNCHANGED <<owner, verified, authFile, authStatus, faults>>
       \/ /\ authFile = "ok" /\ authStatus # "save_failed" /\ authQuiet
          /\ Spend(outcome)
          /\ authFile' = IF OnDisk(outcome) THEN "retired" ELSE authFile
          /\ IF outcome = "ok"
             THEN authStatus' = "retired" /\ BeginSave("addon", "advance") /\ UNCHANGED hb
             ELSE /\ authStatus' = "save_failed" /\ op' = Idle /\ hb' = "idle"
                  /\ UNCHANGED <<owner, verified>>
    /\ UNCHANGED <<ownerFile, authQuiet, authFresh, options, loaded, reconcile, ctl, flow,
                   summary, addon, network, restarts>>

-----------------------------------------------------------------------------
(* Integration: its own authority while it is the owner *)

\* AuthorityControl has passed its ownership check and queued for the store lock.
CtlBegin(q) ==
    /\ ctl = "idle" /\ IntegrationHolds
    /\ ctl' = q
    /\ UNCHANGED <<intDisk, loaded, owner, verified, reconcile, authStatus, op, flow, hb,
                   summary, addon, network, faults, restarts>>

CtlEnd(outcome) ==
    /\ ctl # "idle"
    /\ Spend(outcome)
    /\ ctl' = "idle"
    /\ IF OnDisk(outcome) THEN authQuiet' = (ctl = "quiet") /\ authFresh' = FALSE
                          ELSE UNCHANGED <<authQuiet, authFresh>>
    /\ authStatus' = IF outcome = "ok" THEN "ok" ELSE "save_failed"
    /\ UNCHANGED <<ownerFile, authFile, options, loaded, owner, verified, reconcile, op, flow,
                   hb, summary, addon, network, restarts>>

\* The repair flow: a new identity for an unknown or unverified store.
IntConfirmObserve(outcome) ==
    /\ loaded /\ authStatus \in {"unknown", "save_failed"} /\ ctl = "idle"
    /\ op.step \notin {"initialise", "retire"}
    /\ authFile # "retired"
    /\ authStatus = "save_failed" \/ authFile = "torn"
    /\ outcome # "ok" => faults > 0
    /\ faults' = IF outcome = "ok" THEN faults ELSE faults - 1
    /\ authFile' = CASE outcome = "before" -> authFile [] outcome = "torn" -> "torn"
                     [] OTHER -> "ok"
    /\ IF outcome = "before" THEN UNCHANGED <<authQuiet, authFresh>>
                             ELSE authQuiet' = TRUE /\ authFresh' = TRUE
    /\ authStatus' = IF outcome = "ok" THEN "ok" ELSE "save_failed"
    /\ UNCHANGED <<ownerFile, options, loaded, owner, verified, reconcile, op, ctl, flow, hb,
                   summary, addon, network, restarts>>

-----------------------------------------------------------------------------
(* Add-on: its own authority store *)

\* AuthorityStore.save of a mode, hold or fallback change while authority is known.
AddonSave(q, outcome) ==
    /\ AddonHolds
    /\ Spend(outcome)
    /\ IF OnDisk(outcome) THEN store' = [store EXCEPT !.quiet = q] ELSE UNCHANGED store
    /\ synced' = (outcome # "after")
    /\ saveFailed' = (outcome # "ok")
    /\ pend' = IF outcome = "ok" THEN NoPend ELSE [kind |-> "save", id |-> mem, quiet |-> q]
    /\ UNCHANGED <<intDisk, intMem, marker, topology, mem, retiredIds, newestId, network, restarts>>

\* _persist_initial: the store, then its marker.
PersistInitial(id, outcome) ==
    /\ outcome # "ok" => faults > 0
    /\ faults' = IF outcome = "ok" THEN faults ELSE faults - 1
    /\ store' = IF outcome = "before" THEN store ELSE [id |-> id, quiet |-> TRUE]
    /\ marker' = IF OnDisk(outcome) THEN [kind |-> "plain", id |-> id, cand |-> 0] ELSE marker
    /\ saveFailed' = (outcome # "ok")
    /\ pend' = IF outcome = "ok" THEN NoPend ELSE [kind |-> "initial", id |-> id, quiet |-> TRUE]
    /\ IF outcome = "ok" THEN mem' = id /\ synced' = TRUE ELSE UNCHANGED <<mem, synced>>

\* retry_pending repeats this process's own failed write, whichever kind it was.
AddonRetry(outcome) ==
    /\ \/ pend.kind = "initial" /\ PersistInitial(pend.id, outcome)
       \/ /\ pend.kind = "save"
          /\ marker.kind = "plain" /\ marker.id = store.id /\ store.id = pend.id
          /\ Spend(outcome)
          /\ store' = IF OnDisk(outcome) THEN [store EXCEPT !.quiet = pend.quiet] ELSE store
          /\ saveFailed' = (outcome # "ok")
          /\ synced' = IF outcome = "before" THEN synced ELSE (outcome = "ok")
          /\ IF outcome = "ok" THEN pend' = NoPend /\ mem' = pend.id ELSE UNCHANGED <<pend, mem>>
          /\ UNCHANGED marker
    /\ UNCHANGED <<intDisk, intMem, topology, retiredIds, newestId, network, restarts>>

\* The owner confirms Observe over unknown authority: a new identity.
ConfirmObserve(outcome) ==
    /\ marker.kind = "plain" /\ ~Known /\ newestId < MaxStores
    /\ newestId' = newestId + 1
    /\ PersistInitial(newestId + 1, outcome)
    /\ UNCHANGED <<intDisk, intMem, topology, retiredIds, network, restarts>>

\* A new process loads the files; a known state is re-saved with the next epoch.
AddonRestart(outcome) ==
    /\ restarts > 0
    /\ restarts' = restarts - 1
    /\ Spend(outcome)
    /\ requests' = <<>>
    /\ LET known == marker.kind = "plain" /\ marker.id = store.id
       IN  /\ mem' = IF known THEN store.id ELSE 0
           /\ saveFailed' = (known /\ outcome # "ok")
           /\ synced' = (known => outcome # "after")
           /\ pend' = IF known /\ outcome # "ok"
                      THEN [kind |-> "save", id |-> store.id, quiet |-> store.quiet] ELSE NoPend
           /\ known \/ outcome = "ok"
    /\ UNCHANGED <<intDisk, intMem, reply, store, marker, topology, retiredIds, newestId>>

-----------------------------------------------------------------------------
(* Add-on: the heartbeat handler, one synchronous step per snapshot *)

\* Topology as it will be accepted: an older revision never replaces a newer one.
Candidate(r) == IF r.rev > topology.rev THEN [native |-> r.native, rev |-> r.rev] ELSE topology

\* Snapshots refused before anything is written.
Rejected(r) ==
    \/ r.owner = "missing"
    \/ r.owner = "integration" /\ RetirementStatus # "retired"
    \/ r.owner = "pending_integration" /\ ~Candidate(r).native
    \/ r.owner = "pending_addon" /\ Candidate(r).native

\* Mutant for TLC: an admission that forgets the work in hand.
CanHandoverBusy(o) ==
    IF Fenced THEN store.id \in {marker.id, marker.cand}
                   /\ (o = "pending_integration" => marker.kind = "retired" /\ store.id = marker.id)
    ELSE o = "pending_integration" /\ Known /\ ~saveFailed

\* Admission of a pending snapshot, read-only, before anything is written.
CanHandover(o) ==
    /\ store.quiet
    /\ IF Fenced
       THEN /\ store.id \in {marker.id, marker.cand}
            /\ o = "pending_integration" => marker.kind = "retired" /\ store.id = marker.id
       ELSE o = "pending_integration" /\ Known /\ ~saveFailed

\* The snapshot the heartbeat is waiting on is the newest one in flight.
Awaited(i) == hb = "wait" /\ i = Len(requests) /\ reply = NoSummary
Answer(i, s) == reply' = IF Awaited(i) THEN s ELSE reply

Reject(i) ==
    /\ Rejected(requests[i])
    /\ requests' = RemoveAt(requests, i)
    /\ Answer(i, Invalid)
    /\ UNCHANGED <<intDisk, intMem, addon, faults, restarts>>

\* handover: the current identity is retired for good.
RetireStore(outcome) ==
    /\ ~Fenced
    /\ Spend(outcome)
    /\ marker' = IF OnDisk(outcome) THEN [kind |-> "retired", id |-> store.id, cand |-> 0] ELSE marker
    /\ retiredIds' = IF OnDisk(outcome) THEN retiredIds \union {store.id} ELSE retiredIds
    /\ mem' = IF outcome = "ok" THEN 0 ELSE mem
    /\ pend' = IF outcome = "ok" THEN NoPend ELSE pend
    /\ saveFailed' = (outcome # "ok")
    /\ UNCHANGED <<store, synced, newestId>>

\* handover: a retired store acknowledges again, rewriting an unverified marker.
AckRetired(outcome) ==
    /\ marker.kind = "retired"
    /\ IF saveFailed THEN Spend(outcome) ELSE outcome = "ok" /\ UNCHANGED faults
    /\ saveFailed' = (outcome # "ok")
    /\ UNCHANGED <<store, marker, mem, synced, pend, retiredIds, newestId>>

\* A mutant for TLC: rollback offers the retired store instead of a fresh one.
OfferRetiredStore(outcome) ==
    /\ Fenced /\ outcome = "ok"
    /\ marker' = [marker EXCEPT !.kind = "pending_addon", !.cand = store.id]
    /\ saveFailed' = FALSE
    /\ UNCHANGED <<store, mem, synced, pend, retiredIds, newestId, faults>>

\* handover: a fresh Observe candidate, fenced by the marker until it is settled.
OfferCandidate(outcome) ==
    LET fresh == marker.kind = "retired"
        cand  == IF fresh THEN newestId + 1 ELSE marker.cand
    IN  /\ Fenced
        /\ fresh => newestId < MaxStores
        /\ outcome = "torn" => fresh
        /\ outcome # "ok" => faults > 0
        /\ faults' = IF outcome = "ok" THEN faults ELSE faults - 1
        /\ newestId' = IF outcome = "before" THEN newestId ELSE IF fresh THEN cand ELSE newestId
        /\ marker' = IF outcome = "before" THEN marker
                     ELSE [marker EXCEPT !.kind = "pending_addon", !.cand = cand]
        /\ store' = IF OnDisk(outcome) THEN [id |-> cand, quiet |-> TRUE] ELSE store
        /\ saveFailed' = (outcome # "ok")
        /\ UNCHANGED <<mem, synced, pend, retiredIds>>

\* handover: the settled candidate becomes known authority again.
RestoreStore(outcome) ==
    /\ marker.kind = "pending_addon" /\ store.id = marker.cand
    /\ Spend(outcome)
    /\ marker' = IF OnDisk(outcome) THEN [kind |-> "plain", id |-> marker.cand, cand |-> 0] ELSE marker
    /\ saveFailed' = (outcome # "ok")
    /\ IF outcome = "ok" THEN mem' = marker.cand /\ synced' = TRUE ELSE UNCHANGED <<mem, synced>>
    /\ UNCHANGED <<store, pend, retiredIds, newestId>>

\* Accepting a snapshot makes every earlier one stale.
Accept(i, outcome) ==
    LET r       == requests[i]
        pending == IsPending(r.owner) /\ CanHandover(r.owner)
        restore == r.owner = "addon" /\ marker.kind = "pending_addon" /\ store.id = marker.cand
    IN  /\ ~Rejected(r)
        /\ requests' = SubSeq(requests, i + 1, Len(requests))
        /\ topology' = Candidate(r)
        /\ \/ pending /\ r.owner = "pending_integration" /\ (RetireStore(outcome) \/ AckRetired(outcome))
           \/ pending /\ r.owner = "pending_addon" /\ OfferCandidate(outcome)
           \/ restore /\ RestoreStore(outcome)
           \/ /\ ~pending /\ ~restore /\ outcome = "ok"
              /\ UNCHANGED <<store, marker, mem, synced, saveFailed, pend, retiredIds, newestId,
                             faults>>
        /\ Answer(i, IF pending /\ outcome # "ok" THEN FailedSummary' ELSE AddonSummary')
    /\ UNCHANGED <<intDisk, intMem, restarts>>

\* The network or a closed connection loses a snapshot nobody waits for.
Lose(i) ==
    /\ ~Awaited(i)
    /\ requests' = RemoveAt(requests, i)
    /\ UNCHANGED <<intDisk, intMem, addon, reply, faults, restarts>>

-----------------------------------------------------------------------------
IntegrationNext ==
    \/ \E outcome \in Outcomes : SaveEnd(outcome) \/ RetireEnd(outcome) \/ CtlEnd(outcome)
    \/ \E outcome \in Outcomes \union {"torn"} : InitialiseEnd(outcome) \/ IntConfirmObserve(outcome)
    \/ \E t \in Sides : FlowRequest(t)
    \/ \E q \in {"quiet", "busy"} : CtlBegin(q)
    \/ Load \/ Commit \/ IntCrash
    \/ \E o \in [native : BOOLEAN, rev : 0 .. MaxRevision] : RestoreOptions(o)
    \/ Send \/ Timeout \/ Deliver \/ Expire \/ Advance

AddonNext ==
    \/ \E outcome \in Outcomes, q \in BOOLEAN : AddonSave(q, outcome)
    \/ \E outcome \in Outcomes : AddonRestart(outcome)
    \/ \E outcome \in Outcomes \union {"torn"} : AddonRetry(outcome) \/ ConfirmObserve(outcome)
    \/ \E i \in 1 .. Len(requests) :
          \/ Reject(i) \/ Lose(i)
          \/ \E outcome \in Outcomes \union {"torn"} : Accept(i, outcome)

Next == IntegrationNext \/ AddonNext

Spec == Init /\ [][Next]_vars

-----------------------------------------------------------------------------
(* Fairness: Home Assistant finishes a setup it started, its event loop     *)
(* polls and runs what it queued, a write that cannot fail completes, the   *)
(* owner answers a repair, and, however often the network loses a snapshot  *)
(* or its answer, sooner or later one gets through.                         *)

Handle == \E i \in 1 .. Len(requests) :
            /\ Awaited(i)
            /\ Reject(i) \/ \E outcome \in Outcomes \union {"torn"} : Accept(i, outcome)

Discard == \E i \in 1 .. Len(requests) : Lose(i)

Fairness ==
    /\ WF_vars(Load) /\ WF_vars(Commit)
    /\ WF_vars(Send) /\ WF_vars(Timeout) /\ WF_vars(Discard) /\ SF_vars(Handle) /\ SF_vars(Deliver)
    /\ WF_vars(Advance)
    /\ WF_vars(SaveEnd("ok")) /\ WF_vars(CtlEnd("ok"))
    /\ WF_vars(InitialiseEnd("ok")) /\ WF_vars(RetireEnd("ok"))
    /\ SF_vars(IntConfirmObserve("ok")) /\ WF_vars(AddonRetry("ok"))

FairSpec == Spec /\ Fairness

-----------------------------------------------------------------------------
(* Properties *)

\* The side a site belongs to, as the ownership record on disk has it: the
\* integration's from the settling save until the reverse one.
Side == IF ownerFile \in {"integration", "pending_addon"} THEN "integration" ELSE "addon"

\* The two processes never both hold write authority, whatever is lost, late,
\* half written or restarted (refusal, async_advance, heartbeat, handover).
SingleAuthority == ~(IntegrationHolds /\ AddonHolds)

\* While the record is the integration's, the add-on's disk stays fenced, so no
\* restart of the add-on can bring its authority back (RetirementMarker, _load).
FencedWhileIntegrations == Side = "integration" => Fenced

\* A store identity the add-on retired never becomes known authority again:
\* rollback and repair always continue under a new one (handover, confirm_observe).
NoResurrection == Known => mem \notin retiredIds

\* Why SingleAuthority holds: the marker fences the add-on from before the record
\* can become the integration's until no side of the record is the integration's,
\* and only a snapshot sent by an add-on-owned record lifts the fence.
OnIntegration == {"integration", "pending_addon"}
IntegrationsRecord ==
    ownerFile \in OnIntegration \/ owner \in OnIntegration
        \/ (op.step = "save" /\ op.target \in OnIntegration)

AnswerIsLast == \/ hb = "idle" \/ (hb = "wait" /\ reply \in {NoSummary, Invalid})
                \/ requests = <<>>
RetiredAnswer == (hb # "idle" /\ reply.active = "retired") => Fenced
InitialiseAnswered == op.step = "initialise" => hb = "advance" /\ reply.active = "retired"
RecordVerified ==
    verified => /\ op.step # "save"
                /\ owner = ownerFile \/ (owner = "addon" /\ ownerFile = "absent")
UnloadedIsIdle == ~loaded => op = Idle /\ hb = "idle"
RetryUnfenced == (pend.kind # "none" => saveFailed) /\ (Fenced => pend.kind = "none")
RecordFenced == IntegrationsRecord =>
                    Fenced /\ \A i \in 1 .. Len(requests) : requests[i].owner # "addon"

FenceInvariant ==
    /\ TypeOK /\ AnswerIsLast /\ RetiredAnswer /\ InitialiseAnswered /\ RecordVerified
    /\ UnloadedIsIdle /\ RetryUnfenced /\ RecordFenced

\* Why NoResurrection holds: whatever a write of this store could still make known
\* again, a plain marker, an offered candidate or a retried save, was never retired.
IdentitiesBounded ==
    /\ \A id \in retiredIds : id <= newestId
    /\ marker.id <= newestId /\ marker.cand <= newestId /\ store.id <= newestId
    /\ mem <= newestId /\ pend.id <= newestId
IdentityInvariant ==
    /\ FenceInvariant /\ IdentitiesBounded
    /\ marker.kind = "plain" => marker.id \notin retiredIds
    /\ marker.kind = "pending_addon" => marker.cand \notin retiredIds
    /\ pend.kind # "none" => pend.id \notin retiredIds

\* Why ImplementsGrant holds: a save starts from the record it replaces, the store is
\* retired before the one save that gives a site back, and work is only in hand on the
\* side of the record, in a store or in a save of one in flight.
IntegrationBusy == authFile \in {"ok", "torn"} /\ ~authQuiet
SavesForward ==
    op.step = "save" =>
        \/ op.target = "pending_integration" /\ ownerFile \in {"addon", "absent"}
        \/ op.target = "pending_addon" /\ ownerFile = "integration"
        \/ op.target = "integration" /\ IsPending(ownerFile)
        \/ op.target = "addon" /\ ownerFile = "pending_integration"
        \/ op.target = "addon" /\ ownerFile = "pending_addon" /\ ctl = "idle" /\ authFile = "retired"
HandoverHeld ==
    /\ op.step = "initialise" => verified /\ owner = "pending_integration"
    /\ op.step = "retire" => verified /\ owner = "pending_addon"
QuietFence == Fenced => store.quiet
QuietSide == Side = "addon" => ctl = "idle" /\ ~IntegrationBusy

GrantInvariant == FenceInvariant /\ SavesForward /\ HandoverHeld /\ QuietFence /\ QuietSide

\* The protocol keeps the promise of AuthorityGrant, step for step.
Grant == INSTANCE AuthorityGrant WITH
    First <- "addon", Second <- "integration",
    side <- Side,
    holder <- IF IntegrationHolds THEN "integration" ELSE IF AddonHolds THEN "addon" ELSE "none",
    busy <- [s \in Sides |-> IF s = "addon" THEN ~store.quiet
                             ELSE IntegrationBusy]

ImplementsGrant == Grant!Spec

\* A request always settles or is withdrawn (async_advance), as long as no older
\* or rewritten topology document is restored under the add-on's accepted one.
PendingResolves ==
    [](options.rev > topology.rev \/ options = topology) =>
        (IsPending(ownerFile) ~> ~IsPending(ownerFile))

=============================================================================
