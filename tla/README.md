# ha-spark in TLA+

ha-spark decides when a home battery charges, holds and exports. Two processes
share the work: the **add-on** (`src/ha_spark`), a planner and daemon that can
drive the inverters itself, and the **integration**
(`src/custom_components/ha_spark`), which runs inside Home Assistant and can own
the inverters over Modbus. Exactly one of them may write to a site's hardware,
and everything else the program promises rests on that.

## The system

| Part | State it keeps | Operations | What makes it correct |
| --- | --- | --- | --- |
| Ownership record (`ownership.py`) | record on disk, owner, verified, reconcile | load, request, advance, abort | pending requests settle or are withdrawn; an unverified record grants nothing |
| Authority stores (`authority.py` on either side) | state and marker files, status, pending write | load, save, retry, initialise, retire, repair | a torn, unverified or retired store is never authority |
| Heartbeat (`coordinator.py`, `channel.py`, `api/server.py`, `api/contract.py`) | link, summary, accepted topology | post, answer, time out, expire | late and lost snapshots do no harm |
| Commands (`api/commands.py`, `command_dispatch.py`, `native_apply.py`) | queue, offered, results, last sequence | enqueue, fetch, consume, result | a command runs at most once, in order, in its epoch |
| Authority lifecycle (`authority_control.py`, `transitions.py`, `owner_services.py`) | mode, transition, manual session, epoch, grace | request, advance, retry, expire, start | nothing is claimed before it verifies; no work crosses an epoch |
| Native fallback (`native_fallback_control.py`) | causes, active, streaks | observe, enter, exit | ends only on cleared causes and a verified plan |
| Native holds (`native_hold(s).py`, `native_evidence.py`) | hold records, switch | hold, confirm, release | an owner's own Off is never turned on |
| Native export (`native_export.py`, `native_tripwire.py`, `native_slots.py`, `native_write.py`) | export record, supervision, latch | arm, verify, trip, clear | no window outlives its record; a trip is final |
| Supply guard (`guard_loop.py`, `clamp.py`) | ceilings, restores left | report, cut, restore, clamp | the supply limit holds for every writer |
| SoC trust (`native_soc.py`, `soc_trust.py`) | counters, recovery | judge a minute, fall back, recover | trust is earned again, never assumed |
| Transport and identity (`solis_transport.py`, `native.py`) | connection, queue, probes | connect, exchange, probe, poll | nothing is written on a link it was not decided on |
| Solcast quota (`solcast_budget.py`, `solcast_coordinator.py`) | day's calls, reservation | charge, poll, roll over | a day is never called more often than paid for |
| Daemon (`scheduler.py`, `daemon_channel.py`, `transitions.py`) | queue, tick, mode, baseline | request, capture, plan, write | a plan is written only while its inputs are live |
| Solis driver and SoC monitor (`solis.py`, `soc_monitor.py`, `soc_integrity.py`) | slots, event record, failures | apply, fall back, recover | no discharge without a paid event |
| Planner (`planner.py`, `tariff.py`, `horizon.py`) | none between runs | plan a horizon | an export promised is funded and pays |
| Settings (`settings_service.py`) | two files, predecessors, markers | load, save, import, repair | an acknowledged revision survives |
| Readiness (`readiness*.py`) | slots, samples, days | capture, join, evaluate | evidence is honest and never rewritten |

The processes talk only through HTTP that the integration starts: the heartbeat
and the command calls. Home Assistant's event loop interleaves the integration's
coroutines at each `await`; the add-on's handlers are synchronous once a body is
read, while its daemon loop awaits devices and files. Both write files that may
fail before or after the replacement, and both may stop between any two writes.
`PROJECT.json` lists every component, modelled or not, and the hazards with their
lines.

## Modules

| Module | What it is |
| --- | --- |
| `OwnershipHandshake` | the hand-over of write authority: stores, record, heartbeat, network, disk faults, restarts |
| `AuthorityGrant` | what the hand-over promises, without messages or files |
| `CommandChannel` | the add-on's queue, the integration's consumer and the calls between them |
| `AuthorityLifecycle` | the operating modes of an integration-owned site, with fallback and applies |
| `NativeHolds` | protection holds of a native inverter |
| `NativeExport` | supervised export, its durable record and its tripwire |
| `SupplyGuard` | guard cuts and plan applies under one clamp |
| `SolcastQuota` | the Solcast gate, its polls and flows |
| `BankTrust` | the integration's trust in a bank's SoC |
| `NativeLink` | one gateway: connection, worker, probes |
| `ReplanTick` | the daemon loop as its callers see it |
| `LegacyHolds` | the add-on's modes and the holds of its Solis inverter |
| `SolisProgram` | the charge and export program of one Solis inverter |
| `SocEvidence` | the add-on's SoC monitor and integrity check |
| `RollingPlan` | the planner, replanned every half hour |
| `SettingsStore` | the add-on's settings files and the Optimise guard on them |
| `ReadinessBook` | the add-on's readiness evidence |
| `MCServices`, `MCSettles`, `MCIntegration`, `MCAddon` | components that share no state side by side, for TLC: one more variable says whose behaviour it is, the others stand still |
| `MCCommands`, `MCLifecycle` | instances for TLC |
| `OwnershipProofs`, `CommandProofs`, `LifecycleProofs`, `IntegrationProofs`, `ReplanProofs`, `TrustProofs`, `LinkProofs`, `AddonProofs` | theorems |

`PROJECT.json` maps each definition to its lines. In every module a variable
named in the code keeps its name where TLA+ allows; variables marked *history*
exist only to state a property and are read by no guard.

### OwnershipHandshake

`ownerFile` is the ownership record, `owner`/`verified`/`reconcile` the
attributes of `OwnershipStore`, `authFile`/`authStatus` the two-file authority
store and its published status. `op` is the coroutine that holds the ownership
lock, cut where the code awaits a write (`BeginSave`/`SaveEnd`, `InitialiseEnd`,
`RetireEnd`); `ctl` is an `AuthorityControl` save queued under the store's own
lock, which ownership does not take. `Drop` is what an unload, a reload or a
crash leaves. On the add-on, `store` and `marker` are the two files,
`mem`/`synced` the in-memory state and whether the disk equals it, `pend` the
failed write a later tick retries. The heartbeat handler is one action (`Reject`
or `Accept`), as it is one synchronous function; `RetireStore`, `AckRetired`,
`OfferCandidate` and `RestoreStore` are the branches of `handover`. `requests`
holds the snapshots in flight: one answer is awaited, but a snapshot given up on
may still be handled, late and in any order, or be lost.

Abstracted: an authority state is an identity and "quiet" (Observe, no holds, no
transition, no session); a topology is "all native" and a revision; both peers
speak API v4. `RetiredMirror` is the mode the reply's legacy block shows once the
add-on is retired: the code gives `authority_unknown`, the integration's tests
answer `observe`. With the code's value the reverse hand-over never starts
(finding 1), so the safety run uses `observe`, which only adds behaviours; the
theorems hold for both.

### CommandChannel

`peer`, `sequence`, `pending`, `offered` and `answers` are the fields of
`CommandQueue`, `boot` its session, `plan` and `replanned` what `NativeApply`
remembers. `consumer` is `CommandConsumer`; `loop` is the command task at the
await it stands at. `Consume` is `async_consume` up to the handler, `Write` one
device write with the checks before it, `Reload` a new coordinator. A payload is
its kind. A fetch of an old incarnation that is handled late drops what the queue
holds for the new one, so a request may disappear unanswered
(`RequestsResolve` counts that as resolved). `AnswersAgree` allows "replayed" as
the answer to a command that ran only when `CacheSize` newer commands were issued
before its result got through, the case the consumer's cache cannot cover.

### AuthorityLifecycle

`auth` is the record on disk and, while `status` is ok, in memory; `phase` is how
far `AuthorityControl.async_start` has come; `verified`, `exiting`, `retrying`,
`reapply` are `NativeFallback`'s memory, `job` the apply being executed,
`resident` who wrote the schedule an inverter runs. `Owner` is an owner's request
after `propose_transition`, `Advance` one step of `_advance`, `Evaluate` is
`NativeFallback._evaluate`, `ApplyGroup` one inverter of an apply. One hold of
the authority lock is one action, with failed saves and restarts among its
outcomes; applies take only the guard and bus locks, inverter by inverter, and
are refused one by one when the authority has moved on.

### The integration's other components

* `NativeHolds`: `pass` is a reconcile cut at its awaits (save, write Off,
  confirm; read, write On, drop), `holds` the durable records, `offBy` whose Off
  the switch shows. The owner, a failed save, a failed read-back and a restart
  may come between any two.
* `NativeExport`: `job` is a pass under the guard and bus locks cut at its saves
  and writes; `record` goes ahead of every window. Slot 1 has a time of day and
  no date, so time is the clock face of successive events. The clear after a trip
  runs without the authority lock and may write back an old copy, also after a
  save that failed meanwhile, which makes the store known again.
* `SupplyGuard`: `work` is the list of writes left to do under the lock,
  reductions first; `requests` is `last_requested_a` with its epoch.
* `SolcastQuota`: a call is charged, saved and read back before it is sent, under
  the gate's lock (`holder`). A reserved poll ends in two steps: the last answer,
  and the `release` that waits for the gate and marks the day it comes to. After a
  start the file may be missing, fail to read or not parse; one that does not
  parse is moved away first and the spent state saved in a step of its own
  (`Recover`), which may fail or be left out. Midnight, a clock that steps back, a
  reload and a crash come anywhere. `turns` (days whose own reserved poll had its
  last answer), `strays` (days on which that of another day was under way) and
  `lost` (days whose calls the store forgot) are history: the gate's own record of
  these is what may be wrong.
* `BankTrust`: frames over a link that drops, one judgement a minute, energy
  balance, failure count, recovery. Levels and powers are a few values.
* `NativeLink`: `client` is the connection, `queue`/`sending` the worker,
  `job` the probe or poll holding the devices' lock, `proof` the history of what
  a probe has read on which connection. A failed probe records the connection's
  number too (`native.py:158-185`, `204-208`), which does no harm because its
  reason does not validate.

### The add-on's components

* `ReplanTick`: `tick` is what the tick captured and where it stands, `memo` the
  loop's memory, `work` and `answer` the callers. Saves and revisions land
  between any two awaits.
* `LegacyHolds`: `loop` is the daemon's place in its loop and its pass over the
  switch; `addon` the authority state with the hold records, `unsaved` the
  candidate of a failed save.
* `SolisProgram`: one observation, then fallback, recovery or a plan each minute;
  the driver's apply is cut at its register writes and its record.
* `SocEvidence`: the checked observation, the failure count on disk and in
  memory, recovery that is never persisted.
* `RollingPlan`: `compute_plan` over whole units of energy as operators (window,
  selection of export slots, funding, charge), and the household living one slot
  after another on a fresh plan each time; `twin` is the same household without
  exports, so that `gain` compares.
* `SettingsStore`: a commit is its sequence of directory operations; the process
  may die between two, an operation may fail, a power cut may undo the latest
  ones, in order, down to the last sync (a journalling file system). The mode is
  here because settings may not deprive Optimise of its fallback schedule.
* `ReadinessBook`: the first tick of a half hour captures the slot and its mode
  (the mode is read at that tick only), guard samples, the day's join with its
  retries, the evaluation and its one notice.

## Runs

| Run | Checks | Bounds |
| --- | --- | --- |
| `services` | types; `SingleAuthority`, `NoResurrection`, the refinement `ImplementsGrant`; `RunsAfterAsked`, `WritesCurrent`; `TrustEarned`; `EvidenceKept`; `EvidenceHonest` | 1 failed write, 1 crash or restored option, 2 snapshots in flight, 3 identities, 2 revisions; 2 callers, 2 edits, a queue of 1, 1 run that raises; 2 failures or stable minutes, 2 levels; 2 days of 2 slots, 1 trouble |
| `settles` | liveness: `EverythingEnds`; `LinkKept` | no failed write, 1 crash; 2 inverters, 2 connections, 1 write |
| `command_restarts` | types, `RunsForward`, `RebootFences`, `OneApply` | queue and caches of 2, fetches of 1, 2 commands per boot, 1 reload or reboot, 1 lost call |
| `command_delivery` | `AnswersAgree`; liveness `RequestsResolve` | queue and fetches of 2, caches of 1, 2 commands, 2 epochs, 1 lost call |
| `lifecycle_fallback` | types, `InForce`, `LeftClean`, `EndsOnPlan` | 2 inverters; five of 3 requests, 2 losses of the add-on and 1 failed write (`NotAllSpent`) |
| `lifecycle_restarts` | `NoOldPlan`; liveness `SwitchesEnd` | 1 inverter, 2 requests, 1 each of loss, failed write, failed save, restart, repair |
| `integration` | types, `Obligated`, `OwnersOff`, `TrippedStays`, `CutKept`, `QuotaKept`; liveness `HoldsFollow`, `DischargeEnds` | 2 reports, 2 surprises; 2 events, 3 epochs, 1 fault; 2 inverters of 1 unit, 1 restore, 1 epoch, 1 fault; 3 calls, 2 sites, 2 days, 1 fault |
| `addon` | types, `FallbackResident`, `ExportPays`, `OptimiseGuarded`, `FiresPaid`, `HoldKept`, `PromiseKept`, `SettingsKept`; liveness `LetGo` | 2 clear reports, 1 request, 1 trouble (none of a first start in Observe); 2 evenings, threshold 2, 1 fault; 256 households, 5 slots a day; 2 saves, 1 outage, 1 fault |
| `lifecycle_activation` | does the activation of Optimise end? (no) | 1 inverter, 3 requests |
| `export_epoch` | does the epoch only go forward? (no) | 2 events, 3 epochs |
| `guard_cut` | does no apply lift the total above the ceiling? (no) | 2 inverters |
| `legacy_applied` | is the applied plan resident? (no) | 2 evenings, no fault |

What the properties say, beyond their names:

* `SingleAuthority`, `NoResurrection`, `ImplementsGrant`: never two writers, never
  a retired identity, and sides change only while nobody holds authority and
  neither store has work in hand.
* `RunsAfterAsked`: each caller waits in one place and a plan answers only
  callers that had asked before its run began. `WritesCurrent`: settings and
  limits are live at the write; the baseline was written.
* `TrustEarned`, `EvidenceKept`, `EvidenceHonest`: trust only after a whole run of
  fresh passing minutes; a blocked device only after enough failures in a row and
  given back on stable evidence; a day is called what it was.
* `HoldKept`, `OwnersOff`, `HoldsFollow`, `LetGo`: a switch goes On only for a
  hold whose evidence has ended and whose Off was ours; and then it does.
* `Obligated`, `TrippedStays`, `DischargeEnds`, `FiresPaid`: a discharge window
  has a record that retires it, a tripped event never comes back, an unsupervised
  window is zeroed, and nothing fires on an unpaid evening unnoticed.
* `PromiseKept`, `ExportPays`: a promised slot is not dropped by the next plan
  where a night refills the bank and no dispatch is foreseen, it is carried by the
  battery within the site's limit, and by the next window the event has paid for
  all that the house bought because of it.
* `QuotaKept`: no day is called more often than its quota allows, and no other call
  takes what is held back for a day's reserved poll before that poll had its turn.
* `EverythingEnds`: a pending hand-over settles or is withdrawn, and whoever waits
  for the gateway is answered.

Some properties name a case they leave out, each a known limit or a finding:
`HoldKept` and `LetGo` leave out a record requested again while its release was
pending, the safe state past an older known end, and an Optimise that is not yet
verified (findings 10, 11); `ExportPays` an export that began, or ran into a new
day, with less than the whole reserve beside the house, or with dear slots behind
the dispatch that ends its reserve (`lean`, finding 13); `OptimiseGuarded` an
Optimise entered on replaced settings (`unguarded`, finding 14); `FiresPaid` the
preserved plan of finding 8;
`CutKept` an inverter that has not asked in this epoch (finding 7); `QuotaKept`
the days that the reserved poll of another day ran into (`strays`, finding 18) and
those whose calls the store forgot (`lost`, finding 19); `PromiseKept`
a household whose night does not refill the bank or that foresees a dispatch, and
what is promised before the window's last plan.

Bounds. Two revisions and three identities are a round trip with a fresh identity
to spare; one failed write falls on either side or in a retry; two snapshots are
the smallest number with a reordering. Queue, batch and caches hold one or two,
the smallest sizes with an eviction and with an order (64, 16, 64 in the code).
Three lifecycle requests enter Optimise, leave or suspend it, and supersede that;
two inverters are the smallest site that can be half written. Two events, evenings
or days are one that may leave something behind and one it may hurt; thresholds of
two tell one failure from enough. One fault of each kind can fall between any two
steps; what two in a row do is covered by the theorems, which have no such bound.
`SolcastQuota` shows why that matters: a day is called twice (finding 19) only with
two faults, a restart that finds a file that does not parse and another before its
repair is saved, which the `integration` run does not have the time for. The
specification was also checked by itself with `QuotaFaults = 4` over two days and
with one fault over three; `QuotaKept` without the exclusion of `strays` fails with
no fault, without that of `lost` with two.

Deadlock is not checked where budgets can be spent: the system may then really
stop. The command and lifecycle runs check it. `lifecycle_fallback` uses the
symmetry of its inverters; no run with liveness uses symmetry.

### Fairness

* `OwnershipHandshake`: started setups, commits and writes finish, the heartbeat
  timer runs, the add-on's tick retries a failed write, the owner answers a
  repair, and a network that loses answers does not lose all (strong fairness of
  `Handle` and `Deliver`).
* `CommandChannel`: event loops run what is ready, heartbeats repeat, discovery
  announces a new session, an awaited call beyond the loss budget is answered.
  Nothing obliges an owner to ask or a plan to be made.
* `AuthorityLifecycle`: the thirty-second ticks evaluate, retry and expire, an
  apply begun ends, timers run out, startup completes, the add-on recovers and
  sends plans. A repair is the owner's, so `SwitchesEnd` excuses a failed save.
* `NativeHolds`, `NativeExport`: a started pass goes on, every tick reconciles or
  retries (strongly fair where another pass may hold the lock), readings grow
  old, a clear charger keeps reporting.
* `SupplyGuard`: a transaction goes on under its lock and reports keep arriving.
* `LegacyHolds`: the loop goes on, not every pass is a replan's (strong fairness
  of the minute's pass), a clear car keeps reporting and dispatches end.
* `NativeLink`: the worker and the readers go on.

In `MCSettles` each service's fairness is assumed for its own behaviours; in
`MCIntegration` and `MCAddon` only one part's actions are ever enabled in a
behaviour. Faults are finite in every run, as a claim about retries must assume.

## Proofs

Each theorem holds for every value of the constants. Only the types of bounds
and sizes are assumed, named in the modules that declare them, that there is an
inverter, that sets of inverters are finite where they are counted, and, in
`RollingPlan`, that a forecast's P50 does not exceed its P90 (solar_source.py:118
refuses such a reading).

Every invariant and every action property of the passing runs is proved. Where
data has to be inducted over (a sum over the slots of a day or the shares of the
inverters, the operations of a commit) the proofs take a least counterexample
instead: `LeastNatural` derives it from the library's theorem on finite sets.

### `OwnershipProofs`

`TypeCorrect`, `FenceCorrect`, `MutualExclusion` (`SingleAuthority`),
`DurableFence`, `RetiredForGood` (`NoResurrection`), `PromiseKeptByHandshake`
(`ImplementsGrant`).

`SingleAuthority` is not inductive. `FenceInvariant` adds why it holds: as long
as any copy of the record, on disk, in memory or in a save in flight, is the
integration's, the marker is not plain and no snapshot in flight names the add-on
as owner (`RecordFenced`); a retired answer is only held while the fence is up; a
verified record is the one on disk; a fenced add-on has no failed write to retry;
the integration waits for at most the newest snapshot. `IdentityInvariant` adds
that a plain marker, an offered candidate and a retried write never name a
retired identity. For the refinement `GrantInvariant` adds that a save starts
from the record it replaces (`SavesForward`), that a store is initialised or
retired only while the record says so (`HandoverHeld`), and that work in hand is
only on the side of the record (`QuietFence`, `QuietSide`); every step then maps
to a step of `AuthorityGrant` for the side the record names, or to a change of
sides with nobody at work.

### `CommandProofs`

`TypeCorrect`, `NeverRunAgain` (`RunsForward`), `RebootFenced`, `OneUnresolvedApply`
(`OneApply`), `AnswersTrue` (`AnswersAgree`).

`CommandInv` is: one call at most is awaited, of its own session and incarnation
(`CallInv`); sessions are learned in order (`OrderInv`); what the loop and the
queue hold was issued, under an epoch a new session exceeds (`BatchInv`); what
could still be offered or run is beyond what has run, or known as replayed
(`RunInv`). `AnswerInv` follows an answer from the decision to the add-on: through
the call in flight, the consumer's cache, which holds the newest results in
order, and the queue's own. An evicted result is one that `CacheSize` newer
commands have overtaken, the counting argument of the proof.

### `LifecycleProofs`

`TypeCorrect`, `LeavesClean` (`LeftClean`), `FallbackEndsOnPlan` (`EndsOnPlan`),
`ReadBackInForce` (`InForce`), `OldPlansNeverWrite` (`NoOldPlan`).

`HandoverInv` keeps the promise each step of a handover leaves: whoever takes
over from Optimise has the export cancelled or `cancel_export` still to come, and
toward Protect the schedule written or `write_fallback` to come. `ExitInv` says
what a plan that counts stands for: ended, it has written every inverter since
the causes cleared; running, those it is past. `VerifiedInv` says that no
verification is of an epoch to come or of one under manual control, and that it
holds of the device while causes are present. `ReadBackInForce` needs
`Repairs = 0`: with a repair `InForce` is false (finding 5). `JobInv` says that a
job that could still write under a wanted plan is of this store.

### `IntegrationProofs`

`HoldTypeCorrect`, `OwnersOffKept` (`OwnersOff`); `ExportTypeCorrect`,
`WindowObligated` (`Obligated`), `TripsStay` (`TrippedStays`); `GuardTypeCorrect`,
`CutKeptAlways` (`CutKept`); `QuotaTypeCorrect`, `QuotaHolds` (`QuotaKept`);
`EachServiceItself`, `ServicesTyped` (`TypesOK`).

For the holds, `OffOwned`: a confirmed record stands for an Off of ours unless
the owner flipped the switch since, in which case the pass has still to read it.
For the export, `PassOrder` says what a pass at each step has saved and written,
so that a window always has a record or a running pass (`WindowInv`); `TripInv`
that a latched event is not in a slot, nor in the copy a clear may still write
back. For the guard, `GuardInv` says that what a transaction still has to lower
stands above its target, that everything else it covers stands at or below its
own, and that the targets of all inverters share the ceiling: shares that round
down sum to no more than it, for any number of inverters, shown by adding one at
a time. For the quota, `QuotaInv` says that memory, as long as the gate is open,
and the file, wherever it parses, are each `Backed`: they have charged their own
day no less than it has seen, no later day has been called, and the day they mark
as released is one that a reserved poll has had or strayed into; a call in hand
that is not the reserved poll's leaves a call per site. Days in `lost` are exempt,
which is what keeps the invariant through a file that is gone. `QuotaHolds` has no
hypothesis: what the code cannot keep is in the property's exclusions.
`EachServiceItself` shows that
`MCIntegration`'s side-by-side specification implies each service's own, which
makes the theorems ones about the run.

### `ReplanProofs`

`ReplanTypeCorrect`, `OnlyLiveWritten` (`WritesCurrent`), `NobodyLostOrEarly`
(`RunsAfterAsked`).

`FenceFirst`: a plan carries fences captured no later than its settings, and the
baseline was written. `CallersInv`: a waiting caller is in exactly one queue
entry or in the tick's answer, and whoever the tick answers waited when the run
began.

### `TrustProofs`

`BankTypeCorrect`, `TrustIsEarned` (`TrustEarned`); `EvidenceTypeCorrect`,
`EvidenceIsKept` (`EvidenceKept`); `BookTypeCorrect`, `EvidenceIsHonest`
(`EvidenceHonest`); `EachServiceItself`, `ServicesTyped` (`TypesOK`) of `MCServices`.

`TrustInv` ties the monitor's flags to the history: a recovery that is owed
blocks, and a rejected value is the one last shown. `EvidenceInv` ties the stable
clock to the minutes of this process (`StableClock`). `BookInv` says that a past
slot's statistic is decided, that the join's time is not ahead of the wall, and
that a notice is armed once.

### `LinkProofs`

`LinkTyped`, `WritesOnTheirLink` (`LinkKept`). `LinkInv` says that every queued
or sent request carries a connection no newer than the client's, and that a
standing verdict is of the connection it names with its whole proof.

### `AddonProofs`

`ProgTypeCorrect`, `VerifiedIsResident` (`FallbackResident`), `FiresOnlyPaid`
(`FiresPaid`); `HoldTypeCorrect`, `HoldsEndByEvidence` (`HoldKept`);
`StoreTypeCorrect`, `OptimiseGuardedAlways` (`OptimiseGuarded`),
`SettingsKeptAlways` (`SettingsKept`); `PlanTypeCorrect`, `ExportsCarried`,
`PromiseKeptAlways` (`PromiseKept`), `ExportPaysAlways` (`ExportPays`);
`EachServiceItself`, `ServicesTyped` (`TypesOK`).

*Charge program.* `ProgInv` says, of each step of the driver's apply, what has
been written so far and what the monitor may claim of it. For `FiresPaid`,
`FireInv` adds that a phase the daemon has served has the plan for what opens on
the device, or one without an export; that the half is off where the program is
not the plans'; and that an apply arms it only for what opens and keeps the one
of a live record unless a trusted plan or the owner takes it out.

*Holds.* `LegacyInv` says what holds between passes (`RestOK`: the switch Off has
a record, or is nobody's), what the records and the unsaved candidate can be
(`Books`), and what the pass has established at each of its places (`PlaceOK`).
The attempt to prove it found that two arms of the judgement in `LegacyHolds`
overlapped, where the code's order decides; the model now follows that order.

*Settings store.* `StoreInv` calls a directory `Safe` when a start that finds it
publishes settings no older than the last ones answered, of one commit, and in
Optimise with a fallback schedule or behind the marker that has them judged. Every directory that a crash or a power cut can leave is safe:
what is durable, each state since the last sync, and each directory that the
remaining operations of a running commit pass through, the last of which holds
that commit's settings. A power cut then only chooses among safe directories.

*Planner.* No plan knows the last one, so `PromiseKept` is an induction over half
hours: `Followed` says that the exports are those of the plan made one slot
earlier from the battery of that moment. A promised slot stays promised because
what an export draws leaves the purse's spare energy and the exports still to
come by the same amount, a slot in which the house is served lowers the house's
share by no less than the battery, the reserve's price can only fall as the
shortfall does, and at the window's end a refilled bank holds what the plan
before it counted on. The refill and the absence of a dispatch are needed: with
either left out of `PromiseHeld`, TLC finds households whose promise is dropped
(a window that charges less than the bank holds; a dispatched slot).

*An export pays.* `Pays` is inductive: unless `lean`, the event's money is never
negative and is `Sound`. That is, the bank is as it would be without the export;
or a window has come; or, through the event and the dear slots behind it, the
money covers at the event's rate whatever the house will lack by the window
(`Backed`), and each slot in which it could lack it, given what is still to be
exported, is cheaper than that rate. The hard step is the first export, where the
planner's price for the shortfall (`Worst`) has to reach every slot that the
house may really buy in. The condition `lean` of this property was found too
narrow by the attempt to prove it: the solar forecast of tomorrow counts for the
slots of an event after midnight, so the whole reserve has to be judged again
when the day begins.

### Left to TLC

Liveness and everything that needs ENABLED: `EverythingEnds`, `RequestsResolve`,
`SwitchesEnd`, `HoldsFollow`, `DischargeEnds`, `LetGo`.

## Findings

The first five are about the hand-over and the lifecycle; runs show 4, 6, 7 and 8.
`PROJECT.json` quotes the lines.

1. *Reverse rollback cannot start.* `refusal` wants the peer's legacy authority
   block in Observe; a retired add-on reports `authority_unknown` there.
2. *A failed retirement cannot be retried.* A marker that was replaced but
   reported as failed withdraws the request while the add-on stays retired; no
   later request is accepted.
3. *Pending does not stop the add-on.* The docs say nothing writes while a switch
   is pending; the add-on may until it handles the next heartbeat.
4. *An activation that cannot end* (`lifecycle_activation`). Resuming Optimise
   under a fallback cause asks for a `write_fallback` step that is refused once an
   exit plan has ended fallback.
5. *In force without a write.* What fallback verified is remembered by epoch
   number, and a repair restarts the numbers without reloading the entry.
6. *The epoch goes back* (`export_epoch`). The clear after a trip saves a copy of
   the authority over a newer one.
7. *A cut that is lifted* (`guard_cut`). The clamp shares the ceiling among the
   inverters that asked in this epoch and forgets the current of one that did not.
8. *A plan believed, never written* (`legacy_applied`). A skip that preserves an
   export is taken for an applied plan.
9. *A hold without a record.* A dispatch known only from an earlier trusted read
   turns the switch Off with no record to turn it On.
10. *A hold that blocks activation.* While Optimise waits for its verified plan an
    unconfirmed request is not read again.
11. *A pending release that survives.* Requesting a hold again keeps
    `pending_release`, which later ends it without evidence.
12. *An owner's Off claimed.* Any unconfirmed record is confirmed when the switch
    reads Off, whoever turned it.
13. *A shortfall priced too low.* `shortfall_price` assumes the whole reserve.
14. *Optimise on settings not judged.* The preconditions use the settings captured
    before device reads.
15. *A replan answered with old settings.* The tick that takes it captured before
    the save.
16. *A V2L session cut at midnight.* Its reminder is never sent.
17. *Fallback re-entered without a failure.* Recovery is reset by one missed
    minute after the cause has ended.
18. *The wrong day released.* A reserved poll that ends after UTC midnight, or runs
    again or late there, frees the new day's held-back calls before its own poll.
19. *A count forgotten.* A quota file that does not parse is moved away before the
    spent day is saved; if that save does not land the next start counts from 0.
20. *A reserved poll without pause.* When the gate fails during it the day is never
    marked, and the schedule starts it again at once for up to twenty minutes.

## Not modelled

Register encodings, clocks and time zones, forecasting and tariff retrieval,
entities and diagnostics, the agent front end, onboarding and reports, the wire
schema's validation, V2L sessions (read by hand) and DST clock sync; the reasons
are beside each component in `PROJECT.json`. Within the modelled components the
notes there say what is left out; the largest are the several banks, major loads
and V2L of the planner, warn-only sites and manual sessions of the guard, the
owner's entity writes, and the removal of an entry, which retries its hand-over
without a loaded entry. `SolisProgram` leaves out the discharge half that an
untrusted hold keeps when it trims a window (`solis.py:763-766`, `1928-1934`).

## Plan

The safety properties listed above are all proved. What would carry the project
further is more model: the several banks and major loads of the planner, manual
sessions and warn-only sites of the guard, the owner's entity writes, and the
removal of an entry.
