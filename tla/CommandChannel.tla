---------------------------- MODULE CommandChannel ----------------------------
(***************************************************************************)
(* How the add-on's plans and the owner's requests reach the integration,  *)
(* which alone may execute them.  The add-on queues commands under its     *)
(* per-boot session; the integration fetches a batch over HTTP, consumes   *)
(* it one command at a time and posts each result.  Every call may time    *)
(* out and still be handled later, results are lost, Home Assistant        *)
(* reloads the entry in the middle of a command, the add-on reboots, and   *)
(* the authority epoch moves under all of them.                            *)
(*                                                                         *)
(* Abstracted: a payload is its kind, and an apply writes as often as it   *)
(* likes before it ends; the site stays integration-owned and connected;   *)
(* a snapshot is built and handled in one step.                            *)
(***************************************************************************)
EXTENDS Naturals, Sequences, FiniteSets

CONSTANTS
    MaxPending,     \* commands the queue holds (64)
    BatchSize,      \* commands one fetch offers (16)
    CacheSize,      \* results kept on either side (64)
    MaxSequence,    \* commands an add-on boot may issue in a behaviour
    MaxEpoch,       \* authority epochs a behaviour may reach
    Restarts,       \* reloads of the integration and reboots of the add-on
    Losses          \* calls that may time out

ASSUME SizesAssumption ==
    /\ MaxPending \in Nat \ {0} /\ BatchSize \in Nat \ {0} /\ CacheSize \in Nat \ {0}
ASSUME BudgetsAssumption ==
    /\ MaxSequence \in Nat /\ MaxEpoch \in Nat \ {0} /\ Restarts \in Nat /\ Losses \in Nat

VARIABLES
    \* add-on, per boot
    boot,           \* the session id of this boot
    peer,           \* CommandQueue.integration_session_id, 0 for None
    sequence,       \* last sequence issued
    pending,        \* commands without an accepted result
    offered,        \* sequences some fetch has offered
    answers,        \* accepted results, oldest first
    link,           \* epoch of the last accepted snapshot, 0 for none
    plan,           \* NativeApply: its command's sequence and epoch
    replanned,      \* NativeApply: the stale refusal already replanned
    \* integration
    incarnation,    \* SparkCoordinator.integration_session_id
    session,        \* entry.data: the add-on session discovery announced
    epoch,          \* durable authority epoch
    addonSession,   \* durable: the add-on session the authority last saw
    consumer,       \* CommandConsumer: session, last sequence, cached results
    loop,           \* the one command task, at its await
    queued,         \* a fetch is wanted after this one
    \* network
    calls,          \* calls in flight; at most one is still awaited
    \* history and budgets
    runs,           \* commands whose handler has started
    writes,         \* commands that wrote, and the add-on session known then
    decisions,      \* what handlers came to
    restarts, losses

queue       == <<boot, peer, sequence, pending, offered, answers>>
planner     == <<link, plan, replanned>>
integration == <<incarnation, session, epoch, addonSession, consumer, loop, queued>>
history     == <<runs, writes, decisions>>
vars        == <<boot, peer, sequence, pending, offered, answers, link, plan, replanned,
                 incarnation, session, epoch, addonSession, consumer, loop, queued, calls,
                 runs, writes, decisions, restarts, losses>>

-----------------------------------------------------------------------------
(* Values *)

Kinds    == {"apply", "transition"}
Outcomes == {"applied", "refused", "stale", "failed"}
Steps    == {"idle", "fetch", "fetched", "handle", "post", "posting", "batch"}
Command  == [seq : Nat, epoch : Nat, kind : Kinds]
Answer   == [seq : Nat, outcome : Outcomes]

ConsumerState == [session : Nat, last : Nat, results : SUBSET Answer]
LoopState     == [step : Steps, data : Nat, batch : SUBSET Command, outcome : Outcomes]
Call          == [type : {"fetch", "result"}, session : Nat, peer : Nat, answer : Answer,
                  awaited : BOOLEAN]

NoPlan     == [seq |-> 0, epoch |-> 0]
NoConsumer == [session |-> 0, last |-> 0, results |-> {}]
NoLoop     == [step |-> "idle", data |-> 0, batch |-> {}, outcome |-> "refused"]

Seqs(S) == {x.seq : x \in S}
\* The commands of a batch are consumed in the order of their sequences.
First(batch) == CHOOSE c \in batch : \A d \in batch : c.seq <= d.seq
\* The queue keeps its commands in the order they were issued.
Oldest(S, n) == {c \in S : Cardinality({d \in S : d.seq < c.seq}) < n}

TypeOK ==
    /\ boot \in Nat /\ peer \in Nat /\ sequence \in Nat
    /\ pending \in SUBSET Command /\ offered \in SUBSET Nat /\ answers \in Seq(Answer)
    /\ link \in Nat /\ plan \in [seq : Nat, epoch : Nat] /\ replanned \in Nat
    /\ incarnation \in Nat /\ session \in Nat /\ epoch \in Nat /\ addonSession \in Nat
    /\ consumer \in ConsumerState /\ loop \in LoopState /\ queued \in BOOLEAN
    /\ calls \in SUBSET Call
    /\ runs \in SUBSET [boot : Nat, seq : Nat]
    /\ writes \in SUBSET [boot : Nat, seq : Nat, addon : Nat]
    /\ decisions \in SUBSET [boot : Nat, seq : Nat, outcome : Outcomes]
    /\ restarts \in Nat /\ losses \in Nat

-----------------------------------------------------------------------------
Init ==
    /\ boot = 1 /\ peer = 0 /\ sequence = 0
    /\ pending = {} /\ offered = {} /\ answers = <<>>
    /\ link = 0 /\ plan = NoPlan /\ replanned = 0
    /\ incarnation = 1 /\ session = 1 /\ epoch = 1 /\ addonSession = 1
    /\ consumer = NoConsumer /\ loop = NoLoop /\ queued = FALSE
    /\ calls = {} /\ runs = {} /\ writes = {} /\ decisions = {}
    /\ restarts = Restarts /\ losses = Losses

-----------------------------------------------------------------------------
(* Add-on *)

HasRoom == Cardinality(pending) < MaxPending /\ sequence < MaxSequence

\* CommandQueue.enqueue, under the epoch of the last accepted snapshot.
Enqueue(kind) ==
    /\ sequence' = sequence + 1
    /\ pending' = pending \union {[seq |-> sequence + 1, epoch |-> link, kind |-> kind]}

\* The mode page and the command line: a request is queued, never retried.
Ask ==
    /\ link # 0 /\ HasRoom
    /\ Enqueue("transition")
    /\ UNCHANGED <<boot, peer, offered, answers, planner, integration, calls, history, restarts,
                   losses>>

\* A mutant for TLC: a plan that sends whether or not the last one is resolved.
PlanNeverPending == FALSE
PlanPending == plan.seq \in Seqs(pending)

\* A refusal of this plan as stale, once a newer epoch is known.
StaleRefusal ==
    /\ \E i \in 1 .. Len(answers) : answers[i].seq = plan.seq /\ answers[i].outcome = "stale"
    /\ plan.seq # replanned /\ link # 0 /\ link # plan.epoch

\* One control-loop tick: a scheduled run, or one fresh plan per stale refusal;
\* without a trusted SoC the run sends nothing.
Tick(due, soc) ==
    /\ due \/ StaleRefusal
    /\ replanned' = IF StaleRefusal THEN plan.seq ELSE replanned
    /\ IF link # 0 /\ soc /\ ~PlanPending /\ HasRoom
       THEN Enqueue("apply") /\ plan' = [seq |-> sequence + 1, epoch |-> link]
       ELSE UNCHANGED <<sequence, pending, plan>>
    /\ UNCHANGED <<boot, peer, offered, answers, link, integration, calls, history, restarts,
                   losses>>

\* The loop still waits for this call's answer.
Arrives(call, step, batch) ==
    loop' = IF call.awaited THEN [loop EXCEPT !.step = step, !.batch = batch] ELSE loop

\* Mutants for TLC: a queue that ignores who fetches, or offers nothing twice.
SameReceiver(call) == FALSE
OffersOnce(S) == Oldest({c \in S : c.seq \notin offered}, BatchSize)

\* A receiver other than the last one: an integration that has restarted.
NewReceiver(call) == peer \notin {0, call.peer}
Offers(S) == Oldest(S, BatchSize)

\* CommandQueue.fetch: another receiver drops everything the last one was offered.
Fetch(call) ==
    /\ call.type = "fetch"
    /\ calls' = calls \ {call}
    /\ IF call.session # boot
       THEN UNCHANGED queue /\ Arrives(call, "fetched", {})
       ELSE LET kept == IF NewReceiver(call) THEN {} ELSE pending
            IN  /\ pending' = kept
                /\ answers' = IF NewReceiver(call) THEN <<>> ELSE answers
                /\ offered' = (IF NewReceiver(call) THEN {} ELSE offered) \union Seqs(Offers(kept))
                /\ peer' = call.peer
                /\ Arrives(call, "fetched", Offers(kept))
                /\ UNCHANGED <<boot, sequence>>
    /\ UNCHANGED <<planner, incarnation, session, epoch, addonSession, consumer, queued, history,
                   restarts, losses>>

\* The oldest result makes room for the newest, and can no longer be posted again.
Forgotten(kept) == IF Len(kept) > CacheSize THEN {Head(kept).seq} ELSE {}

\* CommandQueue.accept: once, and only for what was offered.
Accept(call) ==
    /\ call.type = "result"
    /\ calls' = calls \ {call}
    /\ LET seq == call.answer.seq
           all == Append(answers, call.answer)
       IN  IF call.session = boot /\ seq \in offered
              /\ \A i \in 1 .. Len(answers) : answers[i].seq # seq
           THEN /\ pending' = {c \in pending : c.seq # seq}
                /\ answers' = IF Len(all) > CacheSize THEN Tail(all) ELSE all
                /\ offered' = offered \ Forgotten(all)
           ELSE UNCHANGED <<pending, answers, offered>>
    /\ Arrives(call, "batch", loop.batch)
    /\ UNCHANGED <<boot, peer, sequence, planner, incarnation, session, epoch, addonSession,
                   consumer, queued, history, restarts, losses>>

\* The add-on boots again: everything in its memory is gone, and so are the calls
\* it had not handled.
Reboot ==
    /\ restarts > 0
    /\ restarts' = restarts - 1
    /\ boot' = boot + 1 /\ peer' = 0 /\ sequence' = 0
    /\ pending' = {} /\ offered' = {} /\ answers' = <<>>
    /\ link' = 0 /\ plan' = NoPlan /\ replanned' = 0
    /\ calls' = {call \in calls : call.awaited}
    /\ UNCHANGED <<integration, history, losses>>

-----------------------------------------------------------------------------
(* Integration *)

\* The top of the command loop: a fetch under the session entry.data holds now.
BeginFetch ==
    /\ queued' = FALSE
    /\ consumer' = IF consumer.session = session THEN consumer
                   ELSE [NoConsumer EXCEPT !.session = session]
    /\ loop' = [step |-> "fetch", data |-> session, batch |-> {}, outcome |-> "refused"]
    /\ calls' = calls \union {[type |-> "fetch", session |-> session, peer |-> incarnation,
                               answer |-> [seq |-> 0, outcome |-> "refused"], awaited |-> TRUE]}

\* async_commands_pending, from a heartbeat or a forged nudge.
Nudge ==
    IF loop.step = "idle" THEN BeginFetch
    ELSE queued' = TRUE /\ UNCHANGED <<consumer, loop, calls>>

\* A mutant for TLC: a new add-on session under the old epoch.
SameEpoch == epoch
\* AuthorityController.async_new_session: an add-on that rebooted starts a new epoch.
SessionEpoch == IF addonSession = session THEN epoch ELSE epoch + 1

\* A heartbeat of the accepted session: the add-on learns the epoch; if the answer
\* arrives, a new add-on session starts a new epoch and the loop is nudged.
Heartbeat(answered) ==
    /\ session = boot
    /\ link' = epoch
    /\ IF answered
       THEN /\ epoch' = SessionEpoch
            /\ addonSession' = session
            /\ Nudge
       ELSE UNCHANGED <<epoch, addonSession, consumer, loop, queued, calls>>
    /\ UNCHANGED <<queue, plan, replanned, incarnation, session, history, restarts, losses>>

ForgedNudge ==
    /\ Nudge
    /\ UNCHANGED <<queue, planner, incarnation, session, epoch, addonSession, history, restarts,
                   losses>>

\* CommandConsumer.results: the newest sequences stay.
CacheNewest(S) == {a \in S : Cardinality({b \in S : b.seq > a.seq}) < CacheSize}

\* Mutants for TLC: a placeholder that no result replaces, a cache nobody reads.
CachedPending(cons, seq, outcome) ==
    [cons EXCEPT !.last = seq, !.results = CacheNewest(@ \union {[seq |-> seq, outcome |-> "pending"]})]
NeverKnown(c) == {}

Cached(cons, seq, outcome) ==
    [cons EXCEPT !.last = seq,
                 !.results = CacheNewest(@ \union {[seq |-> seq, outcome |-> outcome]})]

\* The answer this command already has.
Known(c) == {a \in consumer.results : a.seq = c.seq}

\* CommandConsumer.async_consume up to the handler: cached, replayed, stale or run.
Consume ==
    /\ loop.step \in {"fetched", "batch"} /\ loop.batch # {} /\ loop.data = session
    /\ LET c      == First(loop.batch)
           stale  == c.epoch # epoch
           Settled(outcome) == [loop EXCEPT !.step = "post", !.outcome = outcome]
       IN  IF Known(c) # {}
           THEN loop' = Settled((CHOOSE a \in Known(c) : TRUE).outcome) /\ UNCHANGED <<consumer, runs>>
           ELSE IF c.seq <= consumer.last
           THEN loop' = Settled("refused") /\ UNCHANGED <<consumer, runs>>
           ELSE IF stale
           THEN /\ loop' = Settled("stale")
                /\ consumer' = Cached(consumer, c.seq, "stale")
                /\ UNCHANGED runs
           ELSE /\ loop' = [loop EXCEPT !.step = "handle"]
                /\ consumer' = [consumer EXCEPT !.last = c.seq]
                /\ runs' = runs \union {[boot |-> loop.data, seq |-> c.seq]}
    /\ UNCHANGED <<queue, planner, incarnation, session, epoch, addonSession, queued, calls,
                   writes, decisions, restarts, losses>>

Wrote(c) == writes' = writes \union {[boot |-> loop.data, seq |-> c.seq, addon |-> addonSession]}

\* One device write of an apply: its checks run again with no await before the write.
Write ==
    /\ loop.step = "handle"
    /\ LET c == First(loop.batch)
       IN  c.kind = "apply" /\ c.epoch = epoch /\ Wrote(c)
    /\ UNCHANGED <<queue, planner, integration, calls, runs, decisions, restarts, losses>>

\* The handler ends: its outcome is the worst of its intents', whatever it wrote before.
Ends(c, outcome) ==
    /\ consumer' = Cached(consumer, c.seq, outcome)
    /\ loop' = [loop EXCEPT !.step = "post", !.outcome = outcome]
    /\ decisions' = decisions \union {[boot |-> loop.data, seq |-> c.seq, outcome |-> outcome]}
    /\ UNCHANGED <<queue, planner, incarnation, session, addonSession, queued, calls, runs,
                   restarts, losses>>

EndApply(outcome) ==
    /\ loop.step = "handle"
    /\ LET c == First(loop.batch)
       IN  /\ c.kind = "apply"
           /\ outcome = "stale" => c.epoch # epoch
           /\ Ends(c, outcome)
    /\ UNCHANGED <<epoch, writes>>

\* A transition under the authority lock: the save is checked and made with no await in
\* between; what follows it may still fail, and a request may leave all as it was.
EndTransition(outcome, saved) ==
    /\ loop.step = "handle"
    /\ LET c == First(loop.batch)
       IN  /\ c.kind = "transition"
           /\ outcome = "stale" => c.epoch # epoch
           /\ outcome = "applied" \/ saved => c.epoch = epoch
           /\ saved => outcome \in {"applied", "failed"} /\ epoch < MaxEpoch
           /\ Ends(c, outcome)
           /\ IF saved THEN epoch' = epoch + 1 /\ Wrote(c) ELSE UNCHANGED <<epoch, writes>>

\* The result is posted and the command leaves the batch, whatever the answer is.
Post ==
    /\ loop.step = "post" /\ loop.data = session
    /\ LET c == First(loop.batch)
       IN  /\ loop' = [loop EXCEPT !.step = "posting", !.batch = @ \ {c}]
           /\ calls' = calls \union {[type |-> "result", session |-> loop.data,
                                      peer |-> incarnation, awaited |-> TRUE,
                                      answer |-> [seq |-> c.seq, outcome |-> loop.outcome]]}
    /\ UNCHANGED <<queue, planner, incarnation, session, epoch, addonSession, consumer, queued,
                   history, restarts, losses>>

\* entry.data was replaced under the task: it ends where it next looks.
Abandon ==
    /\ loop.data # session
    /\ \/ loop.step \in {"fetched", "post"}
       \/ loop.step = "batch" /\ loop.batch # {}
    /\ loop' = NoLoop
    /\ UNCHANGED <<queue, planner, incarnation, session, epoch, addonSession, consumer, queued,
                   calls, history, restarts, losses>>

\* The batch is done: the task ends, or fetches once more for a nudge that came meanwhile.
EndBatch ==
    /\ loop.batch = {}
    /\ \/ loop.step = "fetched" /\ loop.data = session
       \/ loop.step = "batch"
    /\ IF queued THEN BeginFetch
       ELSE loop' = NoLoop /\ UNCHANGED <<consumer, queued, calls>>
    /\ UNCHANGED <<queue, planner, incarnation, session, epoch, addonSession, history, restarts,
                   losses>>

\* Ten seconds without an answer: the call is given up, and may still be handled.
Timeout(call) ==
    /\ call.awaited /\ losses > 0
    /\ losses' = losses - 1
    /\ calls' = (calls \ {call}) \union {[call EXCEPT !.awaited = FALSE]}
    /\ Arrives(call, "batch", loop.batch)
    /\ UNCHANGED <<queue, planner, incarnation, session, epoch, addonSession, consumer, queued,
                   history, restarts>>

\* An owner's own change of authority: a mode, manual control, fallback.
MoveEpoch ==
    /\ epoch < MaxEpoch
    /\ epoch' = epoch + 1
    /\ UNCHANGED <<queue, planner, incarnation, session, addonSession, consumer, loop, queued,
                   calls, history, restarts, losses>>

\* Discovery replaces the connection data at once.
Rediscover ==
    /\ session # boot
    /\ session' = boot
    /\ UNCHANGED <<queue, planner, incarnation, epoch, addonSession, consumer, loop, queued,
                   calls, history, restarts, losses>>

\* The entry reloads, or Home Assistant restarts: a new receiver, nothing in memory.
Reload ==
    /\ restarts > 0
    /\ restarts' = restarts - 1
    /\ incarnation' = incarnation + 1
    /\ consumer' = NoConsumer /\ loop' = NoLoop /\ queued' = FALSE
    /\ calls' = {[call EXCEPT !.awaited = FALSE] : call \in calls}
    /\ UNCHANGED <<queue, planner, session, epoch, addonSession, history, losses>>

-----------------------------------------------------------------------------
Next ==
    \/ Ask
    \/ \E due, soc \in BOOLEAN : Tick(due, soc)
    \/ \E call \in calls : Fetch(call) \/ Accept(call) \/ Timeout(call)
    \/ Reboot
    \/ \E answered \in BOOLEAN : Heartbeat(answered)
    \/ ForgedNudge \/ Consume \/ Write
    \/ \E outcome \in Outcomes, saved \in BOOLEAN : EndApply(outcome) \/ EndTransition(outcome, saved)
    \/ Post \/ Abandon \/ EndBatch \/ MoveEpoch \/ Rediscover \/ Reload

Spec == Init /\ [][Next]_vars

\* The event loops run what is ready, heartbeats repeat, discovery announces a new
\* session, and beyond the calls that may be lost every awaited call is answered.
Answered == \E call \in calls : call.awaited /\ (Fetch(call) \/ Accept(call))
HandlerEnds == \E outcome \in Outcomes : EndApply(outcome) \/ EndTransition(outcome, FALSE)
Fairness ==
    /\ WF_vars(Answered) /\ WF_vars(Heartbeat(TRUE)) /\ WF_vars(Rediscover)
    /\ WF_vars(Consume) /\ WF_vars(HandlerEnds) /\ WF_vars(Post)
    /\ WF_vars(Abandon) /\ WF_vars(EndBatch)
FairSpec == Spec /\ Fairness

-----------------------------------------------------------------------------
(* Properties *)

Before(q, r) == q.boot < r.boot \/ (q.boot = r.boot /\ q.seq < r.seq)

\* CommandConsumer: a consumed sequence is never run again, and no command runs after a
\* later one has: not after a lost result, a reload, a late fetch or another session.
RunsForward ==
    [][loop.step # "handle" /\ loop'.step = "handle"
         => \A q \in runs : Before(q, [boot |-> loop'.data, seq |-> First(loop'.batch).seq])]_vars

\* AuthorityController.async_new_session: once the authority has seen a rebooted add-on,
\* no command of an earlier boot writes, even one whose handler was already running.
RebootFences == \A w \in writes : w.addon <= w.boot

\* CommandQueue.accept: the result the add-on keeps for a command is the one the
\* integration came to; a command that never ran is answered as stale or refused.  A result
\* may be lost for so long that CacheSize newer commands put it out of the consumer's cache:
\* then, and only then, a command that ran is answered as replayed.
Ran(seq) == [boot |-> boot, seq |-> seq] \in runs
Overtaken(seq) == seq + CacheSize <= sequence
Agrees(a) ==
    IF Ran(a.seq) THEN \/ [boot |-> boot, seq |-> a.seq, outcome |-> a.outcome] \in decisions
                       \/ a.outcome = "refused" /\ Overtaken(a.seq)
    ELSE a.outcome \in {"stale", "refused"}
AnswersAgree == \A i \in 1 .. Len(answers) : Agrees(answers[i])

\* NativeApply: one unresolved apply at a time, and it is the plan's.
OneApply == \A c \in pending : c.kind = "apply" => c.seq = plan.seq

\* CommandQueue, the command loop: everything queued is eventually answered or dropped,
\* whatever was lost before.
RequestsResolve ==
    \A s \in 1 .. MaxSequence : (s \in Seqs(pending)) ~> (s \notin Seqs(pending))
=============================================================================
