------------------------------- MODULE ReplanTick -------------------------------
(***************************************************************************)
(* The add-on's daemon loop as its callers see it.  Owners ask for a       *)
(* replan, a clock sync or a mode through DaemonChannel and wait; settings *)
(* and topology revisions are published and ask for a replan themselves.   *)
(* Every tick captures the settings and the two fences the write gate      *)
(* checks, takes at most one request, plans and writes.  Saves, revisions  *)
(* and requests land between any two awaits of the tick; a run raises and  *)
(* the daemon stops.                                                       *)
(*                                                                         *)
(* Abstracted: a plan is the settings and limits it was computed from; the *)
(* mode lifecycle, SoC recovery and holds of the tick (LegacyHolds,        *)
(* SolisProgram); a caller whose answer times out has only stopped reading. *)
(***************************************************************************)
EXTENDS Naturals, Sequences

CONSTANTS
    Callers,        \* owners and CLI calls, each makes one request
    Edits,          \* settings saves and topology revisions in a behaviour
    QueueRoom,      \* maxsize of the work queue (64 in the code)
    TickFaults      \* runs that raise, in a behaviour

ASSUME ReplanAssumption ==
    /\ Edits \in Nat /\ QueueRoom \in Nat \ {0} /\ TickFaults \in Nat

VARIABLES
    published,      \* what is live: settings revision, its actuation part, limits revision
    work,           \* DaemonChannel.queue and mode_queue
    answer,          \* per caller: not asked, waiting, or answered by a plan or otherwise
    tick,           \* the tick under way: what it captured, and the callers it answers
    memo,           \* what the loop keeps: last settings, a plan is due, applied baseline
    resident,       \* the settings and limits the device was last programmed from
    serving,        \* the daemon accepts requests
    waited,          \* history: the callers that waited when the run under way began
    tickFaults      \* TickFaults left

replanVars == <<published, work, answer, tick, memo, resident, serving, waited, tickFaults>>

\* act counts the saves that change what is written (config_generation counts with it).
Revisions      == [rev : 0 .. Edits, act : 0 .. Edits, limits : 0 .. Edits]
Basis     == [act : 0 .. Edits, limits : 0 .. Edits]
Baselines == {{}} \union {{b} : b \in Basis}
Work      == [op : {"replan", "sync_clock"}, callers : SUBSET Callers]
Stages    == {"asleep", "observe", "decide", "plan", "write", "rest"}
Fences    == [act |-> published.act, limits |-> published.limits]
NoBasis   == [act |-> 0, limits |-> 0]
Asleep    == [at |-> "asleep", act |-> 0, fence |-> NoBasis, plan |-> NoBasis,
              heard |-> {}, over |-> FALSE]

ReplanTypeOK ==
    /\ published \in Revisions /\ resident \in Baselines /\ serving \in BOOLEAN
    /\ work \in [queue : Seq(Work), modes : SUBSET Callers] /\ Len(work.queue) <= QueueRoom
    /\ answer \in [Callers -> {"none", "waiting", "plan", "other"}]
    /\ tick \in [at : Stages, act : 0 .. Edits, fence : Basis, plan : Basis,
                 heard : SUBSET Callers, over : BOOLEAN]
    /\ memo \in [rev : 0 .. Edits, due : BOOLEAN, baseline : Baselines]
    /\ waited \subseteq Callers /\ tickFaults \in 0 .. TickFaults

ReplanInit ==
    /\ published = [rev |-> 0, act |-> 0, limits |-> 0]
    /\ work = [queue |-> <<>>, modes |-> {}] /\ answer = [c \in Callers |-> "none"]
    /\ tick = Asleep /\ memo = [rev |-> 0, due |-> TRUE, baseline |-> {}]
    /\ resident = {} /\ serving = TRUE /\ waited = {} /\ tickFaults = TickFaults

Replies(who, how) == [c \in Callers |-> IF c \in who THEN how ELSE answer[c]]

-----------------------------------------------------------------------------
(* The channel *)

Replan(i)  == work.queue[i].op = "replan"
Joinable   == \E i \in DOMAIN work.queue : Replan(i)
Joined(who) == [i \in DOMAIN work.queue |->
    IF Replan(i) THEN [work.queue[i] EXCEPT !.callers = @ \union who] ELSE work.queue[i]]
Room       == Len(work.queue) < QueueRoom
Queued(op, who) == Append(work.queue, [op |-> op, callers |-> who])

\* A replan joins the one that is queued and not taken yet; a full queue refuses.
Enlist(c, op) ==
    /\ answer[c] = "none"
    /\ IF ~serving
       THEN answer' = Replies({c}, "other") /\ UNCHANGED work
       ELSE \/ /\ op = "mode"
               /\ work' = [work EXCEPT !.modes = @ \union {c}]
               /\ answer' = Replies({c}, "waiting")
            \/ /\ op = "replan" /\ Joinable
               /\ work' = [work EXCEPT !.queue = Joined({c})]
               /\ answer' = Replies({c}, "waiting")
            \/ /\ op # "mode" /\ ~(op = "replan" /\ Joinable) /\ Room
               /\ work' = [work EXCEPT !.queue = Queued(op, {c})]
               /\ answer' = Replies({c}, "waiting")
            \/ /\ op # "mode" /\ ~(op = "replan" /\ Joinable) /\ ~Room
               /\ answer' = Replies({c}, "other") /\ UNCHANGED work
    /\ UNCHANGED <<published, tick, memo, resident, serving, waited, tickFaults>>

\* request_replan waits for nobody and drops what finds no room.
Notify ==
    work' = IF ~Joinable /\ Room THEN [work EXCEPT !.queue = Queued("replan", {})]
            ELSE work

\* A save changes what is written, or only what is planned; a new topology revision
\* replaces the limits.  Display-only saves change nothing here.
Revise(actuation) ==
    /\ serving /\ published.rev + published.limits < Edits
    /\ published' = [published EXCEPT !.rev = @ + 1, !.act = IF actuation THEN @ + 1 ELSE @]
    /\ Notify
    /\ UNCHANGED <<answer, tick, memo, resident, serving, waited, tickFaults>>

AcceptTopology ==
    /\ serving /\ published.rev + published.limits < Edits
    /\ published' = [published EXCEPT !.limits = @ + 1]
    /\ Notify
    /\ UNCHANGED <<answer, tick, memo, resident, serving, waited, tickFaults>>

-----------------------------------------------------------------------------
(* The tick *)

\* A plan is not compared with one that other settings gave.
Reloaded == IF published.rev = memo.rev THEN memo
            ELSE [memo EXCEPT !.rev = published.rev, !.baseline = {}]

\* Settings, then the fences, without an await between them.
Capture ==
    /\ serving /\ tick.at = "asleep"
    /\ tick' = [Asleep EXCEPT !.at = "observe", !.act = published.act, !.fence = Fences]
    /\ memo' = Reloaded
    /\ UNCHANGED <<published, work, answer, resident, serving, waited, tickFaults>>

\* After the tick's notices, reconciliation and SoC: an owner's mode request first.  The
\* accepted mode is answered; what it asks for is the next ticks' work.
ServeMode ==
    /\ tick.at = "observe"
    /\ \E c \in work.modes : work' = [work EXCEPT !.modes = @ \ {c}]
                             /\ answer' = Replies({c}, "other")
    /\ tick' = [tick EXCEPT !.at = "decide"]
    /\ UNCHANGED <<published, memo, resident, serving, waited, tickFaults>>

NoRequest ==
    /\ tick.at = "observe" /\ work.modes = {} /\ work.queue = <<>>
    /\ tick' = [tick EXCEPT !.at = "decide"]
    /\ UNCHANGED <<published, work, answer, memo, resident, serving, waited, tickFaults>>

SyncClock ==
    /\ tick.at = "observe" /\ work.modes = {} /\ work.queue # <<>> /\ ~Replan(1)
    /\ work' = [work EXCEPT !.queue = Tail(@)] /\ tick' = [tick EXCEPT !.at = "decide"]
    /\ \/ answer' = Replies(Head(work.queue).callers, "other") /\ UNCHANGED <<memo, tickFaults>>
       \/ /\ tickFaults > 0 /\ tickFaults' = tickFaults - 1
          /\ answer' = Replies(Head(work.queue).callers, "other")
          /\ memo' = [memo EXCEPT !.baseline = {}]
    /\ UNCHANGED <<published, resident, serving, waited>>

Begin(who) ==
    /\ tick' = [tick EXCEPT !.at = "plan", !.heard = who]
    /\ waited' = {c \in Callers : answer[c] = "waiting"}

TakeReplan ==
    /\ tick.at = "observe" /\ work.modes = {} /\ work.queue # <<>> /\ Replan(1)
    /\ work' = [work EXCEPT !.queue = Tail(@)] /\ Begin(Head(work.queue).callers)
    /\ UNCHANGED <<published, answer, memo, resident, serving, tickFaults>>

\* Without a request a plan is made once per half hour.
Scheduled ==
    /\ tick.at = "decide"
    /\ IF memo.due THEN Begin({}) ELSE tick' = [Asleep EXCEPT !.over = tick.over] /\ UNCHANGED waited
    /\ UNCHANGED <<published, work, answer, memo, resident, serving, tickFaults>>

Boundary ==
    /\ serving /\ ~tick.over
    /\ memo' = [memo EXCEPT !.due = TRUE] /\ tick' = [tick EXCEPT !.over = TRUE]
    /\ UNCHANGED <<published, work, answer, resident, serving, waited, tickFaults>>

-----------------------------------------------------------------------------
(* The run *)

\* The settings are the tick's; the limits record is read when the plan is computed.
PlanBasis(t) == [act |-> t.act, limits |-> published.limits]
\* Mutant for TLC: the fences are read again when the plan is computed.
FenceNow(t)  == Fences
Fence(t)     == t.fence
Compute ==
    /\ tick.at = "plan"
    /\ tick' = [tick EXCEPT !.at = "write", !.plan = PlanBasis(tick), !.fence = Fence(tick)]
    /\ UNCHANGED <<published, work, answer, memo, resident, serving, waited, tickFaults>>

\* Mutant for TLC: replans that arrived later are answered too.
ServedAll(t) == t.heard \union UNION {work.queue[i].callers : i \in DOMAIN work.queue}
Served(t)    == t.heard
Finish(how, baseline) ==
    /\ answer' = Replies(Served(tick), IF how = "plan" THEN how ELSE "other") /\ waited' = {}
    /\ memo' = [memo EXCEPT !.due = IF how = "failed" THEN @ ELSE tick.over, !.baseline = baseline]
    /\ tick' = [Asleep EXCEPT !.over = tick.over]
    /\ UNCHANGED <<published, work, serving>>

\* WriteGate.mode_for, asked again before every write.
Permitted == tick.fence = Fences

Skip ==
    /\ tick.at = "write" /\ memo.baseline = {tick.plan}
    /\ Finish("plan", memo.baseline) /\ UNCHANGED <<resident, tickFaults>>

Write ==
    /\ tick.at = "write" /\ memo.baseline # {tick.plan} /\ Permitted
    /\ resident' = {tick.plan} /\ tick' = [tick EXCEPT !.at = "rest"]
    /\ UNCHANGED <<published, work, answer, memo, serving, waited, tickFaults>>

WriteRest ==
    /\ tick.at = "rest" /\ Permitted
    /\ Finish("plan", {tick.plan}) /\ UNCHANGED <<resident, tickFaults>>

TurnedAway ==
    /\ tick.at = "rest" \/ (tick.at = "write" /\ memo.baseline # {tick.plan})
    /\ ~Permitted /\ Finish("refused", {}) /\ UNCHANGED <<resident, tickFaults>>

Raises ==
    /\ tick.at \in {"plan", "write", "rest"}
    /\ tickFaults > 0 /\ tickFaults' = tickFaults - 1
    /\ Finish("failed", {}) /\ UNCHANGED resident

-----------------------------------------------------------------------------
(* Stop and start *)

\* The run's own callers first, then everything queued.
Waiters     == tick.heard \union work.modes
               \union UNION {work.queue[i].callers : i \in DOMAIN work.queue}
StopDaemon ==
    /\ serving /\ tickFaults > 0 /\ tickFaults' = tickFaults - 1
    /\ serving' = FALSE /\ answer' = Replies(Waiters, "other")
    /\ work' = [queue |-> <<>>, modes |-> {}] /\ tick' = Asleep
    /\ memo' = [rev |-> published.rev, due |-> TRUE, baseline |-> {}] /\ waited' = {}
    /\ UNCHANGED <<published, resident>>

StartDaemon ==
    /\ ~serving /\ serving' = TRUE
    /\ UNCHANGED <<published, work, answer, tick, memo, resident, waited, tickFaults>>

ReplanNext ==
    \/ \E c \in Callers, op \in {"replan", "sync_clock", "mode"} : Enlist(c, op)
    \/ \E actuation \in BOOLEAN : Revise(actuation)
    \/ AcceptTopology
    \/ Capture \/ ServeMode \/ NoRequest \/ SyncClock \/ TakeReplan \/ Scheduled \/ Boundary
    \/ Compute \/ Skip \/ Write \/ WriteRest \/ TurnedAway \/ Raises
    \/ StopDaemon \/ StartDaemon

ReplanSpec == ReplanInit /\ [][ReplanNext]_replanVars

-----------------------------------------------------------------------------
(* Properties *)

\* Whoever waits is queued or being served: no join, refusal, failing run or stop loses a
\* caller.
NobodyLost == \A c \in Callers : answer[c] = "waiting" <=> c \in Waiters

\* No caller is lost, and a plan answers only those who asked before its run began.
RunsAfterAsked ==
    [][/\ NobodyLost'
       /\ \A c \in Callers : answer[c] = "waiting" /\ answer'[c] = "plan" => c \in waited]_replanVars

\* What the next run compares its plan with is on the device: a run that was refused half
\* way, raised or ran under replaced settings leaves nothing to compare with.
BaselineResident == tick.at # "rest" => memo.baseline \subseteq resident

\* The device is written only from the actuation settings and limits that are live then,
\* although both may be replaced between the capture, the computation and each write; and what
\* a later run compares itself with was written.
WritesCurrent ==
    [][/\ BaselineResident'
       /\ \A b \in resident' : b \notin resident => b = Fences]_replanVars
=================================================================================
