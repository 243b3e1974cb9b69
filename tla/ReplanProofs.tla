------------------------------ MODULE ReplanProofs ------------------------------
(***************************************************************************)
(* Theorems about the add-on's daemon loop, for every set of callers and   *)
(* every bound on edits, queue and failing runs: each caller has one place *)
(* to wait in and is answered by a run that began after it asked, and the  *)
(* device is written only from what is live.                               *)
(***************************************************************************)
EXTENDS ReplanTick, SequenceTheorems, TLAPS

-----------------------------------------------------------------------------
(* The inductive invariants *)

\* Whoever waits stands in one place: at a queued entry, among the mode requests, or with
\* the run under way; and one replan at most is queued, which the next one joins.
Placed(w, h, a) ==
    /\ \A i, j \in DOMAIN w.queue : i # j => w.queue[i].callers \cap w.queue[j].callers = {}
    /\ \A i \in DOMAIN w.queue : w.queue[i].callers \cap (w.modes \union h) = {}
    /\ w.modes \cap h = {}
    /\ \A c \in Callers : a[c] = "waiting" <=>
            \/ c \in h \/ c \in w.modes
            \/ \E i \in DOMAIN w.queue : c \in w.queue[i].callers
    /\ \A i, j \in DOMAIN w.queue :
            w.queue[i].op = "replan" /\ w.queue[j].op = "replan" => i = j

\* Only a run answers callers, and it answers some that waited when it began.
HeardWaited ==
    /\ tick.heard \subseteq waited
    /\ tick.at \in {"asleep", "observe", "decide"} => tick.heard = {}

CallersInv == ReplanTypeOK /\ Placed(work, tick.heard, answer) /\ HeardWaited

\* The fences are older than the plan's limits, and those older than what is live; between
\* the two writes of a run the device holds the plan.
FenceFirst ==
    /\ published.act <= published.rev
    /\ tick.act = tick.fence.act
    /\ tick.at # "asleep" => tick.fence.limits <= published.limits
    /\ tick.at \in {"write", "rest"} =>
          /\ tick.plan.act = tick.act
          /\ tick.fence.limits <= tick.plan.limits /\ tick.plan.limits <= published.limits
    /\ tick.at = "rest" => resident = {tick.plan}

CurrentInv == ReplanTypeOK /\ FenceFirst /\ BaselineResident

-----------------------------------------------------------------------------
(* Type correctness *)

\* The daemon starts with nothing asked, queued or written.
LEMMA ReplanTypeInit == ReplanInit => ReplanTypeOK /\ FenceFirst
<1> SUFFICES ASSUME ReplanInit PROVE ReplanTypeOK /\ FenceFirst
  OBVIOUS
<1>1. 0 \in 0 .. Edits /\ TickFaults \in 0 .. TickFaults
  BY ReplanAssumption
<1>2. work \in [queue : Seq(Work), modes : SUBSET Callers] /\ Len(work.queue) <= QueueRoom
  BY ReplanAssumption DEF ReplanInit
<1>3. tick \in [at : Stages, act : 0 .. Edits, fence : Basis, plan : Basis,
                heard : SUBSET Callers, over : BOOLEAN]
  BY <1>1 DEF ReplanInit, Asleep, Stages, Basis, NoBasis
<1>4. FenceFirst
  BY DEF ReplanInit, Asleep, FenceFirst, NoBasis
<1> QED
  BY <1>1, <1>2, <1>3, <1>4 DEF ReplanInit, ReplanTypeOK, Revisions, Baselines

\* An entry joined or queued is still work, and Notify never overfills the queue.
LEMMA QueueTypes ==
    ASSUME ReplanTypeOK
    PROVE  /\ \A who \in SUBSET Callers :
                Joined(who) \in Seq(Work) /\ Len(Joined(who)) = Len(work.queue)
           /\ \A op \in {"replan", "sync_clock"}, who \in SUBSET Callers :
                Room => Queued(op, who) \in Seq(Work) /\ Len(Queued(op, who)) <= QueueRoom
           /\ work.queue # <<>> => /\ Tail(work.queue) \in Seq(Work) /\ Len(Tail(work.queue)) <= QueueRoom
                                   /\ Head(work.queue) \in Work
<1> USE DEF ReplanTypeOK
<1>0. work.queue \in Seq(Work) /\ Len(work.queue) \in Nat /\ DOMAIN work.queue = 1 .. Len(work.queue)
  OBVIOUS
<1>1. ASSUME NEW who \in SUBSET Callers
      PROVE  Joined(who) \in Seq(Work) /\ Len(Joined(who)) = Len(work.queue)
  <2>1. \A i \in 1 .. Len(work.queue) : work.queue[i] \in Work
    BY <1>0
  <2>2. \A e \in Work : [e EXCEPT !.callers = @ \union who] \in Work
    BY DEF Work
  <2>3. Joined(who) = [i \in 1 .. Len(work.queue) |->
            IF Replan(i) THEN [work.queue[i] EXCEPT !.callers = @ \union who] ELSE work.queue[i]]
    BY <1>0 DEF Joined
  <2>4. \A i \in 1 .. Len(work.queue) :
          (IF Replan(i) THEN [work.queue[i] EXCEPT !.callers = @ \union who] ELSE work.queue[i]) \in Work
    BY <2>1, <2>2
  <2> HIDE DEF Joined
  <2>5. Joined(who) \in [1 .. Len(work.queue) -> Work]
    BY <2>3, <2>4
  <2> QED BY SMTT(30), <1>0, <2>5, LenProperties
<1>2. ASSUME NEW op \in {"replan", "sync_clock"}, NEW who \in SUBSET Callers, Room
      PROVE  Queued(op, who) \in Seq(Work) /\ Len(Queued(op, who)) <= QueueRoom
  <2>1. [op |-> op, callers |-> who] \in Work
    BY DEF Work
  <2> QED BY <1>0, <1>2, <2>1, ReplanAssumption, AppendProperties DEF Queued, Room
<1>3. ASSUME work.queue # <<>>
      PROVE  /\ Tail(work.queue) \in Seq(Work) /\ Len(Tail(work.queue)) <= QueueRoom
             /\ Head(work.queue) \in Work
  BY <1>0, <1>3, ReplanAssumption, HeadTailProperties
<1> QED BY <1>1, <1>2, <1>3
\* What the fences are worth, and a plan's basis.
LEMMA FenceTypes ==
    ASSUME ReplanTypeOK
    PROVE  /\ Fences \in Basis /\ PlanBasis(tick) \in Basis /\ NoBasis \in Basis
           /\ {tick.plan} \in Baselines /\ {} \in Baselines
           /\ Asleep.heard = {} /\ Asleep.at = "asleep" /\ Asleep.act = 0 /\ Asleep.fence = NoBasis
           /\ \A b \in BOOLEAN : [Asleep EXCEPT !.over = b] \in
                  [at : Stages, act : 0 .. Edits, fence : Basis, plan : Basis,
                   heard : SUBSET Callers, over : BOOLEAN]
<1>1. 0 \in 0 .. Edits
  BY ReplanAssumption
<1> QED
  BY <1>1 DEF ReplanTypeOK, Revisions, Fences, PlanBasis, NoBasis, Basis, Baselines, Asleep, Stages

\* An answer is an answer, whoever gets it.
LEMMA RepliesType ==
    ASSUME answer \in [Callers -> {"none", "waiting", "plan", "other"}],
           NEW who, NEW how \in {"waiting", "plan", "other"}
    PROVE  Replies(who, how) \in [Callers -> {"none", "waiting", "plan", "other"}]
BY DEF Replies

\* The end of a run and a stop put everything back into its type.
LEMMA FinishType ==
    ASSUME ReplanTypeOK, NEW how \in {"plan", "refused", "failed"}, NEW baseline \in Baselines,
           Finish(how, baseline)
    PROVE  /\ answer' \in [Callers -> {"none", "waiting", "plan", "other"}] /\ waited' = {}
           /\ memo' \in [rev : 0 .. Edits, due : BOOLEAN, baseline : Baselines]
           /\ tick' = [Asleep EXCEPT !.over = tick.over] /\ UNCHANGED <<published, work, serving>>
           /\ tick' \in [at : Stages, act : 0 .. Edits, fence : Basis, plan : Basis,
                         heard : SUBSET Callers, over : BOOLEAN]
           /\ memo'.baseline = baseline
<1> USE DEF ReplanTypeOK
<1>1. answer' \in [Callers -> {"none", "waiting", "plan", "other"}]
  BY RepliesType DEF Finish
<1>2. tick' = [Asleep EXCEPT !.over = tick.over] /\ tick.over \in BOOLEAN
  BY DEF Finish
<1>3. memo' \in [rev : 0 .. Edits, due : BOOLEAN, baseline : Baselines] /\ memo'.baseline = baseline
  BY DEF Finish
<1> QED BY <1>1, <1>2, <1>3, FenceTypes DEF Finish

\* Every step keeps every variable of the daemon loop in its type.
LEMMA ReplanTypeStep ==
    ASSUME ReplanTypeOK, FenceFirst, [ReplanNext]_replanVars PROVE ReplanTypeOK'
<1> USE DEF ReplanTypeOK
<1> DEFINE Ticks == [at : Stages, act : 0 .. Edits, fence : Basis, plan : Basis,
                     heard : SUBSET Callers, over : BOOLEAN]
           Memos == [rev : 0 .. Edits, due : BOOLEAN, baseline : Baselines]
           Works == [queue : Seq(Work), modes : SUBSET Callers]
<1>1. ASSUME NEW c \in Callers, NEW op \in {"replan", "sync_clock", "mode"}, Enlist(c, op)
      PROVE  ReplanTypeOK'
  <2>1. answer' \in [Callers -> {"none", "waiting", "plan", "other"}]
    BY <1>1, RepliesType DEF Enlist
  <2>2. \/ work' = work
        \/ work' = [work EXCEPT !.modes = @ \union {c}]
        \/ work' = [work EXCEPT !.queue = Joined({c})]
        \/ op # "mode" /\ Room /\ work' = [work EXCEPT !.queue = Queued(op, {c})]
    BY <1>1 DEF Enlist
  <2> HIDE DEF Joined, Queued
  <2>3. work' \in Works /\ Len(work'.queue) <= QueueRoom
    BY <2>2, QueueTypes
  <2> QED BY <1>1, <2>1, <2>3 DEF Enlist
<1>2. ASSUME Notify PROVE work' \in Works /\ Len(work'.queue) <= QueueRoom
  <2>1. CASE ~Joinable /\ Room
    <3>1. work' = [work EXCEPT !.queue = Queued("replan", {})]
      BY <1>2, <2>1 DEF Notify
    <3> HIDE DEF Queued
    <3> QED BY <2>1, <3>1, QueueTypes
  <2>2. CASE ~(~Joinable /\ Room)
    <3>1. work' = work
      BY <1>2, <2>2 DEF Notify
    <3> QED BY <3>1
  <2> QED BY <2>1, <2>2
<1>3. ASSUME NEW actuation \in BOOLEAN, Revise(actuation) PROVE ReplanTypeOK'
  <2>1. /\ published.rev + 1 \in 0 .. Edits
        /\ (IF actuation THEN published.act + 1 ELSE published.act) \in 0 .. Edits
    BY <1>3, ReplanAssumption DEF Revise, Revisions, FenceFirst
  <2>2. published' \in Revisions
    <3>1. published' = [published EXCEPT !.rev = published.rev + 1,
                                         !.act = IF actuation THEN published.act + 1 ELSE published.act]
      BY <1>3 DEF Revise
    <3> QED BY <2>1, <3>1 DEF Revisions
  <2> QED BY <1>2, <1>3, <2>2 DEF Revise
<1>4. CASE AcceptTopology
  <2>1. published.limits + 1 \in 0 .. Edits
    BY <1>4, ReplanAssumption DEF AcceptTopology, Revisions
  <2>2. published' \in Revisions
    BY <1>4, <2>1 DEF AcceptTopology, Revisions
  <2> QED BY <1>2, <1>4, <2>2 DEF AcceptTopology
<1>5. CASE Capture
  <2>1. tick' \in Ticks
    BY <1>5, FenceTypes DEF Capture, Asleep, Stages, Revisions
  <2>2. memo' \in Memos
    BY <1>5, FenceTypes DEF Capture, Reloaded, Revisions
  <2> QED BY <1>5, <2>1, <2>2 DEF Capture
<1>6. CASE ServeMode
  <2>1. PICK c \in work.modes : /\ work' = [work EXCEPT !.modes = @ \ {c}]
                                /\ answer' = Replies({c}, "other")
    BY <1>6 DEF ServeMode
  <2>2. answer' \in [Callers -> {"none", "waiting", "plan", "other"}]
    BY <2>1, RepliesType
  <2>3. work' \in Works /\ Len(work'.queue) <= QueueRoom
    BY <2>1
  <2>4. tick' \in Ticks
    BY <1>6 DEF ServeMode, Stages
  <2> QED BY <1>6, <2>2, <2>3, <2>4 DEF ServeMode
<1>7. CASE NoRequest
  BY <1>7 DEF NoRequest, Stages
<1>8. ASSUME work.queue # <<>>, work' = [work EXCEPT !.queue = Tail(@)]
      PROVE  work' \in Works /\ Len(work'.queue) <= QueueRoom
  BY <1>8, QueueTypes
<1>9. CASE SyncClock
  <2>1. answer' \in [Callers -> {"none", "waiting", "plan", "other"}]
    BY <1>9, RepliesType DEF SyncClock
  <2>2. memo' \in Memos
    <3>1. memo' = memo \/ memo' = [memo EXCEPT !.baseline = {}]
      BY <1>9 DEF SyncClock
    <3> QED BY <3>1, FenceTypes
  <2>4. tickFaults' \in 0 .. TickFaults
    <3>1. tickFaults' = tickFaults \/ (tickFaults > 0 /\ tickFaults' = tickFaults - 1)
      BY <1>9 DEF SyncClock
    <3> QED BY <3>1, ReplanAssumption
  <2>3. tick' \in Ticks
    BY <1>9 DEF SyncClock, Stages
  <2> QED BY <1>8, <1>9, <2>1, <2>2, <2>3, <2>4 DEF SyncClock
<1>10. ASSUME NEW who \in SUBSET Callers, Begin(who) PROVE tick' \in Ticks /\ waited' \subseteq Callers
  BY <1>10 DEF Begin, Stages
<1>11. CASE TakeReplan
  <2>1. Head(work.queue).callers \in SUBSET Callers
    BY <1>11, QueueTypes DEF TakeReplan, Work
  <2> QED BY <1>8, <1>10, <1>11, <2>1 DEF TakeReplan
<1>12. CASE Scheduled
  <2>1. tick' \in Ticks /\ waited' \subseteq Callers
    <3>1. CASE memo.due
      BY <1>10, <1>12, <3>1 DEF Scheduled
    <3>2. CASE ~memo.due
      BY <1>12, <3>2, FenceTypes DEF Scheduled
    <3> QED BY <3>1, <3>2
  <2> QED BY <1>12, <2>1 DEF Scheduled
<1>13. CASE Boundary
  BY <1>13 DEF Boundary
<1>14. CASE Compute
  <2>1. tick' \in Ticks
    BY <1>14, FenceTypes DEF Compute, Fence, Stages
  <2> QED BY <1>14, <2>1 DEF Compute
<1>15. CASE Skip
  BY <1>15, FinishType DEF Skip
<1>16. CASE Write
  <2>1. tick' \in Ticks /\ resident' \in Baselines
    BY <1>16, FenceTypes DEF Write, Stages
  <2> QED BY <1>16, <2>1 DEF Write
<1>17. CASE WriteRest
  BY <1>17, FinishType, FenceTypes DEF WriteRest
<1>18. CASE TurnedAway
  BY <1>18, FinishType, FenceTypes DEF TurnedAway
<1>19. CASE Raises
  BY <1>19, FinishType, FenceTypes, ReplanAssumption DEF Raises
<1>20. CASE StopDaemon
  <2>1. answer' \in [Callers -> {"none", "waiting", "plan", "other"}]
    BY <1>20, RepliesType DEF StopDaemon
  <2>2. work' \in Works /\ Len(work'.queue) <= QueueRoom
    BY <1>20, ReplanAssumption DEF StopDaemon
  <2>3. tick' \in Ticks
    BY <1>20, ReplanAssumption DEF StopDaemon, Asleep, Stages, Basis, NoBasis
  <2>4. memo' \in Memos /\ tickFaults' \in 0 .. TickFaults
    BY <1>20, ReplanAssumption DEF StopDaemon, Revisions, Baselines
  <2> QED BY <1>20, <2>1, <2>2, <2>3, <2>4 DEF StopDaemon
<1>21. CASE StartDaemon
  BY <1>21 DEF StartDaemon
<1>22. CASE UNCHANGED replanVars
  BY <1>22 DEF replanVars
<1> QED
  BY <1>1, <1>3, <1>4, <1>5, <1>6, <1>7, <1>9, <1>11, <1>12, <1>13, <1>14, <1>15, <1>16, <1>17,
     <1>18, <1>19, <1>20, <1>21, <1>22 DEF ReplanNext

-----------------------------------------------------------------------------
(* Only what is live is written *)

\* Fences are captured before the limits a plan is made of, and limits only grow.
LEMMA FenceFirstStep ==
    ASSUME ReplanTypeOK, FenceFirst, [ReplanNext]_replanVars PROVE FenceFirst'
<1> USE DEF ReplanTypeOK, FenceFirst
<1>0. /\ published.limits \in Nat /\ published.act \in Nat /\ published.rev \in Nat
      /\ tick.plan.limits \in Nat /\ tick.fence.limits \in Nat /\ tick.act \in Nat
  BY ReplanAssumption DEF Revisions, Basis
<1>1. ASSUME UNCHANGED <<tick, resident, published>> PROVE FenceFirst'
  BY <1>1
<1>2. ASSUME UNCHANGED <<tick, resident>>, published'.act <= published'.rev,
             published'.limits \in {published.limits, published.limits + 1}
      PROVE  FenceFirst'
  BY <1>0, <1>2
<1>3. ASSUME UNCHANGED <<resident, published>>, NEW s \in {"decide"}, tick' = [tick EXCEPT !.at = s],
             tick.at # "asleep"
      PROVE  FenceFirst'
  BY <1>3
<1>4. ASSUME UNCHANGED published, tick' = [Asleep EXCEPT !.over = tick.over]
      PROVE  FenceFirst'
  BY <1>4 DEF Asleep, NoBasis
<1>5. ASSUME NEW who, Begin(who), UNCHANGED <<resident, published>>, tick.at # "asleep" PROVE FenceFirst'
  BY <1>5 DEF Begin
<1>6. ASSUME NEW actuation \in BOOLEAN, Revise(actuation) PROVE FenceFirst'
  <2>1. published'.act <= published'.rev /\ published'.limits = published.limits
    BY <1>0, <1>6 DEF Revise, Revisions
  <2> QED BY <1>2, <1>6, <2>1 DEF Revise
<1>7. CASE AcceptTopology
  <2>1. published'.act <= published'.rev /\ published'.limits = published.limits + 1
    BY <1>0, <1>7 DEF AcceptTopology, Revisions
  <2> QED BY <1>2, <1>7, <2>1 DEF AcceptTopology
<1>8. CASE Capture
  <2>1. /\ tick'.act = published.act /\ tick'.fence = Fences /\ tick'.at = "observe"
        /\ UNCHANGED <<published, resident>>
    BY <1>8 DEF Capture, Asleep
  <2> QED BY <1>0, <2>1 DEF Fences
<1>9. CASE Compute
  <2>1. /\ tick.at = "plan" /\ tick'.at = "write" /\ tick'.act = tick.act
        /\ tick'.fence = tick.fence /\ tick'.plan = PlanBasis(tick)
        /\ UNCHANGED <<published, resident>>
    BY <1>9 DEF Compute, Fence
  <2> QED BY <1>0, <2>1 DEF PlanBasis
<1>10. CASE Write
  <2>1. /\ tick.at = "write" /\ tick'.at = "rest" /\ tick'.act = tick.act
        /\ tick'.fence = tick.fence /\ tick'.plan = tick.plan /\ resident' = {tick.plan}
        /\ UNCHANGED published
    BY <1>10 DEF Write
  <2> QED BY <2>1
<1>11. CASE Boundary
  <2>1. /\ tick'.at = tick.at /\ tick'.act = tick.act /\ tick'.fence = tick.fence
        /\ tick'.plan = tick.plan /\ UNCHANGED <<published, resident>>
    BY <1>11 DEF Boundary
  <2> QED BY <2>1
<1>12. CASE StopDaemon
  <2>1. tick' = Asleep /\ UNCHANGED published
    BY <1>12 DEF StopDaemon
  <2> QED BY <2>1 DEF Asleep, NoBasis
<1>13. ASSUME NEW c \in Callers, NEW op \in {"replan", "sync_clock", "mode"}, Enlist(c, op)
       PROVE  FenceFirst'
  BY <1>1, <1>13 DEF Enlist
<1>14. CASE ServeMode \/ NoRequest \/ SyncClock
  BY <1>3, <1>14 DEF ServeMode, NoRequest, SyncClock
<1>15. CASE TakeReplan \/ Scheduled
  BY <1>4, <1>5, <1>15 DEF TakeReplan, Scheduled
<1>16. CASE Skip \/ WriteRest \/ TurnedAway \/ Raises
  BY <1>4, <1>16 DEF Skip, WriteRest, TurnedAway, Raises, Finish
<1>17. CASE StartDaemon \/ UNCHANGED replanVars
  BY <1>1, <1>17 DEF StartDaemon, replanVars
<1> QED
  BY <1>6, <1>7, <1>8, <1>9, <1>10, <1>11, <1>12, <1>13, <1>14, <1>15, <1>16, <1>17 DEF ReplanNext

\* A run leaves behind only what it wrote whole, or what was there.
LEMMA BaselineStep ==
    ASSUME ReplanTypeOK, FenceFirst, BaselineResident, [ReplanNext]_replanVars
    PROVE  BaselineResident'
<1> USE DEF ReplanTypeOK, FenceFirst, BaselineResident
<1>1. ASSUME UNCHANGED resident, memo'.baseline \in {memo.baseline, {}},
             tick.at = "rest" => memo'.baseline = {} \/ tick'.at = "rest"
      PROVE  BaselineResident'
  BY <1>1
<1>2. CASE Capture
  BY <1>1, <1>2 DEF Capture, Reloaded
<1>3. CASE WriteRest
  <2>1. memo'.baseline = {tick.plan}
    BY <1>3, FinishType, FenceTypes DEF WriteRest
  <2> QED BY <1>3, <2>1 DEF WriteRest
<1>4. CASE Write
  BY <1>4 DEF Write
<1>5. CASE Skip
  <2>1. memo'.baseline = memo.baseline
    BY <1>5, FinishType DEF Skip
  <2> QED BY <1>1, <1>5, <2>1 DEF Skip
<1>6. CASE TurnedAway \/ Raises
  <2>1. memo'.baseline = {}
    BY <1>6, FinishType, FenceTypes DEF TurnedAway, Raises
  <2> QED BY <1>1, <1>6, <2>1 DEF TurnedAway, Raises
<1>7. CASE Boundary
  BY <1>1, <1>7 DEF Boundary
<1>8. CASE StopDaemon
  BY <1>1, <1>8 DEF StopDaemon
<1>9. CASE SyncClock
  BY <1>1, <1>9 DEF SyncClock
<1>10. CASE ServeMode \/ NoRequest \/ TakeReplan \/ Scheduled \/ Compute
  BY <1>1, <1>10 DEF ServeMode, NoRequest, TakeReplan, Scheduled, Begin, Compute
<1>11. ASSUME NEW c \in Callers, NEW op \in {"replan", "sync_clock", "mode"}, Enlist(c, op)
       PROVE  BaselineResident'
  BY <1>1, <1>11 DEF Enlist
<1>12. CASE AcceptTopology \/ StartDaemon \/ UNCHANGED replanVars
                \/ \E actuation \in BOOLEAN : Revise(actuation)
  BY <1>1, <1>12 DEF AcceptTopology, StartDaemon, Revise, replanVars
<1> QED
  BY <1>2, <1>3, <1>4, <1>5, <1>6, <1>7, <1>8, <1>9, <1>10, <1>11, <1>12 DEF ReplanNext

\* A device write happens under fences that are still live, so its plan's limits, taken
\* between the two, are live as well.
LEMMA WritesLive ==
    ASSUME ReplanTypeOK, FenceFirst, [ReplanNext]_replanVars
    PROVE  \A b \in resident' : b \notin resident => b = Fences
<1> USE DEF ReplanTypeOK, FenceFirst
<1>1. CASE Write
  <2>1. tick.at = "write" /\ tick.fence = Fences /\ resident' = {tick.plan}
    BY <1>1 DEF Write, Permitted
  <2>2. tick.plan.act = published.act
    BY <2>1 DEF Fences
  <2>3. tick.plan.limits = published.limits
    <3>1. tick.plan.limits \in Nat /\ published.limits \in Nat /\ tick.fence.limits = published.limits
      BY <2>1, ReplanAssumption DEF Basis, Revisions, Fences
    <3> QED BY <2>1, <3>1
  <2>4. tick.plan = [act |-> tick.plan.act, limits |-> tick.plan.limits]
    BY DEF Basis
  <2> QED BY <2>1, <2>2, <2>3, <2>4 DEF Fences
<1>2. CASE ~Write
  <2>1. UNCHANGED resident
    BY <1>2 DEF ReplanNext, replanVars, Enlist, Revise, AcceptTopology, Capture, ServeMode, NoRequest,
       SyncClock, TakeReplan, Scheduled, Boundary, Compute, Skip, WriteRest, TurnedAway, Raises,
       StopDaemon, StartDaemon
  <2> QED BY <2>1
<1> QED BY <1>1, <1>2

LEMMA CurrentInit == ReplanInit => CurrentInv
BY ReplanTypeInit DEF CurrentInv, BaselineResident, ReplanInit

LEMMA CurrentStep == CurrentInv /\ [ReplanNext]_replanVars => CurrentInv'
BY ReplanTypeStep, FenceFirstStep, BaselineStep DEF CurrentInv

\* Every variable of the daemon loop keeps its type: the queue holds what its maxsize
\* allows, callers stay callers, revisions stay within the edits (DaemonChannel, daemon).
THEOREM ReplanTypeCorrect == ReplanSpec => []ReplanTypeOK
<1>1. CurrentInv => ReplanTypeOK
  BY DEF CurrentInv
<1> QED BY <1>1, CurrentInit, CurrentStep, PTL DEF ReplanSpec

\* Whatever is saved, revised, refused or raised while a tick plans and writes, the device
\* only ever gets the settings and limits that are live at that write, and a later run
\* compares its plan only with what was written (write_gate, _tick).
THEOREM OnlyLiveWritten == ReplanSpec => WritesCurrent
<1>1. CurrentInv /\ [ReplanNext]_replanVars =>
        [/\ BaselineResident'
         /\ \A b \in resident' : b \notin resident => b = Fences]_replanVars
  BY CurrentStep, WritesLive DEF CurrentInv
<1> QED BY <1>1, CurrentInit, CurrentStep, PTL DEF ReplanSpec, WritesCurrent
-----------------------------------------------------------------------------
(* Nobody is lost, nobody is answered too early *)

\* The callers of a queue, as NobodyLost counts them.
LEMMA WaitersPlaced ==
    ASSUME NEW c
    PROVE  c \in Waiters <=> \/ c \in tick.heard \/ c \in work.modes
                             \/ \E i \in DOMAIN work.queue : c \in work.queue[i].callers
BY DEF Waiters

\* One more caller at a queued replan, which is the only one.
LEMMA PlacedJoin ==
    ASSUME NEW h, Placed(work, h, answer), ReplanTypeOK, NEW c \in Callers,
           answer[c] # "waiting", Joinable
    PROVE  Placed([work EXCEPT !.queue = Joined({c})], h, Replies({c}, "waiting"))
<1> DEFINE w == [work EXCEPT !.queue = Joined({c})]
<1>0. work.queue \in Seq(Work) /\ work = [queue |-> work.queue, modes |-> work.modes]
  BY DEF ReplanTypeOK
<1>1. /\ DOMAIN w.queue = DOMAIN work.queue /\ w.modes = work.modes
      /\ \A i \in DOMAIN work.queue :
            /\ w.queue[i].op = work.queue[i].op
            /\ w.queue[i].callers = IF Replan(i) THEN work.queue[i].callers \union {c}
                                    ELSE work.queue[i].callers
  <2>1. w.queue = Joined({c}) /\ w.modes = work.modes
    BY <1>0
  <2>2. \A i \in DOMAIN work.queue : work.queue[i] \in Work
    BY <1>0
  <2> QED BY <2>1, <2>2 DEF Joined, Work
<1>2. /\ c \notin h /\ c \notin work.modes
      /\ \A i \in DOMAIN work.queue : c \notin work.queue[i].callers
  BY DEF Placed
<1>3. PICK k \in DOMAIN work.queue : Replan(k)
  BY DEF Joinable
<1>4. \A i \in DOMAIN work.queue : Replan(i) => i = k
  BY <1>3 DEF Placed, Replan
<1> HIDE DEF w
<1>5. /\ \A i, j \in DOMAIN w.queue : i # j => w.queue[i].callers \cap w.queue[j].callers = {}
      /\ \A i \in DOMAIN w.queue : w.queue[i].callers \cap (w.modes \union h) = {}
  <2>1. ASSUME NEW i \in DOMAIN work.queue, NEW j \in DOMAIN work.queue, i # j
        PROVE  w.queue[i].callers \cap w.queue[j].callers = {}
    <3>1. work.queue[i].callers \cap work.queue[j].callers = {}
      BY <2>1 DEF Placed
    <3>2. ~Replan(i) \/ ~Replan(j)
      BY <1>4, <2>1
    <3> QED BY <1>1, <1>2, <3>1, <3>2
  <2>2. ASSUME NEW i \in DOMAIN work.queue
        PROVE  w.queue[i].callers \cap (work.modes \union h) = {}
    <3>1. work.queue[i].callers \cap (work.modes \union h) = {}
      BY DEF Placed
    <3> QED BY <1>1, <1>2, <3>1
  <2> QED BY <1>1, <2>1, <2>2
<1>6. \A d \in Callers : Replies({c}, "waiting")[d] = "waiting" <=>
        d \in h \/ d \in w.modes \/ \E i \in DOMAIN w.queue : d \in w.queue[i].callers
  <2> TAKE d \in Callers
  <2>1. CASE d = c
    BY <1>1, <1>3, <2>1 DEF Replies
  <2>2. CASE d # c
    <3>1. Replies({c}, "waiting")[d] = answer[d]
      BY <2>2 DEF Replies
    <3>2. \A i \in DOMAIN work.queue : d \in w.queue[i].callers <=> d \in work.queue[i].callers
      BY <1>1, <2>2
    <3>3. answer[d] = "waiting" <=>
            d \in h \/ d \in work.modes \/ \E i \in DOMAIN work.queue : d \in work.queue[i].callers
      BY DEF Placed
    <3> QED BY <1>1, <3>1, <3>2, <3>3
  <2> QED BY <2>1, <2>2
<1>7. \A i, j \in DOMAIN w.queue : w.queue[i].op = "replan" /\ w.queue[j].op = "replan" => i = j
  BY <1>1 DEF Placed
<1> QED BY <1>1, <1>5, <1>6, <1>7 DEF Placed, w

\* A new entry of the queue, of one new caller or of nobody.
LEMMA PlacedAppend ==
    ASSUME NEW h, Placed(work, h, answer), ReplanTypeOK, NEW who \in SUBSET Callers,
           \A c \in who : answer[c] # "waiting", NEW op \in {"replan", "sync_clock"},
           op = "replan" => ~Joinable
    PROVE  Placed([work EXCEPT !.queue = Queued(op, who)], h, Replies(who, "waiting"))
<1> DEFINE w == [work EXCEPT !.queue = Queued(op, who)]
           n == Len(work.queue)
           e == [op |-> op, callers |-> who]
<1>0. work.queue \in Seq(Work) /\ e \in Work /\ n \in Nat /\ DOMAIN work.queue = 1 .. n
        /\ work = [queue |-> work.queue, modes |-> work.modes]
  BY DEF ReplanTypeOK, Work
<1>1. /\ DOMAIN w.queue = 1 .. n + 1 /\ w.modes = work.modes
      /\ \A i \in 1 .. n : w.queue[i] = work.queue[i]
      /\ w.queue[n + 1].op = op /\ w.queue[n + 1].callers = who
  <2>1. w.queue = Append(work.queue, e) /\ w.modes = work.modes
    BY <1>0 DEF Queued
  <2> HIDE DEF w, e
  <2>2. Len(w.queue) = n + 1 /\ w.queue \in Seq(Work)
    BY <1>0, <2>1, AppendProperties
  <2>3. w.queue[n + 1] = e /\ \A i \in 1 .. n : w.queue[i] = work.queue[i]
    BY <1>0, <2>1, AppendProperties
  <2> QED BY <2>1, <2>2, <2>3, LenProperties DEF e
<1>2. \A i \in 1 .. n + 1 : i \in 1 .. n \/ i = n + 1
  BY <1>0
<1>3. n + 1 \in 1 .. n + 1 /\ n + 1 \notin 1 .. n /\ \A i \in 1 .. n : i \in 1 .. n + 1
  BY <1>0
<1>4. \A c \in who : /\ c \notin h /\ c \notin work.modes
                     /\ \A i \in 1 .. n : c \notin work.queue[i].callers
  BY <1>0 DEF Placed
<1> HIDE DEF w, n, e
<1>5. \A i, j \in 1 .. n + 1 : i # j => w.queue[i].callers \cap w.queue[j].callers = {}
  <2> TAKE i, j \in 1 .. n + 1
  <2>1. CASE i \in 1 .. n /\ j \in 1 .. n
    BY <1>0, <1>1, <2>1 DEF Placed
  <2>2. CASE i = n + 1 /\ j \in 1 .. n
    BY <1>1, <1>4, <2>2
  <2>3. CASE j = n + 1 /\ i \in 1 .. n
    BY <1>1, <1>4, <2>3
  <2> QED BY <1>2, <2>1, <2>2, <2>3
<1>6. \A i \in 1 .. n + 1 : w.queue[i].callers \cap (w.modes \union h) = {}
  BY <1>0, <1>1, <1>2, <1>4 DEF Placed
<1>7. \A d \in Callers : Replies(who, "waiting")[d] = "waiting" <=>
        d \in h \/ d \in w.modes \/ \E i \in 1 .. n + 1 : d \in w.queue[i].callers
  <2> TAKE d \in Callers
  <2>1. CASE d \in who
    BY <1>1, <1>3, <2>1 DEF Replies
  <2>2. CASE d \notin who
    <3>1. Replies(who, "waiting")[d] = answer[d]
      BY <2>2 DEF Replies
    <3>2. (\E i \in 1 .. n + 1 : d \in w.queue[i].callers)
            <=> \E i \in 1 .. n : d \in work.queue[i].callers
      BY <1>1, <1>2, <1>3, <2>2
    <3> QED BY <1>0, <1>1, <3>1, <3>2 DEF Placed
  <2> QED BY <2>1, <2>2
<1>8. \A i, j \in 1 .. n + 1 : w.queue[i].op = "replan" /\ w.queue[j].op = "replan" => i = j
  <2>1. op = "replan" => \A i \in 1 .. n : work.queue[i].op # "replan"
    BY <1>0 DEF Joinable, Replan
  <2> QED BY <1>0, <1>1, <1>2, <2>1 DEF Placed
<1>9. Placed(w, h, Replies(who, "waiting"))
  BY <1>0, <1>1, <1>5, <1>6, <1>7, <1>8 DEF Placed
<1> QED BY <1>9 DEF w

\* The run takes the first entry and answers its callers.
LEMMA PlacedTail ==
    ASSUME Placed(work, {}, answer), ReplanTypeOK, work.queue # <<>>
    PROVE  Placed([work EXCEPT !.queue = Tail(@)], Head(work.queue).callers, answer)
<1> DEFINE w == [work EXCEPT !.queue = Tail(@)]
           n == Len(work.queue)
           h == Head(work.queue).callers
<1>0. work.queue \in Seq(Work) /\ n \in Nat /\ DOMAIN work.queue = 1 .. n /\ n > 0
        /\ work = [queue |-> work.queue, modes |-> work.modes]
  BY EmptySeq DEF ReplanTypeOK
<1>1. /\ DOMAIN w.queue = 1 .. n - 1 /\ w.modes = work.modes
      /\ \A i \in 1 .. n - 1 : w.queue[i] = work.queue[i + 1] /\ i + 1 \in 1 .. n
      /\ h = work.queue[1].callers /\ 1 \in 1 .. n
  <2>1. w.queue = Tail(work.queue) /\ w.modes = work.modes
    BY <1>0
  <2> HIDE DEF w
  <2>2. w.queue \in Seq(Work) /\ Len(w.queue) = n - 1
    BY <1>0, <2>1, HeadTailProperties
  <2>3. \A i \in 1 .. n - 1 : w.queue[i] = work.queue[i + 1]
    BY <1>0, <2>1, <2>2, HeadTailProperties
  <2>4. Head(work.queue) = work.queue[1]
    BY <1>0
  <2> QED BY <1>0, <2>1, <2>2, <2>3, <2>4, LenProperties
<1>2. \A i \in 1 .. n : i = 1 \/ (i - 1 \in 1 .. n - 1 /\ i = (i - 1) + 1)
  BY <1>0
<1>3. \A i, j \in 1 .. n - 1 : i + 1 = j + 1 => i = j
  BY <1>0
<1>3a. \A i \in 1 .. n - 1 : i + 1 # 1
  BY <1>0
<1> HIDE DEF w, n, h
<1>4. \A i, j \in 1 .. n - 1 : i # j => w.queue[i].callers \cap w.queue[j].callers = {}
  <2> TAKE i, j \in 1 .. n - 1
  <2>1. /\ i + 1 \in DOMAIN work.queue /\ j + 1 \in DOMAIN work.queue
        /\ (i # j => i + 1 # j + 1)
        /\ w.queue[i] = work.queue[i + 1] /\ w.queue[j] = work.queue[j + 1]
    BY <1>0, <1>1, <1>3
  <2>2. \A p, q \in DOMAIN work.queue :
          p # q => work.queue[p].callers \cap work.queue[q].callers = {}
    BY <1>0 DEF Placed
  <2> QED
    BY <2>1, <2>2
<1>5. \A i \in 1 .. n - 1 : w.queue[i].callers \cap (w.modes \union h) = {}
  <2> TAKE i \in 1 .. n - 1
  <2>1. work.queue[i + 1].callers \cap work.queue[1].callers = {}
    BY <1>0, <1>1, <1>3a DEF Placed
  <2>2. work.queue[i + 1].callers \cap work.modes = {}
    BY <1>0, <1>1 DEF Placed
  <2> QED BY <1>1, <2>1, <2>2
<1>6. w.modes \cap h = {}
  BY <1>0, <1>1 DEF Placed
<1>7. \A c \in Callers : answer[c] = "waiting" <=>
        c \in h \/ c \in w.modes \/ \E i \in 1 .. n - 1 : c \in w.queue[i].callers
  <2> TAKE c \in Callers
  <2>1. (\E i \in 1 .. n : c \in work.queue[i].callers)
          <=> c \in h \/ \E i \in 1 .. n - 1 : c \in w.queue[i].callers
    <3>1. ASSUME NEW i \in 1 .. n, c \in work.queue[i].callers
          PROVE  c \in h \/ \E j \in 1 .. n - 1 : c \in w.queue[j].callers
      <4>1. CASE i = 1
        BY <1>1, <3>1, <4>1
      <4>2. CASE i - 1 \in 1 .. n - 1 /\ i = (i - 1) + 1
        <5>1. w.queue[i - 1] = work.queue[i]
          BY <1>1, <4>2
        <5> QED BY <3>1, <4>2, <5>1
      <4> QED BY <1>2, <4>1, <4>2
    <3> QED BY <1>1, <3>1
  <2>2. answer[c] = "waiting" <=>
          c \in {} \/ c \in work.modes \/ \E i \in 1 .. n : c \in work.queue[i].callers
    BY <1>0 DEF Placed
  <2> QED BY <1>1, <2>1, <2>2
<1>8. \A i, j \in 1 .. n - 1 : w.queue[i].op = "replan" /\ w.queue[j].op = "replan" => i = j
  <2> TAKE i, j \in 1 .. n - 1
  <2>1. work.queue[i + 1].op = "replan" /\ work.queue[j + 1].op = "replan" => i + 1 = j + 1
    BY <1>0, <1>1 DEF Placed
  <2> QED BY <1>1, <1>3, <2>1
<1>9. Placed(w, h, answer)
  BY <1>1, <1>4, <1>5, <1>6, <1>7, <1>8 DEF Placed
<1> QED BY <1>9 DEF w, h

\* Those the run answers wait no longer, and stand nowhere else.
LEMMA PlacedAnswered ==
    ASSUME NEW w, NEW h, NEW how \in {"plan", "other"}, Placed(w, h, answer)
    PROVE  Placed(w, {}, Replies(h, how))
<1>1. \A c \in Callers : Replies(h, how)[c] = "waiting" <=>
        c \in {} \/ c \in w.modes \/ \E i \in DOMAIN w.queue : c \in w.queue[i].callers
  <2> TAKE c \in Callers
  <2>1. CASE c \in h
    <3>1. Replies(h, how)[c] = how
      BY <2>1 DEF Replies
    <3>2. c \notin w.modes /\ \A i \in DOMAIN w.queue : c \notin w.queue[i].callers
      BY <2>1 DEF Placed
    <3> QED BY <3>1, <3>2
  <2>2. CASE c \notin h
    BY <2>2 DEF Placed, Replies
  <2> QED BY <2>1, <2>2
<1> QED BY <1>1 DEF Placed
\* Every step leaves each waiting caller in exactly one place.
LEMMA PlacedStep ==
    ASSUME ReplanTypeOK, Placed(work, tick.heard, answer), HeardWaited, [ReplanNext]_replanVars
    PROVE  Placed(work', tick'.heard, answer')
<1> DEFINE Kept == Placed(work', tick'.heard, answer')
<1> USE DEF ReplanTypeOK
<1>1. ASSUME UNCHANGED <<work, answer>>, tick'.heard = tick.heard PROVE Kept
  BY <1>1
<1>2. ASSUME NEW c \in Callers, NEW op \in {"replan", "sync_clock", "mode"}, Enlist(c, op)
      PROVE  Kept
  <2>0. answer[c] # "waiting" /\ UNCHANGED tick
    BY <1>2 DEF Enlist
  <2>1. CASE UNCHANGED work /\ answer' = Replies({c}, "other")
    <3>1. \A d \in Callers : answer'[d] = "waiting" <=> answer[d] = "waiting"
      BY <2>0, <2>1 DEF Replies
    <3> QED BY <2>0, <2>1, <3>1 DEF Placed
  <2>2. CASE work' = [work EXCEPT !.modes = @ \union {c}] /\ answer' = Replies({c}, "waiting")
    <3>1. work'.queue = work.queue /\ work'.modes = work.modes \union {c}
      BY <2>2
    <3>2. /\ c \notin tick.heard
          /\ \A i \in DOMAIN work.queue : c \notin work.queue[i].callers
      BY <2>0 DEF Placed
    <3>3. \A d \in Callers : answer'[d] = "waiting" <=> answer[d] = "waiting" \/ d = c
      BY <2>2 DEF Replies
    <3>4. \A i \in DOMAIN work.queue : work.queue[i].callers \cap (work'.modes \union tick.heard) = {}
      BY <3>1, <3>2 DEF Placed
    <3> QED BY <2>0, <3>1, <3>2, <3>3, <3>4 DEF Placed
  <2>3. CASE Joinable /\ work' = [work EXCEPT !.queue = Joined({c})] /\ answer' = Replies({c}, "waiting")
    BY <2>0, <2>3, PlacedJoin
  <2>4. CASE /\ op # "mode" /\ ~(op = "replan" /\ Joinable)
             /\ work' = [work EXCEPT !.queue = Queued(op, {c})] /\ answer' = Replies({c}, "waiting")
    BY <2>0, <2>4, PlacedAppend
  <2> QED BY <1>2, <2>1, <2>2, <2>3, <2>4 DEF Enlist
<1>3. ASSUME Notify, UNCHANGED <<answer, tick>> PROVE Kept
  <2>1. CASE ~Joinable /\ Room
    <3>1. work' = [work EXCEPT !.queue = Queued("replan", {})]
      BY <1>3, <2>1 DEF Notify
    <3>2. Replies({}, "waiting") = answer
      BY DEF Replies
    <3> HIDE DEF Queued, ReplanTypeOK
    <3> QED BY <1>3, <2>1, <3>1, <3>2, PlacedAppend
  <2>2. CASE ~(~Joinable /\ Room)
    <3>1. work' = work
      BY <1>3, <2>2 DEF Notify
    <3> QED BY <1>3, <3>1
  <2> QED BY <2>1, <2>2
<1>4. CASE Capture \/ NoRequest
  BY <1>1, <1>4 DEF Capture, NoRequest, Asleep, HeardWaited
<1>5. CASE Scheduled
  <2>1. tick'.heard = {} /\ tick.heard = {}
    BY <1>5 DEF Scheduled, Begin, Asleep, HeardWaited
  <2> QED BY <1>1, <1>5, <2>1 DEF Scheduled
<1>6. CASE Boundary \/ Compute \/ Write
  BY <1>1, <1>6 DEF Boundary, Compute, Write
<1>7. CASE ServeMode
  <2>1. PICK c \in work.modes : /\ work' = [work EXCEPT !.modes = @ \ {c}]
                                /\ answer' = Replies({c}, "other")
    BY <1>7 DEF ServeMode
  <2>2. work'.queue = work.queue /\ work'.modes = work.modes \ {c} /\ tick'.heard = {} /\ tick.heard = {}
    BY <1>7, <2>1 DEF ServeMode, HeardWaited
  <2>3. \A i \in DOMAIN work.queue : c \notin work.queue[i].callers
    BY DEF Placed
  <2>4. \A d \in Callers : answer'[d] = "waiting" <=> answer[d] = "waiting" /\ d # c
    BY <2>1 DEF Replies
  <2> QED BY <2>2, <2>3, <2>4 DEF Placed
<1>8. CASE TakeReplan
  <2>1. tick.heard = {} /\ tick'.heard = Head(work.queue).callers
    BY <1>8 DEF TakeReplan, Begin, HeardWaited
  <2> QED BY <1>8, <2>1, PlacedTail DEF TakeReplan
<1>9. CASE SyncClock
  <2>1. tick.heard = {} /\ tick'.heard = {}
    BY <1>9 DEF SyncClock, HeardWaited
  <2>2. Placed(work', Head(work.queue).callers, answer)
    BY <1>9, <2>1, PlacedTail DEF SyncClock
  <2>3. answer' = Replies(Head(work.queue).callers, "other")
    BY <1>9 DEF SyncClock
  <2> QED BY <2>1, <2>2, <2>3, PlacedAnswered
<1>10. CASE Skip \/ WriteRest \/ TurnedAway \/ Raises
  <2>1. /\ UNCHANGED work /\ tick'.heard = {}
        /\ answer' = Replies(tick.heard, "plan") \/ answer' = Replies(tick.heard, "other")
    BY <1>10 DEF Skip, WriteRest, TurnedAway, Raises, Finish, Served, Asleep
  <2> QED BY <2>1, PlacedAnswered
<1>11. CASE StopDaemon
  <2>1. work' = [queue |-> <<>>, modes |-> {}] /\ tick'.heard = {} /\ answer' = Replies(Waiters, "other")
    BY <1>11 DEF StopDaemon, Asleep
  <2>2. \A c \in Callers : answer'[c] # "waiting"
    <3> TAKE c \in Callers
    <3>1. CASE c \in Waiters
      BY <2>1, <3>1 DEF Replies
    <3>2. CASE c \notin Waiters
      BY <2>1, <3>2, WaitersPlaced DEF Replies, Placed
    <3> QED BY <3>1, <3>2
  <2>3. work'.modes = {} /\ DOMAIN work'.queue = {}
    BY <2>1
  <2> QED BY <2>1, <2>2, <2>3 DEF Placed
<1>12. CASE StartDaemon \/ UNCHANGED replanVars
  BY <1>1, <1>12 DEF StartDaemon, replanVars
<1>13. CASE AcceptTopology \/ \E actuation \in BOOLEAN : Revise(actuation)
  BY <1>3, <1>13 DEF AcceptTopology, Revise
<1> QED
  BY <1>2, <1>4, <1>5, <1>6, <1>7, <1>8, <1>9, <1>10, <1>11, <1>12, <1>13 DEF ReplanNext

\* A run's callers are a queued entry's, and those waited when it began.
LEMMA HeardStep ==
    ASSUME ReplanTypeOK, Placed(work, tick.heard, answer), HeardWaited, [ReplanNext]_replanVars
    PROVE  HeardWaited'
<1> USE DEF ReplanTypeOK, HeardWaited
<1>1. ASSUME UNCHANGED <<tick, waited>> PROVE HeardWaited'
  BY <1>1
<1>2. ASSUME tick'.heard = {} PROVE HeardWaited'
  BY <1>2
<1>3. CASE TakeReplan
  <2>1. /\ tick'.at = "plan" /\ tick'.heard = Head(work.queue).callers
        /\ waited' = {c \in Callers : answer[c] = "waiting"}
    BY <1>3 DEF TakeReplan, Begin
  <2>2. Head(work.queue) \in Work /\ Head(work.queue) = work.queue[1] /\ 1 \in DOMAIN work.queue
    <3>1. work.queue # <<>> /\ work.queue \in Seq(Work)
      BY <1>3 DEF TakeReplan
    <3> QED BY <3>1, QueueTypes, EmptySeq, LenProperties
  <2>3. \A c \in Head(work.queue).callers : c \in Callers /\ answer[c] = "waiting"
    BY <2>2 DEF Placed, Work
  <2> QED BY <2>1, <2>3
<1>4. CASE Compute
  <2>1. /\ tick'.at = "write" /\ tick'.heard = tick.heard /\ UNCHANGED waited
    BY <1>4 DEF Compute
  <2> QED BY <2>1
<1>5. CASE Write
  <2>1. /\ tick'.at = "rest" /\ tick'.heard = tick.heard /\ UNCHANGED waited
    BY <1>5 DEF Write
  <2> QED BY <2>1
<1>6. CASE Boundary
  <2>1. /\ tick'.at = tick.at /\ tick'.heard = tick.heard /\ UNCHANGED waited
    BY <1>6 DEF Boundary
  <2> QED BY <2>1
<1>7. CASE Capture \/ StopDaemon
  <2>1. CASE Capture
    <3>1. tick'.heard = {}
      BY <2>1 DEF Capture, Asleep
    <3> QED BY <1>2, <3>1
  <2>2. CASE StopDaemon
    <3>1. tick'.heard = {}
      BY <2>2 DEF StopDaemon, Asleep
    <3> QED BY <1>2, <3>1
  <2> QED BY <1>7, <2>1, <2>2
<1>7a. CASE ServeMode \/ NoRequest \/ SyncClock
  <2>1. tick.heard = {} /\ tick' = [tick EXCEPT !.at = "decide"]
    BY <1>7a DEF ServeMode, NoRequest, SyncClock
  <2> QED BY <1>2, <2>1
<1>7b. CASE Scheduled
  <2>1. CASE memo.due
    BY <1>2, <1>7b, <2>1 DEF Scheduled, Begin
  <2>2. CASE ~memo.due
    BY <1>2, <1>7b, <2>2 DEF Scheduled, Asleep
  <2> QED BY <2>1, <2>2
<1>8. CASE Skip \/ WriteRest \/ TurnedAway \/ Raises
  BY <1>2, <1>8 DEF Skip, WriteRest, TurnedAway, Raises, Finish, Asleep
<1>9. ASSUME NEW c \in Callers, NEW op \in {"replan", "sync_clock", "mode"}, Enlist(c, op)
      PROVE  HeardWaited'
  BY <1>1, <1>9 DEF Enlist
<1>10. CASE AcceptTopology \/ StartDaemon \/ UNCHANGED replanVars
                \/ \E actuation \in BOOLEAN : Revise(actuation)
  BY <1>1, <1>10 DEF AcceptTopology, StartDaemon, Revise, replanVars
<1> QED
  BY <1>3, <1>4, <1>5, <1>6, <1>7, <1>7a, <1>7b, <1>8, <1>9, <1>10 DEF ReplanNext

\* A plan answers the run's callers, and nobody else.
LEMMA PlanAnswers ==
    ASSUME HeardWaited, [ReplanNext]_replanVars,
           NEW c \in Callers, answer[c] = "waiting", answer'[c] = "plan"
    PROVE  c \in waited
<1>1. CASE Skip \/ WriteRest
  <2>1. answer' = Replies(tick.heard, "plan")
    BY <1>1 DEF Skip, WriteRest, Finish, Served
  <2> QED BY <2>1 DEF Replies, HeardWaited
<1>2. CASE ~(Skip \/ WriteRest)
  <2>1. answer' = answer \/ \E who, how : how # "plan" /\ answer' = Replies(who, how)
    BY <1>2 DEF ReplanNext, replanVars, Enlist, Revise, AcceptTopology, Capture, ServeMode, NoRequest,
       SyncClock, TakeReplan, Scheduled, Boundary, Compute, Write, TurnedAway, Raises, Finish,
       StopDaemon, StartDaemon
  <2> QED BY <2>1 DEF Replies
<1> QED BY <1>1, <1>2

LEMMA CallersInit == ReplanInit => CallersInv
<1> SUFFICES ASSUME ReplanInit PROVE CallersInv
  OBVIOUS
<1>1. ReplanTypeOK
  BY ReplanTypeInit
<1>2. DOMAIN work.queue = {} /\ work.modes = {} /\ tick.heard = {} /\ \A c \in Callers : answer[c] = "none"
  BY DEF ReplanInit, Asleep
<1>3. Placed(work, tick.heard, answer)
  BY <1>2 DEF Placed
<1> QED BY <1>1, <1>2, <1>3 DEF CallersInv, HeardWaited

LEMMA CallersStep ==
    CallersInv /\ CurrentInv /\ [ReplanNext]_replanVars => CallersInv'
<1> SUFFICES ASSUME CallersInv, CurrentInv, [ReplanNext]_replanVars PROVE CallersInv'
  OBVIOUS
<1>1. ReplanTypeOK'
  BY ReplanTypeStep DEF CurrentInv
<1>2. Placed(work, tick.heard, answer)'
  BY PlacedStep DEF CallersInv
<1> QED BY <1>1, <1>2, HeardStep DEF CallersInv

\* Each caller of the daemon waits in exactly one place, whatever joins, is refused, fails
\* or stops, and a plan answers only callers that had asked before its run began
\* (DaemonChannel.take, the scheduler's run and reply).
THEOREM NobodyLostOrEarly == ReplanSpec => RunsAfterAsked
<1>1. CallersInv => NobodyLost
  BY WaitersPlaced DEF CallersInv, Placed, NobodyLost
<1>2. CallersInv' => NobodyLost'
  BY <1>1, PTL
<1>3. CallersInv /\ CallersInv' /\ [ReplanNext]_replanVars =>
        [/\ NobodyLost'
         /\ \A c \in Callers : answer[c] = "waiting" /\ answer'[c] = "plan" => c \in waited]_replanVars
  BY <1>2, PlanAnswers DEF CallersInv
<1> QED
  BY <1>3, CallersInit, CallersStep, CurrentInit, CurrentStep, PTL DEF ReplanSpec, RunsAfterAsked
================================================================================
