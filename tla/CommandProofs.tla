----------------------------- MODULE CommandProofs -----------------------------
(***************************************************************************)
(* Proofs about the command channel, for every queue, batch and cache      *)
(* size and every budget of restarts and losses: no command runs twice or  *)
(* late, a rebooted add-on is fenced off, one apply is unresolved, and the  *)
(* answers kept are what the integration came to.                          *)
(***************************************************************************)
EXTENDS CommandChannel, FiniteSetTheorems, SequenceTheorems, WellFoundedInduction, TLAPS

-----------------------------------------------------------------------------
(* The inductive invariant, in parts that each rest on the ones before. *)

\* A command is in hand while it is handled or its result is posted.
TypeInv == TypeOK /\ (loop.step \in {"handle", "post"} => loop.batch # {})

\* The loop awaits at most one call, which is of its own session and incarnation.
CallInv ==
    /\ incarnation >= 1
    /\ \A call \in calls : call.peer >= 1 /\ call.peer <= incarnation
    /\ \A call \in calls :
         call.awaited => /\ call.peer = incarnation /\ call.session = loop.data
                         /\ loop.step = IF call.type = "fetch" THEN "fetch" ELSE "posting"
    /\ \A a, b \in calls : a.awaited /\ b.awaited => a = b

\* Sessions are learned in order: the authority after the entry, the entry after the boot.
OrderInv ==
    /\ addonSession <= session /\ session <= boot /\ loop.data <= session
    /\ peer <= incarnation /\ link <= epoch

\* A batch is of its loop's session, and of an epoch the new session's epoch exceeds.
BatchInv ==
    /\ loop.step # "idle" => consumer.session = loop.data
    /\ loop.step = "handle" => consumer.last = First(loop.batch).seq
    /\ \A c \in loop.batch : /\ c.epoch <= epoch
                             /\ loop.data < addonSession => c.epoch < epoch
                             /\ loop.data = boot => c.seq <= sequence /\ peer # 0
    /\ \A c \in pending : c.epoch <= epoch /\ c.seq <= sequence

\* What could still be offered or run, and is not beyond what has run, is known replayed.
RunInv ==
    /\ \A r \in runs : r.boot <= session /\ (r.boot = boot => r.seq <= sequence /\ peer # 0)
    /\ \A r \in runs : \A c \in loop.batch :
         r.boot = loop.data /\ c.seq <= r.seq => c.seq <= consumer.last
    /\ \A r \in runs : \A c \in pending :
         r.boot = boot /\ c.seq <= r.seq /\ peer \in {0, incarnation}
           => consumer.session = boot /\ c.seq <= consumer.last

-----------------------------------------------------------------------------
(* Batches *)

\* Every nonempty set of natural numbers has a least one: its initial segments are
\* finite sets, which strict inclusion orders well.
LEMMA LeastNatural ==
  ASSUME NEW T \in SUBSET Nat, T # {}
  PROVE  \E m \in T : \A n \in T : m <= n
<1> DEFINE Below(n) == {k \in Nat : k < n}
           Family   == {Below(n) : n \in T}
<1>1. \A n \in Nat : IsFiniteSet(Below(n))
  <2> TAKE n \in Nat
  <2>1. \A k \in Below(n) : k <= n /\ k \in Nat
    OBVIOUS
  <2> QED
    BY <2>1, FS_BoundedSetOfNaturals
<1>2. Family \subseteq FiniteSubsetsOf(Nat) /\ Family # {}
  BY <1>1 DEF FiniteSubsetsOf
<1>3. IsWellFoundedOn(StrictSubsetOrdering(Nat), FiniteSubsetsOf(Nat))
  BY FS_StrictSubsetOrderingWellFounded
<1>4. PICK F \in Family : \A G \in Family : ~(<<G, F>> \in StrictSubsetOrdering(Nat))
  BY <1>2, <1>3, WFMin, Zenon
<1>5. PICK m \in T : F = Below(m)
  BY <1>4
<1>6. ASSUME NEW n \in T, n < m PROVE FALSE
  <2>1. Below(n) \subseteq Below(m) /\ n \in Below(m) /\ n \notin Below(n)
    BY <1>6
  <2>2. <<Below(n), Below(m)>> \in StrictSubsetOrdering(Nat)
    BY <2>1 DEF StrictSubsetOrdering
  <2> QED
    BY <1>4, <1>5, <2>2
<1> QED
  BY <1>6

\* A batch that has a command has a first one.
LEMMA FirstInBatch ==
  ASSUME NEW S \in SUBSET Command, S # {}
  PROVE  First(S) \in S /\ \A d \in S : First(S).seq <= d.seq
<1>1. Seqs(S) \in SUBSET Nat /\ Seqs(S) # {}
  BY DEF Seqs, Command
<1>2. PICK m \in Seqs(S) : \A n \in Seqs(S) : m <= n
  BY <1>1, LeastNatural
<1>3. PICK c \in S : c.seq = m
  BY <1>2 DEF Seqs
<1>4. \A d \in S : c.seq <= d.seq
  BY <1>2, <1>3 DEF Seqs
<1> QED
  BY <1>4 DEF First

\* What is offered or kept is part of what there was.
LEMMA Selections ==
  /\ \A S, n : Oldest(S, n) \subseteq S
  /\ \A S : CacheNewest(S) \subseteq S
BY DEF Oldest, CacheNewest

-----------------------------------------------------------------------------
(* Types *)

\* The fields of the structured variables, and the command in hand.
LEMMA Fields ==
  ASSUME TypeOK
  PROVE  /\ loop.step \in Steps /\ loop.data \in Nat /\ loop.batch \in SUBSET Command
         /\ loop.outcome \in Outcomes
         /\ consumer.session \in Nat /\ consumer.last \in Nat /\ consumer.results \in SUBSET Answer
         /\ \A call \in calls : /\ call.type \in {"fetch", "result"} /\ call.session \in Nat
                                /\ call.peer \in Nat /\ call.answer \in Answer
                                /\ call.awaited \in BOOLEAN
         /\ loop.batch # {} => /\ First(loop.batch) \in loop.batch
                               /\ First(loop.batch).seq \in Nat /\ First(loop.batch).epoch \in Nat
                               /\ First(loop.batch).kind \in Kinds
<1>1. loop.batch \in SUBSET Command
  BY DEF TypeOK, LoopState
<1>2. loop.batch # {} => /\ First(loop.batch) \in loop.batch
                         /\ First(loop.batch).seq \in Nat /\ First(loop.batch).epoch \in Nat
                         /\ First(loop.batch).kind \in Kinds
  BY <1>1, FirstInBatch DEF Command
<1>3. \A call \in calls : /\ call.type \in {"fetch", "result"} /\ call.session \in Nat
                          /\ call.peer \in Nat /\ call.answer \in Answer
                          /\ call.awaited \in BOOLEAN
  BY DEF TypeOK, Call
<1>4. /\ loop.step \in Steps /\ loop.data \in Nat /\ loop.outcome \in Outcomes
      /\ consumer.session \in Nat /\ consumer.last \in Nat /\ consumer.results \in SUBSET Answer
  BY DEF TypeOK, LoopState, ConsumerState
<1> QED
  BY <1>1, <1>2, <1>3, <1>4

\* The pieces that several actions share keep the types of what they change.
LEMMA TypeHelpers ==
  ASSUME TypeInv
  PROVE  /\ \A kind \in Kinds : Enqueue(kind) => sequence' \in Nat /\ pending' \in SUBSET Command
         /\ \A seq \in Nat, outcome \in Outcomes :
              Cached(consumer, seq, outcome) \in ConsumerState
         /\ NoLoop \in LoopState /\ NoLoop.step = "idle"
         /\ NoConsumer \in ConsumerState
<1>1. \A kind \in Kinds : Enqueue(kind) => sequence' \in Nat /\ pending' \in SUBSET Command
  BY DEF TypeInv, TypeOK, Enqueue, Command
<1>2. ASSUME NEW seq \in Nat, NEW outcome \in Outcomes
      PROVE  Cached(consumer, seq, outcome) \in ConsumerState
  <2>1. consumer.results \union {[seq |-> seq, outcome |-> outcome]} \subseteq Answer
    BY Fields DEF TypeInv, Answer
  <2>2. CacheNewest(consumer.results \union {[seq |-> seq, outcome |-> outcome]}) \subseteq Answer
    BY <2>1, Selections
  <2> QED
    BY <2>2 DEF Cached, TypeInv, TypeOK, ConsumerState
<1>3. /\ NoLoop \in LoopState
      /\ NoConsumer \in ConsumerState /\ NoLoop.step = "idle"
  BY DEF NoLoop, NoConsumer, Steps, Outcomes, LoopState, ConsumerState
<1> QED
  BY <1>1, <1>2, <1>3

\* An answered call moves the loop on to a step and a batch of the right types.
LEMMA ArrivesType ==
  ASSUME TypeInv, NEW call \in calls, NEW step \in {"fetched", "batch"},
         NEW batch \in SUBSET Command, Arrives(call, step, batch)
  PROVE  loop' \in LoopState /\ (loop'.step \in {"handle", "post"} => loop'.batch # {})
BY DEF TypeInv, TypeOK, Arrives, LoopState, Steps

\* A nudge or a fetch begins at most one more call.
LEMMA FetchType ==
  ASSUME TypeInv, BeginFetch \/ Nudge
  PROVE  /\ queued' \in BOOLEAN /\ loop' \in LoopState /\ calls' \subseteq Call
         /\ consumer' \in ConsumerState
         /\ loop'.step \in {"handle", "post"} => loop'.batch # {}
<1>1. CASE BeginFetch
  <2>1. [type |-> "fetch", session |-> session, peer |-> incarnation,
         answer |-> [seq |-> 0, outcome |-> "refused"], awaited |-> TRUE] \in Call
    BY DEF TypeInv, TypeOK, Call, Answer, Outcomes
  <2>2. calls' \subseteq Call
    BY <1>1, <2>1 DEF BeginFetch, TypeInv, TypeOK
  <2>3. loop' \in LoopState /\ loop'.step = "fetch"
    BY <1>1 DEF BeginFetch, TypeInv, TypeOK, LoopState, Steps, Outcomes
  <2>4. consumer' \in ConsumerState
    BY <1>1, TypeHelpers DEF BeginFetch, TypeInv, TypeOK, ConsumerState
  <2> QED
    BY <1>1, <2>2, <2>3, <2>4 DEF BeginFetch
<1>2. CASE Nudge /\ loop.step # "idle"
  BY <1>2 DEF Nudge, TypeInv, TypeOK
<1> QED
  BY <1>1, <1>2 DEF Nudge

\* Every variable keeps its type.
LEMMA TypeStep == TypeInv /\ [Next]_vars => TypeInv'
<1> SUFFICES ASSUME TypeInv, [Next]_vars
             PROVE  TypeInv'
  OBVIOUS
<1> USE DEF TypeInv
<1>1. CASE UNCHANGED vars
  BY <1>1 DEF vars, TypeOK
<1>2. CASE Ask
  BY <1>2, TypeHelpers DEF Ask, TypeOK, planner, integration, history, Kinds
<1>3. ASSUME NEW due \in BOOLEAN, NEW soc \in BOOLEAN, Tick(due, soc)
      PROVE  TypeInv'
  <2>1. sequence' \in Nat /\ pending' \in SUBSET Command /\ plan' \in [seq : Nat, epoch : Nat]
    <3>1. CASE link # 0 /\ soc /\ ~PlanPending /\ HasRoom
      BY <1>3, <3>1, TypeHelpers DEF Tick, TypeOK, Kinds
    <3>2. CASE ~(link # 0 /\ soc /\ ~PlanPending /\ HasRoom)
      BY <1>3, <3>2 DEF Tick, TypeOK
    <3> QED
      BY <3>1, <3>2
  <2> QED
    BY <1>3, <2>1 DEF Tick, TypeOK, integration, history
<1>4. ASSUME NEW call \in calls, Fetch(call)
      PROVE  TypeInv'
  <2>1. call \in Call
    BY DEF TypeOK, Call
  <2>2. CASE call.session # boot
    <3>1. Arrives(call, "fetched", {})
      BY <1>4, <2>2 DEF Fetch
    <3>2. loop' \in LoopState /\ (loop'.step \in {"handle", "post"} => loop'.batch # {})
      BY <3>1, ArrivesType
    <3> QED
      BY <1>4, <2>2, <3>2 DEF Fetch, TypeOK, queue, planner, history
  <2>3. CASE call.session = boot
    <3> DEFINE kept == IF NewReceiver(call) THEN {} ELSE pending
    <3>1. kept \in SUBSET Command /\ Offers(kept) \in SUBSET Command
      BY Selections DEF Offers, TypeOK
    <3>2. Seqs(Offers(kept)) \in SUBSET Nat
      BY <3>1 DEF Seqs, Command
    <3>3. pending' \in SUBSET Command /\ offered' \in SUBSET Nat /\ answers' \in Seq(Answer)
      <4>1. pending' = kept /\ answers' \in {<<>>, answers}
            /\ offered' \in {Seqs(Offers(kept)), offered \union Seqs(Offers(kept))}
        BY <1>4, <2>3 DEF Fetch
      <4>2. answers \in Seq(Answer) /\ <<>> \in Seq(Answer) /\ offered \in SUBSET Nat
        BY EmptySeq DEF TypeOK
      <4> HIDE DEF kept
      <4> QED
        BY <3>1, <3>2, <4>1, <4>2
    <3>4. loop' \in LoopState /\ (loop'.step \in {"handle", "post"} => loop'.batch # {})
      BY <1>4, <2>3, <3>1, ArrivesType DEF Fetch
    <3> QED
      BY <1>4, <2>1, <2>3, <3>3, <3>4 DEF Fetch, TypeOK, planner, history, Call
  <2> QED
    BY <2>2, <2>3
<1>5. ASSUME NEW call \in calls, Accept(call)
      PROVE  TypeInv'
  <2> DEFINE all == Append(answers, call.answer)
  <2>1. call.answer \in Answer
    BY DEF TypeOK, Call
  <2>2. all \in Seq(Answer) /\ all # <<>> /\ Tail(all) \in Seq(Answer)
    BY <2>1, AppendProperties, HeadTailProperties DEF TypeOK
  <2>3. pending' \in SUBSET Command /\ offered' \in SUBSET Nat /\ answers' \in Seq(Answer)
    BY <1>5, <2>2 DEF Accept, TypeOK
  <2>4. loop' \in LoopState /\ (loop'.step \in {"handle", "post"} => loop'.batch # {})
    BY <1>5, ArrivesType, Fields DEF Accept
  <2> QED
    BY <1>5, <2>3, <2>4 DEF Accept, TypeOK, planner, history
<1>6. ASSUME NEW call \in calls, Timeout(call)
      PROVE  TypeInv'
  <2>1. loop' \in LoopState /\ (loop'.step \in {"handle", "post"} => loop'.batch # {})
    BY <1>6, ArrivesType, Fields DEF Timeout
  <2>2. [call EXCEPT !.awaited = FALSE] \in Call
    BY DEF TypeOK, Call
  <2> QED
    <3>1. calls' \in SUBSET Call
      BY <1>6, <2>2 DEF Timeout, TypeOK
    <3>2. losses' \in Nat
      BY <1>6 DEF Timeout, TypeOK
    <3> QED
      BY <1>6, <2>1, <3>1, <3>2 DEF Timeout, TypeOK, queue, planner, history
<1>7. CASE Reboot
  BY <1>7 DEF Reboot, TypeOK, NoPlan, integration, history
<1>8. ASSUME NEW answered \in BOOLEAN, Heartbeat(answered)
      PROVE  TypeInv'
  <2>1. CASE answered
    BY <1>8, <2>1, FetchType
       DEF Heartbeat, SessionEpoch, TypeOK, queue, history
  <2>2. CASE ~answered
    BY <1>8, <2>2 DEF Heartbeat, TypeOK, queue, history
  <2> QED
    BY <2>1, <2>2
<1>9. CASE ForgedNudge
  BY <1>9, FetchType DEF ForgedNudge, TypeOK, queue, planner, history
<1>10. CASE Consume
  <2> DEFINE c == First(loop.batch)
  <2>1. loop.batch # {} /\ c.seq \in Nat
    BY <1>10, Fields DEF Consume
  <2>2. Known(c) # {} => (CHOOSE a \in Known(c) : TRUE).outcome \in Outcomes
    BY Fields DEF Known, Answer
  <2>3. loop' \in LoopState /\ (loop'.step \in {"handle", "post"} => loop'.batch # {})
    <3>1. \A outcome \in Outcomes :
            LET post == [loop EXCEPT !.step = "post", !.outcome = outcome]
            IN  post \in LoopState /\ post.batch # {}
      BY <2>1 DEF TypeOK, LoopState, Steps
    <3>2. [loop EXCEPT !.step = "handle"] \in LoopState
          /\ [loop EXCEPT !.step = "handle"].batch # {}
      BY <2>1 DEF TypeOK, LoopState, Steps
    <3>3. "refused" \in Outcomes /\ "stale" \in Outcomes
      BY DEF Outcomes
    <3>4. \/ \E outcome \in Outcomes : loop' = [loop EXCEPT !.step = "post", !.outcome = outcome]
          \/ loop' = [loop EXCEPT !.step = "handle"]
      BY <1>10, <2>2, <3>3 DEF Consume
    <3> QED
      BY <3>1, <3>2, <3>4
  <2>4. consumer' \in ConsumerState
    <3>1. Cached(consumer, c.seq, "stale") \in ConsumerState
      BY <2>1, TypeHelpers DEF Outcomes
    <3>2. [consumer EXCEPT !.last = c.seq] \in ConsumerState
      BY <2>1 DEF TypeOK, ConsumerState
    <3>3. consumer' \in {consumer, Cached(consumer, c.seq, "stale"), [consumer EXCEPT !.last = c.seq]}
      BY <1>10 DEF Consume
    <3> QED
      BY <3>1, <3>2, <3>3 DEF TypeOK
  <2>5. runs' \in SUBSET [boot : Nat, seq : Nat]
    BY <1>10, <2>1, Fields DEF Consume, TypeOK
  <2> QED
    BY <1>10, <2>3, <2>4, <2>5 DEF Consume, TypeOK, queue, planner
<1>11. CASE Write
  <2>1. First(loop.batch).seq \in Nat
    BY <1>11, Fields DEF Write
  <2> QED
    <3>1. [boot |-> loop.data, seq |-> First(loop.batch).seq, addon |-> addonSession]
            \in [boot : Nat, seq : Nat, addon : Nat]
      BY <2>1, Fields DEF TypeOK
    <3>2. writes' \in SUBSET [boot : Nat, seq : Nat, addon : Nat]
      BY <1>11, <3>1 DEF Write, Wrote, TypeOK
    <3> QED
      BY <1>11, <3>2 DEF Write, TypeOK, queue, planner, integration
<1>12. ASSUME NEW outcome \in Outcomes, NEW saved \in BOOLEAN,
             EndApply(outcome) \/ EndTransition(outcome, saved)
       PROVE  TypeInv'
  <2>1. First(loop.batch).seq \in Nat /\ loop.step = "handle"
    BY <1>12, Fields DEF EndApply, EndTransition
  <2>2. Ends(First(loop.batch), outcome)
    BY <1>12 DEF EndApply, EndTransition
  <2>3. loop' \in LoopState /\ loop'.batch # {}
    BY <2>1, <2>2 DEF Ends, TypeOK, LoopState, Steps
  <2>4. consumer' \in ConsumerState
    BY <2>1, <2>2, TypeHelpers DEF Ends
  <2>5. decisions' \in SUBSET [boot : Nat, seq : Nat, outcome : Outcomes]
    BY <2>1, <2>2, Fields, SMTT(60) DEF Ends, TypeOK
  <2>6. epoch' \in Nat /\ writes' \in SUBSET [boot : Nat, seq : Nat, addon : Nat]
    BY <1>12, <2>1, Fields, SMTT(60) DEF EndApply, EndTransition, Wrote, TypeOK
  <2> QED
    BY <2>2, <2>3, <2>4, <2>5, <2>6 DEF Ends, TypeOK, queue, planner
<1>13. CASE Post
  <2> DEFINE call == [type |-> "result", session |-> loop.data, peer |-> incarnation,
                      awaited |-> TRUE,
                      answer |-> [seq |-> First(loop.batch).seq, outcome |-> loop.outcome]]
  <2>1. First(loop.batch).seq \in Nat
    BY <1>13, Fields DEF Post
  <2>2. call \in Call
    BY <2>1, Fields DEF TypeOK, Call, Answer
  <2>3. calls' \subseteq Call
    BY <1>13, <2>2 DEF Post, TypeOK
  <2>4. loop' \in LoopState /\ loop'.step = "posting"
    BY <1>13 DEF Post, TypeOK, LoopState, Steps
  <2> QED
    BY <1>13, <2>3, <2>4 DEF Post, TypeOK, queue, planner, history
<1>14. CASE Abandon
  BY <1>14, TypeHelpers DEF Abandon, TypeOK, NoLoop, queue, planner, history
<1>15. CASE EndBatch
  <2>1. CASE queued
    BY <1>15, <2>1, FetchType DEF EndBatch, TypeOK, queue, planner, history
  <2>2. CASE ~queued
    BY <1>15, <2>2, TypeHelpers DEF EndBatch, TypeOK, queue, planner, history
  <2> QED
    BY <2>1, <2>2
<1>16. CASE MoveEpoch
  BY <1>16 DEF MoveEpoch, TypeOK, queue, planner, history
<1>17. CASE Rediscover
  BY <1>17 DEF Rediscover, TypeOK, queue, planner, history
<1>18. CASE Reload
  <2>1. \A call \in calls : [call EXCEPT !.awaited = FALSE] \in Call
    BY DEF TypeOK, Call
  <2>2. calls' \in SUBSET Call
    BY <1>18, <2>1 DEF Reload
  <2>3. loop' \in LoopState /\ consumer' \in ConsumerState /\ loop'.step = "idle"
    BY <1>18, TypeHelpers DEF Reload
  <2>4. restarts' \in Nat /\ incarnation' \in Nat /\ queued' \in BOOLEAN
    <3>1. restarts > 0 /\ restarts' = restarts - 1 /\ incarnation' = incarnation + 1
      BY <1>18 DEF Reload
    <3>2. restarts' \in Nat /\ incarnation' \in Nat
      BY <3>1 DEF TypeOK
    <3>3. queued' \in BOOLEAN
      BY <1>18 DEF Reload
    <3> QED
      BY <3>2, <3>3
  <2> QED
    BY <1>18, <2>2, <2>3, <2>4 DEF Reload, TypeOK, queue, planner, history
<1> QED
  BY <1>1, <1>2, <1>3, <1>4, <1>5, <1>6, <1>7, <1>8, <1>9, <1>10, <1>11, <1>12, <1>13, <1>14,
     <1>15, <1>16, <1>17, <1>18 DEF Next

\* Every variable keeps its type, whatever the sizes and the budgets.
LEMMA TypeInvariant == Spec => []TypeInv
<1>1. Init => TypeInv
  <2> HAVE Init
  <2>1. NoLoop \in LoopState /\ NoConsumer \in ConsumerState
    BY DEF NoLoop, NoConsumer, LoopState, ConsumerState, Steps, Outcomes
  <2> QED
    BY <2>1, BudgetsAssumption, EmptySeq DEF Init, TypeInv, TypeOK, NoPlan, NoLoop
<1> QED
  BY <1>1, TypeStep, PTL DEF Spec

-----------------------------------------------------------------------------
(* What the parts of the integration may do to the loop and to its calls. *)

\* A nudge or a fetch either leaves the loop alone or begins a batch of the session.
LEMMA NudgeEffect ==
  ASSUME BeginFetch \/ Nudge
  PROVE  \/ loop.step # "idle" /\ UNCHANGED <<consumer, loop, calls>>
         \/ BeginFetch /\ (Nudge => loop.step = "idle")
BY DEF Nudge

\* The calls and the loop after a fetch begins: there was no awaited call before.
LEMMA FetchCalls ==
  ASSUME TypeInv, CallInv, BeginFetch, loop.step \in {"idle", "fetched", "batch"},
         UNCHANGED incarnation
  PROVE  CallInv'
<1> DEFINE new == [type |-> "fetch", session |-> session, peer |-> incarnation,
                   answer |-> [seq |-> 0, outcome |-> "refused"], awaited |-> TRUE]
<1>1. calls' = calls \union {new} /\ loop'.step = "fetch" /\ loop'.data = session
  BY DEF BeginFetch
<1>2. \A call \in calls : ~call.awaited
  BY Fields DEF TypeInv, CallInv
<1>3. incarnation \in Nat
  BY DEF TypeInv, TypeOK
<1>4. new.type = "fetch" /\ new.session = session /\ new.peer = incarnation /\ new.awaited = TRUE
  OBVIOUS
<1> HIDE DEF new
<1>5. \A call \in calls' : call.awaited => call = new
  BY <1>1, <1>2
<1>6. \A call \in calls' : call.peer >= 1 /\ call.peer <= incarnation
  BY <1>1, <1>3, <1>4 DEF CallInv
<1> QED
  BY <1>1, <1>4, <1>5, <1>6 DEF CallInv

\* The calls after an answer: the loop goes on only if it still waited for this one.
LEMMA AnsweredCalls ==
  ASSUME TypeInv, CallInv, NEW call \in calls, calls' = calls \ {call},
         NEW step \in {"fetched", "batch"}, NEW batch, Arrives(call, step, batch),
         UNCHANGED incarnation
  PROVE  CallInv'
<1>1. CASE call.awaited
  <2>1. \A other \in calls' : ~other.awaited
    BY <1>1, Fields DEF TypeInv, CallInv
  <2> QED
    BY <2>1 DEF CallInv
<1>2. CASE ~call.awaited
  BY <1>2 DEF Arrives, CallInv
<1> QED
  BY <1>1, <1>2

\* The loop awaits at most one call, and only calls of incarnations there have been exist.
LEMMA CallStep == TypeInv /\ CallInv /\ [Next]_vars => CallInv'
<1> SUFFICES ASSUME TypeInv, CallInv, [Next]_vars
             PROVE  CallInv'
  OBVIOUS
<1>1. CASE UNCHANGED <<calls, loop, incarnation>>
  BY <1>1 DEF CallInv
<1>2. CASE UNCHANGED vars \/ Ask \/ MoveEpoch \/ Rediscover \/ Write
  BY <1>1, <1>2 DEF vars, Ask, MoveEpoch, Rediscover, Write, integration
<1>3. ASSUME NEW due \in BOOLEAN, NEW soc \in BOOLEAN, Tick(due, soc)
      PROVE  CallInv'
  BY <1>1, <1>3 DEF Tick, integration
<1>4. ASSUME NEW call \in calls, Fetch(call)
      PROVE  CallInv'
  <2>1. calls' = calls \ {call} /\ UNCHANGED incarnation
    BY <1>4 DEF Fetch
  <2>2. \E batch : Arrives(call, "fetched", batch)
    BY <1>4 DEF Fetch
  <2> QED
    BY <2>1, <2>2, AnsweredCalls
<1>5. ASSUME NEW call \in calls, Accept(call)
      PROVE  CallInv'
  BY <1>5, AnsweredCalls DEF Accept
<1>6. ASSUME NEW call \in calls, Timeout(call)
      PROVE  CallInv'
  <2> DEFINE late == [call EXCEPT !.awaited = FALSE]
  <2>1. late.awaited = FALSE /\ late.peer = call.peer
    BY DEF TypeInv, TypeOK, Call
  <2>2. \A other \in calls' : ~other.awaited
    BY <1>6, <2>1, Fields DEF Timeout, TypeInv, CallInv
  <2>3. \A other \in calls' : other.peer >= 1 /\ other.peer <= incarnation
    BY <1>6, <2>1 DEF Timeout, CallInv
  <2> QED
    BY <1>6, <2>2, <2>3 DEF Timeout, CallInv
<1>7. CASE Reboot
  BY <1>7 DEF Reboot, CallInv, integration
<1>8. ASSUME NEW answered \in BOOLEAN, Heartbeat(answered)
      PROVE  CallInv'
  <2>1. CASE answered
    <3>1. Nudge /\ UNCHANGED incarnation
      BY <1>8, <2>1 DEF Heartbeat
    <3> QED
      BY <1>1, <3>1, NudgeEffect, FetchCalls
  <2>2. CASE ~answered
    BY <1>1, <1>8, <2>2 DEF Heartbeat
  <2> QED
    BY <2>1, <2>2
<1>9. CASE ForgedNudge
  <2>1. Nudge /\ UNCHANGED incarnation
    BY <1>9 DEF ForgedNudge
  <2> QED
    BY <1>1, <2>1, NudgeEffect, FetchCalls
<1>10. ASSUME loop.step \in {"fetched", "batch", "handle"}, UNCHANGED <<calls, incarnation>>
       PROVE  CallInv'
  <2>1. \A call \in calls : ~call.awaited
    BY <1>10, Fields DEF TypeInv, CallInv
  <2> QED
    BY <1>10, <2>1 DEF CallInv
<1>11. CASE Consume
  BY <1>10, <1>11 DEF Consume
<1>12. ASSUME NEW outcome \in Outcomes, NEW saved \in BOOLEAN,
             EndApply(outcome) \/ EndTransition(outcome, saved)
       PROVE  CallInv'
  BY <1>10, <1>12 DEF EndApply, EndTransition, Ends
<1>13. CASE Post
  <2> DEFINE new == [type |-> "result", session |-> loop.data, peer |-> incarnation,
                     awaited |-> TRUE,
                     answer |-> [seq |-> First(loop.batch).seq, outcome |-> loop.outcome]]
  <2>1. /\ calls' = calls \union {new} /\ UNCHANGED incarnation /\ loop.step = "post"
        /\ loop' = [loop EXCEPT !.step = "posting", !.batch = @ \ {First(loop.batch)}]
    BY <1>13 DEF Post
  <2>2. loop'.step = "posting" /\ loop'.data = loop.data
    BY <2>1 DEF TypeInv, TypeOK, LoopState
  <2>3. \A call \in calls : ~call.awaited
    BY <2>1, Fields DEF TypeInv, CallInv
  <2>4. incarnation \in Nat
    BY DEF TypeInv, TypeOK
  <2>5. new.type = "result" /\ new.session = loop.data /\ new.peer = incarnation
    OBVIOUS
  <2> HIDE DEF new
  <2>6. \A call \in calls' : call.awaited => call = new
    BY <2>1, <2>3
  <2>7. \A call \in calls' : call.peer >= 1 /\ call.peer <= incarnation
    BY <2>1, <2>4, <2>5 DEF CallInv
  <2> QED
    BY <2>1, <2>2, <2>5, <2>6, <2>7 DEF CallInv
<1>14. CASE Abandon
  <2>1. \A call \in calls : ~call.awaited
    BY <1>14, Fields DEF Abandon, TypeInv, CallInv
  <2> QED
    BY <1>14, <2>1 DEF Abandon, CallInv
<1>15. CASE EndBatch
  <2>1. CASE queued
    BY <1>15, <2>1, FetchCalls DEF EndBatch
  <2>2. CASE ~queued
    BY <1>10, <1>15, <2>2 DEF EndBatch
  <2> QED
    BY <2>1, <2>2
<1>16. CASE Reload
  <2> DEFINE late(call) == [call EXCEPT !.awaited = FALSE]
  <2>1. \A call \in calls : late(call).awaited = FALSE /\ late(call).peer = call.peer
    BY DEF TypeInv, TypeOK, Call
  <2>2. calls' = {late(call) : call \in calls} /\ incarnation' = incarnation + 1
    BY <1>16 DEF Reload
  <2>3. \A other \in calls' : ~other.awaited
    BY <2>1, <2>2
  <2>4. \A other \in calls' : other.peer >= 1 /\ other.peer <= incarnation
    BY <2>1, <2>2 DEF CallInv
  <2>5. incarnation \in Nat /\ \A other \in calls' : other.peer \in Nat
    <3>1. incarnation \in Nat /\ \A call \in calls : call.peer \in Nat
      BY Fields DEF TypeInv, TypeOK
    <3> HIDE DEF late
    <3> QED
      BY <2>1, <2>2, <3>1
  <2> QED
    BY <2>2, <2>3, <2>4, <2>5 DEF CallInv
<1> QED
  BY <1>2, <1>3, <1>4, <1>5, <1>6, <1>7, <1>8, <1>9, <1>11, <1>12, <1>13, <1>14, <1>15, <1>16
     DEF Next

\* The sessions, incarnations and epochs are learned in order.
LEMMA OrderStep == TypeInv /\ CallInv /\ OrderInv /\ [Next]_vars => OrderInv'
<1> SUFFICES ASSUME TypeInv, CallInv, OrderInv, [Next]_vars
             PROVE  OrderInv'
  OBVIOUS
<1> USE DEF OrderInv
<1>1. /\ boot \in Nat /\ peer \in Nat /\ incarnation \in Nat /\ session \in Nat /\ epoch \in Nat
      /\ addonSession \in Nat /\ link \in Nat /\ loop.data \in Nat
      /\ loop \in LoopState /\ NoLoop.data = 0
  BY Fields DEF TypeInv, TypeOK, NoLoop
<1>2. ASSUME BeginFetch \/ Nudge
      PROVE  loop'.data \in {loop.data, session}
  BY <1>2 DEF BeginFetch, Nudge
<1>3. CASE UNCHANGED vars \/ Ask \/ ForgedNudge \/ Consume \/ Write \/ Post
  <2>1. loop'.data \in {loop.data, session}
    BY <1>1, <1>2, <1>3
       DEF vars, Ask, ForgedNudge, Consume, Write, Post, integration, LoopState
  <2> QED
    BY <1>1, <1>3, <2>1
       DEF vars, Ask, ForgedNudge, Consume, Write, Post, integration, queue, planner
<1>4. ASSUME NEW due \in BOOLEAN, NEW soc \in BOOLEAN, Tick(due, soc)
      PROVE  OrderInv'
  BY <1>4 DEF Tick, integration
<1>5. ASSUME NEW call \in calls, Fetch(call)
      PROVE  OrderInv'
  <2>1. loop'.data = loop.data
    BY <1>1, <1>5 DEF Fetch, Arrives, LoopState
  <2>2. peer' \in {peer, call.peer} /\ call.peer <= incarnation
    BY <1>5 DEF Fetch, CallInv, queue
  <2> QED
    BY <1>5, <2>1, <2>2 DEF Fetch, queue, planner
<1>6. ASSUME NEW call \in calls, Accept(call) \/ Timeout(call)
      PROVE  OrderInv'
  <2>1. loop'.data = loop.data
    BY <1>1, <1>6 DEF Accept, Timeout, Arrives, LoopState
  <2> QED
    BY <1>6, <2>1 DEF Accept, Timeout, queue, planner
<1>7. CASE Reboot
  BY <1>1, <1>7 DEF Reboot, integration
<1>8. ASSUME NEW answered \in BOOLEAN, Heartbeat(answered)
      PROVE  OrderInv'
  <2>1. /\ addonSession' \in {addonSession, session} /\ epoch' >= epoch /\ link' = epoch
        /\ UNCHANGED <<boot, peer, session, incarnation>>
    BY <1>1, <1>8 DEF Heartbeat, SessionEpoch, queue
  <2>2. loop'.data \in {loop.data, session}
    BY <1>2, <1>8 DEF Heartbeat
  <2> QED
    BY <1>1, <2>1, <2>2
<1>9. ASSUME NEW outcome \in Outcomes, NEW saved \in BOOLEAN,
             EndApply(outcome) \/ EndTransition(outcome, saved)
      PROVE  OrderInv'
  <2>1. loop' = [loop EXCEPT !.step = "post", !.outcome = outcome] /\ epoch' \in {epoch, epoch + 1}
    BY <1>9 DEF EndApply, EndTransition, Ends
  <2>2. loop'.data = loop.data /\ epoch' >= epoch
    BY <1>1, <2>1 DEF LoopState
  <2> QED
    BY <1>1, <1>9, <2>2 DEF EndApply, EndTransition, Ends, queue, planner
<1>10. CASE Abandon \/ EndBatch
  <2>1. loop'.data \in {0, session}
    BY <1>1, <1>10 DEF Abandon, EndBatch, BeginFetch
  <2> QED
    BY <1>1, <1>10, <2>1 DEF Abandon, EndBatch, queue, planner
<1>11. CASE MoveEpoch \/ Rediscover
  BY <1>1, <1>11 DEF MoveEpoch, Rediscover, queue, planner
<1>12. CASE Reload
  BY <1>1, <1>12 DEF Reload, queue, planner
<1> QED
  BY <1>3, <1>4, <1>5, <1>6, <1>7, <1>8, <1>9, <1>10, <1>11, <1>12 DEF Next

-----------------------------------------------------------------------------
(* Batches: sessions, epochs and sequences of what is offered and handled. *)

\* A fetch begins with an empty batch, under a consumer of its own session.
LEMMA FetchBatch ==
  ASSUME TypeInv, BeginFetch
  PROVE  /\ loop'.step = "fetch" /\ loop'.batch = {} /\ loop'.data = session
         /\ consumer'.session = session
         /\ consumer.session = session => consumer' = consumer
         /\ consumer.session # session => consumer'.last = 0
BY DEF BeginFetch, NoConsumer, TypeInv, TypeOK, ConsumerState

\* The parts of BatchInv.
LoopConsumer == loop.step # "idle" => consumer.session = loop.data
InHand       == loop.step = "handle" => consumer.last = First(loop.batch).seq
BatchEpochs  == \A c \in loop.batch : c.epoch <= epoch /\ (loop.data < addonSession => c.epoch < epoch)
BatchSeqs    == \A c \in loop.batch : loop.data = boot => c.seq <= sequence /\ peer # 0
PendingOlder == \A c \in pending : c.epoch <= epoch /\ c.seq <= sequence

\* The parts of BatchInv are proved one by one.
LEMMA BatchParts == BatchInv <=> LoopConsumer /\ InHand /\ BatchEpochs /\ BatchSeqs /\ PendingOlder
BY DEF BatchInv, LoopConsumer, InHand, BatchEpochs, BatchSeqs, PendingOlder

\* The loop keeps the consumer of its session, and its command until it is handled.
LEMMA LoopConsumerStep ==
  TypeInv /\ CallInv /\ LoopConsumer /\ InHand /\ [Next]_vars => LoopConsumer' /\ InHand'
<1> SUFFICES ASSUME TypeInv, CallInv, LoopConsumer, InHand, [Next]_vars
             PROVE  LoopConsumer' /\ InHand'
  OBVIOUS
<1> USE DEF LoopConsumer, InHand
<1>1. loop \in LoopState /\ consumer \in ConsumerState /\ NoLoop.step = "idle"
  BY DEF TypeInv, TypeOK, NoLoop
<1>2. CASE UNCHANGED <<loop, consumer>>
  BY <1>2
<1>3. ASSUME UNCHANGED consumer,
             \/ loop'.step = "idle"
             \/ loop'.step # "handle" /\ loop'.data = loop.data /\ loop.step # "idle"
      PROVE  LoopConsumer' /\ InHand'
  BY <1>3
<1>4. CASE UNCHANGED vars \/ Ask \/ Reboot \/ MoveEpoch \/ Rediscover \/ Write
  BY <1>2, <1>4 DEF vars, Ask, Reboot, MoveEpoch, Rediscover, Write, integration
<1>5. ASSUME NEW due \in BOOLEAN, NEW soc \in BOOLEAN, Tick(due, soc)
      PROVE  LoopConsumer' /\ InHand'
  BY <1>2, <1>5 DEF Tick, integration
<1>6. ASSUME BeginFetch
      PROVE  LoopConsumer' /\ InHand'
  BY <1>6, FetchBatch
<1>7. ASSUME Nudge
      PROVE  LoopConsumer' /\ InHand'
  BY <1>2, <1>6, <1>7, NudgeEffect
<1>8. ASSUME NEW call \in calls, NEW step \in {"fetched", "batch"}, NEW batch,
             Arrives(call, step, batch), UNCHANGED consumer
      PROVE  LoopConsumer' /\ InHand'
  <2>1. CASE call.awaited
    <3>1. loop.step # "idle"
      BY <2>1, <1>8 DEF CallInv
    <3> QED
      BY <1>1, <1>3, <1>8, <2>1, <3>1 DEF Arrives, LoopState
  <2>2. CASE ~call.awaited
    BY <1>2, <1>8, <2>2 DEF Arrives
  <2> QED
    BY <2>1, <2>2
<1>9. ASSUME NEW call \in calls, Fetch(call) \/ Accept(call) \/ Timeout(call)
      PROVE  LoopConsumer' /\ InHand'
  <2>1. UNCHANGED consumer
    BY <1>9 DEF Fetch, Accept, Timeout
  <2>2. \E step \in {"fetched", "batch"}, batch \in SUBSET Command : Arrives(call, step, batch)
    <3>1. \A S \in SUBSET Command : Offers(S) \in SUBSET Command
      BY Selections DEF Offers
    <3>2. loop.batch \in SUBSET Command /\ pending \in SUBSET Command
      BY Fields DEF TypeInv, TypeOK
    <3>3. CASE Fetch(call)
      BY <3>1, <3>2, <3>3 DEF Fetch
    <3>4. CASE Accept(call) \/ Timeout(call)
      BY <3>2, <3>4 DEF Accept, Timeout
    <3> QED
      BY <1>9, <3>3, <3>4
  <2> QED
    BY <1>8, <2>1, <2>2
<1>10. ASSUME NEW answered \in BOOLEAN, Heartbeat(answered)
       PROVE  LoopConsumer' /\ InHand'
  BY <1>2, <1>7, <1>10 DEF Heartbeat
<1>11. CASE ForgedNudge
  BY <1>7, <1>11 DEF ForgedNudge
<1>12. CASE Consume
  <2> DEFINE c == First(loop.batch)
  <2>1. consumer.session = loop.data /\ c.seq \in Nat
    BY <1>12, Fields DEF Consume, TypeInv
  <2>2. /\ loop'.data = loop.data /\ loop'.batch = loop.batch /\ loop'.step \in {"post", "handle"}
        /\ consumer'.session = consumer.session
        /\ loop'.step = "handle" => consumer'.last = c.seq
    BY <1>1, <1>12 DEF Consume, Cached, LoopState, ConsumerState
  <2> QED
    BY <2>1, <2>2
<1>13. ASSUME NEW outcome \in Outcomes, NEW saved \in BOOLEAN,
             EndApply(outcome) \/ EndTransition(outcome, saved)
       PROVE  LoopConsumer' /\ InHand'
  <2>1. /\ consumer' = Cached(consumer, First(loop.batch).seq, outcome) /\ loop.step = "handle"
        /\ loop' = [loop EXCEPT !.step = "post", !.outcome = outcome]
    BY <1>13 DEF EndApply, EndTransition, Ends
  <2>2. consumer'.session = consumer.session /\ loop'.data = loop.data /\ loop'.step = "post"
    BY <1>1, <2>1 DEF Cached, LoopState, ConsumerState
  <2> QED
    BY <2>1, <2>2
<1>14. CASE Post
  BY <1>1, <1>3, <1>14 DEF Post, LoopState
<1>15. CASE Abandon
  BY <1>1, <1>3, <1>15 DEF Abandon
<1>16. CASE EndBatch
  BY <1>1, <1>3, <1>6, <1>16 DEF EndBatch
<1>17. CASE Reload
  BY <1>1, <1>17 DEF Reload
<1> QED
  BY <1>4, <1>5, <1>9, <1>10, <1>11, <1>12, <1>13, <1>14, <1>15, <1>16, <1>17 DEF Next

\* What a fetch offers is pending, and is offered to the loop only by the current boot.
LEMMA Offering ==
  ASSUME NEW call \in calls, Fetch(call)
  PROVE  /\ pending' \subseteq pending
         /\ call.session # boot => peer' = peer
         /\ call.session = boot => peer' = call.peer
         /\ call.session = boot => pending' = {} \/ peer \in {0, call.peer}
         /\ UNCHANGED <<boot, sequence>>
         /\ \/ loop' = loop /\ ~call.awaited
            \/ /\ call.awaited
               /\ \/ loop' = [loop EXCEPT !.step = "fetched", !.batch = {}]
                  \/ /\ call.session = boot
                     /\ \E batch : /\ batch \subseteq pending'
                                   /\ loop' = [loop EXCEPT !.step = "fetched", !.batch = batch]
<1>1. CASE call.session # boot
  BY <1>1 DEF Fetch, Arrives, queue
<1>2. CASE call.session = boot
  <2> DEFINE kept == IF NewReceiver(call) THEN {} ELSE pending
  <2>1. pending' = kept /\ Arrives(call, "fetched", Offers(kept)) /\ peer' = call.peer
        /\ UNCHANGED <<boot, sequence>>
    BY <1>2 DEF Fetch
  <2>2. Offers(kept) \subseteq kept
    BY Selections DEF Offers
  <2> QED
    BY <1>2, <2>1, <2>2 DEF Arrives, NewReceiver
<1> QED
  BY <1>1, <1>2

\* Apart from a fetch that is answered, the batch in the loop only loses commands.
LEMMA BatchShrinks ==
  ASSUME TypeInv, [Next]_vars, \A call \in calls : ~Fetch(call)
  PROVE  loop'.batch \subseteq loop.batch /\ (loop'.batch # {} => loop'.data = loop.data)
<1>1. loop \in LoopState /\ NoLoop.batch = {}
  BY DEF TypeInv, TypeOK, NoLoop
<1>2. ASSUME BeginFetch \/ Nudge
      PROVE  loop' = loop \/ loop'.batch = {}
  BY <1>2, FetchBatch DEF Nudge
<1>3. CASE UNCHANGED vars \/ Ask \/ Reboot \/ MoveEpoch \/ Rediscover \/ Write
  BY <1>3 DEF vars, Ask, Reboot, MoveEpoch, Rediscover, Write, integration
<1>4. ASSUME NEW due \in BOOLEAN, NEW soc \in BOOLEAN, Tick(due, soc)
      PROVE  loop' = loop
  BY <1>4 DEF Tick, integration
<1>5. ASSUME NEW call \in calls, Accept(call) \/ Timeout(call)
      PROVE  loop'.batch = loop.batch /\ loop'.data = loop.data
  BY <1>1, <1>5 DEF Accept, Timeout, Arrives, LoopState
<1>6. ASSUME NEW answered \in BOOLEAN, Heartbeat(answered)
      PROVE  loop' = loop \/ loop'.batch = {}
  BY <1>2, <1>6 DEF Heartbeat
<1>7. ASSUME ForgedNudge \/ EndBatch \/ Abandon \/ Reload
      PROVE  loop' = loop \/ loop'.batch = {}
  BY <1>1, <1>2, <1>7 DEF ForgedNudge, EndBatch, Abandon, Reload
<1>8. ASSUME Consume
      PROVE  loop'.batch = loop.batch /\ loop'.data = loop.data
  BY <1>1, <1>8 DEF Consume, LoopState
<1>9. ASSUME NEW outcome \in Outcomes, NEW saved \in BOOLEAN,
             EndApply(outcome) \/ EndTransition(outcome, saved)
      PROVE  loop'.batch = loop.batch /\ loop'.data = loop.data
  <2>1. loop' = [loop EXCEPT !.step = "post", !.outcome = outcome]
    BY <1>9 DEF EndApply, EndTransition, Ends
  <2> QED
    BY <1>1, <2>1 DEF LoopState
<1>10. ASSUME Post
       PROVE  loop'.batch \subseteq loop.batch /\ loop'.data = loop.data
  <2>1. loop' = [loop EXCEPT !.step = "posting", !.batch = @ \ {First(loop.batch)}]
    BY <1>10 DEF Post
  <2> QED
    BY <1>1, <2>1 DEF LoopState
<1> QED
  BY <1>3, <1>4, <1>5, <1>6, <1>7, <1>8, <1>9, <1>10 DEF Next

\* Epochs never go back, and the authority learns a new session only with a new epoch.
LEMMA EpochGrows ==
  ASSUME TypeInv, [Next]_vars
  PROVE  epoch' >= epoch /\ (addonSession' # addonSession => epoch' = epoch + 1)
<1>1. epoch \in Nat
  BY DEF TypeInv, TypeOK
<1>2. ASSUME NEW answered \in BOOLEAN, Heartbeat(answered)
      PROVE  epoch' >= epoch /\ (addonSession' # addonSession => epoch' = epoch + 1)
  BY <1>1, <1>2 DEF Heartbeat, SessionEpoch
<1>3. ASSUME NEW outcome \in Outcomes, NEW saved \in BOOLEAN,
             EndApply(outcome) \/ EndTransition(outcome, saved)
      PROVE  epoch' >= epoch /\ addonSession' = addonSession
  <2>1. epoch' \in {epoch, epoch + 1} /\ addonSession' = addonSession
    BY <1>3 DEF EndApply, EndTransition, Ends
  <2> QED
    BY <1>1, <2>1
<1>4. CASE MoveEpoch
  BY <1>1, <1>4 DEF MoveEpoch
<1>5. ASSUME NEW call \in calls, Fetch(call) \/ Accept(call) \/ Timeout(call)
      PROVE  UNCHANGED <<epoch, addonSession>>
  BY <1>5 DEF Fetch, Accept, Timeout
<1>6. ASSUME NEW due \in BOOLEAN, NEW soc \in BOOLEAN, Tick(due, soc)
      PROVE  UNCHANGED <<epoch, addonSession>>
  BY <1>6 DEF Tick, integration
<1>7. ASSUME \/ UNCHANGED vars \/ Ask \/ Reboot \/ ForgedNudge \/ Consume \/ Write
             \/ Post \/ Abandon \/ EndBatch \/ Rediscover \/ Reload
      PROVE  UNCHANGED <<epoch, addonSession>>
  BY <1>7 DEF vars, Ask, Reboot, ForgedNudge, Consume, Write, Post, Abandon, EndBatch,
              Rediscover, Reload, integration
<1> QED
  BY <1>1, <1>2, <1>3, <1>4, <1>5, <1>6, <1>7 DEF Next

\* The queue of a boot only issues the next sequence, under the epoch its link knows.
LEMMA QueueGrows ==
  ASSUME TypeInv, CallInv, [Next]_vars, ~Reboot
  PROVE  /\ boot' = boot /\ sequence' >= sequence /\ (peer # 0 => peer' # 0)
         /\ \A c \in pending' : \/ c \in pending
                                \/ c.seq = sequence' /\ sequence' = sequence + 1 /\ c.epoch = link
<1>1. sequence \in Nat
  BY DEF TypeInv, TypeOK
<1>2. ASSUME NEW kind, Enqueue(kind), UNCHANGED <<boot, peer>>
      PROVE  /\ boot' = boot /\ sequence' >= sequence /\ (peer # 0 => peer' # 0)
             /\ \A c \in pending' : \/ c \in pending
                                    \/ c.seq = sequence' /\ sequence' = sequence + 1 /\ c.epoch = link
  BY <1>1, <1>2 DEF Enqueue
<1>3. CASE Ask
  BY <1>2, <1>3 DEF Ask
<1>4. ASSUME NEW due \in BOOLEAN, NEW soc \in BOOLEAN, Tick(due, soc)
      PROVE  \/ UNCHANGED queue
             \/ Enqueue("apply") /\ UNCHANGED <<boot, peer>>
  BY <1>4 DEF Tick, queue
<1>5. ASSUME NEW call \in calls, Fetch(call)
      PROVE  /\ boot' = boot /\ sequence' = sequence /\ (peer # 0 => peer' # 0)
             /\ pending' \subseteq pending
  <2>1. call.peer \in Nat /\ call.peer >= 1
    BY Fields DEF TypeInv, CallInv
  <2>2. peer' \in {peer, call.peer} /\ UNCHANGED <<boot, sequence>> /\ pending' \subseteq pending
    BY <1>5, Offering
  <2> QED
    BY <1>1, <2>1, <2>2
<1>6. ASSUME NEW call \in calls, Accept(call)
      PROVE  UNCHANGED <<boot, sequence, peer>> /\ pending' \subseteq pending
  BY <1>6 DEF Accept
<1>7. ASSUME NEW call \in calls, Timeout(call)
      PROVE  UNCHANGED queue
  BY <1>7 DEF Timeout
<1>8. ASSUME NEW answered \in BOOLEAN, Heartbeat(answered)
      PROVE  UNCHANGED queue
  BY <1>8 DEF Heartbeat
<1>9. ASSUME NEW outcome \in Outcomes, NEW saved \in BOOLEAN,
             EndApply(outcome) \/ EndTransition(outcome, saved)
      PROVE  UNCHANGED queue
  BY <1>9 DEF EndApply, EndTransition, Ends
<1>10. ASSUME \/ UNCHANGED vars \/ ForgedNudge \/ Consume \/ Write \/ Post \/ Abandon
              \/ EndBatch \/ MoveEpoch \/ Rediscover \/ Reload
       PROVE  UNCHANGED queue
  BY <1>10 DEF vars, ForgedNudge, Consume, Write, Post, Abandon, EndBatch, MoveEpoch,
               Rediscover, Reload, queue
<1>11. UNCHANGED queue => /\ UNCHANGED <<boot, sequence, peer, pending>>
  BY DEF queue
<1> QED
  BY <1>1, <1>2, <1>3, <1>4, <1>5, <1>6, <1>7, <1>8, <1>9, <1>10, <1>11 DEF Next

\* Batches hold commands of earlier epochs and of sequences their boot has issued.
LEMMA BatchStep ==
  TypeInv /\ CallInv /\ OrderInv /\ BatchInv /\ [Next]_vars => BatchInv'
<1> SUFFICES ASSUME TypeInv, CallInv, OrderInv, BatchInv, [Next]_vars
             PROVE  BatchInv'
  OBVIOUS
<1>1. LoopConsumer /\ InHand /\ BatchEpochs /\ BatchSeqs /\ PendingOlder
  BY BatchParts
<1>2. TypeInv'
  BY TypeStep
<1>3. /\ boot \in Nat /\ sequence \in Nat /\ epoch \in Nat /\ addonSession \in Nat
      /\ session \in Nat /\ loop.data \in Nat /\ link \in Nat /\ loop \in LoopState
      /\ pending \subseteq Command /\ loop.batch \subseteq Command
      /\ \A c \in Command : c.seq \in Nat /\ c.epoch \in Nat
  BY Fields DEF TypeInv, TypeOK, Command
<1>4. boot' \in Nat /\ sequence' \in Nat /\ epoch' \in Nat /\ addonSession' \in Nat
  BY <1>2 DEF TypeInv, TypeOK
<1>5. LoopConsumer' /\ InHand'
  BY <1>1, LoopConsumerStep
<1>6. epoch' >= epoch /\ (addonSession' # addonSession => epoch' = epoch + 1)
  BY EpochGrows
<1>7. PendingOlder'
  <2>1. CASE Reboot
    BY <2>1 DEF Reboot, PendingOlder
  <2>2. CASE ~Reboot
    <3>1. /\ sequence' >= sequence
          /\ \A c \in pending' : \/ c \in pending
                                 \/ c.seq = sequence' /\ c.epoch = link
      BY <2>2, QueueGrows
    <3>2. link <= epoch
      BY DEF OrderInv
    <3> QED
      BY <1>1, <1>3, <1>4, <1>6, <3>1, <3>2 DEF PendingOlder
  <2> QED
    BY <2>1, <2>2
<1>8. ASSUME BatchEpochs', BatchSeqs'
       PROVE  BatchInv'
  BY <1>5, <1>7, <1>8
     DEF BatchInv, LoopConsumer, InHand, BatchEpochs, BatchSeqs, PendingOlder
<1>9. CASE \E call \in calls : Fetch(call)
  <2>1. PICK call \in calls : Fetch(call)
    BY <1>9
  <2>2. UNCHANGED <<epoch, addonSession, session>>
    BY <2>1 DEF Fetch
  <2>3. CASE ~call.awaited
    <3>1. loop' = loop
      BY <2>1, <2>3, Offering
    <3>2. ~Reboot
      <4>1. boot' = boot
        BY <2>1, Offering
      <4> QED
        BY <1>3, <4>1 DEF Reboot
    <3>3. boot' = boot /\ sequence' >= sequence /\ (peer # 0 => peer' # 0)
      BY <3>2, QueueGrows
    <3>4. BatchEpochs'
      BY <1>1, <2>2, <3>1 DEF BatchEpochs
    <3>5. BatchSeqs'
      BY <1>1, <1>3, <1>4, <3>1, <3>3 DEF BatchSeqs
    <3> QED
      BY <1>8, <3>4, <3>5
  <2>4. CASE call.awaited /\ loop' = [loop EXCEPT !.step = "fetched", !.batch = {}]
    <3>1. loop'.batch = {}
      BY <1>3, <2>4 DEF LoopState
    <3> QED
      BY <1>8, <3>1 DEF BatchEpochs, BatchSeqs
  <2>5. CASE /\ call.awaited /\ call.session = boot
             /\ \E batch : /\ batch \subseteq pending'
                           /\ loop' = [loop EXCEPT !.step = "fetched", !.batch = batch]
    <3>1. loop'.batch \subseteq pending' /\ loop'.data = loop.data
      BY <1>3, <2>5 DEF LoopState
    <3>2. loop.data = boot /\ peer' = call.peer /\ call.peer >= 1 /\ call.peer \in Nat
      BY <2>1, <2>5, Offering, Fields DEF CallInv, TypeInv
    <3>3. addonSession <= boot
      BY <1>3 DEF OrderInv
    <3>4. BatchEpochs'
      BY <1>3, <1>7, <2>2, <3>1, <3>2, <3>3 DEF BatchEpochs, PendingOlder
    <3>5. BatchSeqs'
      BY <1>7, <3>1, <3>2 DEF BatchSeqs, PendingOlder
    <3> QED
      BY <1>8, <3>4, <3>5
  <2> QED
    BY <2>1, <2>3, <2>4, <2>5, Offering
<1>10. CASE \A call \in calls : ~Fetch(call)
  <2>1. loop'.batch \subseteq loop.batch /\ (loop'.batch # {} => loop'.data = loop.data)
    BY <1>10, BatchShrinks
  <2>2. BatchEpochs'
    BY <1>1, <1>3, <1>4, <1>6, <2>1 DEF BatchEpochs
  <2>3. CASE Reboot
    <3>1. boot' = boot + 1 /\ loop' = loop
      BY <2>3 DEF Reboot, integration
    <3>2. loop.data <= boot
      BY <1>3 DEF OrderInv
    <3>3. BatchSeqs'
      BY <1>3, <3>1, <3>2 DEF BatchSeqs
    <3> QED
      BY <1>8, <2>2, <3>3
  <2>4. CASE ~Reboot
    <3>1. boot' = boot /\ sequence' >= sequence /\ (peer # 0 => peer' # 0)
      BY <2>4, QueueGrows
    <3>2. BatchSeqs'
      BY <1>1, <1>3, <1>4, <2>1, <3>1 DEF BatchSeqs
    <3> QED
      BY <1>8, <2>2, <3>2
  <2> QED
    BY <2>3, <2>4
<1> QED
  BY <1>9, <1>10

-----------------------------------------------------------------------------
(* Executions: what has run, against what could still run. *)

\* Only Consume starts a handler, on the first command of the batch.
LEMMA RunsGrow ==
  ASSUME TypeInv, [Next]_vars
  PROVE  \/ runs' = runs
         \/ /\ Consume /\ loop.batch # {} /\ loop.data = session
            /\ ~(First(loop.batch).seq <= consumer.last)
            /\ runs' = runs \union {[boot |-> loop.data, seq |-> First(loop.batch).seq]}
            /\ consumer' = [consumer EXCEPT !.last = First(loop.batch).seq]
<1>1. ASSUME Consume
      PROVE  \/ runs' = runs
             \/ /\ Consume /\ loop.batch # {} /\ loop.data = session
                /\ ~(First(loop.batch).seq <= consumer.last)
                /\ runs' = runs \union {[boot |-> loop.data, seq |-> First(loop.batch).seq]}
                /\ consumer' = [consumer EXCEPT !.last = First(loop.batch).seq]
  BY <1>1 DEF Consume
<1>2. ASSUME NEW call \in calls, Fetch(call) \/ Accept(call) \/ Timeout(call)
      PROVE  runs' = runs
  BY <1>2 DEF Fetch, Accept, Timeout, history
<1>3. ASSUME NEW due \in BOOLEAN, NEW soc \in BOOLEAN, Tick(due, soc)
      PROVE  runs' = runs
  BY <1>3 DEF Tick, history
<1>4. ASSUME NEW answered \in BOOLEAN, Heartbeat(answered)
      PROVE  runs' = runs
  BY <1>4 DEF Heartbeat, history
<1>5. ASSUME NEW outcome \in Outcomes, NEW saved \in BOOLEAN,
             EndApply(outcome) \/ EndTransition(outcome, saved)
      PROVE  runs' = runs
  BY <1>5 DEF EndApply, EndTransition, Ends
<1>6. ASSUME \/ UNCHANGED vars \/ Ask \/ Reboot \/ ForgedNudge \/ Write \/ Post \/ Abandon
             \/ EndBatch \/ MoveEpoch \/ Rediscover \/ Reload
      PROVE  runs' = runs
  BY <1>6 DEF vars, Ask, Reboot, ForgedNudge, Write, Post, Abandon, EndBatch, MoveEpoch,
              Rediscover, Reload, history
<1> QED
  BY <1>1, <1>2, <1>3, <1>4, <1>5, <1>6 DEF Next

\* The consumer of a session never forgets how far it has come; a reload starts afresh.
LEMMA ConsumerGrows ==
  ASSUME TypeInv, InHand, [Next]_vars
  PROVE  \/ consumer'.session = consumer.session /\ consumer'.last >= consumer.last
         \/ consumer.session # session /\ session' = session /\ loop'.batch = {}
         \/ Reload
<1> DEFINE Kept  == consumer'.session = consumer.session /\ consumer'.last >= consumer.last
           Begun == consumer.session # session /\ session' = session /\ loop'.batch = {}
<1>1. consumer \in ConsumerState /\ consumer.last \in Nat
  BY Fields DEF TypeInv, TypeOK
<1>2. consumer' = consumer => Kept
  BY <1>1
<1>3. ASSUME BeginFetch \/ Nudge, session' = session
      PROVE  Kept \/ Begun
  BY <1>2, <1>3, FetchBatch DEF Nudge
<1>4. ASSUME Consume
      PROVE  Kept
  <2>1. First(loop.batch).seq \in Nat
    BY <1>4, Fields DEF Consume, TypeInv
  <2>2. \/ consumer' = consumer
        \/ /\ ~(First(loop.batch).seq <= consumer.last)
           /\ \/ consumer' = Cached(consumer, First(loop.batch).seq, "stale")
              \/ consumer' = [consumer EXCEPT !.last = First(loop.batch).seq]
    BY <1>4 DEF Consume
  <2>3. CASE consumer' = consumer
    BY <1>2, <2>3
  <2>4. CASE consumer' # consumer
    <3>1. consumer'.last = First(loop.batch).seq /\ consumer'.session = consumer.session
      BY <1>1, <2>2, <2>4 DEF Cached, ConsumerState
    <3> QED
      BY <1>1, <2>1, <2>2, <2>4, <3>1
  <2> QED
    BY <2>3, <2>4
<1>5. ASSUME NEW outcome \in Outcomes, NEW saved \in BOOLEAN,
             EndApply(outcome) \/ EndTransition(outcome, saved)
      PROVE  Kept
  <2>1. /\ consumer' = Cached(consumer, First(loop.batch).seq, outcome) /\ loop.step = "handle"
    BY <1>5 DEF EndApply, EndTransition, Ends
  <2>2. consumer'.last = consumer.last /\ consumer'.session = consumer.session
    BY <1>1, <2>1 DEF Cached, ConsumerState, InHand
  <2> QED
    BY <1>1, <2>2
<1>6. ASSUME NEW call \in calls, Fetch(call) \/ Accept(call) \/ Timeout(call)
      PROVE  consumer' = consumer
  BY <1>6 DEF Fetch, Accept, Timeout
<1>7. ASSUME NEW due \in BOOLEAN, NEW soc \in BOOLEAN, Tick(due, soc)
      PROVE  consumer' = consumer
  BY <1>7 DEF Tick, integration
<1>8. ASSUME NEW answered \in BOOLEAN, Heartbeat(answered)
      PROVE  Kept \/ Begun
  BY <1>2, <1>3, <1>8 DEF Heartbeat
<1>9. CASE ForgedNudge \/ EndBatch
  BY <1>2, <1>3, <1>9 DEF ForgedNudge, EndBatch
<1>10. ASSUME \/ UNCHANGED vars \/ Ask \/ Reboot \/ Write \/ Post \/ Abandon \/ MoveEpoch
              \/ Rediscover
       PROVE  consumer' = consumer
  BY <1>10 DEF vars, Ask, Reboot, Write, Post, Abandon, MoveEpoch, Rediscover, integration
<1> QED
  BY <1>2, <1>4, <1>5, <1>6, <1>7, <1>8, <1>9, <1>10 DEF Next

\* Who receives: a new incarnation by a reload, a new peer by a fetch or a reboot.
LEMMA Receivers ==
  ASSUME [Next]_vars
  PROVE  /\ Reload \/ incarnation' = incarnation
         /\ Reboot \/ peer' = peer \/ \E call \in calls : Fetch(call)
         /\ session' \in {session, boot}
<1>1. ASSUME NEW call \in calls, Fetch(call)
      PROVE  UNCHANGED <<incarnation, session>>
  BY <1>1 DEF Fetch
<1>2. ASSUME NEW call \in calls, Accept(call) \/ Timeout(call)
      PROVE  UNCHANGED <<incarnation, session, peer>>
  BY <1>2 DEF Accept, Timeout, queue
<1>3. ASSUME NEW due \in BOOLEAN, NEW soc \in BOOLEAN, Tick(due, soc)
      PROVE  UNCHANGED <<incarnation, session, peer>>
  BY <1>3 DEF Tick, integration
<1>4. ASSUME NEW answered \in BOOLEAN, Heartbeat(answered)
      PROVE  UNCHANGED <<incarnation, session, peer>>
  BY <1>4 DEF Heartbeat, queue
<1>5. ASSUME NEW outcome \in Outcomes, NEW saved \in BOOLEAN,
             EndApply(outcome) \/ EndTransition(outcome, saved)
      PROVE  UNCHANGED <<incarnation, session, peer>>
  BY <1>5 DEF EndApply, EndTransition, Ends, queue
<1>6. ASSUME \/ UNCHANGED vars \/ Ask \/ ForgedNudge \/ Consume \/ Write \/ Post \/ Abandon
             \/ EndBatch \/ MoveEpoch
      PROVE  UNCHANGED <<incarnation, session, peer>>
  BY <1>6 DEF vars, Ask, ForgedNudge, Consume, Write, Post, Abandon, EndBatch, MoveEpoch,
              integration, queue
<1>7. CASE Reboot \/ Rediscover \/ Reload
  BY <1>7 DEF Reboot, Rediscover, Reload, integration, queue
<1> QED
  BY <1>1, <1>2, <1>3, <1>4, <1>5, <1>6, <1>7 DEF Next

\* The parts of RunInv.
RunsIssued  == \A r \in runs : r.boot <= session /\ (r.boot = boot => r.seq <= sequence /\ peer # 0)
BatchAhead  == \A r \in runs : \A c \in loop.batch :
                 r.boot = loop.data /\ c.seq <= r.seq => c.seq <= consumer.last
QueueAhead  == \A r \in runs : \A c \in pending :
                 r.boot = boot /\ c.seq <= r.seq /\ peer \in {0, incarnation}
                   => consumer.session = boot /\ c.seq <= consumer.last

\* Whatever could still be offered or run, and is not beyond what ran, is known replayed.
LEMMA RunStep ==
  TypeInv /\ CallInv /\ OrderInv /\ BatchInv /\ RunInv /\ [Next]_vars => RunInv'
<1> SUFFICES ASSUME TypeInv, CallInv, OrderInv, BatchInv, RunInv, [Next]_vars
             PROVE  RunInv'
  OBVIOUS
<1>1. RunsIssued /\ BatchAhead /\ QueueAhead
  BY DEF RunInv, RunsIssued, BatchAhead, QueueAhead
<1>2. LoopConsumer /\ InHand /\ BatchSeqs /\ PendingOlder
  BY BatchParts
<1>3. TypeInv'
  BY TypeStep
<1>4. /\ boot \in Nat /\ sequence \in Nat /\ peer \in Nat /\ incarnation \in Nat /\ session \in Nat
      /\ loop.data \in Nat /\ loop \in LoopState /\ consumer \in ConsumerState
      /\ consumer.last \in Nat
      /\ \A c \in pending \union loop.batch : c \in Command /\ c.seq \in Nat
      /\ \A r \in runs : r.boot \in Nat /\ r.seq \in Nat
      /\ loop.batch # {} => First(loop.batch) \in loop.batch /\ First(loop.batch).seq \in Nat
  BY Fields DEF TypeInv, TypeOK, Command
<1>5. /\ sequence' \in Nat /\ consumer'.last \in Nat /\ incarnation' \in Nat /\ session' \in Nat
      /\ \A c \in pending' \union loop'.batch : c.seq \in Nat
  BY <1>3 DEF TypeInv, TypeOK, ConsumerState, LoopState, Command
<1>6. session <= boot /\ loop.data <= session /\ peer <= incarnation
  BY DEF OrderInv
<1>7. session' >= session /\ (Reload \/ incarnation' = incarnation)
  BY <1>4, <1>6, Receivers
<1> DEFINE c1  == First(loop.batch)
           Started == [boot |-> loop.data, seq |-> c1.seq]
<1>8. \/ runs' = runs
      \/ /\ Consume /\ loop.batch # {} /\ loop.data = session /\ ~(c1.seq <= consumer.last)
         /\ runs' = runs \union {Started} /\ consumer' = [consumer EXCEPT !.last = c1.seq]
  BY RunsGrow
<1>9. Consume => /\ UNCHANGED <<boot, sequence, peer, pending, session, incarnation>>
                 /\ loop'.batch = loop.batch /\ loop'.data = loop.data
                 /\ consumer.session = loop.data
  BY <1>2, <1>4 DEF Consume, queue, LoopState, LoopConsumer
<1>10. CASE Consume /\ runs' # runs
  <2>1. /\ loop.batch # {} /\ loop.data = session /\ runs' = runs \union {Started}
        /\ consumer'.last = c1.seq /\ consumer'.session = loop.data
        /\ c1.seq > consumer.last /\ c1 \in loop.batch /\ c1.seq \in Nat
    BY <1>4, <1>8, <1>9, <1>10 DEF ConsumerState
  <2>2. RunsIssued'
    <3>1. Started.boot = boot => Started.seq <= sequence /\ peer # 0
      BY <1>2, <2>1 DEF BatchSeqs
    <3> QED
      BY <1>1, <1>4, <1>9, <1>10, <2>1, <3>1 DEF RunsIssued
  <2>3. BatchAhead'
    BY <1>1, <1>4, <1>9, <1>10, <2>1 DEF BatchAhead
  <2>4. QueueAhead'
    BY <1>1, <1>4, <1>9, <1>10, <2>1 DEF QueueAhead
  <2> QED
    BY <2>2, <2>3, <2>4 DEF RunInv, RunsIssued, BatchAhead, QueueAhead
<1>11. CASE runs' = runs /\ Reboot
  <2>1. boot' = boot + 1 /\ pending' = {} /\ UNCHANGED <<session, consumer, loop>>
    BY <1>11 DEF Reboot, integration
  <2>2. RunsIssued'
    BY <1>1, <1>4, <1>6, <1>11, <2>1 DEF RunsIssued
  <2>3. BatchAhead' /\ QueueAhead'
    BY <1>1, <1>11, <2>1 DEF BatchAhead, QueueAhead
  <2> QED
    BY <2>2, <2>3 DEF RunInv, RunsIssued, BatchAhead, QueueAhead
<1>12. CASE runs' = runs /\ Reload
  <2>1. /\ incarnation' = incarnation + 1 /\ loop'.batch = {}
        /\ UNCHANGED <<boot, sequence, peer, pending, session>>
    BY <1>12 DEF Reload, queue, NoLoop
  <2>2. RunsIssued'
    BY <1>1, <1>12, <2>1 DEF RunsIssued
  <2>3. BatchAhead'
    BY <2>1 DEF BatchAhead
  <2>4. QueueAhead'
    <3>1. \A r \in runs : r.boot = boot => peer \notin {0, incarnation'}
      BY <1>1, <1>4, <1>6, <2>1 DEF RunsIssued
    <3> QED
      BY <1>12, <2>1, <3>1 DEF QueueAhead
  <2> QED
    BY <2>2, <2>3, <2>4 DEF RunInv, RunsIssued, BatchAhead, QueueAhead
<1>13. CASE runs' = runs /\ ~Reboot /\ ~Reload
  <2>1. /\ boot' = boot /\ sequence' >= sequence /\ (peer # 0 => peer' # 0)
        /\ \A c \in pending' : c \in pending \/ c.seq = sequence + 1
    BY <1>13, QueueGrows
  <2>2. incarnation' = incarnation
    BY <1>7, <1>13
  <2>3. \/ consumer'.session = consumer.session /\ consumer'.last >= consumer.last
        \/ consumer.session # session /\ session' = session /\ loop'.batch = {}
    BY <1>2, <1>13, ConsumerGrows
  <2>4. RunsIssued'
    BY <1>1, <1>4, <1>5, <1>7, <1>13, <2>1 DEF RunsIssued
  <2>5. \A c \in pending' : peer' \in {0, incarnation} /\ c \in pending => peer \in {0, incarnation}
    <3>1. CASE peer' = peer
      BY <3>1
    <3>2. CASE peer' # peer
      <4>1. PICK call \in calls : Fetch(call)
        BY <1>13, <3>2, Receivers
      <4>2. call.session = boot /\ peer' = call.peer
        BY <3>2, <4>1, Offering
      <4>3. pending' = {} \/ peer \in {0, call.peer}
        BY <4>1, <4>2, Offering
      <4> QED
        BY <3>2, <4>2, <4>3
    <3> QED
      BY <3>1, <3>2
  <2>6. QueueAhead'
    <3> SUFFICES ASSUME NEW r \in runs, NEW c \in pending',
                        r.boot = boot, c.seq <= r.seq, peer' \in {0, incarnation}
                 PROVE  consumer'.session = boot /\ c.seq <= consumer'.last
      BY <1>13, <2>1, <2>2 DEF QueueAhead
    <3>1. r.seq <= sequence
      BY <1>1 DEF RunsIssued
    <3>2. c \in pending /\ c.seq \in Nat /\ r.seq \in Nat
      BY <1>4, <1>5, <2>1, <3>1
    <3>3. consumer.session = boot /\ c.seq <= consumer.last
      BY <1>1, <2>5, <3>2 DEF QueueAhead
    <3>4. session = boot
      BY <1>1, <1>4, <1>6 DEF RunsIssued
    <3> QED
      BY <1>4, <1>5, <2>3, <3>2, <3>3, <3>4
  <2>7. BatchAhead'
    <3>1. CASE \E call \in calls : Fetch(call)
      <4>1. PICK call \in calls : Fetch(call)
        BY <3>1
      <4>2. UNCHANGED consumer
        BY <4>1 DEF Fetch
      <4>3. CASE loop' = loop
        BY <1>1, <1>13, <4>2, <4>3 DEF BatchAhead
      <4>4. CASE call.awaited /\ loop' = [loop EXCEPT !.step = "fetched", !.batch = {}]
        <5>1. loop'.batch = {}
          BY <1>4, <4>4 DEF LoopState
        <5> QED
          BY <5>1 DEF BatchAhead
      <4>5. CASE /\ call.awaited /\ call.session = boot
                 /\ \E batch : /\ batch \subseteq pending'
                               /\ loop' = [loop EXCEPT !.step = "fetched", !.batch = batch]
        <5>1. loop'.batch \subseteq pending' /\ loop'.data = loop.data
          BY <1>4, <4>5 DEF LoopState
        <5>2. loop.data = boot /\ call.peer = incarnation
          BY <4>5 DEF CallInv
        <5>3. peer' = incarnation
          BY <4>1, <4>5, <5>2, Offering
        <5>4. \A r \in runs, c \in pending' :
                r.boot = boot /\ c.seq <= r.seq => c.seq <= consumer'.last
          BY <1>13, <2>1, <2>2, <2>6, <5>3 DEF QueueAhead
        <5> QED
          BY <1>13, <4>2, <5>1, <5>2, <5>4 DEF BatchAhead
      <4> QED
        BY <4>1, <4>3, <4>4, <4>5, Offering
    <3>2. CASE \A call \in calls : ~Fetch(call)
      <4>1. loop'.batch \subseteq loop.batch /\ (loop'.batch # {} => loop'.data = loop.data)
        BY <3>2, BatchShrinks
      <4>2. loop'.batch = {} \/ consumer'.last >= consumer.last
        BY <2>3
      <4> QED
        BY <1>1, <1>4, <1>5, <1>13, <4>1, <4>2 DEF BatchAhead
    <3> QED
      BY <3>1, <3>2
  <2> QED
    BY <2>4, <2>6, <2>7 DEF RunInv, RunsIssued, BatchAhead, QueueAhead
<1> QED
  BY <1>8, <1>10, <1>11, <1>12, <1>13

-----------------------------------------------------------------------------
(* What follows. *)

CommandInv == TypeInv /\ CallInv /\ OrderInv /\ BatchInv /\ RunInv

\* The inductive invariant holds when the channel starts.
LEMMA CommandInit == Init => CommandInv
<1> SUFFICES ASSUME Init
             PROVE  CommandInv
  OBVIOUS
<1>1. TypeInv
  <2>1. NoLoop \in LoopState /\ NoConsumer \in ConsumerState
    BY DEF NoLoop, NoConsumer, LoopState, ConsumerState, Steps, Outcomes
  <2> QED
    BY <2>1, BudgetsAssumption, EmptySeq DEF Init, TypeInv, TypeOK, NoPlan, NoLoop
<1>2. CallInv /\ OrderInv /\ BatchInv /\ RunInv
  BY DEF Init, CallInv, OrderInv, BatchInv, RunInv, NoLoop
<1> QED
  BY <1>1, <1>2 DEF CommandInv

\* The inductive invariant holds in every behaviour.
LEMMA CommandInvariant == Spec => []CommandInv
<1>1. Init => CommandInv
  BY CommandInit
<1>2. CommandInv /\ [Next]_vars => CommandInv'
  BY TypeStep, CallStep, OrderStep, BatchStep, RunStep DEF CommandInv
<1> QED
  BY <1>1, <1>2, PTL DEF Spec

-----------------------------------------------------------------------------
(* Answers: what is kept, on its way or cached is what the integration came to. *)

\* Agrees, for a boot that has issued s commands, the runs R and the decisions D.
AgreesIn(a, b, s, R, D) ==
    IF [boot |-> b, seq |-> a.seq] \in R
    THEN \/ [boot |-> b, seq |-> a.seq, outcome |-> a.outcome] \in D
         \/ a.outcome = "refused" /\ a.seq + CacheSize <= s
    ELSE a.outcome \in {"stale", "refused"}

\* Sequences whose result would still be accepted, now or after another fetch.
Open(seq) == seq \in offered \/ seq \in Seqs(pending)

\* The answers the add-on keeps were offered, are true, and are behind the consumer
\* of the receiver that gave them.
AnswersKept ==
    /\ peer = 0 => offered = {}
    /\ \A i \in 1 .. Len(answers) :
         answers[i].seq \in offered /\ AgreesIn(answers[i], boot, sequence, runs, decisions)
    /\ \A i, j \in 1 .. Len(answers) : answers[i].seq = answers[j].seq => i = j
    /\ peer = incarnation =>
         \A i \in 1 .. Len(answers) : consumer.session = boot /\ answers[i].seq <= consumer.last

\* What the loop holds and the add-on still has was offered to this incarnation alone.
OneReceiver == \A c \in loop.batch : loop.data = boot /\ Open(c.seq) => peer = incarnation

\* A result on its way that could be accepted is its last receiver's, and true.
ResultsTrue ==
    \A call \in calls : call.type = "result" =>
      /\ call.session <= session
      /\ call.session = boot => call.answer.seq <= sequence
      /\ call.session = boot /\ Open(call.answer.seq) =>
           call.peer = peer /\ AgreesIn(call.answer, boot, sequence, runs, decisions)
      /\ call.session = boot /\ call.peer = incarnation =>
           consumer.session = boot /\ call.answer.seq <= consumer.last

\* The consumer's cache has one true result of a command, none of the one in hand.
CacheTrue ==
    /\ consumer.session <= session
    /\ IsFiniteSet(consumer.results)
    /\ \A r, q \in consumer.results : r.seq = q.seq => r = q
    /\ \A r \in consumer.results :
         r.seq <= consumer.last /\ (loop.step = "handle" => r.seq < consumer.last)
    /\ consumer.session = boot =>
         /\ consumer.last <= sequence
         /\ \A r \in consumer.results : AgreesIn(r, boot, sequence, runs, decisions)

\* A command that ran and may come up again is in the cache, in hand or overtaken.
Live(seq) == \/ peer = incarnation /\ seq \in Seqs(pending)
             \/ loop.data = boot /\ seq \in Seqs(loop.batch)
Remembered(seq) == \/ seq \in Seqs(consumer.results)
                   \/ seq + CacheSize <= consumer.last
                   \/ loop.step = "handle" /\ seq = consumer.last
RunsRemembered ==
    \A r \in runs : r.boot = boot /\ Live(r.seq) =>
      consumer.session = boot /\ r.seq <= consumer.last /\ Remembered(r.seq)

\* The command in hand has run, and a result about to be posted is true.
PostTrue ==
    /\ loop.step = "handle" => [boot |-> loop.data, seq |-> First(loop.batch).seq] \in runs
    /\ loop.step = "post" =>
         /\ First(loop.batch).seq <= consumer.last
         /\ loop.data = boot =>
              AgreesIn([seq |-> First(loop.batch).seq, outcome |-> loop.outcome],
                       boot, sequence, runs, decisions)

AnswerInv == AnswersKept /\ OneReceiver /\ ResultsTrue /\ CacheTrue /\ RunsRemembered /\ PostTrue
ChannelInv == CommandInv /\ AnswerInv

\* What the steps below need of types and order.
LEMMA ChannelFacts ==
  ASSUME CommandInv
  PROVE  /\ boot \in Nat /\ sequence \in Nat /\ peer \in Nat /\ incarnation \in Nat
         /\ session \in Nat /\ loop \in LoopState /\ loop.data \in Nat
         /\ loop.batch \in SUBSET Command /\ pending \in SUBSET Command
         /\ consumer \in ConsumerState /\ consumer.session \in Nat /\ consumer.last \in Nat
         /\ consumer.results \in SUBSET Answer /\ answers \in Seq(Answer)
         /\ CacheSize \in Nat /\ CacheSize > 0 /\ offered \in SUBSET Nat
         /\ \A c \in Command : c.seq \in Nat
         /\ \A a \in Answer : a.seq \in Nat /\ a.outcome \in Outcomes
         /\ \A r \in runs : r.boot \in Nat /\ r.seq \in Nat
         /\ \A call \in calls : /\ call.session \in Nat /\ call.peer \in Nat /\ call.peer >= 1
                                /\ call.answer \in Answer /\ call.peer <= incarnation
         /\ session <= boot /\ loop.data <= session /\ peer <= incarnation /\ incarnation >= 1
         /\ loop.batch # {} => First(loop.batch) \in loop.batch
<1>1. CacheSize \in Nat /\ CacheSize > 0
  BY SizesAssumption
<1>2. TypeInv /\ CallInv /\ OrderInv
  BY DEF CommandInv
<1>3. /\ loop.data \in Nat /\ loop.batch \in SUBSET Command
      /\ consumer.session \in Nat /\ consumer.last \in Nat /\ consumer.results \in SUBSET Answer
      /\ \A call \in calls : call.session \in Nat /\ call.peer \in Nat /\ call.answer \in Answer
      /\ loop.batch # {} => First(loop.batch) \in loop.batch
  BY <1>2, Fields DEF TypeInv
<1>4. /\ \A c \in Command : c.seq \in Nat
      /\ \A a \in Answer : a.seq \in Nat /\ a.outcome \in Outcomes
      /\ \A r \in runs : r.boot \in Nat /\ r.seq \in Nat
  BY <1>2 DEF TypeInv, TypeOK, Command, Answer
<1>5. /\ \A call \in calls : call.peer >= 1 /\ call.peer <= incarnation
      /\ session <= boot /\ loop.data <= session /\ peer <= incarnation /\ incarnation >= 1
  BY <1>2 DEF CallInv, OrderInv
<1> QED
  BY <1>1, <1>2, <1>3, <1>4, <1>5 DEF TypeInv, TypeOK

\* Agreement lasts: decisions stay, commands are only issued, and no run of it begins.
LEMMA AgreementLasts ==
  ASSUME NEW a, a.seq \in Nat, NEW b, NEW s \in Nat, NEW t \in Nat, s <= t, CacheSize \in Nat,
         NEW R, NEW S, NEW D, NEW E, D \subseteq E, R \subseteq S,
         [boot |-> b, seq |-> a.seq] \in S => [boot |-> b, seq |-> a.seq] \in R,
         AgreesIn(a, b, s, R, D)
  PROVE  AgreesIn(a, b, t, S, E)
BY DEF AgreesIn

\* Nothing that the answers rest on changes.
Apart == /\ UNCHANGED <<boot, peer, offered, answers, runs, decisions, consumer, session, incarnation>>

\* A new command is issued: it is beyond every answer, result and batch.
LEMMA IssueAnswers ==
  ASSUME ChannelInv, NEW kind, Enqueue(kind), Apart, UNCHANGED <<loop, calls>>
  PROVE  AnswerInv'
<1> DEFINE new == [seq |-> sequence + 1, epoch |-> link, kind |-> kind]
<1>1. sequence' = sequence + 1 /\ pending' = pending \union {new} /\ new.seq = sequence + 1
  BY DEF Enqueue
<1> HIDE DEF new
<1>2. /\ AnswersKept /\ OneReceiver /\ ResultsTrue /\ CacheTrue /\ RunsRemembered /\ PostTrue
      /\ CommandInv /\ BatchInv /\ RunInv
  BY DEF ChannelInv, AnswerInv, CommandInv
<1>3. /\ \A seq \in Nat : seq <= sequence /\ Open(seq)' => Open(seq)
      /\ \A seq \in Nat : seq <= sequence /\ Live(seq)' => Live(seq)
  <2>1. \A seq \in Nat : seq <= sequence => (seq \in Seqs(pending') <=> seq \in Seqs(pending))
    BY <1>1, <1>2, ChannelFacts DEF Seqs
  <2> QED
    BY <2>1 DEF Open, Live, Apart
<1>4. \A a : a.seq \in Nat /\ AgreesIn(a, boot, sequence, runs, decisions)
               => AgreesIn(a, boot, sequence', runs, decisions)
  <2>1. /\ sequence \in Nat /\ sequence' \in Nat /\ sequence <= sequence' /\ CacheSize \in Nat
    BY <1>1, <1>2, ChannelFacts
  <2> QED
    BY <2>1, AgreementLasts
<1>5. AnswersKept'
  <2>1. \A i \in 1 .. Len(answers) : answers[i].seq \in Nat
    BY <1>2, ChannelFacts
  <2> QED
    BY <1>2, <1>4, <2>1 DEF AnswersKept, Apart
<1>6. OneReceiver'
  <2>1. \A c \in loop.batch : c.seq \in Nat /\ (loop.data = boot => c.seq <= sequence)
    BY <1>2, ChannelFacts DEF BatchInv
  <2> QED
    BY <1>2, <1>3, <2>1 DEF OneReceiver, Apart
<1>7. ResultsTrue'
  <2> SUFFICES ASSUME NEW call \in calls, call.type = "result"
               PROVE  /\ call.session <= session
                      /\ call.session = boot => call.answer.seq <= sequence'
                      /\ call.session = boot /\ Open(call.answer.seq)' =>
                           call.peer = peer /\ AgreesIn(call.answer, boot, sequence', runs, decisions)
                      /\ call.session = boot /\ call.peer = incarnation =>
                           consumer.session = boot /\ call.answer.seq <= consumer.last
    BY DEF ResultsTrue, Apart
  <2>1. call.answer.seq \in Nat
    BY <1>2, ChannelFacts
  <2>2. /\ call.session <= session
        /\ call.session = boot => call.answer.seq <= sequence
        /\ call.session = boot /\ Open(call.answer.seq) =>
             call.peer = peer /\ AgreesIn(call.answer, boot, sequence, runs, decisions)
        /\ call.session = boot /\ call.peer = incarnation =>
             consumer.session = boot /\ call.answer.seq <= consumer.last
    BY <1>2 DEF ResultsTrue
  <2> QED
    BY <1>1, <1>2, <1>3, <1>4, <2>1, <2>2, ChannelFacts
<1>8. CacheTrue'
  <2>1. \A r \in consumer.results : r.seq \in Nat
    BY <1>2, ChannelFacts
  <2>2. sequence <= sequence' /\ sequence \in Nat /\ sequence' \in Nat /\ consumer.last \in Nat
    BY <1>1, <1>2, ChannelFacts
  <2> QED
    BY <1>2, <1>4, <2>1, <2>2 DEF CacheTrue, Apart
<1>9. RunsRemembered'
  <2>1. \A r \in runs : r.seq \in Nat /\ (r.boot = boot => r.seq <= sequence)
    BY <1>2, ChannelFacts DEF RunInv
  <2>2. \A seq : Remembered(seq)' <=> Remembered(seq)
    BY DEF Remembered, Apart
  <2> QED
    BY <1>2, <1>3, <2>1, <2>2 DEF RunsRemembered, Apart
<1>10. PostTrue'
  <2>1. loop.step = "post" => [seq |-> First(loop.batch).seq, outcome |-> loop.outcome].seq \in Nat
    BY <1>2, ChannelFacts DEF CommandInv, TypeInv
  <2> QED
    BY <1>2, <1>4, <2>1 DEF PostTrue, Apart
<1> QED
  BY <1>5, <1>6, <1>7, <1>8, <1>9, <1>10 DEF AnswerInv

\* A fetch that is handled: a new receiver drops all there was, the same one is offered more.
LEMMA FetchAnswers ==
  ASSUME ChannelInv, NEW call \in calls, Fetch(call)
  PROVE  AnswerInv'
<1>1. /\ AnswersKept /\ OneReceiver /\ ResultsTrue /\ CacheTrue /\ RunsRemembered /\ PostTrue
      /\ CommandInv /\ BatchInv /\ RunInv /\ CallInv
  BY DEF ChannelInv, AnswerInv, CommandInv
<1>2. /\ calls' = calls \ {call} /\ call.type = "fetch" /\ UNCHANGED <<boot, sequence>>
      /\ UNCHANGED <<incarnation, session, consumer, runs, decisions>>
  BY Offering DEF Fetch, history
<1>3. loop \in LoopState /\ call.peer \in Nat /\ call.peer >= 1 /\ peer \in Nat /\ incarnation >= 1
      /\ incarnation \in Nat
  BY <1>1, ChannelFacts
<1>4. \/ /\ UNCHANGED <<peer, pending, offered, answers>>
         /\ call.session # boot
      \/ /\ call.session = boot /\ peer' = call.peer /\ pending' \subseteq pending
         /\ peer \in {0, call.peer}
         /\ answers' = answers /\ offered \subseteq offered'
         /\ offered' \subseteq offered \union Seqs(pending')
         /\ pending' = pending
      \/ /\ call.session = boot /\ peer' = call.peer /\ pending' = {}
         /\ answers' = <<>> /\ offered' = {}
  <2>1. CASE call.session # boot
    BY <2>1 DEF Fetch, queue
  <2>2. CASE call.session = boot /\ NewReceiver(call)
    <3>1. Offers({}) = {} /\ Seqs({}) = {}
      BY Selections DEF Offers, Seqs
    <3> QED
      BY <2>2, <3>1 DEF Fetch
  <2>3. CASE call.session = boot /\ ~NewReceiver(call)
    <3>1. Seqs(Offers(pending)) \subseteq Seqs(pending)
      BY Selections DEF Offers, Seqs
    <3>2. peer \in {0, call.peer}
      BY <2>3 DEF NewReceiver
    <3> QED
      BY <2>3, <3>1, <3>2 DEF Fetch
  <2> QED
    BY <2>1, <2>2, <2>3
<1>5. /\ \A seq : Open(seq)' => Open(seq)
      /\ pending' \subseteq pending
      /\ peer' = peer \/ (peer = 0 /\ offered = {}) \/ (pending' = {} /\ offered' = {})
  BY <1>1, <1>4 DEF Open, Seqs, AnswersKept
<1>6. peer = 0 => Len(answers) = 0
  <2>1. answers \in Seq(Answer)
    BY <1>1, ChannelFacts
  <2>2. peer = 0 => ~(1 \in 1 .. Len(answers))
    BY <1>1 DEF AnswersKept
  <2> QED
    BY <2>1, <2>2, LenProperties
<1>7. AnswersKept'
  <2>1. CASE UNCHANGED <<peer, offered, answers>>
    BY <1>1, <1>2, <2>1 DEF AnswersKept
  <2>2. CASE answers' = <<>> /\ offered' = {}
    <3>1. Len(<<>>) = 0
      OBVIOUS
    <3> QED
      BY <2>2, <3>1 DEF AnswersKept
  <2>3. CASE /\ peer' = call.peer /\ peer \in {0, call.peer} /\ answers' = answers
             /\ offered \subseteq offered'
    <3>1. peer' # 0
      BY <1>3, <2>3
    <3>2. peer' = incarnation' => peer = incarnation \/ Len(answers) = 0
      BY <1>2, <1>6, <2>3
    <3>3. Len(answers) = 0 => ~\E i : i \in 1 .. Len(answers)
      OBVIOUS
    <3> QED
      BY <1>1, <1>2, <2>3, <3>1, <3>2, <3>3 DEF AnswersKept
  <2> QED
    BY <1>4, <2>1, <2>2, <2>3
<1>8. /\ \/ loop' = loop
         \/ loop'.batch = {} /\ loop'.step = "fetched" /\ loop.step = "fetch" /\ loop'.data = loop.data
         \/ /\ loop'.batch \subseteq pending' /\ loop'.step = "fetched" /\ loop.step = "fetch"
            /\ loop'.data = loop.data /\ peer' = incarnation /\ call.session = boot /\ loop.data = boot
  <2>1. call.awaited => call.peer = incarnation /\ call.session = loop.data /\ loop.step = "fetch"
    BY <1>1, <1>2 DEF CallInv
  <2>2. call.session = boot => peer' = call.peer
    BY Offering
  <2>3. \/ loop' = loop /\ ~call.awaited
        \/ /\ call.awaited
           /\ \/ loop' = [loop EXCEPT !.step = "fetched", !.batch = {}]
              \/ /\ call.session = boot
                 /\ \E batch : /\ batch \subseteq pending'
                               /\ loop' = [loop EXCEPT !.step = "fetched", !.batch = batch]
    BY Offering
  <2> QED
    BY <1>3, <2>1, <2>2, <2>3 DEF LoopState
<1>9. OneReceiver'
  <2>1. CASE loop' = loop
    <3>1. loop.data = boot /\ loop.batch # {} => peer # 0
      BY <1>1 DEF BatchInv
    <3>2. \A seq : ~Open(seq)' \/ peer' = peer \/ peer = 0
      BY <1>4 DEF Open, Seqs
    <3> QED
      BY <1>1, <1>2, <1>5, <2>1, <3>1, <3>2 DEF OneReceiver
  <2>2. CASE loop'.batch = {} \/ peer' = incarnation
    BY <1>2, <2>2 DEF OneReceiver
  <2> QED
    BY <1>8, <2>1, <2>2
<1>10. ResultsTrue'
  <2> SUFFICES ASSUME NEW other \in calls', other.type = "result"
               PROVE  /\ other.session <= session
                      /\ other.session = boot => other.answer.seq <= sequence
                      /\ other.session = boot /\ Open(other.answer.seq)' =>
                           other.peer = peer' /\ AgreesIn(other.answer, boot, sequence, runs, decisions)
                      /\ other.session = boot /\ other.peer = incarnation =>
                           consumer.session = boot /\ other.answer.seq <= consumer.last
    BY <1>2 DEF ResultsTrue
  <2>1. other \in calls /\ other.peer >= 1 /\ other.peer \in Nat
    BY <1>1, <1>2, ChannelFacts
  <2>2. /\ other.session <= session
        /\ other.session = boot => other.answer.seq <= sequence
        /\ other.session = boot /\ Open(other.answer.seq) =>
             other.peer = peer /\ AgreesIn(other.answer, boot, sequence, runs, decisions)
        /\ other.session = boot /\ other.peer = incarnation =>
             consumer.session = boot /\ other.answer.seq <= consumer.last
    BY <1>1, <2>1 DEF ResultsTrue
  <2>3. \A seq : ~Open(seq)' \/ peer' = peer \/ peer = 0
    BY <1>4 DEF Open, Seqs
  <2> QED
    BY <1>5, <2>1, <2>2, <2>3
<1>11. CacheTrue'
  <2>1. loop'.step = "handle" => loop.step = "handle"
    BY <1>8
  <2> QED
    BY <1>1, <1>2, <2>1 DEF CacheTrue
<1>12. RunsRemembered'
  <2> SUFFICES ASSUME NEW r \in runs, r.boot = boot, Live(r.seq)'
               PROVE  Live(r.seq) /\ (loop'.step = "handle" <=> loop.step = "handle")
    <3>1. (loop'.step = "handle" <=> loop.step = "handle") => \A seq : Remembered(seq) => Remembered(seq)'
      BY <1>2 DEF Remembered
    <3> QED
      BY <1>1, <1>2, <3>1 DEF RunsRemembered
  <2>1. loop'.step = "handle" <=> loop.step = "handle"
    BY <1>8
  <2>2. peer # 0
    BY <1>1 DEF RunInv
  <2>3. ASSUME peer' = incarnation, r.seq \in Seqs(pending')
        PROVE  Live(r.seq)
    <3>1. pending' # {} /\ pending' \subseteq pending
      BY <1>5, <2>3 DEF Seqs
    <3>2. peer' = peer
      BY <1>4, <2>2, <3>1
    <3> QED
      BY <2>3, <3>1, <3>2 DEF Live, Seqs
  <2>4. CASE loop' = loop
    BY <1>2, <2>1, <2>3, <2>4 DEF Live
  <2>5. CASE loop'.batch = {}
    BY <1>2, <2>1, <2>3, <2>5 DEF Live, Seqs
  <2>6. CASE loop'.batch \subseteq pending' /\ peer' = incarnation
    <3>1. r.seq \in Seqs(loop'.batch) => r.seq \in Seqs(pending')
      BY <2>6 DEF Seqs
    <3> QED
      BY <1>2, <2>1, <2>3, <2>6, <3>1 DEF Live
  <2> QED
    BY <1>8, <2>4, <2>5, <2>6
<1>13. PostTrue'
  <2>1. loop'.step \in {"handle", "post"} => loop' = loop
    BY <1>8
  <2> QED
    BY <1>1, <1>2, <2>1 DEF PostTrue
<1> QED
  BY <1>7, <1>9, <1>10, <1>11, <1>12, <1>13 DEF AnswerInv

\* A sequence without its first element, which is not among the rest.
LEMMA TailOfDistinct ==
  ASSUME NEW S, NEW s \in Seq(S), s # <<>>
  PROVE  /\ Len(Tail(s)) = Len(s) - 1 /\ Head(s) = s[1]
         /\ \A i \in 1 .. Len(Tail(s)) : i + 1 \in 1 .. Len(s) /\ Tail(s)[i] = s[i + 1]
<1>1. /\ Tail(s) \in Seq(S) /\ Head(s) = s[1]
      /\ Len(Tail(s)) = Len(s) - 1 /\ \A i \in 1 .. Len(Tail(s)) : Tail(s)[i] = s[i + 1]
  BY HeadTailProperties
<1>2. Len(s) \in Nat
  BY LenProperties
<1> QED
  BY <1>1, <1>2

\* What a result accepted by the add-on leaves of its answers: all of them, or all but the
\* oldest, which is no longer open.
LEMMA AcceptedAnswers ==
  ASSUME CommandInv, AnswersKept, NEW a \in Answer, a.seq \in offered,
         \A i \in 1 .. Len(answers) : answers[i].seq # a.seq,
         answers' = IF Len(Append(answers, a)) > CacheSize THEN Tail(Append(answers, a))
                    ELSE Append(answers, a),
         offered' = offered \ Forgotten(Append(answers, a))
  PROVE  /\ \A i, j \in 1 .. Len(answers') : answers'[i].seq = answers'[j].seq => i = j
         /\ \A i \in 1 .. Len(answers') :
              /\ answers'[i].seq \in offered'
              /\ \/ answers'[i] = a
                 \/ \E j \in 1 .. Len(answers) : answers'[i] = answers[j]
<1> DEFINE all == Append(answers, a)
<1>1. answers \in Seq(Answer) /\ Len(answers) \in Nat
  BY ChannelFacts, LenProperties
<1>2. /\ all \in Seq(Answer) /\ all # <<>> /\ Len(all) = Len(answers) + 1
      /\ \A i \in 1 .. Len(answers) : all[i] = answers[i]
      /\ all[Len(answers) + 1] = a
  BY <1>1, AppendProperties
<1>3. answers' = (IF Len(all) > CacheSize THEN Tail(all) ELSE all)
      /\ offered' = offered \ Forgotten(all)
  OBVIOUS
<1> HIDE DEF all
<1>4. \A i \in 1 .. Len(all) :
        /\ i = Len(answers) + 1 \/ i \in 1 .. Len(answers)
        /\ all[i].seq \in offered
        /\ all[i] = a \/ \E j \in 1 .. Len(answers) : all[i] = answers[j]
  BY <1>1, <1>2 DEF AnswersKept
<1>5. \A i, j \in 1 .. Len(all) : all[i].seq = all[j].seq => i = j
  <2> SUFFICES ASSUME NEW i \in 1 .. Len(all), NEW j \in 1 .. Len(all), all[i].seq = all[j].seq
               PROVE  i = j
    OBVIOUS
  <2>1. CASE i \in 1 .. Len(answers) /\ j \in 1 .. Len(answers)
    BY <1>2, <2>1 DEF AnswersKept
  <2>2. CASE i = Len(answers) + 1 /\ j \in 1 .. Len(answers)
    BY <1>2, <2>2
  <2>3. CASE i \in 1 .. Len(answers) /\ j = Len(answers) + 1
    BY <1>2, <2>3
  <2> QED
    BY <1>4, <2>1, <2>2, <2>3
<1>6. CASE Len(all) > CacheSize
  <2>1. /\ Len(Tail(all)) = Len(all) - 1 /\ Head(all) = all[1]
        /\ \A i \in 1 .. Len(Tail(all)) : i + 1 \in 1 .. Len(all) /\ Tail(all)[i] = all[i + 1]
    BY <1>2, TailOfDistinct
  <2>2. offered' = offered \ {all[1].seq} /\ answers' = Tail(all)
    BY <1>3, <1>6, <2>1 DEF Forgotten
  <2>3. 1 \in 1 .. Len(all)
    BY <1>1, <1>2
  <2>4. \A i \in 1 .. Len(Tail(all)) : i \in Nat /\ i + 1 # 1 /\ all[i + 1].seq # all[1].seq
    BY <1>5, <2>1, <2>3
  <2>5. \A i, j \in 1 .. Len(Tail(all)) : Tail(all)[i].seq = Tail(all)[j].seq => i = j
    <3> SUFFICES ASSUME NEW i \in 1 .. Len(Tail(all)), NEW j \in 1 .. Len(Tail(all)),
                        Tail(all)[i].seq = Tail(all)[j].seq
                 PROVE  i = j
      OBVIOUS
    <3>1. i + 1 \in 1 .. Len(all) /\ j + 1 \in 1 .. Len(all) /\ all[i + 1].seq = all[j + 1].seq
      BY <2>1
    <3>2. i + 1 = j + 1
      BY <1>5, <3>1
    <3> QED
      BY <3>2
  <2>6. \A i \in 1 .. Len(Tail(all)) :
          /\ Tail(all)[i].seq \in offered'
          /\ Tail(all)[i] = a \/ \E j \in 1 .. Len(answers) : Tail(all)[i] = answers[j]
    BY <1>4, <2>1, <2>2, <2>4
  <2> QED
    BY <2>2, <2>5, <2>6
<1>7. CASE ~(Len(all) > CacheSize)
  <2>1. answers' = all /\ offered' = offered
    BY <1>3, <1>7 DEF Forgotten
  <2> QED
    BY <1>4, <1>5, <2>1
<1> QED
  BY <1>6, <1>7

\* A result that arrives is the last receiver's and true, whether it is accepted or not.
LEMMA AcceptAnswers ==
  ASSUME ChannelInv, NEW call \in calls, Accept(call)
  PROVE  AnswerInv'
<1>1. /\ AnswersKept /\ OneReceiver /\ ResultsTrue /\ CacheTrue /\ RunsRemembered /\ PostTrue
      /\ CommandInv /\ CallInv
  BY DEF ChannelInv, AnswerInv, CommandInv
<1>2. /\ calls' = calls \ {call} /\ call.type = "result" /\ UNCHANGED <<boot, peer, sequence>>
      /\ UNCHANGED <<incarnation, session, consumer, runs, decisions>>
  BY DEF Accept, history
<1>3. loop \in LoopState /\ call.answer \in Answer /\ call.answer.seq \in Nat
  BY <1>1, ChannelFacts
<1>4. \/ loop' = loop
      \/ /\ loop'.step = "batch" /\ loop'.batch = loop.batch /\ loop'.data = loop.data
         /\ loop.step = "posting"
  <2>1. call.awaited => loop.step = "posting"
    BY <1>1, <1>2 DEF CallInv
  <2> QED
    BY <1>3, <2>1 DEF Accept, Arrives, LoopState
<1> DEFINE taken == /\ call.session = boot /\ call.answer.seq \in offered
                    /\ \A i \in 1 .. Len(answers) : answers[i].seq # call.answer.seq
<1>5. CASE ~taken
  <2>1. UNCHANGED <<pending, answers, offered>>
    BY <1>5 DEF Accept
  <2>2. \A seq : Open(seq)' <=> Open(seq)
    BY <2>1 DEF Open
  <2>3. AnswersKept' /\ CacheTrue'
    BY <1>1, <1>2, <1>4, <2>1 DEF AnswersKept, CacheTrue
  <2>4. OneReceiver' /\ ResultsTrue'
    BY <1>1, <1>2, <1>4, <2>2 DEF OneReceiver, ResultsTrue
  <2>5. RunsRemembered'
    BY <1>1, <1>2, <1>4, <2>1 DEF RunsRemembered, Live, Remembered
  <2>6. PostTrue'
    <3>1. loop'.step \in {"handle", "post"} => loop' = loop
      BY <1>4
    <3> QED
      BY <1>1, <1>2, <3>1 DEF PostTrue
  <2> QED
    BY <2>3, <2>4, <2>5, <2>6 DEF AnswerInv
<1>6. CASE taken
  <2>1. /\ pending' = {c \in pending : c.seq # call.answer.seq}
        /\ answers' = IF Len(Append(answers, call.answer)) > CacheSize
                      THEN Tail(Append(answers, call.answer)) ELSE Append(answers, call.answer)
        /\ offered' = offered \ Forgotten(Append(answers, call.answer))
    BY <1>6 DEF Accept
  <2>2. /\ \A i, j \in 1 .. Len(answers') : answers'[i].seq = answers'[j].seq => i = j
        /\ \A i \in 1 .. Len(answers') :
             /\ answers'[i].seq \in offered'
             /\ \/ answers'[i] = call.answer
                \/ \E j \in 1 .. Len(answers) : answers'[i] = answers[j]
    BY <1>1, <1>3, <1>6, <2>1, AcceptedAnswers
  <2>3. /\ call.peer = peer /\ AgreesIn(call.answer, boot, sequence, runs, decisions)
        /\ call.peer = incarnation => consumer.session = boot /\ call.answer.seq <= consumer.last
    BY <1>1, <1>2, <1>6 DEF ResultsTrue, Open
  <2>4. pending' \subseteq pending /\ offered' \subseteq offered
    BY <2>1
  <2>5. \A seq : Open(seq)' => Open(seq)
    BY <2>4 DEF Open, Seqs
  <2>6. AnswersKept'
    <3>1. peer = 0 => offered' = {}
      BY <1>1, <2>4 DEF AnswersKept
    <3>2. \A i \in 1 .. Len(answers') : AgreesIn(answers'[i], boot, sequence, runs, decisions)
      BY <1>1, <2>2, <2>3 DEF AnswersKept
    <3>3. peer = incarnation => \A i \in 1 .. Len(answers') :
                                  consumer.session = boot /\ answers'[i].seq <= consumer.last
      BY <1>1, <2>2, <2>3 DEF AnswersKept
    <3> QED
      BY <1>2, <2>2, <3>1, <3>2, <3>3 DEF AnswersKept
  <2>7. OneReceiver' /\ ResultsTrue'
    BY <1>1, <1>2, <1>4, <2>5 DEF OneReceiver, ResultsTrue
  <2>8. CacheTrue'
    BY <1>1, <1>2, <1>4 DEF CacheTrue
  <2>9. RunsRemembered'
    <3>1. \A seq : Live(seq)' => Live(seq)
      BY <1>2, <1>4, <2>4 DEF Live, Seqs
    <3>2. \A seq : Remembered(seq) => Remembered(seq)'
      BY <1>2, <1>4 DEF Remembered
    <3> QED
      BY <1>1, <1>2, <3>1, <3>2 DEF RunsRemembered
  <2>10. PostTrue'
    <3>1. loop'.step \in {"handle", "post"} => loop' = loop
      BY <1>4
    <3> QED
      BY <1>1, <1>2, <3>1 DEF PostTrue
  <2> QED
    BY <2>6, <2>7, <2>8, <2>9, <2>10 DEF AnswerInv
<1> QED
  BY <1>5, <1>6

\* A call that is given up may still arrive: nothing is known less.
LEMMA TimeoutAnswers ==
  ASSUME ChannelInv, NEW call \in calls, Timeout(call)
  PROVE  AnswerInv'
<1>1. /\ AnswersKept /\ OneReceiver /\ ResultsTrue /\ CacheTrue /\ RunsRemembered /\ PostTrue
      /\ CommandInv /\ CallInv /\ TypeInv
  BY DEF ChannelInv, AnswerInv, CommandInv
<1> DEFINE late == [call EXCEPT !.awaited = FALSE]
<1>2. /\ calls' = (calls \ {call}) \union {late} /\ call.awaited
      /\ UNCHANGED <<boot, peer, sequence, pending, offered, answers>>
      /\ UNCHANGED <<incarnation, session, consumer, runs, decisions>>
  BY DEF Timeout, queue, history
<1>3. /\ late.type = call.type /\ late.session = call.session /\ late.peer = call.peer
      /\ late.answer = call.answer
  BY <1>1 DEF TypeInv, TypeOK, Call
<1>4. /\ loop'.step = "batch" /\ loop'.batch = loop.batch /\ loop'.data = loop.data
      /\ loop.step \in {"fetch", "posting"}
  <2>1. loop.step \in {"fetch", "posting"} /\ loop \in LoopState
    BY <1>1, <1>2, ChannelFacts DEF CallInv
  <2> QED
    BY <1>2, <2>1 DEF Timeout, Arrives, LoopState
<1> HIDE DEF late
<1>5. \A seq : Open(seq)' <=> Open(seq)
  BY <1>2 DEF Open
<1>6. AnswersKept' /\ CacheTrue' /\ OneReceiver'
  BY <1>1, <1>2, <1>4, <1>5 DEF AnswersKept, CacheTrue, OneReceiver
<1>7. ResultsTrue'
  BY <1>1, <1>2, <1>3, <1>5 DEF ResultsTrue
<1>8. RunsRemembered' /\ PostTrue'
  BY <1>1, <1>2, <1>4 DEF RunsRemembered, Live, Remembered, PostTrue
<1> QED
  BY <1>6, <1>7, <1>8 DEF AnswerInv

\* The cache after a result of the newest command: it is in, and an older one is out only
\* when CacheSize newer ones are known.
LEMMA CacheNewestKeeps ==
  ASSUME CommandInv, IsFiniteSet(consumer.results), NEW seq \in Nat, NEW outcome \in Outcomes,
         \A r, q \in consumer.results : r.seq = q.seq => r = q,
         \A r \in consumer.results : r.seq < seq
  PROVE  LET new  == [seq |-> seq, outcome |-> outcome]
             kept == CacheNewest(consumer.results \union {new})
         IN  /\ kept \subseteq consumer.results \union {new} /\ IsFiniteSet(kept)
             /\ new \in kept
             /\ \A r, q \in kept : r.seq = q.seq => r = q
             /\ \A r \in consumer.results : r \in kept \/ r.seq + CacheSize <= seq
<1> DEFINE new      == [seq |-> seq, outcome |-> outcome]
           S        == consumer.results \union {new}
           Newer(r) == {b \in S : b.seq > r.seq}
<1>1. /\ consumer.results \subseteq Answer /\ CacheSize \in Nat /\ CacheSize > 0
      /\ \A a \in Answer : a.seq \in Nat
  BY ChannelFacts
<1>2. new.seq = seq /\ IsFiniteSet(S)
  BY FS_AddElement
<1>3. /\ \A b \in S : b.seq \in Nat /\ b.seq <= seq
      /\ \A r, q \in S : r.seq = q.seq => r = q
      /\ new \in S
  BY <1>1, <1>2
<1>4. CacheNewest(S) = {r \in S : Cardinality(Newer(r)) < CacheSize}
  BY DEF CacheNewest
<1> HIDE DEF new
<1>5. new \in CacheNewest(S)
  <2>1. Newer(new) = {}
    BY <1>2, <1>3
  <2>2. Cardinality(Newer(new)) = 0
    BY <2>1, FS_EmptySet
  <2> QED
    BY <1>1, <1>3, <1>4, <2>2
<1>6. ASSUME NEW r \in consumer.results, r \notin CacheNewest(S)
      PROVE  r.seq + CacheSize <= seq
  <2> DEFINE T == Newer(r)
             I == (r.seq + 1) .. seq
             f == [b \in T |-> b.seq]
  <2>1. r.seq \in Nat /\ r \in S /\ r.seq < seq
    BY <1>1
  <2>2. IsFiniteSet(T)
    BY <1>2, FS_Subset
  <2>3. Cardinality(T) \in Nat /\ ~(Cardinality(T) < CacheSize)
    BY <1>4, <1>6, <2>1, <2>2, FS_CardinalityType
  <2>4. f \in Injection(T, I)
    <3>1. \A b \in T : b.seq \in I
      BY <1>3, <2>1
    <3>2. \A a, b \in T : f[a] = f[b] => a = b
      BY <1>3
    <3>3. f \in [T -> I]
      BY <3>1
    <3> QED
      BY <3>2, <3>3 DEF Injection, IsInjective
  <2>5. IsFiniteSet(I) /\ Cardinality(I) = seq - r.seq
    <3>1. r.seq + 1 \in Int /\ seq \in Int /\ ~(r.seq + 1 > seq)
      BY <2>1
    <3> HIDE DEF T, f
    <3>2. IsFiniteSet(I) /\ Cardinality(I) = IF r.seq + 1 > seq THEN 0 ELSE seq - (r.seq + 1) + 1
      BY <3>1, FS_Interval
    <3> QED
      BY <2>1, <3>1, <3>2
  <2> HIDE DEF T, I, f
  <2>6. Cardinality(T) <= Cardinality(I)
    BY <2>4, <2>5, FS_Injection
  <2> QED
    BY <1>1, <2>1, <2>3, <2>5, <2>6
<1>7. CacheNewest(S) \subseteq S /\ IsFiniteSet(CacheNewest(S))
  BY <1>2, FS_Subset, Selections
<1>8. \A r, q \in CacheNewest(S) : r.seq = q.seq => r = q
  BY <1>3, <1>7
<1> HIDE DEF S
<1>9. \A r \in consumer.results : r \in CacheNewest(S) \/ r.seq + CacheSize <= seq
  BY <1>6
<1> QED
  BY <1>5, <1>7, <1>8, <1>9 DEF S, new

\* Consume: a cached result again, a refusal of what is behind, a stale epoch, or a run.
LEMMA ConsumeAnswers ==
  ASSUME ChannelInv, Consume
  PROVE  AnswerInv'
<1> DEFINE c == First(loop.batch)
<1>1. /\ AnswersKept /\ OneReceiver /\ ResultsTrue /\ CacheTrue /\ RunsRemembered /\ PostTrue
      /\ CommandInv /\ BatchInv /\ RunInv
  BY DEF ChannelInv, AnswerInv, CommandInv
<1>2. /\ UNCHANGED <<boot, peer, sequence, pending, offered, answers>>
      /\ UNCHANGED <<incarnation, session, calls, decisions>>
      /\ loop.batch # {} /\ loop.data = session /\ loop.step \in {"fetched", "batch"}
  BY DEF Consume, queue
<1>3. /\ loop \in LoopState /\ consumer \in ConsumerState /\ c \in loop.batch /\ c.seq \in Nat
      /\ consumer.last \in Nat /\ boot \in Nat /\ sequence \in Nat /\ loop.data \in Nat
      /\ CacheSize \in Nat /\ consumer.session = loop.data
      /\ \A r \in consumer.results : r.seq \in Nat
      /\ \A r \in runs : r.boot \in Nat /\ r.seq \in Nat
  BY <1>1, <1>2, ChannelFacts DEF BatchInv
<1>4. loop.data = boot => c.seq <= sequence
  BY <1>1, <1>3 DEF BatchInv
<1>5. \A seq : Open(seq)' <=> Open(seq)
  BY <1>2 DEF Open
<1>6. c.seq \in Seqs(loop.batch)
  BY <1>3 DEF Seqs
<1>7. ASSUME NEW outcome, consumer' = consumer, runs' = runs,
             loop' = [loop EXCEPT !.step = "post", !.outcome = outcome],
             c.seq <= consumer.last,
             loop.data = boot => AgreesIn([seq |-> c.seq, outcome |-> outcome],
                                          boot, sequence, runs, decisions)
      PROVE  AnswerInv'
  <2>1. /\ loop'.step = "post" /\ loop'.outcome = outcome /\ loop'.data = loop.data
        /\ loop'.batch = loop.batch
    BY <1>3, <1>7 DEF LoopState
  <2>2. AnswersKept' /\ OneReceiver' /\ ResultsTrue' /\ CacheTrue'
    BY <1>1, <1>2, <1>5, <1>7, <2>1 DEF AnswersKept, OneReceiver, ResultsTrue, CacheTrue
  <2>3. RunsRemembered'
    BY <1>1, <1>2, <1>7, <2>1 DEF RunsRemembered, Live, Remembered
  <2>4. PostTrue'
    BY <1>2, <1>7, <2>1 DEF PostTrue
  <2> QED
    BY <2>2, <2>3, <2>4 DEF AnswerInv
<1>8. CASE Known(c) # {}
  <2> DEFINE k == CHOOSE a \in Known(c) : TRUE
  <2>1. k \in consumer.results /\ k.seq = c.seq
    BY <1>8 DEF Known
  <2>2. /\ consumer' = consumer /\ runs' = runs
        /\ loop' = [loop EXCEPT !.step = "post", !.outcome = k.outcome]
    BY <1>8 DEF Consume
  <2> HIDE DEF k
  <2>3. c.seq <= consumer.last
    BY <1>1, <2>1 DEF CacheTrue
  <2>4. consumer.session = boot => AgreesIn(k, boot, sequence, runs, decisions)
    BY <1>1, <2>1 DEF CacheTrue
  <2>5. loop.data = boot => AgreesIn([seq |-> c.seq, outcome |-> k.outcome],
                                     boot, sequence, runs, decisions)
    BY <1>3, <2>1, <2>4 DEF AgreesIn
  <2> QED
    BY <1>7, <2>2, <2>3, <2>5
<1>9. CASE Known(c) = {} /\ c.seq <= consumer.last
  <2>1. /\ consumer' = consumer /\ runs' = runs
        /\ loop' = [loop EXCEPT !.step = "post", !.outcome = "refused"]
    BY <1>9 DEF Consume
  <2>2. c.seq \notin Seqs(consumer.results)
    BY <1>9 DEF Known, Seqs
  <2>3. ASSUME loop.data = boot, [boot |-> boot, seq |-> c.seq] \in runs
        PROVE  c.seq + CacheSize <= sequence
    <3>1. Live(c.seq)
      BY <1>6, <2>3 DEF Live
    <3>2. Remembered(c.seq)
      BY <1>1, <2>3, <3>1 DEF RunsRemembered
    <3>3. c.seq + CacheSize <= consumer.last
      BY <1>2, <2>2, <3>2 DEF Remembered
    <3>4. consumer.last <= sequence
      BY <1>1, <1>3, <2>3 DEF CacheTrue
    <3> QED
      BY <1>3, <3>3, <3>4
  <2>4. loop.data = boot => AgreesIn([seq |-> c.seq, outcome |-> "refused"],
                                     boot, sequence, runs, decisions)
    BY <2>3 DEF AgreesIn
  <2> QED
    BY <1>7, <1>9, <2>1, <2>4
<1>10. ASSUME ~(c.seq <= consumer.last)
       PROVE  [boot |-> loop.data, seq |-> c.seq] \notin runs
  BY <1>1, <1>3, <1>10 DEF RunInv
<1>11. CASE Known(c) = {} /\ ~(c.seq <= consumer.last) /\ c.epoch # epoch
  <2> DEFINE new  == [seq |-> c.seq, outcome |-> "stale"]
             kept == CacheNewest(consumer.results \union {new})
  <2>1. /\ consumer' = Cached(consumer, c.seq, "stale") /\ runs' = runs
        /\ loop' = [loop EXCEPT !.step = "post", !.outcome = "stale"]
    BY <1>11 DEF Consume
  <2>2. /\ consumer'.session = consumer.session /\ consumer'.last = c.seq
        /\ consumer'.results = kept
    BY <1>3, <2>1 DEF Cached, ConsumerState
  <2>3. /\ loop'.step = "post" /\ loop'.outcome = "stale" /\ loop'.data = loop.data
        /\ loop'.batch = loop.batch
    BY <1>3, <2>1 DEF LoopState
  <2>4. c.seq > consumer.last
    BY <1>3, <1>11
  <2>5. /\ \A r \in consumer.results : r.seq < c.seq
        /\ IsFiniteSet(consumer.results)
        /\ \A r, q \in consumer.results : r.seq = q.seq => r = q
    BY <1>1, <1>3, <2>4 DEF CacheTrue
  <2>6. "stale" \in Outcomes
    BY DEF Outcomes
  <2>7. /\ kept \subseteq consumer.results \union {new} /\ IsFiniteSet(kept)
        /\ new \in kept
        /\ \A r, q \in kept : r.seq = q.seq => r = q
        /\ \A r \in consumer.results : r \in kept \/ r.seq + CacheSize <= c.seq
    BY <1>1, <1>3, <2>5, <2>6, CacheNewestKeeps
  <2>8. /\ new.seq = c.seq
        /\ loop.data = boot => AgreesIn(new, boot, sequence, runs, decisions)
    BY <1>10, <1>11 DEF AgreesIn
  <2> HIDE DEF new, kept
  <2>9. AnswersKept'
    <3>1. \A i \in 1 .. Len(answers) : answers[i].seq \in Nat
      BY <1>1, ChannelFacts
    <3>2. \A n \in Nat : n <= consumer.last => n <= consumer'.last
      BY <1>3, <2>2, <2>4
    <3> QED
      BY <1>1, <1>2, <2>1, <2>2, <3>1, <3>2 DEF AnswersKept
  <2>10. OneReceiver'
    BY <1>1, <1>2, <1>5, <2>3 DEF OneReceiver
  <2>11. ResultsTrue'
    <3>1. \A call \in calls : call.answer.seq \in Nat
      BY <1>1, ChannelFacts
    <3>2. \A n \in Nat : n <= consumer.last => n <= consumer'.last
      BY <1>3, <2>2, <2>4
    <3> QED
      BY <1>1, <1>2, <1>5, <2>1, <2>2, <3>1, <3>2 DEF ResultsTrue
  <2>12. CacheTrue'
    <3>1. \A r \in kept : r.seq <= c.seq
      BY <1>3, <2>5, <2>7, <2>8
    <3>2. consumer.session = boot => \A r \in kept : AgreesIn(r, boot, sequence, runs, decisions)
      BY <1>1, <1>3, <2>7, <2>8 DEF CacheTrue
    <3>3. consumer.session <= session
      BY <1>1 DEF CacheTrue
    <3> QED
      BY <1>2, <1>3, <1>4, <2>1, <2>2, <2>3, <2>7, <3>1, <3>2, <3>3 DEF CacheTrue
  <2>13. RunsRemembered'
    <3> SUFFICES ASSUME NEW r \in runs, r.boot = boot, Live(r.seq)
                 PROVE  consumer'.session = boot /\ r.seq <= consumer'.last /\ Remembered(r.seq)'
      BY <1>2, <2>1, <2>3 DEF RunsRemembered, Live
    <3>1. consumer.session = boot /\ r.seq <= consumer.last /\ Remembered(r.seq) /\ r.seq \in Nat
      BY <1>1, <1>3 DEF RunsRemembered
    <3>2. ASSUME r.seq \in Seqs(consumer.results) PROVE Remembered(r.seq)'
      <4>1. PICK q \in consumer.results : q.seq = r.seq
        BY <3>2 DEF Seqs
      <4>2. q \in kept \/ r.seq + CacheSize <= c.seq
        BY <2>7, <4>1
      <4> QED
        BY <2>2, <4>1, <4>2 DEF Remembered, Seqs
    <3>3. ASSUME r.seq + CacheSize <= consumer.last PROVE Remembered(r.seq)'
      BY <1>3, <2>2, <2>4, <3>1, <3>3 DEF Remembered
    <3>4. Remembered(r.seq)'
      BY <1>2, <3>1, <3>2, <3>3 DEF Remembered
    <3> QED
      BY <1>3, <2>2, <2>4, <3>1, <3>4
  <2>14. PostTrue'
    <3>1. loop'.step = "post" /\ c.seq <= consumer'.last
      BY <1>3, <2>2, <2>3
    <3> QED
      BY <1>2, <2>1, <2>3, <2>8, <3>1 DEF PostTrue, new
  <2> QED
    BY <2>9, <2>10, <2>11, <2>12, <2>13, <2>14 DEF AnswerInv
<1>12. CASE Known(c) = {} /\ ~(c.seq <= consumer.last) /\ c.epoch = epoch
  <2> DEFINE Started == [boot |-> loop.data, seq |-> c.seq]
  <2>1. /\ consumer' = [consumer EXCEPT !.last = c.seq] /\ runs' = runs \union {Started}
        /\ loop' = [loop EXCEPT !.step = "handle"]
    BY <1>12 DEF Consume
  <2>2. /\ consumer'.session = consumer.session /\ consumer'.last = c.seq
        /\ consumer'.results = consumer.results
    BY <1>3, <2>1 DEF ConsumerState
  <2>3. loop'.step = "handle" /\ loop'.data = loop.data /\ loop'.batch = loop.batch
    BY <1>3, <2>1 DEF LoopState
  <2>4. c.seq > consumer.last
    BY <1>3, <1>12
  <2>5. ASSUME NEW a, a.seq \in Nat, a.seq # c.seq \/ loop.data # boot,
               AgreesIn(a, boot, sequence, runs, decisions)
        PROVE  AgreesIn(a, boot, sequence, runs', decisions)
    BY <2>1, <2>5 DEF AgreesIn
  <2>6. AnswersKept'
    <3>1. ASSUME NEW i \in 1 .. Len(answers)
          PROVE  AgreesIn(answers[i], boot, sequence, runs', decisions)
      <4>1. /\ answers[i].seq \in offered /\ answers[i].seq \in Nat
            /\ AgreesIn(answers[i], boot, sequence, runs, decisions)
        BY <1>1, ChannelFacts DEF AnswersKept
      <4>2. ASSUME answers[i].seq = c.seq, loop.data = boot
            PROVE  FALSE
        <5>1. peer = incarnation
          BY <1>1, <1>3, <4>1, <4>2 DEF OneReceiver, Open
        <5>2. answers[i].seq <= consumer.last
          BY <1>1, <5>1 DEF AnswersKept
        <5> QED
          BY <1>12, <4>2, <5>2
      <4> QED
        BY <2>5, <4>1, <4>2
    <3>2. \A i \in 1 .. Len(answers) : answers[i].seq \in Nat
      BY <1>1, ChannelFacts
    <3>3. \A n \in Nat : n <= consumer.last => n <= consumer'.last
      BY <1>3, <2>2, <2>4
    <3> QED
      BY <1>1, <1>2, <2>2, <3>1, <3>2, <3>3 DEF AnswersKept
  <2>7. OneReceiver'
    BY <1>1, <1>2, <1>5, <2>3 DEF OneReceiver
  <2>8. ResultsTrue'
    <3> SUFFICES ASSUME NEW call \in calls, call.type = "result"
                 PROVE  /\ call.session <= session
                        /\ call.session = boot => call.answer.seq <= sequence
                        /\ call.session = boot /\ Open(call.answer.seq) =>
                             call.peer = peer /\ AgreesIn(call.answer, boot, sequence, runs', decisions)
                        /\ call.session = boot /\ call.peer = incarnation =>
                             consumer'.session = boot /\ call.answer.seq <= consumer'.last
      BY <1>2, <1>5 DEF ResultsTrue
    <3>1. /\ call.session <= session
          /\ call.session = boot => call.answer.seq <= sequence
          /\ call.session = boot /\ Open(call.answer.seq) =>
               call.peer = peer /\ AgreesIn(call.answer, boot, sequence, runs, decisions)
          /\ call.session = boot /\ call.peer = incarnation =>
               consumer.session = boot /\ call.answer.seq <= consumer.last
          /\ call.answer.seq \in Nat
      BY <1>1, ChannelFacts DEF ResultsTrue
    <3>2. ASSUME call.session = boot, Open(call.answer.seq), call.answer.seq = c.seq,
                 loop.data = boot
          PROVE  FALSE
      <4>1. peer = incarnation
        BY <1>1, <1>3, <3>2 DEF OneReceiver
      <4>2. call.answer.seq <= consumer.last
        BY <3>1, <3>2, <4>1
      <4> QED
        BY <1>12, <3>2, <4>2
    <3>3. call.session = boot /\ Open(call.answer.seq)
            => AgreesIn(call.answer, boot, sequence, runs', decisions)
      BY <2>5, <3>1, <3>2
    <3>4. call.answer.seq <= consumer.last => call.answer.seq <= consumer'.last
      BY <1>3, <2>2, <2>4, <3>1
    <3> QED
      BY <2>2, <3>1, <3>3, <3>4
  <2>9. CacheTrue'
    <3>1. \A r \in consumer.results : r.seq <= consumer.last /\ r.seq \in Nat
      BY <1>1, <1>3 DEF CacheTrue
    <3>2. \A r \in consumer.results : r.seq < c.seq
      BY <1>3, <2>4, <3>1
    <3>3. consumer.session = boot =>
            \A r \in consumer.results : AgreesIn(r, boot, sequence, runs', decisions)
      <4>1. \A r \in consumer.results : r.seq # c.seq
        BY <1>3, <3>2
      <4> QED
        BY <1>1, <2>5, <3>1, <4>1 DEF CacheTrue
    <3>4. /\ consumer.session <= session /\ IsFiniteSet(consumer.results)
          /\ \A r, q \in consumer.results : r.seq = q.seq => r = q
      BY <1>1 DEF CacheTrue
    <3>5. \A r \in consumer.results : r.seq <= c.seq
      BY <1>3, <3>2
    <3> QED
      BY <1>2, <1>3, <1>4, <2>2, <2>3, <3>2, <3>3, <3>4, <3>5 DEF CacheTrue
  <2>10. RunsRemembered'
    <3> SUFFICES ASSUME NEW r \in runs', r.boot = boot, Live(r.seq)
                 PROVE  consumer'.session = boot /\ r.seq <= consumer'.last /\ Remembered(r.seq)'
      BY <1>2, <2>3 DEF RunsRemembered, Live
    <3>1. CASE r = Started
      BY <1>3, <2>2, <2>3, <3>1 DEF Remembered
    <3>2. CASE r \in runs
      <4>1. consumer.session = boot /\ r.seq <= consumer.last /\ Remembered(r.seq) /\ r.seq \in Nat
        BY <1>1, <1>3, <3>2 DEF RunsRemembered
      <4>2. Remembered(r.seq)'
        BY <1>2, <1>3, <2>2, <2>4, <4>1 DEF Remembered
      <4> QED
        BY <1>3, <2>2, <2>4, <4>1, <4>2
    <3> QED
      BY <2>1, <3>1, <3>2
  <2>11. PostTrue'
    BY <2>1, <2>3 DEF PostTrue
  <2> QED
    BY <2>6, <2>7, <2>8, <2>9, <2>10, <2>11 DEF AnswerInv
<1> QED
  BY <1>8, <1>9, <1>11, <1>12

\* The handler ends: its decision is cached and will be posted.
LEMMA EndsAnswers ==
  ASSUME ChannelInv, loop.step = "handle", NEW outcome \in Outcomes,
         Ends(First(loop.batch), outcome)
  PROVE  AnswerInv'
<1> DEFINE c    == First(loop.batch)
           new  == [seq |-> c.seq, outcome |-> outcome]
           kept == CacheNewest(consumer.results \union {new})
           Decided == [boot |-> loop.data, seq |-> c.seq, outcome |-> outcome]
<1>1. /\ AnswersKept /\ OneReceiver /\ ResultsTrue /\ CacheTrue /\ RunsRemembered /\ PostTrue
      /\ CommandInv /\ BatchInv /\ RunInv /\ TypeInv
  BY DEF ChannelInv, AnswerInv, CommandInv
<1>2. /\ UNCHANGED <<boot, peer, sequence, pending, offered, answers>>
      /\ UNCHANGED <<incarnation, session, calls, runs>>
      /\ consumer' = Cached(consumer, c.seq, outcome)
      /\ loop' = [loop EXCEPT !.step = "post", !.outcome = outcome]
      /\ decisions' = decisions \union {Decided}
  BY DEF Ends, queue
<1>3. /\ loop \in LoopState /\ consumer \in ConsumerState /\ c \in loop.batch /\ c.seq \in Nat
      /\ consumer.last = c.seq /\ boot \in Nat /\ sequence \in Nat /\ loop.data \in Nat
      /\ CacheSize \in Nat /\ consumer.session = loop.data
      /\ \A r \in runs : r.boot \in Nat /\ r.seq \in Nat
  BY <1>1, ChannelFacts DEF BatchInv, TypeInv
<1>4. /\ consumer'.session = consumer.session /\ consumer'.last = consumer.last
      /\ consumer'.results = kept
  BY <1>2, <1>3 DEF Cached, ConsumerState
<1>5. /\ loop'.step = "post" /\ loop'.outcome = outcome /\ loop'.data = loop.data
      /\ loop'.batch = loop.batch
  BY <1>2, <1>3 DEF LoopState
<1>6. /\ kept \subseteq consumer.results \union {new} /\ IsFiniteSet(kept)
      /\ new \in kept
      /\ \A r, q \in kept : r.seq = q.seq => r = q
      /\ \A r \in consumer.results : r \in kept \/ r.seq + CacheSize <= c.seq
  <2>1. /\ \A r \in consumer.results : r.seq < c.seq
        /\ IsFiniteSet(consumer.results)
        /\ \A r, q \in consumer.results : r.seq = q.seq => r = q
    BY <1>1, <1>3 DEF CacheTrue
  <2> QED
    BY <1>1, <1>3, <2>1, CacheNewestKeeps
<1>7. new.seq = c.seq /\ AgreesIn(new, loop.data, sequence, runs, decisions')
  <2>1. [boot |-> loop.data, seq |-> c.seq] \in runs
    BY <1>1 DEF PostTrue
  <2> QED
    BY <1>2, <2>1 DEF AgreesIn
<1>8. \A a : AgreesIn(a, boot, sequence, runs, decisions) => AgreesIn(a, boot, sequence, runs, decisions')
  BY <1>2 DEF AgreesIn
<1>9. \A seq : Open(seq)' <=> Open(seq)
  BY <1>2 DEF Open
<1> HIDE DEF new, kept
<1>10. AnswersKept'
  BY <1>1, <1>2, <1>4, <1>8 DEF AnswersKept
<1>11. OneReceiver'
  BY <1>1, <1>2, <1>5, <1>9 DEF OneReceiver
<1>12. ResultsTrue'
  BY <1>1, <1>2, <1>4, <1>8, <1>9 DEF ResultsTrue
<1>13. CacheTrue'
  <2>1. \A r \in kept : r.seq <= c.seq
    BY <1>1, <1>3, <1>6, <1>7 DEF CacheTrue
  <2>2. consumer.session = boot => \A r \in kept : AgreesIn(r, boot, sequence, runs, decisions')
    BY <1>1, <1>3, <1>6, <1>7, <1>8 DEF CacheTrue
  <2>3. consumer.session <= session /\ (consumer.session = boot => consumer.last <= sequence)
    BY <1>1 DEF CacheTrue
  <2> QED
    BY <1>2, <1>3, <1>4, <1>5, <1>6, <2>1, <2>2, <2>3 DEF CacheTrue
<1>14. RunsRemembered'
  <2> SUFFICES ASSUME NEW r \in runs, r.boot = boot, Live(r.seq)
               PROVE  consumer'.session = boot /\ r.seq <= consumer'.last /\ Remembered(r.seq)'
    BY <1>2, <1>5 DEF RunsRemembered, Live
  <2>1. consumer.session = boot /\ r.seq <= consumer.last /\ Remembered(r.seq) /\ r.seq \in Nat
    BY <1>1, <1>3 DEF RunsRemembered
  <2>2. ASSUME r.seq \in Seqs(consumer.results) PROVE Remembered(r.seq)'
    <3>1. PICK q \in consumer.results : q.seq = r.seq
      BY <2>2 DEF Seqs
    <3>2. q \in kept \/ r.seq + CacheSize <= c.seq
      BY <1>6, <3>1
    <3> QED
      BY <1>3, <1>4, <3>1, <3>2 DEF Remembered, Seqs
  <2>3. ASSUME r.seq = consumer.last PROVE Remembered(r.seq)'
    <3>1. new \in kept /\ r.seq = new.seq
      BY <1>3, <1>6, <1>7, <2>3
    <3> QED
      BY <1>4, <3>1 DEF Remembered, Seqs
  <2>4. Remembered(r.seq)'
    BY <1>4, <2>1, <2>2, <2>3 DEF Remembered
  <2> QED
    BY <1>4, <2>1, <2>4
<1>15. PostTrue'
  <2>1. c.seq <= consumer'.last
    BY <1>3, <1>4
  <2> QED
    BY <1>2, <1>5, <1>7, <2>1 DEF PostTrue, new
<1> QED
  BY <1>10, <1>11, <1>12, <1>13, <1>14, <1>15 DEF AnswerInv

\* A result is posted: it is true, and of this incarnation.
LEMMA PostAnswers ==
  ASSUME ChannelInv, Post
  PROVE  AnswerInv'
<1> DEFINE c   == First(loop.batch)
           ans == [seq |-> c.seq, outcome |-> loop.outcome]
           new == [type |-> "result", session |-> loop.data, peer |-> incarnation,
                   awaited |-> TRUE, answer |-> ans]
<1>1. /\ AnswersKept /\ OneReceiver /\ ResultsTrue /\ CacheTrue /\ RunsRemembered /\ PostTrue
      /\ CommandInv /\ BatchInv /\ TypeInv
  BY DEF ChannelInv, AnswerInv, CommandInv
<1>2. /\ UNCHANGED <<boot, peer, sequence, pending, offered, answers>>
      /\ UNCHANGED <<incarnation, session, consumer, runs, decisions>>
      /\ loop' = [loop EXCEPT !.step = "posting", !.batch = @ \ {c}]
      /\ calls' = calls \union {new} /\ loop.step = "post" /\ loop.data = session
  BY DEF Post, queue, history
<1>3. /\ loop \in LoopState /\ loop.batch # {} /\ c \in loop.batch /\ c.seq \in Nat
      /\ consumer.session = loop.data /\ loop.data \in Nat /\ boot \in Nat
      /\ consumer.last \in Nat /\ sequence \in Nat
  BY <1>1, <1>2, ChannelFacts DEF BatchInv, TypeInv
<1>4. loop'.step = "posting" /\ loop'.data = loop.data /\ loop'.batch \subseteq loop.batch
  BY <1>2, <1>3 DEF LoopState
<1>5. \A seq : Open(seq)' <=> Open(seq)
  BY <1>2 DEF Open
<1>6. /\ ans.seq = c.seq /\ c.seq <= consumer.last
      /\ loop.data = boot => AgreesIn(ans, boot, sequence, runs, decisions)
  BY <1>1, <1>2 DEF PostTrue
<1>7. new.session = loop.data /\ new.peer = incarnation /\ new.answer = ans
  OBVIOUS
<1> HIDE DEF new, ans
<1>8. AnswersKept' /\ OneReceiver' /\ CacheTrue'
  BY <1>1, <1>2, <1>4, <1>5 DEF AnswersKept, OneReceiver, CacheTrue
<1>9. ResultsTrue'
  <2>1. loop.data = boot => c.seq <= sequence
    BY <1>1, <1>3 DEF BatchInv
  <2>2. loop.data = boot /\ Open(c.seq) => peer = incarnation
    BY <1>1, <1>3 DEF OneReceiver
  <2>3. loop.data <= session
    BY <1>2, <1>3
  <2>4. /\ new.session <= session
        /\ new.session = boot => new.answer.seq <= sequence
        /\ new.session = boot /\ Open(new.answer.seq) =>
             new.peer = peer /\ AgreesIn(new.answer, boot, sequence, runs, decisions)
        /\ new.session = boot /\ new.peer = incarnation =>
             consumer.session = boot /\ new.answer.seq <= consumer.last
    BY <1>3, <1>6, <1>7, <2>1, <2>2, <2>3
  <2> QED
    BY <1>1, <1>2, <1>5, <2>4 DEF ResultsTrue
<1>10. RunsRemembered'
  <2>1. \A seq : Live(seq)' => Live(seq)
    BY <1>2, <1>4 DEF Live, Seqs
  <2>2. \A seq : Remembered(seq) => Remembered(seq)'
    BY <1>2, <1>4 DEF Remembered
  <2> QED
    BY <1>1, <1>2, <2>1, <2>2 DEF RunsRemembered
<1>11. PostTrue'
  BY <1>4 DEF PostTrue
<1> QED
  BY <1>8, <1>9, <1>10, <1>11 DEF AnswerInv

\* The task ends or begins to fetch, with an empty batch; a new session's consumer is new.
LEMMA TaskAnswers ==
  ASSUME ChannelInv, UNCHANGED <<queue, incarnation, session, runs, decisions>>,
         \/ BeginFetch /\ loop.step # "handle"
         \/ loop' = NoLoop /\ UNCHANGED <<consumer, calls>> /\ loop.step # "handle"
  PROVE  AnswerInv'
<1>1. /\ AnswersKept /\ OneReceiver /\ ResultsTrue /\ CacheTrue /\ RunsRemembered
      /\ CommandInv /\ TypeInv /\ RunInv
  BY DEF ChannelInv, AnswerInv, CommandInv
<1>2. /\ UNCHANGED <<boot, peer, sequence, pending, offered, answers>>
      /\ UNCHANGED <<incarnation, session, runs, decisions>>
  BY DEF queue
<1>3. /\ boot \in Nat /\ session \in Nat /\ session <= boot /\ consumer.session \in Nat
      /\ consumer.session <= session /\ sequence \in Nat
  BY <1>1, ChannelFacts DEF CacheTrue
<1>4. loop'.batch = {} /\ loop'.step \in {"idle", "fetch"}
  BY <1>1, FetchBatch DEF NoLoop
<1>5. \/ consumer' = consumer
      \/ /\ consumer.session # boot
         /\ consumer'.session = session /\ consumer'.last = 0 /\ consumer'.results = {}
  <2>1. consumer' = consumer \/ (BeginFetch /\ consumer.session # session)
    BY DEF BeginFetch
  <2>2. BeginFetch /\ consumer.session # session =>
          consumer'.session = session /\ consumer'.last = 0 /\ consumer'.results = {}
    BY DEF BeginFetch, NoConsumer
  <2>3. consumer.session # session => consumer.session # boot
    BY <1>3
  <2> QED
    BY <2>1, <2>2, <2>3
<1>6. \A call \in calls' : call.type = "result" => call \in calls
  BY DEF BeginFetch
<1>7. \A seq : Open(seq)' <=> Open(seq)
  BY <1>2 DEF Open
<1>8. AnswersKept'
  BY <1>1, <1>2, <1>5 DEF AnswersKept
<1>9. OneReceiver' /\ PostTrue'
  BY <1>4 DEF OneReceiver, PostTrue
<1>10. ResultsTrue'
  BY <1>1, <1>2, <1>5, <1>6, <1>7 DEF ResultsTrue
<1>11. CacheTrue'
  <2>1. CASE consumer' = consumer
    BY <1>1, <1>2, <1>4, <2>1 DEF CacheTrue
  <2>2. CASE consumer'.session = session /\ consumer'.last = 0 /\ consumer'.results = {}
    <3>1. IsFiniteSet({}) /\ session <= session /\ 0 <= sequence
      BY <1>3, FS_EmptySet
    <3> QED
      BY <1>2, <2>2, <3>1 DEF CacheTrue
  <2> QED
    BY <1>5, <2>1, <2>2
<1>12. RunsRemembered'
  <2>1. \A seq : Live(seq)' => Live(seq)
    BY <1>2, <1>4 DEF Live, Seqs
  <2>2. consumer' = consumer => \A seq : Remembered(seq) => Remembered(seq)'
    BY DEF Remembered
  <2> QED
    BY <1>1, <1>2, <1>5, <2>1, <2>2 DEF RunsRemembered
<1> QED
  BY <1>8, <1>9, <1>10, <1>11, <1>12 DEF AnswerInv

\* The add-on reboots: all it held of the old boot is gone, and nobody knows the new one.
LEMMA RebootAnswers ==
  ASSUME ChannelInv, Reboot
  PROVE  AnswerInv'
<1>1. /\ AnswersKept /\ OneReceiver /\ ResultsTrue /\ CacheTrue /\ RunsRemembered /\ PostTrue
      /\ CommandInv
  BY DEF ChannelInv, AnswerInv, CommandInv
<1>2. /\ boot' = boot + 1 /\ peer' = 0 /\ sequence' = 0 /\ pending' = {} /\ offered' = {}
      /\ answers' = <<>> /\ calls' \subseteq calls
      /\ UNCHANGED <<incarnation, session, consumer, loop, runs, decisions>>
  BY DEF Reboot, integration, history
<1>3. /\ boot \in Nat /\ session \in Nat /\ session <= boot /\ loop.data \in Nat
      /\ loop.data <= session /\ consumer.session \in Nat /\ consumer.session <= session
      /\ \A call \in calls : call.session \in Nat
      /\ \A call \in calls : call.type = "result" => call.session <= session
      /\ incarnation >= 1 /\ incarnation \in Nat
  BY <1>1, ChannelFacts DEF CacheTrue, ResultsTrue
<1>4. /\ loop.data # boot' /\ consumer.session # boot'
      /\ \A call \in calls : call.type = "result" => call.session # boot'
  BY <1>2, <1>3
<1>5. Len(<<>>) = 0
  OBVIOUS
<1>6. AnswersKept'
  BY <1>2, <1>5 DEF AnswersKept
<1>7. OneReceiver'
  BY <1>2, <1>4 DEF OneReceiver
<1>8. ResultsTrue'
  BY <1>1, <1>2, <1>4 DEF ResultsTrue
<1>9. CacheTrue'
  BY <1>1, <1>2, <1>4 DEF CacheTrue
<1>10. RunsRemembered'
  BY <1>2, <1>4 DEF RunsRemembered, Live, Seqs
<1>11. PostTrue'
  BY <1>1, <1>2, <1>4 DEF PostTrue
<1> QED
  BY <1>6, <1>7, <1>8, <1>9, <1>10, <1>11 DEF AnswerInv

\* The entry reloads: the new incarnation has received nothing.
LEMMA ReloadAnswers ==
  ASSUME ChannelInv, Reload
  PROVE  AnswerInv'
<1>1. /\ AnswersKept /\ OneReceiver /\ ResultsTrue /\ CacheTrue /\ RunsRemembered /\ PostTrue
      /\ CommandInv /\ TypeInv /\ RunInv
  BY DEF ChannelInv, AnswerInv, CommandInv
<1>2. /\ incarnation' = incarnation + 1 /\ consumer' = NoConsumer /\ loop' = NoLoop
      /\ calls' = {[call EXCEPT !.awaited = FALSE] : call \in calls}
      /\ UNCHANGED <<boot, peer, sequence, pending, offered, answers, session, runs, decisions>>
  BY DEF Reload, queue, history
<1>3. /\ incarnation \in Nat /\ peer \in Nat /\ peer <= incarnation /\ boot \in Nat
      /\ session \in Nat /\ sequence \in Nat
      /\ \A call \in calls : call.peer \in Nat /\ call.peer <= incarnation
  BY <1>1, ChannelFacts
<1>4. \A call \in calls' : \E old \in calls :
        /\ call.type = old.type /\ call.session = old.session /\ call.peer = old.peer
        /\ call.answer = old.answer
  BY <1>1, <1>2 DEF TypeInv, TypeOK, Call
<1>5. peer # incarnation' /\ \A call \in calls' : call.peer # incarnation'
  BY <1>2, <1>3, <1>4
<1>6. \A seq : Open(seq)' <=> Open(seq)
  BY <1>2 DEF Open
<1>7. loop'.batch = {} /\ loop'.step = "idle" /\ consumer'.session = 0 /\ consumer'.last = 0
      /\ consumer'.results = {}
  BY <1>2 DEF NoLoop, NoConsumer
<1>8. AnswersKept'
  BY <1>1, <1>2, <1>5 DEF AnswersKept
<1>9. OneReceiver' /\ PostTrue'
  BY <1>7 DEF OneReceiver, PostTrue
<1>10. ResultsTrue'
  <2> SUFFICES ASSUME NEW call \in calls', call.type = "result"
               PROVE  /\ call.session <= session
                      /\ call.session = boot => call.answer.seq <= sequence
                      /\ call.session = boot /\ Open(call.answer.seq) =>
                           call.peer = peer /\ AgreesIn(call.answer, boot, sequence, runs, decisions)
                      /\ call.peer # incarnation'
    BY <1>2, <1>6 DEF ResultsTrue
  <2>1. PICK old \in calls : /\ call.type = old.type /\ call.session = old.session
                             /\ call.peer = old.peer /\ call.answer = old.answer
    BY <1>4
  <2> QED
    BY <1>1, <1>5, <2>1 DEF ResultsTrue
<1>11. CacheTrue'
  <2>1. IsFiniteSet({}) /\ 0 <= session /\ 0 <= sequence
    BY <1>3, FS_EmptySet
  <2> QED
    BY <1>2, <1>7, <2>1 DEF CacheTrue
<1>12. RunsRemembered'
  BY <1>2, <1>5, <1>7 DEF RunsRemembered, Live, Seqs
<1> QED
  BY <1>8, <1>9, <1>10, <1>11, <1>12 DEF AnswerInv

\* Discovery announces the new boot, which nobody holds anything of.
LEMMA RediscoverAnswers ==
  ASSUME ChannelInv, Rediscover
  PROVE  AnswerInv'
<1>1. /\ AnswersKept /\ OneReceiver /\ ResultsTrue /\ CacheTrue /\ RunsRemembered /\ PostTrue
      /\ CommandInv
  BY DEF ChannelInv, AnswerInv, CommandInv
<1>2. /\ session' = boot
      /\ UNCHANGED <<boot, peer, sequence, pending, offered, answers, runs, decisions>>
      /\ UNCHANGED <<incarnation, consumer, loop, calls>>
  BY DEF Rediscover, queue, history
<1>3. /\ boot \in Nat /\ session \in Nat /\ session <= boot /\ consumer.session \in Nat
      /\ \A call \in calls : call.session \in Nat
  BY <1>1, ChannelFacts
<1>4. \A seq : Open(seq)' <=> Open(seq)
  BY <1>2 DEF Open
<1>5. AnswersKept' /\ OneReceiver' /\ PostTrue'
  BY <1>1, <1>2, <1>4 DEF AnswersKept, OneReceiver, PostTrue
<1>6. ResultsTrue'
  BY <1>1, <1>2, <1>3, <1>4 DEF ResultsTrue
<1>7. CacheTrue'
  BY <1>1, <1>2, <1>3 DEF CacheTrue
<1>8. RunsRemembered'
  BY <1>1, <1>2 DEF RunsRemembered, Live, Remembered
<1> QED
  BY <1>5, <1>6, <1>7, <1>8 DEF AnswerInv

\* The answers of every step are kept true.
LEMMA AnswerStep == ChannelInv /\ [Next]_vars => AnswerInv'
<1> SUFFICES ASSUME ChannelInv, [Next]_vars
             PROVE  AnswerInv'
  OBVIOUS
<1>1. AnswerInv /\ CommandInv
  BY DEF ChannelInv
<1>2. ASSUME UNCHANGED <<queue, consumer, loop, calls, runs, decisions, session, incarnation>>
      PROVE  AnswerInv'
  BY <1>1, <1>2 DEF AnswerInv, AnswersKept, OneReceiver, ResultsTrue, CacheTrue, RunsRemembered,
                    PostTrue, Open, Live, Remembered, queue
<1>3. CASE UNCHANGED vars \/ MoveEpoch \/ Write
  BY <1>2, <1>3 DEF vars, MoveEpoch, Write, queue, integration, history
<1>4. CASE Ask
  <2>1. Enqueue("transition") /\ Apart /\ UNCHANGED <<loop, calls>>
    BY <1>4 DEF Ask, Apart, integration, history
  <2> QED
    BY <2>1, IssueAnswers
<1>5. ASSUME NEW due \in BOOLEAN, NEW soc \in BOOLEAN, Tick(due, soc)
      PROVE  AnswerInv'
  <2>1. /\ UNCHANGED <<boot, peer, offered, answers, runs, decisions, consumer, session, incarnation>>
        /\ UNCHANGED <<loop, calls>>
        /\ Enqueue("apply") \/ UNCHANGED <<sequence, pending>>
    BY <1>5 DEF Tick, integration, history
  <2>2. CASE Enqueue("apply")
    BY <2>1, <2>2, IssueAnswers DEF Apart
  <2>3. CASE UNCHANGED <<sequence, pending>>
    BY <1>2, <2>1, <2>3 DEF queue
  <2> QED
    BY <2>1, <2>2, <2>3
<1>6. ASSUME NEW call \in calls, Fetch(call) \/ Accept(call) \/ Timeout(call)
      PROVE  AnswerInv'
  BY <1>6, FetchAnswers, AcceptAnswers, TimeoutAnswers
<1>7. ASSUME Nudge, UNCHANGED <<queue, incarnation, session, runs, decisions>>
      PROVE  AnswerInv'
  <2>1. \/ loop.step # "idle" /\ UNCHANGED <<consumer, loop, calls>>
        \/ BeginFetch /\ loop.step # "handle"
    BY <1>7 DEF Nudge
  <2>2. CASE loop.step # "idle" /\ UNCHANGED <<consumer, loop, calls>>
    BY <1>2, <1>7, <2>2
  <2>3. CASE BeginFetch /\ loop.step # "handle"
    BY <1>7, <2>3, TaskAnswers
  <2> QED
    BY <2>1, <2>2, <2>3
<1>8. ASSUME NEW answered \in BOOLEAN, Heartbeat(answered)
      PROVE  AnswerInv'
  <2>1. UNCHANGED <<queue, incarnation, session, runs, decisions>>
    BY <1>8 DEF Heartbeat, history
  <2>2. Nudge \/ UNCHANGED <<consumer, loop, calls>>
    BY <1>8 DEF Heartbeat
  <2> QED
    BY <1>2, <1>7, <2>1, <2>2
<1>9. CASE ForgedNudge
  BY <1>7, <1>9 DEF ForgedNudge, history
<1>10. CASE Consume
  BY <1>10, ConsumeAnswers
<1>11. ASSUME NEW outcome \in Outcomes, NEW saved \in BOOLEAN,
             EndApply(outcome) \/ EndTransition(outcome, saved)
       PROVE  AnswerInv'
  <2>1. loop.step = "handle" /\ Ends(First(loop.batch), outcome)
    BY <1>11 DEF EndApply, EndTransition
  <2> QED
    BY <2>1, EndsAnswers
<1>12. CASE Post
  BY <1>12, PostAnswers
<1>13. CASE Abandon
  <2>1. /\ UNCHANGED <<queue, incarnation, session, runs, decisions, consumer, calls>>
        /\ loop' = NoLoop /\ loop.step # "handle"
    BY <1>13 DEF Abandon, history
  <2> QED
    BY <2>1, TaskAnswers
<1>14. CASE EndBatch
  <2>1. /\ UNCHANGED <<queue, incarnation, session, runs, decisions>> /\ loop.step # "handle"
        /\ BeginFetch \/ (loop' = NoLoop /\ UNCHANGED <<consumer, calls>>)
    BY <1>14 DEF EndBatch, history
  <2> QED
    BY <2>1, TaskAnswers
<1>15. CASE Reboot \/ Reload \/ Rediscover
  BY <1>15, RebootAnswers, ReloadAnswers, RediscoverAnswers
<1> QED
  BY <1>3, <1>4, <1>5, <1>6, <1>8, <1>9, <1>10, <1>11, <1>12, <1>13, <1>14, <1>15 DEF Next

\* CommandQueue.accept's promise, for every size and budget: what the add-on keeps of a
\* command is what the integration came to; a command that ran is answered as replayed
\* only when CacheSize newer ones were issued before its result got through.
THEOREM AnswersTrue == Spec => []AnswersAgree
<1>1. Init => ChannelInv
  <2> SUFFICES ASSUME Init
               PROVE  ChannelInv
    OBVIOUS
  <2>1. CommandInv
    BY CommandInit
  <2>2. IsFiniteSet({}) /\ Len(<<>>) = 0
    BY FS_EmptySet
  <2>3. AnswerInv
    BY <2>2 DEF Init, AnswerInv, AnswersKept, OneReceiver, ResultsTrue, CacheTrue, RunsRemembered,
                PostTrue, NoConsumer, NoLoop
  <2> QED
    BY <2>1, <2>3 DEF ChannelInv
<1>2. ChannelInv /\ [Next]_vars => ChannelInv'
  BY AnswerStep, TypeStep, CallStep, OrderStep, BatchStep, RunStep DEF ChannelInv, CommandInv
<1>3. ChannelInv => AnswersAgree
  BY DEF ChannelInv, AnswerInv, AnswersKept, AgreesIn, AnswersAgree, Agrees, Ran, Overtaken
<1> QED
  BY <1>1, <1>2, <1>3, PTL DEF Spec

\* Types: every variable of the channel keeps its type, for all sizes and budgets.
THEOREM TypeCorrect == Spec => []TypeOK
<1>1. CommandInv => TypeOK
  BY DEF CommandInv, TypeInv
<1> QED
  BY <1>1, CommandInvariant, PTL

\* Only CommandConsumer.async_consume brings a command to its handler.
LEMMA HandlerStarts ==
  ASSUME TypeInv, [Next]_vars, loop.step # "handle", loop'.step = "handle"
  PROVE  Consume
<1>1. loop \in LoopState /\ NoLoop.step = "idle"
  BY DEF TypeInv, TypeOK, NoLoop
<1>2. ASSUME BeginFetch \/ Nudge
      PROVE  FALSE
  BY <1>2, FetchBatch DEF Nudge
<1>3. ASSUME NEW call \in calls, Fetch(call)
      PROVE  FALSE
  <2>1. loop' = loop \/ \E batch : loop' = [loop EXCEPT !.step = "fetched", !.batch = batch]
    BY <1>3, Offering
  <2> QED
    BY <1>1, <2>1 DEF LoopState
<1>4. ASSUME NEW call \in calls, Accept(call) \/ Timeout(call)
      PROVE  FALSE
  BY <1>1, <1>4 DEF Accept, Timeout, Arrives, LoopState
<1>5. ASSUME NEW due \in BOOLEAN, NEW soc \in BOOLEAN, Tick(due, soc)
      PROVE  FALSE
  BY <1>5 DEF Tick, integration
<1>6. ASSUME NEW answered \in BOOLEAN, Heartbeat(answered)
      PROVE  FALSE
  BY <1>2, <1>6 DEF Heartbeat
<1>7. ASSUME NEW outcome \in Outcomes, NEW saved \in BOOLEAN,
             EndApply(outcome) \/ EndTransition(outcome, saved)
      PROVE  FALSE
  BY <1>7 DEF EndApply, EndTransition
<1>8. ASSUME UNCHANGED vars \/ Ask \/ Reboot \/ Write \/ MoveEpoch \/ Rediscover
      PROVE  FALSE
  BY <1>8 DEF vars, Ask, Reboot, Write, MoveEpoch, Rediscover, integration
<1>9. ASSUME ForgedNudge \/ Abandon \/ EndBatch \/ Reload
      PROVE  FALSE
  BY <1>1, <1>2, <1>9 DEF ForgedNudge, Abandon, EndBatch, Reload
<1>10. ASSUME Post
       PROVE  FALSE
  BY <1>1, <1>10 DEF Post, LoopState
<1> QED
  BY <1>3, <1>4, <1>5, <1>6, <1>7, <1>8, <1>9, <1>10 DEF Next

\* CommandConsumer's promise, for every size and budget: a handler starts only on a command
\* beyond every one that has run, whatever was lost, late, reloaded or rebooted.
THEOREM NeverRunAgain == Spec => RunsForward
<1>1. CommandInv /\ [Next]_vars =>
        [loop.step # "handle" /\ loop'.step = "handle"
           => \A q \in runs : Before(q, [boot |-> loop'.data, seq |-> First(loop'.batch).seq])]_vars
  <2> SUFFICES ASSUME CommandInv, [Next]_vars, loop.step # "handle", loop'.step = "handle",
                      NEW q \in runs
               PROVE  Before(q, [boot |-> loop'.data, seq |-> First(loop'.batch).seq])
    OBVIOUS
  <2> DEFINE c == First(loop.batch)
  <2>1. TypeInv /\ OrderInv /\ RunInv /\ Consume
    BY HandlerStarts DEF CommandInv
  <2>2. loop \in LoopState /\ c \in loop.batch /\ c.seq \in Nat /\ consumer.last \in Nat
        /\ loop.data \in Nat /\ session \in Nat /\ q.boot \in Nat /\ q.seq \in Nat
    BY <2>1, Fields DEF Consume, TypeInv, TypeOK
  <2>3. /\ loop'.data = loop.data /\ loop'.batch = loop.batch /\ loop.data = session
        /\ ~(c.seq <= consumer.last)
    BY <2>1, <2>2 DEF Consume, LoopState
  <2>4. q.boot <= loop.data /\ (q.boot = loop.data => ~(c.seq <= q.seq))
    BY <2>1, <2>2, <2>3 DEF RunInv
  <2> QED
    BY <2>2, <2>3, <2>4 DEF Before
<1> QED
  BY <1>1, CommandInvariant, PTL DEF Spec, RunsForward

\* A write is always by a command of the latest add-on session the authority knows of:
\* async_new_session's epoch fences off all that came before.
THEOREM RebootFenced == Spec => []RebootFences
<1>1. Init => RebootFences
  BY DEF Init, RebootFences
<1>2. CommandInv /\ RebootFences /\ [Next]_vars => RebootFences'
  <2> SUFFICES ASSUME CommandInv, RebootFences, [Next]_vars
               PROVE  RebootFences'
    OBVIOUS
  <2>1. TypeInv /\ BatchInv
    BY DEF CommandInv
  <2>2. CASE writes' = writes
    BY <2>2 DEF RebootFences
  <2>3. ASSUME loop.step = "handle", First(loop.batch).epoch = epoch, Wrote(First(loop.batch))
        PROVE  RebootFences'
    <3>1. First(loop.batch) \in loop.batch /\ epoch \in Nat /\ loop.data \in Nat /\ addonSession \in Nat
      BY <2>1, <2>3, Fields DEF TypeInv, TypeOK
    <3>2. ~(loop.data < addonSession)
      BY <2>1, <2>3, <3>1 DEF BatchInv
    <3> QED
      BY <2>3, <3>1, <3>2 DEF Wrote, RebootFences
  <2>4. CASE Write
    BY <2>3, <2>4 DEF Write
  <2>5. ASSUME NEW outcome \in Outcomes, NEW saved \in BOOLEAN,
             EndApply(outcome) \/ EndTransition(outcome, saved)
        PROVE  RebootFences'
    BY <2>2, <2>3, <2>5 DEF EndApply, EndTransition
  <2>6. ASSUME NEW call \in calls, Fetch(call) \/ Accept(call) \/ Timeout(call)
        PROVE  writes' = writes
    BY <2>6 DEF Fetch, Accept, Timeout, history
  <2>7. ASSUME NEW due \in BOOLEAN, NEW soc \in BOOLEAN, Tick(due, soc)
        PROVE  writes' = writes
    BY <2>7 DEF Tick, history
  <2>8. ASSUME NEW answered \in BOOLEAN, Heartbeat(answered)
        PROVE  writes' = writes
    BY <2>8 DEF Heartbeat, history
  <2>9. ASSUME \/ UNCHANGED vars \/ Ask \/ Reboot \/ ForgedNudge \/ Consume \/ Post \/ Abandon
               \/ EndBatch \/ MoveEpoch \/ Rediscover \/ Reload
        PROVE  writes' = writes
    BY <2>9 DEF vars, Ask, Reboot, ForgedNudge, Consume, Post, Abandon, EndBatch, MoveEpoch,
                Rediscover, Reload, history
  <2> QED
    BY <2>2, <2>4, <2>5, <2>6, <2>7, <2>8, <2>9 DEF Next
<1> QED
  BY <1>1, <1>2, CommandInvariant, PTL DEF Spec

\* NativeApply's promise: the queue never holds two unresolved applies, even when a late
\* fetch of an old receiver has dropped one that still runs.
THEOREM OneUnresolvedApply == Spec => []OneApply
<1>1. Init => OneApply
  BY DEF Init, OneApply
<1>2. CommandInv /\ OneApply /\ [Next]_vars => OneApply'
  <2> SUFFICES ASSUME CommandInv, OneApply, [Next]_vars
               PROVE  OneApply'
    OBVIOUS
  <2>1. CASE pending' \subseteq pending /\ plan' = plan
    BY <2>1 DEF OneApply
  <2>2. CASE Ask
    BY <2>2 DEF Ask, Enqueue, planner, OneApply
  <2>3. ASSUME NEW due \in BOOLEAN, NEW soc \in BOOLEAN, Tick(due, soc)
        PROVE  OneApply'
    <3>1. CASE link # 0 /\ soc /\ ~PlanPending /\ HasRoom
      <4>1. \A c \in pending : c.kind # "apply"
        BY <3>1 DEF OneApply, PlanPending, Seqs
      <4>2. /\ pending' = pending \union {[seq |-> sequence + 1, epoch |-> link, kind |-> "apply"]}
            /\ plan' = [seq |-> sequence + 1, epoch |-> link]
        BY <2>3, <3>1 DEF Tick, Enqueue
      <4> QED
        BY <4>1, <4>2 DEF OneApply
    <3>2. CASE ~(link # 0 /\ soc /\ ~PlanPending /\ HasRoom)
      BY <2>1, <2>3, <3>2 DEF Tick
    <3> QED
      BY <3>1, <3>2
  <2>4. ASSUME NEW call \in calls, Fetch(call)
        PROVE  pending' \subseteq pending /\ plan' = plan
    BY <2>4, Offering DEF Fetch, planner
  <2>5. ASSUME NEW call \in calls, Accept(call) \/ Timeout(call)
        PROVE  pending' \subseteq pending /\ plan' = plan
    BY <2>5 DEF Accept, Timeout, queue, planner
  <2>6. ASSUME NEW answered \in BOOLEAN, Heartbeat(answered)
        PROVE  pending' \subseteq pending /\ plan' = plan
    BY <2>6 DEF Heartbeat, queue
  <2>7. ASSUME NEW outcome \in Outcomes, NEW saved \in BOOLEAN,
             EndApply(outcome) \/ EndTransition(outcome, saved)
        PROVE  pending' \subseteq pending /\ plan' = plan
    BY <2>7 DEF EndApply, EndTransition, Ends, queue, planner
  <2>8. CASE Reboot
    BY <2>8 DEF Reboot, OneApply
  <2>9. ASSUME \/ UNCHANGED vars \/ ForgedNudge \/ Consume \/ Write \/ Post \/ Abandon
               \/ EndBatch \/ MoveEpoch \/ Rediscover \/ Reload
        PROVE  pending' \subseteq pending /\ plan' = plan
    BY <2>9 DEF vars, ForgedNudge, Consume, Write, Post, Abandon, EndBatch, MoveEpoch,
                Rediscover, Reload, queue, planner
  <2> QED
    BY <2>1, <2>2, <2>3, <2>4, <2>5, <2>6, <2>7, <2>8, <2>9 DEF Next
<1> QED
  BY <1>1, <1>2, CommandInvariant, PTL DEF Spec

=============================================================================
