------------------------------- MODULE LegacyHolds -------------------------------
(***************************************************************************)
(* The add-on's operating mode and the protection holds of its Solis       *)
(* inverter.  The daemon's loop takes an owner's mode request, runs the    *)
(* steps of the transition, and makes one pass over the power switch: the  *)
(* minute's reconcile, or a replan's.  A pass reads the switch, the EV and *)
(* the dispatch evidence, and turns the switch Off for a hold or On when   *)
(* its causes ended, saving a record before and after.  Between two awaits *)
(* the owner uses the switch, a save or the bus fails, or the daemon stops.*)
(*                                                                         *)
(* Abstracted: one inverter; one dispatch window at a time, that is known  *)
(* once it has begun; the devices' part of a charging step (SolisProgram), *)
(* notices, the back-off of refused releases and remapped devices.         *)
(***************************************************************************)
EXTENDS Naturals, Sequences

CONSTANTS
    FirstModes,     \* modes the store is in when the daemon first starts
    ClearReports,   \* EV_RELEASE_CONFIRMATION_PASSES (5 in the code)
    ModeRequests,   \* mode requests of the owner in a behaviour
    Troubles        \* failures, stops of the daemon and uses of the switch in a behaviour

ASSUME LegacyAssumption ==
    /\ FirstModes \subseteq {"observe", "protect", "optimise"}
    /\ ClearReports \in Nat \ {0, 1} /\ ModeRequests \in Nat /\ Troubles \in Nat

VARIABLES
    addon,      \* AuthorityStore.state: mode, transition and hold records
    unsaved,    \* AuthorityStore._pending: the candidate of a failed save
    known,      \* last_trusted_holds: unread, no window, or one that is ahead or past
    evState,    \* EvHoldState
    outlook,    \* the evidence: EV status, an uncounted clear report, dispatch
    enable,     \* the inverter's power switch
    loop,       \* the daemon's place in its loop and in its pass
    clears,     \* history: clear EV reports counted since another reading was saved
    troubles,   \* Troubles left
    asked    \* ModeRequests left

legacyVars == <<addon, unsaved, known, evState, outlook, enable, loop, clears,
                troubles, asked>>

Modes    == {"observe", "protect", "optimise"}
Windows  == {"none", "ahead", "past"}
HoldRec  == [kept : BOOLEAN, confirmed : BOOLEAN, pending : BOOLEAN,
             clear : 0 .. ClearReports - 1, end : Windows]
NoRec    == [kept |-> FALSE, confirmed |-> FALSE, pending |-> FALSE, clear |-> 0, end |-> "none"]
Handovers == {<<>>, <<"verify_fresh_plan">>, <<"evaluate_protection">>,
              <<"cancel_export", "write_fallback">>, <<"write_fallback">>,
              <<"cancel_export", "write_fallback", "release_holds", "commit_observe">>,
              <<"write_fallback", "release_holds", "commit_observe">>,
              <<"release_holds", "commit_observe">>, <<"commit_observe">>}
AddonState == [mode : Modes, target : Modes, steps : Handovers, ev : HoldRec, dispatch : HoldRec]
Places     == {"request", "lifecycle", "ready", "recheck", "evidence", "act", "schedule",
               "off", "offBack", "on", "onBack", "safe", "safeOn", "done"}
Loop       == [at : Places, kind : {"none", "start", "tick", "run", "evaluate", "release"},
               known : Windows \union {"unread"}, trust : BOOLEAN, active : BOOLEAN,
               window : BOOLEAN, good : BOOLEAN]
Between(place) == [at |-> place, kind |-> "none", known |-> "unread", trust |-> FALSE,
                   active |-> FALSE, window |-> FALSE, good |-> TRUE]

\* A start in Observe without a record has nothing to reconcile.
Records(s)   == {h \in {s.ev, s.dispatch} : h.kept}
FirstPass(s) == IF Records(s) # {} \/ s.mode # "observe"
                THEN [Between("recheck") EXCEPT !.kind = "start"] ELSE Between("request")

LegacyTypeOK ==
    /\ addon \in AddonState /\ unsaved \subseteq AddonState
    /\ known \in Windows \union {"unread"}
    /\ evState \in [active : BOOLEAN, clear : 0 .. ClearReports - 1]
    /\ outlook \in [ev : {"charging", "clear", "unknown"}, report : BOOLEAN, dispatch : BOOLEAN]
    /\ enable \in {"on", "off"} /\ loop \in Loop
    /\ clears \in 0 .. ClearReports
    /\ troubles \in 0 .. Troubles /\ asked \in 0 .. ModeRequests

LegacyInit ==
    /\ addon \in {[mode |-> m, target |-> m, steps |-> <<>>, ev |-> NoRec, dispatch |-> NoRec] :
                  m \in FirstModes}
    /\ unsaved = {} /\ known = "unread" /\ evState = [active |-> FALSE, clear |-> 0]
    /\ outlook = [ev |-> "unknown", report |-> FALSE, dispatch |-> FALSE]
    /\ enable = "on" /\ loop = FirstPass(addon) /\ clears = 0
    /\ troubles \in 0 .. Troubles /\ asked = ModeRequests

-----------------------------------------------------------------------------
(* Helpers *)

Trouble    == troubles > 0 /\ troubles' = troubles - 1
Doing      == IF addon.steps = <<>> THEN "none" ELSE Head(addon.steps)
Claimed(s) == \E h \in Records(s) : h.confirmed
Cleared(s) == [s EXCEPT !.ev = NoRec, !.dispatch = NoRec]
Moved(at)  == [loop EXCEPT !.at = at]
Failed     == [loop EXCEPT !.at = "done", !.good = FALSE]
Again      == [Between("recheck") EXCEPT !.kind = "tick", !.known = known]

\* AuthorityStore.save_holds and save: nothing to save is a success; a failed save closes the
\* gate, keeps the old state in memory and its candidate for the next loop.
SaveTo(candidate, next, failure) ==
    \/ /\ candidate = addon \/ unsaved = {}
       /\ addon' = candidate /\ loop' = next /\ UNCHANGED <<unsaved, troubles>>
    \/ /\ candidate # addon /\ loop' = failure /\ UNCHANGED addon
       /\ \/ unsaved = {} /\ Trouble /\ unsaved' = {candidate}
          \/ unsaved # {} /\ UNCHANGED <<unsaved, troubles>>

\* WriteGate.mode_for a protection action: only the current step of a transition may write.
Granted ==
    /\ unsaved = {} /\ addon.mode # "observe"
    /\ CASE addon.steps = <<>>              -> TRUE
         [] Doing = "verify_fresh_plan"     -> loop.kind \in {"tick", "run"}
         [] Doing = "evaluate_protection"   -> loop.kind = "evaluate"
         [] Doing = "release_holds"         -> loop.kind = "release"
         [] OTHER                           -> FALSE

-----------------------------------------------------------------------------
(* EV evidence: next_ev_hold_state and _observe_ev_hold *)

\* A mutant for TLC: a clear report is not added to the ones before it.
NextEvUncounted(active, clear, exception) ==
    CASE outlook.ev = "unknown"  -> [active |-> active, clear |-> 0]
      [] outlook.ev = "charging" -> [active |-> active \/ ~exception, clear |-> 0]
      [] OTHER                   -> [active |-> active, clear |-> 0]
NextEv(active, clear, exception) ==
    CASE outlook.ev = "unknown"  -> [active |-> active, clear |-> 0]
      [] outlook.ev = "charging" -> [active |-> active \/ ~exception, clear |-> 0]
      [] OTHER ->
           IF ~active THEN [active |-> FALSE, clear |-> 0]
           ELSE IF clear > 0 /\ ~outlook.report THEN [active |-> TRUE, clear |-> clear]
           ELSE IF clear + 1 >= ClearReports THEN [active |-> FALSE, clear |-> 0]
           ELSE [active |-> TRUE, clear |-> clear + 1]

\* A pending release without fresh clear evidence holds again.
\* A mutant for TLC: it goes on being released.
NeverRearms(h) == FALSE
Rearms(h) == h.confirmed /\ h.pending /\ outlook.ev # "clear"

EvBefore ==
    IF ~addon.ev.kept THEN evState
    ELSE [active |-> (addon.ev.confirmed /\ ~addon.ev.pending) \/ Rearms(addon.ev),
          clear  |-> IF Rearms(addon.ev) THEN 0 ELSE addon.ev.clear]
Counts == /\ outlook.ev = "clear" /\ EvBefore.active
          /\ EvBefore.clear = 0 \/ outlook.report
EvRecord(next) ==
    IF ~addon.ev.kept THEN NoRec
    ELSE [addon.ev EXCEPT !.clear = next.clear,
                          !.pending = IF addon.ev.confirmed THEN ~next.active ELSE @]

-----------------------------------------------------------------------------
(* A pass: reconcile_tick, and the reconcile of run_once *)

\* The minute's pass, or a replan's; a mode whose plan is to be verified replans every time.
StartPass(kind) ==
    /\ loop.at = "ready"
    /\ kind = "run" \/ Doing # "verify_fresh_plan"
    /\ loop' = [Between(IF kind = "tick" THEN "recheck" ELSE "evidence") EXCEPT
                    !.kind = kind, !.known = known]
    /\ UNCHANGED <<addon, unsaved, known, evState, outlook, enable, clears, troubles, asked>>

\* A request is confirmed by any Off that is read; a restart takes its dispatch from the records.
KnownFrom(s) ==
    IF loop.known = "unread" /\ s.dispatch.kept /\ s.dispatch.confirmed THEN s.dispatch.end
    ELSE loop.known
Reread(h) == IF enable = "off" THEN [h EXCEPT !.confirmed = h.kept] ELSE h

Recheck ==
    /\ loop.at = "recheck"
    /\ \/ LET s == [addon EXCEPT !.ev = Reread(@), !.dispatch = Reread(@)]
          IN  SaveTo(s, [Moved("evidence") EXCEPT !.known = KnownFrom(s)], Failed)
       \/ /\ Records(addon) # {} /\ Trouble
          /\ loop' = [Moved("evidence") EXCEPT !.known = KnownFrom(addon)]
          /\ UNCHANGED <<addon, unsaved>>
    /\ UNCHANGED <<known, evState, outlook, enable, clears, asked>>

\* hold_reconcile_intent: what the dispatch says to a pass that may not trust its read;
\* without a picture or a record the pass does nothing.
Picture(s, trust, knows, active) ==
    CASE trust                   -> IF outlook.dispatch THEN "hold" ELSE "clear"
      [] ~trust /\ knows # "unread" -> IF knows = "ahead" THEN "hold" ELSE "clear"
      [] OTHER ->
           IF s.dispatch.kept THEN IF s.dispatch.end = "ahead" THEN "hold" ELSE "clear"
           ELSE IF active \/ \E h \in Records(s) : h.confirmed /\ h.pending THEN "clear"
           ELSE "none"

\* A pass judges its evidence: what it trusts, whether the target for the car makes an exception
\* of its charging, whether the EV can be read.
Judged(trust, exception, readable) ==
    LET next    == NextEv(EvBefore.active, EvBefore.clear, exception)
        s       == [addon EXCEPT !.ev = EvRecord(next)]
        ticks   == loop.kind # "run"
        now     == IF outlook.dispatch THEN "ahead" ELSE "none"
        knows   == IF trust /\ ticks THEN now ELSE loop.known
        picture == Picture(s, trust, knows, next.active)
        ended   == ticks /\ ~trust /\ knows = "past"
        place   == CASE picture = "none"                     -> "done"
                     [] ended /\ ~readable                   -> "done"
                     [] ended /\ readable /\ ~next.active    -> "safe"
                     [] OTHER                                -> "act"
    IN  /\ SaveTo(s, [loop EXCEPT !.at = place, !.trust = trust, !.active = next.active,
                                  !.window = picture = "hold",
                                  !.known = IF place = "safe" THEN "none"
                                            ELSE IF trust /\ ~ticks THEN now ELSE knows],
                  IF ticks THEN [Failed EXCEPT !.known = knows] ELSE Again)
        /\ evState' = IF addon' = s THEN next ELSE evState
        /\ outlook' = IF addon' = s /\ Counts THEN [outlook EXCEPT !.report = FALSE] ELSE outlook
        /\ clears' = IF Counts THEN (IF clears < ClearReports THEN clears + 1 ELSE clears)
                     ELSE IF outlook.ev = "clear" \/ addon' # s \/ unsaved # {}
                             \/ (addon.ev.pending /\ ~addon.ev.confirmed)
                     THEN clears ELSE 0

Judge ==
    /\ loop.at = "evidence"
    /\ \E trust \in BOOLEAN, exception \in BOOLEAN, readable \in BOOLEAN :
        /\ exception => outlook.ev = "charging" /\ ~EvBefore.active
        /\ outlook.ev # "unknown" => readable
        /\ Judged(trust, exception, readable)
    /\ UNCHANGED <<known, enable, asked>>

-----------------------------------------------------------------------------
(* The switch: _reconcile_power_switch, release_holds and the safe state *)

\* A confirmed hold stands until its evidence ends it, a dispatch without evidence until its end.
Retains(s) == \/ s.ev.confirmed /\ ~s.ev.pending
              \/ s.dispatch.confirmed /\ s.dispatch.end = "ahead" /\ ~loop.trust
WantsOff == loop.kind # "release" /\ (loop.active \/ loop.window \/ Retains(addon))

\* _save_hold_request: the causes of now, as requested or as read back.
HoldRequest(s, confirmed, create) ==
    LET ev == IF s.ev.kept \/ (create /\ loop.active)
              THEN [s.ev EXCEPT !.kept = TRUE, !.confirmed = confirmed] ELSE NoRec
        held == loop.window /\ loop.trust /\ (create \/ s.dispatch.kept)
        dispatch == IF held THEN [s.dispatch EXCEPT !.kept = TRUE, !.confirmed = confirmed,
                                                    !.end = loop.known]
                    ELSE IF s.dispatch.kept THEN [s.dispatch EXCEPT !.confirmed = confirmed]
                    ELSE NoRec
    IN  [s EXCEPT !.ev = ev, !.dispatch = dispatch]

\* The read before a write.  An Off that is read confirms what was requested and takes a new
\* cause only under a claim; an unreadable switch is turned Off but never On.
Act ==
    /\ loop.at = "act"
    /\ \/ /\ ~Granted /\ loop' = [Moved("done") EXCEPT !.good = addon.mode = "observe"]
          /\ UNCHANGED <<addon, unsaved, troubles>>
       \/ /\ Granted /\ WantsOff
          /\ \/ /\ enable = "off" /\ Records(addon) = {} /\ loop' = Moved("done")
                /\ UNCHANGED <<addon, unsaved, troubles>>
             \/ /\ enable = "off" /\ Records(addon) # {}
                /\ SaveTo(HoldRequest(addon, TRUE, Claimed(addon)), Moved("done"), Failed)
             \/ /\ enable = "on" \/ troubles > 0
                /\ SaveTo(HoldRequest(addon, FALSE, TRUE), Moved("off"), Failed)
       \/ /\ Granted /\ ~WantsOff
          /\ \/ enable = "on" /\ SaveTo(Cleared(addon), Moved("done"), Failed)
             \/ /\ enable = "off" /\ ~Claimed(addon)
                /\ IF loop.kind = "release" THEN SaveTo(Cleared(addon), Moved("done"), Failed)
                   ELSE loop' = Moved("done") /\ UNCHANGED <<addon, unsaved, troubles>>
             \/ /\ enable = "off" /\ Claimed(addon) /\ loop' = Moved("schedule")
                /\ UNCHANGED <<addon, unsaved, troubles>>
             \/ Trouble /\ loop' = Failed /\ UNCHANGED <<addon, unsaved>>
    /\ UNCHANGED <<known, evState, outlook, enable, clears, asked>>

\* A release waits for the schedule it gives the battery back to.
Schedule ==
    /\ loop.at = "schedule"
    /\ \/ LET Pending(h) == [h EXCEPT !.pending = h.kept]
          IN  SaveTo([addon EXCEPT !.ev = Pending(@), !.dispatch = Pending(@)],
                     Moved("on"), Failed)
       \/ Trouble /\ loop' = Failed /\ UNCHANGED <<addon, unsaved>>
    /\ UNCHANGED <<known, evState, outlook, enable, clears, asked>>

\* The write lands or fails.
WriteEnable ==
    /\ loop.at \in {"off", "on", "safeOn"} /\ unsaved = {}
    /\ \/ /\ enable' = IF loop.at = "off" THEN "off" ELSE "on"
          /\ loop' = Moved(CASE loop.at = "off" -> "offBack" [] loop.at = "on" -> "onBack"
                             [] OTHER -> "done")
          /\ UNCHANGED troubles
       \/ Trouble /\ loop' = Failed /\ UNCHANGED enable
    /\ UNCHANGED <<addon, unsaved, known, evState, outlook, clears, asked>>

\* Only what is read back confirms a hold or drops it.
ReadBack ==
    /\ \/ /\ loop.at = "offBack" /\ enable = "off"
          /\ SaveTo(HoldRequest(addon, TRUE, TRUE), Moved("done"), Failed)
       \/ loop.at = "onBack" /\ enable = "on" /\ SaveTo(Cleared(addon), Moved("done"), Failed)
       \/ /\ <<loop.at, enable>> \in {<<"offBack", "on">>, <<"onBack", "off">>}
          /\ loop' = [Moved("done") EXCEPT !.good = loop.kind # "release"]
          /\ UNCHANGED <<addon, unsaved, troubles>>
       \/ loop.at \in {"offBack", "onBack"} /\ Trouble /\ loop' = Failed
          /\ UNCHANGED <<addon, unsaved>>
    /\ UNCHANGED <<known, evState, outlook, enable, clears, asked>>

\* Past every known end without a trusted picture the inverter is left to itself.
SafeSwitch ==
    /\ loop.at = "safe"
    /\ \/ loop' = Moved(IF Granted /\ enable = "off" THEN "safeOn" ELSE "done")
          /\ UNCHANGED troubles
       \/ Granted /\ Trouble /\ loop' = Failed
    /\ UNCHANGED <<addon, unsaved, known, evState, outlook, enable, clears, asked>>

-----------------------------------------------------------------------------
(* The loop: the owner's request, the steps of a transition, the end of a pass *)

\* propose_transition, for an owner whose preconditions are met.
Proposed(t) ==
    LET leaves == addon.mode = "optimise" /\ t # "optimise"
    IN  [addon EXCEPT
            !.target = t,
            !.mode   = IF t = "observe" \/ leaves THEN @ ELSE t,
            !.steps  = CASE t = "observe"  ->
                              IF leaves THEN <<"cancel_export", "write_fallback",
                                               "release_holds", "commit_observe">>
                                        ELSE <<"release_holds", "commit_observe">>
                         [] t = "optimise" -> <<"verify_fresh_plan">>
                         [] t = "protect" /\ leaves -> <<"cancel_export", "write_fallback">>
                         [] OTHER          -> <<"evaluate_protection">>]
Accepts(t) == IF addon.steps = <<>> THEN t # addon.mode
              ELSE t = "observe" /\ addon.target # "observe"

Request ==
    /\ loop.at = "request" /\ unsaved = {}
    /\ \/ loop' = Between("lifecycle") /\ UNCHANGED <<addon, unsaved, troubles, asked>>
       \/ \E t \in Modes : /\ Accepts(t) /\ asked > 0 /\ asked' = asked - 1
                           /\ SaveTo(Proposed(t), Between("lifecycle"), Between("ready"))
    /\ UNCHANGED <<known, evState, outlook, enable, clears>>

\* The candidate of a failed save is tried again before anything else.
ReportUsed(s) == IF s.ev.clear # addon.ev.clear THEN [outlook EXCEPT !.report = FALSE] ELSE outlook
RetrySave ==
    /\ loop.at = "request" /\ unsaved # {}
    /\ \/ addon' \in unsaved /\ unsaved' = {} /\ outlook' = ReportUsed(addon')
          /\ UNCHANGED <<loop, troubles>>
       \/ Trouble /\ loop' = Between("ready") /\ UNCHANGED <<addon, unsaved, outlook>>
    /\ UNCHANGED <<known, evState, enable, clears, asked>>

\* A step that verified is taken off; the last one commits the mode.
Popped == LET rest == Tail(addon.steps)
          IN  [addon EXCEPT !.steps = rest, !.mode = IF rest = <<>> THEN addon.target ELSE @]
Pop    == SaveTo(Popped, Between("lifecycle"), Between("ready"))

StepDone == \/ Doing \in {"cancel_export", "write_fallback", "commit_observe"}
            \/ Doing = "release_holds" /\ Records(addon) = {}

Lifecycle ==
    /\ loop.at = "lifecycle"
    /\ \/ /\ Doing \in {"none", "verify_fresh_plan"} /\ loop' = Between("ready")
          /\ UNCHANGED <<addon, unsaved, troubles>>
       \/ /\ Doing = "evaluate_protection"
          /\ loop' = [Between("recheck") EXCEPT !.kind = "evaluate"]
          /\ UNCHANGED <<addon, unsaved, troubles>>
       \/ StepDone /\ Pop
       \/ /\ Doing \in {"cancel_export", "write_fallback"} /\ Trouble
          /\ loop' = Between("ready") /\ UNCHANGED <<addon, unsaved>>
       \/ /\ Doing = "release_holds" /\ ~StepDone
          /\ loop' = [Between("act") EXCEPT !.kind = "release"]
          /\ UNCHANGED <<addon, unsaved, troubles>>
    /\ UNCHANGED <<known, evState, outlook, enable, clears, asked>>

\* A pass that ends no step.
Plain == loop.kind \in {"start", "tick"} \/ (loop.kind = "run" /\ Doing # "verify_fresh_plan")

\* A handover step ends when its holds are verified, an activation when its plan is as well.
EndPass ==
    /\ loop.at = "done"
    /\ LET verified == loop.good /\ \A h \in Records(addon) : h.confirmed
       IN  \/ /\ Plain
              /\ loop' = Between("request") /\ UNCHANGED <<addon, unsaved, troubles>>
           \/ /\ loop.kind = "run" /\ Doing = "verify_fresh_plan"
              /\ \/ verified /\ SaveTo(Popped, Between("request"), Again)
                 \/ /\ \/ ~verified /\ UNCHANGED troubles
                       \/ verified /\ Trouble
                    /\ loop' = Between("request") /\ UNCHANGED <<addon, unsaved>>
           \/ /\ loop.kind = "evaluate" /\ verified /\ unsaved = {} /\ Pop
           \/ /\ loop.kind = "evaluate" /\ ~(verified /\ unsaved = {})
              /\ loop' = Between("ready") /\ UNCHANGED <<addon, unsaved, troubles>>
           \/ /\ loop.kind = "release" /\ UNCHANGED <<addon, unsaved, troubles>>
              /\ loop' = Between(IF loop.good THEN "lifecycle" ELSE "ready")
    /\ known' = IF \/ loop.kind \in {"start", "tick"}
                   \/ loop.kind = "run" /\ loop.trust /\ loop'.at = "request"
                THEN loop.known ELSE known
    /\ UNCHANGED <<evState, outlook, enable, clears, asked>>

-----------------------------------------------------------------------------
(* The daemon stops; the evidence and the owner *)

\* _shutdown_hold_reason.
KeepsHold == \/ addon.ev.kept \/ known = "ahead"
             \/ addon.dispatch.kept /\ addon.dispatch.end = "ahead"

\* A stop at any await.  A clean one leaves the inverter to itself unless it keeps a hold; the
\* next start reads either copy of a failed save, and its holds before anything else.
Stop ==
    /\ Trouble
    /\ \E s \in {addon} \union unsaved :
        /\ addon' = s /\ outlook' = ReportUsed(s)
        /\ loop' = FirstPass(s)
    /\ \/ UNCHANGED enable
       \/ /\ addon.mode = "optimise" /\ addon.steps = <<>> /\ unsaved = {} /\ ~KeepsHold
          /\ enable' = "on"
    /\ unsaved' = {} /\ known' = "unread" /\ evState' = [active |-> FALSE, clear |-> 0]
    /\ UNCHANGED <<clears, asked>>

EvTurns ==
    /\ \E e \in {"charging", "clear", "unknown"} \ {outlook.ev}, report \in BOOLEAN :
        /\ report => e = "clear"
        /\ outlook' = [outlook EXCEPT !.ev = e, !.report = report]
    /\ UNCHANGED <<addon, unsaved, known, evState, enable, loop, clears, troubles, asked>>

EvClears ==
    /\ outlook.ev = "clear" /\ ~outlook.report /\ outlook' = [outlook EXCEPT !.report = TRUE]
    /\ UNCHANGED <<addon, unsaved, known, evState, enable, loop, clears, troubles, asked>>

DispatchTurns ==
    /\ outlook' = [outlook EXCEPT !.dispatch = ~@]
    /\ UNCHANGED <<addon, unsaved, known, evState, enable, loop, clears, troubles, asked>>

Ended(w) == IF w = "ahead" THEN "past" ELSE w
EndOf(s) == [s EXCEPT !.dispatch.end = Ended(@)]
DispatchEnds ==
    /\ "ahead" \in {known, loop.known, addon.dispatch.end}
    /\ addon' = EndOf(addon) /\ unsaved' = {EndOf(s) : s \in unsaved} /\ known' = Ended(known)
    /\ loop' = [loop EXCEPT !.known = Ended(@)] /\ outlook' = [outlook EXCEPT !.dispatch = FALSE]
    /\ UNCHANGED <<evState, enable, clears, troubles, asked>>

OwnerSwitches ==
    /\ Trouble /\ enable' = (IF enable = "on" THEN "off" ELSE "on")
    /\ UNCHANGED <<addon, unsaved, known, evState, outlook, loop, clears, asked>>

LegacyStep ==
    \/ Request \/ RetrySave \/ Lifecycle \/ StartPass("tick") \/ StartPass("run") \/ Recheck
    \/ Judge \/ Act \/ Schedule \/ WriteEnable \/ ReadBack \/ SafeSwitch \/ EndPass
LegacyNext ==
    \/ LegacyStep
    \/ Stop \/ EvTurns \/ EvClears \/ DispatchTurns \/ DispatchEnds \/ OwnerSwitches

LegacySpec     == LegacyInit /\ [][LegacyNext]_legacyVars

\* The daemon goes on, not every pass is a replan's, the car goes on reporting and dispatches end.
LegacyFairness ==
    /\ WF_legacyVars(LegacyStep) /\ SF_legacyVars(StartPass("tick"))
    /\ WF_legacyVars(EvClears) /\ WF_legacyVars(DispatchEnds)
LegacyFair     == LegacySpec /\ LegacyFairness

-----------------------------------------------------------------------------
(* Properties *)

\* A hold that was read back ends only by its evidence: an EV hold after ClearReports counted
\* clear reports since it was last seen charging or unread, a dispatch by a trusted read or its
\* end, whatever was saved, lost or restarted meanwhile.  Two passes are left out: the safe state
\* past an older known end, and a record requested again while its release was pending.
HoldKept ==
    [][enable = "off" /\ enable' = "on" /\ loop' # loop /\ loop.kind # "release" =>
          /\ addon.ev.confirmed => clears = ClearReports
          /\ (addon.dispatch.confirmed /\ addon.dispatch.end = "ahead")
                => loop.trust \/ loop.at = "safeOn"]_legacyVars

\* When the car has left and no dispatch runs, a hold lets the switch go, although writes failed,
\* were not read back, or the daemon stopped; an Optimise not yet verified may keep it for ever.
LetGo == []<>(\/ outlook.ev # "clear" \/ outlook.dispatch \/ enable = "on"
              \/ Records(addon) = {} \/ Doing = "verify_fresh_plan")
=============================================================================
