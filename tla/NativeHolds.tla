------------------------------ MODULE NativeHolds ------------------------------
(***************************************************************************)
(* Protection holds of one native inverter: NativeHolds turns the power    *)
(* switch Off while a car charges or a dispatch runs, and On again, but    *)
(* only an Off that it has verified as its own.  A hold is saved before    *)
(* Off is written and confirmed after it was read back; every pass holds   *)
(* the authority lock, and between two of its awaits the owner may use the *)
(* switch, a save or the bus may fail, and Home Assistant may restart.     *)
(*                                                                         *)
(* Abstracted: inverters only share the evidence, so there is one; a time  *)
(* is whether it has passed; notices, the back-off between releases and a  *)
(* remapped topology, which refuses everything, are left out.              *)
(***************************************************************************)
EXTENDS Naturals

CONSTANTS
    Reports,        \* consecutive clear reports that end an EV hold (5 in the code)
    HoldSurprises   \* failures, restarts and uses of the switch in a behaviour

ASSUME HoldAssumption == Reports \in Nat \ {0} /\ HoldSurprises \in Nat

VARIABLES
    holds,          \* AuthorityState.holds, by cause
    exposed,        \* AuthorityStore.state is known
    protection,     \* on; leaving for Observe; off in Observe or a session without it
    seen,           \* EvidenceRead: ev and its next report, dispatch and its trusted end
    switch,         \* register 43007
    polledOff,      \* it was polled Off within the last minute
    pass,           \* the pass that is under way, and whether a handover asked for it
    offBy,          \* history: whose Off the switch shows
    mishaps         \* HoldSurprises left

holdVars == <<holds, exposed, protection, seen, switch, polledOff, pass, offBy, mishaps>>
outside  == <<protection, seen>>

Causes   == {"ev", "dispatch"}
Hold     == [kept : BOOLEAN, confirmed : BOOLEAN, pending : BOOLEAN, clear : 0 .. Reports]
NoHold   == [kept |-> FALSE, confirmed |-> FALSE, pending |-> FALSE, clear |-> 0]
NoHolds  == [c \in Causes |-> NoHold]
Evidence == {e \in [ev : {"charging", "clear", "unknown"}, report : BOOLEAN,
                    dispatch : {"on", "off", "unknown"}, ended : BOOLEAN, overnight : BOOLEAN] :
                /\ e.report => e.ev = "clear"
                /\ e.overnight => e.ev = "charging"
                /\ e.ended => e.dispatch # "on"}
Pass     == [step : {"idle", "request", "off", "confirm", "release", "on", "drop"},
             handover : BOOLEAN]
NoPass   == [step |-> "idle", handover |-> FALSE]

HoldTypeOK ==
    /\ holds \in [Causes -> Hold] /\ exposed \in BOOLEAN
    /\ protection \in {"on", "leaving", "off"} /\ seen \in Evidence
    /\ switch \in {"on", "off"} /\ polledOff \in BOOLEAN /\ pass \in Pass
    /\ offBy \in {"hold", "owner"} /\ mishaps \in 0 .. HoldSurprises

HoldInit ==
    /\ holds = NoHolds /\ exposed = TRUE /\ protection = "on"
    /\ seen = [ev |-> "unknown", report |-> FALSE, dispatch |-> "unknown", ended |-> TRUE,
               overnight |-> FALSE]
    /\ switch = "on" /\ polledOff = FALSE /\ pass = NoPass
    /\ offBy = "owner" /\ mishaps = HoldSurprises

-----------------------------------------------------------------------------
(* Helpers *)

Kept(H)   == {c \in Causes : H[c].kept}
\* A mutant for TLC: a request that was never confirmed counts as the hold's own Off.
RequestOwned(H) == Kept(H) # {}

Owned(H)  == \E c \in Kept(H) : H[c].confirmed
Marked(H) == [c \in Causes |-> [H[c] EXCEPT !.confirmed = H[c].kept]]

Mishap    == mishaps > 0 /\ mishaps' = mishaps - 1
At(step)  == [pass EXCEPT !.step = step]
Leave     == pass' = NoPass /\ UNCHANGED <<holds, exposed>>

\* NativeHolds._save: a record that does not change is not written; a save that cannot be
\* verified leaves either on disk and exposes no authority until Home Assistant restarts.
SaveHolds(H, next) ==
    \/ holds' = H /\ pass' = next /\ UNCHANGED <<exposed, mishaps>>
    \/ /\ H # holds /\ Mishap
       /\ holds' \in {holds, H} /\ exposed' = FALSE /\ pass' = NoPass

-----------------------------------------------------------------------------
(* Evaluation: async_reconcile_held *)

\* Mutants for TLC: a count without its limit, a pass without a new report that starts again.
CountsOn(h) ==
    IF seen.ev # "clear" THEN [h EXCEPT !.clear = 0, !.pending = FALSE]
    ELSE [h EXCEPT !.clear = @ + 1, !.pending = h.clear + 1 >= Reports]
StartsAgain(h) ==
    IF seen.ev # "clear" \/ ~seen.report THEN [h EXCEPT !.clear = 0, !.pending = FALSE]
    ELSE [h EXCEPT !.clear = IF @ < Reports THEN @ + 1 ELSE @, !.pending = h.clear + 1 >= Reports]

\* Only new clear reports count, and any other evidence starts again.
AdvanceEv(h) ==
    IF seen.ev # "clear" THEN [h EXCEPT !.clear = 0, !.pending = FALSE]
    ELSE IF ~seen.report THEN h
    ELSE LET count == IF h.clear < Reports THEN h.clear + 1 ELSE Reports
         IN  [h EXCEPT !.clear = count, !.pending = count = Reports]

\* A trusted report decides; without one, the last trusted end does.
AdvanceDispatch(h) ==
    [h EXCEPT !.pending = IF seen.dispatch = "unknown" THEN seen.ended ELSE seen.dispatch = "off"]

Advanced ==
    [c \in Causes |-> IF ~holds[c].kept THEN NoHold
                      ELSE IF c = "ev" THEN AdvanceEv(holds[c]) ELSE AdvanceDispatch(holds[c])]

\* New holds need fresh evidence; a confirmed one, or an unended dispatch, continues.
EvWanted == seen.ev = "charging" /\ ~seen.overnight
Wanted(H) ==
    \/ EvWanted \/ seen.dispatch = "on"
    \/ \E c \in Kept(H) : /\ ~H[c].pending
                          /\ H[c].confirmed \/ (c = "dispatch" /\ ~seen.ended)

Reconcile ==
    /\ pass = NoPass /\ exposed /\ protection # "off"
    /\ SaveHolds(Advanced, At(IF Wanted(Advanced) THEN "request" ELSE "release"))
    /\ seen' = [seen EXCEPT !.report = FALSE]
    /\ UNCHANGED <<protection, switch, polledOff, offBy>>

\* The release step of a handover or a manual session; a removal needs clear evidence.
ClearOf(c) == IF c = "ev" THEN seen.ev = "clear" ELSE seen.ended \/ seen.dispatch = "off"
HandoverRelease(removal) ==
    /\ pass = NoPass /\ exposed /\ protection # "on" /\ Kept(holds) # {}
    /\ removal => \A c \in Kept(holds) : ClearOf(c)
    /\ pass' = [step |-> "release", handover |-> TRUE]
    /\ UNCHANGED <<outside, holds, exposed, switch, polledOff, offBy, mishaps>>

-----------------------------------------------------------------------------
(* Holding: the request is durable before Off is written *)

\* An owner's Off is not a hold: requests join an Off only under a confirmed one, and what
\* the switch does not show is no longer confirmed.
HoldRequests(before) ==
    LET create  == before # "off" \/ Owned(holds)
        Asks(c) == IF c = "ev" THEN EvWanted /\ ~holds[c].kept ELSE seen.dispatch = "on"
        wanted  == [c \in Causes |-> IF create /\ Asks(c)
                                     THEN [holds[c] EXCEPT !.kept = TRUE, !.pending = FALSE]
                                     ELSE holds[c]]
    IN  [c \in Causes |-> [wanted[c] EXCEPT !.confirmed = @ /\ before = "off"]]

\* A cached Off is believed; anything else is read again, and may be unreadable.
RequestHold ==
    /\ pass.step = "request" /\ protection = "on"
    /\ LET before == IF polledOff THEN "off" ELSE switch
           H      == HoldRequests(before)
       IN  SaveHolds(H, IF Kept(H) = {} THEN NoPass
                        ELSE IF before = "on" THEN At("off")
                        ELSE IF Owned(H) THEN At("confirm") ELSE NoPass)
    /\ UNCHANGED <<outside, switch, polledOff, offBy>>

RequestUnread ==
    /\ pass.step = "request" /\ protection = "on" /\ ~polledOff /\ Mishap
    /\ holds' = HoldRequests("none")
    /\ pass' = (IF Kept(holds') = {} THEN NoPass ELSE At("off"))
    /\ UNCHANGED <<outside, exposed, switch, polledOff, offBy>>

\* _refusal: on the way to Observe nothing new is held.
RequestRefused ==
    /\ pass.step = "request" /\ protection = "leaving" /\ Leave
    /\ UNCHANGED <<outside, switch, polledOff, offBy, mishaps>>

\* async_write_power_locked.  An Off may be written over an unreadable switch, and is then
\* the hold's; one that is read before the write stays whose it was, unconfirmed.
WriteOff ==
    /\ pass.step = "off"
    /\ \/ switch = "off" /\ Leave /\ polledOff' = TRUE /\ UNCHANGED <<switch, offBy, mishaps>>
       \/ /\ (switch = "on" /\ UNCHANGED mishaps) \/ (switch = "off" /\ Mishap)
          /\ switch' = "off" /\ offBy' = "hold" /\ polledOff' = TRUE
          /\ pass' = At("confirm") /\ UNCHANGED <<holds, exposed>>
       \/ /\ Mishap /\ Leave /\ switch' \in {switch, "off"}
          /\ offBy' = (IF switch' # switch THEN "hold" ELSE offBy) /\ UNCHANGED polledOff
    /\ UNCHANGED outside

Confirm ==
    /\ pass.step = "confirm" /\ SaveHolds(Marked(holds), NoPass)
    /\ UNCHANGED <<outside, switch, polledOff, offBy>>

-----------------------------------------------------------------------------
(* Release: only an Off of its own, after the restoration reads *)

\* An On ends the hold; an Off that was never confirmed is left to the owner.
Release ==
    /\ pass.step = "release"
    /\ LET ending == pass.handover \/ \A c \in Kept(holds) : holds[c].pending
       IN  IF Kept(holds) = {} THEN Leave /\ UNCHANGED mishaps
           ELSE IF switch = "on" THEN SaveHolds(NoHolds, NoPass)
           ELSE IF ~Owned(holds)
           THEN IF ending THEN SaveHolds(NoHolds, NoPass) ELSE Leave /\ UNCHANGED mishaps
           ELSE SaveHolds([c \in Causes |-> [holds[c] EXCEPT !.pending = holds[c].kept]], At("on"))
    /\ UNCHANGED <<outside, switch, polledOff, offBy>>

\* The switch is unreadable, or the resident schedule is not verified: tried again later.
ReleaseRefused ==
    /\ pass.step = "release" /\ Kept(holds) # {} /\ Mishap /\ Leave
    /\ UNCHANGED <<outside, switch, polledOff, offBy>>

\* The write may fail, land without being verified, or find the switch unreadable.
WriteOn ==
    /\ pass.step = "on"
    /\ \/ switch' = "on" /\ polledOff' = FALSE /\ pass' = At("drop")
          /\ UNCHANGED <<holds, exposed, mishaps>>
       \/ Mishap /\ Leave /\ switch' \in {switch, "on"} /\ UNCHANGED polledOff
    /\ UNCHANGED <<outside, offBy>>

Drop ==
    /\ pass.step = "drop" /\ SaveHolds(NoHolds, NoPass)
    /\ UNCHANGED <<outside, switch, polledOff, offBy>>

-----------------------------------------------------------------------------
(* The owner, the poller, the evidence and Home Assistant *)

\* The code cannot tell an Off of the owner's under a confirmed hold from the hold's own.
OwnerFlips ==
    /\ Mishap /\ switch' = (IF switch = "on" THEN "off" ELSE "on")
    /\ offBy' = (IF Owned(holds) \/ pass.step = "confirm" THEN "hold" ELSE "owner")
    /\ UNCHANGED <<outside, holds, exposed, polledOff, pass>>

Poll ==
    /\ polledOff' \in {switch = "off", FALSE} /\ polledOff' # polledOff
    /\ UNCHANGED <<outside, holds, exposed, switch, pass, offBy, mishaps>>

\* A pass reads the evidence once, so it may as well change between passes.
NewEvidence ==
    /\ pass = NoPass /\ seen' \in Evidence \ {seen}
    /\ seen'.ended \/ ~seen.ended \/ seen'.dispatch = "on"
    /\ seen.report /\ seen'.ev = "clear" => seen'.report
    /\ UNCHANGED <<holds, exposed, protection, switch, polledOff, pass, offBy, mishaps>>

ClearReport ==
    /\ seen.ev = "clear" /\ ~seen.report
    /\ seen' = [seen EXCEPT !.report = TRUE]
    /\ UNCHANGED <<holds, exposed, protection, switch, polledOff, pass, offBy, mishaps>>

NewMode ==
    /\ pass = NoPass
    /\ \/ protection = "on" /\ protection' \in {"leaving", "off"}
       \/ protection = "leaving" /\ Kept(holds) = {} /\ protection' = "off"
       \/ protection = "off" /\ protection' = "on"
    /\ UNCHANGED <<holds, exposed, seen, switch, polledOff, pass, offBy, mishaps>>

HoldRestart ==
    /\ Mishap /\ exposed' = TRUE /\ pass' = NoPass /\ polledOff' = FALSE
    /\ UNCHANGED <<outside, holds, switch, offBy>>

-----------------------------------------------------------------------------
HoldStep == \/ RequestHold \/ RequestRefused \/ WriteOff \/ Confirm
            \/ Release \/ WriteOn \/ Drop
HoldNext ==
    \/ Reconcile \/ (\E removal \in BOOLEAN : HandoverRelease(removal))
    \/ HoldStep \/ RequestUnread \/ ReleaseRefused
    \/ OwnerFlips \/ Poll \/ NewEvidence \/ ClearReport \/ NewMode \/ HoldRestart

\* A started pass goes on, the coordinator starts one every thirty seconds, a reading grows
\* old, a charger that is clear keeps reporting, and a handover retries its release.
HoldFairness ==
    /\ WF_holdVars(HoldStep) /\ WF_holdVars(Reconcile) /\ SF_holdVars(HandoverRelease(FALSE))
    /\ WF_holdVars(polledOff /\ Poll) /\ WF_holdVars(ClearReport)

HoldSpec     == HoldInit /\ [][HoldNext]_holdVars

-----------------------------------------------------------------------------
(* Properties *)

\* No pass turns On a switch that the owner turned Off: neither after a crash between the
\* write and its confirmation, nor on a stale reading, nor when the owner is the faster.
OwnersOff ==
    [][pass.step = "on" /\ switch = "off" /\ switch' = "on" => offBy = "hold"]_holdVars

\* Where the evidence stays clear every hold ends, and so it does on the way to Observe;
\* while a car keeps charging the battery is held: through failing reads, writes and saves.
\* A save that failed stops both until Home Assistant restarts.
HoldsFollow ==
    /\ []<>(\/ Kept(holds) = {} \/ ~exposed \/ protection = "off"
            \/ protection = "on" /\ (seen.ev # "clear" \/ seen.dispatch # "off"))
    /\ []<>(switch = "off" \/ ~exposed \/ protection # "on" \/ ~EvWanted)

=============================================================================
