---------------------------- MODULE AuthorityGrant ----------------------------
(***************************************************************************)
(* What the hand-over promises, without messages, files or restarts: a     *)
(* site belongs to one side at a time, only that side may hold write       *)
(* authority, work (holds, transitions, an active mode) is only taken up   *)
(* on behalf of the side the site belongs to, and the site changes sides   *)
(* only while nobody holds authority and neither side has work left.       *)
(***************************************************************************)


CONSTANTS First, Second     \* the two sides; First owns a new site

VARIABLES side,     \* the side the site belongs to
          holder,   \* the side that may write now, or "none"
          busy      \* for each side, whether its stored state has work in it

vars == <<side, holder, busy>>

Parties == {First, Second}

Init ==
    /\ side = First
    /\ holder \in {"none", First}
    /\ busy = [s \in Parties |-> FALSE]

\* Authority comes and goes, and work with it, on the side the site belongs to.
Operate ==
    /\ UNCHANGED side
    /\ holder' \in {"none", side}
    /\ busy' \in [Parties -> BOOLEAN]
    /\ \A s \in Parties \ {side} : busy'[s] => busy[s]

\* The site changes sides, quiet and unheld; the new side may hold it at once.
Switch ==
    /\ holder = "none"
    /\ \A s \in Parties : ~busy[s]
    /\ side' \in Parties \ {side}
    /\ holder' \in {"none", side'}
    /\ UNCHANGED busy

Next == Operate \/ Switch

Spec == Init /\ [][Next]_vars
=============================================================================
