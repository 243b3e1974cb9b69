-------------------------------- MODULE MCSettles --------------------------------
\* What must come to an end: the hand-over without failing writes, and the requests to a
\* gateway.  They share no state: side by side for TLC, a behaviour is one service's.
EXTENDS OwnershipHandshake, NativeLink

VARIABLE service

settleVars == <<vars, linkVars, service>>

Serves(name, A, idle) == service = name /\ A /\ UNCHANGED <<idle, service>>
SettlesNext == Serves("handover", Next, linkVars) \/ Serves("link", LinkNext, vars)

\* Each service's own fairness.
SettlesInit == service \in {"handover", "link"} /\ Init /\ LinkInit
SettlesSpec == /\ SettlesInit /\ [][SettlesNext]_settleVars
               /\ (service = "handover" => Fairness)
               /\ (service = "link" => LinkFairness)

\* A pending hand-over is settled or withdrawn, and whoever waits for a request to the gateway
\* is answered.
EverythingEnds == PendingResolves /\ ReadersAnswered
=================================================================================
