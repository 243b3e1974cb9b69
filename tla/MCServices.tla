------------------------------- MODULE MCServices -------------------------------
\* The hand-over with failing writes, the two sides' trust in a SoC, the add-on's replans and its
\* readiness evidence share no state: side by side for TLC, a behaviour is one service's.
EXTENDS OwnershipHandshake, ReplanTick, BankTrust, SocEvidence, ReadinessBook

VARIABLE service

serviceVars == <<vars, replanVars, bankVars, evidenceVars, bookVars, service>>

ServicesInit == /\ service \in {"handover", "replan", "bank", "evidence", "readiness"}
                /\ Init /\ ReplanInit /\ BankInit /\ EvidenceInit /\ BookInit
                /\ (service # "evidence" => driver = "plain")

Serves(name, A, idle) == service = name /\ A /\ UNCHANGED <<idle, service>>
ServicesNext ==
    \/ Serves("handover",  Next,         <<replanVars, bankVars, evidenceVars, bookVars>>)
    \/ Serves("replan",    ReplanNext,   <<vars, bankVars, evidenceVars, bookVars>>)
    \/ Serves("bank",      BankNext,     <<vars, replanVars, evidenceVars, bookVars>>)
    \/ Serves("evidence",  EvidenceNext, <<vars, replanVars, bankVars, bookVars>>)
    \/ Serves("readiness", BookNext,     <<vars, replanVars, bankVars, evidenceVars>>)

ServicesSpec == ServicesInit /\ [][ServicesNext]_serviceVars
\* An idle service keeps its initial state.
TypesOK  == CASE service = "handover" -> TypeOK     [] service = "replan"    -> ReplanTypeOK
              [] service = "bank" -> BankTypeOK     [] service = "readiness" -> BookTypeOK
              [] service = "evidence" -> EvidenceTypeOK
=================================================================================
