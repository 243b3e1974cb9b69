----------------------------- MODULE MCIntegration ------------------------------
\* Components of the integration that share no state, side by side for TLC: a behaviour is one
\* part's.
EXTENDS NativeHolds, NativeExport, SupplyGuard, SolcastQuota

VARIABLE part

integrationVars == <<holdVars, exportVars, guardVars, quotaVars, part>>
IsPart(name, A, idle) == part = name /\ A /\ UNCHANGED <<idle, part>>
Holding(A)   == IsPart("holds",  A, <<exportVars, guardVars, quotaVars>>)
Exporting(A) == IsPart("export", A, <<holdVars, guardVars, quotaVars>>)
Guarding(A)  == IsPart("guard",  A, <<holdVars, exportVars, quotaVars>>)
Fetching(A)  == IsPart("quota",  A, <<holdVars, exportVars, guardVars>>)

Init == part \in {"holds", "export", "guard", "quota"}
        /\ HoldInit /\ ExportInit /\ GuardInit /\ QuotaInit
Next == \/ Holding(HoldNext) \/ Exporting(ExportNext) \/ Guarding(GuardNext)
        \/ Fetching(QuotaNext)

\* HoldFairness and ExportFairness.  Only one part's actions are ever enabled in a behaviour, so
\* fairness of a disjunction over the parts is fairness of each.
Fairness ==
    /\ WF_integrationVars(Holding(HoldStep) \/ Exporting(ExportJob))
    /\ SF_integrationVars(Holding(HandoverRelease(FALSE)) \/ Exporting(RetryRecord))
    /\ SF_integrationVars(Exporting(ReconcileRecord))
    /\ WF_integrationVars(Holding(Reconcile))
    /\ WF_integrationVars(Holding(polledOff /\ Poll)) /\ WF_integrationVars(Holding(ClearReport))

FairSpec == Init /\ [][Next]_integrationVars /\ Fairness
TypesOK  == HoldTypeOK /\ ExportTypeOK /\ GuardTypeOK /\ QuotaTypeOK
=================================================================================
