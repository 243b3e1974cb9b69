-------------------------------- MODULE MCAddon ---------------------------------
\* Components of the add-on that share no state, side by side for TLC: a behaviour is one
\* service's.
EXTENDS LegacyHolds, SolisProgram, RollingPlan, SettingsStore

VARIABLE service

addonVars == <<legacyVars, programVars, planVars, storeVars, service>>

\* 256 households of five slots a day: the binary digits of their number choose one of two
\* loads, tariffs, batteries and dispatch sets, one of four events and one of no sun, sun in
\* slot 1 with its P90 unknown, as forecast or higher.
Profile(x) == [t \in 0 .. 4 |-> x[t + 1]]
Sunny(p90) == <<Profile(<<0, 1, 0, 0, 0>>), [t \in 0 .. 4 |-> IF t = 1 THEN p90 ELSE {0}]>>
Suns == <<<<Profile(<<0, 0, 0, 0, 0>>), [t \in 0 .. 4 |-> {0}]>>,
          <<Profile(<<0, 1, 0, 0, 0>>), [t \in 0 .. 4 |-> {}]>>, Sunny({1}), Sunny({2})>>
PlanNumbers == 0 .. 255
PlanHomes == [n \in PlanNumbers |->
    LET Pick(choices, place) == choices[((n \div place) % Len(choices)) + 1]
        sun   == Pick(Suns, 1)
        event == Pick(<<<<2, 3>>, <<1, 2>>, <<3, 5>>, <<6, 8>>>>, 4)
    IN  [load     |-> Profile(Pick(<<<<0, 1, 1, 1, 1>>, <<0, 0, 1, 1, 2>>>>, 16)),
         price    |-> Profile(Pick(<<<<1, 2, 2, 4, 2>>, <<1, 2, 2, 2, 4>>>>, 32)),
         dispatch |-> Pick(<<{}, {3, 9}>>, 64), battery |-> Pick(<<3, 6>>, 128),
         solar |-> sun[1], p90 |-> sun[2], first |-> event[1], last |-> event[2], rate |-> 3]]

Init == /\ service \in {"holds", "program", "planner", "settings"}
        /\ home \in IF service = "planner" THEN HomeNumbers ELSE {0}
        /\ LegacyInit /\ ProgInit /\ PlanInit /\ StoreInit
        /\ (service # "holds" => addon.mode = "observe")
        /\ troubles = IF addon.mode = "observe" THEN 0 ELSE Troubles
        /\ (service # "program" => paid = {})
        /\ (service # "settings" => install = "options" /\ grant.mode = "observe")

Serves(name, A, idle) == service = name /\ A /\ UNCHANGED <<idle, service>>
Holds(A) == Serves("holds", A, <<programVars, planVars, storeVars>>)
Next ==
    \/ Holds(LegacyNext)
    \/ Serves("program",  ProgNext,   <<legacyVars, planVars, storeVars>>)
    \/ Serves("planner",  PlanNext,   <<legacyVars, programVars, storeVars>>)
    \/ Serves("settings", StoreNext,  <<legacyVars, programVars, planVars>>)

\* LegacyFairness; what the other services promise needs none.
Fairness ==
    /\ WF_legacyVars(Holds(LegacyStep)) /\ SF_legacyVars(Holds(StartPass("tick")))
    /\ WF_legacyVars(Holds(EvClears)) /\ WF_legacyVars(Holds(DispatchEnds))

FairSpec == Init /\ [][Next]_addonVars /\ Fairness
TypesOK  == LegacyTypeOK /\ ProgTypeOK /\ PlanTypeOK /\ StoreTypeOK
=================================================================================
