----------------------------- MODULE MCStandard -----------------------------
(***************************************************************************)
(* One run with the plan of standard_profile_plan (1 plan, 2 build,        *)
(* 3 verify) and one recovery chain of EvidenceRecoveryPlanner (4          *)
(* diagnose, 5 repair, 6 verify).                                          *)
(***************************************************************************)
EXTENDS DurableProperties

CONSTANTS r1, w1

MCItems == 1..6
MCRunOf == [i \in MCItems |-> r1]
MCRevisionOf == [i \in MCItems |-> IF i <= 3 THEN 1 ELSE 2]
MCkind == <<"plan", "execute", "verify", "diagnose", "execute", "verify">>
MCdependencies == <<{}, {1}, {2}, {}, {4}, {5}>>
MCmax_seconds == [i \in MCItems |-> 1]
MCmax_attempts == [i \in MCItems |-> 2]
MCcapabilities == [w \in {w1} |-> {"local"}]
MCrequired_capabilities ==
    [i \in MCItems |-> IF MCkind[i] = "diagnose" THEN {} ELSE {"local"}]

=============================================================================
