--------------------------- MODULE MCIntegration ---------------------------
(***************************************************************************)
(* Two runs of one project that each verify a change and integrate it, and *)
(* so compete for the project's integration lock.  The first integration   *)
(* needs an approval and may be tried twice.                               *)
(***************************************************************************)
EXTENDS DurableProperties

CONSTANTS r1, r2, w1, w2

MCItems == 1..4
MCRunOf == <<r1, r1, r2, r2>>
MCRevisionOf == [i \in MCItems |-> 1]
MCkind == <<"verify", "integrate", "verify", "integrate">>
MCdependencies == <<{}, {1}, {}, {3}>>
MCmax_seconds == [i \in MCItems |-> 1]
MCmax_attempts == <<1, 2, 1, 1>>
MCcapabilities == [w \in {w1, w2} |-> IF w = w1 THEN {"docker", "git"} ELSE {"docker"}]
MCrequired_capabilities ==
    [i \in MCItems |-> IF MCkind[i] = "integrate" THEN {"git"} ELSE {"docker"}]

=============================================================================
