----------------------------- MODULE MCRuntime -----------------------------
(***************************************************************************)
(* Runs served by the API and a pool of workers.  The plans of one run:    *)
(*                                                                         *)
(* - the chain: execute (1) and verify (2), with the recovery chains of up *)
(*   to two further revisions, a repair and its verification each; the cfg *)
(*   says how many items there are;                                        *)
(* - the git plan: execute (1), verify (2), integrate (3);                 *)
(* - the risky plan: two branches, one item (1) and a verification (2)     *)
(*   whose outcome publishes (3), which needs an approval; the recovery    *)
(*   verifies (4).                                                         *)
(*                                                                         *)
(* The pair is two runs of one project, each with one verified change to   *)
(* integrate.                                                              *)
(***************************************************************************)
EXTENDS RuntimeProperties

CONSTANTS r1, r2, w1, w2, MCItemCount, MCAttempts

MCItems == 1..MCItemCount
MCRunOf == [i \in MCItems |-> r1]
MCmax_seconds == [i \in MCItems |-> 1]
MCmax_attempts == [i \in MCItems |-> MCAttempts]
MCcapabilities == [w \in {w1, w2} |-> {"local"}]
MCrequired_capabilities == [i \in MCItems |-> {"local"}]

ChainRevisionOf == [i \in MCItems |-> (i + 1) \div 2]
Chainkind == [i \in MCItems |-> IF i % 2 = 1 THEN "execute" ELSE "verify"]
Chaindependencies == [i \in MCItems |-> IF i % 2 = 1 THEN {} ELSE {i - 1}]

GitRevisionOf == [i \in MCItems |-> 1]
Gitkind == <<"execute", "verify", "integrate">>
Gitdependencies == <<{}, {1}, {2}>>

RiskyRevisionOf == <<1, 1, 1, 2>>
Riskykind == <<"execute", "verify", "execute", "verify">>
Riskydependencies == <<{}, {}, {2}, {}>>

PairRunOf == <<r1, r2>>
PairRevisionOf == <<1, 1>>
Pairkind == <<"integrate", "integrate">>
Pairdependencies == <<{}, {}>>

=============================================================================
