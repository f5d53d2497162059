---------------------------- MODULE EventStream ----------------------------
(***************************************************************************)
(* What outbox.py promises whoever listens to the events of runs: that     *)
(* each is heard, and heard in the order of the run, copies of what was    *)
(* heard before left aside.                                                *)
(***************************************************************************)
EXTENDS Naturals

CONSTANTS Runs, MaxVersion

VARIABLES
    recorded,       \* how many events of a run are recorded
    heard           \* how many of them have been heard

vars == <<recorded, heard>>

Init == recorded = [r \in Runs |-> 0] /\ heard = [r \in Runs |-> 0]

\* A transaction records events of one run.
Record(r) ==
    /\ \E n \in 1..MaxVersion - recorded[r] :
          recorded' = [recorded EXCEPT ![r] = @ + n]
    /\ UNCHANGED heard

\* The next event of a run is heard.
Hear(r) ==
    /\ heard[r] < recorded[r]
    /\ heard' = [heard EXCEPT ![r] = @ + 1]
    /\ UNCHANGED recorded

Next == \E r \in Runs : Record(r) \/ Hear(r)

SafetySpec == Init /\ [][Next]_vars

Spec == SafetySpec /\ \A r \in Runs : WF_vars(Hear(r))

=============================================================================
