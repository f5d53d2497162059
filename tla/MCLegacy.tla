------------------------------ MODULE MCLegacy ------------------------------
(***************************************************************************)
(* A scored profile with contracts and one without an evaluator.           *)
(***************************************************************************)
EXTENDS LegacyProperties, TLC

\* For LostResume.cfg and OverlappingRequests.cfg: the two requests are
\* interchangeable.
MCSymmetry == Permutations(Requests)

=============================================================================
