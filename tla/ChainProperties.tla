-------------------------- MODULE ChainProperties --------------------------
(***************************************************************************)
(* What reaches the target branch.                                         *)
(***************************************************************************)
EXTENDS WorktreeChain

\* Only verified work is merged: the head that is merged is one that an accepted
\* verification found before and after, or has after it nothing but commits of
\* attempts that were interrupted.  (Git does not ask for the lease: an attempt
\* that lost it still commits, and the merge takes the branch, not a commit.)
MergedWasVerified ==
    \A m \in merged :
       \E v \in verified :
          /\ v.head =< m
          /\ \A i \in v.head + 1..m : <<"execute", branch[i].attempt>> \in interrupted

\* A verdict is about the commit it is recorded for: the verifier judged the
\* commit's tree, unless an interrupted attempt was the first to leave an edit in
\* the worktree after the commit.  A verifier that edits a clean worktree is
\* noticed; one that edits a path such an attempt had changed is not.
JudgedWasCommitted ==
    \A v \in verified :
       /\ TreeOf(v.head) =< v.judged
       /\ TreeOf(v.head) < v.judged => edits[TreeOf(v.head) + 1] \in interrupted

-----------------------------------------------------------------------------
\* runtime.py: "Isolate write work, verify a fixed commit, then serialize
\* integration."  What is merged is a commit whose tree was judged.
MergedIsVerified ==
    \A m \in merged : [head |-> m, judged |-> TreeOf(m)] \in verified

=============================================================================
