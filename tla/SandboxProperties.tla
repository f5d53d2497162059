------------------------- MODULE SandboxProperties -------------------------
(***************************************************************************)
(* What the durable runtime relies on when an agent runs in a container.   *)
(***************************************************************************)
EXTENDS Sandbox

\* The outcome the repository is about to accept from the holder of the lease.
Accepts(a) ==
    pc(a) = "completing" /\ HoldsLease(a) /\ call[a].result \in {"ok", "retry"}

\* The attempts of an item share one outcome file, named after the item.  An
\* accepted outcome is the attempt's own, unless an attempt before it was not
\* over when it began: the container was still up, or the worker about to start
\* it.  The file of an attempt that is over is never accepted, and only a lease
\* that ran out or a docker rm that failed leaves one that is not.
ForeignOutcomeHasCause ==
    \A a \in Attempts :
        Accepts(a) => LET b == call[a].author
                      IN  b = a \/ (b \in call[a].beside /\ call[b].loose)

\* What one would like: it is always its own.  A container that survived its
\* attempt can write the file after the next attempt has cleared it.
AcceptedOutcomeIsOwn == \A a \in Attempts : Accepts(a) => call[a].author = a

\* An attempt commits the checkpoints of its own container, in order and each
\* once; all of them when the container ended by itself, those included that
\* it wrote after the last look of the loop.
CheckpointsAreOwn ==
    \A a \in Attempts :
        /\ \A i \in 1..Len(call[a].committed) : call[a].committed[i] = a
        /\ Len(call[a].committed) =< container[a].written
        /\ /\ pc(a) \in {"done", "completing", "finished"}
           /\ call[a].result # "failed" /\ call[a].why = "exit"
           => Len(call[a].committed) = container[a].written

-----------------------------------------------------------------------------
\* The container of an attempt that lost its lease is stopped, whatever it is
\* doing, unless its worker is dead or docker rm failed.
StaleContainersStop ==
    \A a \in Attempts :
        Up(a) /\ ~HoldsLease(a)
          ~> \/ ~Up(a)
             \/ pc(a) = "dead"
             \/ pc(a) \in {"done", "raised", "completing", "finished"}

-----------------------------------------------------------------------------
\* runtime.py: "Execute one Profile role in a constrained, short-lived
\* container."  A work item whose agent does its work succeeds.
RoleIsExecuted == <>(status \in {"succeeded"})

=============================================================================
