-------------------------- MODULE OutboxProperties --------------------------
(***************************************************************************)
(* What the sink can rely on.                                              *)
(***************************************************************************)
EXTENDS Outbox

\* Types; among them that a dispatcher holds and marks committed rows only: the
\* rows of an open transaction are invisible to every listing.
OutboxTypeOK ==
    /\ clock \in Nat
    /\ version \in [Runs -> 0..MaxVersion]
    /\ open \in [Runs -> [events : 0..MaxVersion, since : Nat]]
    /\ outbox \subseteq Row
    /\ published \subseteq outbox
    /\ phase \in [Dispatchers -> {"list", "publish", "mark", "raised", "down"}]
    /\ batch \in [Dispatchers -> SUBSET outbox]
    /\ current \in [Dispatchers -> SUBSET outbox]
    /\ copies \in [Runs -> [1..MaxVersion -> Nat]]
    /\ crashes \in 0..MaxCrashes
    /\ raises \in 0..MaxRaises

\* No row gets a published_at whose event the sink has not got, whatever stops
\* or raises between the listing, publish and mark_outbox_published.
PublishedIsDelivered ==
    \A row \in published : copies[row.run][row.version] > 0

\* The sink gets an event at most once from each dispatcher and each restart of
\* one: a thread never delivers a row again that it has delivered.
CopiesAreBounded ==
    \A r \in Runs, k \in 1..MaxVersion :
        copies[r][k] =< Cardinality(Dispatchers) + crashes

-----------------------------------------------------------------------------
\* The highest version of which there is a copy.
Highest(counts) ==
    CHOOSE n \in 0..MaxVersion :
        /\ n > 0 => counts[n] > 0
        /\ \A k \in n + 1..MaxVersion : counts[k] = 0

\* The event with the highest version of a run that the sink has got.
Heard(r) == Highest(copies[r])

Stream == INSTANCE EventStream
            WITH recorded <- version, heard <- [r \in Runs |-> Heard(r)]

\* Transactions and dispatchers implement the stream of events: what the sink
\* hears of a run first is the next event of the run, with no gap, and every
\* event that is committed is heard in the end, across restarts and as long as
\* one dispatcher has not raised.
ImplementsStream == Stream!Spec

\* The same without the promise that events are heard.
ImplementsStreamSafely == Stream!SafetySpec

-----------------------------------------------------------------------------
\* outbox.py: "Transactional outbox dispatch with at-least-once sink delivery."
\* Every committed event reaches the sink while the worker runs.
DeliveredAtLeastOnce ==
    \A r \in Runs, k \in 1..MaxVersion : version[r] >= k ~> copies[r][k] > 0

=============================================================================
