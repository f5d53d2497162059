------------------------------- MODULE Outbox -------------------------------
(***************************************************************************)
(* The transactional outbox.  A transaction of the repository records the  *)
(* events of a run and their outbox rows together; it holds the lock of    *)
(* the run from the moment its events get their time of creation.  Every   *)
(* worker process runs one dispatcher thread that lists unpublished rows,  *)
(* hands them to the sink one by one and marks each afterwards.            *)
(***************************************************************************)
EXTENDS Integers, FiniteSets

CONSTANTS
    Runs,
    Dispatchers,        \* the dispatcher threads, one for each worker process
    limit,              \* rows of one listing
    MaxVersion,         \* bound: events of a run
    MaxCrashes,         \* bound: worker processes that stop
    MaxRaises           \* bound: exceptions in a dispatcher

ASSUME OutboxAssumption ==
    /\ limit \in Nat \ {0}
    /\ {MaxVersion, MaxCrashes, MaxRaises} \subseteq Nat
    /\ IsFiniteSet(Dispatchers)

VARIABLES
    clock,              \* the time events are created at
    version,            \* of a run
    open,               \* the transaction that has the lock of a run: how many
                        \* events it has created, and since when
    outbox,             \* the rows that are committed
    published,          \* those with a published_at
    phase,              \* of a dispatcher: list, publish, mark; raised, down
    batch,              \* rows it has listed and not published
    current,            \* row it has published and not marked
    copies,             \* times the sink got an event
    crashes, raises

vars == <<clock, version, open, outbox, published, phase, batch, current, copies,
          crashes, raises>>

Row == [run : Runs, version : 1..MaxVersion, created_at : Nat]

Closed == [events |-> 0, since |-> 0]

\* The rows of the open transaction of a run.
Created(r) ==
    {[run |-> r, version |-> version[r] + i, created_at |-> open[r].since + i] :
        i \in 1..open[r].events}

-----------------------------------------------------------------------------
Init ==
    /\ clock = 0
    /\ version = [r \in Runs |-> 0]
    /\ open = [r \in Runs |-> Closed]
    /\ outbox = {}
    /\ published = {}
    /\ phase = [d \in Dispatchers |-> "list"]
    /\ batch = [d \in Dispatchers |-> {}]
    /\ current = [d \in Dispatchers |-> {}]
    /\ copies = [r \in Runs |-> [k \in 1..MaxVersion |-> 0]]
    /\ crashes = 0
    /\ raises = 0

(* The transactions of the repository.                                     *)

\* append and the operations on attempts lock the run and create one or more
\* events; one that was created before the lock was taken is refused unless the
\* version has not moved since.  A transaction that is rolled back leaves nothing
\* but a gap in time, and is left out.
Begin(r) ==
    /\ open[r] = Closed
    /\ \E n \in 1..MaxVersion - version[r] :
          /\ open' = [open EXCEPT ![r] = [events |-> n, since |-> clock]]
          /\ clock' = clock + n
    /\ UNCHANGED <<version, outbox, published, phase, batch, current, copies, crashes, raises>>

\* Events and outbox rows become visible together.
Commit(r) ==
    /\ open[r] # Closed
    /\ version' = [version EXCEPT ![r] = @ + open[r].events]
    /\ outbox' = outbox \cup Created(r)
    /\ open' = [open EXCEPT ![r] = Closed]
    /\ UNCHANGED <<clock, published, phase, batch, current, copies, crashes, raises>>

-----------------------------------------------------------------------------
(* A dispatcher.                                                           *)

\* Wrong form: the listing reads rows that are not committed.
Unpublished_Dirty == (outbox \cup UNION {Created(r) : r \in Runs}) \ published

Unpublished == outbox \ published

\* Wrong form: the rows come in no order.
Listings_Unordered ==
    {b \in SUBSET Unpublished : b # {} /\ Cardinality(b) =< limit}

\* The first limit rows in the order of their creation.
Listings ==
    {b \in SUBSET Unpublished :
        /\ b # {}
        /\ Cardinality(b) =< limit
        /\ b # Unpublished => Cardinality(b) = limit
        /\ \A row \in b, other \in Unpublished \ b : row.created_at =< other.created_at}

List(d) ==
    /\ phase[d] = "list"
    /\ \E b \in Listings : batch' = [batch EXCEPT ![d] = b]
    /\ phase' = [phase EXCEPT ![d] = "publish"]
    /\ UNCHANGED <<clock, version, open, outbox, published, current, copies, crashes, raises>>

Oldest(b) == {row \in b : \A other \in b : row.created_at =< other.created_at}

Publish(d) ==
    /\ phase[d] = "publish"
    /\ \E row \in Oldest(batch[d]) :
          /\ current' = [current EXCEPT ![d] = {row}]
          /\ batch' = [batch EXCEPT ![d] = @ \ {row}]
          /\ copies' = [copies EXCEPT ![row.run][row.version] = @ + 1]
    /\ phase' = [phase EXCEPT ![d] = "mark"]
    /\ UNCHANGED <<clock, version, open, outbox, published, crashes, raises>>

\* Wrong form: all the rows that were listed are marked with the first.
Marked_Batch(d) == current[d] \cup batch[d]

\* Wrong form: the update looks for the id of the event, which is no row's id.
Marked_EventId(d) == {}

Marked(d) == current[d]

Mark(d) ==
    /\ phase[d] = "mark"
    /\ published' = published \cup Marked(d)
    /\ current' = [current EXCEPT ![d] = {}]
    /\ phase' = [phase EXCEPT ![d] = IF batch[d] = {} THEN "list" ELSE "publish"]
    /\ UNCHANGED <<clock, version, open, outbox, batch, copies, crashes, raises>>

\* What ends the thread or the process: the list is gone with it.
Forgets(d, why) ==
    /\ phase' = [phase EXCEPT ![d] = why]
    /\ batch' = [batch EXCEPT ![d] = {}]
    /\ current' = [current EXCEPT ![d] = {}]

\* run_forever catches nothing: the exception of a statement or of the sink
\* ends the thread, and the worker goes on without it.  The sink may have got
\* the event, and the mark may have been committed.
Raise(d) ==
    /\ phase[d] \in {"list", "publish", "mark"}
    /\ raises < MaxRaises
    /\ raises' = raises + 1
    /\ Forgets(d, "raised")
    /\ \/ UNCHANGED <<copies, published>>
       \/ /\ phase[d] = "publish"
          /\ \E row \in Oldest(batch[d]) : copies' = [copies EXCEPT ![row.run][row.version] = @ + 1]
          /\ UNCHANGED published
       \/ /\ phase[d] = "mark"
          /\ published' = published \cup Marked(d)
          /\ UNCHANGED copies
    /\ UNCHANGED <<clock, version, open, outbox, crashes>>

\* The worker process stops, between any two steps of its dispatcher.
Crash(d) ==
    /\ phase[d] # "down"
    /\ crashes < MaxCrashes
    /\ crashes' = crashes + 1
    /\ Forgets(d, "down")
    /\ UNCHANGED <<clock, version, open, outbox, published, copies, raises>>

Restart(d) ==
    /\ phase[d] = "down"
    /\ phase' = [phase EXCEPT ![d] = "list"]
    /\ UNCHANGED <<clock, version, open, outbox, published, batch, current, copies, crashes, raises>>

-----------------------------------------------------------------------------
Next ==
    \/ \E r \in Runs : Begin(r) \/ Commit(r)
    \/ \E d \in Dispatchers :
          List(d) \/ Publish(d) \/ Mark(d) \/ Raise(d) \/ Crash(d) \/ Restart(d)

Spec == Init /\ [][Next]_vars

\* A dispatcher thread keeps running, and a worker that stopped is started
\* again; nothing starts a thread again that an exception ended.
Fairness ==
    \A d \in Dispatchers :
        WF_vars(List(d)) /\ WF_vars(Publish(d)) /\ WF_vars(Mark(d)) /\ WF_vars(Restart(d))

FairSpec == Spec /\ Fairness

=============================================================================
