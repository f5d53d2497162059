---------------------------- MODULE OutboxProofs ----------------------------
(***************************************************************************)
(* For any runs, dispatchers, listing limit and faults: what is marked was *)
(* delivered, and what the sink hears first of every run is the run's      *)
(* events in order, so that the outbox implements the stream of events.    *)
(***************************************************************************)
EXTENDS OutboxProperties, FiniteSetTheorems, TLAPS

Delivered(row) == copies[row.run][row.version] > 0

\* a comes before b in the history of their run.
Precedes(a, b) == a.run = b.run /\ a.version < b.version

\* A row to be marked is one the sink has got.
Handed == \A d \in Dispatchers : \A row \in current[d] : Delivered(row)

\* A transaction has room for its events, and time has passed with them.
OpenFits ==
    \A r \in Runs : open[r] # Closed =>
        /\ open[r].events > 0
        /\ version[r] + open[r].events =< MaxVersion
        /\ open[r].since + open[r].events =< clock

\* The rows are those of the recorded events, older than an open transaction.
Numbered ==
    \A row \in outbox :
        /\ row.version =< version[row.run]
        /\ row.created_at =< clock
        /\ open[row.run] # Closed => row.created_at =< open[row.run].since

Recorded ==
    \A r \in Runs : \A k \in 1..version[r] :
        \E row \in outbox : row.run = r /\ row.version = k

\* The times of creation follow the versions of a run.
InTime == \A a, b \in outbox : Precedes(a, b) => a.created_at < b.created_at

Known == \A r \in Runs : \A k \in 1..MaxVersion : copies[r][k] > 0 => k =< version[r]

\* What was delivered of a run is its beginning.
InOrder ==
    \A r \in Runs : \A j, k \in 1..MaxVersion : j < k /\ copies[r][k] > 0 => copies[r][j] > 0

\* What precedes a listed row was delivered or is listed with it.
ListedTogether ==
    \A d \in Dispatchers : \A b \in batch[d] : \A a \in outbox :
        Precedes(a, b) => Delivered(a) \/ a \in batch[d]

OutboxInv ==
    /\ OutboxTypeOK
    /\ PublishedIsDelivered
    /\ Handed
    /\ OpenFits
    /\ Numbered
    /\ Recorded
    /\ InTime
    /\ Known
    /\ InOrder
    /\ ListedTogether

-----------------------------------------------------------------------------
LEMMA Bounds ==
    /\ limit \in Nat \ {0}
    /\ MaxVersion \in Nat /\ MaxCrashes \in Nat /\ MaxRaises \in Nat
BY OutboxAssumption

\* No dispatcher holds anything at first.
LEMMA InitOutbox == Init => OutboxInv
<1> SUFFICES ASSUME Init PROVE OutboxInv
  OBVIOUS
<1>1. OutboxTypeOK
  BY Bounds DEF Init, OutboxTypeOK, Closed
<1>2. PublishedIsDelivered /\ Handed /\ OpenFits /\ Numbered /\ InTime /\ ListedTogether
  BY DEF Init, PublishedIsDelivered, Handed, OpenFits, Numbered, InTime, ListedTogether
<1>3. Recorded /\ Known /\ InOrder
  BY DEF Init, Recorded, Known, InOrder
<1> QED
  BY <1>1, <1>2, <1>3 DEF OutboxInv

\* A row handed to the sink has nothing before it that is still to come.
LEMMA NothingBefore ==
    ASSUME OutboxInv, NEW d \in Dispatchers, NEW row \in Oldest(batch[d])
    PROVE  /\ row \in outbox /\ row \in batch[d]
           /\ row.run \in Runs /\ row.version \in 1..MaxVersion
           /\ row.version =< version[row.run]
           /\ \A a \in outbox : Precedes(a, row) => Delivered(a)
           /\ \A j \in 1..MaxVersion : j < row.version => copies[row.run][j] > 0
<1>1. /\ row \in outbox /\ row \in batch[d]
      /\ row \in Row
      /\ \A other \in batch[d] : row.created_at =< other.created_at
  BY DEF Oldest, OutboxInv, OutboxTypeOK
<1>2. /\ row.run \in Runs /\ row.version \in 1..MaxVersion
      /\ row.version =< version[row.run]
      /\ version[row.run] \in 0..MaxVersion
  BY <1>1 DEF Row, OutboxInv, Numbered, OutboxTypeOK
<1>3. ASSUME NEW a \in outbox, Precedes(a, row) PROVE Delivered(a)
  <2>1. a.created_at < row.created_at
    BY <1>1, <1>3 DEF OutboxInv, InTime
  <2>2. a.created_at \in Nat /\ row.created_at \in Nat
    BY <1>1 DEF OutboxInv, OutboxTypeOK, Row
  <2>3. a \notin batch[d]
    BY <1>1, <2>1, <2>2
  <2> QED
    BY <1>1, <1>3, <2>3 DEF OutboxInv, ListedTogether
<1>4. ASSUME NEW j \in 1..MaxVersion, j < row.version PROVE copies[row.run][j] > 0
  <2>1. j \in 1..version[row.run]
    BY <1>2, <1>4
  <2>2. PICK a \in outbox : a.run = row.run /\ a.version = j
    BY <1>2, <2>1 DEF OutboxInv, Recorded
  <2> QED
    BY <1>3, <1>4, <2>2 DEF Precedes, Delivered
<1> QED
  BY <1>1, <1>2, <1>3, <1>4

-----------------------------------------------------------------------------
(* The steps.                                                              *)

LEMMA BeginStep ==
    ASSUME OutboxInv, NEW r \in Runs, Begin(r) PROVE OutboxInv'
<1> USE DEF OutboxInv
<1>1. PICK n \in 1..MaxVersion - version[r] :
          /\ open' = [open EXCEPT ![r] = [events |-> n, since |-> clock]]
          /\ clock' = clock + n
  BY DEF Begin
<1>2. /\ n \in 1..MaxVersion /\ version[r] + n =< MaxVersion
      /\ version[r] \in 0..MaxVersion /\ clock \in Nat
  BY <1>1, Bounds DEF OutboxTypeOK
<1>3. /\ UNCHANGED <<version, outbox, published, phase, batch, current, copies, crashes, raises>>
      /\ open[r] = Closed
  BY DEF Begin
<1>4. OutboxTypeOK'
  BY <1>1, <1>2, <1>3 DEF OutboxTypeOK
<1>5. open'[r] = [events |-> n, since |-> clock]
      /\ \A s \in Runs \ {r} : open'[s] = open[s]
  BY <1>1 DEF OutboxTypeOK
<1>6. OpenFits'
  <2> SUFFICES ASSUME NEW s \in Runs, open'[s] # Closed
               PROVE  /\ open'[s].events > 0
                      /\ version'[s] + open'[s].events =< MaxVersion
                      /\ open'[s].since + open'[s].events =< clock'
    BY DEF OpenFits
  <2>1. CASE s = r
    BY <1>1, <1>2, <1>3, <1>5, <2>1
  <2>2. CASE s # r
    <3>1. open[s] \in [events : 0..MaxVersion, since : Nat]
      BY DEF OutboxTypeOK
    <3> QED
      BY <1>1, <1>2, <1>3, <1>5, <2>2, <3>1, Bounds DEF OpenFits
  <2> QED
    BY <2>1, <2>2
<1>7. Numbered'
  <2> SUFFICES ASSUME NEW row \in outbox
               PROVE  /\ row.version =< version[row.run]
                      /\ row.created_at =< clock'
                      /\ open'[row.run] # Closed => row.created_at =< open'[row.run].since
    BY <1>3 DEF Numbered
  <2>1. /\ row.run \in Runs /\ row.created_at \in Nat
        /\ row.version =< version[row.run] /\ row.created_at =< clock
    BY DEF OutboxTypeOK, Row, Numbered
  <2>2. CASE row.run = r
    BY <1>1, <1>2, <1>5, <2>1, <2>2
  <2>3. CASE row.run # r
    BY <1>1, <1>2, <1>5, <2>1, <2>3 DEF Numbered
  <2> QED
    BY <2>2, <2>3
<1>8. PublishedIsDelivered' /\ Handed' /\ ListedTogether'
  BY <1>3 DEF PublishedIsDelivered, Handed, ListedTogether, Delivered
<1>9. Recorded' /\ InTime' /\ Known' /\ InOrder'
  BY <1>3 DEF Recorded, InTime, Known, InOrder
<1> QED
  BY <1>4, <1>6, <1>7, <1>8, <1>9

LEMMA CommitStep ==
    ASSUME OutboxInv, NEW r \in Runs, Commit(r) PROVE OutboxInv'
<1> USE DEF OutboxInv
<1> DEFINE n == open[r].events
           since == open[r].since
<1>1. /\ n \in 1..MaxVersion /\ since \in Nat /\ clock \in Nat
      /\ version[r] \in 0..MaxVersion
      /\ version[r] + n =< MaxVersion
      /\ since + n =< clock
  BY Bounds DEF Commit, OutboxTypeOK, OpenFits
<1>2. /\ UNCHANGED <<clock, published, phase, batch, current, copies, crashes, raises>>
      /\ version' = [version EXCEPT ![r] = @ + n]
      /\ outbox' = outbox \cup Created(r)
      /\ open' = [open EXCEPT ![r] = Closed]
      /\ open[r] # Closed
  BY DEF Commit
<1>3. Created(r) = {[run |-> r, version |-> version[r] + i, created_at |-> since + i] : i \in 1..n}
  BY DEF Created
<1> HIDE DEF n, since
<1>4. \A row \in Created(r) :
          /\ row \in Row
          /\ row.run = r
          /\ row.version > version[r] /\ row.version =< version[r] + n
          /\ row.created_at > since /\ row.created_at =< since + n
          /\ row.created_at - since = row.version - version[r]
  <2> SUFFICES ASSUME NEW i \in 1..n
               PROVE  LET row == [run |-> r, version |-> version[r] + i, created_at |-> since + i]
                      IN  /\ row \in Row
                          /\ row.run = r
                          /\ row.version > version[r] /\ row.version =< version[r] + n
                          /\ row.created_at > since /\ row.created_at =< since + n
                          /\ row.created_at - since = row.version - version[r]
    BY <1>3
  <2>1. version[r] + i \in 1..MaxVersion /\ since + i \in Nat
    BY <1>1, Bounds
  <2> QED
    BY <1>1, <2>1 DEF Row
<1>5. /\ version'[r] = version[r] + n /\ open'[r] = Closed
      /\ \A s \in Runs \ {r} : version'[s] = version[s] /\ open'[s] = open[s]
  BY <1>2 DEF OutboxTypeOK
<1>6. OutboxTypeOK'
  <2>1. version[r] + n \in 0..MaxVersion
    BY <1>1, Bounds
  <2>2. Closed \in [events : 0..MaxVersion, since : Nat]
    BY Bounds DEF Closed
  <2>3. /\ version' \in [Runs -> 0..MaxVersion]
        /\ open' \in [Runs -> [events : 0..MaxVersion, since : Nat]]
    BY <1>2, <2>1, <2>2 DEF OutboxTypeOK
  <2>4. outbox' \subseteq Row
    BY <1>2, <1>4 DEF OutboxTypeOK
  <2> QED
    BY <1>2, <2>3, <2>4 DEF OutboxTypeOK
<1>7. OpenFits'
  BY <1>2, <1>5 DEF OpenFits
<1>8. Numbered'
  <2> SUFFICES ASSUME NEW row \in outbox'
               PROVE  /\ row.version =< version'[row.run]
                      /\ row.created_at =< clock
                      /\ open'[row.run] # Closed => row.created_at =< open'[row.run].since
    BY <1>2 DEF Numbered
  <2>1. CASE row \in Created(r)
    <3>1. row.created_at \in Nat
      BY <1>4, <2>1 DEF Row
    <3> QED
      BY <1>1, <1>4, <1>5, <2>1, <3>1
  <2>2. CASE row \in outbox
    <3>1. /\ row.run \in Runs /\ row.version \in 1..MaxVersion
          /\ row.version =< version[row.run] /\ row.created_at =< clock
          /\ open[row.run] # Closed => row.created_at =< open[row.run].since
      BY <2>2 DEF OutboxTypeOK, Row, Numbered
    <3>2. CASE row.run = r
      BY <1>1, <1>5, <3>1, <3>2, Bounds
    <3>3. CASE row.run # r
      BY <1>5, <3>1, <3>3
    <3> QED
      BY <3>2, <3>3
  <2> QED
    BY <1>2, <2>1, <2>2
<1>9. Recorded'
  <2> SUFFICES ASSUME NEW s \in Runs, NEW k \in 1..version'[s]
               PROVE  \E row \in outbox' : row.run = s /\ row.version = k
    BY DEF Recorded
  <2>1. CASE s = r /\ k > version[r]
    <3> DEFINE i == k - version[r]
               row == [run |-> r, version |-> version[r] + i, created_at |-> since + i]
    <3>1. i \in 1..n /\ version[r] + i = k
      BY <1>1, <1>5, <2>1
    <3>2. row \in Created(r) /\ row.run = r /\ row.version = version[r] + i
      BY <1>3, <3>1
    <3> HIDE DEF row
    <3> QED
      BY <1>2, <2>1, <3>1, <3>2
  <2>2. CASE k \in 1..version[s]
    BY <1>2, <2>2 DEF Recorded
  <2> QED
    BY <1>1, <1>5, <2>1, <2>2
<1>10. InTime'
  <2> SUFFICES ASSUME NEW a \in outbox', NEW b \in outbox', Precedes(a, b)
               PROVE  a.created_at < b.created_at
    BY DEF InTime, Precedes
  <2>1. a \in Row /\ b \in Row
    BY <1>6 DEF OutboxTypeOK
  <2>2. /\ a.version \in Nat /\ b.version \in Nat /\ a.created_at \in Nat /\ b.created_at \in Nat
        /\ a.run = b.run /\ a.version < b.version
    BY <2>1, Bounds DEF Row, Precedes
  <2>3. CASE a \in outbox /\ b \in outbox
    BY <2>3 DEF InTime
  <2>4. CASE a \in outbox /\ b \in Created(r)
    BY <1>1, <1>2, <1>4, <2>2, <2>4 DEF Numbered, since
  <2>5. CASE a \in Created(r) /\ b \in outbox
    BY <1>1, <1>4, <2>2, <2>5 DEF Numbered
  <2>6. CASE a \in Created(r) /\ b \in Created(r)
    BY <1>1, <1>4, <2>2, <2>6
  <2> QED
    BY <1>2, <2>3, <2>4, <2>5, <2>6
<1>11. Known'
  <2> SUFFICES ASSUME NEW s \in Runs, NEW k \in 1..MaxVersion, copies[s][k] > 0
               PROVE  k =< version'[s]
    BY <1>2 DEF Known
  <2>1. k =< version[s] /\ version[s] \in 0..MaxVersion
    BY DEF Known, OutboxTypeOK
  <2> QED
    BY <1>1, <1>5, <2>1, Bounds
<1>12. ListedTogether'
  <2> SUFFICES ASSUME NEW d \in Dispatchers, NEW b \in batch[d], NEW a \in outbox', Precedes(a, b)
               PROVE  Delivered(a) \/ a \in batch[d]
    BY <1>2 DEF ListedTogether, Delivered, Precedes
  <2>1. b \in outbox /\ b.version =< version[b.run] /\ b.version \in Nat
    BY Bounds DEF OutboxTypeOK, Numbered, Row
  <2>2. a \notin Created(r)
    <3> SUFFICES ASSUME a \in Created(r) PROVE FALSE
      OBVIOUS
    <3>1. a.version \in Nat /\ a.run = r /\ a.version > version[r]
      BY <1>4, Bounds DEF Row
    <3> QED
      BY <1>1, <2>1, <3>1 DEF Precedes
  <2> QED
    BY <1>2, <2>2 DEF ListedTogether
<1>13. PublishedIsDelivered' /\ Handed' /\ InOrder'
  BY <1>2 DEF PublishedIsDelivered, Handed, Delivered, InOrder
<1> QED
  BY <1>6, <1>7, <1>8, <1>9, <1>10, <1>11, <1>12, <1>13

\* Another copy of a row.
LEMMA OneMoreCopy ==
    ASSUME OutboxTypeOK, NEW row \in Row,
           copies' = [copies EXCEPT ![row.run][row.version] = @ + 1]
    PROVE  /\ copies' \in [Runs -> [1..MaxVersion -> Nat]]
           /\ copies'[row.run][row.version] > 0
           /\ \A r \in Runs, k \in 1..MaxVersion :
                 /\ copies[r][k] > 0 => copies'[r][k] > 0
                 /\ copies'[r][k] > 0 => copies[r][k] > 0 \/ (r = row.run /\ k = row.version)
                 /\ ~ (r = row.run /\ k = row.version) => copies'[r][k] = copies[r][k]
<1>1. row.run \in Runs /\ row.version \in 1..MaxVersion
  BY DEF Row
<1>2. /\ copies \in [Runs -> [1..MaxVersion -> Nat]]
      /\ copies[row.run] \in [1..MaxVersion -> Nat]
      /\ copies[row.run][row.version] \in Nat
  BY <1>1 DEF OutboxTypeOK
<1>3. copies'[row.run] = [copies[row.run] EXCEPT ![row.version] = @ + 1]
  BY <1>1, <1>2
<1>4. \A r \in Runs \ {row.run} : copies'[r] = copies[r]
  BY <1>1, <1>2
<1>5. copies'[row.run][row.version] = copies[row.run][row.version] + 1
  BY <1>1, <1>2, <1>3
<1>6. \A k \in (1..MaxVersion) \ {row.version} : copies'[row.run][k] = copies[row.run][k]
  BY <1>1, <1>2, <1>3
<1>7. copies' \in [Runs -> [1..MaxVersion -> Nat]]
  <2>1. [copies[row.run] EXCEPT ![row.version] = @ + 1] \in [1..MaxVersion -> Nat]
    BY <1>1, <1>2
  <2> QED
    BY <1>1, <1>2, <2>1
<1> QED
  BY <1>1, <1>2, <1>4, <1>5, <1>6, <1>7

\* Nothing that was delivered is forgotten, and order is kept, when the sink gets
\* the oldest listed row.
LEMMA DeliveryKeepsOrder ==
    ASSUME OutboxInv, NEW d \in Dispatchers, NEW row \in Oldest(batch[d]),
           copies' = [copies EXCEPT ![row.run][row.version] = @ + 1], version' = version
    PROVE  /\ copies' \in [Runs -> [1..MaxVersion -> Nat]]
           /\ Delivered(row)'
           /\ \A a \in outbox : Delivered(a) => Delivered(a)'
           /\ Known' /\ InOrder'
<1>1. /\ row \in outbox /\ row \in Row
      /\ row.run \in Runs /\ row.version \in 1..MaxVersion /\ row.version =< version[row.run]
      /\ \A j \in 1..MaxVersion : j < row.version => copies[row.run][j] > 0
  BY NothingBefore DEF OutboxInv, OutboxTypeOK
<1>2. /\ copies' \in [Runs -> [1..MaxVersion -> Nat]]
      /\ copies'[row.run][row.version] > 0
      /\ \A r \in Runs, k \in 1..MaxVersion :
            /\ copies[r][k] > 0 => copies'[r][k] > 0
            /\ copies'[r][k] > 0 => copies[r][k] > 0 \/ (r = row.run /\ k = row.version)
  BY <1>1, OneMoreCopy DEF OutboxInv
<1>3. Delivered(row)'
  BY <1>2 DEF Delivered
<1>4. ASSUME NEW a \in outbox, Delivered(a) PROVE Delivered(a)'
  <2>1. a.run \in Runs /\ a.version \in 1..MaxVersion
    BY DEF OutboxInv, OutboxTypeOK, Row
  <2> QED
    BY <1>2, <1>4, <2>1 DEF Delivered
<1>5. Known'
  BY <1>1, <1>2 DEF OutboxInv, Known
<1>6. InOrder'
  BY <1>1, <1>2 DEF OutboxInv, InOrder
<1> QED
  BY <1>2, <1>3, <1>4, <1>5, <1>6

\* The steps of a dispatcher keep what concerns transactions and rows.
LEMMA RowsStay ==
    ASSUME OutboxInv, UNCHANGED <<clock, version, open, outbox>>
    PROVE  OpenFits' /\ Numbered' /\ Recorded' /\ InTime'
BY DEF OutboxInv, OpenFits, Numbered, Recorded, InTime

\* A dispatcher that gives up its list.
LEMMA ForgetsEffect ==
    ASSUME OutboxInv, NEW d \in Dispatchers, NEW why \in {"raised", "down"}, Forgets(d, why)
    PROVE  /\ phase' \in [Dispatchers -> {"list", "publish", "mark", "raised", "down"}]
           /\ batch' \in [Dispatchers -> SUBSET outbox]
           /\ current' \in [Dispatchers -> SUBSET outbox]
           /\ batch'[d] = {} /\ current'[d] = {}
           /\ \A e \in Dispatchers \ {d} : batch'[e] = batch[e] /\ current'[e] = current[e]
BY DEF OutboxInv, OutboxTypeOK, Forgets

LEMMA ListStep ==
    ASSUME OutboxInv, NEW d \in Dispatchers, List(d) PROVE OutboxInv'
<1> USE DEF OutboxInv
<1>1. PICK b \in Listings : batch' = [batch EXCEPT ![d] = b]
  BY DEF List
<1>2. /\ UNCHANGED <<clock, version, open, outbox, published, current, copies, crashes, raises>>
      /\ phase' = [phase EXCEPT ![d] = "publish"]
  BY DEF List
<1>3. /\ b \subseteq outbox
      /\ \A row \in b, other \in (outbox \ published) \ b : row.created_at =< other.created_at
  BY DEF Listings, Unpublished
<1>4. OutboxTypeOK'
  BY <1>1, <1>2, <1>3 DEF OutboxTypeOK
<1>5. ListedTogether'
  <2> SUFFICES ASSUME NEW e \in Dispatchers, NEW row \in batch'[e], NEW a \in outbox, Precedes(a, row)
               PROVE  Delivered(a) \/ a \in batch'[e]
    BY <1>2 DEF ListedTogether, Delivered, Precedes
  <2>1. CASE e = d
    <3>1. batch'[d] = b
      BY <1>1 DEF OutboxTypeOK
    <3>2. row \in outbox /\ a.created_at < row.created_at
      BY <1>3, <2>1, <3>1 DEF InTime
    <3>3. row.created_at \in Nat /\ a.created_at \in Nat
      BY <3>2 DEF OutboxTypeOK, Row
    <3>4. CASE a \in published
      BY <3>4 DEF PublishedIsDelivered, Delivered
    <3>5. CASE a \notin published
      BY <1>3, <2>1, <3>1, <3>2, <3>3, <3>5
    <3> QED
      BY <3>4, <3>5
  <2>2. CASE e # d
    <3>1. batch'[e] = batch[e]
      BY <1>1, <2>2 DEF OutboxTypeOK
    <3> QED
      BY <3>1 DEF ListedTogether
  <2> QED
    BY <2>1, <2>2
<1>6. PublishedIsDelivered' /\ Handed'
  BY <1>2 DEF PublishedIsDelivered, Handed, Delivered
<1>7. Known' /\ InOrder'
  BY <1>2 DEF Known, InOrder
<1> QED
  BY <1>2, <1>4, <1>5, <1>6, <1>7, RowsStay

LEMMA PublishStep ==
    ASSUME OutboxInv, NEW d \in Dispatchers, Publish(d) PROVE OutboxInv'
<1> USE DEF OutboxInv
<1>1. PICK row \in Oldest(batch[d]) :
          /\ current' = [current EXCEPT ![d] = {row}]
          /\ batch' = [batch EXCEPT ![d] = @ \ {row}]
          /\ copies' = [copies EXCEPT ![row.run][row.version] = @ + 1]
  BY DEF Publish
<1>2. /\ UNCHANGED <<clock, version, open, outbox, published, crashes, raises>>
      /\ phase' = [phase EXCEPT ![d] = "mark"]
  BY DEF Publish
<1>3. /\ copies' \in [Runs -> [1..MaxVersion -> Nat]]
      /\ Delivered(row)'
      /\ \A a \in outbox : Delivered(a) => Delivered(a)'
      /\ Known' /\ InOrder'
  BY <1>1, <1>2, DeliveryKeepsOrder
<1>4. row \in outbox /\ row \in batch[d]
  BY NothingBefore
<1>5. OutboxTypeOK'
  BY <1>1, <1>2, <1>3, <1>4 DEF OutboxTypeOK
<1>6. /\ current'[d] = {row} /\ batch'[d] = batch[d] \ {row}
      /\ \A e \in Dispatchers \ {d} : batch'[e] = batch[e] /\ current'[e] = current[e]
      /\ \A e \in Dispatchers : current[e] \subseteq outbox /\ batch[e] \subseteq outbox
      /\ published \subseteq outbox
  BY <1>1 DEF OutboxTypeOK
<1>7. PublishedIsDelivered'
  BY <1>2, <1>3, <1>6 DEF PublishedIsDelivered, Delivered
<1>8. Handed'
  BY <1>3, <1>6 DEF Handed
<1>9. ListedTogether'
  BY <1>2, <1>3, <1>6 DEF ListedTogether
<1> QED
  BY <1>2, <1>3, <1>5, <1>7, <1>8, <1>9, RowsStay

LEMMA MarkStep ==
    ASSUME OutboxInv, NEW d \in Dispatchers, Mark(d) PROVE OutboxInv'
<1> USE DEF OutboxInv
<1>1. /\ published' = published \cup current[d]
      /\ current' = [current EXCEPT ![d] = {}]
      /\ phase' = [phase EXCEPT ![d] = IF batch[d] = {} THEN "list" ELSE "publish"]
      /\ UNCHANGED <<clock, version, open, outbox, batch, copies, crashes, raises>>
  BY DEF Mark, Marked
<1>2. OutboxTypeOK'
  BY <1>1 DEF OutboxTypeOK
<1>3. PublishedIsDelivered'
  BY <1>1 DEF PublishedIsDelivered, Handed, Delivered
<1>4. Handed'
  <2>1. current'[d] = {} /\ \A e \in Dispatchers \ {d} : current'[e] = current[e]
    BY <1>1 DEF OutboxTypeOK
  <2> QED
    BY <1>1, <2>1 DEF Handed, Delivered
<1>5. Known' /\ InOrder' /\ ListedTogether'
  BY <1>1 DEF Known, InOrder, ListedTogether, Delivered
<1> QED
  BY <1>1, <1>2, <1>3, <1>4, <1>5, RowsStay

LEMMA RaiseStep ==
    ASSUME OutboxInv, NEW d \in Dispatchers, Raise(d) PROVE OutboxInv'
<1> USE DEF OutboxInv
<1>1. /\ Forgets(d, "raised")
      /\ raises < MaxRaises /\ raises' = raises + 1
      /\ UNCHANGED <<clock, version, open, outbox, crashes>>
  BY DEF Raise
<1>2. /\ phase' \in [Dispatchers -> {"list", "publish", "mark", "raised", "down"}]
      /\ batch' \in [Dispatchers -> SUBSET outbox]
      /\ current' \in [Dispatchers -> SUBSET outbox]
      /\ batch'[d] = {} /\ current'[d] = {}
      /\ \A e \in Dispatchers \ {d} : batch'[e] = batch[e] /\ current'[e] = current[e]
  BY <1>1, ForgetsEffect
<1>3. /\ copies' \in [Runs -> [1..MaxVersion -> Nat]]
      /\ published' \in {published, published \cup current[d]}
      /\ \A a \in outbox : Delivered(a) => Delivered(a)'
      /\ Known' /\ InOrder'
  <2>1. CASE UNCHANGED <<copies, published>>
    BY <1>1, <2>1 DEF OutboxTypeOK, Delivered, Known, InOrder
  <2>2. CASE /\ \E row \in Oldest(batch[d]) :
                    copies' = [copies EXCEPT ![row.run][row.version] = @ + 1]
             /\ UNCHANGED published
    BY <1>1, <2>2, DeliveryKeepsOrder
  <2>3. CASE published' = published \cup Marked(d) /\ UNCHANGED copies
    BY <1>1, <2>3 DEF OutboxTypeOK, Delivered, Known, InOrder, Marked
  <2> QED
    BY <2>1, <2>2, <2>3 DEF Raise
<1>4. OutboxTypeOK'
  <2>1. raises' \in 0..MaxRaises
    BY <1>1, Bounds DEF OutboxTypeOK
  <2> QED
    BY <1>1, <1>2, <1>3, <2>1 DEF OutboxTypeOK
<1>5. PublishedIsDelivered'
  <2>1. \A a \in published \cup current[d] : a \in outbox /\ Delivered(a)
    BY DEF OutboxTypeOK, PublishedIsDelivered, Handed, Delivered
  <2>2. \A a \in published' : Delivered(a)'
    BY <1>3, <2>1
  <2> QED
    BY <2>2 DEF PublishedIsDelivered, Delivered
<1>6. Handed' /\ ListedTogether'
  <2>1. \A e \in Dispatchers : batch[e] \subseteq outbox /\ current[e] \subseteq outbox
    BY DEF OutboxTypeOK
  <2>2. Handed'
    BY <1>2, <1>3, <2>1 DEF Handed
  <2>3. ListedTogether'
    BY <1>1, <1>2, <1>3, <2>1 DEF ListedTogether
  <2> QED
    BY <2>2, <2>3
<1> QED
  BY <1>1, <1>3, <1>4, <1>5, <1>6, RowsStay

LEMMA CrashStep ==
    ASSUME OutboxInv, NEW d \in Dispatchers, Crash(d) \/ Restart(d) PROVE OutboxInv'
<1> USE DEF OutboxInv
<1>1. CASE Crash(d)
  <2>1. /\ Forgets(d, "down") /\ crashes < MaxCrashes /\ crashes' = crashes + 1
        /\ UNCHANGED <<clock, version, open, outbox, published, copies, raises>>
    BY <1>1 DEF Crash
  <2>2. /\ phase' \in [Dispatchers -> {"list", "publish", "mark", "raised", "down"}]
        /\ batch' \in [Dispatchers -> SUBSET outbox]
        /\ current' \in [Dispatchers -> SUBSET outbox]
        /\ batch'[d] = {} /\ current'[d] = {}
        /\ \A e \in Dispatchers \ {d} : batch'[e] = batch[e] /\ current'[e] = current[e]
    BY <2>1, ForgetsEffect
  <2>3. OutboxTypeOK'
    <3>1. crashes' \in 0..MaxCrashes
      BY <2>1, Bounds DEF OutboxTypeOK
    <3> QED
      BY <2>1, <2>2, <3>1 DEF OutboxTypeOK
  <2>4. PublishedIsDelivered' /\ Handed' /\ ListedTogether'
    BY <2>1, <2>2 DEF PublishedIsDelivered, Handed, ListedTogether, Delivered
  <2>5. Known' /\ InOrder'
    BY <2>1 DEF Known, InOrder
  <2> QED
    BY <2>1, <2>3, <2>4, <2>5, RowsStay
<1>2. CASE Restart(d)
  BY <1>2 DEF Restart, OutboxTypeOK, PublishedIsDelivered, Handed, OpenFits, Numbered, Recorded,
     InTime, Known, InOrder, ListedTogether, Delivered
<1> QED
  BY <1>1, <1>2

LEMMA NextOutbox == OutboxInv /\ [Next]_vars => OutboxInv'
<1> SUFFICES ASSUME OutboxInv, [Next]_vars PROVE OutboxInv'
  OBVIOUS
<1>1. CASE UNCHANGED vars
  BY <1>1 DEF vars, OutboxInv, OutboxTypeOK, PublishedIsDelivered, Handed, OpenFits, Numbered,
     Recorded, InTime, Known, InOrder, ListedTogether, Delivered
<1>2. CASE Next
  BY <1>2, BeginStep, CommitStep, ListStep, PublishStep, MarkStep, RaiseStep, CrashStep DEF Next
<1> QED
  BY <1>1, <1>2

\* The invariant the theorems below follow from.
THEOREM OutboxInvHolds == Spec => []OutboxInv
BY InitOutbox, NextOutbox, PTL DEF Spec

-----------------------------------------------------------------------------
\* Every variable keeps its type, and dispatchers hold committed rows only.
THEOREM OutboxTypeCorrect == Spec => []OutboxTypeOK
<1>1. OutboxInv => OutboxTypeOK
  BY DEF OutboxInv
<1> QED
  BY <1>1, OutboxInvHolds, PTL

\* A row has a published_at only after the sink got its event.
THEOREM PublishedWasDelivered == Spec => []PublishedIsDelivered
<1>1. OutboxInv => PublishedIsDelivered
  BY DEF OutboxInv
<1> QED
  BY <1>1, OutboxInvHolds, PTL

-----------------------------------------------------------------------------
(* How often the sink gets an event.                                       *)

\* The row of event k of run r.
IsRow(row, r, k) == row.run = r /\ row.version = k

\* d can hand event k of run r to the sink no more, until its process stops.
Done(d, r, k) ==
    \/ phase[d] = "raised"
    \/ /\ \A row \in batch[d] : ~ IsRow(row, r, k)
       /\ \E row \in published \cup current[d] : IsRow(row, r, k)

DoneWith(r, k) == {d \in Dispatchers : Done(d, r, k)}

\* An event has one row.
Unique == \A a, b \in outbox : a.run = b.run /\ a.version = b.version => a = b

\* A dispatcher holds a row between publish and mark_outbox_published only, and
\* lists again when it has published what it listed.
Holding ==
    \A d \in Dispatchers :
        /\ phase[d] # "mark" => current[d] = {}
        /\ phase[d] \in {"list", "raised", "down"} => batch[d] = {}

\* A dispatcher accounts for one copy for every time it was started.
Counted ==
    \A r \in Runs, k \in 1..MaxVersion :
        copies[r][k] =< crashes + Cardinality(DoneWith(r, k))

CopiesInv == Unique /\ Holding /\ Counted

\* A step that takes no dispatcher out of the count.
LEMMA CountKept ==
    ASSUME OutboxInv, Counted, crashes' = crashes,
           NEW r \in Runs, NEW k \in 1..MaxVersion,
           DoneWith(r, k) \subseteq DoneWith(r, k)',
           \/ copies'[r][k] = copies[r][k]
           \/ /\ copies'[r][k] = copies[r][k] + 1
              /\ \E d \in DoneWith(r, k)' : d \notin DoneWith(r, k)
    PROVE  copies'[r][k] =< crashes' + Cardinality(DoneWith(r, k)')
<1> DEFINE S == DoneWith(r, k)
           T == DoneWith(r, k)'
<1>1. S \in SUBSET Dispatchers /\ T \in SUBSET Dispatchers
  BY DEF DoneWith
<1>2. IsFiniteSet(Dispatchers)
  BY OutboxAssumption
<1>3. IsFiniteSet(S) /\ IsFiniteSet(T)
  BY <1>1, <1>2, FS_Subset
<1>4. Cardinality(S) \in Nat /\ Cardinality(T) \in Nat
  BY <1>3, FS_CardinalityType
<1>5. copies[r][k] =< crashes + Cardinality(S) /\ copies[r][k] \in Nat /\ crashes \in Nat
  BY Bounds DEF Counted, OutboxInv, OutboxTypeOK
<1> HIDE DEF S, T
<1>6. CASE copies'[r][k] = copies[r][k]
  <2>1. Cardinality(S) =< Cardinality(T)
    <3>1. S \in SUBSET T
      BY DEF S, T
    <3> QED
      BY <1>3, <3>1, FS_Subset
  <2> QED
    BY <1>4, <1>5, <1>6, <2>1 DEF T
<1>7. ASSUME copies'[r][k] = copies[r][k] + 1, NEW d \in T, d \notin S
      PROVE  copies'[r][k] =< crashes' + Cardinality(T)
  <2>1. Cardinality(S \cup {d}) = Cardinality(S) + 1
    BY <1>3, <1>7, FS_AddElement
  <2>2. S \cup {d} \in SUBSET T
    BY <1>7 DEF S, T
  <2>3. Cardinality(S \cup {d}) =< Cardinality(T)
    BY <1>3, <2>2, FS_Subset
  <2> QED
    BY <1>4, <1>5, <1>7, <2>1, <2>3
<1> QED
  BY <1>6, <1>7 DEF S, T

\* A dispatcher that is counted stays so while nothing but itself gives it rows.
LEMMA DoneStays ==
    ASSUME NEW d \in Dispatchers, NEW r, NEW k, Done(d, r, k),
           published \subseteq published',
           phase[d] = "raised" => phase'[d] = "raised",
           batch'[d] \subseteq batch[d],
           current[d] \subseteq current'[d] \cup published'
    PROVE  Done(d, r, k)'
BY DEF Done

\* The events of the other transactions have other versions.
LEMMA CommitCopies ==
    ASSUME OutboxInv, CopiesInv, NEW r \in Runs, Commit(r) PROVE CopiesInv'
<1> DEFINE n == open[r].events
           since == open[r].since
<1>1. UNCHANGED <<published, phase, batch, current, copies, crashes>>
      /\ outbox' = outbox \cup Created(r)
  BY DEF Commit
<1>2. n \in 0..MaxVersion /\ since \in Nat /\ version[r] \in 0..MaxVersion
  BY DEF OutboxInv, OutboxTypeOK
<1>3. Created(r) = {[run |-> r, version |-> version[r] + i, created_at |-> since + i] : i \in 1..n}
  BY DEF Created
<1> HIDE DEF n, since
<1>4. \A a, b \in Created(r) : a.version = b.version => a = b
  <2> SUFFICES ASSUME NEW i \in 1..n, NEW j \in 1..n, version[r] + i = version[r] + j
               PROVE  i = j
    BY <1>3
  <2> QED
    BY <1>2, Bounds
<1>5. \A a \in Created(r) : a.run = r /\ a.version \in Nat /\ a.version > version[r]
  BY <1>2, <1>3, Bounds
<1>6. \A a \in outbox : a.version \in Nat /\ a.version =< version[a.run]
  BY Bounds DEF OutboxInv, OutboxTypeOK, Row, Numbered
<1>7. Unique'
  <2> SUFFICES ASSUME NEW a \in outbox', NEW b \in outbox', a.run = b.run, a.version = b.version
               PROVE  a = b
    BY DEF Unique
  <2>1. CASE a \in Created(r) /\ b \in Created(r)
    BY <1>4, <2>1
  <2>2. CASE a \in outbox /\ b \in outbox
    BY <2>2 DEF CopiesInv, Unique
  <2>3. ~ (a \in outbox /\ b \in Created(r)) /\ ~ (a \in Created(r) /\ b \in outbox)
    BY <1>2, <1>5, <1>6, Bounds
  <2> QED
    BY <1>1, <2>1, <2>2, <2>3
<1>8. Holding'
  BY <1>1 DEF CopiesInv, Holding
<1>9. \A s, k : DoneWith(s, k)' = DoneWith(s, k)
  BY <1>1 DEF DoneWith, Done
<1>10. Counted'
  BY <1>1, <1>9 DEF CopiesInv, Counted
<1> QED
  BY <1>7, <1>8, <1>10 DEF CopiesInv

\* What is listed has not been published.
LEMMA ListCopies ==
    ASSUME OutboxInv, CopiesInv, NEW d \in Dispatchers, List(d) PROVE CopiesInv'
<1>1. PICK b \in Listings : batch' = [batch EXCEPT ![d] = b]
  BY DEF List
<1>2. /\ UNCHANGED <<outbox, published, current, copies, crashes>>
      /\ phase[d] = "list" /\ phase' = [phase EXCEPT ![d] = "publish"]
  BY DEF List
<1>3. b \subseteq outbox \ published /\ published \subseteq outbox
  BY DEF Listings, Unpublished, OutboxInv, OutboxTypeOK
<1>4. /\ batch'[d] = b /\ phase'[d] = "publish" /\ current[d] = {}
      /\ \A e \in Dispatchers \ {d} : batch'[e] = batch[e] /\ phase'[e] = phase[e]
  BY <1>1, <1>2 DEF OutboxInv, OutboxTypeOK, CopiesInv, Holding
<1>5. Unique' /\ Holding'
  BY <1>2, <1>4 DEF CopiesInv, Unique, Holding
<1>6. ASSUME NEW r, NEW k, NEW e \in Dispatchers, Done(e, r, k) PROVE Done(e, r, k)'
  <2>1. CASE e # d
    BY <1>2, <1>4, <1>6, <2>1, DoneStays
  <2>2. CASE e = d
    <3>1. PICK row \in published : IsRow(row, r, k)
      BY <1>2, <1>4, <1>6, <2>2 DEF Done
    <3>2. \A other \in b : ~ IsRow(other, r, k)
      BY <1>3, <3>1 DEF IsRow, CopiesInv, Unique
    <3> QED
      BY <1>2, <1>4, <2>2, <3>1, <3>2 DEF Done
  <2> QED
    BY <2>1, <2>2
<1>7. \A r, k : DoneWith(r, k) \subseteq DoneWith(r, k)'
  BY <1>6 DEF DoneWith
<1>8. Counted'
  BY <1>2, <1>7, CountKept DEF CopiesInv, Counted
<1> QED
  BY <1>5, <1>8 DEF CopiesInv

\* The sink gets one more copy from a dispatcher that was not counted, and is then.
LEMMA OneMoreIsCounted ==
    ASSUME OutboxInv, CopiesInv, NEW d \in Dispatchers, NEW row \in Oldest(batch[d]),
           phase[d] = "publish",
           copies' = [copies EXCEPT ![row.run][row.version] = @ + 1], crashes' = crashes,
           \A r, k : DoneWith(r, k) \subseteq DoneWith(r, k)',
           Done(d, row.run, row.version)'
    PROVE  Counted'
<1> SUFFICES ASSUME NEW r \in Runs, NEW k \in 1..MaxVersion
             PROVE  copies'[r][k] =< crashes' + Cardinality(DoneWith(r, k)')
  BY DEF Counted
<1>1. row \in Row /\ row \in batch[d] /\ row.run \in Runs /\ row.version \in 1..MaxVersion
  BY NothingBefore DEF OutboxInv, OutboxTypeOK
<1>2. CASE r = row.run /\ k = row.version
  <2>1. copies'[r][k] = copies[r][k] + 1
    <3>1. copies \in [Runs -> [1..MaxVersion -> Nat]]
      BY DEF OutboxInv, OutboxTypeOK
    <3>2. copies[r] \in [1..MaxVersion -> Nat]
      BY <3>1
    <3>3. copies'[r] = [copies[r] EXCEPT ![k] = @ + 1]
      BY <1>2, <3>1
    <3> QED
      BY <3>2, <3>3
  <2>2. ~ Done(d, r, k)
    BY <1>1, <1>2 DEF Done, IsRow
  <2>3. d \in DoneWith(r, k)' /\ d \notin DoneWith(r, k)
    BY <1>2, <2>2 DEF DoneWith
  <2> QED
    BY <2>1, <2>3, CountKept DEF CopiesInv
<1>3. CASE ~ (r = row.run /\ k = row.version)
  <2>1. copies'[r][k] = copies[r][k]
    BY <1>1, <1>3, OneMoreCopy DEF OutboxInv
  <2> QED
    BY <2>1, CountKept DEF CopiesInv
<1> QED
  BY <1>2, <1>3

LEMMA PublishCopies ==
    ASSUME OutboxInv, CopiesInv, NEW d \in Dispatchers, Publish(d) PROVE CopiesInv'
<1>1. PICK row \in Oldest(batch[d]) :
          /\ current' = [current EXCEPT ![d] = {row}]
          /\ batch' = [batch EXCEPT ![d] = @ \ {row}]
          /\ copies' = [copies EXCEPT ![row.run][row.version] = @ + 1]
  BY DEF Publish
<1>2. /\ UNCHANGED <<outbox, published, crashes>>
      /\ phase[d] = "publish" /\ phase' = [phase EXCEPT ![d] = "mark"]
  BY DEF Publish
<1>3. row \in outbox /\ row \in batch[d] /\ batch[d] \subseteq outbox
  BY NothingBefore DEF OutboxInv, OutboxTypeOK
<1>4. /\ current'[d] = {row} /\ batch'[d] = batch[d] \ {row} /\ phase'[d] = "mark"
      /\ current[d] = {}
      /\ \A e \in Dispatchers \ {d} :
            batch'[e] = batch[e] /\ current'[e] = current[e] /\ phase'[e] = phase[e]
  BY <1>1, <1>2 DEF OutboxInv, OutboxTypeOK, CopiesInv, Holding
<1>5. Unique' /\ Holding'
  BY <1>2, <1>4 DEF CopiesInv, Unique, Holding
<1>6. Done(d, row.run, row.version)'
  BY <1>3, <1>4 DEF Done, IsRow, CopiesInv, Unique
<1>7. ASSUME NEW r, NEW k, NEW e \in Dispatchers, Done(e, r, k) PROVE Done(e, r, k)'
  <2>1. CASE e = d
    BY <1>2, <1>4, <1>7, <2>1, DoneStays
  <2>2. CASE e # d
    BY <1>2, <1>4, <1>7, <2>2, DoneStays
  <2> QED
    BY <2>1, <2>2
<1>8. \A r, k : DoneWith(r, k) \subseteq DoneWith(r, k)'
  BY <1>7 DEF DoneWith
<1>9. Counted'
  BY <1>1, <1>2, <1>6, <1>8, OneMoreIsCounted
<1> QED
  BY <1>5, <1>9 DEF CopiesInv

LEMMA MarkCopies ==
    ASSUME OutboxInv, CopiesInv, NEW d \in Dispatchers, Mark(d) PROVE CopiesInv'
<1>1. /\ published' = published \cup current[d]
      /\ current' = [current EXCEPT ![d] = {}]
      /\ phase[d] = "mark"
      /\ phase' = [phase EXCEPT ![d] = IF batch[d] = {} THEN "list" ELSE "publish"]
      /\ UNCHANGED <<outbox, batch, copies, crashes>>
  BY DEF Mark, Marked
<1>2. /\ current'[d] = {} /\ phase'[d] # "raised"
      /\ phase'[d] \in {"list", "raised", "down"} => batch[d] = {}
      /\ \A e \in Dispatchers \ {d} : current'[e] = current[e] /\ phase'[e] = phase[e]
  BY <1>1 DEF OutboxInv, OutboxTypeOK
<1>3. Unique' /\ Holding'
  BY <1>1, <1>2 DEF CopiesInv, Unique, Holding
<1>4. ASSUME NEW r, NEW k, NEW e \in Dispatchers, Done(e, r, k) PROVE Done(e, r, k)'
  <2>1. CASE e = d
    BY <1>1, <1>2, <1>4, <2>1, DoneStays
  <2>2. CASE e # d
    BY <1>1, <1>2, <1>4, <2>2, DoneStays
  <2> QED
    BY <2>1, <2>2
<1>5. \A r, k : DoneWith(r, k) \subseteq DoneWith(r, k)'
  BY <1>4 DEF DoneWith
<1>6. Counted'
  BY <1>1, <1>5, CountKept DEF CopiesInv, Counted
<1> QED
  BY <1>3, <1>6 DEF CopiesInv

\* What a dispatcher that gives up its list looks like.
LEMMA ForgetsHolding ==
    ASSUME OutboxInv, Holding, NEW d \in Dispatchers, NEW why \in {"raised", "down"},
           Forgets(d, why)
    PROVE  /\ Holding'
           /\ phase'[d] = why /\ batch'[d] = {} /\ current'[d] = {}
           /\ \A e \in Dispatchers \ {d} :
                 batch'[e] = batch[e] /\ current'[e] = current[e] /\ phase'[e] = phase[e]
BY DEF OutboxInv, OutboxTypeOK, Forgets, Holding

\* A thread that raised is counted whatever it had published: it ended.
LEMMA RaiseCopies ==
    ASSUME OutboxInv, CopiesInv, NEW d \in Dispatchers, Raise(d) PROVE CopiesInv'
<1>1. /\ Forgets(d, "raised")
      /\ UNCHANGED <<outbox, crashes>>
      /\ published \subseteq published'
  BY DEF Raise
<1>2. /\ Holding'
      /\ phase'[d] = "raised"
      /\ \A e \in Dispatchers \ {d} :
            batch'[e] = batch[e] /\ current'[e] = current[e] /\ phase'[e] = phase[e]
  BY <1>1, ForgetsHolding DEF CopiesInv
<1>3. Unique'
  BY <1>1 DEF CopiesInv, Unique
<1>4. ASSUME NEW r, NEW k, NEW e \in Dispatchers, Done(e, r, k) PROVE Done(e, r, k)'
  <2>1. CASE e = d
    BY <1>2, <2>1 DEF Done
  <2>2. CASE e # d
    BY <1>1, <1>2, <1>4, <2>2, DoneStays
  <2> QED
    BY <2>1, <2>2
<1>5. \A r, k : DoneWith(r, k) \subseteq DoneWith(r, k)'
  BY <1>4 DEF DoneWith
<1>6. ASSUME copies' = copies PROVE Counted'
  BY <1>1, <1>5, <1>6, CountKept DEF CopiesInv, Counted
<1>7. ASSUME phase[d] = "publish", NEW row \in Oldest(batch[d]),
             copies' = [copies EXCEPT ![row.run][row.version] = @ + 1]
      PROVE  Counted'
  <2>1. Done(d, row.run, row.version)'
    BY <1>2 DEF Done
  <2> QED
    BY <1>1, <1>5, <1>7, <2>1, OneMoreIsCounted
<1>8. Counted'
  <2>1. \/ copies' = copies
        \/ /\ phase[d] = "publish"
           /\ \E row \in Oldest(batch[d]) :
                 copies' = [copies EXCEPT ![row.run][row.version] = @ + 1]
    BY DEF Raise
  <2> QED
    BY <1>6, <1>7, <2>1
<1> QED
  BY <1>2, <1>3, <1>8 DEF CopiesInv

\* The process that stops takes at most its own dispatcher out of the count.
LEMMA CrashCopies ==
    ASSUME OutboxInv, CopiesInv, NEW d \in Dispatchers, Crash(d) PROVE CopiesInv'
<1>1. /\ Forgets(d, "down")
      /\ crashes' = crashes + 1
      /\ UNCHANGED <<outbox, published, copies>>
  BY DEF Crash
<1>2. /\ Holding'
      /\ \A e \in Dispatchers \ {d} :
            batch'[e] = batch[e] /\ current'[e] = current[e] /\ phase'[e] = phase[e]
  BY <1>1, ForgetsHolding DEF CopiesInv
<1>3. Unique'
  BY <1>1 DEF CopiesInv, Unique
<1>4. ASSUME NEW r \in Runs, NEW k \in 1..MaxVersion
      PROVE  copies'[r][k] =< crashes' + Cardinality(DoneWith(r, k)')
  <2> DEFINE S == DoneWith(r, k)
             T == DoneWith(r, k)'
  <2>1. ASSUME NEW e \in S \ {d} PROVE e \in T
    BY <1>1, <1>2, <2>1, DoneStays DEF DoneWith
  <2>2. S \in SUBSET Dispatchers /\ T \in SUBSET Dispatchers /\ IsFiniteSet(Dispatchers)
    BY OutboxAssumption DEF DoneWith
  <2>3. copies[r][k] =< crashes + Cardinality(S) /\ copies[r][k] \in Nat /\ crashes \in Nat
    BY Bounds DEF CopiesInv, Counted, OutboxInv, OutboxTypeOK
  <2> HIDE DEF S, T
  <2>4. IsFiniteSet(S) /\ IsFiniteSet(T)
    BY <2>2, FS_Subset
  <2>5. Cardinality(S) \in Nat /\ Cardinality(T) \in Nat
    BY <2>4, FS_CardinalityType
  <2>6. Cardinality(S \ {d}) = IF d \in S THEN Cardinality(S) - 1 ELSE Cardinality(S)
    BY <2>4, FS_RemoveElement
  <2>7. Cardinality(S \ {d}) =< Cardinality(T)
    <3>1. S \ {d} \in SUBSET T
      BY <2>1
    <3> QED
      BY <2>4, <3>1, FS_Subset
  <2>8. Cardinality(S) =< Cardinality(T) + 1
    BY <2>5, <2>6, <2>7
  <2> QED
    BY <1>1, <2>3, <2>5, <2>8 DEF T
<1> QED
  BY <1>2, <1>3, <1>4 DEF CopiesInv, Counted

LEMMA RestartCopies ==
    ASSUME OutboxInv, CopiesInv, NEW d \in Dispatchers, Restart(d) PROVE CopiesInv'
<1>1. /\ phase[d] = "down" /\ phase' = [phase EXCEPT ![d] = "list"]
      /\ UNCHANGED <<outbox, published, batch, current, copies, crashes>>
  BY DEF Restart
<1>2. phase'[d] = "list" /\ \A e \in Dispatchers \ {d} : phase'[e] = phase[e]
  BY <1>1 DEF OutboxInv, OutboxTypeOK
<1>3. Unique' /\ Holding'
  BY <1>1, <1>2 DEF CopiesInv, Unique, Holding
<1>4. \A r, k : DoneWith(r, k) \subseteq DoneWith(r, k)'
  BY <1>1, <1>2 DEF DoneWith, Done
<1>5. Counted'
  BY <1>1, <1>4, CountKept DEF CopiesInv, Counted
<1> QED
  BY <1>3, <1>5 DEF CopiesInv

LEMMA InitCopies == Init => CopiesInv
<1> SUFFICES ASSUME Init PROVE CopiesInv
  OBVIOUS
<1>1. ASSUME NEW r \in Runs, NEW k \in 1..MaxVersion
      PROVE  copies[r][k] =< crashes + Cardinality(DoneWith(r, k))
  <2>1. DoneWith(r, k) \in SUBSET Dispatchers
    BY DEF DoneWith
  <2>2. IsFiniteSet(DoneWith(r, k))
    BY <2>1, OutboxAssumption, FS_Subset
  <2>3. Cardinality(DoneWith(r, k)) \in Nat
    BY <2>2, FS_CardinalityType
  <2>4. copies[r][k] = 0 /\ crashes = 0
    BY DEF Init
  <2> QED
    BY <2>3, <2>4
<1> QED
  BY <1>1 DEF Init, CopiesInv, Unique, Holding, Counted

LEMMA NextCopies == OutboxInv /\ CopiesInv /\ [Next]_vars => CopiesInv'
<1> SUFFICES ASSUME OutboxInv, CopiesInv, [Next]_vars PROVE CopiesInv'
  OBVIOUS
<1>1. ASSUME UNCHANGED <<outbox, published, phase, batch, current, copies, crashes>>
      PROVE  CopiesInv'
  BY <1>1 DEF CopiesInv, Unique, Holding, Counted, DoneWith, Done
<1>2. CASE UNCHANGED vars
  BY <1>1, <1>2 DEF vars
<1>3. CASE \E r \in Runs : Begin(r)
  BY <1>1, <1>3 DEF Begin
<1> QED
  BY <1>2, <1>3, CommitCopies, ListCopies, PublishCopies, MarkCopies, RaiseCopies, CrashCopies,
     RestartCopies DEF Next

\* A thread never hands over again what it handed over: the sink gets an event
\* at most once from each dispatcher and each start after a crash.
THEOREM SinkGetsFewCopies == Spec => []CopiesAreBounded
<1>1. OutboxInv /\ CopiesInv => CopiesAreBounded
  <2> SUFFICES ASSUME OutboxInv, CopiesInv, NEW r \in Runs, NEW k \in 1..MaxVersion
               PROVE  copies[r][k] =< Cardinality(Dispatchers) + crashes
    BY DEF CopiesAreBounded
  <2>1. DoneWith(r, k) \in SUBSET Dispatchers /\ IsFiniteSet(Dispatchers)
    BY OutboxAssumption DEF DoneWith
  <2>2. Cardinality(DoneWith(r, k)) =< Cardinality(Dispatchers)
        /\ IsFiniteSet(DoneWith(r, k))
    BY <2>1, FS_Subset
  <2>3. Cardinality(DoneWith(r, k)) \in Nat /\ Cardinality(Dispatchers) \in Nat
    BY <2>1, <2>2, FS_CardinalityType
  <2>4. copies[r][k] =< crashes + Cardinality(DoneWith(r, k))
        /\ copies[r][k] \in Nat /\ crashes \in Nat
    BY Bounds DEF CopiesInv, Counted, OutboxInv, OutboxTypeOK
  <2> QED
    BY <2>2, <2>3, <2>4
<1>2. Spec => []CopiesInv
  BY InitCopies, NextCopies, OutboxInvHolds, PTL DEF Spec
<1> QED
  BY <1>1, <1>2, OutboxInvHolds, PTL

-----------------------------------------------------------------------------
(* The refinement.                                                         *)

\* n is the highest version of which there is a copy.
UpToVersion(counts, n) ==
    /\ n > 0 => counts[n] > 0
    /\ \A k \in n + 1..MaxVersion : counts[k] = 0

HeardSome == \A r \in Runs : \E n \in 0..MaxVersion : UpToVersion(copies[r], n)

LEMMA HighestIs ==
    ASSUME NEW counts, NEW n \in 0..MaxVersion, UpToVersion(counts, n)
    PROVE  Highest(counts) = n
<1>1. ASSUME NEW m \in 0..MaxVersion, UpToVersion(counts, m) PROVE m = n
  <2>1. CASE m < n
    <3>1. n \in m + 1..MaxVersion /\ n > 0
      BY <2>1, Bounds
    <3>2. counts[n] = 0 /\ counts[n] > 0
      BY <1>1, <3>1 DEF UpToVersion
    <3> QED
      BY <3>2
  <2>2. CASE n < m
    <3>1. m \in n + 1..MaxVersion /\ m > 0
      BY <2>2, Bounds
    <3>2. counts[m] = 0 /\ counts[m] > 0
      BY <1>1, <3>1 DEF UpToVersion
    <3> QED
      BY <3>2
  <2> QED
    BY <2>1, <2>2, Bounds
<1>2. Highest(counts) = CHOOSE m \in 0..MaxVersion : UpToVersion(counts, m)
  BY DEF Highest, UpToVersion
<1> QED
  BY <1>1, <1>2

\* A row that a dispatcher hands to the sink was heard before or is heard next.
LEMMA HeardNext ==
    ASSUME OutboxInv, HeardSome, NEW d \in Dispatchers, NEW row \in Oldest(batch[d]),
           copies' = [copies EXCEPT ![row.run][row.version] = @ + 1]
    PROVE  /\ HeardSome'
           /\ \A s \in Runs \ {row.run} : Heard(s)' = Heard(s)
           /\ row.run \in Runs
           /\ \/ Heard(row.run)' = Heard(row.run)
              \/ /\ Heard(row.run)' = Heard(row.run) + 1
                 /\ Heard(row.run) < version[row.run]
<1> DEFINE r == row.run
           v == row.version
<1>1. /\ row \in Row /\ r \in Runs /\ v \in 1..MaxVersion /\ v =< version[r]
      /\ \A j \in 1..MaxVersion : j < v => copies[r][j] > 0
      /\ version[r] \in 0..MaxVersion
  BY NothingBefore DEF OutboxInv, OutboxTypeOK
<1>2. /\ copies'[r][v] > 0
      /\ \A k \in 1..MaxVersion :
            /\ copies[r][k] > 0 => copies'[r][k] > 0
            /\ k # v => copies'[r][k] = copies[r][k]
      /\ \A s \in Runs \ {r} : copies'[s] = copies[s]
  BY <1>1, OneMoreCopy DEF OutboxInv, OutboxTypeOK
<1> HIDE DEF r, v
<1>3. ASSUME NEW s \in Runs \ {r}
      PROVE  Heard(s)' = Heard(s) /\ \E n \in 0..MaxVersion : UpToVersion(copies'[s], n)
  BY <1>2 DEF HeardSome, Heard
<1>4. PICK n \in 0..MaxVersion : UpToVersion(copies[r], n)
  BY <1>1 DEF HeardSome
<1>5. Heard(r) = n
  BY <1>4, HighestIs DEF Heard
<1>6. CASE v =< n
  <2>1. UpToVersion(copies'[r], n)
    <3>1. n > 0 => copies'[r][n] > 0
      BY <1>2, <1>4, Bounds DEF UpToVersion
    <3>2. ASSUME NEW k \in n + 1..MaxVersion PROVE copies'[r][k] = 0
      <4>1. k \in 1..MaxVersion /\ k # v
        BY <1>1, <1>6, Bounds
      <4> QED
        BY <1>2, <1>4, <4>1 DEF UpToVersion
    <3> QED
      BY <3>1, <3>2 DEF UpToVersion
  <2>2. Heard(r)' = n
    BY <2>1, HighestIs DEF Heard
  <2> QED
    BY <1>1, <1>3, <1>5, <2>1, <2>2 DEF HeardSome, r
<1>7. CASE v > n
  <2>1. v = n + 1
    <3> SUFFICES ASSUME v # n + 1 PROVE FALSE
      OBVIOUS
    <3>1. n + 1 \in 1..MaxVersion /\ n + 1 < v
      BY <1>1, <1>7, Bounds
    <3>2. copies[r][n + 1] > 0 /\ copies[r][n + 1] = 0
      BY <1>1, <1>4, <3>1, Bounds DEF UpToVersion
    <3> QED
      BY <3>2
  <2>2. UpToVersion(copies'[r], n + 1)
    <3>1. ASSUME NEW k \in n + 1 + 1..MaxVersion PROVE copies'[r][k] = 0
      <4>1. k \in 1..MaxVersion /\ k # v /\ k \in n + 1..MaxVersion
        BY <1>1, <2>1, Bounds
      <4> QED
        BY <1>2, <1>4, <4>1 DEF UpToVersion
    <3> QED
      BY <1>2, <2>1, <3>1 DEF UpToVersion
  <2>3. n + 1 \in 0..MaxVersion /\ n < version[r]
    BY <1>1, <2>1, Bounds
  <2>4. Heard(r)' = n + 1
    BY <2>2, <2>3, HighestIs DEF Heard
  <2> QED
    BY <1>1, <1>3, <1>5, <2>2, <2>3, <2>4 DEF HeardSome, r
<1> QED
  BY <1>1, <1>4, <1>6, <1>7, Bounds

LEMMA InitHeard == Init => HeardSome /\ Stream!Init
<1> SUFFICES ASSUME Init PROVE HeardSome /\ Stream!Init
  OBVIOUS
<1>1. ASSUME NEW r \in Runs PROVE UpToVersion(copies[r], 0) /\ 0 \in 0..MaxVersion
  BY Bounds DEF Init, UpToVersion
<1>2. \A r \in Runs : Heard(r) = 0
  BY <1>1, HighestIs DEF Heard
<1> QED
  BY <1>1, <1>2 DEF HeardSome, Stream!Init, Init

\* Steps that bring nothing to the sink and record nothing.
LEMMA NothingHeard ==
    ASSUME HeardSome, UNCHANGED <<version, copies>>
    PROVE  HeardSome' /\ UNCHANGED Stream!vars
BY DEF HeardSome, Heard, Stream!vars

LEMMA DeliveryRefines ==
    ASSUME OutboxInv, HeardSome, NEW d \in Dispatchers, NEW row \in Oldest(batch[d]),
           copies' = [copies EXCEPT ![row.run][row.version] = @ + 1], version' = version
    PROVE  HeardSome' /\ [Stream!Next]_(Stream!vars)
<1> DEFINE heard == [s \in Runs |-> Heard(s)]
           r == row.run
<1>1. /\ HeardSome'
      /\ \A s \in Runs \ {r} : Heard(s)' = Heard(s)
      /\ r \in Runs
      /\ \/ Heard(r)' = Heard(r)
         \/ Heard(r)' = Heard(r) + 1 /\ Heard(r) < version[r]
  BY HeardNext
<1>2. CASE Heard(r)' = Heard(r)
  <2>1. \A s \in Runs : Heard(s)' = Heard(s)
    BY <1>1, <1>2
  <2> QED
    BY <1>1, <2>1 DEF Stream!vars
<1>3. CASE Heard(r)' = Heard(r) + 1 /\ Heard(r) < version[r]
  <2>1. heard' = [heard EXCEPT ![r] = @ + 1]
    BY <1>1, <1>3
  <2>2. heard[r] < version[r]
    BY <1>1, <1>3
  <2>3. Stream!Hear(r)
    BY <2>1, <2>2 DEF Stream!Hear
  <2> QED
    BY <1>1, <2>3 DEF Stream!Next
<1> QED
  BY <1>1, <1>2, <1>3

LEMMA StepRefines ==
    ASSUME OutboxInv, HeardSome, [Next]_vars
    PROVE  HeardSome' /\ [Stream!Next]_(Stream!vars)
<1>1. CASE UNCHANGED vars
  BY <1>1, NothingHeard DEF vars
<1>2. CASE \E r \in Runs : Begin(r)
  BY <1>2, NothingHeard DEF Begin
<1>3. ASSUME NEW r \in Runs, Commit(r) PROVE HeardSome' /\ [Stream!Next]_(Stream!vars)
  <2>1. /\ open[r].events \in 1..MaxVersion /\ version[r] \in 0..MaxVersion
        /\ version[r] + open[r].events =< MaxVersion
    BY <1>3, Bounds DEF Commit, OutboxInv, OutboxTypeOK, OpenFits
  <2>2. open[r].events \in 1..MaxVersion - version[r]
    BY <2>1, Bounds
  <2>3. copies' = copies /\ version' = [version EXCEPT ![r] = @ + open[r].events]
    BY <1>3 DEF Commit
  <2>4. HeardSome' /\ \A s \in Runs : Heard(s)' = Heard(s)
    BY <2>3 DEF HeardSome, Heard
  <2>5. Stream!Record(r)
    BY <2>2, <2>3, <2>4 DEF Stream!Record
  <2> QED
    BY <2>4, <2>5 DEF Stream!Next
<1>4. CASE \E d \in Dispatchers : List(d) \/ Mark(d) \/ Crash(d) \/ Restart(d)
  BY <1>4, NothingHeard DEF List, Mark, Crash, Restart
<1>5. ASSUME NEW d \in Dispatchers, Publish(d) PROVE HeardSome' /\ [Stream!Next]_(Stream!vars)
  BY <1>5, DeliveryRefines DEF Publish
<1>6. ASSUME NEW d \in Dispatchers, Raise(d) PROVE HeardSome' /\ [Stream!Next]_(Stream!vars)
  <2>1. version' = version
    BY <1>6 DEF Raise
  <2>2. CASE copies' = copies
    BY <2>1, <2>2, NothingHeard
  <2>3. CASE \E row \in Oldest(batch[d]) :
                copies' = [copies EXCEPT ![row.run][row.version] = @ + 1]
    BY <2>1, <2>3, DeliveryRefines
  <2> QED
    BY <1>6, <2>2, <2>3 DEF Raise
<1> QED
  BY <1>1, <1>2, <1>3, <1>4, <1>5, <1>6 DEF Next

\* The outbox implements the stream of events: each transaction records events
\* of one run, and each delivery is the next event of its run or a repetition.
THEOREM OutboxImplementsStream == Spec => ImplementsStreamSafely
<1>1. Init => Stream!Init /\ HeardSome
  BY InitHeard
<1>2. OutboxInv /\ HeardSome /\ [Next]_vars => HeardSome' /\ [Stream!Next]_(Stream!vars)
  BY StepRefines
<1> QED
  BY <1>1, <1>2, OutboxInvHolds, PTL DEF Spec, ImplementsStreamSafely, Stream!SafetySpec

=============================================================================
