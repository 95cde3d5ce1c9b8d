---------------------- MODULE ServiceEventOutboxProofs ----------------------
(***************************************************************************)
(* Proofs about ServiceEventOutbox for any number of workers, events,      *)
(* attempts and faults.                                                    *)
(***************************************************************************)
EXTENDS ServiceEventOutbox, FiniteSetTheorems, TLAPS

\* The row a worker has in hand belongs to its batch, and has been delivered
\* when it is about to be marked.
HandOK(w) ==
  /\ w.pc \in {"mark", "fail"} => w.row \in w.batch
  /\ w.pc = "mark" => w.row \in delivered

\* The inductive invariant.
OutboxInv ==
  /\ TypeOK
  /\ \A r \in Relay : HandOK(relay[r])
  /\ PublishedWasDelivered

\* A fault leaves a budget.
LEMMA FaultType == ASSUME TypeOK, Fault PROVE budget' \in Nat
BY DEF TypeOK, Fault

\* A step of one worker that leaves the rows alone, hands out no row and takes
\* back no delivery.
LEMMA WorkerStep ==
  ASSUME OutboxInv, NEW r \in Relay, NEW w \in Worker,
         relay' = [relay EXCEPT ![r] = w],
         w.batch \subseteq relay[r].batch,
         UNCHANGED rows,
         delivered \subseteq delivered', delivered' \subseteq Event,
         budget' \in Nat,
         w.pc \in {"mark", "fail"} => w.row \in w.batch,
         w.pc = "mark" => w.row \in delivered'
  PROVE  OutboxInv'
<1>1. TypeOK'
  BY DEF OutboxInv, TypeOK
<1>2. \A q \in Relay : relay'[q] = IF q = r THEN w ELSE relay[q]
  BY DEF OutboxInv, TypeOK
<1>3. \A q \in Relay : HandOK(relay[q])'
  BY <1>2 DEF OutboxInv, HandOK
<1>4. PublishedWasDelivered'
  BY DEF OutboxInv, PublishedWasDelivered
<1> QED BY <1>1, <1>3, <1>4 DEF OutboxInv

\* A step of one worker that also writes the row it has in hand.
LEMMA OutcomeStep ==
  ASSUME OutboxInv, NEW r \in Relay, NEW row \in Row, NEW w \in Worker,
         relay[r].pc \in {"mark", "fail"},
         rows' = [rows EXCEPT ![relay[r].row] = row],
         relay' = [relay EXCEPT ![r] = w],
         w.pc \in {"mark", "fail"} => w.row \in w.batch,
         w.pc # "mark",
         row.status = "published" => relay[r].row \in delivered,
         UNCHANGED delivered, budget' \in Nat
  PROVE  OutboxInv'
<1> DEFINE e == relay[r].row
<1>1. e \in Event /\ rows \in [Event -> Row]
  BY DEF OutboxInv, TypeOK, HandOK, Worker
<1>2. \A q \in Relay : relay'[q] = IF q = r THEN w ELSE relay[q]
  BY DEF OutboxInv, TypeOK
<1>3. TypeOK'
  BY <1>1 DEF OutboxInv, TypeOK
<1>4. \A q \in Relay : HandOK(relay[q])'
  BY <1>2 DEF OutboxInv, HandOK
<1>5. PublishedWasDelivered'
  <2> SUFFICES ASSUME NEW f \in Event, rows'[f].status = "published" PROVE f \in delivered
    BY DEF PublishedWasDelivered
  <2>1. rows'[f] = IF f = e THEN row ELSE rows[f]
    BY <1>1
  <2> QED BY <2>1 DEF OutboxInv, PublishedWasDelivered
<1> QED BY <1>3, <1>4, <1>5 DEF OutboxInv

\* The three ways a worker leaves the row in hand: on to the next row, into the
\* catch block, or back to polling with its batch dropped.
LEMMA Leaves ==
  ASSUME OutboxInv, NEW r \in Relay, relay[r].pc \in {"mark", "fail"},
         \/ relay' = Advance(r)
         \/ relay' = [relay EXCEPT ![r].pc = "fail"]
         \/ relay' = [relay EXCEPT ![r].pc = "poll", ![r].batch = {}, ![r].row = NoEvent]
  PROVE  /\ relay[r].row \in relay[r].batch /\ relay[r].row \in Event
         /\ \E w \in Worker :
              /\ relay' = [relay EXCEPT ![r] = w]
              /\ w.batch \subseteq relay[r].batch
              /\ w.pc \in {"mark", "fail"} => w.row \in w.batch
              /\ w.pc # "mark"
              /\ relay' = [relay EXCEPT ![r].pc = "fail"] \/ relay[r].row \notin w.batch
<1> DEFINE e == relay[r].row
           rest == relay[r].batch \ {e}
<1>1. /\ relay[r] \in Worker /\ e \in relay[r].batch /\ e \in Event
  BY DEF OutboxInv, TypeOK, HandOK, Worker
<1>2. CASE relay' = Advance(r)
  <2> DEFINE w == [relay[r] EXCEPT !.batch = rest, !.row = NoEvent,
                                   !.pc = IF rest = {} THEN "poll" ELSE "publish"]
  <2>1. w \in Worker /\ w.batch = rest /\ w.pc \in {"poll", "publish"}
    BY <1>1 DEF Worker
  <2>2. relay' = [relay EXCEPT ![r] = w]
    BY <1>2 DEF Advance
  <2> HIDE DEF w
  <2> QED BY <1>1, <2>1, <2>2
<1>3. CASE relay' = [relay EXCEPT ![r].pc = "fail"]
  <2> DEFINE w == [relay[r] EXCEPT !.pc = "fail"]
  <2>1. w \in Worker /\ w.batch = relay[r].batch /\ w.pc = "fail" /\ w.row = e
    BY <1>1 DEF Worker
  <2>2. relay' = [relay EXCEPT ![r] = w]
    BY <1>3
  <2> HIDE DEF w
  <2> QED BY <1>1, <1>3, <2>1, <2>2
<1>4. CASE relay' = [relay EXCEPT ![r].pc = "poll", ![r].batch = {}, ![r].row = NoEvent]
  <2> DEFINE w == [relay[r] EXCEPT !.pc = "poll", !.batch = {}, !.row = NoEvent]
  <2>1. w \in Worker /\ w.batch = {} /\ w.pc = "poll"
    BY <1>1 DEF Worker
  <2>2. relay' = [relay EXCEPT ![r] = w]
    BY <1>4
  <2> HIDE DEF w
  <2> QED BY <1>1, <2>1, <2>2
<1> QED BY <1>2, <1>3, <1>4

\* A failure that is counted leaves a row of its type, and never a published one.
LEMMA FailedRow ==
  ASSUME NEW row \in Row
  PROVE  /\ Failed(row) \in Row /\ Failed(row).attempts = row.attempts + 1
         /\ Failed(row).status \in {"pending", "failed"}
         /\ Failed(row).status = "pending" => row.attempts + 1 < MaxAttempts
<1>1. row.attempts \in Nat /\ row.attempts + 1 \in Nat /\ MaxAttempts \in Nat
  BY OutboxAssumption DEF Row
<1>2. CASE row.attempts + 1 >= MaxAttempts
  BY <1>1, <1>2 DEF Row, Failed
<1>3. CASE ~(row.attempts + 1 >= MaxAttempts)
  <2>1. row.attempts + 1 < MaxAttempts
    BY <1>1, <1>3
  <2>2. Failed(row) = [row EXCEPT !.attempts = @ + 1, !.status = "pending", !.due = FALSE]
    BY <1>3 DEF Failed
  <2> QED BY <1>1, <2>1, <2>2 DEF Row
<1> QED BY <1>2, <1>3

\* Claiming.
LEMMA ClaimKeeps == ASSUME OutboxInv, NEW r \in Relay, Claim(r) PROVE OutboxInv'
<1> DEFINE b == Oldest(Eligible)
           w == [relay[r] EXCEPT !.pc = "commit", !.batch = b]
<1>1. b \subseteq Event
  BY DEF Oldest, Eligible
<1> HIDE DEF b
<1>2. /\ w \in Worker /\ w.pc = "commit"
      /\ relay' = [relay EXCEPT ![r] = w]
      /\ UNCHANGED <<rows, delivered, budget>>
  <2>1. relay[r] \in Worker
    BY DEF OutboxInv, TypeOK
  <2>2. w \in Worker /\ w.pc = "commit"
    BY <2>1, <1>1 DEF Worker
  <2> QED BY <2>2 DEF Claim, b
<1> HIDE DEF w
<1>3. \A q \in Relay : relay'[q] = IF q = r THEN w ELSE relay[q]
  BY <1>2 DEF OutboxInv, TypeOK
<1>4. TypeOK'
  BY <1>2 DEF OutboxInv, TypeOK
<1>5. \A q \in Relay : HandOK(relay[q])'
  BY <1>2, <1>3 DEF OutboxInv, HandOK
<1>6. PublishedWasDelivered'
  BY <1>2 DEF OutboxInv, PublishedWasDelivered
<1> QED BY <1>4, <1>5, <1>6 DEF OutboxInv

\* Every step of the specification keeps the invariant.
LEMMA NextKeeps == ASSUME OutboxInv, [Next]_vars PROVE OutboxInv'
<1>0. /\ TypeOK /\ budget \in Nat /\ delivered \subseteq Event
      /\ \A r \in Relay : relay[r] \in Worker /\ HandOK(relay[r])
      /\ \A e \in Event : rows[e] \in Row
  BY DEF OutboxInv, TypeOK
<1>1. CASE UNCHANGED vars
  BY <1>1 DEF vars, OutboxInv, TypeOK, HandOK, PublishedWasDelivered
<1>2. ASSUME NEW e \in Event, rows' = [rows EXCEPT ![e] = rows'[e]], rows'[e] \in Row,
             rows'[e].status # "published", UNCHANGED <<relay, delivered, budget>>
      PROVE  OutboxInv'
  <2>1. TypeOK'
    BY <1>2 DEF OutboxInv, TypeOK
  <2>2. PublishedWasDelivered'
    BY <1>0, <1>2 DEF OutboxInv, TypeOK, PublishedWasDelivered
  <2> QED BY <1>2, <2>1, <2>2 DEF OutboxInv, HandOK
<1>3. ASSUME NEW e \in Event, Insert(e) PROVE OutboxInv'
  <2> DEFINE n == Cardinality({f \in Event : rows[f].status # "none"})
             new == [status |-> "pending", attempts |-> 0, due |-> TRUE, created |-> n]
  <2>1. n \in Nat
    BY OutboxAssumption, FS_Subset, FS_CardinalityType
  <2> HIDE DEF n
  <2>2. new \in Row /\ new.status # "published"
    BY <2>1 DEF Row
  <2>3. rows' = [rows EXCEPT ![e] = new] /\ UNCHANGED <<relay, delivered, budget>>
    BY <1>3 DEF Insert, n
  <2> HIDE DEF new
  <2>4. rows'[e] = new
    BY <1>0, <2>3 DEF TypeOK
  <2> QED BY <1>2, <2>2, <2>3, <2>4
<1>4. ASSUME NEW e \in Event, Due(e) PROVE OutboxInv'
  <2> DEFINE new == [rows[e] EXCEPT !.due = TRUE]
  <2>1. new \in Row /\ new.status = rows[e].status
    BY <1>0 DEF Row
  <2>2. rows' = [rows EXCEPT ![e] = new] /\ rows[e].status = "pending"
        /\ UNCHANGED <<relay, delivered, budget>>
    BY <1>4 DEF Due
  <2> HIDE DEF new
  <2>3. rows'[e] = new
    BY <1>0, <2>2 DEF TypeOK
  <2> QED BY <1>2, <2>1, <2>2, <2>3
<1>5. ASSUME NEW r \in Relay, Crash(r) PROVE OutboxInv'
  <2>1. FreshWorker \in Worker /\ FreshWorker.pc = "poll" /\ FreshWorker.batch = {}
    BY DEF FreshWorker, Worker
  <2>2. /\ relay' = [relay EXCEPT ![r] = FreshWorker] /\ UNCHANGED <<rows, delivered>>
        /\ budget' \in Nat
    BY <1>0, <1>5, FaultType DEF Crash
  <2> QED BY <1>0, <2>1, <2>2, WorkerStep
<1>6. ASSUME NEW r \in Relay, Commit(r) PROVE OutboxInv'
  <2>1. CASE relay' = [relay EXCEPT ![r].pc = "publish"] /\ UNCHANGED budget
    <3> DEFINE w == [relay[r] EXCEPT !.pc = "publish"]
    <3>1. w \in Worker /\ w.batch = relay[r].batch /\ w.pc = "publish"
      BY <1>0 DEF Worker
    <3>2. relay' = [relay EXCEPT ![r] = w] /\ UNCHANGED <<rows, delivered>>
      BY <1>6, <2>1 DEF Commit
    <3> HIDE DEF w
    <3> QED BY <1>0, <2>1, <3>1, <3>2, WorkerStep
  <2>2. CASE Fault
             /\ relay' = [relay EXCEPT ![r].pc = "poll", ![r].batch = {}, ![r].row = NoEvent]
    <3> DEFINE w == [relay[r] EXCEPT !.pc = "poll", !.batch = {}, !.row = NoEvent]
    <3>1. w \in Worker /\ w.batch = {} /\ w.pc = "poll"
      BY <1>0 DEF Worker
    <3>2. relay' = [relay EXCEPT ![r] = w] /\ UNCHANGED <<rows, delivered>>
      BY <1>6, <2>2 DEF Commit
    <3>3. budget' \in Nat
      BY <1>0, <2>2, FaultType
    <3> HIDE DEF w
    <3> QED BY <1>0, <3>1, <3>2, <3>3, WorkerStep
  <2> QED BY <1>6, <2>1, <2>2 DEF Commit
<1>7. ASSUME NEW r \in Relay, Publish(r) PROVE OutboxInv'
  <2>1. PICK e \in First(r) :
          \/ /\ delivered' = delivered \cup {e}
             /\ relay' = [relay EXCEPT ![r].pc = "mark", ![r].row = e]
             /\ UNCHANGED budget
          \/ /\ Fault
             /\ delivered' \in {delivered, delivered \cup {e}}
             /\ relay' = [relay EXCEPT ![r].pc = "fail", ![r].row = e]
    BY <1>7 DEF Publish
  <2>2. e \in relay[r].batch /\ e \in Event /\ UNCHANGED rows
    BY <1>0, <1>7 DEF First, Publish, Worker
  <2>3. budget' \in Nat
    BY <1>0, <2>1, FaultType
  <2>4. ASSUME NEW l \in {"mark", "fail"}, relay' = [relay EXCEPT ![r].pc = l, ![r].row = e],
               delivered \subseteq delivered', delivered' \subseteq Event,
               l = "mark" => e \in delivered'
        PROVE  OutboxInv'
    <3> DEFINE w == [relay[r] EXCEPT !.pc = l, !.row = e]
    <3>1. w \in Worker /\ w.batch = relay[r].batch /\ w.pc = l /\ w.row = e
      BY <1>0, <2>2 DEF Worker
    <3>2. relay' = [relay EXCEPT ![r] = w]
      BY <2>4
    <3> HIDE DEF w
    <3> QED BY <2>2, <2>3, <2>4, <3>1, <3>2, WorkerStep
  <2> QED BY <1>0, <2>1, <2>2, <2>4
<1>8. ASSUME NEW r \in Relay, relay[r].pc \in {"mark", "fail"}, NEW row \in Row,
             row.status = "published" => relay[r].row \in delivered,
             UNCHANGED rows \/ rows' = [rows EXCEPT ![relay[r].row] = row],
             \/ relay' = Advance(r)
             \/ relay' = [relay EXCEPT ![r].pc = "fail"]
             \/ relay' = [relay EXCEPT ![r].pc = "poll", ![r].batch = {}, ![r].row = NoEvent],
             UNCHANGED budget \/ Fault,
             UNCHANGED delivered
      PROVE  OutboxInv'
  <2>1. budget' \in Nat
    BY <1>0, <1>8, FaultType
  <2>2. PICK w \in Worker :
          /\ relay' = [relay EXCEPT ![r] = w]
          /\ w.batch \subseteq relay[r].batch
          /\ w.pc \in {"mark", "fail"} => w.row \in w.batch
          /\ w.pc # "mark"
    BY <1>8, Leaves
  <2>3. CASE UNCHANGED rows
    BY <1>0, <1>8, <2>1, <2>2, <2>3, WorkerStep
  <2>4. CASE rows' = [rows EXCEPT ![relay[r].row] = row]
    BY <1>8, <2>1, <2>2, <2>4, OutcomeStep
  <2> QED BY <1>8, <2>3, <2>4
<1>9. ASSUME NEW r \in Relay, Mark(r) PROVE OutboxInv'
  <2> DEFINE e == relay[r].row
             row == [rows[e] EXCEPT !.status = "published"]
  <2>1. relay[r].pc = "mark" /\ e \in Event /\ e \in delivered
    BY <1>0, <1>9 DEF Mark, At, HandOK, Worker
  <2>2. row \in Row
    BY <1>0, <2>1 DEF Row
  <2>3. UNCHANGED rows \/ rows' = [rows EXCEPT ![e] = row]
    BY <1>9 DEF Mark
  <2> HIDE DEF row
  <2> QED BY <1>8, <1>9, <2>1, <2>2, <2>3 DEF Mark
<1>10. ASSUME NEW r \in Relay, RecordFailure(r) PROVE OutboxInv'
  <2> DEFINE e == relay[r].row
             row == Failed(rows[e])
  <2>1. relay[r].pc = "fail" /\ e \in Event
    BY <1>0, <1>10 DEF RecordFailure, At, HandOK, Worker
  <2>2. row \in Row /\ row.status # "published"
    BY <1>0, <2>1, FailedRow
  <2>3. UNCHANGED rows \/ rows' = [rows EXCEPT ![e] = row]
    BY <1>10 DEF RecordFailure
  <2> HIDE DEF row
  <2> QED BY <1>8, <1>10, <2>1, <2>2, <2>3 DEF RecordFailure
<1> QED
  BY <1>1, <1>3, <1>4, <1>5, <1>6, <1>7, <1>9, <1>10, ClaimKeeps DEF Next, Cycle

\* The initial state satisfies the invariant.
LEMMA InitOK == Init => OutboxInv
<1> SUFFICES ASSUME Init PROVE OutboxInv
  OBVIOUS
<1>1. FreshWorker \in Worker /\ FreshWorker.pc = "poll" /\ FreshWorker.batch = {}
  BY DEF FreshWorker, Worker
<1>2. [status |-> "none", attempts |-> 0, due |-> FALSE, created |-> 0] \in Row
  BY DEF Row
<1>3. TypeOK
  BY <1>1, <1>2, OutboxAssumption DEF Init, TypeOK
<1>4. PublishedWasDelivered
  BY DEF Init, PublishedWasDelivered
<1> QED BY <1>1, <1>3, <1>4 DEF Init, OutboxInv, HandOK

\* The outbox keeps its invariant through crashes, failed publishes, failed writes
\* and writes whose answer is lost.
THEOREM OutboxInvariant == Spec => []OutboxInv
BY InitOK, NextKeeps, PTL DEF Spec

\* A row marked published has reached Redis.
THEOREM PublishedRowsWereDelivered == Spec => []PublishedWasDelivered
<1>1. OutboxInv => PublishedWasDelivered
  BY DEF OutboxInv
<1> QED BY <1>1, OutboxInvariant, PTL

\* Every variable of the outbox keeps its type.
THEOREM OutboxTypeOK == Spec => []TypeOK
<1>1. OutboxInv => TypeOK
  BY DEF OutboxInv
<1> QED BY <1>1, OutboxInvariant, PTL
-----------------------------------------------------------------------------
(* Attempts.  Nothing keeps two workers from having one row, so a row may  *)
(* be tried after it was given up; each worker that has it can still count *)
(* one failure on it.                                                      *)

Holders(e) == {r \in Relay : e \in relay[r].batch}

\* The strengthening of AttemptsBounded: the failures a row counts and those it
\* can still get from the workers that have it.
AttemptsInv ==
  \A e \in Event :
    /\ rows[e].status = "pending" => rows[e].attempts < MaxAttempts
    /\ rows[e].attempts + Cardinality(Holders(e)) <= MaxAttempts + Cardinality(Relay) - 1

\* There are finitely many workers, so finitely many have a row.
LEMMA HoldersFinite ==
  ASSUME NEW e \in Event
  PROVE  /\ IsFiniteSet(Holders(e)) /\ Cardinality(Holders(e)) \in Nat
         /\ Cardinality(Relay) \in Nat /\ Cardinality(Holders(e)) <= Cardinality(Relay)
<1>1. Holders(e) \subseteq Relay /\ IsFiniteSet(Relay)
  BY OutboxAssumption DEF Holders
<1> QED BY <1>1, FS_Subset, FS_CardinalityType

\* A row keeps within its bound when it has attempts left, when nobody new has it,
\* or when the failure it counts is that of a worker that lets go of it.
LEMMA RowBound ==
  ASSUME OutboxInv, AttemptsInv, OutboxInv', NEW e \in Event,
         \/ rows'[e].attempts < MaxAttempts
         \/ rows'[e].attempts = rows[e].attempts /\ Holders(e)' \subseteq Holders(e)
         \/ /\ rows'[e].attempts = rows[e].attempts + 1
            /\ \E r \in Holders(e) : Holders(e)' \subseteq Holders(e) \ {r}
  PROVE  rows'[e].attempts + Cardinality(Holders(e)') <= MaxAttempts + Cardinality(Relay) - 1
<1> DEFINE H == Holders(e)
           K == Holders(e)'
<1>1. /\ IsFiniteSet(H) /\ Cardinality(H) \in Nat /\ Cardinality(Relay) \in Nat
      /\ MaxAttempts \in Nat /\ rows[e].attempts \in Nat /\ rows'[e].attempts \in Nat
      /\ rows[e].attempts + Cardinality(H) <= MaxAttempts + Cardinality(Relay) - 1
  BY HoldersFinite, OutboxAssumption DEF OutboxInv, TypeOK, Row, AttemptsInv
<1>2. IsFiniteSet(K) /\ Cardinality(K) \in Nat /\ Cardinality(K) <= Cardinality(Relay)
  <2>1. K \subseteq Relay /\ IsFiniteSet(Relay)
    BY OutboxAssumption DEF Holders
  <2> QED BY <2>1, FS_Subset, FS_CardinalityType
<1> HIDE DEF H, K
<1>3. CASE rows'[e].attempts < MaxAttempts
  BY <1>1, <1>2, <1>3 DEF K
<1>4. CASE rows'[e].attempts = rows[e].attempts /\ K \subseteq H
  <2>1. Cardinality(K) <= Cardinality(H)
    BY <1>1, <1>4, FS_Subset
  <2> QED BY <1>1, <1>2, <1>4, <2>1 DEF K
<1>5. CASE /\ rows'[e].attempts = rows[e].attempts + 1
           /\ \E r \in H : K \subseteq H \ {r}
  <2>1. PICK r \in H : K \subseteq H \ {r}
    BY <1>5
  <2>2. IsFiniteSet(H \ {r}) /\ Cardinality(H \ {r}) = Cardinality(H) - 1
    BY <1>1, <2>1, FS_RemoveElement
  <2>3. Cardinality(K) <= Cardinality(H) - 1
    BY <2>1, <2>2, FS_Subset
  <2> QED BY <1>1, <1>2, <1>5, <2>3 DEF K
<1> QED BY <1>3, <1>4, <1>5 DEF H, K

\* A step that gives no worker a row it did not have, and counts at most one
\* failure, of a worker that lets go of the row.
LEMMA AttemptsStep ==
  ASSUME OutboxInv, AttemptsInv, OutboxInv',
         \A e \in Event :
           /\ rows'[e].status = "pending" => rows'[e].attempts < MaxAttempts
           /\ \/ rows'[e].attempts < MaxAttempts
              \/ rows'[e].attempts = rows[e].attempts /\ Holders(e)' \subseteq Holders(e)
              \/ /\ rows'[e].attempts = rows[e].attempts + 1
                 /\ \E r \in Holders(e) : Holders(e)' \subseteq Holders(e) \ {r}
  PROVE  AttemptsInv'
BY RowBound DEF AttemptsInv

\* A step of one worker that writes no row and takes none from the table.
LEMMA AttemptsStay ==
  ASSUME OutboxInv, AttemptsInv, OutboxInv', UNCHANGED rows,
         \A q \in Relay : relay'[q].batch \subseteq relay[q].batch
  PROVE  AttemptsInv'
<1>1. \A e \in Event : Holders(e)' \subseteq Holders(e)
  BY DEF Holders
<1> QED BY <1>1, AttemptsStep DEF AttemptsInv

\* A worker writes the outcome of the row it has in hand.
LEMMA AttemptsOutcome ==
  ASSUME OutboxInv, AttemptsInv, OutboxInv', NEW r \in Relay, NEW row \in Row,
         relay[r].pc \in {"mark", "fail"},
         UNCHANGED rows \/ rows' = [rows EXCEPT ![relay[r].row] = row],
         \/ relay' = Advance(r)
         \/ relay' = [relay EXCEPT ![r].pc = "fail"]
         \/ relay' = [relay EXCEPT ![r].pc = "poll", ![r].batch = {}, ![r].row = NoEvent],
         row.status = "pending" => row.attempts < MaxAttempts,
         \/ row.attempts = rows[relay[r].row].attempts
         \/ /\ row.attempts = rows[relay[r].row].attempts + 1
            /\ relay' # [relay EXCEPT ![r].pc = "fail"]
  PROVE  AttemptsInv'
<1>1. PICK e \in Event : e = relay[r].row /\ e \in relay[r].batch
  BY Leaves
<1>2. PICK w \in Worker :
        /\ relay' = [relay EXCEPT ![r] = w]
        /\ w.batch \subseteq relay[r].batch
        /\ relay' = [relay EXCEPT ![r].pc = "fail"] \/ e \notin w.batch
  BY <1>1, Leaves
<1>3. \A q \in Relay : relay'[q] = IF q = r THEN w ELSE relay[q]
  BY <1>2 DEF OutboxInv, TypeOK
<1>4. \A q \in Relay : relay'[q].batch \subseteq relay[q].batch
  BY <1>2, <1>3
<1>5. CASE UNCHANGED rows
  BY <1>4, <1>5, AttemptsStay
<1>6. CASE rows' = [rows EXCEPT ![relay[r].row] = row]
  <2>1. \A f \in Event : rows'[f] = IF f = e THEN row ELSE rows[f]
    BY <1>1, <1>6 DEF OutboxInv, TypeOK
  <2>2. \A f \in Event : Holders(f)' \subseteq Holders(f)
    BY <1>4 DEF Holders
  <2>3. r \in Holders(e)
    BY <1>1 DEF Holders
  <2>4. relay' # [relay EXCEPT ![r].pc = "fail"] => Holders(e)' \subseteq Holders(e) \ {r}
    BY <1>2, <1>3, <2>2 DEF Holders
  <2>5. ASSUME NEW f \in Event
        PROVE  /\ rows'[f].status = "pending" => rows'[f].attempts < MaxAttempts
               /\ \/ rows'[f].attempts < MaxAttempts
                  \/ rows'[f].attempts = rows[f].attempts /\ Holders(f)' \subseteq Holders(f)
                  \/ /\ rows'[f].attempts = rows[f].attempts + 1
                     /\ \E q \in Holders(f) : Holders(f)' \subseteq Holders(f) \ {q}
    <3>1. CASE f # e
      BY <2>1, <2>2, <3>1 DEF AttemptsInv
    <3>2. CASE f = e
      BY <1>1, <2>1, <2>2, <2>3, <2>4, <3>2
    <3> QED BY <3>1, <3>2
  <2> QED BY <2>5, AttemptsStep
<1> QED BY <1>5, <1>6

\* Every step keeps the attempts bounded.
LEMMA AttemptsNext == ASSUME OutboxInv, AttemptsInv, OutboxInv', [Next]_vars PROVE AttemptsInv'
<1>0. /\ relay \in [Relay -> Worker] /\ rows \in [Event -> Row]
      /\ \A r \in Relay : relay[r] \in Worker /\ HandOK(relay[r])
      /\ \A e \in Event : rows[e] \in Row
      /\ MaxAttempts \in Nat \ {0}
  BY OutboxAssumption DEF OutboxInv, TypeOK
<1>1. CASE UNCHANGED vars
  BY <1>1, AttemptsStay DEF vars
<1>2. ASSUME NEW e \in Event, relay' = relay, NEW row \in Row,
             rows' = [rows EXCEPT ![e] = row], row.attempts < MaxAttempts
      PROVE  AttemptsInv'
  <2>1. \A f \in Event : rows'[f] = IF f = e THEN row ELSE rows[f]
    BY <1>0, <1>2
  <2>2. \A f \in Event : Holders(f)' \subseteq Holders(f)
    BY <1>2 DEF Holders
  <2> QED BY <1>2, <2>1, <2>2, AttemptsStep DEF AttemptsInv
<1>3. ASSUME NEW e \in Event, Insert(e) PROVE AttemptsInv'
  <2> DEFINE n == Cardinality({f \in Event : rows[f].status # "none"})
             new == [status |-> "pending", attempts |-> 0, due |-> TRUE, created |-> n]
  <2>1. n \in Nat
    BY OutboxAssumption, FS_Subset, FS_CardinalityType
  <2> HIDE DEF n
  <2>2. new \in Row /\ new.attempts < MaxAttempts
    BY <1>0, <2>1 DEF Row
  <2>3. rows' = [rows EXCEPT ![e] = new] /\ relay' = relay
    BY <1>3 DEF Insert, n
  <2> HIDE DEF new
  <2> QED BY <1>2, <2>2, <2>3
<1>4. ASSUME NEW e \in Event, Due(e) PROVE AttemptsInv'
  <2> DEFINE new == [rows[e] EXCEPT !.due = TRUE]
  <2>1. new \in Row /\ new.attempts = rows[e].attempts
    BY <1>0 DEF Row
  <2>2. rows' = [rows EXCEPT ![e] = new] /\ relay' = relay /\ rows[e].status = "pending"
    BY <1>4 DEF Due
  <2> HIDE DEF new
  <2> QED BY <1>2, <2>1, <2>2 DEF AttemptsInv
<1>5. ASSUME NEW r \in Relay, Claim(r) PROVE AttemptsInv'
  <2> DEFINE b == Oldest(Eligible)
             w == [relay[r] EXCEPT !.pc = "commit", !.batch = b]
  <2>1. \A e \in b : e \in Event /\ rows[e].status = "pending"
    BY DEF Oldest, Eligible
  <2> HIDE DEF b
  <2>2. w.batch = b /\ relay' = [relay EXCEPT ![r] = w] /\ UNCHANGED rows
    BY <1>0, <1>5 DEF Claim, b, Worker
  <2> HIDE DEF w
  <2>3. \A q \in Relay : relay'[q] = IF q = r THEN w ELSE relay[q]
    BY <1>0, <2>2
  <2>4. \A e \in Event : rows[e].attempts < MaxAttempts \/ Holders(e)' \subseteq Holders(e)
    BY <2>1, <2>2, <2>3 DEF AttemptsInv, Holders
  <2> QED BY <2>2, <2>4, AttemptsStep DEF AttemptsInv
<1>6. ASSUME NEW r \in Relay, Commit(r) \/ Publish(r) \/ Crash(r) PROVE AttemptsInv'
  <2>1. UNCHANGED rows
    BY <1>6 DEF Commit, Publish, Crash
  <2>2. ASSUME NEW q \in Relay PROVE relay'[q].batch \subseteq relay[q].batch
    <3>1. relay[q] \in Worker /\ relay[r] \in Worker
      BY <1>0
    <3>2. CASE Commit(r)
      <4>1. CASE relay' = [relay EXCEPT ![r].pc = "publish"]
        BY <1>0, <3>1, <4>1 DEF Worker
      <4>2. CASE relay' = [relay EXCEPT ![r].pc = "poll", ![r].batch = {}, ![r].row = NoEvent]
        BY <1>0, <3>1, <4>2 DEF Worker
      <4> QED BY <3>2, <4>1, <4>2 DEF Commit
    <3>3. CASE Publish(r)
      <4>1. PICK e \in First(r), l \in {"mark", "fail"} :
              relay' = [relay EXCEPT ![r].pc = l, ![r].row = e]
        BY <3>3 DEF Publish
      <4> QED BY <1>0, <3>1, <4>1 DEF Worker
    <3>4. CASE Crash(r)
      BY <1>0, <3>1, <3>4 DEF Crash, FreshWorker, Worker
    <3> QED BY <1>6, <3>2, <3>3, <3>4
  <2> QED BY <2>1, <2>2, AttemptsStay
<1>7. ASSUME NEW r \in Relay, Mark(r) PROVE AttemptsInv'
  <2> DEFINE e == relay[r].row
             row == [rows[e] EXCEPT !.status = "published"]
  <2>1. relay[r].pc = "mark" /\ e \in Event
    BY <1>0, <1>7 DEF Mark, At, HandOK, Worker
  <2>2. row \in Row /\ row.status = "published" /\ row.attempts = rows[e].attempts
    BY <1>0, <2>1 DEF Row
  <2>3. /\ UNCHANGED rows \/ rows' = [rows EXCEPT ![e] = row]
        /\ relay' = Advance(r) \/ relay' = [relay EXCEPT ![r].pc = "fail"]
    BY <1>7 DEF Mark
  <2> HIDE DEF row
  <2> QED BY <2>1, <2>2, <2>3, AttemptsOutcome
<1>8. ASSUME NEW r \in Relay, RecordFailure(r) PROVE AttemptsInv'
  <2> DEFINE e == relay[r].row
             row == Failed(rows[e])
             dropped == [relay EXCEPT ![r].pc = "poll", ![r].batch = {}, ![r].row = NoEvent]
  <2>1. relay[r].pc = "fail" /\ e \in Event /\ e \in relay[r].batch
    BY <1>0, <1>8 DEF RecordFailure, At, HandOK, Worker
  <2>2. /\ row \in Row /\ row.attempts = rows[e].attempts + 1
        /\ row.status = "pending" => row.attempts < MaxAttempts
    BY <1>0, <2>1, FailedRow
  <2>3. UNCHANGED rows \/ rows' = [rows EXCEPT ![e] = row]
    BY <1>8 DEF RecordFailure
  <2>4. relay' = Advance(r) \/ relay' = dropped
    BY <1>8 DEF RecordFailure
  <2>5. relay' # [relay EXCEPT ![r].pc = "fail"]
    <3>1. relay'[r].pc \in {"poll", "publish"}
      BY <1>0, <2>4 DEF Advance, Worker
    <3>2. [relay EXCEPT ![r].pc = "fail"][r].pc = "fail"
      BY <1>0 DEF Worker
    <3> QED BY <3>1, <3>2
  <2> HIDE DEF row
  <2> QED BY <2>1, <2>2, <2>3, <2>4, <2>5, AttemptsOutcome
<1> QED
  BY <1>1, <1>3, <1>4, <1>5, <1>6, <1>7, <1>8 DEF Next, Cycle

\* At first no row has attempts and no worker a row.
LEMMA AttemptsInit == Init => AttemptsInv
<1> SUFFICES ASSUME Init, NEW e \in Event
    PROVE /\ rows[e].status = "none" /\ rows[e].attempts = 0
          /\ Cardinality(Holders(e)) <= MaxAttempts + Cardinality(Relay) - 1
          /\ Cardinality(Holders(e)) \in Nat
  BY DEF AttemptsInv
<1>1. MaxAttempts \in Nat \ {0}
  BY OutboxAssumption
<1>2. rows[e].status = "none" /\ rows[e].attempts = 0
  BY DEF Init
<1> QED BY <1>1, <1>2, HoldersFinite

\* A row waiting to be tried has attempts left, and no row counts more failures
\* than maxAttempts and one for every further worker, for any number of workers,
\* events, crashes and faults.
THEOREM AttemptsAreBounded == Spec => []AttemptsBounded
<1>1. OutboxInv /\ AttemptsInv => AttemptsBounded
  <2> SUFFICES ASSUME OutboxInv, AttemptsInv, NEW e \in Event
      PROVE /\ rows[e].status = "pending" => rows[e].attempts < MaxAttempts
            /\ rows[e].attempts <= MaxAttempts + Cardinality(Relay) - 1
    BY DEF AttemptsBounded
  <2>1. rows[e].attempts \in Nat /\ MaxAttempts \in Nat
    BY OutboxAssumption DEF OutboxInv, TypeOK, Row
  <2> QED BY <2>1, HoldersFinite DEF AttemptsInv
<1>2. OutboxInv /\ AttemptsInv /\ OutboxInv' /\ [Next]_vars => AttemptsInv'
  BY AttemptsNext
<1> QED BY <1>1, <1>2, AttemptsInit, OutboxInvariant, PTL DEF Spec
=============================================================================
