------------------------- MODULE ServiceEventOutbox -------------------------
(***************************************************************************)
(* The transactional outbox of the orchestrator: service_event_outbox rows *)
(* in Postgres (events/postgres-service-event-outbox.ts) drained by        *)
(* OutboxRelay workers (events/outboxRelay.ts) into Redis pub/sub          *)
(* (pubsub/publisher.ts).  A row is locked only while the transaction that *)
(* claims it is open; nothing in the table says that a worker has it.      *)
(***************************************************************************)
EXTENDS Integers, FiniteSets

CONSTANTS
  Relay,           \* relay workers, one per orchestrator process
  Event,           \* events that producers write
  BatchSize,       \* rows claimed per poll
  MaxAttempts,     \* failures after which a row is given up
  Faults,          \* failed publishes, failed or lost writes and crashes, together
  NoEvent

ASSUME OutboxAssumption ==
  /\ BatchSize \in Nat \ {0}
  /\ MaxAttempts \in Nat \ {0}
  /\ NoEvent \notin Event
  /\ IsFiniteSet(Event) /\ IsFiniteSet(Relay)
  /\ Faults \in Nat

VARIABLES
  rows,        \* the table: one row per event, status "none" before the insert
  relay,       \* each worker's position and the rows it has yet to handle
  delivered,   \* events Redis has received at least once
  budget       \* faults that may still happen

vars == <<rows, relay, delivered, budget>>

Row == [status : {"none", "pending", "published", "failed"}, attempts : Nat,
        due : BOOLEAN, created : Nat]
Worker == [pc : {"poll", "commit", "publish", "mark", "fail"},
           batch : SUBSET Event, row : Event \cup {NoEvent}]
FreshWorker == [pc |-> "poll", batch |-> {}, row |-> NoEvent]

Fault == budget > 0 /\ budget' = budget - 1

At(r, label) == relay[r].pc = label
-----------------------------------------------------------------------------
(* The store.                                                              *)

\* Rows under FOR UPDATE in a claiming transaction that is still open.
Locked == UNION {relay[r].batch : r \in {q \in Relay : At(q, "commit")}}

\* The WHERE clause of claimPendingBatch(), with SKIP LOCKED.
Eligible ==
  {e \in Event : /\ rows[e].status = "pending"
                 /\ rows[e].due
                 /\ e \notin Locked}

\* ORDER BY created_at LIMIT BatchSize.
Oldest(S) == {e \in S : Cardinality({f \in S : rows[f].created < rows[e].created}) < BatchSize}

\* Mutant: the row is given up one failure late.
Failed_Late(row) ==
  IF row.attempts >= MaxAttempts
    THEN [row EXCEPT !.attempts = @ + 1, !.status = "failed"]
    ELSE [row EXCEPT !.attempts = @ + 1, !.status = "pending", !.due = FALSE]

\* A failure is counted on the row as it is now, whatever its status.
Failed(row) ==
  IF row.attempts + 1 >= MaxAttempts
    THEN [row EXCEPT !.attempts = @ + 1, !.status = "failed"]
    ELSE [row EXCEPT !.attempts = @ + 1, !.status = "pending", !.due = FALSE]
-----------------------------------------------------------------------------
\* insertServiceEventOutbox().
Insert(e) ==
  /\ rows[e].status = "none"
  /\ rows' = [rows EXCEPT ![e] =
       [status |-> "pending", attempts |-> 0, due |-> TRUE,
        created |-> Cardinality({f \in Event : rows[f].status # "none"})]]
  /\ UNCHANGED <<relay, delivered, budget>>

\* Mutant: a claimed row leaves the pending state, and nothing brings it back
\* when its worker dies.
Claim_Taken(r) ==
  /\ At(r, "poll")
  /\ Eligible # {}
  /\ relay' = [relay EXCEPT ![r].pc = "commit", ![r].batch = Oldest(Eligible)]
  /\ rows' = [e \in Event |-> IF e \in Oldest(Eligible)
                                THEN [rows[e] EXCEPT !.status = "claimed"] ELSE rows[e]]
  /\ UNCHANGED <<delivered, budget>>

\* claimPendingBatch() up to its COMMIT.  The polls of a worker may be far apart: a
\* worker that is stopped drains its cycle, and its successor polls in its place.
Claim(r) ==
  /\ At(r, "poll")
  /\ Eligible # {}
  /\ relay' = [relay EXCEPT ![r].pc = "commit", ![r].batch = Oldest(Eligible)]
  /\ UNCHANGED <<rows, delivered, budget>>

\* The COMMIT: the rows' status and next_attempt_at are as before.
Commit(r) ==
  /\ At(r, "commit")
  /\ \/ relay' = [relay EXCEPT ![r].pc = "publish"] /\ UNCHANGED budget
     \/ /\ Fault
        /\ relay' = [relay EXCEPT ![r].pc = "poll", ![r].batch = {}, ![r].row = NoEvent]
  /\ UNCHANGED <<rows, delivered>>

\* On to the next row of the batch, or back to polling.
Advance(r) ==
  LET rest == relay[r].batch \ {relay[r].row} IN
  [relay EXCEPT ![r].batch = rest, ![r].row = NoEvent,
                ![r].pc = IF rest = {} THEN "poll" ELSE "publish"]

\* The batch is handled oldest first.
First(r) ==
  {e \in relay[r].batch : \A f \in relay[r].batch : rows[e].created <= rows[f].created}

\* Mutant: a publish that reports no delivery counts as published.
Publish_Ignored(r) ==
  /\ At(r, "publish")
  /\ \E e \in First(r) :
       /\ \/ delivered' = delivered \cup {e} /\ UNCHANGED budget
          \/ Fault /\ UNCHANGED delivered
       /\ relay' = [relay EXCEPT ![r].pc = "mark", ![r].row = e]
  /\ UNCHANGED rows

\* publish() with its retries; one that reports failure may have reached Redis.
Publish(r) ==
  /\ At(r, "publish")
  /\ \E e \in First(r) :
       \/ /\ delivered' = delivered \cup {e}
          /\ relay' = [relay EXCEPT ![r].pc = "mark", ![r].row = e]
          /\ UNCHANGED budget
       \/ /\ Fault
          /\ delivered' \in {delivered, delivered \cup {e}}
          /\ relay' = [relay EXCEPT ![r].pc = "fail", ![r].row = e]
  /\ UNCHANGED rows

\* markPublished(); a write that throws, committed or not, lands in the catch block.
Mark(r) ==
  LET e == relay[r].row
      marked == [rows EXCEPT ![e].status = "published"]
  IN
  /\ At(r, "mark") /\ e \notin Locked
  /\ \/ rows' = marked /\ relay' = Advance(r) /\ UNCHANGED budget
     \/ /\ Fault
        /\ rows' \in {rows, marked}
        /\ relay' = [relay EXCEPT ![r].pc = "fail"]
  /\ UNCHANGED delivered

\* The catch block: recordFailure().  If this write throws too the rest of the
\* batch is abandoned.
RecordFailure(r) ==
  LET e == relay[r].row
      counted == [rows EXCEPT ![e] = Failed(@)]
  IN
  /\ At(r, "fail") /\ e \notin Locked
  /\ \/ rows' = counted /\ relay' = Advance(r) /\ UNCHANGED budget
     \/ /\ Fault
        /\ rows' \in {rows, counted}
        /\ relay' = [relay EXCEPT ![r].pc = "poll", ![r].batch = {}, ![r].row = NoEvent]
  /\ UNCHANGED delivered

\* The back-off of a failed row runs out.
Due(e) ==
  /\ rows[e].status = "pending" /\ ~rows[e].due
  /\ rows' = [rows EXCEPT ![e].due = TRUE]
  /\ UNCHANGED <<relay, delivered, budget>>

\* A process dies in a cycle; the table survives that.
Crash(r) ==
  /\ relay[r] # FreshWorker
  /\ Fault
  /\ relay' = [relay EXCEPT ![r] = FreshWorker]
  /\ UNCHANGED <<rows, delivered>>
-----------------------------------------------------------------------------
Init ==
  /\ rows = [e \in Event |-> [status |-> "none", attempts |-> 0, due |-> FALSE, created |-> 0]]
  /\ relay = [r \in Relay |-> FreshWorker]
  /\ delivered = {}
  /\ budget = Faults

Cycle(r) == Claim(r) \/ Commit(r) \/ Publish(r) \/ Mark(r) \/ RecordFailure(r)

Next ==
  \/ \E e \in Event : Insert(e) \/ Due(e)
  \/ \E r \in Relay : Cycle(r) \/ Crash(r)

Spec == Init /\ [][Next]_vars

\* The poll timer re-arms itself in a finally block, and back-offs run out.
Fairness ==
  /\ \A r \in Relay : WF_vars(Cycle(r))
  /\ \A e \in Event : WF_vars(Due(e))
-----------------------------------------------------------------------------
(* Properties.                                                             *)

\* Every variable keeps its type.
TypeOK ==
  /\ rows \in [Event -> Row]
  /\ relay \in [Relay -> Worker]
  /\ delivered \in SUBSET Event
  /\ budget \in Nat

\* A row marked published has reached Redis, whichever worker marked it and
\* whatever crashed, failed or was claimed twice before.
PublishedWasDelivered == \A e \in Event : rows[e].status = "published" => e \in delivered

\* "each claimed row is only ever processed by one of them at a time": no two
\* workers hold the same row.
ClaimsDisjoint ==
  \A r, q \in Relay : r # q => relay[r].batch \cap relay[q].batch = {}

\* maxAttempts holds up to the workers that have the row when it is reached: a row
\* waiting to be tried has attempts left, and one is tried at most once too often
\* for every further worker.
AttemptsBounded ==
  \A e \in Event :
    /\ rows[e].status = "pending" => rows[e].attempts < MaxAttempts
    /\ rows[e].attempts <= MaxAttempts + Cardinality(Relay) - 1

\* Every event written to the outbox is eventually published or given up,
\* though workers crash and fail to write.
EventuallyRelayed ==
  \A e \in Event :
    rows[e].status = "pending" ~> rows[e].status \in {"published", "failed"}
=============================================================================
