------------------------ MODULE CheckoutIdempotency ------------------------
(***************************************************************************)
(* The checkout idempotency guard (orchestrator/src/idempotency/store.ts   *)
(* and preHandler.ts) for requests that share one fingerprint: a Redis     *)
(* lease per fingerprint and a record that duplicates replay.  A lease     *)
(* token is unique per request, so the lease holds the request itself.     *)
(***************************************************************************)
EXTENDS Integers

CONSTANTS
  Request,         \* HTTP submissions of the checkout, retries included
  Hash,            \* request hashes
  hash,            \* hash[r]: what request r asks for; an Idempotency-Key may be
                   \* reused for a different body
  Limits,          \* how often each kind of fault may happen
  NoLease, NoRequest

Kinds == {"redisFaults", "failures", "crashes"}

ASSUME IdempotencyAssumption ==
  /\ hash \in [Request -> Hash]
  /\ Limits \in [Kinds -> Nat]
  /\ NoLease \notin Request /\ NoRequest \notin Request

VARIABLES
  lease,      \* the request whose token is stored under the lock key
  record,     \* the record under the record key
  pc,         \* where each request is
  answer,     \* the execution whose response a request's client was given
  executed,   \* requests whose handler ran to a response below 500
  seen,       \* requests that arrived after some client had been given a response
  outlived,   \* requests whose lease ran out before they released it
  budget

vars == <<lease, record, pc, answer, executed, seen, outlived, budget>>

Labels == {"new", "read", "acquire", "reread", "mark", "handle", "complete", "discard",
           "release", "open", "done"}
Record == [status : {"none", "in_progress", "completed"}, by : Request \cup {NoRequest}]
NoRecord == [status |-> "none", by |-> NoRequest]

\* Requests that believe they hold the lease.
Guarded == {r \in Request : pc[r] \in {"reread", "mark", "handle", "complete", "discard", "release"}}

At(r, label) == pc[r] = label
Goto(r, label) == pc' = [pc EXCEPT ![r] = label]

Spend(kind) == /\ budget[kind] > 0
               /\ budget' = [budget EXCEPT ![kind] = @ - 1]

\* A Redis command that throws may or may not have been carried out.
RedisFault == Spend("redisFaults")
-----------------------------------------------------------------------------
\* A client submits the checkout, or submits it again.
Arrive(r) ==
  /\ At(r, "new")
  /\ Goto(r, "read")
  /\ seen' = IF \E q \in Request : answer[q] # NoRequest /\ hash[q] = hash[r]
               THEN seen \cup {r} ELSE seen
  /\ UNCHANGED <<lease, record, answer, executed, outlived, budget>>

\* Mutant: the request hash is not compared.
ReplayOrReject_Blind(r) == answer' = [answer EXCEPT ![r] = record.by]

\* replayOrReject(): the stored response, or 422 when the key was used for
\* another request.
ReplayOrReject(r) ==
  answer' = IF hash[record.by] = hash[r] THEN [answer EXCEPT ![r] = record.by] ELSE answer

\* The read at the head of the loop.
ReadRecord(r) ==
  /\ At(r, "read")
  /\ IF record.status = "completed"
       THEN ReplayOrReject(r) /\ Goto(r, "done")
       ELSE Goto(r, "acquire") /\ UNCHANGED answer
  /\ UNCHANGED <<lease, record, executed, seen, outlived, budget>>

\* Mutant: the lease is taken without NX.
AcquireLease_Overwrite(r) ==
  /\ At(r, "acquire")
  /\ lease' = r
  /\ Goto(r, "reread")
  /\ UNCHANGED <<record, answer, executed, seen, outlived, budget>>

\* acquireLease(): SET NX; otherwise poll again, or 409 at the deadline.
AcquireLease(r) ==
  /\ At(r, "acquire")
  /\ IF lease = NoLease
       THEN lease' = r /\ Goto(r, "reread")
       ELSE /\ \E label \in {"read", "done"} : Goto(r, label)
            /\ UNCHANGED lease
  /\ UNCHANGED <<record, answer, executed, seen, outlived, budget>>

ReleasedBy(r) == IF lease = r THEN NoLease ELSE lease

\* Mutant: the record is not read again under the lease.
Reread_Skipped(r) ==
  /\ At(r, "reread")
  /\ Goto(r, "mark")
  /\ UNCHANGED <<lease, record, answer, executed, seen, outlived, budget>>

\* The second read, under the lease; an error of the release is ignored.
Reread(r) ==
  /\ At(r, "reread")
  /\ IF record.status = "completed"
       THEN /\ \/ lease' = ReleasedBy(r) /\ UNCHANGED budget
               \/ RedisFault /\ lease' \in {lease, ReleasedBy(r)}
            /\ ReplayOrReject(r)
            /\ Goto(r, "done")
       ELSE Goto(r, "mark") /\ UNCHANGED <<lease, answer, budget>>
  /\ UNCHANGED <<record, executed, seen, outlived>>

InProgress(r) == [status |-> "in_progress", by |-> r]

\* markInProgress() overwrites whatever is stored.
MarkInProgress(r) ==
  /\ At(r, "mark")
  /\ record' = InProgress(r)
  /\ Goto(r, "handle")
  /\ UNCHANGED <<lease, answer, executed, seen, outlived, budget>>

\* The checkout handler produces its response: one to keep, or a 5xx.
Handle(r) ==
  /\ At(r, "handle")
  /\ \/ executed' = executed \cup {r} /\ Goto(r, "complete") /\ UNCHANGED budget
     \/ Spend("failures") /\ Goto(r, "discard") /\ UNCHANGED executed
  /\ UNCHANGED <<lease, record, answer, seen, outlived>>

\* Mutant: the response goes out before the record is written.
Complete_Late(r) ==
  /\ At(r, "complete")
  /\ IF answer[r] = r
       THEN /\ record' = [status |-> "completed", by |-> r]
            /\ Goto(r, "release") /\ UNCHANGED answer
       ELSE answer' = [answer EXCEPT ![r] = r] /\ UNCHANGED <<record, pc>>
  /\ UNCHANGED <<lease, executed, seen, outlived, budget>>

\* captureResponse() on a response below 500: complete(), and then the response
\* goes out whether or not the write succeeded.
Complete(r) ==
  /\ At(r, "complete")
  /\ LET completed == [status |-> "completed", by |-> r] IN
       \/ record' = completed /\ UNCHANGED budget
       \/ RedisFault /\ record' \in {record, completed}
  /\ answer' = [answer EXCEPT ![r] = r]
  /\ Goto(r, "release")
  /\ UNCHANGED <<lease, executed, seen, outlived>>

\* captureResponse() on a 5xx: discard() deletes the record, whoever wrote it.
Discard(r) ==
  /\ At(r, "discard")
  /\ \/ record' = NoRecord /\ UNCHANGED budget
     \/ RedisFault /\ record' \in {record, NoRecord}
  /\ Goto(r, "release")
  /\ UNCHANGED <<lease, answer, executed, seen, outlived>>

\* releaseLease(): compare and delete; an error is ignored.
ReleaseLease(r) ==
  /\ At(r, "release")
  /\ \/ lease' = ReleasedBy(r) /\ UNCHANGED budget
     \/ RedisFault /\ lease' \in {lease, ReleasedBy(r)}
  /\ Goto(r, "done")
  /\ UNCHANGED <<record, answer, executed, seen, outlived>>

\* A Redis call of the guard throws: the handler runs without deduplication.
FailOpen(r) ==
  /\ pc[r] \in {"read", "acquire", "reread", "mark"}
  /\ RedisFault
  /\ lease' \in {lease} \cup (IF At(r, "acquire") /\ lease = NoLease THEN {r} ELSE {})
  /\ record' \in {record} \cup (IF At(r, "mark") THEN {InProgress(r)} ELSE {})
  /\ Goto(r, "open")
  /\ UNCHANGED <<answer, executed, seen, outlived>>

\* The handler without the guard: nothing is stored and no lease released.
HandleOpen(r) ==
  /\ At(r, "open")
  /\ \/ /\ executed' = executed \cup {r}
        /\ answer' = [answer EXCEPT ![r] = r]
        /\ UNCHANGED budget
     \/ Spend("failures") /\ UNCHANGED <<executed, answer>>
  /\ Goto(r, "done")
  /\ UNCHANGED <<lease, record, seen, outlived>>

\* The process serving the request dies; the client gets no response.
Crash(r) ==
  /\ pc[r] \notin {"new", "done"}
  /\ Spend("crashes")
  /\ Goto(r, "done")
  /\ UNCHANGED <<lease, record, answer, executed, seen, outlived>>

\* The lease's TTL, which nothing renews.  (The 24 hours of a completed record
\* are beyond the horizon of the model.)
ExpireLease ==
  /\ lease # NoLease
  /\ lease' = NoLease
  /\ outlived' = outlived \cup ({lease} \cap Guarded)
  /\ UNCHANGED <<record, pc, answer, executed, seen, budget>>

\* The TTL of an in_progress marker.
ExpireMarker ==
  /\ record.status = "in_progress"
  /\ record' = NoRecord
  /\ UNCHANGED <<lease, pc, answer, executed, seen, outlived, budget>>
-----------------------------------------------------------------------------
Init ==
  /\ lease = NoLease
  /\ record = NoRecord
  /\ pc = [r \in Request |-> "new"]
  /\ answer = [r \in Request |-> NoRequest]
  /\ executed = {}
  /\ seen = {}
  /\ outlived = {}
  /\ budget = Limits

Next ==
  \/ \E r \in Request :
       \/ Arrive(r) \/ ReadRecord(r) \/ AcquireLease(r) \/ Reread(r) \/ MarkInProgress(r)
       \/ Handle(r) \/ Complete(r) \/ Discard(r) \/ ReleaseLease(r)
       \/ FailOpen(r) \/ HandleOpen(r) \/ Crash(r)
  \/ ExpireLease \/ ExpireMarker

Spec == Init /\ [][Next]_vars
-----------------------------------------------------------------------------
(* Properties.                                                             *)

\* Every variable keeps its type.
TypeOK ==
  /\ lease \in Request \cup {NoLease}
  /\ record \in Record
  /\ pc \in [Request -> Labels]
  /\ answer \in [Request -> Request \cup {NoRequest}]
  /\ executed \in SUBSET Request
  /\ seen \in SUBSET Request
  /\ outlived \in SUBSET Request
  /\ budget \in [Kinds -> Nat]

\* A response given to a client comes from a handler that ran to it, for the
\* same request, even when leases run out and Redis fails.
AnswersAreFaithful ==
  \A r \in Request : answer[r] # NoRequest =>
    answer[r] \in executed /\ hash[answer[r]] = hash[r]

\* So far every handler finished within its lease and Redis did not fail.
Undisturbed == outlived = {} /\ budget.redisFaults = Limits.redisFaults

\* "lets exactly one execution proceed": until a lease runs out under its
\* holder or Redis fails, one request at a time is between taking the lease
\* and releasing it, crashes and abandoned leases included.
OneAtATime == Undisturbed => \A r, q \in Guarded : r = q

\* "any retry the client sends after seeing it is guaranteed a replay": until a
\* lease runs out under its holder or Redis fails, a request sent after a
\* response was seen is not executed again.
RetryInTimeIsReplayed == Undisturbed => seen \cap executed = {}

\* Until then, all clients of one request are given the response of one
\* execution.
OneResponse ==
  Undisturbed =>
    \A r, q \in Request :
      answer[r] # NoRequest /\ answer[q] # NoRequest /\ hash[r] = hash[q]
        => answer[r] = answer[q]
=============================================================================
