---------------------- MODULE CheckoutIdempotencyProofs ----------------------
(***************************************************************************)
(* Proofs about CheckoutIdempotency for any number of requests that share  *)
(* a fingerprint, any request hashes and any number of faults.             *)
(***************************************************************************)
EXTENDS CheckoutIdempotency, TLAPS

\* What holds whatever fails: stored and delivered responses were produced.
FaithInv ==
  /\ TypeOK
  /\ budget.redisFaults <= Limits.redisFaults
  /\ record.status = "completed" => record.by \in executed
  /\ \A r \in Request : pc[r] = "complete" => r \in executed
  /\ \A r \in Request : pc[r] = "new" => r \notin executed
  /\ AnswersAreFaithful

\* Requests that have found no response under the lease.
Deciding == {"mark", "handle", "complete", "discard"}

\* What holds until a lease runs out under its holder or Redis fails: the holder of
\* the lease is the only one to decide, it does so only while no response is
\* stored, and every client has been given the response that is stored.
LeaseInv ==
  /\ \A r \in Guarded : lease = r
  /\ \A r \in Request : pc[r] # "open"
  /\ \A r \in Request : pc[r] \in Deciding => record.status # "completed"
  /\ \A r \in Request : answer[r] # NoRequest => record.status = "completed" /\ answer[r] = record.by
  /\ seen # {} => record.status = "completed"
  /\ seen \cap executed = {}

GuardInv == FaithInv /\ (Undisturbed => LeaseInv)

LEMMA SpendBounds ==
  ASSUME TypeOK, budget.redisFaults <= Limits.redisFaults, NEW kind \in Kinds, Spend(kind)
  PROVE  /\ budget' \in [Kinds -> Nat]
         /\ budget'.redisFaults <= budget.redisFaults
         /\ kind = "redisFaults" => budget'.redisFaults < Limits.redisFaults
BY IdempotencyAssumption DEF TypeOK, Spend, Kinds

\* Every action leaves the budget alone, or spends from it; a Redis fault shows.
LEMMA BudgetStep ==
  ASSUME FaithInv, NEW r \in Request,
         \/ UNCHANGED budget \/ RedisFault \/ Spend("failures") \/ Spend("crashes")
  PROVE  /\ budget' \in [Kinds -> Nat]
         /\ budget'.redisFaults <= Limits.redisFaults
         /\ budget'.redisFaults = Limits.redisFaults => budget.redisFaults = Limits.redisFaults
         /\ RedisFault => budget'.redisFaults # Limits.redisFaults
<1>0. TypeOK /\ budget \in [Kinds -> Nat] /\ budget.redisFaults <= Limits.redisFaults
      /\ Limits.redisFaults \in Nat /\ budget.redisFaults \in Nat
  BY IdempotencyAssumption DEF FaithInv, TypeOK, Kinds
<1>1. CASE UNCHANGED budget
  BY <1>0, <1>1, SpendBounds DEF RedisFault, Spend, Kinds
<1>2. CASE RedisFault
  BY <1>0, <1>2, SpendBounds DEF RedisFault, Kinds
<1>3. ASSUME NEW kind \in Kinds \ {"redisFaults"}, Spend(kind)
      PROVE  budget' \in [Kinds -> Nat] /\ budget'.redisFaults = budget.redisFaults
  BY <1>0, <1>3 DEF Spend, Kinds
<1>4. CASE Spend("failures") \/ Spend("crashes")
  <2>1. budget' \in [Kinds -> Nat] /\ budget'.redisFaults = budget.redisFaults
    BY <1>3, <1>4 DEF Kinds
  <2>2. ~RedisFault
    BY <1>0, <2>1 DEF RedisFault, Spend, Kinds
  <2> QED BY <1>0, <2>1, <2>2
<1> QED BY <1>1, <1>2, <1>4

\* The step of one request from label to label.
LEMMA MoveForm ==
  ASSUME TypeOK, NEW r \in Request, NEW l \in Labels, Goto(r, l)
  PROVE  pc' \in [Request -> Labels] /\ \A q \in Request : pc'[q] = IF q = r THEN l ELSE pc[q]
BY DEF TypeOK, Goto
-----------------------------------------------------------------------------
(* Responses are faithful.                                                 *)

\* A request moves without executing: what is stored and answered is known.
LEMMA FaithMove ==
  ASSUME FaithInv, NEW r \in Request, NEW l \in Labels \ {"new"}, Goto(r, l),
         l = "complete" => r \in executed,
         UNCHANGED <<executed, outlived>>, seen' \subseteq Request,
         \/ UNCHANGED budget \/ RedisFault \/ Spend("failures") \/ Spend("crashes"),
         lease' \in Request \cup {NoLease}, record' \in Record,
         record'.status = "completed" => record'.by \in executed,
         \/ UNCHANGED answer
         \/ \E q \in executed : hash[q] = hash[r] /\ answer' = [answer EXCEPT ![r] = q]
  PROVE  FaithInv'
<1>0. TypeOK
  BY DEF FaithInv
<1>1. pc' \in [Request -> Labels] /\ \A q \in Request : pc'[q] = IF q = r THEN l ELSE pc[q]
  BY <1>0, MoveForm
<1>2. budget' \in [Kinds -> Nat] /\ budget'.redisFaults <= Limits.redisFaults
  BY BudgetStep
<1>3. answer' \in [Request -> Request \cup {NoRequest}] /\ AnswersAreFaithful'
  <2>1. CASE UNCHANGED answer
    BY <1>0, <2>1 DEF FaithInv, TypeOK, AnswersAreFaithful
  <2>2. ASSUME NEW q \in executed, hash[q] = hash[r], answer' = [answer EXCEPT ![r] = q]
        PROVE  answer' \in [Request -> Request \cup {NoRequest}] /\ AnswersAreFaithful'
    BY <1>0, <2>2 DEF FaithInv, TypeOK, AnswersAreFaithful
  <2> QED BY <2>1, <2>2
<1>4. TypeOK'
  BY <1>0, <1>1, <1>2, <1>3 DEF TypeOK
<1>5. \A q \in Request : /\ pc'[q] = "complete" => q \in executed'
                         /\ pc'[q] = "new" => q \notin executed'
  BY <1>1 DEF FaithInv
<1> QED BY <1>2, <1>3, <1>4, <1>5 DEF FaithInv

\* A handler produces a response to keep.
LEMMA FaithExecute ==
  ASSUME FaithInv, NEW r \in Request, NEW l \in Labels \ {"new"}, Goto(r, l), ~At(r, "new"),
         executed' = executed \cup {r}, UNCHANGED <<lease, record, seen, outlived, budget>>,
         UNCHANGED answer \/ answer' = [answer EXCEPT ![r] = r]
  PROVE  FaithInv'
<1>0. TypeOK
  BY DEF FaithInv
<1>1. pc' \in [Request -> Labels] /\ \A q \in Request : pc'[q] = IF q = r THEN l ELSE pc[q]
  BY <1>0, MoveForm
<1>2. answer' \in [Request -> Request \cup {NoRequest}] /\ AnswersAreFaithful'
  BY <1>0 DEF FaithInv, TypeOK, AnswersAreFaithful
<1>3. TypeOK'
  BY <1>0, <1>1, <1>2 DEF TypeOK
<1>4. \A q \in Request : /\ pc'[q] = "complete" => q \in executed'
                         /\ pc'[q] = "new" => q \notin executed'
  BY <1>1 DEF FaithInv, At
<1> QED BY <1>2, <1>3, <1>4 DEF FaithInv

\* The records a request may write.
LEMMA RecordForms ==
  ASSUME NEW r \in Request
  PROVE  /\ NoRecord \in Record /\ NoRecord.status # "completed"
         /\ InProgress(r) \in Record /\ InProgress(r).status # "completed"
         /\ [status |-> "completed", by |-> r] \in Record
BY DEF NoRecord, InProgress, Record

LEMMA FaithStep == ASSUME FaithInv, [Next]_vars PROVE FaithInv'
<1>0. /\ TypeOK /\ record \in Record /\ lease \in Request \cup {NoLease}
      /\ seen \subseteq Request /\ executed \subseteq Request
      /\ record.status = "completed" => record.by \in executed
  BY DEF FaithInv, TypeOK
<1>1. CASE UNCHANGED vars
  BY <1>1 DEF vars, FaithInv, TypeOK, AnswersAreFaithful
<1>2. CASE ExpireLease \/ ExpireMarker
  <2>1. NoRecord \in Record /\ NoRecord.status # "completed"
    BY DEF NoRecord, Record
  <2>2. TypeOK'
    BY <1>0, <1>2, <2>1 DEF ExpireLease, ExpireMarker, TypeOK, Guarded
  <2> QED BY <1>2, <2>1, <2>2 DEF ExpireLease, ExpireMarker, FaithInv, AnswersAreFaithful
<1>3. ASSUME NEW r \in Request, ReplayOrReject(r), record.status = "completed"
      PROVE  \/ UNCHANGED answer
             \/ \E q \in executed : hash[q] = hash[r] /\ answer' = [answer EXCEPT ![r] = q]
  BY <1>0, <1>3 DEF ReplayOrReject
<1>4. ASSUME NEW r \in Request, Arrive(r) PROVE FaithInv'
  BY <1>0, <1>4, FaithMove DEF Arrive, Labels
<1>5. ASSUME NEW r \in Request, ReadRecord(r) PROVE FaithInv'
  <2>1. CASE record.status = "completed"
    BY <1>0, <1>3, <1>5, <2>1, FaithMove DEF ReadRecord, Labels
  <2>2. CASE record.status # "completed"
    BY <1>0, <1>5, <2>2, FaithMove DEF ReadRecord, Labels
  <2> QED BY <2>1, <2>2
<1>6. ASSUME NEW r \in Request, AcquireLease(r) PROVE FaithInv'
  BY <1>0, <1>6, FaithMove DEF AcquireLease, Labels
<1>7. ASSUME NEW r \in Request, Reread(r) PROVE FaithInv'
  <2>1. lease' \in Request \cup {NoLease} /\ (UNCHANGED budget \/ RedisFault)
    BY <1>0, <1>7 DEF Reread, ReleasedBy
  <2>2. CASE record.status = "completed"
    BY <1>0, <1>3, <1>7, <2>1, <2>2, FaithMove DEF Reread, Labels
  <2>3. CASE record.status # "completed"
    BY <1>0, <1>7, <2>1, <2>3, FaithMove DEF Reread, Labels
  <2> QED BY <2>2, <2>3
<1>8. ASSUME NEW r \in Request, MarkInProgress(r) PROVE FaithInv'
  BY <1>0, <1>8, RecordForms, FaithMove DEF MarkInProgress, Labels
<1>9. ASSUME NEW r \in Request, Handle(r) PROVE FaithInv'
  <2>1. CASE executed' = executed \cup {r} /\ Goto(r, "complete") /\ UNCHANGED budget
    BY <1>9, <2>1, FaithExecute DEF Handle, At, Labels
  <2>2. CASE Spend("failures") /\ Goto(r, "discard") /\ UNCHANGED executed
    BY <1>0, <1>9, <2>2, FaithMove DEF Handle, Labels
  <2> QED BY <1>9, <2>1, <2>2 DEF Handle
<1>10. ASSUME NEW r \in Request, Complete(r) PROVE FaithInv'
  <2>1. r \in executed
    BY <1>10 DEF Complete, At, FaithInv
  <2>2. /\ record' \in {record, [status |-> "completed", by |-> r]}
        /\ UNCHANGED budget \/ RedisFault
    BY <1>10 DEF Complete
  <2>3. record' \in Record /\ (record'.status = "completed" => record'.by \in executed)
    BY <1>0, <2>1, <2>2, RecordForms
  <2> QED BY <1>0, <1>10, <2>1, <2>2, <2>3, FaithMove DEF Complete, Labels
<1>11. ASSUME NEW r \in Request, Discard(r) PROVE FaithInv'
  <2>1. /\ record' \in {record, NoRecord}
        /\ UNCHANGED budget \/ RedisFault
    BY <1>11 DEF Discard
  <2>2. record' \in Record /\ (record'.status = "completed" => record'.by \in executed)
    BY <1>0, <2>1, RecordForms
  <2> QED BY <1>0, <1>11, <2>1, <2>2, FaithMove DEF Discard, Labels
<1>12. ASSUME NEW r \in Request, ReleaseLease(r) PROVE FaithInv'
  <2>1. lease' \in Request \cup {NoLease} /\ (UNCHANGED budget \/ RedisFault)
    BY <1>0, <1>12 DEF ReleaseLease, ReleasedBy
  <2> QED BY <1>0, <1>12, <2>1, FaithMove DEF ReleaseLease, Labels
<1>13. ASSUME NEW r \in Request, FailOpen(r) PROVE FaithInv'
  <2>1. lease' \in Request \cup {NoLease} /\ record' \in {record, InProgress(r)}
    BY <1>0, <1>13 DEF FailOpen
  <2>2. record' \in Record /\ (record'.status = "completed" => record'.by \in executed)
    BY <1>0, <2>1, RecordForms
  <2> QED BY <1>0, <1>13, <2>1, <2>2, FaithMove DEF FailOpen, Labels
<1>14. ASSUME NEW r \in Request, HandleOpen(r) PROVE FaithInv'
  <2>1. CASE executed' = executed \cup {r}
    <3>1. CASE UNCHANGED budget
      BY <1>14, <2>1, <3>1, FaithExecute DEF HandleOpen, At, Labels
    <3>2. CASE Spend("failures") /\ UNCHANGED <<executed, answer>>
      BY <1>0, <1>14, <3>2, FaithMove DEF HandleOpen, Labels
    <3> QED BY <1>14, <3>1, <3>2 DEF HandleOpen
  <2>2. CASE Spend("failures") /\ UNCHANGED <<executed, answer>>
    BY <1>0, <1>14, <2>2, FaithMove DEF HandleOpen, Labels
  <2> QED BY <1>14, <2>1, <2>2 DEF HandleOpen
<1>15. ASSUME NEW r \in Request, Crash(r) PROVE FaithInv'
  BY <1>0, <1>15, FaithMove DEF Crash, Labels
<1> QED BY <1>1, <1>2, <1>4, <1>5, <1>6, <1>7, <1>8, <1>9, <1>10, <1>11, <1>12, <1>13, <1>14,
           <1>15 DEF Next
-----------------------------------------------------------------------------
(* Until a lease runs out under its holder or Redis fails.                 *)

\* The past of an undisturbed state is undisturbed.
LEMMA UndisturbedBefore ==
  ASSUME GuardInv, outlived \subseteq outlived', Undisturbed',
         \/ UNCHANGED budget \/ RedisFault \/ Spend("failures") \/ Spend("crashes"),
         NEW r \in Request
  PROVE  Undisturbed /\ LeaseInv /\ ~RedisFault
<1>1. budget.redisFaults = Limits.redisFaults /\ ~RedisFault
  BY BudgetStep DEF GuardInv, Undisturbed
<1> QED BY <1>1 DEF GuardInv, Undisturbed

\* A request that moves on, and what the rest of its step must respect.
LEMMA LeaseMove ==
  ASSUME TypeOK, LeaseInv, NEW r \in Request, NEW l \in Labels \ {"open"}, Goto(r, l),
         l \in {"reread"} \cup Deciding \cup {"release"} => lease' = r,
         \A q \in Guarded \ {r} : lease' = lease,
         l \in Deciding => record'.status # "completed",
         \A q \in Request \ {r} : pc[q] \in Deciding => record'.status # "completed",
         \A q \in Request : answer'[q] # NoRequest
                              => record'.status = "completed" /\ answer'[q] = record'.by,
         seen' # {} => record'.status = "completed",
         seen' \cap executed' = {}
  PROVE  LeaseInv'
<1>1. \A q \in Request : pc'[q] = IF q = r THEN l ELSE pc[q]
  BY MoveForm
<1>2. \A q \in Guarded' : IF q = r THEN l \in {"reread"} \cup Deciding \cup {"release"}
                                   ELSE q \in Guarded
  BY <1>1 DEF Guarded, Deciding
<1>3. \A q \in Guarded' : lease' = q
  BY <1>2 DEF LeaseInv
<1>4. \A q \in Request : /\ pc'[q] # "open"
                         /\ pc'[q] \in Deciding => record'.status # "completed"
  BY <1>1 DEF LeaseInv
<1> QED BY <1>3, <1>4 DEF LeaseInv

\* Under the lease nobody else is.
LEMMA OnlyHolder ==
  ASSUME TypeOK, LeaseInv, NEW r \in Request, r \in Guarded
  PROVE  lease = r /\ Guarded \ {r} = {} /\ \A q \in Request \ {r} : pc[q] \notin Deciding
<1>1. lease = r /\ Guarded \ {r} = {}
  BY DEF LeaseInv
<1> QED BY <1>1 DEF Guarded, Deciding

LEMMA LeaseStep == ASSUME GuardInv, [Next]_vars, Undisturbed' PROVE LeaseInv'
<1>0. FaithInv /\ TypeOK
  BY DEF GuardInv, FaithInv
<1>1. CASE UNCHANGED vars
  <2>1. LeaseInv
    BY <1>1 DEF GuardInv, Undisturbed, vars
  <2> QED BY <1>1, <2>1 DEF vars, LeaseInv, Guarded
<1>2. CASE ExpireLease
  <2>1. Undisturbed /\ LeaseInv /\ lease \notin Guarded
    BY <1>2 DEF ExpireLease, Undisturbed, GuardInv
  <2>2. Guarded = {}
    BY <2>1 DEF LeaseInv
  <2> QED BY <1>2, <2>1, <2>2 DEF ExpireLease, LeaseInv, Guarded
<1>3. CASE ExpireMarker
  <2>1. LeaseInv /\ record.status # "completed" /\ record'.status # "completed"
    BY <1>3 DEF ExpireMarker, Undisturbed, GuardInv, NoRecord
  <2> QED BY <1>3, <2>1 DEF ExpireMarker, LeaseInv, Guarded
<1>4. ASSUME NEW r \in Request, Arrive(r) PROVE LeaseInv'
  <2>1. LeaseInv
    BY <1>4, UndisturbedBefore DEF Arrive
  <2>2. r \notin executed /\ r \notin Guarded
    BY <1>0, <1>4 DEF Arrive, At, FaithInv, Guarded
  <2>3. seen' # {} => record.status = "completed"
    BY <1>4, <2>1 DEF Arrive, LeaseInv
  <2>4. seen' \cap executed = {}
    BY <1>4, <2>1, <2>2 DEF Arrive, LeaseInv
  <2> QED BY <1>0, <1>4, <2>1, <2>3, <2>4, LeaseMove DEF Arrive, LeaseInv, Labels, Deciding
<1>5. ASSUME NEW r \in Request, ReplayOrReject(r), record.status = "completed", LeaseInv
      PROVE  \A q \in Request : answer'[q] # NoRequest => answer'[q] = record.by
  BY <1>0, <1>5 DEF ReplayOrReject, LeaseInv, TypeOK
<1>6. ASSUME NEW r \in Request, ReadRecord(r) PROVE LeaseInv'
  <2>1. LeaseInv
    BY <1>6, UndisturbedBefore DEF ReadRecord
  <2>2. CASE record.status = "completed"
    BY <1>0, <1>5, <1>6, <2>1, <2>2, LeaseMove DEF ReadRecord, LeaseInv, Labels, Deciding
  <2>3. CASE record.status # "completed"
    BY <1>0, <1>6, <2>1, <2>3, LeaseMove DEF ReadRecord, LeaseInv, Labels, Deciding
  <2> QED BY <2>2, <2>3
<1>7. ASSUME NEW r \in Request, AcquireLease(r) PROVE LeaseInv'
  <2>1. LeaseInv
    BY <1>7, UndisturbedBefore DEF AcquireLease
  <2>2. CASE lease = NoLease
    <3>1. Guarded = {}
      BY <2>1, <2>2, IdempotencyAssumption DEF LeaseInv, Guarded
    <3> QED BY <1>0, <1>7, <2>1, <2>2, <3>1, LeaseMove
            DEF AcquireLease, LeaseInv, Labels, Deciding
  <2>3. CASE lease # NoLease
    BY <1>0, <1>7, <2>1, <2>3, LeaseMove DEF AcquireLease, LeaseInv, Labels, Deciding
  <2> QED BY <2>2, <2>3
<1>8. ASSUME NEW r \in Request, Reread(r) PROVE LeaseInv'
  <2>1. LeaseInv /\ ~RedisFault
    BY <1>8, UndisturbedBefore DEF Reread
  <2>2. lease = r /\ Guarded \ {r} = {} /\ \A q \in Request \ {r} : pc[q] \notin Deciding
    BY <1>0, <1>8, <2>1, OnlyHolder DEF Reread, At, Guarded
  <2>3. CASE record.status = "completed"
    BY <1>0, <1>5, <1>8, <2>1, <2>2, <2>3, LeaseMove DEF Reread, LeaseInv, Labels, Deciding
  <2>4. CASE record.status # "completed"
    BY <1>0, <1>8, <2>1, <2>2, <2>4, LeaseMove DEF Reread, LeaseInv, Labels, Deciding
  <2> QED BY <2>3, <2>4
<1>9. ASSUME NEW r \in Request, pc[r] \in Deciding, LeaseInv
      PROVE  /\ lease = r /\ Guarded \ {r} = {}
             /\ \A q \in Request \ {r} : pc[q] \notin Deciding
             /\ record.status # "completed" /\ seen = {}
             /\ \A q \in Request : answer[q] = NoRequest
  BY <1>0, <1>9, OnlyHolder DEF LeaseInv, Guarded, Deciding
<1>10. ASSUME NEW r \in Request, MarkInProgress(r) PROVE LeaseInv'
  <2>1. LeaseInv
    BY <1>10, UndisturbedBefore DEF MarkInProgress
  <2>2. pc[r] \in Deciding /\ record'.status # "completed"
    BY <1>10 DEF MarkInProgress, At, Deciding, InProgress
  <2> QED BY <1>0, <1>9, <1>10, <2>1, <2>2, LeaseMove DEF MarkInProgress, Labels, Deciding
<1>11. ASSUME NEW r \in Request, Handle(r) PROVE LeaseInv'
  <2>1. LeaseInv
    BY <1>11, UndisturbedBefore DEF Handle
  <2>2. pc[r] \in Deciding
    BY <1>11 DEF Handle, At, Deciding
  <2> QED BY <1>0, <1>9, <1>11, <2>1, <2>2, LeaseMove DEF Handle, Labels, Deciding
<1>12. ASSUME NEW r \in Request, Complete(r) PROVE LeaseInv'
  <2>1. LeaseInv /\ ~RedisFault
    BY <1>12, UndisturbedBefore DEF Complete
  <2>2. pc[r] \in Deciding /\ record' = [status |-> "completed", by |-> r]
    BY <1>12, <2>1 DEF Complete, At, Deciding
  <2>3. \A q \in Request : answer'[q] # NoRequest => q = r /\ answer'[q] = r
    BY <1>0, <1>9, <1>12, <2>1, <2>2 DEF Complete, TypeOK
  <2> QED BY <1>0, <1>9, <1>12, <2>1, <2>2, <2>3, LeaseMove DEF Complete, Labels, Deciding
<1>13. ASSUME NEW r \in Request, Discard(r) PROVE LeaseInv'
  <2>1. LeaseInv /\ ~RedisFault
    BY <1>13, UndisturbedBefore DEF Discard
  <2>2. pc[r] \in Deciding /\ record'.status # "completed"
    BY <1>13, <2>1 DEF Discard, At, Deciding, NoRecord
  <2> QED BY <1>0, <1>9, <1>13, <2>1, <2>2, LeaseMove DEF Discard, Labels, Deciding
<1>14. ASSUME NEW r \in Request, ReleaseLease(r) PROVE LeaseInv'
  <2>1. LeaseInv /\ ~RedisFault
    BY <1>14, UndisturbedBefore DEF ReleaseLease
  <2>2. lease = r /\ Guarded \ {r} = {} /\ \A q \in Request \ {r} : pc[q] \notin Deciding
    BY <1>0, <1>14, <2>1, OnlyHolder DEF ReleaseLease, At, Guarded
  <2> QED BY <1>0, <1>14, <2>1, <2>2, LeaseMove DEF ReleaseLease, LeaseInv, Labels, Deciding
<1>15. ASSUME NEW r \in Request, FailOpen(r) PROVE FALSE
  BY <1>15, UndisturbedBefore DEF FailOpen
<1>16. ASSUME NEW r \in Request, HandleOpen(r) PROVE FALSE
  <2>1. LeaseInv
    BY <1>16, UndisturbedBefore DEF HandleOpen
  <2> QED BY <1>16, <2>1 DEF HandleOpen, LeaseInv, At
<1>17. ASSUME NEW r \in Request, Crash(r) PROVE LeaseInv'
  <2>1. LeaseInv
    BY <1>17, UndisturbedBefore DEF Crash
  <2> QED BY <1>0, <1>17, <2>1, LeaseMove DEF Crash, LeaseInv, Labels, Deciding
<1> QED BY <1>1, <1>2, <1>3, <1>4, <1>6, <1>7, <1>8, <1>10, <1>11, <1>12, <1>13, <1>14, <1>15,
           <1>16, <1>17 DEF Next
-----------------------------------------------------------------------------
(* The theorems.                                                           *)

\* GuardInv is an invariant of the guard.
THEOREM GuardInvariant == Spec => []GuardInv
<1>1. Init => GuardInv
  <2> SUFFICES ASSUME Init PROVE GuardInv
    OBVIOUS
  <2>1. NoRecord \in Record /\ NoRecord.status # "completed"
    BY DEF NoRecord, Record
  <2>2. TypeOK
    BY <2>1, IdempotencyAssumption DEF Init, TypeOK, Labels
  <2>3. budget.redisFaults <= Limits.redisFaults
    BY IdempotencyAssumption DEF Init, Kinds
  <2>4. FaithInv
    BY <2>1, <2>2, <2>3 DEF Init, FaithInv, AnswersAreFaithful
  <2>5. LeaseInv
    BY <2>1 DEF Init, LeaseInv, Guarded, Deciding
  <2> QED BY <2>4, <2>5 DEF GuardInv
<1>2. GuardInv /\ [Next]_vars => GuardInv'
  BY FaithStep, LeaseStep DEF GuardInv
<1> QED BY <1>1, <1>2, PTL DEF Spec

\* The variables of the guard keep their types.
THEOREM GuardTypesKept == Spec => []TypeOK
<1>1. GuardInv => TypeOK
  BY DEF GuardInv, FaithInv
<1> QED BY <1>1, GuardInvariant, PTL

\* Every client is answered from an execution of its own request, whatever fails.
THEOREM AnswersAlwaysFaithful == Spec => []AnswersAreFaithful
<1>1. GuardInv => AnswersAreFaithful
  BY DEF GuardInv, FaithInv
<1> QED BY <1>1, GuardInvariant, PTL

\* Until a lease runs out under its holder or Redis fails, one request at a time is
\* under the lease.
THEOREM OneHolderAtATime == Spec => []OneAtATime
<1>1. GuardInv => OneAtATime
  BY DEF GuardInv, LeaseInv, OneAtATime
<1> QED BY <1>1, GuardInvariant, PTL

\* Until then a request sent after a response was seen is not executed again.
THEOREM RetriesAreReplayed == Spec => []RetryInTimeIsReplayed
<1>1. GuardInv => RetryInTimeIsReplayed
  BY DEF GuardInv, LeaseInv, RetryInTimeIsReplayed
<1> QED BY <1>1, GuardInvariant, PTL

\* Until then all clients of a request are given one response.
THEOREM ResponsesAgree == Spec => []OneResponse
<1>1. GuardInv => OneResponse
  BY DEF GuardInv, LeaseInv, OneResponse
<1> QED BY <1>1, GuardInvariant, PTL
==============================================================================
