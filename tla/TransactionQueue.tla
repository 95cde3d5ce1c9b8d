--------------------------- MODULE TransactionQueue ---------------------------
(***************************************************************************)
(* The wallet's transaction queue (wallet/src/queue/txQueue.ts) for one    *)
(* source account: addTransactionToQueue() enqueues BullMQ jobs behind the *)
(* spend limit, one worker per wallet process runs executeTxJob(), which   *)
(* takes a sequence number from a reserved block or from the cache in      *)
(* Redis, submits an envelope to the Soroban RPC and waits for the ledger; *)
(* reserveSequenceBlock() reserves blocks for pre-warming.                 *)
(*                                                                         *)
(* Every await on Redis, Horizon or the RPC ends a step.  The ledger, the  *)
(* RPC and BullMQ are external: an envelope is included at the account's   *)
(* next sequence number or not at all, and has expired by the time that a  *)
(* job has polled for it in vain (30 s against 60 s).                      *)
(***************************************************************************)
EXTENDS Integers, Sequences, FiniteSets

CONSTANTS
  Job, Worker, Admin,
  Lease,        \* the lease of every reservation that is asked for
  MaxAttempts,  \* DEFAULT_QUEUE_RETRY_CONFIG.attempts
  MaxStalls,    \* maxStalledCount
  BlockSize,    \* size of a reserved block
  SpendLimit,   \* lifetime limit, in amounts of one job
  Scenarios,    \* the sets of external events that may happen together, each once
  None

\* A call is refused or a simulation fails; a submission runs into a gateway timeout;
\* another answer of the RPC or Horizon is lost; a live worker loses the lock of its
\* job; a process dies; the reservation lock outlives its 5 seconds; an envelope fails
\* on the ledger; a valid one is never included.
Faults == {"error", "timeout", "lost", "stall", "crash", "lapse", "revert", "drop"}
\* Besides the faults, every block that is reserved is an event.
Events == Lease \cup Faults

ASSUME QueueAssumption ==
  /\ MaxAttempts \in Nat \ {0} /\ MaxStalls \in Nat /\ BlockSize \in Nat \ {0}
  /\ SpendLimit \in Nat
  /\ IsFiniteSet(Lease) /\ Lease \cap Faults = {}
  /\ Scenarios \subseteq SUBSET Events
  /\ None \notin Job \cup Worker \cup Admin

VARIABLES
  job,      \* the jobs in BullMQ
  worker,   \* the run of executeTxJob() of every worker
  admin,    \* the calls of reserveSequenceBlock()
  cache,    \* seq:<account>, 0 when absent
  blocks,   \* seq:reservations:<account>
  cursor,   \* seq:res:<lease>:cursor of every lease, 0 when absent
  seqLock,  \* seq:lock:<account>
  account,  \* sequence number of the account on the ledger
  envs,     \* the envelopes that the network has, by hash
  spent,    \* spend:lifetime counter
  events    \* the external events so far

redis == <<cache, blocks, cursor>>
chain == <<account, envs>>
vars == <<job, worker, admin, cache, blocks, cursor, seqLock, account, envs, spent, events>>

\* An envelope's hash: the job and which of its runs built it.
Hash == Job \X Nat
Block == [lease : Lease, first : Nat, last : Nat]

\* Whether a request names the user and the wallet that pay.
Payer == {"known", "unknown"}
JobState == [state : {"new", "refused", "waiting", "active", "completed", "rejected",
                      "exhausted"},
             attempts : 0..MaxAttempts, stalls : 0..(MaxStalls + 1),
             holder : Worker \cup {None}, hash : Hash \cup {None}, payer : Payer]
WorkerState == [pc : {"idle", "clearCache", "clearBlocks", "clearCursors", "blocks",
                      "cursor", "advance", "load", "cache", "store", "send",
                      "poll", "reconcile", "gaveUp", "record", "done"},
                job : Job \cup {None}, after : {"blocks", "retry"}, list : Seq(Block),
                seq : Nat, hash : Hash \cup {None}, held : SUBSET Hash]
NoCall == [pc |-> "idle", lease |-> None, highest |-> 0]
AdminState == [pc : {"lock", "load", "read", "push", "unlock"}, lease : Lease, highest : Nat]
              \cup {NoCall}
EnvState == [seq : Nat, status : {"pending", "applied", "failed"}]

Happens(e) == /\ e \notin events
              /\ \E s \in Scenarios : events \cup {e} \subseteq s
              /\ events' = events \cup {e}
At(w, label) == worker[w].pc = label
Goto(w, label) == worker' = [worker EXCEPT ![w].pc = label]

Resting == [pc |-> "idle", job |-> None, after |-> "blocks", list |-> <<>>,
            seq |-> 0, hash |-> None, held |-> {}]
-----------------------------------------------------------------------------
(* Jobs.                                                                   *)

\* addTransactionToQueue(): the spend limit is compared with what has been
\* recorded so far.  When the limit or the wallet cannot be read the job is added
\* unchecked, and without the wallet it does not say whose spend it is.
Enqueue(j) ==
  /\ job[j].state = "new"
  /\ \/ /\ job' = [job EXCEPT ![j].state = IF spent + 1 > SpendLimit THEN "refused" ELSE "waiting"]
        /\ UNCHANGED events
     \/ /\ Happens("error")
        /\ \E p \in Payer : job' = [job EXCEPT ![j].state = "waiting", ![j].payer = p]
  /\ UNCHANGED <<worker, admin, redis, seqLock, chain, spent>>

\* The worker takes a job; a retry starts by clearing what Redis remembers.
Take(w, j) ==
  /\ At(w, "idle") /\ job[j].state = "waiting"
  /\ job' = [job EXCEPT ![j].state = "active", ![j].holder = w]
  /\ worker' = [worker EXCEPT ![w] =
       [Resting EXCEPT !.job = j, !.hash = <<j, job[j].attempts + job[j].stalls>>,
                       !.pc = IF job[j].attempts > 0 THEN "clearCache" ELSE "blocks"]]
  /\ UNCHANGED <<admin, redis, seqLock, chain, spent, events>>

\* BullMQ ends a run, unless the worker has lost the lock of the job.
Finish(w, state, hash) ==
  LET j == worker[w].job IN
  /\ worker' = [worker EXCEPT ![w] = Resting]
  /\ job' = IF job[j].holder = w /\ job[j].state = "active"
              THEN [job EXCEPT ![j].state = state, ![j].holder = None, ![j].hash = hash,
                               ![j].attempts = IF state = "completed" THEN @ ELSE @ + 1]
              ELSE job

Complete(w, hash) == Finish(w, "completed", hash)
\* An UnrecoverableError: terminal failures are not retried.
Reject(w) == Finish(w, "rejected", None)
\* Any other error: the next attempt, or the end of the job.
Retry(w) ==
  Finish(w, IF job[worker[w].job].attempts + 1 < MaxAttempts THEN "waiting" ELSE "exhausted", None)

\* The lock of a job is not renewed: the job is waiting again, and the worker, if
\* it lives, goes on.
Stall(j) ==
  LET w == job[j].holder IN
  /\ job[j].state = "active"
  /\ IF worker[w].job = j THEN Happens("stall") ELSE UNCHANGED events
  /\ job' = [job EXCEPT ![j].holder = None, ![j].stalls = @ + 1,
                        ![j].state = IF job[j].stalls = MaxStalls THEN "rejected" ELSE "waiting"]
  /\ UNCHANGED <<worker, admin, redis, seqLock, chain, spent>>

Crash(w) ==
  /\ ~At(w, "idle")
  /\ Happens("crash")
  /\ worker' = [worker EXCEPT ![w] = Resting]
  /\ UNCHANGED <<job, admin, redis, seqLock, chain, spent>>
-----------------------------------------------------------------------------
(* reserveSequenceBlock().                                                 *)

\* Pre-warming asks for a block.
RequestBlock(a) ==
  /\ admin[a].pc = "idle"
  /\ \E l \in Lease :
       /\ Happens(l)
       /\ admin' = [admin EXCEPT ![a] = [pc |-> "lock", lease |-> l, highest |-> 0]]
  /\ UNCHANGED <<job, worker, redis, seqLock, chain, spent>>

\* Mutant: the lock is not looked at.
LockSequence_Shared(a) ==
  /\ admin[a].pc = "lock"
  /\ seqLock' = a
  /\ admin' = [admin EXCEPT ![a].pc = "load"]
  /\ UNCHANGED <<job, worker, redis, chain, spent, events>>

\* SET NX, or an error after twenty tries.
LockSequence(a) ==
  /\ admin[a].pc = "lock"
  /\ \/ /\ seqLock = None
        /\ seqLock' = a
        /\ admin' = [admin EXCEPT ![a].pc = "load"]
     \/ /\ seqLock # None
        /\ admin' = [admin EXCEPT ![a] = NoCall]
        /\ UNCHANGED seqLock
  /\ UNCHANGED <<job, worker, redis, chain, spent, events>>

ReserveLoad(a) ==
  /\ admin[a].pc = "load"
  /\ admin' = [admin EXCEPT ![a].pc = "read", ![a].highest = account]
  /\ UNCHANGED <<job, worker, redis, seqLock, chain, spent, events>>

\* The highest sequence number of the ledger and of the active reservations.
ReserveRead(a) ==
  /\ admin[a].pc = "read"
  /\ \E h \in {admin[a].highest} \cup {blocks[i].last : i \in DOMAIN blocks} :
       /\ h >= admin[a].highest
       /\ \A i \in DOMAIN blocks : h >= blocks[i].last
       /\ admin' = [admin EXCEPT ![a].pc = "push", ![a].highest = h]
  /\ UNCHANGED <<job, worker, redis, seqLock, chain, spent, events>>

ReservePush(a) ==
  LET first == admin[a].highest + 1 IN
  /\ admin[a].pc = "push"
  /\ blocks' = Append(blocks, [lease |-> admin[a].lease, first |-> first,
                               last |-> first + BlockSize - 1])
  /\ admin' = [admin EXCEPT ![a].pc = "unlock"]
  /\ UNCHANGED <<job, worker, cache, cursor, seqLock, chain, spent, events>>

\* The finally block deletes the lock, whoever holds it.
ReserveUnlock(a) ==
  /\ admin[a].pc = "unlock"
  /\ seqLock' = None
  /\ admin' = [admin EXCEPT ![a] = NoCall]
  /\ UNCHANGED <<job, worker, redis, chain, spent, events>>

\* A call to Horizon or Redis rejects; the lock is deleted.
ReserveFails(a) ==
  /\ admin[a].pc \in {"load", "read", "push"}
  /\ Happens("error")
  /\ admin' = [admin EXCEPT ![a].pc = "unlock"]
  /\ UNCHANGED <<job, worker, redis, seqLock, chain, spent>>

CrashAdmin(a) ==
  /\ admin[a].pc # "idle"
  /\ Happens("crash")
  /\ admin' = [admin EXCEPT ![a] = NoCall]
  /\ UNCHANGED <<job, worker, redis, seqLock, chain, spent>>

LapseSeqLock ==
  /\ seqLock # None
  /\ IF admin[seqLock].pc = "idle" THEN UNCHANGED events ELSE Happens("lapse")
  /\ seqLock' = None
  /\ UNCHANGED <<job, worker, admin, redis, chain, spent>>
-----------------------------------------------------------------------------
(* getNextSequenceNumber().                                                *)

\* resetCache(), at the start of a retry and after tx_bad_seq.
ClearCache(w) ==
  /\ At(w, "clearCache")
  /\ cache' = 0
  /\ Goto(w, "clearBlocks")
  /\ UNCHANGED <<job, admin, blocks, cursor, seqLock, chain, spent, events>>

\* Mutant: a reset forgets the cached number and not the reservations.
ClearBlocks_Kept(w) ==
  /\ At(w, "clearBlocks")
  /\ Goto(w, "clearCursors")
  /\ UNCHANGED <<job, admin, redis, seqLock, chain, spent, events>>

ClearBlocks(w) ==
  /\ At(w, "clearBlocks")
  /\ blocks' = <<>>
  /\ Goto(w, "clearCursors")
  /\ UNCHANGED <<job, admin, cache, cursor, seqLock, chain, spent, events>>

NoCursors == [l \in Lease |-> 0]
ClearCursors(w) ==
  /\ At(w, "clearCursors")
  /\ cursor' = NoCursors
  /\ IF worker[w].after = "retry" THEN Retry(w) ELSE Goto(w, "blocks") /\ UNCHANGED job
  /\ UNCHANGED <<admin, cache, blocks, seqLock, chain, spent, events>>

\* getNextSequenceFromReservation() reads the list ...
ReadBlocks(w) ==
  /\ At(w, "blocks")
  /\ worker' = [worker EXCEPT ![w].list = blocks,
                              ![w].pc = IF blocks = <<>> THEN "load" ELSE "cursor"]
  /\ UNCHANGED <<job, admin, redis, seqLock, chain, spent, events>>

NextBlock(run) ==
  [run EXCEPT !.list = Tail(run.list), !.seq = 0,
              !.pc = IF Len(run.list) = 1 THEN "load" ELSE "cursor"]

\* ... then the cursor of one reservation after the other ...
ReadCursor(w) ==
  LET b == Head(worker[w].list)
      c == IF cursor[b.lease] = 0 THEN b.first ELSE cursor[b.lease]
  IN
  /\ At(w, "cursor")
  /\ worker' = [worker EXCEPT ![w] =
       IF c <= b.last THEN [@ EXCEPT !.seq = c, !.pc = "advance"]
       ELSE NextBlock(@)]
  /\ UNCHANGED <<job, admin, redis, seqLock, chain, spent, events>>

\* ... and advances it.  The sequence number is used as it is, although the
\* builder adds one.
Advanced(w) == [cursor EXCEPT ![Head(worker[w].list).lease] = worker[w].seq + 1]
AdvanceCursor(w) ==
  /\ At(w, "advance")
  /\ cursor' = Advanced(w)
  /\ Goto(w, "send")
  /\ UNCHANGED <<job, admin, cache, blocks, seqLock, chain, spent, events>>

\* Without a reservation: the account's sequence number on the ledger ...
LoadAccount(w) ==
  /\ At(w, "load")
  /\ worker' = [worker EXCEPT ![w].seq = account, ![w].pc = "cache"]
  /\ UNCHANGED <<job, admin, redis, seqLock, chain, spent, events>>

\* ... or the cached one, when that is higher, and the next one is cached.
ReadCache(w) ==
  /\ At(w, "cache")
  /\ worker' = [worker EXCEPT ![w].pc = "store",
                              ![w].seq = IF cache >= @ THEN cache ELSE @]
  /\ UNCHANGED <<job, admin, redis, seqLock, chain, spent, events>>

StoreCache(w) ==
  /\ At(w, "store")
  /\ cache' = worker[w].seq + 1
  /\ Goto(w, "send")
  /\ UNCHANGED <<job, admin, blocks, cursor, seqLock, chain, spent, events>>

\* The cached number lives for 60 seconds.
LapseCache ==
  /\ cache # 0
  /\ cache' = 0
  /\ UNCHANGED <<job, worker, admin, blocks, cursor, seqLock, chain, spent, events>>
-----------------------------------------------------------------------------
(* The rest of executeTxJob().                                             *)

\* What the network knows of the worker's envelope.
Status(w) == IF worker[w].hash \in DOMAIN envs THEN envs[worker[w].hash].status ELSE "absent"

\* A call before the submission rejects.  Outside the try block, or with a network
\* error, that means another attempt, inside it any other error is terminal; the
\* loop over the reservations goes on with the next one.  The call may be the audit
\* entry that follows a write of the cursors.
CallFails(w) ==
  /\ Happens("error")
  /\ \/ /\ worker[w].pc \in {"clearCache", "clearBlocks", "clearCursors", "blocks", "load",
                             "cache", "store", "send"}
        /\ Retry(w)
     \/ /\ At(w, "send") \/ worker[w].after = "retry"
        /\ Reject(w)
     \/ /\ worker[w].pc \in {"cursor", "advance"}
        /\ worker' = [worker EXCEPT ![w] = NextBlock(@)]
        /\ UNCHANGED job
  /\ \/ UNCHANGED cursor
     \/ At(w, "advance") /\ cursor' = Advanced(w)
     \/ At(w, "clearCursors") /\ cursor' = NoCursors
  /\ UNCHANGED <<admin, cache, blocks, seqLock, chain, spent>>

\* The envelope is built with the number after the one in the account object, is
\* simulated and signed.  The RPC takes one with the next sequence
\* number of the account, one at a time.
Built(w) == worker[w].seq + 1
Valid(w) == Built(w) = account + 1
Pending == {h \in DOMAIN envs : envs[h].status = "pending"}
Taken(w) ==
  envs' = IF Valid(w) /\ Pending = {}
            THEN [h \in DOMAIN envs \cup {worker[w].hash} |->
                    IF h = worker[w].hash THEN [seq |-> Built(w), status |-> "pending"]
                                          ELSE envs[h]]
            ELSE envs

\* Start to look for the envelope, and remember what the network holds by then.
Await(w, label) ==
  worker' = [worker EXCEPT ![w].pc = label, ![w].seq = 0, ![w].list = <<>>,
                             ![w].held = Pending']

\* sendTransaction() answers: taken (or to be tried later, which is treated the
\* same), tx_bad_seq, or another error that is terminal or transient.
Send(w) ==
  /\ At(w, "send")
  /\ \/ /\ Valid(w)
        /\ Taken(w)
        /\ Await(w, "poll")
        /\ UNCHANGED <<job, events>>
     \/ /\ ~Valid(w)
        /\ worker' = [worker EXCEPT ![w].pc = "clearCache", ![w].seq = 0, ![w].list = <<>>,
                                    ![w].after = "retry"]
        /\ UNCHANGED <<job, envs, events>>
     \/ /\ Happens("error")
        /\ Retry(w) \/ Reject(w)
        /\ UNCHANGED envs
  /\ UNCHANGED <<admin, redis, seqLock, account, spent>>

\* sendTransaction() throws, whether or not the envelope arrived: after a gateway
\* timeout the status is looked up, after another network error the job is tried
\* again or, if it is not recognised, failed.
SendThrows(w) ==
  /\ At(w, "send")
  /\ Taken(w) \/ UNCHANGED envs
  /\ \/ /\ Happens("timeout")
        /\ Await(w, "reconcile")
        /\ UNCHANGED job
     \/ Happens("lost") /\ (Retry(w) \/ Reject(w))
  /\ UNCHANGED <<admin, redis, seqLock, account, spent>>

\* Mutant: the job is tried again while the ledger may still take the envelope.
Outlived_Early(w) == TRUE

\* Twelve polls, or six and a pause, outlast the 30 seconds of an envelope.
Outlived(w) == worker[w].held \cap Pending = {}

\* Mutant: the spend is not recorded.
Poll_Silent(w) ==
  /\ At(w, "poll")
  /\ \/ Status(w) = "applied" /\ Goto(w, "done") /\ UNCHANGED job
     \/ Status(w) = "failed" /\ Reject(w)
     \/ Status(w) \notin {"applied", "failed"} /\ Outlived(w) /\ Retry(w)
  /\ UNCHANGED <<admin, redis, seqLock, chain, spent, events>>

\* The twelve polls.  When they run out Horizon is asked for the hash.
Poll(w) ==
  /\ At(w, "poll")
  /\ \/ Status(w) = "applied" /\ Goto(w, "record") /\ UNCHANGED job
     \/ Status(w) = "failed" /\ Reject(w)
     \/ Status(w) \notin {"applied", "failed"} /\ Outlived(w) /\ Retry(w)
  /\ UNCHANGED <<admin, redis, seqLock, chain, spent, events>>

\* Mutant: an error of Horizon counts as found.
PollLost_Trusting(w) ==
  /\ At(w, "poll")
  /\ Happens("lost")
  /\ Complete(w, worker[w].hash)
  /\ UNCHANGED <<admin, redis, seqLock, chain, spent>>

\* Answers of the RPC are lost: a network error ends the attempt; after twelve
\* gateway timeouts Horizon decides, which finds failed envelopes too, and an
\* error of Horizon counts as not found.
PollLost(w) ==
  /\ At(w, "poll")
  /\ Happens("lost")
  /\ \/ Retry(w) \/ Reject(w)
     \/ Outlived(w) /\ Status(w) \in {"applied", "failed"} /\ Complete(w, worker[w].hash)
  /\ UNCHANGED <<admin, redis, seqLock, chain, spent>>

\* reconcileTimedOutSubmission(): its last lookup comes 5 seconds before it gives
\* up, and a lookup that fails counts as one that found nothing.
Reconcile(w) ==
  /\ At(w, "reconcile")
  /\ \/ Status(w) = "applied" /\ Complete(w, worker[w].hash) /\ UNCHANGED events
     \/ Status(w) = "failed" /\ Retry(w) /\ UNCHANGED events
     \/ Status(w) \notin {"applied", "failed"} /\ Goto(w, "gaveUp") /\ UNCHANGED <<job, events>>
     \/ Happens("lost") /\ Goto(w, "gaveUp") /\ UNCHANGED job
  /\ UNCHANGED <<admin, redis, seqLock, chain, spent>>

GiveUp(w) ==
  /\ At(w, "gaveUp") /\ Outlived(w)
  /\ Retry(w)
  /\ UNCHANGED <<admin, redis, seqLock, chain, spent, events>>

\* recordSpend(), for a request that names its user and wallet; a failure is logged
\* only.
RecordSpend(w) ==
  /\ At(w, "record")
  /\ \/ spent' = spent + (IF job[worker[w].job].payer = "known" THEN 1 ELSE 0) /\ UNCHANGED events
     \/ UNCHANGED spent /\ Happens("error")
  /\ Goto(w, "done")
  /\ UNCHANGED <<job, admin, redis, seqLock, chain>>

\* executeTxJob() returns.
Return(w) ==
  /\ At(w, "done")
  /\ Complete(w, worker[w].hash)
  /\ UNCHANGED <<admin, redis, seqLock, chain, spent, events>>
-----------------------------------------------------------------------------
(* The ledger.                                                             *)

Includable(h) == envs[h].status = "pending" /\ envs[h].seq = account + 1

Include(h) ==
  /\ Includable(h)
  /\ account' = account + 1
  /\ \/ envs' = [envs EXCEPT ![h].status = "applied"] /\ UNCHANGED events
     \/ envs' = [envs EXCEPT ![h].status = "failed"] /\ Happens("revert")
  /\ UNCHANGED <<job, worker, admin, redis, seqLock, spent>>

Expire(h) ==
  /\ envs[h].status = "pending"
  /\ IF Includable(h) THEN Happens("drop") ELSE UNCHANGED events
  /\ envs' = [g \in DOMAIN envs \ {h} |-> envs[g]]
  /\ UNCHANGED <<job, worker, admin, redis, seqLock, account, spent>>
-----------------------------------------------------------------------------
Init ==
  /\ job = [j \in Job |-> [state |-> "new", attempts |-> 0, stalls |-> 0, holder |-> None,
                           hash |-> None, payer |-> "known"]]
  /\ worker = [w \in Worker |-> Resting]
  /\ admin = [a \in Admin |-> NoCall]
  /\ cache = 0
  /\ blocks = <<>>
  /\ cursor = NoCursors
  /\ seqLock = None
  /\ account = 0
  /\ envs = <<>>
  /\ spent = 0
  /\ events = {}

Step(w) ==
  \/ ClearCache(w) \/ ClearBlocks(w) \/ ClearCursors(w) \/ ReadBlocks(w) \/ ReadCursor(w)
  \/ AdvanceCursor(w) \/ LoadAccount(w) \/ ReadCache(w) \/ StoreCache(w)
  \/ Send(w) \/ Poll(w) \/ Reconcile(w) \/ GiveUp(w) \/ RecordSpend(w) \/ Return(w)

Reserve(a) ==
  \/ LockSequence(a) \/ ReserveLoad(a) \/ ReserveRead(a) \/ ReservePush(a) \/ ReserveUnlock(a)

Next ==
  \/ \E j \in Job : Enqueue(j) \/ Stall(j) \/ \E w \in Worker : Take(w, j)
  \/ \E w \in Worker : Step(w) \/ CallFails(w) \/ SendThrows(w) \/ PollLost(w) \/ Crash(w)
  \/ \E a \in Admin : RequestBlock(a) \/ Reserve(a) \/ ReserveFails(a) \/ CrashAdmin(a)
  \/ \E h \in DOMAIN envs : Include(h) \/ Expire(h)
  \/ LapseSeqLock \/ LapseCache

Spec == Init /\ [][Next]_vars
-----------------------------------------------------------------------------
(* Properties.                                                             *)

\* Every variable keeps its type; in particular no job is tried or stalls more
\* often than BullMQ is told to allow.
QueueTypeOK ==
  /\ job \in [Job -> JobState]
  /\ worker \in [Worker -> WorkerState]
  /\ admin \in [Admin -> AdminState]
  /\ cache \in Nat
  /\ blocks \in Seq(Block)
  /\ cursor \in [Lease -> Nat]
  /\ seqLock \in Admin \cup {None}
  /\ account \in Nat
  /\ DOMAIN envs \subseteq Hash /\ \A h \in DOMAIN envs : envs[h] \in EnvState
  /\ spent \in Nat
  /\ events \subseteq Events

\* Answers or locks were lost.
Lossy == events \cap {"timeout", "lost", "stall", "crash"} # {}
Applied(j) == {h \in DOMAIN envs : h[1] = j /\ envs[h].status = "applied"}
Live(j) == {h \in DOMAIN envs : h[1] = j /\ envs[h].status = "pending"}
Settled(j) == job[j].state \in {"completed", "rejected", "exhausted"}

\* While submissions and lookups are answered and job locks are kept, retries
\* never execute a job twice, and the caller is told the truth: a completed job
\* has been executed, a failed one has not and will not be, so that it may be
\* submitted again.
OutcomeIsTrue ==
  ~Lossy =>
    \A j \in Job :
      /\ Cardinality(Applied(j)) <= 1
      /\ job[j].state = "completed" => Applied(j) = {job[j].hash}
      /\ Settled(j) /\ job[j].state # "completed" => Applied(j) \cup Live(j) = {}

\* Whatever is lost or stalls, a completed job's hash is on the ledger, and it
\* was applied unless lookups were lost.
CompletedIsOnLedger ==
  \A j \in Job : job[j].state = "completed" =>
    /\ job[j].hash \in DOMAIN envs
    /\ envs[job[j].hash].status \in {"applied", "failed"}
    /\ "lost" \notin events => envs[job[j].hash].status = "applied"

\* As long as no reservation lock lapses, the reserved blocks of an account do
\* not overlap, however resets, reservations and consumption interleave.
BlocksDisjoint ==
  "lapse" \notin events =>
    \A i, k \in DOMAIN blocks : i < k => blocks[i].last < blocks[k].first

\* The counter that the limit is compared with never exceeds what was executed,
\* and lags behind by no completed job unless a fault hid the confirmation.
SpendIsCounted ==
  /\ spent <= Cardinality(UNION {Applied(j) : j \in Job})
  /\ ~Lossy /\ "error" \notin events =>
       Cardinality({j \in Job : job[j].state = "completed"}) <= spent

Enqueued == {j \in Job : job[j].state \notin {"new", "refused"}}

\* Workers that race for sequence numbers, and reserved blocks, whose numbers the
\* builder oversteps, cost attempts: without a fault one for every block that has been
\* reserved and two for the race of two jobs, so that neither is given up as long as
\* there are more attempts.  The default of five covers two blocks and not three, which
\* preWarmReservations() may reserve at once.  With a third job there is no such bound:
\* two that fail in turn can keep the cached number ahead of the ledger for ever.
AttemptsSuffice ==
  /\ events \subseteq Lease
  /\ \E i, k \in Job : Enqueued \subseteq {i, k}
  /\ Cardinality(events) + 2 < MaxAttempts
  => \A j \in Job : job[j].state # "exhausted"
===============================================================================
