------------------------ MODULE TransactionQueueProofs ------------------------
(***************************************************************************)
(* Proofs about TransactionQueue for any number of jobs, workers, attempts *)
(* and stalls, any sizes of blocks and limits, and every combination of    *)
(* the external events.                                                    *)
(***************************************************************************)
EXTENDS TransactionQueue, FiniteSetTheorems, TLAPS

(* The inductive invariants.                                               *)

Clearing == {"clearCache", "clearBlocks", "clearCursors"}
Unsent == Clearing \cup {"blocks", "cursor", "advance", "load", "cache", "store", "send"}
Sent == {"poll", "reconcile", "gaveUp", "record", "done"}
Open == {"new", "waiting", "active"}

\* The number of the current run of a job, or of the next one when none is active.
Run(j) == job[j].attempts + job[j].stalls

\* What a worker's local state can look like.
RunShape(r) ==
  /\ r.pc = "idle" => r = Resting
  /\ r.pc # "idle" => r.job \in Job /\ r.hash \in Hash /\ r.hash[1] = r.job
  /\ r.pc \in {"cursor", "advance"} => r.list # <<>>
  /\ r.after = "retry" => r.pc \in Clearing

\* What a job can look like.
JobShape(k) ==
  /\ k.state \in Open => k.attempts < MaxAttempts /\ k.stalls <= MaxStalls
  /\ k.state = "active" => k.holder \in Worker

TypeInv ==
  /\ QueueTypeOK
  /\ \A j \in Job : JobShape(job[j])
  /\ \A w \in Worker : RunShape(worker[w])

\* A hash belongs to one run: the job has gone past it, or is in it.
Past(h) == h[2] < Run(h[1])

HashInv ==
  /\ \A w \in Worker :
       ~At(w, "idle") =>
         Past(worker[w].hash) \/ (/\ worker[w].hash[2] = Run(worker[w].job)
                                  /\ job[worker[w].job].state = "active"
                                  /\ job[worker[w].job].holder = w)
  /\ \A v, w \in Worker :
       ~At(v, "idle") /\ ~At(w, "idle") /\ worker[v].hash = worker[w].hash => v = w
  /\ \A h \in DOMAIN envs :
       Past(h) \/ (h[2] = Run(h[1]) /\ job[h[1]].state \in {"active", "completed"})
  /\ \A w \in Worker : worker[w].pc \in Unsent => worker[w].hash \notin DOMAIN envs

\* What is known about an envelope that was seen on the ledger.
OnLedger(h) == h \in DOMAIN envs /\ envs[h].status \in {"applied", "failed"}
IsApplied(h) == h \in DOMAIN envs /\ envs[h].status = "applied"

LedgerInv ==
  /\ \A w \in Worker : worker[w].pc \in {"record", "done"} => IsApplied(worker[w].hash)
  /\ \A j \in Job : job[j].state = "completed" =>
       /\ OnLedger(job[j].hash) /\ job[j].hash[1] = j
       /\ "lost" \notin events => IsApplied(job[j].hash)

\* While nothing is lost, an envelope of a job has failed, is that of its only run,
\* or is what completed it.
Accounted(h) ==
  \/ envs[h].status = "failed"
  \/ \E w \in Worker : worker[w].hash = h /\ worker[w].pc \in {"poll", "record", "done"}
  \/ job[h[1]].state = "completed" /\ job[h[1]].hash = h

Exclusive ==
  /\ \A w \in Worker : ~At(w, "idle") => /\ job[worker[w].job].state = "active"
                                         /\ job[worker[w].job].holder = w
  /\ \A j \in Job : job[j].state = "active" => worker[job[j].holder].job = j
  /\ \A w \in Worker : worker[w].pc \notin {"reconcile", "gaveUp"}
  /\ \A w \in Worker :
       At(w, "poll") /\ worker[w].hash \in Pending => worker[w].hash \in worker[w].held
  /\ \A h \in DOMAIN envs : Accounted(h)

OutcomeInv == ~Lossy => Exclusive

\* While no reservation lock lapses, it is held from the first read to the last write.
BlockInv ==
  "lapse" \notin events =>
    /\ \A a \in Admin : admin[a].pc \in {"load", "read", "push", "unlock"} => seqLock = a
    /\ \A a \in Admin : admin[a].pc = "push" =>
         \A i \in DOMAIN blocks : blocks[i].last <= admin[a].highest
    /\ \A i, k \in DOMAIN blocks : i < k => blocks[i].last < blocks[k].first

\* Executed envelopes that no worker is still going to count, and jobs that have
\* been counted.
AllApplied == {h \in DOMAIN envs : envs[h].status = "applied"}
Uncounted == {worker[w].hash : w \in {v \in Worker : worker[v].pc \notin {"idle", "done"}}}
Counted == {j \in Job : \/ job[j].state = "completed"
                        \/ \E w \in Worker : worker[w].job = j /\ At(w, "done")}

\* Unless a call failed, every job says whose spend it is.
PayerInv == "error" \notin events => \A j \in Job : job[j].payer = "known"

SpendInv ==
  /\ IsFiniteSet(DOMAIN envs)
  /\ PayerInv
  /\ spent <= Cardinality(AllApplied \ Uncounted)
  /\ ~Lossy /\ "error" \notin events => IsFiniteSet(Counted) /\ Cardinality(Counted) <= spent
-----------------------------------------------------------------------------
(* Types.                                                                  *)

SharedOK ==
  /\ admin \in [Admin -> AdminState]
  /\ cache \in Nat
  /\ blocks \in Seq(Block)
  /\ cursor \in [Lease -> Nat]
  /\ seqLock \in Admin \cup {None}
  /\ account \in Nat
  /\ DOMAIN envs \subseteq Hash /\ \A h \in DOMAIN envs : envs[h] \in EnvState
  /\ spent \in Nat
  /\ events \subseteq Events

JobsOK == job \in [Job -> JobState] /\ \A j \in Job : JobShape(job[j])

LEMMA TypeParts ==
  TypeInv <=> /\ SharedOK /\ JobsOK
              /\ worker \in [Worker -> WorkerState]
              /\ \A w \in Worker : RunShape(worker[w])
BY DEF TypeInv, QueueTypeOK, SharedOK, JobsOK

LEMMA WorkerStep ==
  ASSUME TypeInv, NEW w \in Worker, NEW r \in WorkerState, RunShape(r),
         worker' = [worker EXCEPT ![w] = r], SharedOK', JobsOK'
  PROVE  TypeInv'
<1>1. worker \in [Worker -> WorkerState] /\ \A v \in Worker : RunShape(worker[v])
  BY TypeParts
<1>2. worker' \in [Worker -> WorkerState]
  BY <1>1
<1>3. ASSUME NEW v \in Worker PROVE RunShape(worker'[v])
  BY <1>1
<1>4. \A v \in Worker : RunShape(worker[v])'
  BY <1>3 DEF RunShape
<1> QED BY <1>2, <1>4 DEF TypeInv, QueueTypeOK, SharedOK, JobsOK

LEMMA StillStep ==
  ASSUME TypeInv, UNCHANGED worker, SharedOK', JobsOK' PROVE TypeInv'
<1>1. worker \in [Worker -> WorkerState] /\ \A v \in Worker : RunShape(worker[v])
  BY TypeParts
<1>2. \A v \in Worker : RunShape(worker[v])'
  BY <1>1 DEF RunShape
<1> QED BY <1>1, <1>2 DEF TypeInv, QueueTypeOK, SharedOK, JobsOK

LEMMA JobsSame == ASSUME TypeInv, UNCHANGED job PROVE JobsOK'
BY TypeParts DEF JobsOK, JobShape

LEMMA EventTypes ==
  /\ Faults = {"error", "timeout", "lost", "stall", "crash", "lapse", "revert", "drop"}
  /\ Faults \subseteq Events /\ Lease \subseteq Events /\ Lease \cap Faults = {}
BY QueueAssumption DEF Events, Faults

LEMMA HappensType ==
  ASSUME TypeInv, NEW e \in Events, Happens(e)
  PROVE  events' \subseteq Events /\ events \subseteq events' /\ e \in events'
BY TypeParts DEF Happens, SharedOK

LEMMA EventsSame ==
  ASSUME TypeInv, UNCHANGED events PROVE events' \subseteq Events /\ events \subseteq events'
BY TypeParts DEF SharedOK

\* What only happens to the events.
LEMMA SharedSame ==
  ASSUME TypeInv, UNCHANGED <<admin, redis, seqLock, chain, spent>>, events' \subseteq Events
  PROVE  SharedOK'
BY TypeParts DEF SharedOK, redis, chain

LEMMA RestingType == Resting \in WorkerState /\ RunShape(Resting)
BY DEF Resting, WorkerState, RunShape, Clearing, Hash, Block

LEMMA RunTypes ==
  ASSUME TypeInv, NEW w \in Worker
  PROVE  /\ worker[w] \in WorkerState /\ RunShape(worker[w])
         /\ ~At(w, "idle") => /\ worker[w].job \in Job /\ worker[w].hash \in Hash
                              /\ worker[w].hash[1] = worker[w].job
BY TypeParts DEF RunShape, At

LEMMA JobTypes ==
  ASSUME TypeInv, NEW j \in Job
  PROVE  /\ job[j] \in JobState /\ JobShape(job[j])
         /\ job[j].attempts \in Nat /\ job[j].stalls \in Nat /\ Run(j) \in Nat
BY TypeParts, QueueAssumption DEF JobsOK, JobState, Run

LEMMA HashTypes ==
  ASSUME NEW h \in Hash PROVE h[1] \in Job /\ h[2] \in Nat /\ h = <<h[1], h[2]>>
BY DEF Hash

\* A step of a worker to another label.
LEMMA GotoForm ==
  ASSUME TypeInv, NEW w \in Worker, NEW label \in
         {"idle", "clearCache", "clearBlocks", "clearCursors", "blocks", "cursor", "advance",
          "load", "cache", "store", "send", "poll", "reconcile", "gaveUp", "record", "done"},
         Goto(w, label)
  PROVE  \E r \in WorkerState :
           /\ worker' = [worker EXCEPT ![w] = r]
           /\ r.pc = label /\ r.job = worker[w].job /\ r.hash = worker[w].hash
           /\ r.after = worker[w].after /\ r.list = worker[w].list /\ r.held = worker[w].held
<1> DEFINE r == [worker[w] EXCEPT !.pc = label]
<1>1. worker[w] \in WorkerState
  BY RunTypes
<1>2. /\ r \in WorkerState /\ r.pc = label /\ r.job = worker[w].job /\ r.hash = worker[w].hash
      /\ r.after = worker[w].after /\ r.list = worker[w].list /\ r.held = worker[w].held
  BY <1>1 DEF WorkerState
<1>3. worker' = [worker EXCEPT ![w] = r]
  BY DEF Goto
<1> QED BY <1>2, <1>3

LEMMA GotoShape ==
  ASSUME TypeInv, NEW w \in Worker, ~At(w, "idle"), NEW r \in WorkerState, r.pc # "idle",
         r.job = worker[w].job, r.hash = worker[w].hash,
         r.pc \in {"cursor", "advance"} => r.list # <<>>,
         r.after = "retry" => r.pc \in Clearing
  PROVE  RunShape(r)
BY RunTypes DEF RunShape

\* What the end of a run does to the job.
LEMMA FinishJob ==
  ASSUME TypeInv, NEW w \in Worker, ~At(w, "idle"), NEW hash \in Hash \cup {None},
         NEW state \in {"waiting", "completed", "rejected", "exhausted"},
         state = "waiting" => job[worker[w].job].attempts + 1 < MaxAttempts,
         Finish(w, state, hash)
  PROVE  /\ worker' = [worker EXCEPT ![w] = Resting]
         /\ LET j == worker[w].job IN
              \/ job' = job /\ ~(job[j].holder = w /\ job[j].state = "active")
              \/ /\ job[j].holder = w /\ job[j].state = "active"
                 /\ \E k \in JobState :
                      /\ JobShape(k) /\ job' = [job EXCEPT ![j] = k]
                      /\ k.state = state /\ k.hash = hash /\ k.stalls = job[j].stalls
                      /\ k.attempts = IF state = "completed" THEN job[j].attempts
                                                             ELSE job[j].attempts + 1
<1> DEFINE j == worker[w].job
           k == [job[j] EXCEPT !.state = state, !.holder = None, !.hash = hash,
                               !.attempts = IF state = "completed" THEN @ ELSE @ + 1]
<1>1. j \in Job
  BY RunTypes
<1>2. worker' = [worker EXCEPT ![w] = Resting]
  BY DEF Finish
<1>3. CASE ~(job[j].holder = w /\ job[j].state = "active")
  BY <1>2, <1>3 DEF Finish
<1>4. CASE job[j].holder = w /\ job[j].state = "active"
  <2>1. job' = [job EXCEPT ![j] = k]
    BY <1>4 DEF Finish
  <2>2. /\ job[j] \in JobState /\ job[j].attempts \in Nat /\ job[j].attempts < MaxAttempts
        /\ job[j].stalls <= MaxStalls /\ MaxAttempts \in Nat
    BY <1>1, <1>4, JobTypes, QueueAssumption DEF JobShape, Open
  <2> DEFINE n == IF state = "completed" THEN job[j].attempts ELSE job[j].attempts + 1
  <2>3. n \in 0..MaxAttempts /\ (state = "waiting" => n < MaxAttempts)
    BY <2>2
  <2> HIDE DEF n
  <2>4. k = [job[j] EXCEPT !.state = state, !.holder = None, !.hash = hash, !.attempts = n]
    BY DEF n
  <2> HIDE DEF k
  <2>5. /\ k \in JobState /\ k.state = state /\ k.hash = hash /\ k.stalls = job[j].stalls
        /\ k.attempts = n /\ k.holder = None
    BY <2>2, <2>3, <2>4 DEF JobState
  <2>6. JobShape(k)
    BY <2>2, <2>3, <2>5 DEF JobShape, Open
  <2> QED BY <1>2, <1>4, <2>1, <2>5, <2>6 DEF n
<1> QED BY <1>3, <1>4

LEMMA JobStep ==
  ASSUME TypeInv, NEW j \in Job, NEW k \in JobState, JobShape(k), job' = [job EXCEPT ![j] = k]
  PROVE  JobsOK'
<1>1. job \in [Job -> JobState] /\ \A i \in Job : JobShape(job[i])
  BY TypeParts DEF JobsOK
<1>2. ASSUME NEW i \in Job PROVE JobShape(job'[i])
  BY <1>1
<1> QED BY <1>1, <1>2 DEF JobsOK, JobShape

LEMMA FinishStep ==
  ASSUME TypeInv, NEW w \in Worker, ~At(w, "idle"), NEW hash \in Hash \cup {None},
         NEW state \in {"waiting", "completed", "rejected", "exhausted"},
         state = "waiting" => job[worker[w].job].attempts + 1 < MaxAttempts,
         Finish(w, state, hash), SharedOK'
  PROVE  TypeInv'
<1>1. worker' = [worker EXCEPT ![w] = Resting]
  BY DEF Finish
<1>2. worker[w].job \in Job
  BY RunTypes
<1>3. JobsOK'
  BY <1>2, FinishJob, JobStep, JobsSame
<1> QED BY <1>1, <1>3, RestingType, WorkerStep

LEMMA RetryStep ==
  ASSUME TypeInv, NEW w \in Worker, ~At(w, "idle"), Retry(w), SharedOK' PROVE TypeInv'
<1> DEFINE more == job[worker[w].job].attempts + 1 < MaxAttempts
<1>1. CASE more
  BY <1>1, FinishStep DEF Retry
<1>2. CASE ~more
  BY <1>2, FinishStep DEF Retry
<1> QED BY <1>1, <1>2

LEMMA RejectStep ==
  ASSUME TypeInv, NEW w \in Worker, ~At(w, "idle"), Reject(w), SharedOK' PROVE TypeInv'
BY FinishStep DEF Reject

LEMMA CompleteStep ==
  ASSUME TypeInv, NEW w \in Worker, ~At(w, "idle"), Complete(w, worker[w].hash), SharedOK'
  PROVE  TypeInv'
BY FinishStep, RunTypes DEF Complete

\* A worker that goes to another label and keeps its local state.
LEMMA MoveStep ==
  ASSUME TypeInv, NEW w \in Worker, ~At(w, "idle"), NEW label \in
         {"clearBlocks", "clearCursors", "blocks", "send", "gaveUp", "record", "done"},
         Goto(w, label), worker[w].after = "retry" => label \in Clearing,
         SharedOK', UNCHANGED job
  PROVE  TypeInv'
<1>1. PICK r \in WorkerState :
           /\ worker' = [worker EXCEPT ![w] = r]
           /\ r.pc = label /\ r.job = worker[w].job /\ r.hash = worker[w].hash
           /\ r.after = worker[w].after
  BY GotoForm
<1>2. RunShape(r)
  BY <1>1, GotoShape
<1> QED BY <1>1, <1>2, WorkerStep, JobsSame

\* Jobs.
LEMMA EnqueueForm ==
  ASSUME TypeInv, NEW j \in Job, Enqueue(j)
  PROVE  \E s \in {"refused", "waiting"}, p \in Payer :
           job' = [job EXCEPT ![j].state = s, ![j].payer = p]
<1>1. job \in [Job -> JobState] /\ job[j] \in JobState /\ job[j].payer \in Payer
  BY JobTypes, TypeParts DEF JobsOK, JobState
<1>2. CASE \E p \in Payer : job' = [job EXCEPT ![j].state = "waiting", ![j].payer = p]
  BY <1>2
<1>3. ASSUME NEW s \in {"refused", "waiting"}, job' = [job EXCEPT ![j].state = s]
      PROVE  job' = [job EXCEPT ![j].state = s, ![j].payer = job[j].payer]
  <2>1. [job[j] EXCEPT !.state = s] = [job[j] EXCEPT !.state = s, !.payer = job[j].payer]
    BY <1>1 DEF JobState
  <2> QED BY <1>1, <1>3, <2>1
<1> QED BY <1>1, <1>2, <1>3 DEF Enqueue

LEMMA EnqueueType ==
  ASSUME TypeInv, NEW j \in Job, Enqueue(j) PROVE TypeInv'
<1>1. events' \subseteq Events
  BY HappensType, EventsSame, EventTypes DEF Enqueue
<1>2. PICK s \in {"refused", "waiting"}, p \in Payer :
        job' = [job EXCEPT ![j].state = s, ![j].payer = p]
  BY EnqueueForm
<1> DEFINE k == [job[j] EXCEPT !.state = s, !.payer = p]
<1>3. job[j] \in JobState /\ JobShape(job[j]) /\ job[j].state = "new"
  BY JobTypes DEF Enqueue
<1>4. k \in JobState /\ JobShape(k)
  BY <1>3 DEF JobState, JobShape, Open
<1>5. job' = [job EXCEPT ![j] = k]
  BY <1>2
<1> HIDE DEF k
<1>6. JobsOK'
  BY <1>4, <1>5, JobStep
<1> QED BY <1>1, <1>6, SharedSame, StillStep DEF Enqueue

LEMMA TakeForm ==
  ASSUME TypeInv, NEW w \in Worker, NEW j \in Job, Take(w, j)
  PROVE  /\ \E r \in WorkerState :
              /\ RunShape(r) /\ worker' = [worker EXCEPT ![w] = r]
              /\ r.job = j /\ r.hash = <<j, Run(j)>> /\ r.pc \in Unsent
         /\ \E k \in JobState :
              /\ JobShape(k) /\ job' = [job EXCEPT ![j] = k]
              /\ k.state = "active" /\ k.holder = w
              /\ k.attempts = job[j].attempts /\ k.stalls = job[j].stalls
<1> DEFINE r == [Resting EXCEPT !.job = j, !.hash = <<j, job[j].attempts + job[j].stalls>>,
                   !.pc = IF job[j].attempts > 0 THEN "clearCache" ELSE "blocks"]
           k == [job[j] EXCEPT !.state = "active", !.holder = w]
<1>1. job[j] \in JobState /\ JobShape(job[j]) /\ job[j].state = "waiting" /\ Run(j) \in Nat
  BY JobTypes DEF Take
<1>2. worker' = [worker EXCEPT ![w] = r]
  BY DEF Take
<1>3. job' = [job EXCEPT ![j] = k]
  BY DEF Take
<1>4. /\ k \in JobState /\ k.state = "active" /\ k.holder = w
      /\ k.attempts = job[j].attempts /\ k.stalls = job[j].stalls
  BY <1>1 DEF JobState
<1>5. JobShape(k)
  BY <1>1, <1>4 DEF JobShape, Open
<1>6. /\ r.job = j /\ r.hash = <<j, Run(j)>> /\ r.pc \in {"clearCache", "blocks"}
      /\ r.after = "blocks" /\ r.list = <<>>
  BY DEF Resting, Run
<1>7. <<j, Run(j)>> \in Hash
  BY <1>1 DEF Hash
<1>8. r \in WorkerState
  BY <1>7, RestingType DEF WorkerState, Resting, Run
<1> HIDE DEF r, k
<1>9. RunShape(r)
  BY <1>6, <1>7 DEF RunShape
<1> QED BY <1>2, <1>3, <1>4, <1>5, <1>6, <1>8, <1>9 DEF Unsent, Clearing

LEMMA TakeType ==
  ASSUME TypeInv, NEW w \in Worker, NEW j \in Job, Take(w, j) PROVE TypeInv'
<1>1. PICK r \in WorkerState : RunShape(r) /\ worker' = [worker EXCEPT ![w] = r]
  BY TakeForm
<1>2. PICK k \in JobState : JobShape(k) /\ job' = [job EXCEPT ![j] = k]
  BY TakeForm
<1>3. JobsOK'
  BY <1>2, JobStep
<1>4. SharedOK'
  BY SharedSame, EventsSame DEF Take
<1> QED BY <1>1, <1>3, <1>4, WorkerStep

LEMMA StallForm ==
  ASSUME TypeInv, NEW j \in Job, Stall(j)
  PROVE  \E k \in JobState :
           /\ JobShape(k) /\ job' = [job EXCEPT ![j] = k]
           /\ k.state \in {"waiting", "rejected"}
           /\ k.attempts = job[j].attempts /\ k.stalls = job[j].stalls + 1
<1> DEFINE s == IF job[j].stalls = MaxStalls THEN "rejected" ELSE "waiting"
           k == [job[j] EXCEPT !.holder = None, !.stalls = job[j].stalls + 1, !.state = s]
<1>1. /\ job[j] \in JobState /\ job[j].state = "active" /\ job[j].stalls \in Nat
      /\ job[j].stalls <= MaxStalls /\ job[j].attempts < MaxAttempts /\ MaxStalls \in Nat
  BY JobTypes, QueueAssumption DEF JobShape, Open, Stall
<1>2. job' = [job EXCEPT ![j] = k]
  BY DEF Stall
<1>3. s \in {"waiting", "rejected"} /\ (s = "waiting" => job[j].stalls + 1 <= MaxStalls)
  BY <1>1
<1>4. job[j].stalls + 1 \in 0..(MaxStalls + 1)
  BY <1>1
<1> HIDE DEF s
<1>5. /\ k \in JobState /\ k.state = s /\ k.attempts = job[j].attempts
      /\ k.stalls = job[j].stalls + 1
  BY <1>1, <1>3, <1>4 DEF JobState
<1> HIDE DEF k
<1>6. JobShape(k)
  BY <1>1, <1>3, <1>5 DEF JobShape, Open
<1> QED BY <1>2, <1>3, <1>5, <1>6

LEMMA StallType ==
  ASSUME TypeInv, NEW j \in Job, Stall(j) PROVE TypeInv'
<1>1. events' \subseteq Events
  BY HappensType, EventsSame, EventTypes DEF Stall
<1>2. JobsOK'
  BY StallForm, JobStep
<1> QED BY <1>1, <1>2, SharedSame, StillStep DEF Stall

LEMMA CrashType ==
  ASSUME TypeInv, NEW w \in Worker, Crash(w) PROVE TypeInv'
<1>1. events' \subseteq Events
  BY HappensType, EventTypes DEF Crash
<1> QED BY <1>1, SharedSame, RestingType, JobsSame, WorkerStep DEF Crash

\* reserveSequenceBlock().
LEMMA AdminStep ==
  ASSUME TypeInv, NEW a \in Admin, NEW b \in AdminState, admin' = [admin EXCEPT ![a] = b],
         UNCHANGED <<job, worker, cache, cursor, chain, spent>>, events' \subseteq Events,
         blocks' \in Seq(Block), seqLock' \in Admin \cup {None}
  PROVE  TypeInv'
<1>1. admin \in [Admin -> AdminState]
  BY TypeParts DEF SharedOK
<1>2. SharedOK'
  BY <1>1, TypeParts DEF SharedOK, chain
<1> QED BY <1>2, StillStep, JobsSame

AdminLabels == {"lock", "load", "read", "push", "unlock"}

AdminAt(a, l) == admin' = [admin EXCEPT ![a].pc = l]
AdminTo(a, l, n) == admin' = [admin EXCEPT ![a].pc = l, ![a].highest = n]
AdminDone(a) == admin' = [admin EXCEPT ![a] = NoCall]

LEMMA NoCallType == NoCall \in AdminState /\ NoCall.pc = "idle" /\ NoCall.highest = 0
BY DEF NoCall, AdminState

LEMMA AdminGoto ==
  ASSUME TypeInv, NEW a \in Admin, admin[a].pc # "idle", NEW l \in AdminLabels, AdminAt(a, l)
  PROVE  \E b \in AdminState :
           admin' = [admin EXCEPT ![a] = b] /\ b.pc = l /\ b.highest = admin[a].highest
<1> DEFINE b == [admin[a] EXCEPT !.pc = l]
<1>1. admin[a] \in AdminState
  BY TypeParts DEF SharedOK
<1>2. b \in AdminState /\ b.pc = l /\ b.highest = admin[a].highest
  BY <1>1 DEF AdminState, AdminLabels, NoCall
<1>3. admin' = [admin EXCEPT ![a] = b]
  BY DEF AdminAt
<1> QED BY <1>2, <1>3

LEMMA AdminRaise ==
  ASSUME TypeInv, NEW a \in Admin, admin[a].pc # "idle", NEW l \in AdminLabels,
         NEW n \in Nat, AdminTo(a, l, n)
  PROVE  \E b \in AdminState : admin' = [admin EXCEPT ![a] = b] /\ b.pc = l /\ b.highest = n
<1> DEFINE b == [admin[a] EXCEPT !.pc = l, !.highest = n]
<1>1. admin[a] \in AdminState
  BY TypeParts DEF SharedOK
<1>2. admin[a] \in [pc : AdminLabels, lease : Lease, highest : Nat]
  BY <1>1 DEF AdminState, AdminLabels, NoCall
<1>3. b \in [pc : AdminLabels, lease : Lease, highest : Nat] /\ b.pc = l /\ b.highest = n
  BY <1>2
<1>4. b \in AdminState
  BY <1>3 DEF AdminState, AdminLabels
<1>5. admin' = [admin EXCEPT ![a] = b]
  BY DEF AdminTo
<1> QED BY <1>3, <1>4, <1>5

LEMMA BlockTypes ==
  ASSUME TypeInv
  PROVE  /\ blocks \in Seq(Block) /\ DOMAIN blocks = 1..Len(blocks) /\ Len(blocks) \in Nat
         /\ \A i \in DOMAIN blocks : blocks[i] \in Block /\ blocks[i].last \in Nat
<1>1. blocks \in Seq(Block)
  BY TypeParts DEF SharedOK
<1>2. DOMAIN blocks = 1..Len(blocks) /\ Len(blocks) \in Nat
  BY <1>1
<1>3. \A i \in 1..Len(blocks) : blocks[i] \in Block
  BY <1>1
<1> QED BY <1>1, <1>2, <1>3 DEF Block

LEMMA AdminType ==
  ASSUME TypeInv, NEW a \in Admin,
         RequestBlock(a) \/ Reserve(a) \/ ReserveFails(a) \/ CrashAdmin(a)
  PROVE  TypeInv'
<1>1. /\ admin[a] \in AdminState /\ admin[a].highest \in Nat /\ account \in Nat
      /\ blocks \in Seq(Block) /\ seqLock \in Admin \cup {None} /\ events \subseteq Events
  BY TypeParts DEF SharedOK, AdminState, NoCall
<1>2. CASE RequestBlock(a)
  <2>1. PICK l \in Lease :
          Happens(l) /\ admin' = [admin EXCEPT ![a] = [pc |-> "lock", lease |-> l, highest |-> 0]]
    BY <1>2 DEF RequestBlock
  <2>2. [pc |-> "lock", lease |-> l, highest |-> 0] \in AdminState
    BY DEF AdminState
  <2>3. events' \subseteq Events
    BY <2>1, HappensType, EventTypes
  <2> QED BY <1>1, <1>2, <2>1, <2>2, <2>3, AdminStep DEF RequestBlock, redis
<1>3. CASE LockSequence(a)
  <2>1. admin[a].pc # "idle" /\ (AdminAt(a, "load") \/ AdminDone(a))
    BY <1>3 DEF LockSequence, AdminAt, AdminDone
  <2>2. \E b \in AdminState : admin' = [admin EXCEPT ![a] = b]
    BY <2>1, AdminGoto, NoCallType DEF AdminLabels, AdminDone
  <2> QED BY <1>1, <1>3, <2>2, AdminStep DEF LockSequence, redis
<1>4. CASE ReserveLoad(a)
  <2>1. \E b \in AdminState : admin' = [admin EXCEPT ![a] = b]
    <3>1. AdminTo(a, "read", account) /\ admin[a].pc # "idle"
      BY <1>4 DEF ReserveLoad, AdminTo
    <3> QED BY <1>1, <3>1, AdminRaise DEF AdminLabels
  <2> QED BY <1>1, <1>4, <2>1, AdminStep DEF ReserveLoad, redis
<1>5. CASE ReserveRead(a)
  <2>1. PICK h \in {admin[a].highest} \cup {blocks[i].last : i \in DOMAIN blocks} :
          AdminTo(a, "push", h) /\ admin[a].pc # "idle"
    BY <1>5 DEF ReserveRead, AdminTo
  <2>2. h \in Nat
    BY <1>1, <2>1, BlockTypes
  <2>3. \E b \in AdminState : admin' = [admin EXCEPT ![a] = b]
    BY <2>1, <2>2, AdminRaise DEF AdminLabels
  <2> QED BY <1>1, <1>5, <2>3, AdminStep DEF ReserveRead, redis
<1>6. CASE ReservePush(a)
  <2>1. \E b \in AdminState : admin' = [admin EXCEPT ![a] = b]
    <3>1. AdminAt(a, "unlock") /\ admin[a].pc # "idle"
      BY <1>6 DEF ReservePush, AdminAt
    <3> QED BY <3>1, AdminGoto DEF AdminLabels
  <2> DEFINE first == admin[a].highest + 1
             new == [lease |-> admin[a].lease, first |-> first, last |-> first + BlockSize - 1]
  <2>2. first \in Nat /\ first + BlockSize - 1 \in Nat /\ admin[a].lease \in Lease
    BY <1>1, <1>6, QueueAssumption DEF AdminState, NoCall, ReservePush
  <2>3. new \in Block
    BY <2>2 DEF Block
  <2>4. blocks' = Append(blocks, new)
    BY <1>6 DEF ReservePush
  <2> HIDE DEF new
  <2>5. blocks' \in Seq(Block)
    BY <1>1, <2>3, <2>4
  <2> QED BY <1>1, <1>6, <2>1, <2>5, AdminStep DEF ReservePush
<1>7. CASE ReserveUnlock(a)
  <2>1. \E b \in AdminState : admin' = [admin EXCEPT ![a] = b]
    BY <1>7, NoCallType DEF ReserveUnlock
  <2> QED BY <1>1, <1>7, <2>1, AdminStep DEF ReserveUnlock, redis
<1>8. CASE ReserveFails(a)
  <2>1. \E b \in AdminState : admin' = [admin EXCEPT ![a] = b]
    <3>1. AdminAt(a, "unlock") /\ admin[a].pc # "idle"
      BY <1>8 DEF ReserveFails, AdminAt
    <3> QED BY <3>1, AdminGoto DEF AdminLabels
  <2>2. events' \subseteq Events
    BY <1>8, HappensType, EventTypes DEF ReserveFails
  <2> QED BY <1>1, <1>8, <2>1, <2>2, AdminStep DEF ReserveFails, redis
<1>9. CASE CrashAdmin(a)
  <2>1. \E b \in AdminState : admin' = [admin EXCEPT ![a] = b]
    BY <1>9, NoCallType DEF CrashAdmin
  <2>2. events' \subseteq Events
    BY <1>9, HappensType, EventTypes DEF CrashAdmin
  <2> QED BY <1>1, <1>9, <2>1, <2>2, AdminStep DEF CrashAdmin, redis
<1> QED BY <1>2, <1>3, <1>4, <1>5, <1>6, <1>7, <1>8, <1>9 DEF Reserve

LEMMA LapseType ==
  ASSUME TypeInv, LapseSeqLock \/ LapseCache PROVE TypeInv'
<1>1. events' \subseteq Events
  BY HappensType, EventsSame, EventTypes DEF LapseSeqLock, LapseCache
<1>2. SharedOK'
  BY <1>1, TypeParts DEF SharedOK, LapseSeqLock, LapseCache, redis, chain
<1> QED BY <1>2, StillStep, JobsSame DEF LapseSeqLock, LapseCache

\* getNextSequenceNumber() and the resets: a worker moves on before its envelope is
\* sent.
Prepares(w) ==
  /\ worker[w].pc \in Unsent
  /\ \E r \in WorkerState : /\ worker' = [worker EXCEPT ![w] = r] /\ RunShape(r)
                            /\ r.pc \in Unsent /\ r.job = worker[w].job
                            /\ r.hash = worker[w].hash
  /\ UNCHANGED <<job, envs, spent>> /\ events \subseteq events'

LEMMA UnsentLabels ==
  /\ {"clearCache", "clearBlocks", "clearCursors", "blocks", "cursor", "advance", "load",
      "cache", "store", "send"} = Unsent
  /\ {"clearCache", "clearBlocks", "clearCursors"} = Clearing
  /\ "idle" \notin Unsent /\ Unsent \cap Sent = {}
BY DEF Unsent, Clearing, Sent

LEMMA PrepareGoto ==
  ASSUME TypeInv, NEW w \in Worker, worker[w].pc \in Unsent,
         NEW label \in {"clearBlocks", "clearCursors", "blocks", "send"}, Goto(w, label),
         worker[w].after = "retry" => label \in Clearing, UNCHANGED <<job, envs, spent, events>>
  PROVE  Prepares(w)
<1>1. PICK r \in WorkerState :
           /\ worker' = [worker EXCEPT ![w] = r]
           /\ r.pc = label /\ r.job = worker[w].job /\ r.hash = worker[w].hash
           /\ r.after = worker[w].after
  BY GotoForm
<1>2. RunShape(r)
  BY <1>1, GotoShape, UnsentLabels DEF At
<1> QED BY <1>1, <1>2, UnsentLabels DEF Prepares

\* A worker before the submission: its list of blocks.
LEMMA ListTypes ==
  ASSUME TypeInv, NEW w \in Worker, worker[w].list # <<>>
  PROVE  /\ Head(worker[w].list) \in Block /\ Tail(worker[w].list) \in Seq(Block)
         /\ Len(worker[w].list) # 1 => Tail(worker[w].list) # <<>>
<1>1. worker[w].list \in Seq(Block)
  BY RunTypes DEF WorkerState
<1> DEFINE l == worker[w].list
<1> HIDE DEF l
<1>2. l \in Seq(Block) /\ l # <<>>
  BY <1>1 DEF l
<1>3. Head(l) \in Block /\ Tail(l) \in Seq(Block) /\ Len(Tail(l)) = Len(l) - 1
  BY <1>2
<1>4. Len(l) \in Nat
  BY <1>2
<1>5. Len(<<>>) = 0
  OBVIOUS
<1>6. ASSUME Tail(l) = <<>> PROVE Len(l) = 1
  <2>1. Len(Tail(l)) = 0
    BY <1>5, <1>6, Zenon
  <2> DEFINE n == Len(Tail(l))
             m == Len(l)
  <2>2. n = 0 /\ n = m - 1 /\ m \in Nat
    BY <1>3, <1>4, <2>1
  <2> HIDE DEF n, m
  <2>3. m = 1
    BY <2>2
  <2> QED BY <2>3 DEF m
<1> QED BY <1>3, <1>6 DEF l

LEMMA NextBlockForm ==
  ASSUME TypeInv, NEW w \in Worker, worker[w].pc \in {"cursor", "advance"}
  PROVE  LET r == NextBlock(worker[w]) IN
           /\ r \in WorkerState /\ RunShape(r) /\ r.pc \in Unsent
           /\ r.job = worker[w].job /\ r.hash = worker[w].hash
<1> DEFINE r == NextBlock(worker[w])
           l == IF Len(worker[w].list) = 1 THEN "load" ELSE "cursor"
<1>1. worker[w] \in WorkerState /\ RunShape(worker[w]) /\ worker[w].list # <<>>
  BY RunTypes DEF RunShape
<1>2. Tail(worker[w].list) \in Seq(Block) /\ (l # "load" => Tail(worker[w].list) # <<>>)
  BY <1>1, ListTypes
<1>3. l \in {"load", "cursor"}
  OBVIOUS
<1>4. r = [worker[w] EXCEPT !.list = Tail(worker[w].list), !.seq = 0, !.pc = l]
  BY DEF NextBlock
<1> HIDE DEF r, l
<1>5. /\ r \in WorkerState /\ r.pc = l /\ r.job = worker[w].job /\ r.hash = worker[w].hash
      /\ r.list = Tail(worker[w].list) /\ r.after = worker[w].after
  BY <1>1, <1>2, <1>3, <1>4 DEF WorkerState
<1>6. worker[w].after # "retry"
  BY <1>1, UnsentLabels DEF RunShape, Clearing
<1>7. RunShape(r)
  BY <1>2, <1>3, <1>5, <1>6, GotoShape DEF At
<1>8. r.pc \in Unsent
  BY <1>3, <1>5, UnsentLabels
<1> QED BY <1>5, <1>7, <1>8 DEF r

\* A step that replaces the local state as a whole, or some fields of it.
LEMMA PrepareWith ==
  ASSUME TypeInv, NEW w \in Worker, worker[w].pc \in Unsent, NEW r \in WorkerState,
         worker' = [worker EXCEPT ![w] = r], r.pc \in Unsent, r.job = worker[w].job,
         r.hash = worker[w].hash, r.pc \in {"cursor", "advance"} => r.list # <<>>,
         r.after = "retry" => r.pc \in Clearing,
         UNCHANGED <<job, envs, spent>>, events \subseteq events'
  PROVE  Prepares(w)
BY GotoShape, UnsentLabels DEF Prepares, At

LEMMA ClearPrepares ==
  ASSUME TypeInv, NEW w \in Worker,
         ClearCache(w) \/ ClearBlocks(w) \/ (ClearCursors(w) /\ worker[w].after # "retry")
  PROVE  Prepares(w)
<1>1. CASE ClearCache(w)
  BY <1>1, PrepareGoto, UnsentLabels DEF ClearCache, At, chain
<1>2. CASE ClearBlocks(w)
  BY <1>2, PrepareGoto, UnsentLabels DEF ClearBlocks, At, chain
<1>3. CASE ClearCursors(w) /\ worker[w].after # "retry"
  BY <1>3, PrepareGoto, UnsentLabels DEF ClearCursors, At, chain
<1> QED BY <1>1, <1>2, <1>3

LEMMA AfterReset ==
  ASSUME TypeInv, NEW w \in Worker, worker[w].pc \in Unsent \ Clearing
  PROVE  worker[w].after = "blocks"
BY RunTypes DEF RunShape, WorkerState

LEMMA ReadBlocksPrepares ==
  ASSUME TypeInv, NEW w \in Worker, ReadBlocks(w) PROVE Prepares(w)
<1> DEFINE l == IF blocks = <<>> THEN "load" ELSE "cursor"
           r == [worker[w] EXCEPT !.list = blocks, !.pc = l]
<1>1. worker[w] \in WorkerState /\ blocks \in Seq(Block) /\ worker[w].pc = "blocks"
  BY RunTypes, BlockTypes DEF ReadBlocks, At
<1>2. l \in {"load", "cursor"} /\ (l = "cursor" => blocks # <<>>)
  OBVIOUS
<1>3. worker' = [worker EXCEPT ![w] = r]
  BY DEF ReadBlocks
<1> HIDE DEF l
<1>4. /\ r \in WorkerState /\ r.pc = l /\ r.job = worker[w].job /\ r.hash = worker[w].hash
      /\ r.list = blocks /\ r.after = worker[w].after
  BY <1>1, <1>2 DEF WorkerState
<1> HIDE DEF r
<1>5. worker[w].after = "blocks"
  BY <1>1, AfterReset, UnsentLabels DEF Clearing, Unsent
<1>6. UNCHANGED <<job, envs, spent>> /\ events' = events
  BY DEF ReadBlocks, chain
<1>7. worker[w].pc \in Unsent /\ r.pc \in Unsent /\ r.pc # "advance"
  BY <1>1, <1>2, <1>4, UnsentLabels
<1> QED BY <1>2, <1>3, <1>4, <1>5, <1>6, <1>7, PrepareWith

LEMMA ReadCursorPrepares ==
  ASSUME TypeInv, NEW w \in Worker, ReadCursor(w) PROVE Prepares(w)
<1> DEFINE b == Head(worker[w].list)
           c == IF cursor[b.lease] = 0 THEN b.first ELSE cursor[b.lease]
           s == [worker[w] EXCEPT !.seq = c, !.pc = "advance"]
<1>1. worker[w] \in WorkerState /\ RunShape(worker[w]) /\ worker[w].pc = "cursor"
      /\ worker[w].list # <<>>
  BY RunTypes DEF ReadCursor, At, RunShape
<1>2. b \in Block
  BY <1>1, ListTypes
<1>3. b.lease \in Lease /\ b.first \in Nat
  BY <1>2 DEF Block
<1>4. cursor \in [Lease -> Nat]
  BY TypeParts DEF SharedOK
<1>5. c \in Nat
  BY <1>3, <1>4
<1>6. UNCHANGED <<job, envs, spent>> /\ events' = events
  BY DEF ReadCursor, chain
<1>7. worker' = [worker EXCEPT ![w] = IF c <= b.last THEN s ELSE NextBlock(worker[w])]
  BY DEF ReadCursor
<1>8. worker[w].pc \in Unsent
  BY <1>1, UnsentLabels
<1> HIDE DEF c
<1>9. /\ s \in WorkerState /\ s.pc = "advance" /\ s.job = worker[w].job
      /\ s.hash = worker[w].hash /\ s.list = worker[w].list /\ s.after = worker[w].after
  BY <1>1, <1>5 DEF WorkerState
<1> HIDE DEF s
<1>10. worker[w].after = "blocks"
  BY <1>1, AfterReset, UnsentLabels DEF Clearing, Unsent
<1>11. CASE c <= b.last
  <2>1. worker' = [worker EXCEPT ![w] = s]
    BY <1>7, <1>11
  <2> QED BY <1>1, <1>6, <1>8, <1>9, <1>10, <2>1, UnsentLabels, PrepareWith
<1>12. CASE ~(c <= b.last)
  <2> DEFINE r == NextBlock(worker[w])
  <2>1. worker' = [worker EXCEPT ![w] = r]
    BY <1>7, <1>12
  <2>2. /\ r \in WorkerState /\ RunShape(r) /\ r.pc \in Unsent
        /\ r.job = worker[w].job /\ r.hash = worker[w].hash
    BY <1>1, NextBlockForm
  <2> HIDE DEF r
  <2> QED BY <1>6, <1>8, <2>1, <2>2 DEF Prepares
<1> QED BY <1>11, <1>12

LEMMA SequencePrepares ==
  ASSUME TypeInv, NEW w \in Worker,
         AdvanceCursor(w) \/ LoadAccount(w) \/ ReadCache(w) \/ StoreCache(w)
  PROVE  Prepares(w)
<1>1. worker[w] \in WorkerState /\ account \in Nat /\ cache \in Nat /\ worker[w].seq \in Nat
  BY RunTypes, TypeParts DEF SharedOK, WorkerState
<1>2. /\ worker[w].pc \in Unsent \ Clearing /\ worker[w].pc \in Unsent
      /\ UNCHANGED <<job, envs, spent>> /\ events' = events
  BY UnsentLabels DEF AdvanceCursor, LoadAccount, ReadCache, StoreCache, At, chain, Clearing
<1>3. worker[w].after = "blocks"
  BY <1>2, AfterReset
<1>4. CASE AdvanceCursor(w) \/ StoreCache(w)
  BY <1>2, <1>3, <1>4, PrepareGoto DEF AdvanceCursor, StoreCache
<1>5. CASE LoadAccount(w)
  <2> DEFINE r == [worker[w] EXCEPT !.seq = account, !.pc = "cache"]
  <2>1. /\ r \in WorkerState /\ r.pc = "cache" /\ r.job = worker[w].job
        /\ r.hash = worker[w].hash /\ r.after = worker[w].after
    BY <1>1 DEF WorkerState
  <2>2. worker' = [worker EXCEPT ![w] = r]
    BY <1>5 DEF LoadAccount
  <2> HIDE DEF r
  <2> QED BY <1>2, <1>3, <2>1, <2>2, UnsentLabels, PrepareWith
<1>6. CASE ReadCache(w)
  <2> DEFINE n == IF cache >= worker[w].seq THEN cache ELSE worker[w].seq
             r == [worker[w] EXCEPT !.pc = "store", !.seq = n]
  <2>1. worker' = [worker EXCEPT ![w] = r]
    BY <1>6 DEF ReadCache
  <2>2. n \in Nat
    BY <1>1
  <2> HIDE DEF n
  <2>3. /\ r \in WorkerState /\ r.pc = "store" /\ r.job = worker[w].job
        /\ r.hash = worker[w].hash /\ r.after = worker[w].after
    BY <1>1, <2>2 DEF WorkerState
  <2> HIDE DEF r
  <2> QED BY <1>2, <1>3, <2>1, <2>3, UnsentLabels, PrepareWith
<1> QED BY <1>4, <1>5, <1>6

LEMMA PreparesType ==
  ASSUME TypeInv, NEW w \in Worker, Prepares(w), SharedOK' PROVE TypeInv'
BY JobsSame, WorkerStep DEF Prepares

\* What a worker's own steps do to the shared state.
LEMMA AdvancedType ==
  ASSUME TypeInv, NEW w \in Worker PROVE Advanced(w) \in [Lease -> Nat]
<1>1. cursor \in [Lease -> Nat] /\ worker[w].seq + 1 \in Nat
  BY TypeParts, RunTypes DEF SharedOK, WorkerState
<1> QED BY <1>1 DEF Advanced

LEMMA StepShared ==
  ASSUME TypeInv, NEW w \in Worker,
         \/ ClearCache(w) \/ ClearBlocks(w) \/ ClearCursors(w) \/ ReadBlocks(w) \/ ReadCursor(w)
         \/ AdvanceCursor(w) \/ LoadAccount(w) \/ ReadCache(w) \/ StoreCache(w)
  PROVE  SharedOK'
<1>1. SharedOK /\ worker[w] \in WorkerState /\ worker[w].seq \in Nat
  BY TypeParts, RunTypes DEF WorkerState
<1>2. CASE ClearCache(w)
  BY <1>1, <1>2 DEF ClearCache, SharedOK, chain
<1>3. CASE ClearBlocks(w)
  <2>1. blocks' \in Seq(Block)
    BY <1>3 DEF ClearBlocks
  <2> QED BY <1>1, <1>3, <2>1 DEF ClearBlocks, SharedOK, chain
<1>4. CASE ClearCursors(w)
  <2>1. cursor' \in [Lease -> Nat]
    BY <1>4 DEF ClearCursors, NoCursors
  <2> QED BY <1>1, <1>4, <2>1 DEF ClearCursors, SharedOK, chain
<1>5. CASE ReadBlocks(w) \/ ReadCursor(w) \/ LoadAccount(w) \/ ReadCache(w)
  BY <1>1, <1>5 DEF ReadBlocks, ReadCursor, LoadAccount, ReadCache, SharedOK, redis, chain
<1>6. CASE AdvanceCursor(w)
  <2>1. cursor' \in [Lease -> Nat]
    BY <1>6, AdvancedType DEF AdvanceCursor
  <2> QED BY <1>1, <1>6, <2>1 DEF AdvanceCursor, SharedOK, chain
<1>7. CASE StoreCache(w)
  <2>1. cache' \in Nat
    BY <1>1, <1>7 DEF StoreCache
  <2> QED BY <1>1, <1>7, <2>1 DEF StoreCache, SharedOK, chain
<1> QED BY <1>2, <1>3, <1>4, <1>5, <1>6, <1>7

\* The forms that the other steps take.  A run fails ...
Fails(w) ==
  /\ ~At(w, "idle")
  /\ \E state \in {"waiting", "rejected", "exhausted"} :
       /\ state = "waiting" => job[worker[w].job].attempts + 1 < MaxAttempts
       /\ Finish(w, state, None)
  /\ UNCHANGED envs \/ (At(w, "send") /\ Taken(w) /\ Lossy')
  /\ \/ worker[w].pc \in Unsent
     \/ At(w, "poll") /\ Status(w) = "failed"
     \/ At(w, "poll") /\ Status(w) \notin {"applied", "failed"} /\ Outlived(w)
     \/ worker[w].pc \in {"reconcile", "gaveUp"}
     \/ Lossy'
  /\ UNCHANGED spent /\ events \subseteq events'

\* ... or completes the job ...
Completes(w) ==
  /\ worker[w].pc \in {"poll", "reconcile", "done"}
  /\ Complete(w, worker[w].hash)
  /\ At(w, "poll") => "lost" \in events' /\ OnLedger(worker[w].hash)
  /\ At(w, "reconcile") => IsApplied(worker[w].hash)
  /\ UNCHANGED <<envs, spent>> /\ events \subseteq events'

\* ... or the envelope has been sent ...
Awaits(w) ==
  /\ At(w, "send")
  /\ \E r \in WorkerState : /\ worker' = [worker EXCEPT ![w] = r] /\ RunShape(r)
                            /\ r.pc \in {"poll", "reconcile"} /\ r.job = worker[w].job
                            /\ r.hash = worker[w].hash /\ r.held = Pending'
                            /\ r.pc = "reconcile" => "timeout" \in events'
  /\ Taken(w) \/ UNCHANGED envs
  /\ UNCHANGED <<job, spent>> /\ events \subseteq events'

\* ... or looked up.
Looks(w) ==
  /\ \E r \in WorkerState : /\ worker' = [worker EXCEPT ![w] = r] /\ RunShape(r)
                            /\ r.job = worker[w].job /\ r.hash = worker[w].hash
                            /\ \/ At(w, "poll") /\ r.pc = "record" /\ IsApplied(worker[w].hash)
                               \/ At(w, "reconcile") /\ r.pc = "gaveUp"
  /\ UNCHANGED <<job, envs, spent>> /\ events \subseteq events'

LEMMA FailsType ==
  ASSUME TypeInv, NEW w \in Worker, Fails(w), SharedOK' PROVE TypeInv'
BY FinishStep DEF Fails

LEMMA CompletesType ==
  ASSUME TypeInv, NEW w \in Worker, Completes(w), SharedOK' PROVE TypeInv'
BY CompleteStep DEF Completes, At

LEMMA AwaitsType ==
  ASSUME TypeInv, NEW w \in Worker, Awaits(w) \/ Looks(w), SharedOK' PROVE TypeInv'
BY JobsSame, WorkerStep DEF Awaits, Looks

LEMMA RunEnds ==
  ASSUME TypeInv, NEW w \in Worker, Retry(w) \/ Reject(w)
  PROVE  \E state \in {"waiting", "rejected", "exhausted"} :
           /\ state = "waiting" => job[worker[w].job].attempts + 1 < MaxAttempts
           /\ Finish(w, state, None)
<1>1. CASE Retry(w) /\ job[worker[w].job].attempts + 1 < MaxAttempts
  BY <1>1 DEF Retry
<1>2. CASE Retry(w) /\ ~(job[worker[w].job].attempts + 1 < MaxAttempts)
  BY <1>2 DEF Retry
<1>3. CASE Reject(w)
  BY <1>3 DEF Reject
<1> QED BY <1>1, <1>2, <1>3

LEMMA CursorsForm ==
  ASSUME TypeInv, NEW w \in Worker, ClearCursors(w), worker[w].after = "retry"
  PROVE  Fails(w)
BY RunEnds, UnsentLabels DEF ClearCursors, Fails, At, chain

LEMMA TakenType ==
  ASSUME TypeInv, NEW w \in Worker, At(w, "send"), Taken(w) \/ UNCHANGED envs
  PROVE  DOMAIN envs' \subseteq Hash /\ \A h \in DOMAIN envs' : envs'[h] \in EnvState
<1> DEFINE new == [seq |-> Built(w), status |-> "pending"]
           hash == worker[w].hash
<1>1. DOMAIN envs \subseteq Hash /\ \A h \in DOMAIN envs : envs[h] \in EnvState
  BY TypeParts DEF SharedOK
<1>2. hash \in Hash /\ worker[w].seq \in Nat
  BY RunTypes DEF At, WorkerState
<1>3. new \in EnvState
  BY <1>2 DEF EnvState, Built
<1> HIDE DEF new, hash
<1>4. CASE envs' = [h \in DOMAIN envs \cup {hash} |-> IF h = hash THEN new ELSE envs[h]]
  BY <1>1, <1>2, <1>3, <1>4
<1>5. CASE envs' = envs
  BY <1>1, <1>5
<1> QED BY <1>4, <1>5 DEF Taken, new, hash

\* Only the envelopes and the events change.
LEMMA SendShared ==
  ASSUME TypeInv, NEW w \in Worker, At(w, "send"), Taken(w) \/ UNCHANGED envs,
         UNCHANGED <<admin, redis, seqLock, account, spent>>, events' \subseteq Events
  PROVE  SharedOK'
BY TakenType, TypeParts DEF SharedOK, redis

LEMMA AwaitForm ==
  ASSUME TypeInv, NEW w \in Worker, At(w, "send"), NEW label \in {"poll", "reconcile"},
         Await(w, label), SharedOK'
  PROVE  \E r \in WorkerState : /\ worker' = [worker EXCEPT ![w] = r] /\ RunShape(r)
                                /\ r.pc = label /\ r.job = worker[w].job
                                /\ r.hash = worker[w].hash /\ r.held = Pending'
<1> DEFINE p == Pending'
           r == [worker[w] EXCEPT !.pc = label, !.seq = 0, !.list = <<>>, !.held = p]
<1>1. worker[w] \in WorkerState /\ worker[w].pc = "send"
  BY RunTypes DEF At
<1>2. p \in SUBSET Hash
  BY DEF Pending, SharedOK
<1>3. worker' = [worker EXCEPT ![w] = r]
  BY DEF Await
<1> HIDE DEF p
<1>4. <<>> \in Seq(Block)
  OBVIOUS
<1>5. /\ r \in WorkerState /\ r.pc = label /\ r.job = worker[w].job /\ r.hash = worker[w].hash
      /\ r.held = p /\ r.after = worker[w].after
  BY <1>1, <1>2, <1>4 DEF WorkerState
<1> HIDE DEF r
<1>6. worker[w].after = "blocks"
  BY <1>1, AfterReset, UnsentLabels DEF Clearing, Unsent
<1>7. RunShape(r)
  BY <1>5, <1>6, GotoShape DEF At
<1> QED BY <1>3, <1>5, <1>7 DEF p

LEMMA CallFailsForm ==
  ASSUME TypeInv, NEW w \in Worker, CallFails(w)
  PROVE  SharedOK' /\ (Fails(w) \/ Prepares(w))
<1>1. events' \subseteq Events /\ events \subseteq events'
  BY HappensType, EventTypes DEF CallFails
<1>2. SharedOK'
  <2>1. cursor' \in [Lease -> Nat]
    <3>1. CASE UNCHANGED cursor
      BY <3>1, TypeParts DEF SharedOK
    <3>2. CASE At(w, "advance") /\ cursor' = Advanced(w)
      BY <3>2, AdvancedType
    <3>3. CASE cursor' = NoCursors
      BY <3>3 DEF NoCursors
    <3> QED BY <3>1, <3>2, <3>3 DEF CallFails
  <2> QED BY <1>1, <2>1, TypeParts DEF CallFails, SharedOK, chain
<1>3. UNCHANGED <<envs, spent>>
  BY DEF CallFails, chain
<1>4. CASE Retry(w) \/ Reject(w)
  <2>1. worker[w].pc \in Unsent
    <3>1. RunShape(worker[w])
      BY RunTypes
    <3> QED BY <3>1, UnsentLabels DEF CallFails, At, RunShape
  <2> QED BY <1>1, <1>2, <1>3, <1>4, <2>1, RunEnds, UnsentLabels DEF Fails, At
<1>5. CASE /\ worker[w].pc \in {"cursor", "advance"}
           /\ worker' = [worker EXCEPT ![w] = NextBlock(@)]
           /\ UNCHANGED job
  <2> DEFINE r == NextBlock(worker[w])
  <2>1. worker' = [worker EXCEPT ![w] = r]
    BY <1>5
  <2>2. /\ r \in WorkerState /\ RunShape(r) /\ r.pc \in Unsent
        /\ r.job = worker[w].job /\ r.hash = worker[w].hash
    BY <1>5, NextBlockForm
  <2> HIDE DEF r
  <2>3. worker[w].pc \in Unsent
    BY <1>5, UnsentLabels
  <2> QED BY <1>1, <1>2, <1>3, <1>5, <2>1, <2>2, <2>3 DEF Prepares
<1> QED BY <1>4, <1>5 DEF CallFails

LEMMA SendForm ==
  ASSUME TypeInv, NEW w \in Worker, Send(w)
  PROVE  SharedOK' /\ (Fails(w) \/ Prepares(w) \/ Awaits(w))
<1>1. events' \subseteq Events /\ events \subseteq events'
  BY HappensType, EventsSame, EventTypes DEF Send
<1>2. At(w, "send") /\ worker[w].pc \in Unsent /\ UNCHANGED spent
  BY UnsentLabels DEF Send, At
<1>3. SharedOK'
  BY <1>1, SendShared DEF Send
<1>4. CASE Valid(w) /\ Taken(w) /\ Await(w, "poll") /\ UNCHANGED <<job, events>>
  BY <1>1, <1>2, <1>3, <1>4, AwaitForm DEF Awaits
<1>5. CASE /\ worker' = [worker EXCEPT ![w].pc = "clearCache", ![w].seq = 0, ![w].list = <<>>,
                                       ![w].after = "retry"]
           /\ UNCHANGED <<job, envs, events>>
  <2> DEFINE r == [worker[w] EXCEPT !.pc = "clearCache", !.seq = 0, !.list = <<>>,
                                    !.after = "retry"]
  <2>1. worker' = [worker EXCEPT ![w] = r]
    BY <1>5
  <2>2. worker[w] \in WorkerState /\ <<>> \in Seq(Block)
    BY RunTypes
  <2>3. /\ r \in WorkerState /\ r.pc = "clearCache" /\ r.job = worker[w].job
        /\ r.hash = worker[w].hash
    BY <2>2 DEF WorkerState
  <2> HIDE DEF r
  <2>4. r.pc \in Unsent /\ r.pc \in Clearing
    BY <2>3, UnsentLabels
  <2>5. r.pc \notin {"cursor", "advance"}
    BY <2>3
  <2>6. Prepares(w)
    BY <1>1, <1>2, <1>5, <2>1, <2>3, <2>4, <2>5, PrepareWith
  <2> QED BY <1>3, <2>6
<1>6. CASE (Retry(w) \/ Reject(w)) /\ UNCHANGED envs
  BY <1>1, <1>2, <1>3, <1>6, RunEnds DEF Fails, At
<1> QED BY <1>4, <1>5, <1>6 DEF Send

LEMMA LossyEvents ==
  ASSUME TypeInv, NEW e \in {"timeout", "lost", "stall", "crash"}, Happens(e)
  PROVE  /\ Lossy' /\ e \in events' /\ events' \subseteq Events /\ events \subseteq events'
BY HappensType, EventTypes DEF Lossy

LEMMA SendThrowsForm ==
  ASSUME TypeInv, NEW w \in Worker, SendThrows(w)
  PROVE  SharedOK' /\ (Fails(w) \/ Awaits(w))
<1>1. PICK e \in {"timeout", "lost"} : Happens(e)
  BY DEF SendThrows
<1>2. Lossy' /\ events' \subseteq Events /\ events \subseteq events'
  BY <1>1, LossyEvents
<1>3. SharedOK'
  BY <1>2, SendShared DEF SendThrows
<1>4. At(w, "send") /\ ~At(w, "idle") /\ UNCHANGED spent /\ (Taken(w) \/ UNCHANGED envs)
  BY DEF SendThrows, At
<1>5. CASE Happens("timeout") /\ Await(w, "reconcile") /\ UNCHANGED job
  <2>1. "timeout" \in events'
    BY <1>5, LossyEvents
  <2> QED BY <1>2, <1>3, <1>4, <1>5, <2>1, AwaitForm DEF Awaits
<1>6. CASE Retry(w) \/ Reject(w)
  BY <1>2, <1>3, <1>4, <1>6, RunEnds DEF Fails
<1> QED BY <1>5, <1>6 DEF SendThrows

LEMMA StatusKnown ==
  ASSUME TypeInv, NEW w \in Worker
  PROVE  /\ Status(w) = "applied" => IsApplied(worker[w].hash)
         /\ Status(w) \in {"applied", "failed"} => OnLedger(worker[w].hash)
BY DEF Status, IsApplied, OnLedger

LEMMA LookForm ==
  ASSUME TypeInv, NEW w \in Worker, UNCHANGED <<job, envs, spent>>, events \subseteq events',
         \/ At(w, "poll") /\ Goto(w, "record") /\ IsApplied(worker[w].hash)
         \/ At(w, "reconcile") /\ Goto(w, "gaveUp")
  PROVE  Looks(w)
<1>1. ~At(w, "idle")
  BY DEF At
<1>2. PICK label \in {"record", "gaveUp"} :
        /\ Goto(w, label)
        /\ \/ At(w, "poll") /\ label = "record" /\ IsApplied(worker[w].hash)
           \/ At(w, "reconcile") /\ label = "gaveUp"
  OBVIOUS
<1>3. PICK r \in WorkerState :
           /\ worker' = [worker EXCEPT ![w] = r]
           /\ r.pc = label /\ r.job = worker[w].job /\ r.hash = worker[w].hash
           /\ r.after = worker[w].after
  BY <1>2, GotoForm
<1>4. r.after # "retry"
  BY <1>1, <1>2, <1>3, RunTypes DEF RunShape, Clearing, At
<1>5. RunShape(r)
  BY <1>1, <1>3, <1>4, GotoShape
<1> QED BY <1>2, <1>3, <1>5 DEF Looks

LEMMA PollForm ==
  ASSUME TypeInv, NEW w \in Worker, Poll(w)
  PROVE  SharedOK' /\ (Fails(w) \/ Looks(w))
<1>1. At(w, "poll") /\ ~At(w, "idle") /\ UNCHANGED <<envs, spent>> /\ events' = events
  BY DEF Poll, At, chain
<1>2. SharedOK'
  BY <1>1, EventsSame, SharedSame DEF Poll
<1>3. CASE Status(w) = "applied" /\ Goto(w, "record") /\ UNCHANGED job
  BY <1>1, <1>2, <1>3, StatusKnown, LookForm
<1>4. CASE Status(w) = "failed" /\ Reject(w)
  BY <1>1, <1>2, <1>4, RunEnds DEF Fails
<1>5. CASE Status(w) \notin {"applied", "failed"} /\ Outlived(w) /\ Retry(w)
  BY <1>1, <1>2, <1>5, RunEnds DEF Fails
<1> QED BY <1>3, <1>4, <1>5 DEF Poll

LEMMA PollLostForm ==
  ASSUME TypeInv, NEW w \in Worker, PollLost(w)
  PROVE  SharedOK' /\ (Fails(w) \/ Completes(w))
<1>1. At(w, "poll") /\ ~At(w, "idle") /\ UNCHANGED <<envs, spent>>
  BY DEF PollLost, At, chain
<1>2. Lossy' /\ "lost" \in events' /\ events' \subseteq Events /\ events \subseteq events'
  BY LossyEvents DEF PollLost
<1>3. SharedOK'
  BY <1>2, SharedSame DEF PollLost
<1>4. CASE Retry(w) \/ Reject(w)
  BY <1>1, <1>2, <1>3, <1>4, RunEnds DEF Fails
<1>5. CASE Status(w) \in {"applied", "failed"} /\ Complete(w, worker[w].hash)
  BY <1>1, <1>2, <1>3, <1>5, StatusKnown DEF Completes, At
<1> QED BY <1>4, <1>5 DEF PollLost

LEMMA ReconcileForm ==
  ASSUME TypeInv, NEW w \in Worker, Reconcile(w) \/ GiveUp(w)
  PROVE  SharedOK' /\ (Fails(w) \/ Completes(w) \/ Looks(w))
<1>1. /\ worker[w].pc \in {"reconcile", "gaveUp"} /\ ~At(w, "idle") /\ UNCHANGED <<envs, spent>>
      /\ Reconcile(w) => At(w, "reconcile")
  BY DEF Reconcile, GiveUp, At, chain
<1>2. events' \subseteq Events /\ events \subseteq events'
  BY HappensType, EventsSame, EventTypes DEF Reconcile, GiveUp
<1>3. SharedOK'
  BY <1>2, SharedSame DEF Reconcile, GiveUp
<1>4. CASE Retry(w)
  BY <1>1, <1>2, <1>3, <1>4, RunEnds DEF Fails
<1>5. CASE Reconcile(w) /\ Status(w) = "applied" /\ Complete(w, worker[w].hash)
  BY <1>1, <1>2, <1>3, <1>5, StatusKnown DEF Completes, At
<1>6. CASE Reconcile(w) /\ Goto(w, "gaveUp") /\ UNCHANGED job
  BY <1>1, <1>2, <1>3, <1>6, LookForm
<1> QED BY <1>4, <1>5, <1>6 DEF Reconcile, GiveUp

LEMMA ReturnForm ==
  ASSUME TypeInv, NEW w \in Worker, Return(w) PROVE SharedOK' /\ Completes(w)
<1>1. At(w, "done") /\ UNCHANGED <<envs, spent>> /\ events' = events
  BY DEF Return, chain
<1>2. SharedOK'
  BY <1>1, EventsSame, SharedSame DEF Return
<1> QED BY <1>1, <1>2 DEF Return, Completes, At

LEMMA RecordForm ==
  ASSUME TypeInv, NEW w \in Worker, RecordSpend(w)
  PROVE  /\ SharedOK' /\ events \subseteq events' /\ At(w, "record") /\ UNCHANGED <<job, envs>>
         /\ \/ spent' = spent + 1
            \/ /\ spent' = spent
               /\ "error" \in events' \/ job[worker[w].job].payer = "unknown"
         /\ \E r \in WorkerState : /\ worker' = [worker EXCEPT ![w] = r] /\ RunShape(r)
                                   /\ r.pc = "done" /\ r.job = worker[w].job
                                   /\ r.hash = worker[w].hash
<1>1. events' \subseteq Events /\ events \subseteq events'
  BY HappensType, EventsSame, EventTypes DEF RecordSpend
<1>2. spent \in Nat
  BY TypeParts DEF SharedOK
<1>3. spent' \in Nat
  BY <1>2 DEF RecordSpend
<1>4. SharedOK'
  BY <1>1, <1>3, TypeParts DEF RecordSpend, SharedOK, redis, chain
<1>5. At(w, "record") /\ ~At(w, "idle") /\ UNCHANGED <<job, envs>> /\ Goto(w, "done")
  BY DEF RecordSpend, At, chain
<1>6. \/ spent' = spent + 1
      \/ spent' = spent /\ ("error" \in events' \/ job[worker[w].job].payer = "unknown")
  <2>1. ~At(w, "idle") => job[worker[w].job].payer \in Payer
    BY RunTypes, JobTypes DEF JobState
  <2> QED BY <1>2, <1>5, <2>1, HappensType, EventTypes DEF RecordSpend, Payer
<1>7. PICK r \in WorkerState :
           /\ worker' = [worker EXCEPT ![w] = r]
           /\ r.pc = "done" /\ r.job = worker[w].job /\ r.hash = worker[w].hash
           /\ r.after = worker[w].after
  BY <1>5, GotoForm
<1>8. r.after # "retry"
  BY <1>5, <1>7, RunTypes DEF RunShape, Clearing, At
<1>9. RunShape(r)
  BY <1>5, <1>7, <1>8, GotoShape
<1> QED BY <1>1, <1>4, <1>5, <1>6, <1>7, <1>9

\* The ledger settles an envelope or lets it expire; other steps leave jobs, workers
\* and envelopes alone.
Settles(h) ==
  /\ envs[h].status = "pending"
  /\ \E e \in EnvState : e.status \in {"applied", "failed"} /\ envs' = [envs EXCEPT ![h] = e]
  /\ UNCHANGED <<job, worker, spent>> /\ events \subseteq events'

Expires(h) ==
  /\ envs[h].status = "pending"
  /\ envs' = [g \in DOMAIN envs \ {h} |-> envs[g]]
  /\ UNCHANGED <<job, worker, spent>> /\ events \subseteq events'

Quiet == UNCHANGED <<job, worker, envs, spent>> /\ events \subseteq events'

LEMMA EnvTypes ==
  ASSUME TypeInv
  PROVE  /\ DOMAIN envs \subseteq Hash /\ \A h \in DOMAIN envs : envs[h] \in EnvState
         /\ account \in Nat
         /\ \A h \in DOMAIN envs : h[1] \in Job /\ h[2] \in Nat
BY TypeParts, HashTypes DEF SharedOK

LEMMA IncludeForm ==
  ASSUME TypeInv, NEW h \in DOMAIN envs, Include(h)
  PROVE  SharedOK' /\ Settles(h)
<1>1. events' \subseteq Events /\ events \subseteq events'
  BY HappensType, EventsSame, EventTypes DEF Include
<1>2. PICK s \in {"applied", "failed"} : envs' = [envs EXCEPT ![h].status = s]
  BY DEF Include
<1> DEFINE e == [envs[h] EXCEPT !.status = s]
<1>3. envs[h] \in EnvState
  BY EnvTypes
<1>4. e \in EnvState /\ e.status \in {"applied", "failed"}
  BY <1>3 DEF EnvState
<1>5. envs' = [envs EXCEPT ![h] = e]
  BY <1>2
<1> HIDE DEF e
<1>6. Settles(h)
  BY <1>1, <1>4, <1>5 DEF Settles, Include, Includable
<1>7. DOMAIN envs' \subseteq Hash /\ \A g \in DOMAIN envs' : envs'[g] \in EnvState
  BY <1>4, <1>5, EnvTypes
<1>8. account' \in Nat
  BY EnvTypes DEF Include
<1>9. SharedOK'
  BY <1>1, <1>7, <1>8, TypeParts DEF SharedOK, Include, redis
<1> QED BY <1>6, <1>9

LEMMA ExpireForm ==
  ASSUME TypeInv, NEW h \in DOMAIN envs, Expire(h)
  PROVE  SharedOK' /\ Expires(h)
<1>1. events' \subseteq Events /\ events \subseteq events'
  BY HappensType, EventsSame, EventTypes DEF Expire
<1>2. Expires(h)
  BY <1>1 DEF Expires, Expire
<1>3. DOMAIN envs' \subseteq Hash /\ \A g \in DOMAIN envs' : envs'[g] \in EnvState
  BY EnvTypes DEF Expire
<1>4. SharedOK'
  BY <1>1, <1>3, TypeParts DEF SharedOK, Expire, redis
<1> QED BY <1>2, <1>4

LEMMA QuietForm ==
  ASSUME TypeInv,
         \/ \E a \in Admin : RequestBlock(a) \/ Reserve(a) \/ ReserveFails(a) \/ CrashAdmin(a)
         \/ LapseSeqLock \/ LapseCache
  PROVE  Quiet
<1>1. CASE \E a \in Admin : RequestBlock(a) \/ ReserveFails(a) \/ CrashAdmin(a)
  BY <1>1, HappensType, EventTypes
     DEF RequestBlock, ReserveFails, CrashAdmin, Quiet, chain
<1>2. CASE \E a \in Admin : Reserve(a)
  BY <1>2 DEF Reserve, LockSequence, ReserveLoad, ReserveRead, ReservePush, ReserveUnlock,
              Quiet, chain
<1>3. CASE LapseSeqLock \/ LapseCache
  BY <1>3, HappensType, EventTypes DEF LapseSeqLock, LapseCache, Quiet, chain
<1> QED BY <1>1, <1>2, <1>3

\* Every step has one of these forms.
Forms ==
  \/ Quiet
  \/ \E j \in Job : Enqueue(j) \/ Stall(j) \/ \E w \in Worker : Take(w, j)
  \/ \E w \in Worker : \/ Prepares(w) \/ Fails(w) \/ Completes(w) \/ Awaits(w) \/ Looks(w)
                       \/ RecordSpend(w) \/ Crash(w)
  \/ \E h \in DOMAIN envs : Settles(h) \/ Expires(h)

LEMMA StepForm ==
  ASSUME TypeInv, NEW w \in Worker, Step(w) \/ CallFails(w) \/ SendThrows(w) \/ PollLost(w)
  PROVE  /\ SharedOK'
         /\ \/ Prepares(w) \/ Fails(w) \/ Completes(w) \/ Awaits(w) \/ Looks(w)
            \/ RecordSpend(w)
<1>1. CASE ClearCache(w) \/ ClearBlocks(w) \/ ClearCursors(w)
  BY <1>1, StepShared, ClearPrepares, CursorsForm
<1>2. CASE ReadBlocks(w) \/ ReadCursor(w)
  BY <1>2, StepShared, ReadBlocksPrepares, ReadCursorPrepares
<1>3. CASE AdvanceCursor(w) \/ LoadAccount(w) \/ ReadCache(w) \/ StoreCache(w)
  BY <1>3, StepShared, SequencePrepares
<1>4. CASE CallFails(w) \/ Send(w) \/ SendThrows(w)
  BY <1>4, CallFailsForm, SendForm, SendThrowsForm
<1>5. CASE Poll(w) \/ PollLost(w) \/ Reconcile(w) \/ GiveUp(w)
  BY <1>5, PollForm, PollLostForm, ReconcileForm
<1>6. CASE RecordSpend(w) \/ Return(w)
  BY <1>6, RecordForm, ReturnForm
<1> QED BY <1>1, <1>2, <1>3, <1>4, <1>5, <1>6 DEF Step

LEMMA NextForms ==
  ASSUME TypeInv, Next PROVE TypeInv' /\ Forms
<1>1. CASE \E j \in Job : Enqueue(j) \/ Stall(j) \/ \E w \in Worker : Take(w, j)
  BY <1>1, EnqueueType, StallType, TakeType DEF Forms
<1>2. ASSUME NEW w \in Worker, Step(w) \/ CallFails(w) \/ SendThrows(w) \/ PollLost(w)
      PROVE  TypeInv' /\ Forms
  <2>1. Forms /\ SharedOK'
    BY <1>2, StepForm DEF Forms
  <2>2. TypeInv'
    <3>1. CASE Prepares(w) \/ Fails(w) \/ Completes(w) \/ Awaits(w) \/ Looks(w)
      BY <2>1, <3>1, PreparesType, FailsType, CompletesType, AwaitsType
    <3>2. CASE RecordSpend(w)
      BY <3>2, RecordForm, WorkerStep, JobsSame
    <3> QED BY <1>2, <3>1, <3>2, StepForm
  <2> QED BY <2>1, <2>2
<1>3. CASE \E w \in Worker : Crash(w)
  BY <1>3, CrashType DEF Forms
<1>4. CASE \E a \in Admin : RequestBlock(a) \/ Reserve(a) \/ ReserveFails(a) \/ CrashAdmin(a)
  BY <1>4, AdminType, QuietForm DEF Forms
<1>5. CASE \E h \in DOMAIN envs : Include(h) \/ Expire(h)
  <2>1. PICK h \in DOMAIN envs : Include(h) \/ Expire(h)
    BY <1>5
  <2>2. SharedOK' /\ Forms
    BY <2>1, IncludeForm, ExpireForm DEF Forms
  <2>3. UNCHANGED <<job, worker>>
    BY <2>1 DEF Include, Expire
  <2> QED BY <2>2, <2>3, StillStep, JobsSame
<1>6. CASE LapseSeqLock \/ LapseCache
  BY <1>6, LapseType, QuietForm DEF Forms
<1> QED BY <1>1, <1>2, <1>3, <1>4, <1>5, <1>6 DEF Next

LEMMA StutterType == ASSUME TypeInv, UNCHANGED vars PROVE TypeInv'
<1>1. UNCHANGED <<admin, redis, seqLock, chain, spent>> /\ UNCHANGED worker /\ UNCHANGED job
  BY DEF vars, redis, chain
<1>2. SharedOK'
  BY <1>1, EventsSame, SharedSame DEF vars
<1> QED BY <1>1, <1>2, StillStep, JobsSame

LEMMA TypeInit == Init => TypeInv
<1> SUFFICES ASSUME Init PROVE TypeInv
  OBVIOUS
<1>1. SharedOK
  <2>1. admin \in [Admin -> AdminState]
    BY NoCallType DEF Init
  <2>2. blocks \in Seq(Block) /\ DOMAIN envs = {}
    BY DEF Init
  <2> QED BY <2>1, <2>2 DEF Init, SharedOK, NoCursors
<1>2. JobsOK
  BY QueueAssumption DEF Init, JobsOK, JobShape, JobState, Open, Payer
<1>3. worker \in [Worker -> WorkerState] /\ \A w \in Worker : RunShape(worker[w])
  BY RestingType DEF Init
<1> QED BY <1>1, <1>2, <1>3, TypeParts

LEMMA TypeAlways == Spec => []TypeInv
<1>1. TypeInv /\ [Next]_vars => TypeInv'
  BY NextForms, StutterType
<1> QED BY <1>1, TypeInit, PTL DEF Spec

\* In every reachable state the queue's variables have their types: no job is tried
\* or stalls more often than BullMQ is told to allow.
THEOREM QueueTypes == Spec => []QueueTypeOK
<1>1. TypeInv => QueueTypeOK
  BY DEF TypeInv
<1> QED BY <1>1, TypeAlways, PTL
-----------------------------------------------------------------------------
(* Reserved blocks.                                                        *)

Critical == {"load", "read", "push", "unlock"}
LockHeld == \A a \in Admin : admin[a].pc \in Critical => seqLock = a
AboveAll == \A a \in Admin : admin[a].pc = "push" =>
              \A i \in DOMAIN blocks : blocks[i].last <= admin[a].highest
Ordered == \A i, k \in DOMAIN blocks : i < k => blocks[i].last < blocks[k].first

LEMMA BlockParts == BlockInv <=> ("lapse" \notin events => LockHeld /\ AboveAll /\ Ordered)
BY DEF BlockInv, LockHeld, AboveAll, Ordered, Critical

LEMMA BlockInit == Init => BlockInv
<1> SUFFICES ASSUME Init PROVE BlockInv
  OBVIOUS
<1>1. \A a \in Admin : admin[a].pc = "idle"
  BY NoCallType DEF Init
<1>2. DOMAIN blocks = {}
  BY DEF Init
<1> QED BY <1>1, <1>2 DEF BlockInv

LEMMA BlockStay ==
  ASSUME BlockInv, UNCHANGED <<admin, blocks, seqLock>>, events \subseteq events'
  PROVE  BlockInv'
BY DEF BlockInv

LEMMA BlockClear ==
  ASSUME BlockInv, UNCHANGED <<admin, seqLock>>, blocks' = <<>>, events \subseteq events'
  PROVE  BlockInv'
<1>1. DOMAIN blocks' = {}
  OBVIOUS
<1> QED BY <1>1 DEF BlockInv

\* One call moves on and the list stays.
LEMMA BlockMove ==
  ASSUME TypeInv, BlockInv, NEW a \in Admin, NEW b \in AdminState,
         admin' = [admin EXCEPT ![a] = b], UNCHANGED blocks, events \subseteq events',
         "lapse" \notin events =>
           /\ b.pc \in Critical => seqLock' = a
           /\ \A c \in Admin \ {a} : seqLock = c => seqLock' = c \/ admin[c].pc \notin Critical
           /\ b.pc = "push" => \A i \in DOMAIN blocks : blocks[i].last <= b.highest
  PROVE  BlockInv'
<1> SUFFICES ASSUME "lapse" \notin events' PROVE (LockHeld /\ AboveAll /\ Ordered)'
  BY BlockParts DEF BlockInv, LockHeld, AboveAll, Ordered, Critical
<1>1. LockHeld /\ AboveAll /\ Ordered /\ "lapse" \notin events
  BY BlockParts
<1>2. admin \in [Admin -> AdminState]
  BY TypeParts DEF SharedOK
<1>3. \A c \in Admin : admin'[c] = IF c = a THEN b ELSE admin[c]
  BY <1>2
<1>4. LockHeld'
  BY <1>1, <1>3 DEF LockHeld
<1>5. AboveAll'
  BY <1>1, <1>3 DEF AboveAll
<1>6. Ordered'
  BY <1>1 DEF Ordered
<1> QED BY <1>4, <1>5, <1>6

LEMMA BlockPush ==
  ASSUME TypeInv, BlockInv, NEW a \in Admin, ReservePush(a) PROVE BlockInv'
<1> DEFINE first == admin[a].highest + 1
           new == [lease |-> admin[a].lease, first |-> first, last |-> first + BlockSize - 1]
<1>1. admin \in [Admin -> AdminState] /\ admin[a].highest \in Nat /\ admin[a].pc = "push"
  BY TypeParts DEF SharedOK, AdminState, NoCall, ReservePush
<1>2. blocks' = Append(blocks, new) /\ events' = events /\ seqLock' = seqLock
  BY DEF ReservePush
<1>3. new.first = admin[a].highest + 1
  OBVIOUS
<1> HIDE DEF new
<1> SUFFICES ASSUME "lapse" \notin events' PROVE (LockHeld /\ AboveAll /\ Ordered)'
  BY BlockParts DEF BlockInv, LockHeld, AboveAll, Ordered, Critical
<1>4. LockHeld /\ AboveAll /\ Ordered
  BY <1>2, BlockParts
<1>5. \A c \in Admin : /\ c # a => admin'[c] = admin[c]
                       /\ c = a => admin'[c].pc = "unlock"
  BY <1>1 DEF ReservePush, AdminState
<1>6. seqLock = a
  BY <1>1, <1>4 DEF LockHeld, Critical
<1>7. LockHeld'
  BY <1>2, <1>4, <1>5, <1>6 DEF LockHeld
<1>8. AboveAll'
  <2>1. \A c \in Admin : admin'[c].pc # "push"
    BY <1>4, <1>5, <1>6 DEF LockHeld, Critical
  <2> QED BY <2>1 DEF AboveAll
<1>9. Ordered'
  <2>1. blocks \in Seq(Block) /\ DOMAIN blocks = 1..Len(blocks) /\ Len(blocks) \in Nat
    BY BlockTypes
  <2> DEFINE n == Len(blocks)
  <2>2. /\ DOMAIN blocks' = 1..(n + 1) /\ blocks'[n + 1] = new
        /\ \A i \in 1..n : blocks'[i] = blocks[i]
    BY <1>2, <2>1
  <2> HIDE DEF n
  <2>3. n \in Nat /\ DOMAIN blocks = 1..n
    BY <2>1 DEF n
  <2>4. ASSUME NEW i \in 1..(n + 1), NEW k \in 1..(n + 1), i < k
        PROVE  blocks'[i].last < blocks'[k].first
    <3>1. i \in 1..n /\ blocks'[i] = blocks[i] /\ blocks[i].last \in Nat
      BY <2>2, <2>3, <2>4, BlockTypes
    <3>2. CASE k \in 1..n
      BY <1>4, <2>2, <2>3, <2>4, <3>1, <3>2 DEF Ordered
    <3>3. CASE k = n + 1
      <4>1. blocks[i].last <= admin[a].highest
        BY <1>1, <1>4, <2>3, <3>1 DEF AboveAll
      <4>2. blocks'[k].first = admin[a].highest + 1
        BY <1>3, <2>2, <3>3
      <4> QED BY <1>1, <3>1, <4>1, <4>2
    <3> QED BY <2>3, <3>2, <3>3
  <2> QED BY <2>2, <2>4 DEF Ordered
<1> QED BY <1>7, <1>8, <1>9

LEMMA BlockAdmin ==
  ASSUME TypeInv, BlockInv, NEW a \in Admin,
         RequestBlock(a) \/ Reserve(a) \/ ReserveFails(a) \/ CrashAdmin(a)
  PROVE  BlockInv'
<1>1. /\ admin[a] \in AdminState /\ admin[a].highest \in Nat /\ account \in Nat
      /\ None \notin Admin
  BY TypeParts, QueueAssumption DEF SharedOK, AdminState, NoCall
<1>2. "lapse" \notin events => LockHeld
  BY BlockParts
<1>3. CASE RequestBlock(a)
  <2>1. PICK l \in Lease :
          Happens(l) /\ admin' = [admin EXCEPT ![a] = [pc |-> "lock", lease |-> l, highest |-> 0]]
    BY <1>3 DEF RequestBlock
  <2> DEFINE b == [pc |-> "lock", lease |-> l, highest |-> 0]
  <2>2. b \in AdminState /\ b.pc = "lock"
    BY DEF AdminState
  <2>3. events \subseteq events'
    BY <2>1, HappensType, EventTypes
  <2>4. admin' = [admin EXCEPT ![a] = b] /\ UNCHANGED <<blocks, seqLock>>
    BY <1>3, <2>1 DEF RequestBlock, redis
  <2> HIDE DEF b
  <2> QED BY <2>2, <2>3, <2>4, BlockMove DEF Critical
<1>4. CASE LockSequence(a)
  <2>1. UNCHANGED <<blocks, events>> /\ admin[a].pc # "idle"
    BY <1>4 DEF LockSequence, redis
  <2>2. CASE seqLock = None /\ seqLock' = a /\ AdminAt(a, "load")
    <3>1. PICK b \in AdminState : admin' = [admin EXCEPT ![a] = b] /\ b.pc = "load"
      BY <2>1, <2>2, AdminGoto DEF AdminLabels
    <3> QED BY <1>1, <2>1, <2>2, <3>1, BlockMove
  <2>3. CASE seqLock' = seqLock /\ AdminDone(a)
    <3>1. PICK b \in AdminState : admin' = [admin EXCEPT ![a] = b] /\ b.pc = "idle"
      BY <2>3, NoCallType DEF AdminDone
    <3> QED BY <2>1, <2>3, <3>1, BlockMove DEF Critical
  <2> QED BY <1>4, <2>2, <2>3 DEF LockSequence, AdminAt, AdminDone
<1>5. CASE ReserveLoad(a)
  <2>1. AdminTo(a, "read", account) /\ admin[a].pc = "load" /\ UNCHANGED <<blocks, events, seqLock>>
    BY <1>5 DEF ReserveLoad, AdminTo, redis
  <2>2. PICK b \in AdminState : admin' = [admin EXCEPT ![a] = b] /\ b.pc = "read"
    BY <1>1, <2>1, AdminRaise DEF AdminLabels
  <2>3. "lapse" \notin events => seqLock = a
    BY <1>2, <2>1 DEF LockHeld, Critical
  <2> QED BY <2>1, <2>2, <2>3, BlockMove
<1>6. CASE ReserveRead(a)
  <2>1. PICK h \in {admin[a].highest} \cup {blocks[i].last : i \in DOMAIN blocks} :
          AdminTo(a, "push", h) /\ admin[a].pc # "idle" /\ \A i \in DOMAIN blocks : h >= blocks[i].last
    BY <1>6 DEF ReserveRead, AdminTo
  <2>2. h \in Nat
    BY <1>1, <2>1, BlockTypes
  <2>3. admin[a].pc = "read" /\ UNCHANGED <<blocks, events, seqLock>>
    BY <1>6 DEF ReserveRead, redis
  <2>4. PICK b \in AdminState : admin' = [admin EXCEPT ![a] = b] /\ b.pc = "push" /\ b.highest = h
    BY <2>1, <2>2, AdminRaise DEF AdminLabels
  <2>5. \A i \in DOMAIN blocks : blocks[i].last <= b.highest
    BY <2>1, <2>2, <2>4, BlockTypes
  <2>6. "lapse" \notin events => seqLock = a
    BY <1>2, <2>3 DEF LockHeld, Critical
  <2> QED BY <2>3, <2>4, <2>5, <2>6, BlockMove
<1>7. CASE ReservePush(a)
  BY <1>7, BlockPush
<1>8. CASE ReserveUnlock(a)
  <2>1. AdminDone(a) /\ admin[a].pc = "unlock" /\ UNCHANGED <<blocks, events>>
    BY <1>8 DEF ReserveUnlock, AdminDone, redis
  <2>2. PICK b \in AdminState : admin' = [admin EXCEPT ![a] = b] /\ b.pc = "idle"
    BY <2>1, NoCallType DEF AdminDone
  <2>3. "lapse" \notin events => seqLock = a
    BY <1>2, <2>1 DEF LockHeld, Critical
  <2> QED BY <2>1, <2>2, <2>3, BlockMove DEF Critical
<1>9. CASE ReserveFails(a)
  <2>1. /\ AdminAt(a, "unlock") /\ admin[a].pc \in {"load", "read", "push"}
        /\ UNCHANGED <<blocks, seqLock>>
    BY <1>9 DEF ReserveFails, AdminAt, redis
  <2>2. PICK b \in AdminState : admin' = [admin EXCEPT ![a] = b] /\ b.pc = "unlock"
    BY <2>1, AdminGoto DEF AdminLabels
  <2>3. "lapse" \notin events => seqLock = a
    BY <1>2, <2>1 DEF LockHeld, Critical
  <2>4. events \subseteq events'
    BY <1>9, HappensType, EventTypes DEF ReserveFails
  <2> QED BY <2>1, <2>2, <2>3, <2>4, BlockMove
<1>10. CASE CrashAdmin(a)
  <2>1. AdminDone(a) /\ UNCHANGED <<blocks, seqLock>>
    BY <1>10 DEF CrashAdmin, AdminDone, redis
  <2>2. PICK b \in AdminState : admin' = [admin EXCEPT ![a] = b] /\ b.pc = "idle"
    BY <2>1, NoCallType DEF AdminDone
  <2>3. events \subseteq events'
    BY <1>10, HappensType, EventTypes DEF CrashAdmin
  <2> QED BY <2>1, <2>2, <2>3, BlockMove DEF Critical
<1> QED BY <1>3, <1>4, <1>5, <1>6, <1>7, <1>8, <1>9, <1>10 DEF Reserve

LEMMA BlockLapse ==
  ASSUME TypeInv, BlockInv, LapseSeqLock PROVE BlockInv'
<1> SUFFICES ASSUME "lapse" \notin events' PROVE (LockHeld /\ AboveAll /\ Ordered)'
  BY BlockParts DEF BlockInv, LockHeld, AboveAll, Ordered, Critical
<1>1. UNCHANGED <<admin, blocks>>
  BY DEF LapseSeqLock, redis
<1>2. events' = events /\ admin[seqLock].pc = "idle"
  BY HappensType, EventTypes DEF LapseSeqLock
<1>3. LockHeld /\ AboveAll /\ Ordered
  BY <1>2, BlockParts
<1>4. \A a \in Admin : admin[a].pc \notin Critical
  BY <1>2, <1>3 DEF LockHeld, Critical
<1>5. LockHeld'
  BY <1>1, <1>4 DEF LockHeld
<1> QED BY <1>1, <1>3, <1>5 DEF AboveAll, Ordered

\* Every other step leaves the list and the reservation lock alone, or clears the list.
LEMMA BlockOthers ==
  ASSUME TypeInv, Next,
         ~(\E a \in Admin : RequestBlock(a) \/ Reserve(a) \/ ReserveFails(a) \/ CrashAdmin(a)),
         ~LapseSeqLock
  PROVE  /\ UNCHANGED <<admin, seqLock>> /\ events \subseteq events'
         /\ UNCHANGED blocks \/ blocks' = <<>>
<1>1. CASE \E j \in Job : Enqueue(j) \/ Stall(j) \/ \E w \in Worker : Take(w, j)
  BY <1>1, HappensType, EventTypes DEF Enqueue, Stall, Take, redis
<1>2. CASE \E w \in Worker : \/ ClearCache(w) \/ ClearBlocks(w) \/ ClearCursors(w)
                             \/ ReadBlocks(w) \/ ReadCursor(w) \/ AdvanceCursor(w)
                             \/ LoadAccount(w) \/ ReadCache(w) \/ StoreCache(w)
  BY <1>2 DEF ClearCache, ClearBlocks, ClearCursors, ReadBlocks, ReadCursor, AdvanceCursor,
              LoadAccount, ReadCache, StoreCache, redis
<1>3. CASE \E w \in Worker : Send(w) \/ CallFails(w) \/ SendThrows(w)
  BY <1>3, HappensType, EventTypes DEF Send, CallFails, SendThrows, redis
<1>4. CASE \E w \in Worker : Poll(w) \/ PollLost(w) \/ Reconcile(w) \/ GiveUp(w)
  BY <1>4, HappensType, EventTypes DEF Poll, PollLost, Reconcile, GiveUp, redis
<1>5. CASE \E w \in Worker : RecordSpend(w) \/ Return(w) \/ Crash(w)
  BY <1>5, HappensType, EventTypes DEF RecordSpend, Return, Crash, redis
<1>6. CASE \E h \in DOMAIN envs : Include(h) \/ Expire(h)
  BY <1>6, HappensType, EventTypes DEF Include, Expire, redis
<1>7. CASE LapseCache
  BY <1>7 DEF LapseCache
<1> QED BY <1>1, <1>2, <1>3, <1>4, <1>5, <1>6, <1>7 DEF Next, Step

LEMMA BlockNext == ASSUME TypeInv, BlockInv, [Next]_vars PROVE BlockInv'
<1>1. CASE UNCHANGED vars
  BY <1>1, BlockStay DEF vars
<1>2. CASE \E a \in Admin : RequestBlock(a) \/ Reserve(a) \/ ReserveFails(a) \/ CrashAdmin(a)
  BY <1>2, BlockAdmin
<1>3. CASE LapseSeqLock
  BY <1>3, BlockLapse
<1>4. CASE /\ Next /\ ~LapseSeqLock
           /\ ~(\E a \in Admin : RequestBlock(a) \/ Reserve(a) \/ ReserveFails(a) \/ CrashAdmin(a))
  BY <1>4, BlockOthers, BlockStay, BlockClear
<1> QED BY <1>1, <1>2, <1>3, <1>4

\* As long as no reservation lock lapses, the blocks that reserveSequenceBlock() hands
\* out do not overlap: the lock is held from the first read to the last write, and a
\* reset in between only takes blocks away.
THEOREM BlocksNeverOverlap == Spec => []BlocksDisjoint
<1>1. TypeInv /\ BlockInv /\ [Next]_vars => BlockInv'
  BY BlockNext
<1>2. BlockInv => BlocksDisjoint
  BY DEF BlockInv, BlocksDisjoint
<1> QED BY <1>1, <1>2, BlockInit, TypeAlways, PTL DEF Spec
-----------------------------------------------------------------------------
(* Runs and their envelopes.                                               *)

\* A worker is in the run that BullMQ has active.
Current(w) == /\ worker[w].hash[2] = Run(worker[w].job)
              /\ job[worker[w].job].state = "active" /\ job[worker[w].job].holder = w

\* Runs only go forward: a job that stays in its run keeps its state and its holder, or
\* none is active in it, or its holder has completed it.
JobMoves(j) ==
  \/ Run(j)' > Run(j)
  \/ /\ Run(j)' = Run(j)
     /\ \/ job'[j].state = job[j].state /\ job'[j].holder = job[j].holder
        \/ job[j].state \notin {"active", "completed"}
        \/ /\ job[j].state = "active" /\ job'[j].state = "completed"
           /\ \A w \in Worker : worker'[w].pc # "idle" => w # job[j].holder

\* A worker goes on in its run or starts the next run of a waiting job.
Starts(w) ==
  /\ At(w, "idle")
  /\ \E j \in Job : /\ worker'[w].job = j /\ worker'[w].hash = <<j, Run(j)>>
                    /\ job[j].state = "waiting" /\ Run(j)' = Run(j)
                    /\ job'[j].state = "active" /\ job'[j].holder = w

RunMoves(w) ==
  worker'[w].pc # "idle" =>
    \/ /\ ~At(w, "idle")
       /\ worker'[w].job = worker[w].job /\ worker'[w].hash = worker[w].hash
       /\ worker'[w].pc \in Unsent => worker[w].pc \in Unsent
    \/ Starts(w)

\* An envelope reaches the network from a worker that sends it.
EnvsMove ==
  \A h \in DOMAIN envs' :
    \/ h \in DOMAIN envs
    \/ \E w \in Worker : At(w, "send") /\ h = worker[w].hash /\ worker'[w].pc \notin Unsent

LEMMA RunTypesNext ==
  ASSUME TypeInv' PROVE \A j \in Job : Run(j)' \in Nat
BY QueueAssumption DEF TypeInv, QueueTypeOK, JobState, Run

LEMMA WorkersDistinct ==
  ASSUME HashInv, NEW v \in Worker, NEW w \in Worker, ~At(v, "idle"), ~At(w, "idle"),
         worker[v].hash = worker[w].hash
  PROVE  v = w
BY DEF HashInv

LEMMA CurrentOrPast ==
  ASSUME HashInv, NEW w \in Worker, ~At(w, "idle")
  PROVE  Past(worker[w].hash) \/ Current(w)
BY DEF HashInv, Current

LEMMA HashStep ==
  ASSUME TypeInv, TypeInv', HashInv, \A j \in Job : JobMoves(j),
         \A w \in Worker : RunMoves(w), EnvsMove
  PROVE  HashInv'
<1>1. \A j \in Job : Run(j) \in Nat /\ Run(j)' \in Nat
  BY JobTypes, RunTypesNext
<1>2. ASSUME NEW h \in Hash, Past(h) PROVE Past(h)'
  <2>1. h[1] \in Job /\ h[2] \in Nat
    BY HashTypes
  <2>2. JobMoves(h[1])
    BY <2>1
  <2>3. Run(h[1])' > Run(h[1]) \/ Run(h[1])' = Run(h[1])
    BY <2>2 DEF JobMoves
  <2> QED BY <1>1, <1>2, <2>1, <2>3 DEF Past
<1>3. ASSUME NEW h \in Hash, h[2] = Run(h[1]), ~Past(h)'
      PROVE  /\ Run(h[1])' = Run(h[1])
             /\ \/ job'[h[1]].state = job[h[1]].state /\ job'[h[1]].holder = job[h[1]].holder
                \/ job[h[1]].state \notin {"active", "completed"}
                \/ /\ job[h[1]].state = "active" /\ job'[h[1]].state = "completed"
                   /\ \A w \in Worker : worker'[w].pc # "idle" => w # job[h[1]].holder
  <2>1. h[1] \in Job /\ h[2] \in Nat
    BY HashTypes
  <2>2. ~(Run(h[1])' > Run(h[1]))
    BY <1>1, <1>3, <2>1 DEF Past
  <2> QED BY <2>1, <2>2 DEF JobMoves
<1>4. ASSUME NEW w \in Worker, worker'[w].pc # "idle"
      PROVE  Past(worker[w].hash)' \/ Current(w)'
  <2>1. CASE Starts(w)
    <3>1. PICK j \in Job : /\ worker'[w].job = j /\ worker'[w].hash = <<j, Run(j)>>
                           /\ Run(j)' = Run(j) /\ job'[j].state = "active" /\ job'[j].holder = w
      BY <2>1 DEF Starts
    <3>2. worker'[w].hash[2] = Run(j)
      BY <3>1
    <3> QED BY <3>1, <3>2 DEF Current
  <2>2. CASE /\ ~At(w, "idle")
             /\ worker'[w].job = worker[w].job /\ worker'[w].hash = worker[w].hash
    <3>1. PICK h \in Hash : h = worker[w].hash /\ h[1] = worker[w].job
      BY <2>2, RunTypes
    <3>2. CASE Past(h)
      BY <1>2, <2>2, <3>1, <3>2 DEF Past
    <3>3. CASE Current(w)
      <4>1. h[2] = Run(h[1]) /\ job[h[1]].state = "active" /\ job[h[1]].holder = w
        BY <3>1, <3>3 DEF Current
      <4>2. CASE Past(h)'
        BY <2>2, <3>1, <4>2 DEF Past
      <4>3. CASE ~Past(h)'
        <5>1. Run(h[1])' = Run(h[1]) /\ job'[h[1]].state = "active" /\ job'[h[1]].holder = w
          BY <1>3, <1>4, <3>1, <4>1, <4>3
        <5> QED BY <2>2, <3>1, <4>1, <5>1 DEF Current
      <4> QED BY <4>2, <4>3
    <3> QED BY <2>2, <3>1, <3>2, <3>3, CurrentOrPast
  <2> QED BY <1>4, <2>1, <2>2 DEF RunMoves
\* A run that starts now was nobody's before.
<1>5. ASSUME NEW v \in Worker, NEW w \in Worker, Starts(v), ~At(w, "idle"),
             worker'[v].hash = worker[w].hash
      PROVE  FALSE
  <2>1. PICK j \in Job : worker'[v].hash = <<j, Run(j)>> /\ job[j].state = "waiting"
    BY <1>5 DEF Starts
  <2>2. worker[w].hash[1] = j /\ worker[w].hash[2] = Run(j) /\ worker[w].job = j
    <3>1. worker[w].hash = <<j, Run(j)>> /\ worker[w].hash[1] = worker[w].job
      BY <1>5, <2>1, RunTypes, Zenon
    <3>2. <<j, Run(j)>>[1] = j /\ <<j, Run(j)>>[2] = Run(j)
      OBVIOUS
    <3> QED BY <3>1, <3>2, Zenon
  <2>3. ~Past(worker[w].hash)
    BY <1>1, <2>2 DEF Past
  <2>4. Current(w)
    BY <1>5, <2>3, CurrentOrPast
  <2> QED BY <2>1, <2>2, <2>4 DEF Current
<1>6. ASSUME NEW v \in Worker, NEW w \in Worker, worker'[v].pc # "idle", worker'[w].pc # "idle",
             worker'[v].hash = worker'[w].hash
      PROVE  v = w
  <2>1. CASE Starts(v) /\ Starts(w)
    <3>1. PICK j \in Job : worker'[v].hash = <<j, Run(j)>> /\ job'[j].holder = v
      BY <2>1 DEF Starts
    <3>2. PICK i \in Job : worker'[w].hash = <<i, Run(i)>> /\ job'[i].holder = w
      BY <2>1 DEF Starts
    <3>3. i = j
      <4>1. <<i, Run(i)>> = <<j, Run(j)>>
        BY <1>6, <3>1, <3>2, Zenon
      <4> QED BY <4>1
    <3> QED BY <3>1, <3>2, <3>3
  <2>2. CASE Starts(v) /\ ~Starts(w)
    BY <1>5, <1>6, <2>2 DEF RunMoves
  <2>3. CASE ~Starts(v) /\ Starts(w)
    BY <1>5, <1>6, <2>3 DEF RunMoves
  <2>4. CASE ~Starts(v) /\ ~Starts(w)
    BY <1>6, <2>4, WorkersDistinct DEF RunMoves
  <2> QED BY <2>1, <2>2, <2>3, <2>4
<1>7. ASSUME NEW h \in DOMAIN envs'
      PROVE  (Past(h) \/ (h[2] = Run(h[1]) /\ job[h[1]].state \in {"active", "completed"}))'
  <2>1. h \in Hash
    BY DEF TypeInv, QueueTypeOK
  <2>2. Past(h) \/ (h[2] = Run(h[1]) /\ job[h[1]].state \in {"active", "completed"})
    <3>1. CASE h \in DOMAIN envs
      BY <3>1 DEF HashInv
    <3>2. CASE \E w \in Worker : At(w, "send") /\ h = worker[w].hash
      <4>1. PICK w \in Worker : At(w, "send") /\ h = worker[w].hash
        BY <3>2
      <4>2. ~At(w, "idle")
        BY <4>1 DEF At
      <4> QED BY <4>1, <4>2, CurrentOrPast, RunTypes DEF Current
    <3> QED BY <3>1, <3>2 DEF EnvsMove
  <2>3. CASE Past(h)
    BY <1>2, <2>1, <2>3
  <2>4. CASE h[2] = Run(h[1]) /\ job[h[1]].state \in {"active", "completed"}
    BY <1>3, <2>1, <2>4
  <2> QED BY <2>2, <2>3, <2>4
<1>8. ASSUME NEW w \in Worker, worker'[w].pc \in Unsent, worker'[w].hash \in DOMAIN envs'
      PROVE  FALSE
  <2> DEFINE h == worker'[w].hash
  <2>1. worker'[w].pc # "idle"
    BY <1>8, UnsentLabels
  <2>2. CASE ~Starts(w)
    <3>1. ~At(w, "idle") /\ h = worker[w].hash /\ worker[w].pc \in Unsent
      BY <1>8, <2>1, <2>2 DEF RunMoves
    <3>2. h \notin DOMAIN envs
      BY <3>1 DEF HashInv
    <3>3. PICK v \in Worker : At(v, "send") /\ h = worker[v].hash /\ worker'[v].pc \notin Unsent
      BY <1>8, <3>2 DEF EnvsMove
    <3>4. v = w
      BY <3>1, <3>3, WorkersDistinct DEF At
    <3> QED BY <1>8, <3>3, <3>4
  <2>3. CASE Starts(w)
    <3>1. PICK j \in Job : h = <<j, Run(j)>> /\ job[j].state = "waiting"
      BY <2>3 DEF Starts
    <3>2. h[1] = j /\ h[2] = Run(j)
      BY <3>1
    <3>3. ~Past(h)
      BY <1>1, <3>2 DEF Past
    <3>4. h \notin DOMAIN envs
      BY <3>1, <3>2, <3>3 DEF HashInv
    <3>5. PICK v \in Worker : At(v, "send") /\ h = worker[v].hash
      BY <1>8, <3>4 DEF EnvsMove
    <3> QED BY <1>5, <2>3, <3>5 DEF At
  <2> QED BY <2>2, <2>3
<1>9. \A w \in Worker : ~At(w, "idle")' => Past(worker[w].hash)' \/ Current(w)'
  BY <1>4 DEF At
<1> QED BY <1>6, <1>7, <1>8, <1>9 DEF HashInv, At, Current

LEMMA WorkerAt ==
  ASSUME TypeInv, NEW w \in Worker, NEW r, worker' = [worker EXCEPT ![w] = r]
  PROVE  worker'[w] = r /\ \A v \in Worker : v # w => worker'[v] = worker[v]
<1>1. worker \in [Worker -> WorkerState]
  BY TypeParts
<1> QED BY <1>1

LEMMA JobAt ==
  ASSUME TypeInv, NEW j \in Job, NEW k, job' = [job EXCEPT ![j] = k]
  PROVE  job'[j] = k /\ \A i \in Job : i # j => job'[i] = job[i]
<1>1. job \in [Job -> JobState]
  BY TypeParts DEF JobsOK
<1> QED BY <1>1

LEMMA JobStays ==
  ASSUME NEW j \in Job, job'[j] = job[j] PROVE JobMoves(j)
BY DEF JobMoves, Run

LEMMA RunsGo ==
  ASSUME TypeInv, NEW w \in Worker, NEW r, worker' = [worker EXCEPT ![w] = r],
         \/ r.pc = "idle"
         \/ /\ ~At(w, "idle") /\ r.job = worker[w].job /\ r.hash = worker[w].hash
            /\ r.pc \in Unsent => worker[w].pc \in Unsent
  PROVE  \A v \in Worker : RunMoves(v)
<1>1. worker'[w] = r /\ \A v \in Worker : v # w => worker'[v] = worker[v]
  BY WorkerAt
<1> QED BY <1>1 DEF RunMoves, At

LEMMA RunsStay == ASSUME UNCHANGED worker PROVE \A v \in Worker : RunMoves(v)
BY DEF RunMoves, At

LEMMA TakenDomain ==
  ASSUME NEW w \in Worker, Taken(w) \/ UNCHANGED envs
  PROVE  /\ DOMAIN envs' \subseteq DOMAIN envs \cup {worker[w].hash}
         /\ DOMAIN envs \subseteq DOMAIN envs'
BY DEF Taken

LEMMA EnvsSend ==
  ASSUME NEW w \in Worker, At(w, "send"), Taken(w) \/ UNCHANGED envs, worker'[w].pc \notin Unsent
  PROVE  EnvsMove
BY TakenDomain DEF EnvsMove

LEMMA EnvsKeep == ASSUME DOMAIN envs' \subseteq DOMAIN envs PROVE EnvsMove
BY DEF EnvsMove

LEMMA HashFinish ==
  ASSUME TypeInv, TypeInv', HashInv, NEW w \in Worker, Fails(w) \/ Completes(w) PROVE HashInv'
<1>1. ~At(w, "idle")
  BY DEF Fails, Completes, At
<1>2. PICK state \in {"waiting", "completed", "rejected", "exhausted"}, hash \in Hash \cup {None} :
        /\ state = "waiting" => job[worker[w].job].attempts + 1 < MaxAttempts
        /\ Finish(w, state, hash)
  BY <1>1, RunTypes DEF Fails, Completes, Complete
<1>3. worker' = [worker EXCEPT ![w] = Resting]
  BY <1>2 DEF Finish
<1>4. Resting.pc = "idle" /\ "idle" \notin Unsent
  BY UnsentLabels DEF Resting
<1>5. worker'[w].pc = "idle" /\ \A v \in Worker : v # w => worker'[v] = worker[v]
  BY <1>3, <1>4, WorkerAt
<1>6. \A v \in Worker : RunMoves(v)
  BY <1>3, <1>4, RunsGo
<1>7. EnvsMove
  BY <1>4, <1>5, EnvsSend, EnvsKeep DEF Fails, Completes
<1>8. \A i \in Job : JobMoves(i)
  <2>1. PICK j \in Job : j = worker[w].job
    BY <1>1, RunTypes
  <2>2. CASE job' = job
    BY <2>2, JobStays
  <2>3. CASE /\ job[j].holder = w /\ job[j].state = "active"
             /\ \E k \in JobState :
                  /\ job' = [job EXCEPT ![j] = k]
                  /\ k.state = state /\ k.stalls = job[j].stalls
                  /\ k.attempts = IF state = "completed" THEN job[j].attempts
                                                         ELSE job[j].attempts + 1
    <3>1. PICK k \in JobState : /\ job' = [job EXCEPT ![j] = k] /\ k.state = state
                                /\ k.stalls = job[j].stalls
                                /\ k.attempts = IF state = "completed" THEN job[j].attempts
                                                                       ELSE job[j].attempts + 1
      BY <2>3
    <3>2. job'[j] = k /\ \A i \in Job : i # j => job'[i] = job[i]
      BY <2>1, <3>1, JobAt
    <3>3. job[j].attempts \in Nat /\ job[j].stalls \in Nat
      BY <2>1, JobTypes
    <3>4. JobMoves(j)
      <4>1. CASE state = "completed"
        <5>1. \A v \in Worker : worker'[v].pc # "idle" => v # job[j].holder
          BY <1>5, <2>3
        <5>2. job'[j].state = "completed" /\ job'[j].attempts = job[j].attempts
              /\ job'[j].stalls = job[j].stalls
          BY <3>1, <3>2, <4>1
        <5>3. job'[j].attempts + job'[j].stalls = job[j].attempts + job[j].stalls
          BY <5>2
        <5> QED BY <2>3, <5>1, <5>2, <5>3 DEF JobMoves, Run
      <4>2. CASE state # "completed"
        <5>1. job'[j].attempts = job[j].attempts + 1 /\ job'[j].stalls = job[j].stalls
          BY <3>1, <3>2, <4>2
        <5>2. job'[j].attempts + job'[j].stalls > job[j].attempts + job[j].stalls
          BY <3>3, <5>1
        <5> QED BY <5>2 DEF JobMoves, Run
      <4> QED BY <4>1, <4>2
    <3> QED BY <3>2, <3>4, JobStays
  <2> QED BY <1>1, <1>2, <2>1, <2>2, <2>3, FinishJob
<1> QED BY <1>6, <1>7, <1>8, HashStep

LEMMA HashNext ==
  ASSUME TypeInv, TypeInv', HashInv, Forms PROVE HashInv'
<1>1. CASE Quiet
  BY <1>1, JobStays, RunsStay, EnvsKeep, HashStep DEF Quiet
<1>2. ASSUME NEW j \in Job, Enqueue(j) PROVE HashInv'
  <2>1. PICK s \in {"refused", "waiting"}, p \in Payer :
          job' = [job EXCEPT ![j].state = s, ![j].payer = p]
    BY <1>2, EnqueueForm
  <2>2. job \in [Job -> JobState] /\ job[j].state = "new"
    BY <1>2, TypeParts DEF JobsOK, Enqueue
  <2>3. /\ \A i \in Job : i # j => job'[i] = job[i]
        /\ job'[j].attempts = job[j].attempts /\ job'[j].stalls = job[j].stalls
    BY <2>1, <2>2 DEF JobState
  <2>4. JobMoves(j)
    BY <2>2, <2>3 DEF JobMoves, Run
  <2> QED BY <1>2, <2>3, <2>4, JobStays, RunsStay, EnvsKeep, HashStep DEF Enqueue, chain
<1>3. ASSUME NEW j \in Job, Stall(j) PROVE HashInv'
  <2>1. PICK k \in JobState : /\ job' = [job EXCEPT ![j] = k]
                              /\ k.attempts = job[j].attempts /\ k.stalls = job[j].stalls + 1
    BY <1>3, StallForm
  <2>2. job'[j] = k /\ \A i \in Job : i # j => job'[i] = job[i]
    BY <2>1, JobAt
  <2>3. job[j].attempts \in Nat /\ job[j].stalls \in Nat
    BY JobTypes
  <2>4. job'[j].attempts + job'[j].stalls > job[j].attempts + job[j].stalls
    BY <2>1, <2>2, <2>3
  <2>5. JobMoves(j)
    BY <2>4 DEF JobMoves, Run
  <2> QED BY <1>3, <2>2, <2>5, JobStays, RunsStay, EnvsKeep, HashStep DEF Stall, chain
<1>4. ASSUME NEW j \in Job, NEW w \in Worker, Take(w, j) PROVE HashInv'
  <2>1. PICK r \in WorkerState : /\ worker' = [worker EXCEPT ![w] = r]
                                 /\ r.job = j /\ r.hash = <<j, Run(j)>> /\ r.pc \in Unsent
    BY <1>4, TakeForm
  <2>2. PICK k \in JobState : /\ job' = [job EXCEPT ![j] = k] /\ k.state = "active"
                              /\ k.holder = w /\ k.attempts = job[j].attempts
                              /\ k.stalls = job[j].stalls
    BY <1>4, TakeForm
  <2>3. job'[j] = k /\ \A i \in Job : i # j => job'[i] = job[i]
    BY <2>2, JobAt
  <2>4. worker'[w] = r /\ \A v \in Worker : v # w => worker'[v] = worker[v]
    BY <2>1, WorkerAt
  <2>5. Run(j)' = Run(j)
    BY <2>2, <2>3 DEF Run
  <2>6. At(w, "idle") /\ job[j].state = "waiting" /\ envs' = envs
    BY <1>4 DEF Take, chain
  <2>7. JobMoves(j)
    BY <2>5, <2>6 DEF JobMoves
  <2>8. Starts(w)
    BY <2>1, <2>2, <2>3, <2>4, <2>5, <2>6 DEF Starts
  <2>9. \A v \in Worker : RunMoves(v)
    BY <2>4, <2>8 DEF RunMoves, At
  <2> QED BY <2>3, <2>6, <2>7, <2>9, JobStays, EnvsKeep, HashStep
<1>5. ASSUME NEW w \in Worker, Prepares(w) \/ Looks(w) \/ RecordSpend(w) \/ Crash(w)
      PROVE  HashInv'
  <2>1. UNCHANGED <<job, envs>>
    BY <1>5 DEF Prepares, Looks, RecordSpend, Crash, chain
  <2>2. CASE Prepares(w)
    BY <2>1, <2>2, JobStays, RunsGo, EnvsKeep, HashStep, UnsentLabels DEF Prepares, At
  <2>3. CASE Looks(w)
    <3>1. PICK r \in WorkerState :
            /\ worker' = [worker EXCEPT ![w] = r] /\ r.job = worker[w].job
            /\ r.hash = worker[w].hash /\ r.pc \in Sent /\ worker[w].pc \in Sent
      BY <2>3 DEF Looks, Sent, At
    <3>2. ~At(w, "idle") /\ r.pc \notin Unsent
      BY <3>1, UnsentLabels DEF Sent, At
    <3> QED BY <2>1, <3>1, <3>2, JobStays, RunsGo, EnvsKeep, HashStep
  <2>4. CASE RecordSpend(w)
    <3>1. PICK r \in WorkerState :
            /\ worker' = [worker EXCEPT ![w] = r] /\ r.job = worker[w].job
            /\ r.hash = worker[w].hash /\ r.pc = "done" /\ worker[w].pc = "record"
      BY <2>4, RecordForm DEF At
    <3>2. ~At(w, "idle") /\ r.pc \notin Unsent
      BY <3>1, UnsentLabels DEF Sent, At
    <3> QED BY <2>1, <3>1, <3>2, JobStays, RunsGo, EnvsKeep, HashStep
  <2>5. CASE Crash(w)
    <3>1. worker' = [worker EXCEPT ![w] = Resting] /\ Resting.pc = "idle"
      BY <2>5 DEF Crash, Resting
    <3> QED BY <2>1, <3>1, JobStays, RunsGo, EnvsKeep, HashStep
  <2> QED BY <1>5, <2>2, <2>3, <2>4, <2>5
<1>6. ASSUME NEW w \in Worker, Awaits(w) PROVE HashInv'
  <2>1. PICK r \in WorkerState : /\ worker' = [worker EXCEPT ![w] = r]
                                 /\ r.job = worker[w].job /\ r.hash = worker[w].hash
                                 /\ r.pc \in {"poll", "reconcile"}
    BY <1>6 DEF Awaits
  <2>2. r.pc \notin Unsent /\ At(w, "send") /\ ~At(w, "idle")
    BY <1>6, <2>1, UnsentLabels DEF Sent, Awaits, At
  <2>3. worker'[w].pc \notin Unsent
    BY <2>1, <2>2, WorkerAt
  <2>4. EnvsMove
    BY <1>6, <2>2, <2>3, EnvsSend DEF Awaits
  <2> QED BY <1>6, <2>1, <2>2, <2>4, JobStays, RunsGo, HashStep DEF Awaits
<1>7. ASSUME NEW w \in Worker, Fails(w) \/ Completes(w) PROVE HashInv'
  BY <1>7, HashFinish
<1>8. ASSUME NEW h \in DOMAIN envs, Settles(h) \/ Expires(h) PROVE HashInv'
  <2>1. DOMAIN envs' \subseteq DOMAIN envs
    BY <1>8 DEF Settles, Expires
  <2> QED BY <1>8, <2>1, JobStays, RunsStay, EnvsKeep, HashStep DEF Settles, Expires
<1> QED BY <1>1, <1>2, <1>3, <1>4, <1>5, <1>6, <1>7, <1>8 DEF Forms

LEMMA HashInit == Init => HashInv
<1> SUFFICES ASSUME Init PROVE HashInv
  OBVIOUS
<1>1. \A w \in Worker : worker[w].pc = "idle"
  BY DEF Init, Resting
<1>2. DOMAIN envs = {}
  BY DEF Init
<1> QED BY <1>1, <1>2 DEF HashInv, At

LEMMA HashAlways == Spec => [](TypeInv /\ HashInv)
<1>1. HashInv /\ UNCHANGED vars => HashInv'
  BY DEF HashInv, vars, At, Past, Run
<1>2. TypeInv /\ HashInv /\ [Next]_vars => TypeInv' /\ HashInv'
  BY <1>1, NextForms, StutterType, HashNext
<1> QED BY <1>2, TypeInit, HashInit, PTL DEF Spec
-----------------------------------------------------------------------------
(* The ledger.                                                             *)

LEMMA TakenAt ==
  ASSUME TypeInv, HashInv, NEW w \in Worker, At(w, "send"), Taken(w) \/ UNCHANGED envs
  PROVE  /\ \A h \in DOMAIN envs : h # worker[w].hash /\ h \in DOMAIN envs' /\ envs'[h] = envs[h]
         /\ \A h \in DOMAIN envs' :
              h \in DOMAIN envs \/ (h = worker[w].hash /\ envs'[h].status = "pending")
<1>1. worker[w].hash \notin DOMAIN envs
  BY UnsentLabels DEF HashInv, At
<1>2. CASE UNCHANGED envs
  BY <1>1, <1>2
<1>3. CASE envs' = [h \in DOMAIN envs \cup {worker[w].hash} |->
                      IF h = worker[w].hash THEN [seq |-> Built(w), status |-> "pending"]
                                            ELSE envs[h]]
  BY <1>1, <1>3
<1> QED BY <1>2, <1>3 DEF Taken

\* What the ledger has decided stays.
LEMMA LedgerKeeps ==
  ASSUME TypeInv, HashInv, Forms, NEW h
  PROVE  (IsApplied(h) => IsApplied(h)') /\ (OnLedger(h) => OnLedger(h)')
<1>1. CASE UNCHANGED envs
  BY <1>1 DEF IsApplied, OnLedger
<1>2. CASE \E w \in Worker : At(w, "send") /\ Taken(w)
  BY <1>2, TakenAt DEF IsApplied, OnLedger
<1>3. CASE \E g \in DOMAIN envs : Settles(g) \/ Expires(g)
  <2>1. PICK g \in DOMAIN envs : Settles(g) \/ Expires(g)
    BY <1>3
  <2>2. envs[g].status = "pending"
    BY <2>1 DEF Settles, Expires
  <2>3. h \in DOMAIN envs /\ h # g => h \in DOMAIN envs' /\ envs'[h] = envs[h]
    BY <2>1 DEF Settles, Expires
  <2> QED BY <2>2, <2>3 DEF IsApplied, OnLedger
<1>4. \/ UNCHANGED envs
      \/ \E w \in Worker : At(w, "send") /\ Taken(w)
      \/ \E g \in DOMAIN envs : Settles(g) \/ Expires(g)
  BY DEF Forms, Quiet, Enqueue, Stall, Take, Prepares, Fails, Completes, Awaits, Looks,
         RecordSpend, Crash, chain
<1> QED BY <1>1, <1>2, <1>3, <1>4

LEMMA RestsAt ==
  ASSUME TypeInv, NEW w \in Worker, Fails(w) \/ Completes(w) \/ Crash(w)
  PROVE  worker'[w] = Resting /\ worker'[w].pc = "idle"
         /\ \A v \in Worker : v # w => worker'[v] = worker[v]
<1>1. worker' = [worker EXCEPT ![w] = Resting]
  BY DEF Fails, Completes, Complete, Finish, Crash
<1>2. Resting.pc = "idle"
  BY DEF Resting
<1> QED BY <1>1, <1>2, WorkerAt

\* What a step does to each worker.
Lifts(w) == worker'[w].job = worker[w].job /\ worker'[w].hash = worker[w].hash

WorkerForm(w) ==
  \/ worker'[w] = worker[w]
  \/ worker'[w] = Resting /\ (Fails(w) \/ Completes(w) \/ Crash(w))
  \/ worker'[w].pc \in Unsent
  \/ Lifts(w) /\ Awaits(w) /\ worker'[w].pc \in {"poll", "reconcile"} /\ worker'[w].held = Pending'
  \/ Lifts(w) /\ At(w, "poll") /\ worker'[w].pc = "record" /\ IsApplied(worker[w].hash)
  \/ Lifts(w) /\ At(w, "reconcile") /\ worker'[w].pc = "gaveUp"
  \/ Lifts(w) /\ At(w, "record") /\ worker'[w].pc = "done" /\ RecordSpend(w)

LEMMA WorkerForms ==
  ASSUME TypeInv, Forms PROVE \A w \in Worker : WorkerForm(w)
<1>1. CASE UNCHANGED worker
  BY <1>1 DEF WorkerForm
<1>2. ASSUME NEW w \in Worker, Fails(w) \/ Completes(w) \/ Crash(w)
      PROVE  \A v \in Worker : WorkerForm(v)
  BY <1>2, RestsAt DEF WorkerForm
<1>3. ASSUME NEW w \in Worker, Prepares(w) \/ \E j \in Job : Take(w, j)
      PROVE  \A v \in Worker : WorkerForm(v)
  <2>1. PICK r \in WorkerState : worker' = [worker EXCEPT ![w] = r] /\ r.pc \in Unsent
    BY <1>3, TakeForm DEF Prepares
  <2> QED BY <2>1, WorkerAt DEF WorkerForm
<1>4. ASSUME NEW w \in Worker, Awaits(w) PROVE \A v \in Worker : WorkerForm(v)
  <2>1. PICK r \in WorkerState :
          /\ worker' = [worker EXCEPT ![w] = r] /\ r.pc \in {"poll", "reconcile"}
          /\ r.job = worker[w].job /\ r.hash = worker[w].hash /\ r.held = Pending'
    BY <1>4 DEF Awaits
  <2>2. worker'[w] = r /\ \A v \in Worker : v # w => worker'[v] = worker[v]
    BY <2>1, WorkerAt
  <2> QED BY <1>4, <2>1, <2>2 DEF WorkerForm, Lifts
<1>5. ASSUME NEW w \in Worker, Looks(w) PROVE \A v \in Worker : WorkerForm(v)
  <2>1. PICK r \in WorkerState :
          /\ worker' = [worker EXCEPT ![w] = r]
          /\ r.job = worker[w].job /\ r.hash = worker[w].hash
          /\ \/ At(w, "poll") /\ r.pc = "record" /\ IsApplied(worker[w].hash)
             \/ At(w, "reconcile") /\ r.pc = "gaveUp"
    BY <1>5 DEF Looks
  <2>2. worker'[w] = r /\ \A v \in Worker : v # w => worker'[v] = worker[v]
    BY <2>1, WorkerAt
  <2> QED BY <2>1, <2>2 DEF WorkerForm, Lifts
<1>6. ASSUME NEW w \in Worker, RecordSpend(w) PROVE \A v \in Worker : WorkerForm(v)
  <2>1. PICK r \in WorkerState :
          /\ worker' = [worker EXCEPT ![w] = r]
          /\ r.job = worker[w].job /\ r.hash = worker[w].hash /\ r.pc = "done"
    BY <1>6, RecordForm
  <2>2. worker'[w] = r /\ \A v \in Worker : v # w => worker'[v] = worker[v]
    BY <2>1, WorkerAt
  <2>3. At(w, "record")
    BY <1>6 DEF RecordSpend
  <2> QED BY <1>6, <2>1, <2>2, <2>3 DEF WorkerForm, Lifts
<1>7. CASE Quiet \/ (\E j \in Job : Enqueue(j) \/ Stall(j))
        \/ (\E h \in DOMAIN envs : Settles(h) \/ Expires(h))
  BY <1>1, <1>7 DEF Quiet, Enqueue, Stall, Settles, Expires
<1> QED BY <1>2, <1>3, <1>4, <1>5, <1>6, <1>7 DEF Forms

\* What a step does to a completed job.
LEMMA CompletedFrom ==
  ASSUME TypeInv, Forms, NEW j \in Job, job'[j].state = "completed"
  PROVE  \/ job'[j] = job[j]
         \/ \E w \in Worker : /\ Completes(w) /\ j = worker[w].job
                              /\ job[j].state = "active" /\ job[j].holder = w
                              /\ job'[j].hash = worker[w].hash
<1>1. CASE UNCHANGED job
  BY <1>1
<1>2. ASSUME NEW i \in Job, Enqueue(i) \/ Stall(i) \/ \E w \in Worker : Take(w, i)
      PROVE  job'[j] = job[j]
  <2>1. CASE Enqueue(i)
    <3>1. PICK s \in {"refused", "waiting"}, p \in Payer :
            job' = [job EXCEPT ![i].state = s, ![i].payer = p]
      BY <2>1, EnqueueForm
    <3>2. job \in [Job -> JobState]
      BY TypeParts DEF JobsOK
    <3>3. i # j
      BY <3>1, <3>2 DEF JobState
    <3> QED BY <3>1, <3>2, <3>3
  <2>2. CASE Stall(i)
    <3>1. PICK k \in JobState : job' = [job EXCEPT ![i] = k] /\ k.state \in {"waiting", "rejected"}
      BY <2>2, StallForm
    <3> QED BY <3>1, JobAt
  <2>3. CASE \E w \in Worker : Take(w, i)
    <3>1. PICK k \in JobState : job' = [job EXCEPT ![i] = k] /\ k.state = "active"
      BY <2>3, TakeForm
    <3> QED BY <3>1, JobAt
  <2> QED BY <1>2, <2>1, <2>2, <2>3
<1>3. ASSUME NEW w \in Worker, Fails(w) PROVE job'[j] = job[j]
  <2>1. ~At(w, "idle")
    BY <1>3 DEF Fails
  <2>2. worker[w].job \in Job
    BY <2>1, RunTypes
  <2>3. job' = job \/ \E k \in JobState : /\ job' = [job EXCEPT ![worker[w].job] = k]
                                          /\ k.state \in {"waiting", "rejected", "exhausted"}
    BY <1>3, <2>1, FinishJob DEF Fails
  <2> QED BY <2>2, <2>3, JobAt
<1>4. ASSUME NEW w \in Worker, Completes(w)
      PROVE  \/ job'[j] = job[j]
             \/ /\ j = worker[w].job /\ job[j].state = "active" /\ job[j].holder = w
                /\ job'[j].hash = worker[w].hash
  <2>1. ~At(w, "idle") /\ Finish(w, "completed", worker[w].hash)
    BY <1>4 DEF Completes, Complete, At
  <2>2. worker[w].job \in Job /\ worker[w].hash \in Hash
    BY <2>1, RunTypes
  <2>3. \/ job' = job
        \/ /\ job[worker[w].job].state = "active" /\ job[worker[w].job].holder = w
           /\ \E k \in JobState : /\ job' = [job EXCEPT ![worker[w].job] = k]
                                  /\ k.hash = worker[w].hash
    BY <2>1, <2>2, FinishJob
  <2> QED BY <2>2, <2>3, JobAt
<1>5. \/ UNCHANGED job
      \/ \E i \in Job : Enqueue(i) \/ Stall(i) \/ \E w \in Worker : Take(w, i)
      \/ \E w \in Worker : Fails(w) \/ Completes(w)
  BY DEF Forms, Quiet, Prepares, Awaits, Looks, RecordSpend, Crash, Settles, Expires
<1> QED BY <1>1, <1>2, <1>3, <1>4, <1>5

LEMMA EventsGrow == ASSUME TypeInv, Forms PROVE events \subseteq events'
BY HappensType, EventTypes, RecordForm
   DEF Forms, Quiet, Enqueue, Stall, Take, Prepares, Fails, Completes, Awaits, Looks, Crash,
       Settles, Expires

LEMMA LedgerNext ==
  ASSUME TypeInv, HashInv, LedgerInv, Forms PROVE LedgerInv'
<1>1. ASSUME NEW w \in Worker, worker'[w].pc \in {"record", "done"}
      PROVE  IsApplied(worker[w].hash)'
  <2>1. IsApplied(worker[w].hash) /\ worker'[w].hash = worker[w].hash
    BY <1>1, WorkerForms, UnsentLabels DEF WorkerForm, Lifts, At, LedgerInv, Resting, Sent
  <2>2. PICK h : h = worker[w].hash
    OBVIOUS
  <2>3. IsApplied(h)'
    BY <2>1, <2>2, LedgerKeeps
  <2> QED BY <2>1, <2>2, <2>3 DEF IsApplied
<1>2. ASSUME NEW j \in Job, job'[j].state = "completed"
      PROVE  /\ OnLedger(job[j].hash)' /\ job'[j].hash[1] = j
             /\ "lost" \notin events' => IsApplied(job[j].hash)'
  <2>1. PICK h : h = job'[j].hash
    OBVIOUS
  <2>2. OnLedger(h) /\ h[1] = j /\ ("lost" \notin events' => IsApplied(h))
    <3>1. CASE job'[j] = job[j]
      BY <1>2, <2>1, <3>1, EventsGrow DEF LedgerInv
    <3>2. CASE \E w \in Worker : /\ Completes(w) /\ j = worker[w].job
                                  /\ job'[j].hash = worker[w].hash
      <4>1. PICK w \in Worker : Completes(w) /\ j = worker[w].job /\ h = worker[w].hash
        BY <2>1, <3>2
      <4>2. h[1] = j
        BY <4>1, RunTypes DEF Completes, At
      <4> QED BY <4>1, <4>2 DEF Completes, LedgerInv, At, OnLedger, IsApplied
    <3> QED BY <1>2, <3>1, <3>2, CompletedFrom
  <2>3. OnLedger(h)' /\ ("lost" \notin events' => IsApplied(h)')
    BY <2>2, LedgerKeeps
  <2> QED BY <2>1, <2>2, <2>3 DEF OnLedger, IsApplied
<1> QED BY <1>1, <1>2 DEF LedgerInv

LEMMA LedgerInit == Init => LedgerInv
BY DEF Init, LedgerInv, Resting

LEMMA LedgerAlways == Spec => []LedgerInv
<1>1. LedgerInv /\ UNCHANGED vars => LedgerInv'
  BY DEF LedgerInv, vars, IsApplied, OnLedger
<1>2. TypeInv /\ HashInv /\ LedgerInv /\ [Next]_vars => LedgerInv'
  BY <1>1, NextForms, LedgerNext
<1> QED BY <1>2, LedgerInit, HashAlways, PTL DEF Spec

\* Whatever is lost, stalls or crashes, a job that the queue reports as completed has
\* its envelope on the ledger, and applied there unless lookups were lost.
THEOREM CompletedJobsAreOnLedger == Spec => []CompletedIsOnLedger
<1>1. LedgerInv => CompletedIsOnLedger
  BY DEF LedgerInv, CompletedIsOnLedger, OnLedger, IsApplied
<1> QED BY <1>1, LedgerAlways, PTL
-----------------------------------------------------------------------------
(* While nothing is lost.                                                  *)

HeldByRun == \A w \in Worker : ~At(w, "idle") => /\ job[worker[w].job].state = "active"
                                                 /\ job[worker[w].job].holder = w
RunByHolder == \A j \in Job : job[j].state = "active" => worker[job[j].holder].job = j
NoTimeout == \A w \in Worker : worker[w].pc \notin {"reconcile", "gaveUp"}
Remembered == \A w \in Worker :
                At(w, "poll") /\ worker[w].hash \in Pending => worker[w].hash \in worker[w].held
AllAccounted == \A h \in DOMAIN envs : Accounted(h)

LEMMA ExclusiveParts ==
  Exclusive <=> HeldByRun /\ RunByHolder /\ NoTimeout /\ Remembered /\ AllAccounted
BY DEF Exclusive, HeldByRun, RunByHolder, NoTimeout, Remembered, AllAccounted

LEMMA ExclusivePartsNext ==
  (HeldByRun /\ RunByHolder /\ NoTimeout /\ Remembered /\ AllAccounted)' => Exclusive'
BY DEF Exclusive, HeldByRun, RunByHolder, NoTimeout, Remembered, AllAccounted

LEMMA CalmBefore == ASSUME TypeInv, Forms, ~Lossy' PROVE ~Lossy
BY EventsGrow DEF Lossy

\* Only the ledger moves.
LEMMA CalmLedger ==
  ASSUME TypeInv, Exclusive, UNCHANGED <<job, worker>>,
         \A h \in DOMAIN envs' :
           /\ h \in DOMAIN envs
           /\ envs[h].status = "failed" => envs'[h].status = "failed"
           /\ envs'[h].status = "pending" => envs[h].status = "pending"
  PROVE  Exclusive'
<1>1. HeldByRun /\ RunByHolder /\ NoTimeout /\ Remembered /\ AllAccounted
  BY ExclusiveParts
<1>2. HeldByRun' /\ RunByHolder' /\ NoTimeout'
  BY <1>1 DEF HeldByRun, RunByHolder, NoTimeout, At
<1>3. Remembered'
  BY <1>1 DEF Remembered, Pending, At
<1>4. AllAccounted'
  BY <1>1 DEF AllAccounted, Accounted
<1> QED BY <1>2, <1>3, <1>4, ExclusivePartsNext

\* A worker moves on in its run.
LEMMA CalmMove ==
  ASSUME TypeInv, Exclusive, NEW w \in Worker, NEW r \in WorkerState, ~At(w, "idle"),
         worker' = [worker EXCEPT ![w] = r], UNCHANGED <<job, envs>>,
         r.job = worker[w].job, r.hash = worker[w].hash,
         \/ worker[w].pc \in Unsent /\ r.pc \in Unsent
         \/ worker[w].pc \in {"poll", "record"} /\ r.pc \in {"record", "done"}
  PROVE  Exclusive'
<1>1. HeldByRun /\ RunByHolder /\ NoTimeout /\ Remembered /\ AllAccounted
  BY ExclusiveParts
<1>2. worker'[w] = r /\ \A v \in Worker : v # w => worker'[v] = worker[v]
  BY WorkerAt
<1>3. \A v \in Worker : worker'[v].job = worker[v].job /\ worker'[v].hash = worker[v].hash
  BY <1>2
<1>4. r.pc \notin {"reconcile", "gaveUp", "poll", "idle"}
  BY UnsentLabels DEF Sent
<1>5. HeldByRun'
  BY <1>1, <1>2, <1>3 DEF HeldByRun, At
<1>6. RunByHolder'
  <2>1. \A j \in Job : job[j].state = "active" => job[j].holder \in Worker
    BY JobTypes DEF JobShape
  <2> QED BY <1>1, <1>3, <2>1 DEF RunByHolder
<1>7. NoTimeout'
  BY <1>1, <1>2, <1>4 DEF NoTimeout
<1>8. Remembered'
  BY <1>1, <1>2, <1>4 DEF Remembered, Pending, At
<1>9. AllAccounted'
  <2>1. ASSUME NEW v \in Worker, worker[v].pc \in {"poll", "record", "done"}
        PROVE  worker'[v].pc \in {"poll", "record", "done"}
    <3>1. CASE v # w
      BY <1>2, <2>1, <3>1
    <3>2. CASE v = w
      BY <1>2, <2>1, <3>2, UnsentLabels DEF Sent
    <3> QED BY <3>1, <3>2
  <2> QED BY <1>1, <1>3, <2>1 DEF AllAccounted, Accounted
<1> QED BY <1>5, <1>6, <1>7, <1>8, <1>9, ExclusivePartsNext

\* The envelope is sent.
LEMMA CalmSend ==
  ASSUME TypeInv, HashInv, Exclusive, ~Lossy', NEW w \in Worker, Awaits(w) PROVE Exclusive'
<1>1. HeldByRun /\ RunByHolder /\ NoTimeout /\ Remembered /\ AllAccounted
  BY ExclusiveParts
<1>2. PICK r \in WorkerState :
        /\ worker' = [worker EXCEPT ![w] = r] /\ r.pc \in {"poll", "reconcile"}
        /\ r.job = worker[w].job /\ r.hash = worker[w].hash /\ r.held = Pending'
        /\ r.pc = "reconcile" => "timeout" \in events'
  BY DEF Awaits
<1>3. r.pc = "poll"
  BY <1>2 DEF Lossy
<1>4. At(w, "send") /\ ~At(w, "idle") /\ job' = job /\ (Taken(w) \/ UNCHANGED envs)
  BY DEF Awaits, At
<1>5. worker'[w] = r /\ \A v \in Worker : v # w => worker'[v] = worker[v]
  BY <1>2, WorkerAt
<1>6. \A v \in Worker : worker'[v].job = worker[v].job /\ worker'[v].hash = worker[v].hash
  BY <1>2, <1>5
<1>7. HeldByRun'
  BY <1>1, <1>4, <1>5, <1>6 DEF HeldByRun, At
<1>8. RunByHolder'
  <2>1. \A j \in Job : job[j].state = "active" => job[j].holder \in Worker
    BY JobTypes DEF JobShape
  <2> QED BY <1>1, <1>4, <1>6, <2>1 DEF RunByHolder
<1>9. NoTimeout'
  BY <1>1, <1>3, <1>5 DEF NoTimeout
<1>10. Remembered'
  <2>1. ASSUME NEW v \in Worker, worker'[v].pc = "poll", worker'[v].hash \in Pending'
        PROVE  worker'[v].hash \in worker'[v].held
    <3>1. CASE v = w
      BY <1>2, <1>5, <2>1, <3>1
    <3>2. CASE v # w
      <4>1. worker'[v] = worker[v] /\ At(v, "poll")
        BY <1>5, <2>1, <3>2 DEF At
      <4>2. worker[v].hash # worker[w].hash
        BY <1>4, <3>2, <4>1, WorkersDistinct DEF At
      <4>3. worker[v].hash \in DOMAIN envs /\ envs'[worker[v].hash] = envs[worker[v].hash]
        BY <1>4, <2>1, <4>1, <4>2, TakenAt DEF Pending
      <4>4. worker[v].hash \in Pending
        BY <2>1, <4>1, <4>3 DEF Pending
      <4> QED BY <1>1, <4>1, <4>4 DEF Remembered
    <3> QED BY <3>1, <3>2
  <2> QED BY <2>1 DEF Remembered, At
<1>11. AllAccounted'
  <2>1. ASSUME NEW h \in DOMAIN envs' PROVE Accounted(h)'
    <3>1. CASE h \in DOMAIN envs
      <4>1. envs'[h] = envs[h] /\ Accounted(h)
        BY <1>1, <1>4, <3>1, TakenAt DEF AllAccounted
      <4>2. ASSUME NEW v \in Worker, worker[v].pc \in {"poll", "record", "done"}
            PROVE  worker'[v] = worker[v]
        BY <1>4, <1>5, <4>2 DEF At
      <4> QED BY <1>4, <4>1, <4>2 DEF Accounted
    <3>2. CASE h = worker[w].hash
      <4>1. worker'[w].hash = h /\ worker'[w].pc = "poll"
        BY <1>3, <1>5, <1>6, <3>2
      <4> QED BY <4>1 DEF Accounted
    <3> QED BY <1>4, <3>1, <3>2, TakenAt
  <2> QED BY <2>1 DEF AllAccounted
<1> QED BY <1>7, <1>8, <1>9, <1>10, <1>11, ExclusivePartsNext

\* A job that no worker has is added, or one is taken.
LEMMA CalmEnqueue ==
  ASSUME TypeInv, Exclusive, NEW j \in Job, Enqueue(j) PROVE Exclusive'
<1>1. HeldByRun /\ RunByHolder /\ NoTimeout /\ Remembered /\ AllAccounted
  BY ExclusiveParts
<1>2. PICK s \in {"refused", "waiting"}, p \in Payer :
        job' = [job EXCEPT ![j].state = s, ![j].payer = p]
  BY EnqueueForm
<1>3. job \in [Job -> JobState] /\ job[j].state = "new" /\ UNCHANGED <<worker, envs>>
  BY TypeParts DEF JobsOK, Enqueue, chain
<1>4. /\ \A i \in Job : i # j => job'[i] = job[i]
      /\ job'[j].state = s
  BY <1>2, <1>3 DEF JobState
<1>5. HeldByRun'
  <2>1. \A w \in Worker : ~At(w, "idle") => worker[w].job \in Job
    BY RunTypes
  <2> QED BY <1>1, <1>3, <1>4, <2>1 DEF HeldByRun, At
<1>6. RunByHolder'
  BY <1>1, <1>3, <1>4 DEF RunByHolder
<1>7. NoTimeout' /\ Remembered'
  BY <1>1, <1>3 DEF NoTimeout, Remembered, Pending, At
<1>8. AllAccounted'
  <2>1. \A h \in DOMAIN envs : h[1] \in Job
    BY EnvTypes
  <2> QED BY <1>1, <1>3, <1>4, <2>1 DEF AllAccounted, Accounted
<1> QED BY <1>5, <1>6, <1>7, <1>8, ExclusivePartsNext

LEMMA CalmTake ==
  ASSUME TypeInv, Exclusive, NEW j \in Job, NEW w \in Worker, Take(w, j) PROVE Exclusive'
<1>1. HeldByRun /\ RunByHolder /\ NoTimeout /\ Remembered /\ AllAccounted
  BY ExclusiveParts
<1>2. PICK r \in WorkerState : /\ worker' = [worker EXCEPT ![w] = r]
                               /\ r.job = j /\ r.hash = <<j, Run(j)>> /\ r.pc \in Unsent
  BY TakeForm
<1>3. PICK k \in JobState : /\ job' = [job EXCEPT ![j] = k] /\ k.state = "active"
                            /\ k.holder = w
  BY TakeForm
<1>4. job'[j] = k /\ \A i \in Job : i # j => job'[i] = job[i]
  BY <1>3, JobAt
<1>5. worker'[w] = r /\ \A v \in Worker : v # w => worker'[v] = worker[v]
  BY <1>2, WorkerAt
<1>6. At(w, "idle") /\ job[j].state = "waiting" /\ envs' = envs
  BY DEF Take, chain
<1>7. r.pc \notin {"poll", "record", "done", "reconcile", "gaveUp"}
  BY <1>2, UnsentLabels DEF Sent
<1>8. HeldByRun'
  <2>1. ASSUME NEW v \in Worker, worker'[v].pc # "idle"
        PROVE  job'[worker'[v].job].state = "active" /\ job'[worker'[v].job].holder = v
    <3>1. CASE v = w
      BY <1>2, <1>3, <1>4, <1>5, <3>1
    <3>2. CASE v # w
      <4>1. worker'[v] = worker[v] /\ ~At(v, "idle")
        BY <1>5, <2>1, <3>2 DEF At
      <4>2. worker[v].job \in Job /\ job[worker[v].job].state = "active"
            /\ job[worker[v].job].holder = v
        BY <1>1, <4>1, RunTypes DEF HeldByRun
      <4> QED BY <1>4, <1>6, <4>1, <4>2
    <3> QED BY <3>1, <3>2
  <2> QED BY <2>1 DEF HeldByRun, At
<1>9. RunByHolder'
  <2>1. ASSUME NEW i \in Job, job'[i].state = "active" PROVE worker'[job'[i].holder].job = i
    <3>1. CASE i = j
      BY <1>2, <1>3, <1>4, <1>5, <3>1
    <3>2. CASE i # j
      <4>1. job'[i] = job[i] /\ job[i].holder \in Worker /\ worker[job[i].holder].job = i
        BY <1>1, <1>4, <2>1, <3>2, JobTypes DEF RunByHolder, JobShape
      <4>2. worker[w].job = None /\ None \notin Job
        BY <1>6, RunTypes, QueueAssumption DEF RunShape, Resting, At
      <4>3. job[i].holder # w
        BY <4>1, <4>2
      <4> QED BY <1>5, <4>1, <4>3
    <3> QED BY <3>1, <3>2
  <2> QED BY <2>1 DEF RunByHolder
<1>10. NoTimeout'
  BY <1>1, <1>5, <1>7 DEF NoTimeout
<1>11. Remembered'
  BY <1>1, <1>5, <1>6, <1>7 DEF Remembered, Pending, At
<1>12. AllAccounted'
  <2>1. ASSUME NEW h \in DOMAIN envs PROVE Accounted(h)'
    <3>1. Accounted(h) /\ h[1] \in Job
      BY <1>1, EnvTypes DEF AllAccounted
    <3>2. job[h[1]].state = "completed" => job'[h[1]] = job[h[1]]
      BY <1>4, <1>6, <3>1
    <3>3. \A v \in Worker : worker[v].pc \in {"poll", "record", "done"} => worker'[v] = worker[v]
      BY <1>5, <1>6 DEF At
    <3> QED BY <1>6, <3>1, <3>2, <3>3 DEF Accounted
  <2> QED BY <1>6, <2>1 DEF AllAccounted
<1> QED BY <1>8, <1>9, <1>10, <1>11, <1>12, ExclusivePartsNext

\* A run ends: of a job that it holds, with an envelope that has failed or was never
\* seen and has expired, or after a confirmation.
LEMMA CalmFinish ==
  ASSUME TypeInv, HashInv, Exclusive, ~Lossy', NEW w \in Worker, Fails(w) \/ Completes(w)
  PROVE  Exclusive'
<1>1. HeldByRun /\ RunByHolder /\ NoTimeout /\ Remembered /\ AllAccounted
  BY ExclusiveParts
<1>2. ~At(w, "idle")
  BY DEF Fails, Completes, At
<1>3. PICK j \in Job : j = worker[w].job /\ j = worker[w].hash[1]
  BY <1>2, RunTypes
<1>4. job[j].state = "active" /\ job[j].holder = w
  BY <1>1, <1>2, <1>3 DEF HeldByRun
<1>5. worker'[w] = Resting /\ worker'[w].pc = "idle"
      /\ \A v \in Worker : v # w => worker'[v] = worker[v]
  BY RestsAt
<1>6. envs' = envs
  BY DEF Fails, Completes
<1>7. /\ \A i \in Job : i # j => job'[i] = job[i]
      /\ job'[j].state \in {"waiting", "completed", "rejected", "exhausted"}
      /\ Completes(w) => job'[j].state = "completed" /\ job'[j].hash = worker[w].hash
  <2>1. CASE Fails(w)
    <3>1. job[worker[w].job].holder = w /\ job[worker[w].job].state = "active"
      BY <1>3, <1>4
    <3>2. PICK state \in {"waiting", "rejected", "exhausted"} :
            /\ state = "waiting" => job[worker[w].job].attempts + 1 < MaxAttempts
            /\ Finish(w, state, None)
      BY <2>1 DEF Fails
    <3>3. PICK k \in JobState : job' = [job EXCEPT ![j] = k] /\ k.state = state
      <4>1. \E k \in JobState : job' = [job EXCEPT ![worker[w].job] = k] /\ k.state = state
        BY <1>2, <3>1, <3>2, FinishJob
      <4> QED BY <1>3, <4>1
    <3>4. job'[j] = k /\ \A i \in Job : i # j => job'[i] = job[i]
      BY <3>3, JobAt
    <3>5. ~Completes(w)
      BY <1>1, <2>1 DEF Fails, Completes, Lossy, At, NoTimeout, Unsent, Clearing
    <3> QED BY <3>3, <3>4, <3>5
  <2>2. CASE Completes(w)
    <3>1. /\ Finish(w, "completed", worker[w].hash) /\ worker[w].hash \in Hash
          /\ job[worker[w].job].holder = w /\ job[worker[w].job].state = "active"
      BY <1>2, <1>3, <1>4, <2>2, RunTypes DEF Completes, Complete
    <3>2. PICK k \in JobState : /\ job' = [job EXCEPT ![j] = k] /\ k.state = "completed"
                                /\ k.hash = worker[w].hash
      <4>1. \E k \in JobState : /\ job' = [job EXCEPT ![worker[w].job] = k]
                                /\ k.state = "completed" /\ k.hash = worker[w].hash
        BY <1>2, <3>1, FinishJob
      <4> QED BY <1>3, <4>1
    <3> QED BY <3>2, JobAt
  <2> QED BY <2>1, <2>2
<1>8. HeldByRun'
  <2>1. ASSUME NEW v \in Worker, worker'[v].pc # "idle"
        PROVE  job'[worker'[v].job].state = "active" /\ job'[worker'[v].job].holder = v
    <3>1. v # w /\ worker'[v] = worker[v] /\ ~At(v, "idle")
      BY <1>5, <2>1 DEF At
    <3>2. /\ worker[v].job \in Job /\ job[worker[v].job].state = "active"
          /\ job[worker[v].job].holder = v
      BY <1>1, <3>1, RunTypes DEF HeldByRun
    <3>3. worker[v].job # j
      BY <1>4, <3>1, <3>2
    <3> QED BY <1>7, <3>1, <3>2, <3>3
  <2> QED BY <2>1 DEF HeldByRun, At
<1>9. RunByHolder'
  <2>1. ASSUME NEW i \in Job, job'[i].state = "active" PROVE worker'[job'[i].holder].job = i
    <3>1. i # j
      BY <1>7, <2>1
    <3>2. job'[i] = job[i] /\ job[i].holder \in Worker /\ worker[job[i].holder].job = i
      BY <1>1, <1>7, <2>1, <3>1, JobTypes DEF RunByHolder, JobShape
    <3>3. job[i].holder # w
      BY <1>3, <3>1, <3>2
    <3> QED BY <1>5, <3>2, <3>3
  <2> QED BY <2>1 DEF RunByHolder
<1>10. NoTimeout' /\ Remembered'
  BY <1>1, <1>5, <1>6 DEF NoTimeout, Remembered, Pending, At
<1>11. AllAccounted'
  <2>1. ASSUME NEW h \in DOMAIN envs PROVE Accounted(h)'
    <3>1. Accounted(h) /\ h[1] \in Job /\ envs[h] \in EnvState
      BY <1>1, EnvTypes DEF AllAccounted
    <3>2. CASE envs[h].status = "failed"
      BY <1>6, <3>2 DEF Accounted
    <3>3. CASE \E v \in Worker : /\ v # w /\ worker[v].hash = h
                                 /\ worker[v].pc \in {"poll", "record", "done"}
      BY <1>5, <3>3 DEF Accounted
    <3>4. CASE job[h[1]].state = "completed" /\ job[h[1]].hash = h
      <4>1. h[1] # j
        BY <1>4, <3>4
      <4> QED BY <1>7, <3>1, <3>4, <4>1 DEF Accounted
    <3>5. CASE worker[w].hash = h /\ worker[w].pc \in {"poll", "record", "done"}
      <4>1. CASE Completes(w)
        BY <1>3, <1>7, <3>5, <4>1 DEF Accounted
      <4>2. CASE Fails(w)
        <5>1. \/ At(w, "poll") /\ Status(w) = "failed"
              \/ At(w, "poll") /\ Status(w) \notin {"applied", "failed"} /\ Outlived(w)
          BY <3>5, <4>2, UnsentLabels DEF Fails, Sent
        <5>2. Status(w) = envs[h].status
          BY <3>5 DEF Status
        <5>3. CASE Status(w) = "failed"
          BY <3>2, <5>2, <5>3
        <5>4. CASE At(w, "poll") /\ Status(w) \notin {"applied", "failed"} /\ Outlived(w)
          <6>1. envs[h].status = "pending"
            BY <3>1, <5>2, <5>4 DEF EnvState
          <6>2. h \in Pending
            BY <6>1 DEF Pending
          <6>3. h \in worker[w].held
            BY <1>1, <3>5, <5>4, <6>2 DEF Remembered
          <6> QED BY <5>4, <6>2, <6>3 DEF Outlived
        <5> QED BY <5>1, <5>3, <5>4
      <4> QED BY <4>1, <4>2
    <3> QED BY <3>1, <3>2, <3>3, <3>4, <3>5 DEF Accounted
  <2> QED BY <1>6, <2>1 DEF AllAccounted
<1> QED BY <1>8, <1>9, <1>10, <1>11, ExclusivePartsNext

LEMMA OutcomeNext ==
  ASSUME TypeInv, HashInv, OutcomeInv, Forms PROVE OutcomeInv'
<1> SUFFICES ASSUME ~Lossy' PROVE Exclusive'
  BY DEF OutcomeInv
<1>1. Exclusive
  BY CalmBefore DEF OutcomeInv
<1>2. CASE Quiet
  BY <1>1, <1>2, CalmLedger DEF Quiet
<1>3. ASSUME NEW j \in Job, Enqueue(j) \/ \E w \in Worker : Take(w, j) PROVE Exclusive'
  BY <1>1, <1>3, CalmEnqueue, CalmTake
<1>4. ASSUME NEW j \in Job, Stall(j) PROVE FALSE
  <2>1. worker[job[j].holder].job = j
    BY <1>1, <1>4 DEF Exclusive, Stall
  <2>2. Happens("stall")
    BY <1>4, <2>1 DEF Stall
  <2> QED BY <2>2, LossyEvents
<1>5. ASSUME NEW w \in Worker, Crash(w) PROVE FALSE
  BY <1>5, LossyEvents DEF Crash
<1>6. ASSUME NEW w \in Worker, Prepares(w) PROVE Exclusive'
  <2>1. PICK r \in WorkerState : /\ worker' = [worker EXCEPT ![w] = r]
                                 /\ r.pc \in Unsent /\ r.job = worker[w].job
                                 /\ r.hash = worker[w].hash
    BY <1>6 DEF Prepares
  <2>2. worker[w].pc \in Unsent /\ ~At(w, "idle") /\ UNCHANGED <<job, envs>>
    BY <1>6, UnsentLabels DEF Prepares, At
  <2> QED BY <1>1, <2>1, <2>2, CalmMove
<1>7. ASSUME NEW w \in Worker, Looks(w) PROVE Exclusive'
  <2>1. PICK r \in WorkerState : /\ worker' = [worker EXCEPT ![w] = r]
                                 /\ r.job = worker[w].job /\ r.hash = worker[w].hash
                                 /\ \/ At(w, "poll") /\ r.pc = "record"
                                    \/ At(w, "reconcile") /\ r.pc = "gaveUp"
    BY <1>7 DEF Looks
  <2>2. worker[w].pc = "poll" /\ r.pc = "record" /\ ~At(w, "idle")
    BY <1>1, <2>1 DEF Exclusive, At
  <2>3. UNCHANGED <<job, envs>>
    BY <1>7 DEF Looks
  <2> QED BY <1>1, <2>1, <2>2, <2>3, CalmMove
<1>8. ASSUME NEW w \in Worker, RecordSpend(w) PROVE Exclusive'
  <2>1. PICK r \in WorkerState : /\ worker' = [worker EXCEPT ![w] = r]
                                 /\ r.job = worker[w].job /\ r.hash = worker[w].hash
                                 /\ r.pc = "done"
    BY <1>8, RecordForm
  <2>2. worker[w].pc = "record" /\ ~At(w, "idle") /\ UNCHANGED <<job, envs>>
    BY <1>8, RecordForm DEF At
  <2> QED BY <1>1, <2>1, <2>2, CalmMove
<1>9. ASSUME NEW w \in Worker, Awaits(w) \/ Fails(w) \/ Completes(w) PROVE Exclusive'
  BY <1>1, <1>9, CalmSend, CalmFinish
<1>10. ASSUME NEW h \in DOMAIN envs, Settles(h) PROVE Exclusive'
  <2>1. PICK e \in EnvState : e.status \in {"applied", "failed"} /\ envs' = [envs EXCEPT ![h] = e]
    BY <1>10 DEF Settles
  <2>2. envs[h].status = "pending" /\ UNCHANGED <<job, worker>>
    BY <1>10 DEF Settles
  <2>3. ASSUME NEW g \in DOMAIN envs'
        PROVE  /\ g \in DOMAIN envs
               /\ envs[g].status = "failed" => envs'[g].status = "failed"
               /\ envs'[g].status = "pending" => envs[g].status = "pending"
    BY <2>1, <2>2
  <2> QED BY <1>1, <2>2, <2>3, CalmLedger
<1>11. ASSUME NEW h \in DOMAIN envs, Expires(h) PROVE Exclusive'
  BY <1>1, <1>11, CalmLedger DEF Expires
<1> QED BY <1>2, <1>3, <1>4, <1>5, <1>6, <1>7, <1>8, <1>9, <1>10, <1>11 DEF Forms

LEMMA OutcomeInit == Init => OutcomeInv
<1> SUFFICES ASSUME Init PROVE Exclusive
  BY DEF OutcomeInv
<1>1. \A w \in Worker : worker[w].pc = "idle"
  BY DEF Init, Resting
<1>2. DOMAIN envs = {}
  BY DEF Init
<1>3. \A j \in Job : job[j].state = "new"
  BY DEF Init
<1> QED BY <1>1, <1>2, <1>3 DEF Exclusive, At

LEMMA OutcomeAlways == Spec => []OutcomeInv
<1>1. OutcomeInv /\ UNCHANGED vars => OutcomeInv'
  BY DEF OutcomeInv, Exclusive, vars, Lossy, At, Pending, Accounted
<1>2. TypeInv /\ HashInv /\ OutcomeInv /\ [Next]_vars => OutcomeInv'
  BY <1>1, NextForms, OutcomeNext
<1> QED BY <1>2, OutcomeInit, HashAlways, PTL DEF Spec

\* An envelope that may have been executed, and its job.
LEMMA OutcomeHolds ==
  ASSUME TypeInv, LedgerInv, OutcomeInv PROVE OutcomeIsTrue
<1> SUFFICES ASSUME ~Lossy, NEW j \in Job
             PROVE  /\ Cardinality(Applied(j)) <= 1
                    /\ job[j].state = "completed" => Applied(j) = {job[j].hash}
                    /\ Settled(j) /\ job[j].state # "completed" => Applied(j) \cup Live(j) = {}
  BY DEF OutcomeIsTrue
<1>1. Exclusive /\ "lost" \notin events
  BY DEF OutcomeInv, Lossy
<1>2. ASSUME NEW h \in Applied(j) \cup Live(j)
      PROVE  \/ job[j].state = "completed" /\ job[j].hash = h
             \/ /\ job[j].state = "active" /\ job[j].holder \in Worker
                /\ worker[job[j].holder].hash = h
  <2>1. h \in DOMAIN envs /\ h[1] = j /\ envs[h].status \in {"applied", "pending"}
    BY DEF Applied, Live
  <2>2. Accounted(h)
    BY <1>1, <2>1 DEF Exclusive
  <2>3. CASE \E w \in Worker : worker[w].hash = h /\ worker[w].pc \in {"poll", "record", "done"}
    <3>1. PICK w \in Worker : worker[w].hash = h /\ worker[w].pc \in {"poll", "record", "done"}
      BY <2>3
    <3>2. ~At(w, "idle")
      BY <3>1 DEF At
    <3>3. worker[w].job = j
      BY <2>1, <3>1, <3>2, RunTypes
    <3> QED BY <1>1, <3>1, <3>2, <3>3 DEF Exclusive
  <2> QED BY <2>1, <2>2, <2>3 DEF Accounted
<1>3. ASSUME NEW g \in Applied(j), NEW h \in Applied(j) PROVE g = h
  BY <1>2
<1>4. Cardinality(Applied(j)) <= 1
  <2>1. CASE Applied(j) = {}
    BY <2>1, FS_EmptySet
  <2>2. CASE Applied(j) # {}
    <3>1. PICK h \in Applied(j) : TRUE
      BY <2>2
    <3>2. Applied(j) = {h}
      BY <1>3, <3>1
    <3> QED BY <3>2, FS_Singleton
  <2> QED BY <2>1, <2>2
<1>5. ASSUME job[j].state = "completed" PROVE Applied(j) = {job[j].hash}
  <2>1. job[j].hash \in Applied(j)
    BY <1>1, <1>5 DEF LedgerInv, IsApplied, Applied
  <2> QED BY <1>3, <2>1
<1>6. ASSUME Settled(j), job[j].state # "completed" PROVE Applied(j) \cup Live(j) = {}
  BY <1>2, <1>6 DEF Settled
<1> QED BY <1>4, <1>5, <1>6

\* While submissions and lookups are answered and locks are kept, executeTxJob() and its
\* retries execute no job twice and report every outcome as it is.
THEOREM OutcomesAreTrue == Spec => []OutcomeIsTrue
<1>1. TypeInv /\ LedgerInv /\ OutcomeInv => OutcomeIsTrue
  BY OutcomeHolds
<1> QED BY <1>1, TypeAlways, LedgerAlways, OutcomeAlways, PTL
-----------------------------------------------------------------------------
(* The spend counter.                                                      *)

LEMMA CountedKept ==
  ASSUME TypeInv, HashInv, HashInv', Forms
  PROVE  AllApplied \ Uncounted \subseteq (AllApplied \ Uncounted)'
<1> SUFFICES ASSUME NEW h \in AllApplied \ Uncounted PROVE h \in (AllApplied \ Uncounted)'
  OBVIOUS
<1>1. IsApplied(h)'
  BY LedgerKeeps DEF AllApplied, IsApplied
<1>2. ASSUME NEW v \in Worker, worker'[v].pc \notin {"idle", "done"}, worker'[v].hash = h
      PROVE  FALSE
  <2>1. worker'[v].pc \notin Unsent
    BY <1>1, <1>2 DEF HashInv, IsApplied
  <2>2. worker[v].hash = h /\ worker[v].pc \notin {"idle", "done"}
    BY <1>2, <2>1, WorkerForms DEF WorkerForm, Lifts, Awaits, At, Resting
  <2> QED BY <2>2 DEF Uncounted
<1> QED BY <1>1, <1>2 DEF AllApplied, Uncounted, IsApplied

LEMMA EnvsFinite ==
  ASSUME TypeInv, Forms, IsFiniteSet(DOMAIN envs) PROVE IsFiniteSet(DOMAIN envs')
<1>1. \E x : DOMAIN envs' \subseteq DOMAIN envs \cup {x}
  <2>1. CASE \E w \in Worker : Taken(w)
    BY <2>1, TakenDomain
  <2>2. CASE UNCHANGED envs \/ \E h \in DOMAIN envs : Settles(h) \/ Expires(h)
    BY <2>2 DEF Settles, Expires
  <2> QED BY <2>1, <2>2 DEF Forms, Quiet, Enqueue, Stall, Take, Prepares, Fails, Completes,
                            Awaits, Looks, RecordSpend, Crash, chain
<1>2. PICK x : DOMAIN envs' \subseteq DOMAIN envs \cup {x}
  BY <1>1
<1>3. IsFiniteSet(DOMAIN envs \cup {x})
  BY FS_AddElement
<1> QED BY <1>2, <1>3, FS_Subset

LEMMA SpentSame ==
  ASSUME Forms, \A w \in Worker : ~RecordSpend(w) PROVE spent' = spent
BY DEF Forms, Quiet, Enqueue, Stall, Take, Prepares, Fails, Completes, Awaits, Looks, Crash,
       Settles, Expires

LEMMA GrowingCardinality ==
  ASSUME NEW S, NEW T, IsFiniteSet(T), S \subseteq T
  PROVE  IsFiniteSet(S) /\ Cardinality(S) <= Cardinality(T) /\ Cardinality(S) \in Nat
         /\ Cardinality(T) \in Nat
BY FS_Subset, FS_CardinalityType

\* The counter never exceeds what was executed: a worker counts its own envelope, which
\* it has seen applied, and nobody else counts that one.
LEMMA SpendBound ==
  ASSUME TypeInv, HashInv, HashInv', LedgerInv, SpendInv, Forms
  PROVE  IsFiniteSet(DOMAIN envs') /\ spent' <= Cardinality((AllApplied \ Uncounted)')
<1>1. IsFiniteSet(DOMAIN envs') /\ spent \in Nat
  BY EnvsFinite, TypeParts DEF SpendInv, SharedOK
<1> DEFINE A == AllApplied \ Uncounted
           B == (AllApplied \ Uncounted)'
<1>2. B \subseteq DOMAIN envs'
  BY DEF AllApplied
<1>3. A \subseteq B /\ spent <= Cardinality(A)
  BY CountedKept DEF SpendInv
<1>4. ASSUME NEW w \in Worker, RecordSpend(w)
      PROVE  /\ spent' = spent + 1 \/ spent' = spent
             /\ worker[w].hash \in B /\ worker[w].hash \notin A
  <2>1. /\ At(w, "record") /\ envs' = envs /\ (spent' = spent + 1 \/ spent' = spent)
        /\ \E r \in WorkerState : worker' = [worker EXCEPT ![w] = r] /\ r.pc = "done"
    BY <1>4, RecordForm
  <2>2. worker'[w].pc = "done" /\ \A v \in Worker : v # w => worker'[v] = worker[v]
    BY <2>1, WorkerAt
  <2>3. worker[w].hash \in AllApplied'
    BY <2>1 DEF LedgerInv, AllApplied, IsApplied, At
  <2>4. worker[w].hash \in Uncounted
    BY <2>1 DEF Uncounted, At
  <2>5. worker[w].hash \notin Uncounted'
    <3>1. ASSUME NEW v \in Worker, worker'[v].pc \notin {"idle", "done"},
                 worker'[v].hash = worker[w].hash
          PROVE  FALSE
      <4>1. v # w /\ worker'[v] = worker[v]
        BY <2>2, <3>1
      <4>2. ~At(v, "idle") /\ ~At(w, "idle")
        BY <2>1, <3>1, <4>1 DEF At
      <4> QED BY <3>1, <4>1, <4>2, WorkersDistinct
    <3> QED BY <3>1 DEF Uncounted
  <2> QED BY <2>1, <2>3, <2>4, <2>5
<1> HIDE DEF A, B
<1>5. IsFiniteSet(B) /\ IsFiniteSet(A) /\ Cardinality(A) \in Nat /\ Cardinality(B) \in Nat
      /\ Cardinality(A) <= Cardinality(B)
  BY <1>1, <1>2, <1>3, GrowingCardinality
<1>6. CASE \E w \in Worker : RecordSpend(w)
  <2>1. PICK h \in B : h \notin A
    BY <1>4, <1>6
  <2>2. Cardinality(A \cup {h}) = Cardinality(A) + 1
    BY <1>5, <2>1, FS_AddElement
  <2>3. A \cup {h} \subseteq B
    BY <1>3, <2>1
  <2>4. Cardinality(A \cup {h}) <= Cardinality(B)
    BY <1>5, <2>3, GrowingCardinality
  <2>5. spent' = spent + 1 \/ spent' = spent
    BY <1>4, <1>6
  <2>6. spent' <= Cardinality(B)
    BY <1>1, <1>3, <1>5, <2>2, <2>4, <2>5
  <2> QED BY <1>1, <2>6 DEF B
<1>7. CASE \A w \in Worker : ~RecordSpend(w)
  <2>1. spent' = spent
    BY <1>7, SpentSame
  <2>2. spent' <= Cardinality(B)
    BY <1>1, <1>3, <1>5, <2>1
  <2> QED BY <1>1, <2>2 DEF B
<1> QED BY <1>6, <1>7

\* Nothing is completed uncounted while nothing is lost and no call is refused.
LEMMA CountedFrom ==
  ASSUME TypeInv, OutcomeInv, Forms, ~Lossy', NEW j \in Job, j \in Counted'
  PROVE  j \in Counted \/ \E w \in Worker : RecordSpend(w) /\ j = worker[w].job
<1>1. Exclusive
  BY CalmBefore DEF OutcomeInv
<1>2. CASE job'[j].state = "completed"
  <2>1. CASE job'[j] = job[j]
    BY <1>2, <2>1 DEF Counted
  <2>2. CASE \E w \in Worker : Completes(w) /\ j = worker[w].job
    <3>1. PICK w \in Worker : Completes(w) /\ j = worker[w].job
      BY <2>2
    <3>2. At(w, "done")
      BY <1>1, <3>1 DEF Completes, Lossy, Exclusive, At
    <3> QED BY <3>1, <3>2 DEF Counted
  <2> QED BY <1>2, <2>1, <2>2, CompletedFrom
<1>3. ASSUME NEW w \in Worker, worker'[w].job = j, worker'[w].pc = "done"
      PROVE  j \in Counted \/ (RecordSpend(w) /\ j = worker[w].job)
  <2>1. worker'[w] = worker[w] \/ (Lifts(w) /\ RecordSpend(w))
    BY <1>3, WorkerForms, UnsentLabels DEF WorkerForm, Resting, Sent
  <2>2. CASE worker'[w] = worker[w]
    BY <1>3, <2>2 DEF Counted, At
  <2>3. CASE Lifts(w) /\ RecordSpend(w)
    BY <1>3, <2>3 DEF Lifts
  <2> QED BY <2>1, <2>2, <2>3
<1> QED BY <1>2, <1>3 DEF Counted, At

LEMMA SpendComplete ==
  ASSUME TypeInv, OutcomeInv, SpendInv, Forms, ~Lossy', "error" \notin events'
  PROVE  IsFiniteSet(Counted') /\ Cardinality(Counted') <= spent'
<1>1. spent \in Nat /\ IsFiniteSet(Counted) /\ Cardinality(Counted) <= spent
      /\ Cardinality(Counted) \in Nat
  BY CalmBefore, EventsGrow, TypeParts, FS_CardinalityType DEF SpendInv, SharedOK
<1> DEFINE C == Counted
           D == Counted'
<1>2. C \subseteq Job /\ D \subseteq Job
  BY DEF Counted
<1>3. CASE \A w \in Worker : ~RecordSpend(w)
  <2>1. D \subseteq C
    BY <1>2, <1>3, CountedFrom
  <2>2. spent' = spent
    BY <1>3, SpentSame
  <2> HIDE DEF C, D
  <2>3. IsFiniteSet(C) /\ Cardinality(C) <= spent /\ Cardinality(C) \in Nat
    BY <1>1 DEF C
  <2>4. IsFiniteSet(D) /\ Cardinality(D) <= Cardinality(C) /\ Cardinality(D) \in Nat
    BY <2>1, <2>3, GrowingCardinality
  <2>5. Cardinality(D) <= spent'
    BY <1>1, <2>2, <2>3, <2>4
  <2> QED BY <2>4, <2>5 DEF D
<1>4. ASSUME NEW w \in Worker, RecordSpend(w)
      PROVE  IsFiniteSet(Counted') /\ Cardinality(Counted') <= spent'
  <2>1. At(w, "record") /\ spent' = spent + 1
        /\ \E r \in WorkerState : worker' = [worker EXCEPT ![w] = r]
    <3>1. At(w, "record") => worker[w].job \in Job
      BY RunTypes DEF At
    <3>2. \A j \in Job : job[j].payer # "unknown"
      BY EventsGrow DEF SpendInv, PayerInv
    <3> QED BY <1>4, <3>1, <3>2, RecordForm
  <2>2. \A v \in Worker : RecordSpend(v) => v = w
    <3>1. ASSUME NEW v \in Worker, v # w, RecordSpend(v) PROVE FALSE
      <4>1. /\ At(v, "record")
            /\ \E r \in WorkerState : worker' = [worker EXCEPT ![v] = r] /\ r.pc = "done"
        BY <3>1, RecordForm
      <4>2. worker'[v].pc = "done" /\ worker'[v] = worker[v]
        BY <2>1, <3>1, <4>1, WorkerAt
      <4> QED BY <4>1, <4>2 DEF At
    <3> QED BY <3>1
  <2>3. PICK j : j = worker[w].job
    OBVIOUS
  <2>4. D \subseteq C \cup {j}
    BY <1>2, <2>2, <2>3, CountedFrom
  <2> HIDE DEF C, D
  <2>5. IsFiniteSet(C) /\ Cardinality(C) <= spent /\ Cardinality(C) \in Nat
    BY <1>1 DEF C
  <2>6. IsFiniteSet(C \cup {j}) /\ Cardinality(C \cup {j}) <= Cardinality(C) + 1
    BY <2>5, FS_AddElement
  <2>7. /\ IsFiniteSet(D) /\ Cardinality(D) <= Cardinality(C \cup {j})
        /\ Cardinality(D) \in Nat /\ Cardinality(C \cup {j}) \in Nat
    BY <2>4, <2>6, GrowingCardinality
  <2>8. Cardinality(D) <= spent'
    BY <1>1, <2>1, <2>5, <2>6, <2>7
  <2> QED BY <2>7, <2>8 DEF D
<1> QED BY <1>3, <1>4

LEMMA PayerNext == ASSUME TypeInv, PayerInv, Next PROVE PayerInv'
<1> SUFFICES ASSUME "error" \notin events', NEW j \in Job PROVE job'[j].payer = "known"
  BY DEF PayerInv
<1>1. "error" \notin events /\ job[j].payer = "known" /\ ~Happens("error")
  BY NextForms, EventsGrow DEF PayerInv, Happens
<1>2. job \in [Job -> JobState] /\ job[j] \in JobState
  BY TypeParts DEF JobsOK
<1>3. CASE \E i \in Job : Enqueue(i) \/ Stall(i) \/ \E w \in Worker : Take(w, i)
  BY <1>1, <1>2, <1>3 DEF Enqueue, Stall, Take, JobState
<1>4. ASSUME NEW w \in Worker, NEW state, NEW hash, Finish(w, state, hash)
      PROVE  job'[j].payer = "known"
  BY <1>1, <1>2, <1>4 DEF Finish, JobState
<1>5. ASSUME NEW w \in Worker, Step(w) \/ CallFails(w) \/ SendThrows(w) \/ PollLost(w) \/ Crash(w)
      PROVE  job' = job \/ \E state, hash : Finish(w, state, hash)
  <2>1. Retry(w) \/ Reject(w) \/ (\E hash : Complete(w, hash)) => \E state, hash : Finish(w, state, hash)
    BY DEF Retry, Reject, Complete
  <2>2. CASE Step(w)
    <3>1. CASE ClearCache(w) \/ ClearBlocks(w) \/ ClearCursors(w) \/ ReadBlocks(w) \/ ReadCursor(w)
      BY <2>1, <3>1 DEF ClearCache, ClearBlocks, ClearCursors, ReadBlocks, ReadCursor
    <3>2. CASE AdvanceCursor(w) \/ LoadAccount(w) \/ ReadCache(w) \/ StoreCache(w) \/ RecordSpend(w)
      BY <3>2 DEF AdvanceCursor, LoadAccount, ReadCache, StoreCache, RecordSpend
    <3>3. CASE Send(w) \/ Poll(w) \/ Reconcile(w) \/ GiveUp(w) \/ Return(w)
      BY <2>1, <3>3 DEF Send, Poll, Reconcile, GiveUp, Return
    <3> QED BY <2>2, <3>1, <3>2, <3>3 DEF Step
  <2>3. CASE CallFails(w) \/ SendThrows(w) \/ PollLost(w) \/ Crash(w)
    BY <2>1, <2>3 DEF CallFails, SendThrows, PollLost, Crash
  <2> QED BY <1>5, <2>2, <2>3
<1>6. CASE \E a \in Admin : RequestBlock(a) \/ Reserve(a) \/ ReserveFails(a) \/ CrashAdmin(a)
  BY <1>1, <1>6 DEF RequestBlock, Reserve, LockSequence, ReserveLoad, ReserveRead, ReservePush,
                    ReserveUnlock, ReserveFails, CrashAdmin
<1>7. CASE LapseSeqLock \/ LapseCache \/ \E h \in DOMAIN envs : Include(h) \/ Expire(h)
  BY <1>1, <1>7 DEF LapseSeqLock, LapseCache, Include, Expire
<1> QED BY <1>1, <1>3, <1>4, <1>5, <1>6, <1>7 DEF Next

LEMMA SpendInit == Init => SpendInv
<1> SUFFICES ASSUME Init PROVE SpendInv
  OBVIOUS
<1>1. DOMAIN envs = {} /\ spent = 0
  BY DEF Init
<1>2. AllApplied \ Uncounted = {}
  BY <1>1 DEF AllApplied
<1>3. Counted = {}
  BY DEF Init, Counted, Resting, At
<1>4. PayerInv
  BY DEF Init, PayerInv
<1> QED BY <1>1, <1>2, <1>3, <1>4, FS_EmptySet DEF SpendInv

LEMMA SpendStutter == SpendInv /\ UNCHANGED vars => SpendInv'
BY DEF SpendInv, PayerInv, vars, AllApplied, Uncounted, Counted, Lossy, At

LEMMA SpendAlways == Spec => []SpendInv
<1>1. TypeInv /\ HashInv /\ HashInv' /\ LedgerInv /\ OutcomeInv /\ SpendInv /\ [Next]_vars
        => SpendInv'
  <2> SUFFICES ASSUME TypeInv, HashInv, HashInv', LedgerInv, OutcomeInv, SpendInv, Next
               PROVE  SpendInv'
    BY SpendStutter
  <2>1. Forms
    BY NextForms
  <2>2. IsFiniteSet(DOMAIN envs') /\ spent' <= Cardinality((AllApplied \ Uncounted)')
    BY <2>1, SpendBound
  <2>3. ~Lossy' /\ "error" \notin events' => IsFiniteSet(Counted') /\ Cardinality(Counted') <= spent'
    BY <2>1, SpendComplete
  <2>4. PayerInv'
    BY PayerNext DEF SpendInv
  <2> QED BY <2>2, <2>3, <2>4 DEF SpendInv
<1> QED BY <1>1, SpendInit, HashAlways, LedgerAlways, OutcomeAlways, PTL DEF Spec

LEMMA SpendHolds == ASSUME TypeInv, SpendInv PROVE SpendIsCounted
<1>1. UNION {Applied(j) : j \in Job} = AllApplied
  BY EnvTypes DEF Applied, AllApplied
<1>2. spent \in Nat
  BY TypeParts DEF SharedOK
<1>3. IsFiniteSet(AllApplied)
  BY FS_Subset DEF SpendInv, AllApplied
<1>4. /\ Cardinality(AllApplied \ Uncounted) <= Cardinality(AllApplied)
      /\ Cardinality(AllApplied \ Uncounted) \in Nat /\ Cardinality(AllApplied) \in Nat
  BY <1>3, GrowingCardinality
<1>5. spent <= Cardinality(AllApplied)
  BY <1>2, <1>4 DEF SpendInv
<1>6. ASSUME ~Lossy, "error" \notin events
      PROVE  Cardinality({j \in Job : job[j].state = "completed"}) <= spent
  <2> DEFINE D == {j \in Job : job[j].state = "completed"}
             C == Counted
  <2>1. IsFiniteSet(C) /\ Cardinality(C) <= spent /\ D \subseteq C
    BY <1>6 DEF SpendInv, Counted
  <2> HIDE DEF C, D
  <2>2. Cardinality(D) <= Cardinality(C) /\ Cardinality(D) \in Nat /\ Cardinality(C) \in Nat
    BY <2>1, GrowingCardinality
  <2>3. Cardinality(D) <= spent
    BY <1>2, <2>1, <2>2
  <2> QED BY <2>3 DEF D
<1> QED BY <1>1, <1>5, <1>6 DEF SpendIsCounted

\* The counter that addTransactionToQueue() compares with the limit never exceeds what
\* was executed, and counts every completed job unless a fault hid its confirmation.
THEOREM SpendIsAlwaysCounted == Spec => []SpendIsCounted
<1>1. TypeInv /\ SpendInv => SpendIsCounted
  BY SpendHolds
<1> QED BY <1>1, TypeAlways, SpendAlways, PTL
-----------------------------------------------------------------------------
(* The race for sequence numbers.  Without a fault an attempt of a job is  *)
(* lost to a reserved block, whose numbers the builder oversteps, to a     *)
(* number that the other job has used in the meantime, or to a cached      *)
(* number that the other job has left ahead of the ledger.  A job loses at *)
(* most one attempt to every block and one to either kind of number.       *)

\* No fault so far, and at most two jobs.
Calm == /\ events \subseteq Lease
        /\ \E i, k \in Job : Enqueued \subseteq {i, k}

\* The network has an envelope of the job; one is about to be sent with the next
\* number; at any rate one of the two.
Won(j) == \E h \in DOMAIN envs : h[1] = j
InFront(w) == At(w, "send") /\ worker[w].list = <<>> /\ worker[w].seq = account
Secured(j) == Won(j) \/ \E w \in Worker : worker[w].job = j /\ InFront(w)
OtherSecured(j) == \E k \in Job : k # j /\ Secured(k)
OtherApplied(j) == \E h \in DOMAIN envs : h[1] # j /\ envs[h].status = "applied"

\* A run that has its number from the ledger or the cache.
Numbered(r) == r.pc \in {"store", "send"} /\ r.list = <<>>
Leases(list) == {list[i].lease : i \in DOMAIN list}
\* A call of reserveSequenceBlock() that has not pushed its block yet.
Asking(a) == admin[a].pc \in {"lock", "load", "read", "push"}
Of(j) == {w \in Worker : worker[w].job = j}

\* The ledger without faults: nothing fails, and one envelope is in flight.
NetInv ==
  /\ \A h \in DOMAIN envs : envs[h].status # "failed"
  /\ \A h \in Pending : envs[h].seq = account + 1
  /\ \A g, h \in Pending : g = h
  /\ account > 0 => \E h \in DOMAIN envs : envs[h].status = "applied"

\* The way to a number.
PathInv == \A w \in Worker :
  /\ worker[w].pc \in {"load", "cache", "store"} => worker[w].list = <<>>
  /\ At(w, "cache") => worker[w].seq <= account

\* A worker that waits for an envelope that the network dropped waits for another job's.
WaitInv == \A w \in Worker : At(w, "poll") /\ worker[w].hash \notin DOMAIN envs =>
  \E h \in worker[w].held : h \in DOMAIN envs /\ h[1] # worker[w].job

\* A number ahead of the ledger was left by a job that has won or is about to.
CacheInv == cache > account => \E j \in Job : Secured(j)
AheadInv == \A w \in Worker : Numbered(worker[w]) /\ worker[w].seq > account =>
  OtherSecured(worker[w].job)

\* A lease is handed out once.
LeaseInv ==
  /\ \A a \in Admin : Asking(a) =>
       /\ admin[a].lease \in events /\ admin[a].lease \notin Leases(blocks)
       /\ \A w \in Worker : admin[a].lease \notin Leases(worker[w].list)
  /\ \A a, b \in Admin : Asking(a) /\ Asking(b) /\ admin[a].lease = admin[b].lease => a = b
  /\ Leases(blocks) \subseteq events
  /\ \A w \in Worker : Leases(worker[w].list) \subseteq events

\* What a job was charged for.
AttemptInv == \A j \in Job :
  /\ j \notin Enqueued => job[j].attempts = 0
  /\ job[j].state = "exhausted" => job[j].attempts >= MaxAttempts

\* The attempts that a job has lost, one that is being lost included, and the ways in
\* which it may lose another one: to a block, to a number that has been used, and to a
\* number ahead of the ledger.
One(p) == IF p THEN 1 ELSE 0
InDebt(j) == \E w \in Of(j) : worker[w].after = "retry"
Losses(j) == job[j].attempts + One(InDebt(j))
LeaseOpen(j, l) ==
  \/ l \notin events
  \/ \E a \in Admin : Asking(a) /\ admin[a].lease = l
  \/ \E w \in Of(j) : l \in Leases(worker[w].list)
  \/ l \in Leases(blocks) /\ \A w \in Of(j) : worker[w].pc \notin {"clearCache", "clearBlocks"}
Behind(w) ==
  \/ /\ worker[w].pc \in {"cache", "store", "send"} /\ worker[w].list = <<>>
     /\ worker[w].seq < account
  \/ At(w, "poll") /\ worker[w].hash \notin DOMAIN envs
LowOpen(j) == ~(OtherApplied(j) /\ \A w \in Of(j) : ~Behind(w))
PreRead == {"clearBlocks", "clearCursors", "blocks", "cursor", "load", "cache"}
Ahead(w) ==
  \/ worker[w].pc \in PreRead /\ worker[w].after = "blocks" /\ cache > account
  \/ Numbered(worker[w]) /\ worker[w].seq > account
HighOpen(j) == ~(OtherSecured(j) /\ \A w \in Of(j) : ~Ahead(w))

\* The blocks that cannot cost the job an attempt any more.
Closed(j) == {l \in Lease : ~LeaseOpen(j, l)}
Chances(j) == One(LowOpen(j)) + One(HighOpen(j))
Bound == \A j \in Job : ~Won(j) => Losses(j) + Chances(j) <= Cardinality(Closed(j)) + 2

RaceInv == Calm => /\ NetInv /\ PathInv /\ WaitInv /\ CacheInv /\ AheadInv /\ LeaseInv
                   /\ AttemptInv /\ Bound

\* What a step without faults does, field by field.
Shared == <<cache, blocks, admin, events, account, envs>>
Alone(w) == \A v \in Worker : v # w => worker'[v] = worker[v]
Steady == \A j \in Job : job'[j].attempts = job[j].attempts

\* What happens to a job.
JobRace(j) ==
  \/ job'[j] = job[j]
  \/ /\ job[j].state = "new" /\ job'[j].state \in {"refused", "waiting"}
     /\ job'[j].attempts = job[j].attempts
  \/ /\ j \in Enqueued /\ job'[j].state \in {"active", "completed"}
     /\ job'[j].attempts = job[j].attempts
  \/ /\ job[j].state = "active" /\ job'[j].state \in {"waiting", "exhausted"}
     /\ job'[j].attempts = job[j].attempts + 1
     /\ job'[j].state = "exhausted" => job'[j].attempts >= MaxAttempts

\* A block is asked for; one is pushed; a call goes on or gives up.
LeaseMoves ==
  \/ /\ UNCHANGED <<blocks, events>>
     /\ \A a \in Admin : Asking(a)' => Asking(a) /\ admin'[a].lease = admin[a].lease
  \/ \E a \in Admin, l \in Lease \ events :
       /\ UNCHANGED blocks /\ events' = events \cup {l} /\ admin'[a].lease = l
       /\ \A b \in Admin : b # a => admin'[b] = admin[b]
  \/ \E a \in Admin :
       /\ UNCHANGED events /\ Leases(blocks') = Leases(blocks) \cup {admin[a].lease}
       /\ Asking(a) /\ ~Asking(a)'
       /\ \A b \in Admin : b # a => admin'[b] = admin[b]

Idles == UNCHANGED <<worker, account, envs>> /\ cache' \in {cache, 0} /\ Steady /\ LeaseMoves

Lands(h) ==
  /\ h \in Pending /\ account' = account + 1
  /\ DOMAIN envs' = DOMAIN envs /\ envs'[h].status = "applied"
  /\ \A g \in DOMAIN envs : g # h => envs'[g] = envs[g]
  /\ UNCHANGED <<worker, cache, blocks, admin, events>> /\ Steady

Begins(w, j) ==
  /\ At(w, "idle") /\ job[j].state = "waiting"
  /\ worker'[w].pc = (IF job[j].attempts > 0 THEN "clearCache" ELSE "blocks")
  /\ worker'[w].job = j /\ worker'[w].after = "blocks" /\ worker'[w].list = <<>>
  /\ Alone(w) /\ UNCHANGED Shared /\ Steady

\* From one reading or writing of Redis to the next.
Walk(w, r, s) ==
  \/ /\ r.pc = "clearCache" /\ s.pc = "clearBlocks" /\ s.list = r.list
     /\ cache' = 0 /\ UNCHANGED blocks
  \/ /\ r.pc = "clearBlocks" /\ s.pc = "clearCursors" /\ s.list = r.list
     /\ blocks' = <<>> /\ UNCHANGED cache
  \/ /\ r.pc = "clearCursors" /\ s.pc = "blocks" /\ s.list = r.list
     /\ UNCHANGED <<cache, blocks>>
  \/ /\ r.pc = "blocks" /\ s.pc = (IF blocks = <<>> THEN "load" ELSE "cursor")
     /\ s.list = blocks /\ UNCHANGED <<cache, blocks>>
  \/ /\ r.pc = "cursor" /\ s.pc = "advance" /\ s.list = r.list /\ UNCHANGED <<cache, blocks>>
  \/ /\ r.pc = "cursor" /\ s.pc \in {"load", "cursor"} /\ s.list = Tail(r.list)
     /\ s.pc = "load" => s.list = <<>>
     /\ r.list # <<>> /\ UNCHANGED <<cache, blocks>>
  \/ /\ r.pc = "advance" /\ s.pc = "send" /\ s.list = r.list /\ r.list # <<>>
     /\ UNCHANGED <<cache, blocks>>
  \/ /\ r.pc = "load" /\ s.pc = "cache" /\ s.list = r.list /\ s.seq = account
     /\ UNCHANGED <<cache, blocks>>
  \/ /\ r.pc = "cache" /\ s.pc = "store" /\ s.list = r.list
     /\ s.seq = (IF cache >= r.seq THEN cache ELSE r.seq)
     /\ UNCHANGED <<cache, blocks>>
  \/ /\ r.pc = "store" /\ s.pc = "send" /\ s.list = r.list /\ s.seq = r.seq
     /\ cache' = r.seq + 1 /\ UNCHANGED blocks

Walks(w) ==
  /\ Walk(w, worker[w], worker'[w])
  /\ Lifts(w) /\ worker'[w].after = worker[w].after
  /\ Alone(w) /\ UNCHANGED <<admin, events, account, envs>> /\ Steady

\* The envelope is taken, or is left aside while another one is in flight.
Submits(w) ==
  /\ At(w, "send") /\ worker[w].seq = account
  /\ IF Pending = {} THEN /\ DOMAIN envs' = DOMAIN envs \cup {worker[w].hash}
                          /\ envs'[worker[w].hash].status = "pending"
                          /\ envs'[worker[w].hash].seq = account + 1
                          /\ \A h \in DOMAIN envs : envs'[h] = envs[h]
                     ELSE UNCHANGED envs
  /\ worker'[w].pc = "poll" /\ worker'[w].list = <<>> /\ worker'[w].held = Pending'
  /\ Lifts(w) /\ worker'[w].after = worker[w].after
  /\ Alone(w) /\ UNCHANGED <<cache, blocks, admin, events, account>> /\ Steady

\* The number is out of order.
Misses(w) ==
  /\ At(w, "send") /\ worker[w].seq # account
  /\ worker'[w].pc = "clearCache" /\ worker'[w].list = <<>> /\ worker'[w].after = "retry"
  /\ Lifts(w) /\ Alone(w) /\ UNCHANGED Shared /\ Steady

\* The attempt is over.
Quits(w) ==
  /\ \/ At(w, "clearCursors") /\ worker[w].after = "retry"
     \/ At(w, "poll") /\ worker[w].hash \notin DOMAIN envs /\ worker[w].held \cap Pending = {}
  /\ worker'[w] = Resting /\ Alone(w) /\ UNCHANGED Shared
  /\ job'[worker[w].job].attempts = job[worker[w].job].attempts + 1
  /\ \A j \in Job : j # worker[w].job => job'[j].attempts = job[j].attempts

\* The envelope has been applied.
Confirms(w) ==
  /\ worker[w].pc \in {"poll", "record"} /\ worker'[w].pc \in {"record", "done"}
  /\ Lifts(w) /\ worker'[w].list = worker[w].list /\ worker'[w].after = worker[w].after
  /\ Alone(w) /\ UNCHANGED Shared /\ Steady
Ends(w) == At(w, "done") /\ worker'[w] = Resting /\ Alone(w) /\ UNCHANGED Shared /\ Steady

RaceStep ==
  \/ Idles
  \/ \E h \in DOMAIN envs : Lands(h)
  \/ \E w \in Worker, j \in Job : Begins(w, j)
  \/ \E w \in Worker : Walks(w) \/ Submits(w) \/ Misses(w) \/ Quits(w) \/ Confirms(w) \/ Ends(w)

LEMMA NoFault ==
  ASSUME NEW e \in Faults, events' \subseteq Lease PROVE ~Happens(e)
BY QueueAssumption DEF Happens

LEMMA GotoAt ==
  ASSUME TypeInv, NEW w \in Worker, NEW label, Goto(w, label)
  PROVE  /\ worker'[w].pc = label /\ Lifts(w) /\ worker'[w].after = worker[w].after
         /\ worker'[w].list = worker[w].list /\ worker'[w].seq = worker[w].seq
         /\ worker'[w].held = worker[w].held /\ Alone(w)
<1>1. worker \in [Worker -> WorkerState] /\ worker[w] \in WorkerState
  BY TypeParts
<1> QED BY <1>1 DEF Goto, Lifts, Alone, WorkerState

LEMMA SteadyJobs ==
  ASSUME UNCHANGED job PROVE Steady /\ \A j \in Job : JobRace(j)
BY DEF Steady, JobRace

\* The resets and getNextSequenceNumber().
LEMMA WalkForm ==
  ASSUME TypeInv, NEW w \in Worker,
         \/ ClearCache(w) \/ ClearBlocks(w) \/ (ClearCursors(w) /\ worker[w].after # "retry")
         \/ ReadBlocks(w) \/ ReadCursor(w)
         \/ AdvanceCursor(w) \/ LoadAccount(w) \/ ReadCache(w) \/ StoreCache(w)
  PROVE  Walks(w) /\ UNCHANGED job
<1> DEFINE r == worker[w]
           s == worker'[w]
<1>1. worker \in [Worker -> WorkerState] /\ worker[w] \in WorkerState /\ RunShape(worker[w])
  BY TypeParts
<1>2. /\ UNCHANGED <<admin, events, account, envs, job>>
  BY DEF ClearCache, ClearBlocks, ClearCursors, ReadBlocks, ReadCursor, AdvanceCursor,
         LoadAccount, ReadCache, StoreCache, chain
<1>3. Steady
  BY <1>2, SteadyJobs
<1>4. CASE ClearCache(w) \/ ClearBlocks(w) \/ (ClearCursors(w) /\ worker[w].after # "retry")
  BY <1>2, <1>3, <1>4, GotoAt DEF ClearCache, ClearBlocks, ClearCursors, At, Walks, Walk
<1>5. CASE ReadBlocks(w)
  <2>1. /\ r.pc = "blocks" /\ s.pc = (IF blocks = <<>> THEN "load" ELSE "cursor")
        /\ s.list = blocks /\ Lifts(w) /\ s.after = r.after /\ Alone(w)
    BY <1>1, <1>5 DEF ReadBlocks, At, Lifts, Alone, WorkerState
  <2> QED BY <1>2, <1>3, <1>5, <2>1 DEF ReadBlocks, redis, Walks, Walk
<1>6. CASE ReadCursor(w)
  <2>1. r.pc = "cursor" /\ r.list # <<>>
    BY <1>1, <1>6 DEF ReadCursor, At, RunShape
  <2> DEFINE b == Head(r.list)
             c == IF cursor[b.lease] = 0 THEN b.first ELSE cursor[b.lease]
             n == c <= b.last
  <2>2. worker' = [worker EXCEPT ![w] = IF n THEN [worker[w] EXCEPT !.seq = c, !.pc = "advance"]
                                             ELSE NextBlock(worker[w])]
    BY <1>6 DEF ReadCursor
  <2> HIDE DEF n, c
  <2>3. CASE n
    <3>1. s.pc = "advance" /\ s.list = r.list /\ Lifts(w) /\ s.after = r.after /\ Alone(w)
      BY <1>1, <2>2, <2>3 DEF Lifts, Alone, WorkerState
    <3> QED BY <1>2, <1>3, <1>6, <2>1, <3>1 DEF ReadCursor, redis, Walks, Walk
  <2>4. CASE ~n
    <3> DEFINE l == IF Len(r.list) = 1 THEN "load" ELSE "cursor"
    <3>1. worker' = [worker EXCEPT ![w] = [r EXCEPT !.list = Tail(r.list), !.seq = 0, !.pc = l]]
      BY <2>2, <2>4 DEF NextBlock
    <3>2. l \in {"load", "cursor"} /\ (l = "load" => Tail(r.list) = <<>>)
      <4>1. r.list \in Seq(Block)
        BY <1>1 DEF WorkerState
      <4> DEFINE q == r.list
      <4> HIDE DEF q
      <4>2. Tail(q) \in Seq(Block) /\ Len(Tail(q)) = Len(q) - 1
        BY <2>1, <4>1 DEF q
      <4>3. \A t \in Seq(Block) : Len(t) = 0 => t = <<>>
        OBVIOUS
      <4>4. ASSUME Len(q) = 1 PROVE Tail(q) = <<>>
        <5> DEFINE t == Tail(q)
        <5> HIDE DEF t
        <5>1. t \in Seq(Block) /\ Len(t) = 0
          BY <4>2, <4>4 DEF t
        <5>2. t = <<>>
          BY <4>3, <5>1
        <5> QED BY <5>2 DEF t
      <4> QED BY <4>4 DEF q
    <3> HIDE DEF l
    <3>3. s.pc = l /\ s.list = Tail(r.list) /\ Lifts(w) /\ s.after = r.after /\ Alone(w)
      BY <1>1, <3>1 DEF Lifts, Alone, WorkerState
    <3> QED BY <1>2, <1>3, <1>6, <2>1, <3>2, <3>3 DEF ReadCursor, redis, Walks, Walk
  <2> QED BY <2>3, <2>4
<1>7. CASE AdvanceCursor(w)
  <2>1. r.pc = "advance" /\ r.list # <<>>
    BY <1>1, <1>7 DEF AdvanceCursor, At, RunShape
  <2> QED BY <1>2, <1>3, <1>7, <2>1, GotoAt DEF AdvanceCursor, Walks, Walk
<1>8. CASE StoreCache(w)
  BY <1>2, <1>3, <1>8, GotoAt DEF StoreCache, At, Walks, Walk
<1>9. CASE LoadAccount(w)
  <2>1. /\ r.pc = "load" /\ s.pc = "cache" /\ s.list = r.list /\ s.seq = account
        /\ Lifts(w) /\ s.after = r.after /\ Alone(w)
    BY <1>1, <1>9 DEF LoadAccount, At, Lifts, Alone, WorkerState
  <2> QED BY <1>2, <1>3, <1>9, <2>1 DEF LoadAccount, redis, Walks, Walk
<1>10. CASE ReadCache(w)
  <2>1. /\ r.pc = "cache" /\ s.pc = "store" /\ s.list = r.list
        /\ s.seq = (IF cache >= r.seq THEN cache ELSE r.seq)
        /\ Lifts(w) /\ s.after = r.after /\ Alone(w)
    BY <1>1, <1>10 DEF ReadCache, At, Lifts, Alone, WorkerState
  <2> QED BY <1>2, <1>3, <1>10, <2>1 DEF ReadCache, redis, Walks, Walk
<1> QED BY <1>4, <1>5, <1>6, <1>7, <1>8, <1>9, <1>10

LEMMA EnqueuedGrows == ASSUME TypeInv, Forms PROVE Enqueued \subseteq Enqueued'
<1> SUFFICES ASSUME NEW j \in Job, job[j].state \notin {"new", "refused"}
             PROVE  job'[j].state \notin {"new", "refused"}
  BY DEF Enqueued
<1>1. CASE UNCHANGED job
  BY <1>1
<1>2. ASSUME NEW i \in Job, Enqueue(i) PROVE job'[j].state \notin {"new", "refused"}
  <2>1. i # j
    BY <1>2 DEF Enqueue
  <2>2. job \in [Job -> JobState]
    BY TypeParts DEF JobsOK
  <2> QED BY <1>2, <2>1, <2>2 DEF Enqueue
<1>3. ASSUME NEW i \in Job, NEW k \in JobState, job' = [job EXCEPT ![i] = k],
             k.state \notin {"new", "refused"}
      PROVE  job'[j].state \notin {"new", "refused"}
  BY <1>3, JobAt
<1>4. CASE \E i \in Job : Stall(i) \/ \E w \in Worker : Take(w, i)
  <2>1. PICK i \in Job : Stall(i) \/ \E w \in Worker : Take(w, i)
    BY <1>4
  <2>2. PICK k \in JobState : job' = [job EXCEPT ![i] = k]
                              /\ k.state \in {"waiting", "rejected", "active"}
    BY <2>1, StallForm, TakeForm
  <2> QED BY <1>3, <2>2
<1>5. CASE \E w \in Worker : Fails(w) \/ Completes(w)
  <2>1. PICK w \in Worker : Fails(w) \/ Completes(w)
    BY <1>5
  <2>2. ~At(w, "idle")
    BY <2>1 DEF Fails, Completes, At
  <2>3. worker[w].job \in Job /\ worker[w].hash \in Hash
    BY <2>2, RunTypes
  <2>4. PICK state \in {"waiting", "completed", "rejected", "exhausted"}, hash \in Hash \cup {None} :
          /\ state = "waiting" => job[worker[w].job].attempts + 1 < MaxAttempts
          /\ Finish(w, state, hash)
    BY <2>1, <2>3 DEF Fails, Completes, Complete
  <2>5. job' = job \/ \E k \in JobState : /\ job' = [job EXCEPT ![worker[w].job] = k]
                                          /\ k.state = state
    BY <2>2, <2>4, FinishJob
  <2> QED BY <1>1, <1>3, <2>3, <2>5
<1>6. \/ UNCHANGED job
      \/ \E i \in Job : Enqueue(i) \/ Stall(i) \/ \E w \in Worker : Take(w, i)
      \/ \E w \in Worker : Fails(w) \/ Completes(w)
  BY DEF Forms, Quiet, Prepares, Awaits, Looks, RecordSpend, Crash, Settles, Expires
<1> QED BY <1>1, <1>2, <1>4, <1>5, <1>6

LEMMA CalmKept == ASSUME TypeInv, Forms, Calm' PROVE Calm
<1>1. events \subseteq Lease
  BY EventsGrow DEF Calm
<1>2. PICK i \in Job, k \in Job : Enqueued' \subseteq {i, k}
  BY DEF Calm
<1>3. Enqueued \subseteq {i, k}
  BY <1>2, EnqueuedGrows
<1> QED BY <1>1, <1>3 DEF Calm

LEMMA CalmExclusive == ASSUME OutcomeInv, Calm PROVE Exclusive /\ ~Lossy
BY EventTypes DEF Calm, OutcomeInv, Lossy

\* The end of an attempt, while locks are kept.
LEMMA RetryRace ==
  ASSUME TypeInv, Exclusive, NEW w \in Worker, ~At(w, "idle"), Retry(w)
  PROVE  /\ worker'[w] = Resting /\ Alone(w) /\ \A j \in Job : JobRace(j)
         /\ job'[worker[w].job].attempts = job[worker[w].job].attempts + 1
         /\ \A j \in Job : j # worker[w].job => job'[j].attempts = job[j].attempts
<1> DEFINE i == worker[w].job
           state == IF job[i].attempts + 1 < MaxAttempts THEN "waiting" ELSE "exhausted"
<1>1. i \in Job /\ job[i].state = "active" /\ job[i].holder = w
  BY RunTypes DEF Exclusive
<1>2. state \in {"waiting", "exhausted"} /\ Finish(w, state, None)
      /\ (state = "waiting" => job[i].attempts + 1 < MaxAttempts)
  BY DEF Retry
<1>3. state = "exhausted" => job[i].attempts + 1 >= MaxAttempts
  BY <1>1, JobTypes, QueueAssumption
<1> HIDE DEF state
<1>4. /\ worker' = [worker EXCEPT ![w] = Resting]
      /\ \E k \in JobState : /\ job' = [job EXCEPT ![i] = k] /\ k.state = state
                             /\ k.attempts = job[i].attempts + 1
  BY <1>1, <1>2, FinishJob
<1>5. PICK k \in JobState : /\ job' = [job EXCEPT ![i] = k] /\ k.state = state
                            /\ k.attempts = job[i].attempts + 1
  BY <1>4
<1>6. job'[i] = k /\ \A j \in Job : j # i => job'[j] = job[j]
  BY <1>1, <1>5, JobAt
<1>7. worker'[w] = Resting /\ Alone(w)
  BY <1>4, WorkerAt DEF Alone
<1>8. \A j \in Job : JobRace(j)
  BY <1>1, <1>2, <1>3, <1>5, <1>6 DEF JobRace
<1> QED BY <1>5, <1>6, <1>7, <1>8

LEMMA ReturnRace ==
  ASSUME TypeInv, Exclusive, NEW w \in Worker, Return(w)
  PROVE  Ends(w) /\ \A j \in Job : JobRace(j)
<1> DEFINE i == worker[w].job
<1>1. ~At(w, "idle") /\ Finish(w, "completed", worker[w].hash) /\ UNCHANGED Shared
  BY DEF Return, Complete, At, Shared, redis, chain
<1>2. i \in Job /\ worker[w].hash \in Hash /\ job[i].state = "active" /\ job[i].holder = w
  BY <1>1, RunTypes DEF Exclusive
<1>3. worker' = [worker EXCEPT ![w] = Resting]
  BY <1>1 DEF Finish
<1>4. PICK k \in JobState : /\ job' = [job EXCEPT ![i] = k] /\ k.state = "completed"
                            /\ k.attempts = job[i].attempts
  BY <1>1, <1>2, FinishJob
<1>5. job'[i] = k /\ \A j \in Job : j # i => job'[j] = job[j]
  BY <1>2, <1>4, JobAt
<1>6. worker'[w] = Resting /\ Alone(w)
  BY <1>3, WorkerAt DEF Alone
<1>7. i \in Enqueued
  BY <1>2 DEF Enqueued
<1> QED BY <1>1, <1>4, <1>5, <1>6, <1>7 DEF JobRace, Ends, Steady, Return

LEMMA SendRace ==
  ASSUME TypeInv, HashInv, NEW w \in Worker, Send(w), events' \subseteq Lease
  PROVE  (Submits(w) \/ Misses(w)) /\ UNCHANGED job
<1>1. worker \in [Worker -> WorkerState] /\ worker[w] \in WorkerState
      /\ account \in Nat /\ worker[w].seq \in Nat
  BY TypeParts DEF SharedOK, WorkerState
<1>2. At(w, "send") /\ UNCHANGED <<cache, blocks, admin, account>>
  BY DEF Send, redis
<1>3. Valid(w) <=> worker[w].seq = account
  BY <1>1 DEF Valid, Built
<1>4. CASE Valid(w) /\ Taken(w) /\ Await(w, "poll") /\ UNCHANGED <<job, events>>
  <2>1. /\ worker'[w].pc = "poll" /\ worker'[w].list = <<>> /\ worker'[w].held = Pending'
        /\ Lifts(w) /\ worker'[w].after = worker[w].after /\ Alone(w)
    BY <1>1, <1>4 DEF Await, Lifts, Alone, WorkerState
  <2>2. worker[w].hash \notin DOMAIN envs
    BY <1>2, UnsentLabels DEF HashInv, At
  <2>3. CASE Pending = {}
    <3>1. /\ DOMAIN envs' = DOMAIN envs \cup {worker[w].hash}
          /\ envs'[worker[w].hash] = [seq |-> Built(w), status |-> "pending"]
          /\ \A h \in DOMAIN envs : envs'[h] = envs[h]
      BY <1>4, <2>2, <2>3 DEF Taken
    <3>2. Built(w) = account + 1
      BY <1>4 DEF Valid
    <3> QED BY <1>2, <1>3, <1>4, <2>1, <2>3, <3>1, <3>2, SteadyJobs DEF Submits
  <2>4. CASE Pending # {}
    <3>1. UNCHANGED envs
      BY <1>4, <2>4 DEF Taken
    <3> QED BY <1>2, <1>3, <1>4, <2>1, <2>4, <3>1, SteadyJobs DEF Submits
  <2> QED BY <2>3, <2>4
<1>5. CASE /\ ~Valid(w) /\ UNCHANGED <<job, envs, events>>
           /\ worker' = [worker EXCEPT ![w].pc = "clearCache", ![w].seq = 0, ![w].list = <<>>,
                                       ![w].after = "retry"]
  <2>1. /\ worker'[w].pc = "clearCache" /\ worker'[w].list = <<>> /\ worker'[w].after = "retry"
        /\ Lifts(w) /\ Alone(w)
    BY <1>1, <1>5 DEF Lifts, Alone, WorkerState
  <2> QED BY <1>2, <1>3, <1>5, <2>1, SteadyJobs DEF Misses, Shared
<1>6. ~Happens("error")
  BY NoFault, EventTypes
<1> QED BY <1>4, <1>5, <1>6 DEF Send

LEMMA PollRace ==
  ASSUME TypeInv, Exclusive, NEW w \in Worker, Poll(w),
         \A h \in DOMAIN envs : envs[h].status # "failed"
  PROVE  (Confirms(w) \/ Quits(w)) /\ \A j \in Job : JobRace(j)
<1>1. At(w, "poll") /\ ~At(w, "idle") /\ UNCHANGED Shared
  BY DEF Poll, At, Shared, redis, chain
<1>2. CASE Goto(w, "record") /\ UNCHANGED job
  BY <1>1, <1>2, GotoAt, SteadyJobs DEF Confirms, At
<1>3. CASE Status(w) \notin {"applied", "failed"} /\ Outlived(w) /\ Retry(w)
  <2>1. worker[w].hash \notin DOMAIN envs
    <3> SUFFICES ASSUME worker[w].hash \in DOMAIN envs PROVE FALSE
      OBVIOUS
    <3>1. envs[worker[w].hash].status = "pending"
      BY <1>3, EnvTypes DEF Status, EnvState
    <3>2. worker[w].hash \in Pending /\ worker[w].hash \in worker[w].held
      BY <1>1, <3>1 DEF Pending, Exclusive
    <3> QED BY <1>3, <3>2 DEF Outlived
  <2>2. worker[w].held \cap Pending = {}
    BY <1>3 DEF Outlived
  <2> QED BY <1>1, <1>3, <2>1, <2>2, RetryRace DEF Quits
<1>4. Status(w) # "failed"
  BY DEF Status
<1> QED BY <1>2, <1>3, <1>4 DEF Poll

LEMMA LeasesAppend ==
  ASSUME NEW s \in Seq(Block), NEW b \in Block
  PROVE  Leases(Append(s, b)) = Leases(s) \cup {b.lease}
<1>1. DOMAIN Append(s, b) = 1..(Len(s) + 1) /\ DOMAIN s = 1..Len(s) /\ Len(s) \in Nat
  OBVIOUS
<1>2. \A i \in 1..Len(s) : Append(s, b)[i] = s[i]
  OBVIOUS
<1>3. Append(s, b)[Len(s) + 1] = b
  OBVIOUS
<1> DEFINE t == Append(s, b)
           n == Len(s)
<1>4. /\ DOMAIN t = 1..(n + 1) /\ DOMAIN s = 1..n /\ n \in Nat /\ t[n + 1] = b
      /\ \A i \in 1..n : t[i] = s[i]
  BY <1>1, <1>2, <1>3
<1> HIDE DEF t, n
<1>5. Leases(t) \subseteq Leases(s) \cup {b.lease}
  <2> SUFFICES ASSUME NEW i \in 1..(n + 1) PROVE t[i].lease \in Leases(s) \cup {b.lease}
    BY <1>4 DEF Leases
  <2>1. i \in 1..n \/ i = n + 1
    BY <1>4
  <2> QED BY <1>4, <2>1 DEF Leases
<1>6. Leases(s) \subseteq Leases(t)
  <2> SUFFICES ASSUME NEW i \in 1..n PROVE s[i].lease \in Leases(t)
    BY <1>4 DEF Leases
  <2>1. i \in 1..(n + 1) /\ t[i] = s[i]
    BY <1>4
  <2> QED BY <1>4, <2>1 DEF Leases
<1>7. b.lease \in Leases(t)
  <2>1. n + 1 \in DOMAIN t
    BY <1>4
  <2> QED BY <1>4, <2>1 DEF Leases
<1> QED BY <1>5, <1>6, <1>7 DEF t

LEMMA AdminRace ==
  ASSUME TypeInv, NEW a \in Admin, events' \subseteq Lease,
         RequestBlock(a) \/ Reserve(a) \/ ReserveFails(a) \/ CrashAdmin(a)
  PROVE  Idles /\ UNCHANGED job
<1>1. admin \in [Admin -> AdminState] /\ blocks \in Seq(Block) /\ admin[a] \in AdminState
  BY TypeParts DEF SharedOK
<1>2. ~ReserveFails(a) /\ ~CrashAdmin(a)
  BY NoFault, EventTypes DEF ReserveFails, CrashAdmin
<1>3. UNCHANGED <<worker, account, envs, cache, job>>
  BY <1>2 DEF RequestBlock, Reserve, LockSequence, ReserveLoad, ReserveRead, ReservePush,
              ReserveUnlock, redis, chain
<1>4. CASE RequestBlock(a)
  <2>1. PICK l \in Lease :
          /\ Happens(l) /\ admin' = [admin EXCEPT ![a] = [pc |-> "lock", lease |-> l, highest |-> 0]]
    BY <1>4 DEF RequestBlock
  <2>2. admin'[a].lease = l /\ \A b \in Admin : b # a => admin'[b] = admin[b]
    BY <1>1, <2>1
  <2>3. l \in Lease \ events /\ events' = events \cup {l} /\ UNCHANGED blocks
    BY <1>4, <2>1 DEF Happens, RequestBlock, redis
  <2>4. LeaseMoves
    BY <2>2, <2>3 DEF LeaseMoves
  <2> QED BY <1>3, <2>4, SteadyJobs DEF Idles
<1>5. CASE ReservePush(a)
  <2> DEFINE f == admin[a].highest + 1
             b == [lease |-> admin[a].lease, first |-> f, last |-> f + BlockSize - 1]
  <2>1. b \in Block /\ b.lease = admin[a].lease
    BY <1>1, <1>5, QueueAssumption DEF Block, AdminState, NoCall, ReservePush
  <2>2. blocks' = Append(blocks, b) /\ admin' = [admin EXCEPT ![a].pc = "unlock"]
        /\ admin[a].pc = "push" /\ UNCHANGED events
    BY <1>5 DEF ReservePush
  <2> HIDE DEF b
  <2>3. Leases(blocks') = Leases(blocks) \cup {admin[a].lease}
    BY <1>1, <2>1, <2>2, LeasesAppend
  <2>4. admin'[a].pc = "unlock" /\ \A c \in Admin : c # a => admin'[c] = admin[c]
    BY <1>1, <2>2 DEF AdminState, NoCall
  <2>5. Asking(a) /\ ~Asking(a)'
    BY <2>2, <2>4 DEF Asking
  <2>6. LeaseMoves
    BY <2>2, <2>3, <2>4, <2>5 DEF LeaseMoves
  <2> QED BY <1>3, <2>6, SteadyJobs DEF Idles
<1>6. CASE LockSequence(a) \/ ReserveLoad(a) \/ ReserveRead(a) \/ ReserveUnlock(a)
  <2>1. UNCHANGED <<blocks, events>>
    BY <1>6 DEF LockSequence, ReserveLoad, ReserveRead, ReserveUnlock, redis
  <2>2. \A b \in Admin : b # a => admin'[b] = admin[b]
    BY <1>1, <1>6 DEF LockSequence, ReserveLoad, ReserveRead, ReserveUnlock
  <2>3. /\ admin'[a].pc \in {"load", "read", "push", "idle"}
        /\ admin'[a].pc # "idle" => Asking(a) /\ admin'[a].lease = admin[a].lease
    BY <1>1, <1>6 DEF LockSequence, ReserveLoad, ReserveRead, ReserveUnlock, AdminState, NoCall,
                      Asking
  <2>4. \A b \in Admin : Asking(b)' => Asking(b) /\ admin'[b].lease = admin[b].lease
    BY <2>2, <2>3 DEF Asking
  <2>5. LeaseMoves
    BY <2>1, <2>4 DEF LeaseMoves
  <2> QED BY <1>3, <2>5, SteadyJobs DEF Idles
<1> QED BY <1>2, <1>4, <1>5, <1>6 DEF Reserve

LEMMA StillIdles ==
  ASSUME UNCHANGED <<worker, account, envs, blocks, events, admin>>, cache' \in {cache, 0}, Steady
  PROVE  Idles
BY DEF Idles, LeaseMoves, Asking

LEMMA LapseRace ==
  ASSUME TypeInv, events' \subseteq Lease, LapseSeqLock \/ LapseCache
  PROVE  Idles /\ UNCHANGED job
<1>1. ~Happens("lapse")
  BY NoFault, EventTypes
<1>2. UNCHANGED <<worker, account, envs, blocks, events, admin, job>> /\ cache' \in {cache, 0}
  BY <1>1 DEF LapseSeqLock, LapseCache, redis, chain
<1> QED BY <1>2, StillIdles, SteadyJobs

LEMMA EnqueueRace ==
  ASSUME TypeInv, events' \subseteq Lease, NEW i \in Job, Enqueue(i)
  PROVE  Idles /\ \A j \in Job : JobRace(j)
<1>1. ~Happens("error")
  BY NoFault, EventTypes
<1>2. UNCHANGED <<worker, account, envs, blocks, events, admin, cache>>
  BY <1>1 DEF Enqueue, redis, chain
<1>3. job \in [Job -> JobState] /\ job[i] \in JobState /\ job[i].state = "new"
  BY TypeParts DEF JobsOK, Enqueue
<1>4. PICK s \in {"refused", "waiting"}, p \in Payer :
        job' = [job EXCEPT ![i].state = s, ![i].payer = p]
  BY EnqueueForm
<1>5. job'[i].state = s /\ job'[i].attempts = job[i].attempts
      /\ \A j \in Job : j # i => job'[j] = job[j]
  BY <1>3, <1>4 DEF JobState
<1>6. Steady /\ \A j \in Job : JobRace(j)
  BY <1>3, <1>5 DEF Steady, JobRace
<1> QED BY <1>2, <1>6, StillIdles

LEMMA TakeRace ==
  ASSUME TypeInv, NEW w \in Worker, NEW i \in Job, Take(w, i)
  PROVE  Begins(w, i) /\ \A j \in Job : JobRace(j)
<1> DEFINE l == IF job[i].attempts > 0 THEN "clearCache" ELSE "blocks"
           r == [Resting EXCEPT !.job = i, !.hash = <<i, job[i].attempts + job[i].stalls>>,
                                !.pc = l]
<1>1. worker' = [worker EXCEPT ![w] = r] /\ At(w, "idle") /\ job[i].state = "waiting"
      /\ UNCHANGED Shared
  BY DEF Take, Shared, redis, chain
<1>2. r.pc = l /\ r.job = i /\ r.after = "blocks" /\ r.list = <<>>
  BY DEF Resting
<1> HIDE DEF r, l
<1>3. worker'[w] = r /\ Alone(w)
  BY <1>1, WorkerAt DEF Alone
<1>4. PICK k \in JobState : /\ job' = [job EXCEPT ![i] = k] /\ k.state = "active"
                            /\ k.attempts = job[i].attempts
  BY TakeForm
<1>5. job'[i] = k /\ \A j \in Job : j # i => job'[j] = job[j]
  BY <1>4, JobAt
<1>6. i \in Enqueued
  BY <1>1 DEF Enqueued
<1>7. Steady /\ \A j \in Job : JobRace(j)
  BY <1>4, <1>5, <1>6 DEF Steady, JobRace
<1> QED BY <1>1, <1>2, <1>3, <1>7 DEF Begins, l

LEMMA LedgerRace ==
  ASSUME TypeInv, NetInv, events' \subseteq Lease, NEW h \in DOMAIN envs, Include(h) \/ Expire(h)
  PROVE  Lands(h) /\ UNCHANGED job
<1>1. ~Happens("revert") /\ ~Happens("drop")
  BY NoFault, EventTypes
<1>2. ~Expire(h)
  <2> SUFFICES ASSUME Expire(h) PROVE FALSE
    OBVIOUS
  <2>1. h \in Pending
    BY DEF Expire, Pending
  <2> QED BY <1>1, <2>1 DEF NetInv, Expire, Includable, Pending
<1>3. /\ h \in Pending /\ account' = account + 1 /\ UNCHANGED events
      /\ envs' = [envs EXCEPT ![h].status = "applied"]
      /\ UNCHANGED <<worker, cache, blocks, admin, job>>
  BY <1>1, <1>2 DEF Include, Includable, Pending, redis
<1>4. envs[h] \in EnvState
  BY EnvTypes
<1>5. DOMAIN envs' = DOMAIN envs /\ \A g \in DOMAIN envs : g # h => envs'[g] = envs[g]
  BY <1>3
<1>6. envs'[h].status = "applied"
  BY <1>3, <1>4 DEF EnvState
<1> QED BY <1>3, <1>5, <1>6, SteadyJobs DEF Lands

\* Every step without a fault has one of these forms.
LEMMA RaceForms ==
  ASSUME TypeInv, HashInv, Exclusive, NetInv, Next, events' \subseteq Lease
  PROVE  RaceStep /\ \A j \in Job : JobRace(j)
<1>1. \A e \in {"error", "timeout", "lost", "stall", "crash"} : ~Happens(e)
  BY NoFault, EventTypes
<1>2. ASSUME NEW j \in Job, Stall(j) PROVE FALSE
  BY <1>1, <1>2 DEF Stall, Exclusive
<1>3. CASE \E j \in Job : Enqueue(j) \/ Stall(j) \/ \E w \in Worker : Take(w, j)
  BY <1>2, <1>3, EnqueueRace, TakeRace DEF RaceStep
<1>4. ASSUME NEW w \in Worker, Step(w) PROVE RaceStep /\ \A j \in Job : JobRace(j)
  <2>1. CASE \/ ClearCache(w) \/ ClearBlocks(w) \/ (ClearCursors(w) /\ worker[w].after # "retry")
             \/ ReadBlocks(w) \/ ReadCursor(w)
             \/ AdvanceCursor(w) \/ LoadAccount(w) \/ ReadCache(w) \/ StoreCache(w)
    BY <2>1, WalkForm, SteadyJobs DEF RaceStep
  <2>2. CASE ClearCursors(w) /\ worker[w].after = "retry"
    <3>1. At(w, "clearCursors") /\ ~At(w, "idle") /\ Retry(w) /\ UNCHANGED Shared
      BY <2>2 DEF ClearCursors, At, Shared, chain
    <3> QED BY <2>2, <3>1, RetryRace DEF Quits, RaceStep
  <2>3. CASE Send(w)
    BY <2>3, SendRace, SteadyJobs DEF RaceStep
  <2>4. CASE Poll(w)
    BY <2>4, PollRace DEF RaceStep, NetInv
  <2>5. ~Reconcile(w) /\ ~GiveUp(w)
    BY DEF Reconcile, GiveUp, At, Exclusive
  <2>6. CASE RecordSpend(w)
    <3>1. At(w, "record") /\ Goto(w, "done") /\ UNCHANGED Shared /\ UNCHANGED job
      BY <1>1, <2>6 DEF RecordSpend, Shared, redis, chain
    <3> QED BY <3>1, GotoAt, SteadyJobs DEF Confirms, RaceStep, At
  <2>7. CASE Return(w)
    BY <2>7, ReturnRace DEF RaceStep
  <2> QED BY <1>4, <2>1, <2>2, <2>3, <2>4, <2>5, <2>6, <2>7 DEF Step
<1>5. ASSUME NEW w \in Worker, CallFails(w) \/ SendThrows(w) \/ PollLost(w) \/ Crash(w)
      PROVE  FALSE
  BY <1>1, <1>5 DEF CallFails, SendThrows, PollLost, Crash
<1>6. CASE \E a \in Admin : RequestBlock(a) \/ Reserve(a) \/ ReserveFails(a) \/ CrashAdmin(a)
  BY <1>6, AdminRace, SteadyJobs DEF RaceStep
<1>7. CASE \E h \in DOMAIN envs : Include(h) \/ Expire(h)
  BY <1>7, LedgerRace, SteadyJobs DEF RaceStep
<1>8. CASE LapseSeqLock \/ LapseCache
  BY <1>8, LapseRace, SteadyJobs DEF RaceStep
<1> QED BY <1>3, <1>4, <1>5, <1>6, <1>7, <1>8 DEF Next

\* Who runs and who has won.
Peace == TypeInv /\ HashInv /\ Exclusive /\ NetInv

LEMMA OfRuns ==
  ASSUME TypeInv, NEW j \in Job, NEW w \in Of(j) PROVE w \in Worker /\ ~At(w, "idle")
<1>1. w \in Worker /\ worker[w].job = j
  BY DEF Of
<1>2. At(w, "idle") => worker[w].job = None
  BY <1>1, RunTypes DEF RunShape, At, Resting
<1> QED BY <1>1, <1>2, QueueAssumption

LEMMA SoleRun ==
  ASSUME TypeInv, Exclusive, NEW v \in Worker, NEW w \in Worker, ~At(v, "idle"),
         worker[v].job = worker[w].job
  PROVE  v = w
<1>1. worker[v].job \in Job
  BY RunTypes
<1>2. ~At(w, "idle")
  BY <1>1, OfRuns DEF Of
<1> QED BY <1>2 DEF Exclusive

LEMMA RunEnqueued ==
  ASSUME TypeInv, Exclusive, NEW w \in Worker, ~At(w, "idle") PROVE worker[w].job \in Enqueued
<1>1. worker[w].job \in Job
  BY RunTypes
<1> QED BY <1>1 DEF Exclusive, Enqueued

\* The job of an envelope is in the run that sent it, or is completed by it.
LEMMA EnvJob ==
  ASSUME Peace, NEW h \in DOMAIN envs
  PROVE  /\ h[1] \in Enqueued
         /\ \/ job[h[1]].state = "completed" /\ job[h[1]].hash = h
            \/ /\ job[h[1]].state = "active" /\ job[h[1]].holder \in Worker
               /\ worker[job[h[1]].holder].hash = h
               /\ worker[job[h[1]].holder].pc \in {"poll", "record", "done"}
<1>1. h[1] \in Job /\ Accounted(h) /\ envs[h].status # "failed"
  BY EnvTypes DEF Peace, Exclusive, NetInv
<1>2. CASE \E w \in Worker : worker[w].hash = h /\ worker[w].pc \in {"poll", "record", "done"}
  <2>1. PICK w \in Worker : worker[w].hash = h /\ worker[w].pc \in {"poll", "record", "done"}
    BY <1>2
  <2>2. ~At(w, "idle")
    BY <2>1 DEF At
  <2>3. worker[w].job = h[1]
    BY <2>1, <2>2, RunTypes DEF Peace
  <2>4. job[h[1]].state = "active" /\ job[h[1]].holder = w
    BY <2>2, <2>3 DEF Peace, Exclusive
  <2> QED BY <1>1, <2>1, <2>4 DEF Enqueued
<1>3. CASE job[h[1]].state = "completed" /\ job[h[1]].hash = h
  BY <1>1, <1>3 DEF Enqueued
<1> QED BY <1>1, <1>2, <1>3 DEF Accounted

LEMMA OneEnv ==
  ASSUME Peace, NEW g \in DOMAIN envs, NEW h \in DOMAIN envs, g[1] = h[1] PROVE g = h
BY EnvJob

LEMMA NotWon ==
  ASSUME Peace, NEW w \in Worker, worker[w].pc \in Unsent PROVE ~Won(worker[w].job)
<1> SUFFICES ASSUME NEW h \in DOMAIN envs, h[1] = worker[w].job PROVE FALSE
  BY DEF Won
<1>1. ~At(w, "idle") /\ worker[w].pc \notin {"poll", "record", "done"}
  BY UnsentLabels DEF At, Sent
<1>2. job[h[1]].state = "active" /\ job[h[1]].holder = w
  BY <1>1 DEF Peace, Exclusive
<1> QED BY <1>1, <1>2, EnvJob

LEMMA SecuredJob ==
  ASSUME Peace, NEW j \in Job, Secured(j) PROVE j \in Enqueued
<1>1. CASE Won(j)
  BY <1>1, EnvJob DEF Won
<1>2. ASSUME NEW w \in Worker, worker[w].job = j, InFront(w) PROVE j \in Enqueued
  BY <1>2, RunEnqueued DEF Peace, InFront, At
<1> QED BY <1>1, <1>2 DEF Secured

LEMMA TwoJobs ==
  ASSUME Calm, NEW i \in Enqueued, NEW j \in Enqueued, NEW k \in Enqueued, i # j, k # j
  PROVE  i = k
BY DEF Calm

\* When the other job has been executed, nothing is in flight.
LEMMA NoRival ==
  ASSUME Peace, Calm, NEW j \in Enqueued, ~Won(j), OtherApplied(j) PROVE Pending = {}
<1> SUFFICES ASSUME NEW h \in DOMAIN envs, envs[h].status = "pending" PROVE FALSE
  BY DEF Pending
<1>1. PICK g \in DOMAIN envs : g[1] # j /\ envs[g].status = "applied"
  BY DEF OtherApplied
<1>2. h[1] # j
  BY DEF Won
<1>3. g[1] \in Enqueued /\ h[1] \in Enqueued
  BY EnvJob
<1>4. g[1] = h[1]
  BY <1>1, <1>2, <1>3, TwoJobs
<1>5. g = h
  BY <1>4, OneEnv
<1> QED BY <1>1, <1>5

\* When the other job has secured a number, no run but the job's own caches one.
LEMMA NoStore ==
  ASSUME Peace, Calm, NEW j \in Enqueued, OtherSecured(j), NEW v \in Worker, At(v, "store")
  PROVE  worker[v].job = j
<1> SUFFICES ASSUME worker[v].job # j PROVE FALSE
  OBVIOUS
<1>1. PICK k \in Job : k # j /\ Secured(k)
  BY DEF OtherSecured
<1>2. ~At(v, "idle") /\ worker[v].pc \in Unsent
  BY UnsentLabels DEF At
<1>3. worker[v].job \in Enqueued /\ k \in Enqueued
  BY <1>1, <1>2, RunEnqueued, SecuredJob DEF Peace
<1>4. k = worker[v].job
  BY <1>1, <1>3, TwoJobs
<1>5. ~Won(k)
  BY <1>2, <1>4, NotWon
<1>6. PICK u \in Worker : worker[u].job = k /\ At(u, "send")
  BY <1>1, <1>5 DEF Secured, InFront
<1>7. u = v
  BY <1>2, <1>4, <1>6, SoleRun DEF Peace
<1> QED BY <1>6, <1>7 DEF At
-----------------------------------------------------------------------------
LEMMA WorkerRace ==
  ASSUME RaceStep, NEW v \in Worker
  PROVE  \/ worker'[v] = worker[v]
         \/ \E j \in Job : Begins(v, j)
         \/ Walks(v) \/ Submits(v) \/ Misses(v) \/ Quits(v) \/ Confirms(v) \/ Ends(v)
<1> DEFINE Acts(w) == \/ \E j \in Job : Begins(w, j)
                      \/ Walks(w) \/ Submits(w) \/ Misses(w) \/ Quits(w) \/ Confirms(w) \/ Ends(w)
<1>1. CASE Idles \/ \E h \in DOMAIN envs : Lands(h)
  BY <1>1 DEF Idles, Lands
<1>2. ASSUME NEW w \in Worker, Acts(w) PROVE worker'[v] = worker[v] \/ Acts(v)
  <2>1. Alone(w)
    BY <1>2 DEF Begins, Walks, Submits, Misses, Quits, Confirms, Ends
  <2>2. CASE v = w
    BY <1>2, <2>2
  <2>3. CASE v # w
    BY <2>1, <2>3 DEF Alone
  <2> QED BY <2>2, <2>3
<1> QED BY <1>1, <1>2 DEF RaceStep

LEMMA ChainRace ==
  ASSUME RaceStep
  PROVE  \/ UNCHANGED <<account, envs>>
         \/ \E h \in DOMAIN envs : Lands(h)
         \/ \E w \in Worker : Submits(w)
BY DEF RaceStep, Idles, Begins, Walks, Misses, Quits, Confirms, Ends, Shared

\* What only grows.
LEMMA RaceGrows ==
  ASSUME Peace, RaceStep
  PROVE  /\ account \in Nat /\ account' \in Nat /\ account <= account'
         /\ DOMAIN envs \subseteq DOMAIN envs'
         /\ \A h \in DOMAIN envs : envs[h].status = "applied" => envs'[h].status = "applied"
         /\ \A j : Won(j) => Won(j)'
         /\ \A j : OtherApplied(j) => OtherApplied(j)'
<1>1. account \in Nat
  BY EnvTypes DEF Peace
<1>2. /\ account' \in Nat /\ account <= account' /\ DOMAIN envs \subseteq DOMAIN envs'
      /\ \A h \in DOMAIN envs : envs[h].status = "applied" => envs'[h].status = "applied"
  <2>1. CASE UNCHANGED <<account, envs>>
    BY <1>1, <2>1
  <2>2. CASE \E h \in DOMAIN envs : Lands(h)
    BY <1>1, <2>2 DEF Lands
  <2>3. CASE \E w \in Worker : Submits(w)
    BY <1>1, <2>3 DEF Submits
  <2> QED BY <2>1, <2>2, <2>3, ChainRace
<1>3. \A j : Won(j) => Won(j)'
  BY <1>2 DEF Won
<1>4. \A j : OtherApplied(j) => OtherApplied(j)'
  BY <1>2 DEF OtherApplied
<1> QED BY <1>1, <1>2, <1>3, <1>4

LEMMA NetNext == ASSUME Peace, RaceStep PROVE NetInv'
<1>1. NetInv /\ account \in Nat
  BY EnvTypes DEF Peace
<1>2. CASE UNCHANGED <<account, envs>>
  BY <1>1, <1>2 DEF NetInv, Pending
<1>3. ASSUME NEW h \in DOMAIN envs, Lands(h) PROVE NetInv'
  <2>1. Pending' = {}
    BY <1>1, <1>3 DEF Lands, NetInv, Pending
  <2>2. \A g \in DOMAIN envs' : envs'[g].status # "failed"
    BY <1>1, <1>3 DEF Lands, NetInv
  <2>3. \E g \in DOMAIN envs' : envs'[g].status = "applied"
    BY <1>3 DEF Lands
  <2> QED BY <2>1, <2>2, <2>3 DEF NetInv
<1>4. ASSUME NEW w \in Worker, Submits(w), Pending = {} PROVE NetInv'
  <2> DEFINE h == worker[w].hash
  <2>1. /\ DOMAIN envs' = DOMAIN envs \cup {h} /\ envs'[h].status = "pending"
        /\ envs'[h].seq = account + 1 /\ \A g \in DOMAIN envs : envs'[g] = envs[g]
        /\ account' = account
    BY <1>4 DEF Submits
  <2> HIDE DEF h
  <2>2. \A g \in Pending' : g = h
    BY <1>4, <2>1 DEF Pending
  <2> QED BY <1>1, <2>1, <2>2 DEF NetInv
<1>5. ASSUME NEW w \in Worker, Submits(w), Pending # {} PROVE UNCHANGED <<account, envs>>
  BY <1>5 DEF Submits
<1> QED BY <1>2, <1>3, <1>4, <1>5, ChainRace

LEMMA PathNext == ASSUME Peace, RaceStep, PathInv PROVE PathInv'
<1> SUFFICES ASSUME NEW v \in Worker
             PROVE  /\ worker'[v].pc \in {"load", "cache", "store"} => worker'[v].list = <<>>
                    /\ worker'[v].pc = "cache" => worker'[v].seq <= account'
  BY DEF PathInv, At
<1>1. /\ worker[v].pc \in {"load", "cache", "store"} => worker[v].list = <<>>
      /\ worker[v].pc = "cache" => worker[v].seq <= account
      /\ worker[v].seq \in Nat
  BY RunTypes DEF PathInv, At, Peace, WorkerState
<1>2. account \in Nat /\ account' \in Nat /\ account <= account'
  BY RaceGrows
<1>3. CASE worker'[v] = worker[v]
  BY <1>1, <1>2, <1>3
<1>4. CASE Walks(v)
  BY <1>1, <1>2, <1>4 DEF Walks, Walk
<1>5. CASE Submits(v) \/ Misses(v) \/ Confirms(v)
  BY <1>5 DEF Submits, Misses, Confirms
<1>6. CASE Quits(v) \/ Ends(v) \/ \E j \in Job : Begins(v, j)
  BY <1>6 DEF Quits, Ends, Begins, Resting
<1> QED BY <1>3, <1>4, <1>5, <1>6, WorkerRace

LEMMA WaitNext == ASSUME Peace, RaceStep, WaitInv PROVE WaitInv'
<1> SUFFICES ASSUME NEW v \in Worker, worker'[v].pc = "poll", worker'[v].hash \notin DOMAIN envs'
             PROVE  \E h \in worker'[v].held : h \in DOMAIN envs' /\ h[1] # worker'[v].job
  BY DEF WaitInv, At
<1>1. DOMAIN envs \subseteq DOMAIN envs'
  BY RaceGrows
<1>2. CASE worker'[v] = worker[v]
  BY <1>1, <1>2 DEF WaitInv, At
<1>3. CASE Submits(v)
  <2>1. /\ worker'[v].held = Pending' /\ worker'[v].job = worker[v].job
        /\ worker'[v].hash = worker[v].hash /\ worker[v].pc = "send"
    BY <1>3 DEF Submits, Lifts, At
  <2>2. Pending # {} /\ UNCHANGED envs
    BY <1>3, <2>1 DEF Submits
  <2>3. PICK h \in Pending : h \in Pending' /\ h \in DOMAIN envs
    BY <2>2 DEF Pending
  <2>4. h[1] # worker[v].job
    BY <2>1, <2>3, NotWon, UnsentLabels DEF Won
  <2> QED BY <1>1, <2>1, <2>3, <2>4
<1>4. CASE Walks(v)
  BY <1>4 DEF Walks, Walk
<1>5. CASE Misses(v) \/ Confirms(v)
  BY <1>5 DEF Misses, Confirms
<1>6. CASE Quits(v) \/ Ends(v) \/ \E j \in Job : Begins(v, j)
  BY <1>6 DEF Quits, Ends, Begins, Resting
<1> QED BY <1>2, <1>3, <1>4, <1>5, <1>6, WorkerRace

\* A number that a job has secured stays secured, or some envelope is on its way.
LEMMA FrontKept ==
  ASSUME Peace, RaceStep, NEW j \in Job, Secured(j) PROVE Secured(j)' \/ DOMAIN envs # {}
<1> SUFFICES ASSUME DOMAIN envs = {} PROVE Secured(j)'
  OBVIOUS
<1>1. PICK w \in Worker : worker[w].job = j /\ InFront(w)
  BY DEF Secured, Won
<1>2. worker[w].pc = "send" /\ worker[w].list = <<>> /\ worker[w].seq = account
  BY <1>1 DEF InFront, At
<1>3. account' = account
  BY ChainRace DEF Submits
<1>4. CASE worker'[w] = worker[w]
  BY <1>1, <1>2, <1>3, <1>4 DEF Secured, InFront, At
<1>5. CASE Submits(w)
  <2>1. worker[w].hash \in DOMAIN envs'
    BY <1>5 DEF Submits, Pending
  <2>2. worker[w].hash[1] = j
    BY <1>1, <1>2, RunTypes DEF Peace, At
  <2> QED BY <2>1, <2>2 DEF Secured, Won
<1>6. ~Walks(w) /\ ~Misses(w)
  BY <1>2 DEF Walks, Walk, Misses
<1>7. ~Quits(w) /\ ~Confirms(w) /\ ~Ends(w) /\ ~(\E i \in Job : Begins(w, i))
  BY <1>2 DEF Quits, Confirms, Ends, Begins, At
<1> QED BY <1>4, <1>5, <1>6, <1>7, WorkerRace

LEMMA OtherKept ==
  ASSUME Peace, RaceStep, NEW j \in Job, ~Won(j), OtherSecured(j) PROVE OtherSecured(j)'
<1>1. PICK k \in Job : k # j /\ Secured(k)
  BY DEF OtherSecured
<1>2. ASSUME NEW h \in DOMAIN envs PROVE OtherSecured(j)'
  <2>1. h[1] \in Job /\ h[1] # j /\ Won(h[1])
    BY EnvTypes DEF Won, Peace
  <2>2. PICK i \in Job : i # j /\ Won(i)
    BY <2>1
  <2>3. Won(i)'
    BY <2>2, RaceGrows
  <2> QED BY <2>2, <2>3 DEF OtherSecured, Secured
<1>3. CASE Secured(k)'
  BY <1>1, <1>3 DEF OtherSecured
<1> QED BY <1>1, <1>2, <1>3, FrontKept

LEMMA SomeKept ==
  ASSUME Peace, RaceStep, \E j \in Job : Secured(j) PROVE \E j \in Job : Secured(j)'
<1>1. PICK j \in Job : Secured(j)
  OBVIOUS
<1>2. ASSUME NEW h \in DOMAIN envs PROVE \E i \in Job : Secured(i)'
  <2>1. PICK i \in Job : Won(i)
    BY EnvTypes DEF Won, Peace
  <2>2. Won(i)'
    BY <2>1, RaceGrows
  <2> QED BY <2>2 DEF Secured
<1> QED BY <1>1, <1>2, FrontKept

\* What happens to the cached number.
LEMMA CacheRace ==
  ASSUME RaceStep
  PROVE  \/ cache' \in {cache, 0}
         \/ \E w \in Worker : /\ Walks(w) /\ At(w, "store") /\ cache' = worker[w].seq + 1
<1>1. CASE \E w \in Worker : Walks(w)
  <2>1. PICK w \in Worker : Walks(w)
    BY <1>1
  <2>2. cache' \in {cache, 0} \/ (worker[w].pc = "store" /\ cache' = worker[w].seq + 1)
    BY <2>1 DEF Walks, Walk
  <2> QED BY <2>1, <2>2 DEF At
<1> QED BY <1>1 DEF RaceStep, Idles, Lands, Begins, Submits, Misses, Quits, Confirms, Ends, Shared

LEMMA CacheNext ==
  ASSUME Peace, RaceStep, PathInv, AheadInv, CacheInv PROVE CacheInv'
<1> SUFFICES ASSUME cache' > account' PROVE \E j \in Job : Secured(j)'
  BY DEF CacheInv
<1>1. account \in Nat /\ account' \in Nat /\ account <= account'
  BY RaceGrows
<1>2. CASE cache' = cache
  <2>1. cache \in Nat
    BY TypeParts DEF Peace, SharedOK
  <2>2. cache > account
    BY <1>1, <1>2, <2>1
  <2> QED BY <2>2, SomeKept DEF CacheInv
<1>3. CASE cache' = 0
  BY <1>1, <1>3
<1>4. ASSUME NEW w \in Worker, Walks(w), At(w, "store"), cache' = worker[w].seq + 1
      PROVE  \E j \in Job : Secured(j)'
  <2>1. /\ worker'[w].pc = "send" /\ worker'[w].list = worker[w].list
        /\ worker'[w].seq = worker[w].seq /\ worker'[w].job = worker[w].job /\ account' = account
    BY <1>4 DEF Walks, Walk, At, Lifts
  <2>2. /\ worker[w].list = <<>> /\ worker[w].seq \in Nat /\ worker[w].job \in Job
        /\ worker[w].pc = "store"
    BY <1>4, RunTypes DEF PathInv, Peace, WorkerState, At
  <2>3. CASE worker[w].seq = account
    <3>1. InFront(w)'
      BY <2>1, <2>2, <2>3 DEF InFront, At
    <3> QED BY <2>1, <2>2, <3>1 DEF Secured
  <2>4. CASE worker[w].seq > account
    <3>1. Numbered(worker[w])
      BY <2>2 DEF Numbered
    <3>2. \E j \in Job : Secured(j)
      BY <2>4, <3>1 DEF AheadInv, OtherSecured
    <3> QED BY <3>2, SomeKept
  <2>5. worker[w].seq >= account
    BY <1>1, <1>4, <2>1, <2>2
  <2> QED BY <1>1, <2>2, <2>3, <2>4, <2>5
<1> QED BY <1>2, <1>3, <1>4, CacheRace

LEMMA AheadNext ==
  ASSUME Peace, RaceStep, PathInv, AheadInv, CacheInv PROVE AheadInv'
<1> SUFFICES ASSUME NEW v \in Worker, Numbered(worker'[v]), worker'[v].seq > account'
             PROVE  OtherSecured(worker[v].job)'
  <2>1. \A v \in Worker : Numbered(worker[v])' <=> Numbered(worker'[v])
    BY DEF Numbered
  <2> QED BY <2>1 DEF AheadInv
<1>1. account \in Nat /\ account' \in Nat /\ account <= account' /\ cache \in Nat
      /\ worker[v].seq \in Nat
  BY RaceGrows, TypeParts, RunTypes DEF Peace, SharedOK, WorkerState
<1>2. /\ worker'[v].job = worker[v].job /\ worker[v].pc \in {"cache", "store", "send"}
      /\ \/ Numbered(worker[v]) /\ worker[v].seq = worker'[v].seq
         \/ worker[v].pc = "cache" /\ worker'[v].seq \in {cache, worker[v].seq}
  <2>1. worker'[v].pc \in {"store", "send"} /\ worker'[v].list = <<>>
    BY DEF Numbered
  <2>2. CASE worker'[v] = worker[v]
    BY <2>1, <2>2 DEF Numbered
  <2>3. CASE Walks(v)
    BY <2>1, <2>3 DEF Walks, Walk, Lifts, Numbered
  <2>4. CASE Submits(v) \/ Misses(v) \/ Confirms(v)
    BY <2>1, <2>4 DEF Submits, Misses, Confirms
  <2>5. CASE Quits(v) \/ Ends(v) \/ \E j \in Job : Begins(v, j)
    BY <2>1, <2>5 DEF Quits, Ends, Begins, Resting
  <2> QED BY <2>2, <2>3, <2>4, <2>5, WorkerRace
<1> DEFINE j == worker[v].job
<1>3. ~Won(j) /\ j \in Job /\ ~At(v, "idle")
  BY <1>2, NotWon, UnsentLabels, RunTypes DEF Peace, At
<1>4. OtherSecured(j)
  <2>1. CASE Numbered(worker[v]) /\ worker[v].seq = worker'[v].seq
    <3>1. worker[v].seq > account
      BY <1>1, <2>1
    <3> QED BY <2>1, <3>1 DEF AheadInv
  <2>2. CASE worker[v].pc = "cache" /\ worker'[v].seq \in {cache, worker[v].seq}
    <3>1. worker[v].seq <= account
      BY <2>2 DEF PathInv, At
    <3>2. cache > account
      BY <1>1, <2>2, <3>1
    <3>3. PICK k \in Job : Secured(k)
      BY <3>2 DEF CacheInv
    <3>4. k # j
      <4> SUFFICES ASSUME k = j PROVE FALSE
        OBVIOUS
      <4>1. PICK u \in Worker : worker[u].job = j /\ At(u, "send")
        BY <1>3, <3>3 DEF Secured, InFront
      <4>2. u = v
        BY <1>3, <4>1, SoleRun DEF Peace
      <4> QED BY <2>2, <4>1, <4>2 DEF At
    <3> QED BY <3>3, <3>4 DEF OtherSecured
  <2> QED BY <1>2, <2>1, <2>2
<1>5. PICK i \in Job : i = j
  BY <1>3
<1>6. OtherSecured(i)'
  BY <1>3, <1>4, <1>5, OtherKept
<1> QED BY <1>2, <1>5, <1>6 DEF OtherSecured

\* The leases in a worker's list.
LEMMA LeasesTail ==
  ASSUME NEW s \in Seq(Block), s # <<>> PROVE Leases(Tail(s)) \subseteq Leases(s)
<1> DEFINE t == Tail(s)
           n == Len(s)
<1>1. DOMAIN s = 1..n /\ n \in Nat /\ n # 0
  OBVIOUS
<1>2. t \in Seq(Block) /\ Len(t) = n - 1
  OBVIOUS
<1>3. DOMAIN t = 1..(n - 1) /\ \A i \in 1..(n - 1) : t[i] = s[i + 1]
  BY <1>1, <1>2
<1> HIDE DEF t, n
<1>4. ASSUME NEW i \in 1..(n - 1) PROVE t[i].lease \in Leases(s)
  <2>1. i + 1 \in DOMAIN s /\ t[i] = s[i + 1]
    BY <1>1, <1>3
  <2> QED BY <2>1 DEF Leases
<1>5. Leases(t) \subseteq Leases(s)
  BY <1>3, <1>4 DEF Leases
<1> QED BY <1>5 DEF t

LEMMA LeasesEmpty == Leases(<<>>) = {}
BY DEF Leases

LEMMA ListRace ==
  ASSUME Peace, RaceStep, NEW v \in Worker
  PROVE  \/ Leases(worker'[v].list) \subseteq Leases(worker[v].list)
         \/ At(v, "blocks") /\ Leases(worker'[v].list) = Leases(blocks) /\ Lifts(v)
<1>1. CASE worker'[v] = worker[v]
  BY <1>1
<1>2. CASE Walks(v)
  <2>1. worker[v].list \in Seq(Block)
    BY RunTypes DEF Peace, WorkerState
  <2>2. \/ worker'[v].list = worker[v].list
        \/ At(v, "blocks") /\ worker'[v].list = blocks /\ Lifts(v)
        \/ worker'[v].list = Tail(worker[v].list) /\ worker[v].list # <<>>
    BY <1>2 DEF Walks, Walk, At
  <2> QED BY <2>1, <2>2, LeasesTail
<1>3. CASE Submits(v) \/ Misses(v)
  BY <1>3, LeasesEmpty DEF Submits, Misses
<1>4. CASE Confirms(v)
  BY <1>4 DEF Confirms
<1>5. CASE Quits(v) \/ Ends(v) \/ \E j \in Job : Begins(v, j)
  <2>1. worker'[v].list = <<>>
    BY <1>5 DEF Quits, Ends, Begins, Resting
  <2> QED BY <2>1, LeasesEmpty
<1> QED BY <1>1, <1>2, <1>3, <1>4, <1>5, WorkerRace

LEMMA LeaseRace ==
  ASSUME RaceStep
  PROVE  \/ LeaseMoves /\ UNCHANGED worker
         \/ UNCHANGED <<admin, events, blocks>>
         \/ /\ UNCHANGED <<admin, events>> /\ blocks' = <<>>
            /\ \E w \in Worker : Walks(w) /\ At(w, "clearBlocks")
<1>1. CASE \E w \in Worker : Walks(w)
  <2>1. PICK w \in Worker : Walks(w)
    BY <1>1
  <2>2. blocks' = blocks \/ (worker[w].pc = "clearBlocks" /\ blocks' = <<>>)
    BY <2>1 DEF Walks, Walk
  <2> QED BY <2>1, <2>2 DEF At, Walks
<1> QED BY <1>1 DEF RaceStep, Idles, Lands, Begins, Submits, Misses, Quits, Confirms, Ends, Shared

LEMMA LeaseNext == ASSUME Peace, RaceStep, LeaseInv PROVE LeaseInv'
<1>1. CASE LeaseMoves /\ UNCHANGED worker
  <2>1. CASE /\ UNCHANGED <<blocks, events>>
             /\ \A a \in Admin : Asking(a)' => Asking(a) /\ admin'[a].lease = admin[a].lease
    BY <1>1, <2>1 DEF LeaseInv
  <2>2. ASSUME NEW a \in Admin, NEW l \in Lease \ events,
               UNCHANGED blocks, events' = events \cup {l}, admin'[a].lease = l,
               \A b \in Admin : b # a => admin'[b] = admin[b]
        PROVE  LeaseInv'
    <3>1. \A b \in Admin : b # a => (Asking(b)' <=> Asking(b)) /\ admin'[b].lease = admin[b].lease
      BY <2>2 DEF Asking
    <3>2. \A b \in Admin : b # a /\ Asking(b)' => admin'[b].lease # l
      BY <2>2, <3>1 DEF LeaseInv
    <3> QED BY <1>1, <2>2, <3>1, <3>2 DEF LeaseInv
  <2>3. ASSUME NEW a \in Admin, UNCHANGED events,
               Leases(blocks') = Leases(blocks) \cup {admin[a].lease}, Asking(a), ~Asking(a)',
               \A b \in Admin : b # a => admin'[b] = admin[b]
        PROVE  LeaseInv'
    <3>1. \A b \in Admin : Asking(b)' => b # a /\ Asking(b) /\ admin'[b].lease = admin[b].lease
      BY <2>3 DEF Asking
    <3>2. Leases(blocks') \subseteq events'
      BY <2>3 DEF LeaseInv
    <3>3. \A b \in Admin : Asking(b)' => admin'[b].lease \notin Leases(blocks')
      BY <2>3, <3>1 DEF LeaseInv
    <3>4. Leases(blocks)' = Leases(blocks')
      BY DEF Leases
    <3> QED BY <1>1, <2>3, <3>1, <3>2, <3>3, <3>4 DEF LeaseInv
  <2> QED BY <1>1, <2>1, <2>2, <2>3 DEF LeaseMoves
<1>2. CASE UNCHANGED <<admin, events>> /\ blocks' \in {blocks, <<>>}
  <2>1. Leases(blocks') \subseteq Leases(blocks) /\ Leases(blocks)' = Leases(blocks')
    BY <1>2, LeasesEmpty DEF Leases
  <2>2. \A v \in Worker : Leases(worker'[v].list) \subseteq Leases(worker[v].list) \cup Leases(blocks)
    BY ListRace
  <2>3. \A v \in Worker : Leases(worker[v].list)' = Leases(worker'[v].list)
    BY DEF Leases
  <2>4. \A a \in Admin : Asking(a)' <=> Asking(a)
    BY <1>2 DEF Asking
  <2> QED BY <1>2, <2>1, <2>2, <2>3, <2>4 DEF LeaseInv
<1> QED BY <1>1, <1>2, LeaseRace

LEMMA AttemptNext ==
  ASSUME TypeInv, AttemptInv, \A j \in Job : JobRace(j) PROVE AttemptInv'
<1> SUFFICES ASSUME NEW j \in Job
             PROVE  /\ j \notin Enqueued' => job'[j].attempts = 0
                    /\ job'[j].state = "exhausted" => job'[j].attempts >= MaxAttempts
  BY DEF AttemptInv
<1>1. /\ j \notin Enqueued => job[j].attempts = 0
      /\ job[j].state = "exhausted" => job[j].attempts >= MaxAttempts
  BY DEF AttemptInv
<1> QED BY <1>1 DEF JobRace, Enqueued

\* The runs of a job before and after a step.
LEMMA OfRace ==
  ASSUME Peace, RaceStep, NEW j \in Job, NEW v \in Worker, worker'[v].job = j
  PROVE  \/ v \in Of(j) /\ worker'[v] = worker[v]
         \/ v \in Of(j) /\ Lifts(v) /\ (Walks(v) \/ Submits(v) \/ Misses(v) \/ Confirms(v))
         \/ Begins(v, j)
<1>1. CASE worker'[v] = worker[v]
  BY <1>1 DEF Of
<1>2. CASE Walks(v) \/ Submits(v) \/ Misses(v) \/ Confirms(v)
  BY <1>2 DEF Walks, Submits, Misses, Confirms, Lifts, Of
<1>3. CASE \E i \in Job : Begins(v, i)
  BY <1>3 DEF Begins
<1>4. ~Quits(v) /\ ~Ends(v)
  BY QueueAssumption DEF Quits, Ends, Resting
<1> QED BY <1>1, <1>2, <1>3, <1>4, WorkerRace

\* A worker that acts for a job is the only one that runs it.
LEMMA OnlyRun ==
  ASSUME Peace, NEW j \in Job, NEW w \in Of(j), Alone(w), NEW v \in Worker, worker'[v].job = j
  PROVE  v = w
<1>1. w \in Worker /\ worker[w].job = j /\ ~At(w, "idle")
  BY OfRuns DEF Of, Peace
<1> SUFFICES ASSUME v # w PROVE FALSE
  OBVIOUS
<1>2. worker[v].job = worker[w].job
  BY <1>1 DEF Alone
<1> QED BY <1>1, <1>2, SoleRun DEF Peace

\* A chance to lose an attempt to a block does not come back ...
LEMMA LeaseShuts ==
  ASSUME Peace, RaceStep, LeaseInv, NEW j \in Job, NEW l \in Lease, ~LeaseOpen(j, l)
  PROVE  ~LeaseOpen(j, l)'
<1>1. /\ l \in events /\ \A a \in Admin : Asking(a) => admin[a].lease # l
      /\ \A w \in Of(j) : l \notin Leases(worker[w].list)
      /\ l \in Leases(blocks) =>
           \E w \in Of(j) : worker[w].pc \in {"clearCache", "clearBlocks"}
  BY DEF LeaseOpen
<1>2. /\ l \in events' /\ (l \in Leases(blocks') => l \in Leases(blocks))
      /\ \A a \in Admin : Asking(a)' => admin'[a].lease # l
  <2>1. CASE LeaseMoves
    <3>1. CASE /\ UNCHANGED <<blocks, events>>
               /\ \A a \in Admin : Asking(a)' => Asking(a) /\ admin'[a].lease = admin[a].lease
      BY <1>1, <3>1
    <3>2. ASSUME NEW a \in Admin, NEW m \in Lease \ events,
                 UNCHANGED blocks, events' = events \cup {m}, admin'[a].lease = m,
                 \A b \in Admin : b # a => admin'[b] = admin[b]
          PROVE  /\ l \in events' /\ (l \in Leases(blocks') => l \in Leases(blocks))
                 /\ \A b \in Admin : Asking(b)' => admin'[b].lease # l
      BY <1>1, <3>2 DEF Asking
    <3>3. ASSUME NEW a \in Admin, UNCHANGED events,
                 Leases(blocks') = Leases(blocks) \cup {admin[a].lease}, Asking(a), ~Asking(a)',
                 \A b \in Admin : b # a => admin'[b] = admin[b]
          PROVE  /\ l \in events' /\ (l \in Leases(blocks') => l \in Leases(blocks))
                 /\ \A b \in Admin : Asking(b)' => admin'[b].lease # l
      BY <1>1, <3>3 DEF Asking
    <3> QED BY <2>1, <3>1, <3>2, <3>3 DEF LeaseMoves
  <2>2. CASE UNCHANGED <<admin, events>> /\ blocks' \in {blocks, <<>>}
    BY <1>1, <2>2, LeasesEmpty DEF Asking
  <2> QED BY <2>1, <2>2, LeaseRace
<1>3. ASSUME NEW v \in Worker, worker'[v].job = j PROVE l \notin Leases(worker'[v].list)
  <2>1. CASE v \in Of(j)
    <3>1. ~At(v, "idle") /\ worker[v].job = j
      BY <2>1, OfRuns DEF Peace, Of
    <3>2. CASE At(v, "blocks") /\ Leases(worker'[v].list) = Leases(blocks)
      <4> SUFFICES ASSUME l \in Leases(blocks) PROVE FALSE
        BY <3>2
      <4>1. PICK w \in Of(j) : worker[w].pc \in {"clearCache", "clearBlocks"}
        BY <1>1
      <4>2. v = w
        BY <3>1, <4>1, SoleRun DEF Of, Peace
      <4> QED BY <3>2, <4>1, <4>2 DEF At
    <3> QED BY <1>1, <2>1, <3>2, ListRace
  <2>2. CASE Begins(v, j)
    BY <2>2, LeasesEmpty DEF Begins
  <2> QED BY <1>3, <2>1, <2>2, OfRace
<1>4. ASSUME l \in Leases(blocks')
      PROVE  \E w \in Worker : worker'[w].job = j /\ worker'[w].pc \in {"clearCache", "clearBlocks"}
  <2>1. PICK w \in Of(j) : worker[w].pc \in {"clearCache", "clearBlocks"}
    BY <1>1, <1>2, <1>4
  <2>2. w \in Worker /\ worker[w].job = j
    BY <2>1 DEF Of
  <2>3. CASE worker'[w] = worker[w]
    BY <2>1, <2>2, <2>3
  <2>4. CASE Walks(w)
    <3>1. worker'[w].job = j /\ (worker'[w].pc = "clearBlocks" \/ blocks' = <<>>)
      BY <2>1, <2>2, <2>4 DEF Walks, Walk, Lifts
    <3> QED BY <1>4, <2>2, <3>1, LeasesEmpty
  <2>5. ~Submits(w) /\ ~Misses(w) /\ ~Quits(w) /\ ~Confirms(w) /\ ~Ends(w)
        /\ ~(\E i \in Job : Begins(w, i))
    BY <2>1 DEF Submits, Misses, Quits, Confirms, Ends, Begins, At
  <2> QED BY <2>2, <2>3, <2>4, <2>5, WorkerRace
<1>5. /\ Leases(blocks)' = Leases(blocks')
      /\ \A v \in Worker : Leases(worker[v].list)' = Leases(worker'[v].list)
  BY DEF Leases
<1> QED BY <1>2, <1>3, <1>4, <1>5 DEF LeaseOpen, Of

\* ... nor one to a number that has been used ...
LEMMA LowShuts ==
  ASSUME Peace, Calm, RaceStep, PathInv, NEW j \in Enqueued, ~Won(j), ~LowOpen(j)
  PROVE  ~LowOpen(j)'
<1>1. OtherApplied(j) /\ \A w \in Of(j) : ~Behind(w)
  BY DEF LowOpen
<1>2. OtherApplied(j)' /\ DOMAIN envs \subseteq DOMAIN envs' /\ account \in Nat
  BY <1>1, RaceGrows
<1>3. Pending = {}
  BY <1>1, NoRival
<1>4. account' = account
  BY <1>3, ChainRace DEF Lands, Submits
<1>5. j \in Job
  BY DEF Enqueued
<1>6. ASSUME NEW v \in Worker, worker'[v].job = j PROVE ~Behind(v)'
  <2>1. CASE v \in Of(j) /\ worker'[v] = worker[v]
    <3>1. ~Behind(v)
      BY <1>1, <2>1
    <3> QED BY <1>2, <1>4, <2>1, <3>1 DEF Behind, At
  <2>2. CASE v \in Of(j) /\ Walks(v)
    <3>1. /\ worker[v].pc \in {"cache", "store"} => worker[v].list = <<>> /\ worker[v].seq >= account
          /\ worker[v].seq \in Nat /\ cache \in Nat
      <4>1. ~Behind(v) /\ worker[v].seq \in Nat /\ cache \in Nat
        BY <1>1, <2>2, RunTypes, TypeParts DEF Peace, WorkerState, SharedOK
      <4> QED BY <1>2, <4>1 DEF Behind, PathInv, At
    <3>2. worker'[v].pc # "poll" /\ (worker'[v].pc \in {"cache", "store", "send"}
            => worker'[v].list # <<>> \/ worker'[v].seq >= account)
      BY <1>2, <2>2, <3>1 DEF Walks, Walk
    <3>3. worker'[v].pc \in {"cache", "store", "send"} /\ worker'[v].list = <<>>
            => ~(worker'[v].seq < account)
      <4>1. worker'[v].pc \in {"cache", "store", "send"} /\ worker'[v].list = <<>>
              => worker'[v].seq \in Nat
        BY <1>2, <2>2, <3>1 DEF Walks, Walk
      <4> QED BY <1>2, <3>2, <4>1
    <3> QED BY <1>4, <3>2, <3>3 DEF Behind, At
  <2>3. CASE Submits(v)
    BY <1>3, <2>3 DEF Submits, Lifts, Behind, At
  <2>4. CASE Misses(v) \/ Confirms(v) \/ Begins(v, j)
    BY <2>4 DEF Misses, Confirms, Begins, Behind, At
  <2> QED BY <1>5, <1>6, <2>1, <2>2, <2>3, <2>4, OfRace
<1> QED BY <1>2, <1>6 DEF LowOpen, Of

\* ... nor one to a number ahead of the ledger, but for a job that has lost nothing yet.
LEMMA FirstRun ==
  ASSUME Peace, NEW j \in Job, NEW w \in Worker, Begins(w, j), NEW v \in Worker,
         worker'[v].job = j
  PROVE  v = w
<1> SUFFICES ASSUME v # w PROVE FALSE
  OBVIOUS
<1>1. v \in Of(j) /\ job[j].state = "waiting"
  BY DEF Begins, Alone, Of
<1>2. ~At(v, "idle")
  BY <1>1, OfRuns DEF Peace
<1> QED BY <1>1, <1>2 DEF Peace, Exclusive, Of

LEMMA HighShuts ==
  ASSUME Peace, Calm, RaceStep, PathInv, NEW j \in Enqueued, ~Won(j), ~HighOpen(j),
         Losses(j)' # 0
  PROVE  ~HighOpen(j)'
<1>1. OtherSecured(j) /\ \A w \in Of(j) : ~Ahead(w)
  BY DEF HighOpen
<1>2. j \in Job
  BY DEF Enqueued
<1>3. OtherSecured(j)'
  BY <1>1, <1>2, OtherKept
<1>4. account \in Nat /\ account' \in Nat /\ account <= account' /\ cache \in Nat
  BY RaceGrows, TypeParts DEF Peace, SharedOK
<1>5. ASSUME NEW v \in Worker, worker[v].job = j, ~At(v, "store") PROVE cache' \in {cache, 0}
  <2> SUFFICES ASSUME NEW u \in Worker, At(u, "store") PROVE FALSE
    BY CacheRace
  <2>1. worker[u].job = j /\ ~At(u, "idle")
    BY <1>1, NoStore DEF At
  <2> QED BY <1>5, <2>1, SoleRun DEF Peace
<1>6. ASSUME NEW v \in Worker, worker'[v].job = j PROVE ~Ahead(v)'
  <2>1. CASE v \in Of(j) /\ worker'[v] = worker[v]
    <3>1. ~Ahead(v) /\ worker[v].job = j /\ worker[v].seq \in Nat
      BY <1>1, <2>1, RunTypes DEF Of, Peace, WorkerState
    <3>2. CASE worker[v].pc \in PreRead /\ worker[v].after = "blocks"
      <4>1. ~At(v, "store") /\ ~Numbered(worker'[v])
        BY <2>1, <3>2 DEF PreRead, At, Numbered
      <4>2. cache' \in {cache, 0}
        BY <1>5, <3>1, <4>1
      <4>3. ~(cache' > account')
        BY <1>4, <3>1, <3>2, <4>2 DEF Ahead
      <4> QED BY <4>1, <4>3 DEF Ahead, Numbered
    <3>3. CASE ~(worker[v].pc \in PreRead /\ worker[v].after = "blocks")
      <4>1. Numbered(worker[v]) => ~(worker[v].seq > account')
        BY <1>4, <3>1 DEF Ahead
      <4> QED BY <2>1, <3>3, <4>1 DEF Ahead, Numbered
    <3> QED BY <3>2, <3>3
  <2>2. CASE v \in Of(j) /\ Walks(v)
    <3>1. ~Ahead(v) /\ worker[v].job = j /\ worker[v].seq \in Nat /\ account' = account
          /\ worker'[v].after = worker[v].after
      BY <1>1, <2>2, RunTypes DEF Of, Peace, WorkerState, Walks
    <3>2. Walk(v, worker[v], worker'[v])
      BY <2>2 DEF Walks
    <3>3. CASE worker'[v].pc \in PreRead
      <4>1. CASE worker[v].pc = "clearCache"
        <5>1. cache' = 0 /\ ~Numbered(worker'[v])
          BY <3>2, <3>3, <4>1 DEF Walk, PreRead, Numbered
        <5> QED BY <1>4, <5>1 DEF Ahead, Numbered
      <4>2. CASE worker[v].pc # "clearCache"
        <5>1. worker[v].pc \in PreRead /\ ~Numbered(worker'[v]) /\ ~At(v, "store")
          BY <3>2, <3>3, <4>2 DEF Walk, PreRead, Numbered, At
        <5>2. cache' \in {cache, 0}
          BY <1>5, <3>1, <5>1
        <5>3. worker[v].after = "blocks" => ~(cache' > account')
          BY <1>4, <3>1, <5>1, <5>2 DEF Ahead
        <5> QED BY <3>1, <5>1, <5>3 DEF Ahead, Numbered
      <4> QED BY <4>1, <4>2
    <3>4. CASE worker'[v].pc \notin PreRead
      <4>1. worker[v].pc = "store" => worker[v].list = <<>> /\ Numbered(worker[v])
        BY DEF PathInv, Numbered
      <4>2. worker[v].pc = "cache" => worker[v].seq <= account /\ worker[v].after = "blocks"
        BY AfterReset, UnsentLabels DEF PathInv, At, Peace, Unsent, Clearing
      <4>3. worker[v].pc = "cache" => ~(cache > account)
        BY <3>1, <4>2 DEF Ahead, PreRead
      <4>4. Numbered(worker'[v]) => /\ worker[v].pc \in {"cache", "store"}
                                    /\ worker[v].pc = "store" => worker'[v].seq = worker[v].seq
                                    /\ worker[v].pc = "cache" =>
                                         worker'[v].seq \in {cache, worker[v].seq}
        BY <3>2 DEF Walk, Numbered
      <4>5. Numbered(worker'[v]) => ~(worker'[v].seq > account)
        BY <1>4, <3>1, <4>1, <4>2, <4>3, <4>4 DEF Ahead
      <4> QED BY <3>1, <3>4, <4>5 DEF Ahead, Numbered
    <3> QED BY <3>3, <3>4
  <2>3. CASE Submits(v) \/ Misses(v) \/ Confirms(v)
    BY <2>3 DEF Submits, Misses, Confirms, Ahead, Numbered, PreRead
  <2>4. CASE Begins(v, j)
    <3>1. CASE job[j].attempts > 0
      BY <2>4, <3>1 DEF Begins, Ahead, Numbered, PreRead
    <3>2. CASE ~(job[j].attempts > 0)
      <4>1. job'[j].attempts = 0
        BY <1>2, <2>4, <3>2, JobTypes DEF Begins, Steady, Peace
      <4>2. \A u \in Worker : worker'[u].job = j => worker'[u].after # "retry"
        BY <1>2, <2>4, FirstRun DEF Begins
      <4>3. Losses(j)' = 0
        BY <4>1, <4>2 DEF Losses, One, InDebt, Of
      <4> QED BY <4>3
    <3> QED BY <3>1, <3>2
  <2> QED BY <1>2, <1>6, <2>1, <2>2, <2>3, <2>4, OfRace
<1> QED BY <1>3, <1>6 DEF HighOpen, Of

\* An attempt is lost, and a chance to lose another one with it.
Shut(j) ==
  \/ \E l \in Lease : LeaseOpen(j, l) /\ ~LeaseOpen(j, l)'
  \/ LowOpen(j) /\ ~LowOpen(j)'
  \/ HighOpen(j) /\ ~HighOpen(j)'

LEMMA MissShuts ==
  ASSUME Peace, RaceStep, AheadInv, LeaseInv, NEW j \in Job, ~Won(j), NEW w \in Of(j), Misses(w)
  PROVE  Shut(j)
<1>1. /\ w \in Worker /\ worker[w].job = j /\ worker[w].pc = "send" /\ worker[w].seq # account
      /\ worker'[w].pc = "clearCache" /\ worker'[w].list = <<>> /\ worker'[w].after = "retry"
      /\ worker'[w].job = j /\ Alone(w) /\ UNCHANGED Shared
  BY DEF Of, Misses, At, Lifts
<1>2. \A v \in Worker : worker'[v].job = j => v = w
  BY <1>1, OnlyRun
<1>3. worker[w] \in WorkerState /\ worker[w].seq \in Nat /\ account \in Nat
      /\ worker[w].list \in Seq(Block)
  BY <1>1, RunTypes, EnvTypes DEF Peace, WorkerState
<1>4. CASE worker[w].list # <<>>
  <2> DEFINE l == worker[w].list[1].lease
             q == worker[w].list
  <2>1. 1 \in DOMAIN q /\ q[1] \in Block
    <3> HIDE DEF q
    <3>1. q \in Seq(Block) /\ q # <<>>
      BY <1>3, <1>4 DEF q
    <3> QED BY <3>1
  <2>2. l \in Leases(worker[w].list) /\ l \in Lease
    BY <2>1 DEF Leases, Block
  <2> HIDE DEF l
  <2>3. LeaseOpen(j, l)
    BY <2>2 DEF LeaseOpen
  <2>4. l \in events /\ \A a \in Admin : Asking(a) => admin[a].lease # l
    BY <1>1, <2>2 DEF LeaseInv
  <2>5. l \in events' /\ \A a \in Admin : Asking(a)' => admin'[a].lease # l
    BY <1>1, <2>4 DEF Shared, Asking
  <2>6. \A v \in Worker : worker'[v].job = j => l \notin Leases(worker'[v].list)
    BY <1>1, <1>2, LeasesEmpty
  <2>7. \A v \in Worker : Leases(worker[v].list)' = Leases(worker'[v].list)
    BY DEF Leases
  <2>8. PICK m \in Lease : m = l
    BY <2>2
  <2>9. ~LeaseOpen(j, m)'
    BY <1>1, <2>5, <2>6, <2>7, <2>8 DEF LeaseOpen, Of
  <2> QED BY <2>3, <2>8, <2>9 DEF Shut
<1>5. CASE worker[w].list = <<>> /\ worker[w].seq > account
  <2>1. Numbered(worker[w])
    BY <1>1, <1>5 DEF Numbered
  <2>2. HighOpen(j)
    BY <1>5, <2>1 DEF HighOpen, Ahead
  <2>3. OtherSecured(j)
    BY <1>1, <1>5, <2>1 DEF AheadInv
  <2>4. OtherSecured(j)'
    BY <2>3, OtherKept
  <2>5. \A v \in Worker : worker'[v].job = j => ~Ahead(v)'
    BY <1>1, <1>2 DEF Ahead, PreRead, Numbered
  <2>6. ~HighOpen(j)'
    BY <2>4, <2>5 DEF HighOpen, Of
  <2> QED BY <2>2, <2>6 DEF Shut
<1>6. CASE worker[w].list = <<>> /\ worker[w].seq < account
  <2>1. LowOpen(j)
    BY <1>1, <1>6 DEF LowOpen, Behind
  <2>2. PICK h \in DOMAIN envs : envs[h].status = "applied"
    BY <1>3, <1>6 DEF Peace, NetInv
  <2>3. OtherApplied(j)
    BY <2>2 DEF OtherApplied, Won
  <2>4. OtherApplied(j)'
    BY <2>3, RaceGrows
  <2>5. \A v \in Worker : worker'[v].job = j => ~Behind(v)'
    BY <1>1, <1>2 DEF Behind, At
  <2>6. ~LowOpen(j)'
    BY <2>4, <2>5 DEF LowOpen, Of
  <2> QED BY <2>1, <2>6 DEF Shut
<1> QED BY <1>1, <1>3, <1>4, <1>5, <1>6

LEMMA QuitShuts ==
  ASSUME Peace, RaceStep, WaitInv, NEW j \in Job, NEW w \in Of(j), Quits(w), At(w, "poll")
  PROVE  Shut(j)
<1>1. /\ w \in Worker /\ worker[w].job = j /\ worker[w].hash \notin DOMAIN envs
      /\ worker[w].held \cap Pending = {} /\ worker'[w] = Resting /\ Alone(w)
  BY DEF Of, Quits, At
<1>2. LowOpen(j)
  BY <1>1 DEF LowOpen, Behind
<1>3. PICK h \in worker[w].held : h \in DOMAIN envs /\ h[1] # j
  BY <1>1 DEF WaitInv
<1>4. envs[h].status = "applied"
  BY <1>1, <1>3, EnvTypes DEF Pending, Peace, NetInv, EnvState
<1>5. OtherApplied(j)
  BY <1>3, <1>4 DEF OtherApplied
<1>6. OtherApplied(j)'
  BY <1>5, RaceGrows
<1>7. worker'[w].job # j
  BY <1>1, QueueAssumption DEF Resting
<1>8. \A v \in Worker : worker'[v].job # j
  BY <1>1, <1>7, OnlyRun
<1>9. ~LowOpen(j)'
  BY <1>6, <1>8 DEF LowOpen, Of
<1> QED BY <1>2, <1>9 DEF Shut

LEMMA LossRace ==
  ASSUME Peace, RaceStep, AheadInv, LeaseInv, WaitInv, NEW j \in Job, ~Won(j)
  PROVE  /\ Losses(j) \in Nat /\ Losses(j)' \in Nat
         /\ Losses(j)' <= Losses(j) \/ (Losses(j)' <= Losses(j) + 1 /\ Shut(j))
<1> DEFINE n == job[j].attempts
           m == job'[j].attempts
<1>1. n \in Nat
  BY JobTypes DEF Peace
<1>2. /\ Losses(j) = n + (IF InDebt(j) THEN 1 ELSE 0)
      /\ Losses(j)' = m + (IF InDebt(j)' THEN 1 ELSE 0)
  BY DEF Losses, One
<1> HIDE DEF n, m
<1>3. ASSUME NEW w \in Of(j), Misses(w)
      PROVE  m = n /\ Shut(j)
  BY <1>3, MissShuts DEF Misses, Steady, n, m
<1>4. ASSUME NEW w \in Of(j), Quits(w)
      PROVE  /\ m = n + 1 /\ ~InDebt(j)'
             /\ InDebt(j) \/ Shut(j)
  <2>1. w \in Worker /\ worker[w].job = j /\ worker'[w] = Resting /\ Alone(w)
    BY <1>4 DEF Of, Quits
  <2>2. worker'[w].job # j
    BY <2>1, QueueAssumption DEF Resting
  <2>3. \A v \in Worker : worker'[v].job # j
    BY <2>1, <2>2, OnlyRun
  <2>4. m = n + 1
    BY <1>4, <2>1 DEF Quits, m, n
  <2>5. InDebt(j) \/ Shut(j)
    BY <1>4, QuitShuts DEF Quits, InDebt
  <2> QED BY <2>3, <2>4, <2>5 DEF InDebt, Of
<1>5. ASSUME \A w \in Of(j) : ~Misses(w) /\ ~Quits(w)
      PROVE  m = n /\ (InDebt(j)' => InDebt(j))
  <2>1. ASSUME NEW w \in Worker, Quits(w) PROVE m = n
    BY <1>5, <2>1 DEF Quits, Of, m, n
  <2>2. m = n
    BY <2>1 DEF RaceStep, Idles, Lands, Begins, Walks, Submits, Misses, Confirms, Ends, Steady, m, n
  <2>3. ASSUME NEW v \in Worker, worker'[v].job = j, worker'[v].after = "retry" PROVE InDebt(j)
    <3>1. v \in Of(j) /\ worker'[v].after = worker[v].after
      BY <1>5, <2>3, OfRace DEF Walks, Submits, Confirms, Begins
    <3> QED BY <2>3, <3>1 DEF InDebt
  <2> QED BY <2>2, <2>3 DEF InDebt, Of
<1>6. CASE \E w \in Of(j) : Misses(w)
  BY <1>1, <1>2, <1>3, <1>6
<1>7. CASE \E w \in Of(j) : Quits(w)
  BY <1>1, <1>2, <1>4, <1>7
<1>8. CASE \A w \in Of(j) : ~Misses(w) /\ ~Quits(w)
  BY <1>1, <1>2, <1>5, <1>8
<1> QED BY <1>6, <1>7, <1>8

\* A job that nobody has enqueued has lost nothing.
LEMMA Unlost ==
  ASSUME Peace, RaceStep, AttemptInv, NEW j \in Job, j \notin Enqueued PROVE Losses(j)' = 0
<1>1. job[j].attempts = 0
  BY DEF AttemptInv
<1>2. Of(j) = {}
  <2> SUFFICES ASSUME NEW w \in Of(j) PROVE FALSE
    OBVIOUS
  <2>1. w \in Worker /\ ~At(w, "idle") /\ worker[w].job = j
    BY OfRuns DEF Of, Peace
  <2> QED BY <2>1, RunEnqueued DEF Peace
<1>3. job'[j].attempts = 0
  <2>1. ASSUME NEW w \in Worker, Quits(w) PROVE job'[j].attempts = job[j].attempts
    BY <1>2, <2>1 DEF Quits, Of
  <2>2. job'[j].attempts = job[j].attempts
    BY <2>1 DEF RaceStep, Idles, Lands, Begins, Walks, Submits, Misses, Confirms, Ends, Steady
  <2> QED BY <1>1, <2>2
<1>4. ASSUME NEW v \in Worker, worker'[v].job = j PROVE worker'[v].after # "retry"
  BY <1>2, <1>4, OfRace DEF Begins
<1> QED BY <1>3, <1>4 DEF Losses, One, InDebt, Of

\* A block that is closed stays so.
LEMMA ClosedGrows ==
  ASSUME Peace, RaceStep, LeaseInv, NEW j \in Job
  PROVE  /\ IsFiniteSet(Closed(j)') /\ Closed(j) \subseteq Closed(j)'
         /\ Cardinality(Closed(j)) \in Nat /\ Cardinality(Closed(j)') \in Nat
         /\ Cardinality(Closed(j)) <= Cardinality(Closed(j)')
         /\ (\E l \in Lease : LeaseOpen(j, l) /\ ~LeaseOpen(j, l)')
              => Cardinality(Closed(j)) + 1 <= Cardinality(Closed(j)')
<1> DEFINE C == Closed(j)
           D == Closed(j)'
<1>1. C \subseteq D
  BY LeaseShuts DEF Closed
<1>2. IsFiniteSet(D)
  <2>1. D \subseteq Lease
    BY DEF Closed
  <2> HIDE DEF D
  <2> QED BY <2>1, QueueAssumption, FS_Subset
<1>3. ASSUME NEW l \in Lease, LeaseOpen(j, l), ~LeaseOpen(j, l)' PROVE l \in D /\ l \notin C
  BY <1>3 DEF Closed
<1> HIDE DEF C, D
<1>4. /\ IsFiniteSet(C) /\ Cardinality(C) \in Nat /\ Cardinality(D) \in Nat
      /\ Cardinality(C) <= Cardinality(D)
  BY <1>1, <1>2, GrowingCardinality
<1>5. ASSUME NEW l \in Lease, LeaseOpen(j, l), ~LeaseOpen(j, l)'
      PROVE  Cardinality(C) + 1 <= Cardinality(D)
  <2>1. C \cup {l} \subseteq D /\ l \notin C
    BY <1>1, <1>3, <1>5
  <2>2. Cardinality(C \cup {l}) = Cardinality(C) + 1
    BY <1>4, <2>1, FS_AddElement
  <2> QED BY <1>2, <2>1, <2>2, GrowingCardinality
<1> QED BY <1>1, <1>2, <1>4, <1>5 DEF C, D

LEMMA BoundNext ==
  ASSUME Peace, Calm, RaceStep, PathInv, AheadInv, LeaseInv, WaitInv, AttemptInv, Bound
  PROVE  Bound'
<1> SUFFICES ASSUME NEW j \in Job, ~Won(j)'
             PROVE  Losses(j)' + Chances(j)' <= Cardinality(Closed(j)') + 2
  BY DEF Bound
<1> DEFINE a == Losses(j)
           b == Losses(j)'
           c == Cardinality(Closed(j))
           d == Cardinality(Closed(j)')
           o3 == LowOpen(j)
           o4 == HighOpen(j)
           p3 == LowOpen(j)'
           p4 == HighOpen(j)'
           shut == \E l \in Lease : LeaseOpen(j, l) /\ ~LeaseOpen(j, l)'
<1>1. ~Won(j)
  BY RaceGrows
<1>2. Chances(j)' = One(p3) + One(p4) /\ Chances(j) = One(o3) + One(o4)
  BY DEF Chances, One
<1>3. a + Chances(j) <= c + 2
  BY <1>1 DEF Bound
<1>4. a \in Nat /\ b \in Nat /\ (b <= a \/ (b <= a + 1 /\ Shut(j)))
  BY <1>1, LossRace
<1>5. c \in Nat /\ d \in Nat /\ c <= d /\ (shut => c + 1 <= d)
  BY ClosedGrows
<1>6. CASE b = 0
  <2> HIDE DEF b, p3, p4, d
  <2>1. One(p3) + One(p4) \in 0..2
    BY DEF One
  <2>2. b + Chances(j)' <= d + 2
    BY <1>2, <1>5, <1>6, <2>1
  <2> QED BY <2>2 DEF b, d
<1>7. CASE b # 0
  <2>1. j \in Enqueued
    BY <1>7, Unlost
  <2>2. (p3 => o3) /\ (p4 => o4)
    BY <1>1, <1>7, <2>1, LowShuts, HighShuts
  <2>3. Shut(j) => shut \/ (o3 /\ ~p3) \/ (o4 /\ ~p4)
    BY DEF Shut
  <2> HIDE DEF a, b, c, d, o3, o4, p3, p4, shut
  <2>4. b + (One(p3) + One(p4)) <= d + 2
    BY <1>2, <1>3, <1>4, <1>5, <2>2, <2>3 DEF One
  <2>5. b + Chances(j)' <= d + 2
    BY <1>2, <2>4
  <2> QED BY <2>5 DEF b, d
<1> QED BY <1>6, <1>7
-----------------------------------------------------------------------------
LEMMA RaceNext ==
  ASSUME TypeInv, HashInv, OutcomeInv, RaceInv, Next PROVE RaceInv'
<1> SUFFICES ASSUME Calm'
             PROVE  /\ NetInv' /\ PathInv' /\ WaitInv' /\ CacheInv' /\ AheadInv' /\ LeaseInv'
                    /\ AttemptInv' /\ Bound'
  BY DEF RaceInv
<1>1. Calm
  BY NextForms, CalmKept
<1>2. /\ NetInv /\ PathInv /\ WaitInv /\ CacheInv /\ AheadInv /\ LeaseInv /\ AttemptInv /\ Bound
  BY <1>1 DEF RaceInv
<1>3. Peace
  BY <1>1, <1>2, CalmExclusive DEF Peace
<1>4. RaceStep /\ \A j \in Job : JobRace(j)
  BY <1>2, <1>3, RaceForms DEF Calm, Peace
<1> QED BY <1>1, <1>2, <1>3, <1>4, NetNext, PathNext, WaitNext, CacheNext, AheadNext, LeaseNext,
           AttemptNext, BoundNext

LEMMA RaceStutter == RaceInv /\ UNCHANGED vars => RaceInv'
<1> SUFFICES ASSUME RaceInv, UNCHANGED vars, Calm' PROVE RaceInv'
  BY DEF RaceInv
<1>1. UNCHANGED <<job, worker, admin, cache, blocks, account, envs, events>>
  BY DEF vars
<1>2. Calm /\ NetInv /\ PathInv /\ WaitInv /\ CacheInv /\ AheadInv /\ LeaseInv /\ AttemptInv /\ Bound
  BY <1>1 DEF Calm, Enqueued, RaceInv
<1>3. NetInv' /\ PathInv' /\ WaitInv'
  BY <1>1, <1>2 DEF NetInv, PathInv, WaitInv, Pending, At
<1>4. CacheInv' /\ AheadInv'
  BY <1>1, <1>2 DEF CacheInv, AheadInv, OtherSecured, Secured, Won, InFront, Numbered, At
<1>5. LeaseInv' /\ AttemptInv'
  BY <1>1, <1>2 DEF LeaseInv, Asking, Leases, AttemptInv, Enqueued
<1>6. ASSUME NEW j \in Job
      PROVE  /\ (Won(j)' <=> Won(j)) /\ Losses(j)' = Losses(j)
             /\ Chances(j)' = Chances(j) /\ Closed(j)' = Closed(j)
  <2>1. (Won(j)' <=> Won(j)) /\ Losses(j)' = Losses(j)
    BY <1>1 DEF Won, Losses, One, InDebt, Of
  <2>2. \A l \in Lease : LeaseOpen(j, l)' <=> LeaseOpen(j, l)
    BY <1>1 DEF LeaseOpen, Asking, Leases, Of
  <2>3. LowOpen(j)' <=> LowOpen(j)
    BY <1>1 DEF LowOpen, OtherApplied, Behind, Of, At
  <2>4. HighOpen(j)' <=> HighOpen(j)
    BY <1>1 DEF HighOpen, OtherSecured, Secured, Won, InFront, Ahead, Numbered, Of, At
  <2>5. Closed(j)' = Closed(j)
    BY <2>2 DEF Closed
  <2> QED BY <2>1, <2>3, <2>4, <2>5 DEF Chances, One
<1>7. Bound'
  BY <1>2, <1>6 DEF Bound
<1> QED BY <1>3, <1>4, <1>5, <1>7 DEF RaceInv

LEMMA RaceInit == Init => RaceInv
<1> SUFFICES ASSUME Init
             PROVE  /\ NetInv /\ PathInv /\ WaitInv /\ CacheInv /\ AheadInv /\ LeaseInv
                    /\ AttemptInv /\ Bound
  BY DEF RaceInv
<1>1. /\ DOMAIN envs = {} /\ account = 0 /\ cache = 0 /\ blocks = <<>> /\ events = {}
      /\ \A w \in Worker : worker[w] = Resting
      /\ \A a \in Admin : admin[a].pc = "idle"
      /\ \A j \in Job : job[j].state = "new" /\ job[j].attempts = 0
  BY NoCallType DEF Init
<1>2. Resting.pc = "idle" /\ Resting.list = <<>> /\ Resting.after = "blocks"
  BY DEF Resting
<1>3. NetInv /\ PathInv /\ WaitInv /\ CacheInv
  BY <1>1, <1>2 DEF NetInv, PathInv, WaitInv, CacheInv, Pending, At
<1>4. AheadInv /\ LeaseInv
  BY <1>1, <1>2, LeasesEmpty DEF AheadInv, LeaseInv, Numbered, Asking
<1>5. AttemptInv
  BY <1>1 DEF AttemptInv
<1>6. ASSUME NEW j \in Job PROVE Losses(j) + Chances(j) <= Cardinality(Closed(j)) + 2
  <2>1. Losses(j) = 0
    BY <1>1, <1>2 DEF Losses, One, InDebt, Of
  <2>2. Chances(j) \in 0..2
    BY DEF Chances, One
  <2>3. Cardinality(Closed(j)) \in Nat
    <3>1. Closed(j) \subseteq Lease
      BY DEF Closed
    <3> QED BY <3>1, QueueAssumption, GrowingCardinality
  <2> QED BY <2>1, <2>2, <2>3
<1> QED BY <1>3, <1>4, <1>5, <1>6 DEF Bound

LEMMA RaceAlways == Spec => []RaceInv
<1>1. TypeInv /\ HashInv /\ OutcomeInv /\ RaceInv /\ [Next]_vars => RaceInv'
  BY RaceNext, RaceStutter
<1> QED BY <1>1, RaceInit, HashAlways, OutcomeAlways, PTL DEF Spec

LEMMA RaceHolds ==
  ASSUME TypeInv, HashInv, OutcomeInv, RaceInv PROVE AttemptsSuffice
<1> SUFFICES ASSUME Calm, Cardinality(events) + 2 < MaxAttempts, NEW j \in Job,
                    job[j].state = "exhausted"
             PROVE  FALSE
  BY DEF AttemptsSuffice, Calm
<1>1. NetInv /\ Bound /\ job[j].attempts >= MaxAttempts
  BY DEF RaceInv, AttemptInv
<1>2. Peace
  BY <1>1, CalmExclusive DEF Peace
<1>3. ~Won(j)
  BY <1>2, EnvJob DEF Won
<1>4. Losses(j) + Chances(j) <= Cardinality(Closed(j)) + 2
  BY <1>1, <1>3 DEF Bound
<1>5. Chances(j) \in Nat
  BY DEF Chances, One
<1>6. job[j].attempts \in Nat /\ Losses(j) \in {job[j].attempts, job[j].attempts + 1}
  BY JobTypes DEF Losses, One
<1>7. Closed(j) \subseteq events /\ IsFiniteSet(events)
  BY QueueAssumption, FS_Subset DEF Closed, LeaseOpen, Calm
<1>8. /\ Cardinality(Closed(j)) <= Cardinality(events)
      /\ Cardinality(Closed(j)) \in Nat /\ Cardinality(events) \in Nat
  BY <1>7, GrowingCardinality
<1> QED BY <1>1, <1>4, <1>5, <1>6, <1>8, QueueAssumption

\* Two jobs that race for the sequence numbers of an account, however many workers run
\* them, each lose at most one attempt to every block that reserveSequenceBlock() was
\* asked for and two to each other: with more attempts than that, and without a fault,
\* neither is given up.
THEOREM RaceLeavesAnAttempt == Spec => []AttemptsSuffice
<1>1. TypeInv /\ HashInv /\ OutcomeInv /\ RaceInv => AttemptsSuffice
  BY RaceHolds
<1> QED BY <1>1, HashAlways, OutcomeAlways, RaceAlways, PTL
===============================================================================
