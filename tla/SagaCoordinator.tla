--------------------------- MODULE SagaCoordinator ---------------------------
(***************************************************************************)
(* One saga driven by orchestrator/src/saga/coordinator.ts over a durable  *)
(* store with optimistic versions (postgres-store.ts, memory-store.ts) and *)
(* the Redis locks of orchestrator/src/locks/manager.ts.                   *)
(*                                                                         *)
(* A task is one asynchronous call chain (an HTTP handler, the startup     *)
(* recovery, a sweeper tick, a retry timer) of an orchestrator process.    *)
(* Every await of the code is a step boundary.  Time is abstract: a claim  *)
(* is named by the version that wrote it, and claims lapse in the order in *)
(* which they were taken because every lease has the same length.          *)
(***************************************************************************)
EXTENDS Integers, Sequences

CONSTANTS
  Instance,        \* orchestrator processes (lock owners)
  Task,            \* concurrent call chains
  host,            \* host[t]: the process that task t runs in
  StepName,        \* names of saga steps
  StepOrder,       \* the saga's steps in execution order, without repeats
  UseLocks,        \* distributedLocksEnabled()
  StableOwner,     \* ORCHESTRATOR_INSTANCE_ID fixed: a restart keeps its owner
  CanExpire,       \* the saga-level deadline can be reached
  Limits,          \* how often each kind of external event may happen
  NoStep, NoClaim, NoLock, Dead, WorkflowKey

\* Calls from outside, actions and compensations that throw, database or Redis
\* calls that reject, locks lost or not renewed, process deaths.
Kinds == {"calls", "failures", "undoFailures", "rejections", "lockFaults", "crashes"}

ASSUME StepsAssumption ==
  /\ StepOrder \in Seq(StepName)
  /\ Len(StepOrder) > 0
  /\ NoStep \notin StepName /\ WorkflowKey \notin StepName
  /\ \A i, j \in 1..Len(StepOrder) : StepOrder[i] = StepOrder[j] => i = j
ASSUME LimitsAssumption == Limits \in [Kinds -> Nat]
ASSUME HostAssumption == host \in [Task -> Instance]
ASSUME ClaimAssumption == NoClaim \notin Nat
ASSUME LockAssumption == NoLock \notin [owner : Instance \cup {Dead}]

VARIABLES
  saga,       \* the stored record
  lapsedTo,   \* every claim up to this one has outlived its lease
  overdue,    \* expiresAt <= now
  locks,      \* the Redis lock table
  renewing,   \* renewing[i]: keys process i keeps renewing
  stolenKeys, \* stolenKeys[i]: keys process i noticed it lost
  task,       \* the local state of every task
  timers,     \* timers[i]: claims for which a recovery retry is scheduled
  booting,    \* processes whose startup recoverAll() has not run yet
  executed,   \* how often each step's action took effect
  undone,     \* how often each step's compensation took effect
  budget      \* what is left of Limits

lockVars == <<locks, renewing, stolenKeys>>
effectVars == <<executed, undone>>
vars == <<saga, lapsedTo, overdue, locks, renewing, stolenKeys, task, timers,
          booting, executed, undone, budget>>

Redis == INSTANCE RedisLock

N == Len(StepOrder)
Steps == {StepOrder[i] : i \in 1..N}
Keys == {WorkflowKey} \cup Steps
Terminal == {"completed", "compensated", "failed"}
Incomplete == {"running", "compensating"}
Status == Terminal \cup Incomplete \cup {"timed_out", "absent"}
-----------------------------------------------------------------------------
(* Records and the store.                                                  *)

CompletedStep == [stepName : Steps, status : {"completed", "compensated"}]
Record == [status : Status, currentStep : Steps \cup {NoStep},
           completedSteps : Seq(CompletedStep), version : Nat,
           claim : Nat \cup {NoClaim}]

NewRecord == [status |-> "running", currentStep |-> StepOrder[1],
              completedSteps |-> <<>>, version |-> 0, claim |-> NoClaim]
NoRecord == [NewRecord EXCEPT !.status = "absent", !.currentStep = NoStep]

\* Mutant: a blind upsert, the version is not compared.
VersionMatches_Blind(rec) == saga.status # "absent"

\* save(): UPDATE ... WHERE version = record.version.
VersionMatches(rec) == saga.status # "absent" /\ saga.version = rec.version
Saved(rec) == [rec EXCEPT !.version = @ + 1]

\* The claim of a record that is still within its lease.
Leased(rec) == rec.claim # NoClaim /\ rec.claim > lapsedTo

Names(rec) == {rec.completedSteps[i].stepName : i \in 1..Len(rec.completedSteps)}

\* Position of the first step advance() has left to run, N + 1 when none is.
FirstRemaining(rec) ==
  CHOOSE i \in 1..N+1 :
    /\ i = N + 1 \/ StepOrder[i] \notin Names(rec)
    /\ \A j \in 1..i-1 : StepOrder[j] \in Names(rec)
-----------------------------------------------------------------------------
(* Locks as the coordinator uses them.                                     *)

Payload(i) == [owner |-> i]
CanTake(i, k) == UseLocks => Redis!Acquired(locks, k, Payload(i))

\* DistributedLockManager.acquire(waitTimeoutMs: 0) followed by remember()
\* and startRenew(); without a lock manager nothing is taken.
Take(i, k) ==
  IF UseLocks
    THEN /\ locks' = Redis!LuaAcquire(locks, k, Payload(i))
         /\ renewing' = [renewing EXCEPT ![i] = @ \cup {k}]
         /\ stolenKeys' = [stolenKeys EXCEPT ![i] = @ \ {k}]
    ELSE UNCHANGED lockVars

\* release(): stop renewing, then delete the key if this process owns it.
Drop(i, k) ==
  IF UseLocks
    THEN /\ locks' = Redis!LuaRelease(locks, k, i)
         /\ renewing' = [renewing EXCEPT ![i] = @ \ {k}]
         /\ UNCHANGED stolenKeys
    ELSE UNCHANGED lockVars

WasStolen(i, k) == UseLocks /\ k \in stolenKeys[i]
-----------------------------------------------------------------------------
(* Tasks.                                                                  *)

Labels == {"idle", "listed", "expired", "resume", "lock", "claim", "claimSave",
           "act", "persist", "release", "failSave", "undoFailSave",
           "return", "throw", "reschedule"}
TaskState == [pc : Labels, mode : {"advance", "compensate"}, at : Nat,
              rec : Record, locked : BOOLEAN, recovering : BOOLEAN]
IdleTask == [pc |-> "idle", mode |-> "advance", at |-> 0, rec |-> NoRecord,
             locked |-> FALSE, recovering |-> FALSE]

At(t, label) == task[t].pc = label
Goto(t, label) == task' = [task EXCEPT ![t].pc = label]

\* The step a task works on: by position in the saga going forward, by
\* position in completedSteps going back.
StepOf(t) ==
  IF task[t].mode = "advance" THEN StepOrder[task[t].at]
                              ELSE task[t].rec.completedSteps[task[t].at].stepName
\* Mutant: the compensation loop stops one entry early.
LoopDone_Early(t) ==
  IF task[t].mode = "advance" THEN task[t].at = N + 1 ELSE task[t].at <= 1

LoopDone(t) ==
  task[t].at = IF task[t].mode = "advance" THEN N + 1 ELSE 0

\* Mutant: compensation starts at the oldest entry.
EnterAdvance_Oldest(ts, rec) ==
  IF rec.status \in {"compensating", "timed_out"}
    THEN [ts EXCEPT !.pc = "claim", !.mode = "compensate", !.rec = rec,
                    !.at = IF rec.completedSteps = <<>> THEN 0 ELSE 1]
    ELSE [ts EXCEPT !.pc = "claim", !.mode = "advance", !.rec = rec,
                    !.at = FirstRemaining(rec)]

\* Where advance() starts with a record: forward, or straight into compensate().
EnterAdvance(ts, rec) ==
  IF rec.status \in {"compensating", "timed_out"}
    THEN [ts EXCEPT !.pc = "claim", !.mode = "compensate", !.rec = rec,
                    !.at = Len(rec.completedSteps)]
    ELSE [ts EXCEPT !.pc = "claim", !.mode = "advance", !.rec = rec,
                    !.at = FirstRemaining(rec)]

Spend(kind) == /\ budget[kind] > 0
               /\ budget' = [budget EXCEPT ![kind] = @ - 1]
-----------------------------------------------------------------------------
(* Entry points.                                                           *)

\* Mutant: a finished saga is driven again.
Run_Unguarded(t) ==
  /\ At(t, "idle")
  /\ Spend("calls")
  /\ saga' = IF saga.status = "absent" THEN NewRecord ELSE saga
  /\ task' = [task EXCEPT ![t].pc = "lock", ![t].rec = saga']
  /\ UNCHANGED <<lapsedTo, overdue, lockVars, timers, booting, effectVars>>

\* run(): create() returns the existing row if there is one.
Run(t) ==
  /\ At(t, "idle")
  /\ Spend("calls")
  /\ saga' = IF saga.status = "absent" THEN NewRecord ELSE saga
  /\ task' = IF saga'.status \in Terminal
               THEN task
               ELSE [task EXCEPT ![t].pc = "lock", ![t].rec = saga']
  /\ UNCHANGED <<lapsedTo, overdue, lockVars, timers, booting, effectVars>>

\* The read at the head of resume().
ResumeRead(t) ==
  task' = [task EXCEPT ![t].pc = IF saga.status \in Terminal THEN "return" ELSE "lock",
                       ![t].rec = saga]

\* POST /sagas/:sagaId/resume.
CallResume(t) ==
  /\ At(t, "idle")
  /\ saga.status # "absent"
  /\ Spend("calls")
  /\ ResumeRead(t)
  /\ UNCHANGED <<saga, lapsedTo, overdue, lockVars, timers, booting, effectVars>>

\* The startup recoverAll(): listIncomplete() finds the saga or not.
Boot(t) ==
  /\ At(t, "idle")
  /\ host[t] \in booting
  /\ booting' = booting \ {host[t]}
  /\ IF saga.status \in Incomplete THEN Goto(t, "listed") ELSE UNCHANGED task
  /\ UNCHANGED <<saga, lapsedTo, overdue, lockVars, timers, effectVars, budget>>

\* A tick of startTimeoutSweeper(): listTimedOut() returns the saga.
Sweep(t) ==
  /\ At(t, "idle")
  /\ overdue
  /\ saga.status \in Incomplete
  /\ Goto(t, "listed")
  /\ UNCHANGED <<saga, lapsedTo, overdue, lockVars, timers, booting, effectVars,
                 budget>>

\* The timer armed by scheduleRetryIfLeased(), just after the lease.
FireRetry(t) ==
  /\ At(t, "idle")
  /\ \E c \in timers[host[t]] :
       /\ c <= lapsedTo
       /\ timers' = [timers EXCEPT ![host[t]] = @ \ {c}]
  /\ Goto(t, "listed")
  /\ UNCHANGED <<saga, lapsedTo, overdue, lockVars, booting, effectVars, budget>>

\* recoverOne() up to its first write: the deadline is tested on the record
\* just read, whatever its status is by now.
RecoverOne(t) ==
  /\ At(t, "listed")
  /\ task' = IF overdue
               THEN [task EXCEPT ![t].pc = "expired", ![t].rec = saga]
               ELSE [task EXCEPT ![t].pc = "resume", ![t].recovering = TRUE]
  /\ UNCHANGED <<saga, lapsedTo, overdue, lockVars, timers, booting, effectVars,
                 budget>>

RecoverResume(t) ==
  /\ At(t, "resume")
  /\ ResumeRead(t)
  /\ UNCHANGED <<saga, lapsedTo, overdue, lockVars, timers, booting, effectVars,
                 budget>>
-----------------------------------------------------------------------------
(* Conditional writes.                                                     *)

\* The database call of a save rejects: the row is as it was, or the update was
\* committed and only its answer is lost.  Either way save() throws and the task
\* keeps the record it had.
SaveFault(t, rec) ==
  /\ Spend("rejections")
  /\ UNCHANGED saga \/ (VersionMatches(task[t].rec) /\ saga' = Saved(rec))
Conflict(t) == ~VersionMatches(task[t].rec) /\ UNCHANGED <<saga, budget>>

\* A write by task t that succeeds: the task goes on with the row returned.
SaveOk(t, rec, ts) ==
  /\ VersionMatches(task[t].rec)
  /\ saga' = Saved(rec)
  /\ task' = [task EXCEPT ![t] = [ts EXCEPT !.rec = Saved(rec)]]
  /\ UNCHANGED budget

\* recoverOne() on an overdue saga: no workflow lock is taken for the write
\* or for the compensation that follows it.
SaveTimedOut(t) ==
  LET rec == [task[t].rec EXCEPT !.status = "timed_out", !.claim = NoClaim] IN
  /\ At(t, "expired")
  /\ \/ SaveOk(t, rec, EnterAdvance(task[t], rec))
     \/ (SaveFault(t, rec) \/ Conflict(t)) /\ Goto(t, "throw")
  /\ UNCHANGED <<lapsedTo, overdue, lockVars, timers, booting, effectVars>>

\* withWorkflowLock(): back off with the stored record when another process
\* holds the lock, otherwise advance() with the record read before the lock.
AcquireWorkflow(t) ==
  /\ At(t, "lock")
  /\ IF CanTake(host[t], WorkflowKey)
       THEN /\ Take(host[t], WorkflowKey)
            /\ task' = [task EXCEPT ![t] =
                          [EnterAdvance(task[t], task[t].rec) EXCEPT !.locked = TRUE]]
       ELSE /\ task' = [task EXCEPT ![t].pc = "return", ![t].rec = saga]
            /\ UNCHANGED lockVars
  /\ UNCHANGED <<saga, lapsedTo, overdue, timers, booting, effectVars, budget>>

\* Mutant: a live claim is not looked at.
ClaimStep_NoLease(t) ==
  /\ At(t, "claim")
  /\ ~LoopDone(t)
  /\ IF ~CanTake(host[t], StepOf(t))
       THEN Goto(t, "return") /\ UNCHANGED lockVars
       ELSE Goto(t, "claimSave") /\ Take(host[t], StepOf(t))
  /\ UNCHANGED <<saga, lapsedTo, overdue, timers, booting, effectVars, budget>>

\* claimStep() up to the step lock: refuse a step under a live claim.
ClaimStep(t) ==
  LET rec == task[t].rec IN
  /\ At(t, "claim")
  /\ ~LoopDone(t)
  /\ IF (rec.currentStep = StepOf(t) /\ Leased(rec)) \/ ~CanTake(host[t], StepOf(t))
       THEN Goto(t, "return") /\ UNCHANGED lockVars
       ELSE Goto(t, "claimSave") /\ Take(host[t], StepOf(t))
  /\ UNCHANGED <<saga, lapsedTo, overdue, timers, booting, effectVars, budget>>

\* Mutant: a task that loses the race for the claim reads the record again and
\* goes on.
SaveClaim_Reload(t) ==
  LET rec == [task[t].rec EXCEPT !.currentStep = StepOf(t), !.claim = task[t].rec.version + 1] IN
  /\ At(t, "claimSave")
  /\ \/ SaveOk(t, rec, [task[t] EXCEPT !.pc = "act"])
     \/ Conflict(t) /\ task' = [task EXCEPT ![t].pc = "act", ![t].rec = saga]
  /\ UNCHANGED <<lapsedTo, overdue, lockVars, timers, booting, effectVars>>

\* claimStep()'s write: the claim is named by the version that stores it.
SaveClaim(t) ==
  LET rec == [task[t].rec EXCEPT !.currentStep = StepOf(t), !.claim = task[t].rec.version + 1] IN
  /\ At(t, "claimSave")
  /\ \/ SaveOk(t, rec, [task[t] EXCEPT !.pc = "act"]) /\ UNCHANGED lockVars
     \/ Conflict(t) /\ Drop(host[t], StepOf(t)) /\ Goto(t, "return")
     \/ SaveFault(t, rec) /\ Drop(host[t], StepOf(t)) /\ Goto(t, "throw")
  /\ UNCHANGED <<lapsedTo, overdue, timers, booting, effectVars>>
-----------------------------------------------------------------------------
(* Running a step and its compensation.                                    *)

\* Mutant: an error of the action is swallowed.
Execute_Swallow(t) ==
  /\ At(t, "act") /\ task[t].mode = "advance"
  /\ \E happened \in {0, 1} :
       executed' = [executed EXCEPT ![StepOf(t)] = @ + happened]
  /\ Goto(t, "persist")
  /\ UNCHANGED <<saga, lapsedTo, overdue, lockVars, timers, booting, undone, budget>>

\* executeWithRetry().  The action may throw after its effect took place: the
\* payments call has a client-side timeout.  A retryable error runs the action
\* again under the same claim and step lock; how many attempts the step's policy
\* allows is left open, so every attempt may be the last.
Execute(t) ==
  /\ At(t, "act") /\ task[t].mode = "advance"
  /\ \/ /\ executed' = [executed EXCEPT ![StepOf(t)] = @ + 1]
        /\ Goto(t, "persist")
        /\ UNCHANGED <<lockVars, budget>>
     \/ /\ Spend("failures")
        /\ \E happened \in {0, 1} :
             executed' = [executed EXCEPT ![StepOf(t)] = @ + happened]
        /\ \/ Drop(host[t], StepOf(t)) /\ Goto(t, "failSave")
           \/ UNCHANGED <<lockVars, task>>
  /\ UNCHANGED <<saga, lapsedTo, overdue, timers, booting, undone>>

\* Mutant: the failure is saved but compensation is not started.
SaveFailed_Stop(t) ==
  LET rec == [task[t].rec EXCEPT !.status = "compensating", !.claim = NoClaim] IN
  /\ At(t, "failSave")
  /\ \/ SaveOk(t, rec, [task[t] EXCEPT !.pc = "return"])
     \/ (SaveFault(t, rec) \/ Conflict(t)) /\ Goto(t, "throw")
  /\ UNCHANGED <<lapsedTo, overdue, lockVars, timers, booting, effectVars>>

\* The failed step turns the saga around.
SaveFailed(t) ==
  LET rec == [task[t].rec EXCEPT !.status = "compensating", !.claim = NoClaim] IN
  /\ At(t, "failSave")
  /\ \/ SaveOk(t, rec, EnterAdvance(task[t], rec))
     \/ (SaveFault(t, rec) \/ Conflict(t)) /\ Goto(t, "throw")
  /\ UNCHANGED <<lapsedTo, overdue, lockVars, timers, booting, effectVars>>

Compensate(t) ==
  /\ At(t, "act") /\ task[t].mode = "compensate"
  /\ \/ /\ undone' = [undone EXCEPT ![StepOf(t)] = @ + 1]
        /\ Goto(t, "persist")
        /\ UNCHANGED <<lockVars, budget>>
     \/ /\ Spend("undoFailures")
        /\ \E happened \in {0, 1} :
             undone' = [undone EXCEPT ![StepOf(t)] = @ + happened]
        /\ Drop(host[t], StepOf(t))
        /\ Goto(t, "undoFailSave")
  /\ UNCHANGED <<saga, lapsedTo, overdue, timers, booting, executed>>

\* The catch block of compensate(): clear the claim, then rethrow.
SaveUndoFailed(t) ==
  LET rec == [task[t].rec EXCEPT !.claim = NoClaim] IN
  /\ At(t, "undoFailSave")
  /\ \/ VersionMatches(rec) /\ saga' = Saved(rec) /\ UNCHANGED budget
     \/ SaveFault(t, rec) \/ Conflict(t)
  /\ Goto(t, "throw")
  /\ UNCHANGED <<lapsedTo, overdue, lockVars, timers, booting, effectVars>>

\* The record after the step in hand: an entry appended going forward, the
\* entry of that step marked going back.
StepRecorded(t) ==
  LET rec == task[t].rec
      done == rec.completedSteps
  IN
  IF task[t].mode = "advance"
    THEN [rec EXCEPT
           !.completedSteps = Append(done, [stepName |-> StepOf(t), status |-> "completed"]),
           !.currentStep = IF task[t].at < N THEN StepOrder[task[t].at + 1] ELSE NoStep,
           !.claim = NoClaim]
    ELSE [rec EXCEPT
           !.completedSteps = [i \in 1..Len(done) |->
              IF done[i].stepName = StepOf(t) THEN [done[i] EXCEPT !.status = "compensated"]
                                              ELSE done[i]],
           !.claim = NoClaim]

\* Persist the outcome unless the step lock was lost meanwhile.  A write that
\* throws keeps the step lock going forward; going back it lands in the catch
\* block, which releases it.
Persist(t) ==
  /\ At(t, "persist")
  /\ IF WasStolen(host[t], StepOf(t))
       THEN Goto(t, "return") /\ UNCHANGED <<saga, budget, lockVars>>
       ELSE \/ SaveOk(t, StepRecorded(t), [task[t] EXCEPT !.pc = "release"])
               /\ UNCHANGED lockVars
            \/ /\ SaveFault(t, StepRecorded(t)) \/ Conflict(t)
               /\ IF task[t].mode = "advance"
                    THEN Goto(t, "throw") /\ UNCHANGED lockVars
                    ELSE Goto(t, "undoFailSave") /\ Drop(host[t], StepOf(t))
  /\ UNCHANGED <<lapsedTo, overdue, timers, booting, effectVars>>

\* releaseStepLock(), the audit event (whose insert may fail), and on to the
\* next step of the loop.
ReleaseStep(t) ==
  /\ At(t, "release")
  /\ Drop(host[t], StepOf(t))
  /\ \/ /\ task' = [task EXCEPT ![t].pc = "claim",
               ![t].at = IF task[t].mode = "advance" THEN FirstRemaining(task[t].rec)
                                                     ELSE @ - 1]
        /\ UNCHANGED budget
     \/ /\ Spend("rejections")
        /\ Goto(t, IF task[t].mode = "advance" THEN "throw" ELSE "undoFailSave")
  /\ UNCHANGED <<saga, lapsedTo, overdue, timers, booting, effectVars>>

\* The write that ends the saga, after the last step in either direction.
Finish(t) ==
  LET final == IF task[t].mode = "advance" THEN "completed" ELSE "compensated"
      rec == [task[t].rec EXCEPT !.status = final, !.currentStep = NoStep, !.claim = NoClaim]
  IN
  /\ At(t, "claim")
  /\ LoopDone(t)
  /\ \/ SaveOk(t, rec, [task[t] EXCEPT !.pc = "return"])
     \/ (SaveFault(t, rec) \/ Conflict(t)) /\ Goto(t, "throw")
  /\ UNCHANGED <<lapsedTo, overdue, lockVars, timers, booting, effectVars>>
-----------------------------------------------------------------------------
(* Leaving the call chain.                                                 *)

\* The finally block of withWorkflowLock(); recoverOne() goes on to
\* reschedule when resume() returned.
Unwind(t) ==
  /\ task[t].pc \in {"return", "throw"}
  /\ IF task[t].locked THEN Drop(host[t], WorkflowKey) ELSE UNCHANGED lockVars
  /\ task' = [task EXCEPT ![t] =
       IF task[t].recovering /\ At(t, "return") THEN [@ EXCEPT !.pc = "reschedule"]
                                                ELSE IdleTask]
  /\ UNCHANGED <<saga, lapsedTo, overdue, timers, booting, effectVars, budget>>

\* scheduleRetryIfLeased() on the result, and on a fresh read when the result
\* is incomplete and carries no claim.
Reschedule(t) ==
  LET rec == task[t].rec
      looked == IF rec.status \in Incomplete /\ rec.claim = NoClaim THEN saga ELSE rec
  IN
  /\ At(t, "reschedule")
  /\ timers' = IF looked.status \in Incomplete /\ Leased(looked)
                 THEN [timers EXCEPT ![host[t]] = @ \cup {looked.claim}]
                 ELSE timers
  /\ task' = [task EXCEPT ![t] = IdleTask]
  /\ UNCHANGED <<saga, lapsedTo, overdue, lockVars, booting, effectVars, budget>>

\* A call that writes no saga row rejects.  A read of recoverOne() lands in its
\* catch block; an audit event or a lock request (which may have reached Redis
\* all the same, leaving a key that nobody renews) ends advance().
Rejected(t) ==
  LET key == IF At(t, "lock") THEN WorkflowKey ELSE StepOf(t) IN
  /\ Spend("rejections")
  /\ \/ /\ task[t].pc \in {"listed", "resume", "reschedule"}
        /\ task' = [task EXCEPT ![t] = IdleTask]
        /\ UNCHANGED locks
     \/ /\ task[t].pc \in {"lock", "claim"}
        /\ Goto(t, "throw")
        /\ \/ UNCHANGED locks
           \/ /\ UseLocks /\ (At(t, "claim") => ~LoopDone(t))
              /\ locks' = Redis!LuaAcquire(locks, key, Payload(host[t]))
  /\ UNCHANGED <<saga, lapsedTo, overdue, renewing, stolenKeys, timers, booting, effectVars>>
-----------------------------------------------------------------------------
(* The environment.                                                        *)

\* Leases run out, oldest first.
Lapse ==
  /\ \E c \in (({saga.claim} \cup UNION {timers[i] : i \in Instance}) \ {NoClaim}) :
       c > lapsedTo /\ lapsedTo' = c
  /\ UNCHANGED <<saga, overdue, lockVars, task, timers, booting, effectVars, budget>>

\* The saga's expiresAt passes.
PassDeadline ==
  /\ CanExpire /\ ~overdue /\ saga.status # "absent"
  /\ overdue' = TRUE
  /\ UNCHANGED <<saga, lapsedTo, lockVars, task, timers, booting, effectVars, budget>>

Renewed(k) == \E i \in Instance : Redis!OwnedBy(locks, k, i) /\ k \in renewing[i]

\* The TTL of a lock nobody renews.
ExpireLock(k) ==
  /\ locks[k] # NoLock /\ ~Renewed(k)
  /\ locks' = Redis!LuaExpire(locks, k)
  /\ UNCHANGED <<saga, lapsedTo, overdue, renewing, stolenKeys, task, timers, booting,
                 effectVars, budget>>

\* A stalled process or a Redis failover loses a lock that is being renewed.
LoseLock(k) ==
  /\ Renewed(k)
  /\ Spend("lockFaults")
  /\ locks' = Redis!LuaExpire(locks, k)
  /\ UNCHANGED <<saga, lapsedTo, overdue, renewing, stolenKeys, task, timers, booting,
                 effectVars>>

\* renew() that does not answer "ok": the key is gone or another owner's, or
\* the call timed out; either way renewing stops and the key counts as stolen.
RenewFails(i, k) ==
  /\ k \in renewing[i]
  /\ IF Redis!OwnedBy(locks, k, i) THEN Spend("lockFaults") ELSE UNCHANGED budget
  /\ renewing' = [renewing EXCEPT ![i] = @ \ {k}]
  /\ stolenKeys' = [stolenKeys EXCEPT ![i] = @ \cup {k}]
  /\ UNCHANGED <<saga, lapsedTo, overdue, locks, task, timers, booting, effectVars>>

\* A process dies and restarts.  Its locks stay in Redis; unless its owner id
\* is configured they belong to nobody alive.
Crash(i) ==
  /\ Spend("crashes")
  /\ task' = [t \in Task |-> IF host[t] = i THEN IdleTask ELSE task[t]]
  /\ timers' = [timers EXCEPT ![i] = {}]
  /\ booting' = booting \cup {i}
  /\ renewing' = [renewing EXCEPT ![i] = {}]
  /\ stolenKeys' = [stolenKeys EXCEPT ![i] = {}]
  /\ locks' = [k \in Keys |->
       IF Redis!OwnedBy(locks, k, i) /\ ~StableOwner THEN Payload(Dead) ELSE locks[k]]
  /\ UNCHANGED <<saga, lapsedTo, overdue, effectVars>>

\* gracefulShutdown() begins with releaseAll(), while the tasks of the process
\* are still under way; the process exits later.
ReleaseAll(i) ==
  /\ UseLocks
  /\ Spend("lockFaults")
  /\ locks' = [k \in Keys |->
       IF k \in renewing[i] \cup stolenKeys[i] THEN Redis!LuaRelease(locks, k, i)[k] ELSE locks[k]]
  /\ renewing' = [renewing EXCEPT ![i] = {}]
  /\ UNCHANGED <<saga, lapsedTo, overdue, stolenKeys, task, timers, booting, effectVars>>
-----------------------------------------------------------------------------
Init ==
  /\ saga = NoRecord
  /\ lapsedTo = 0
  /\ overdue = FALSE
  /\ locks = [k \in Keys |-> NoLock]
  /\ renewing = [i \in Instance |-> {}]
  /\ stolenKeys = [i \in Instance |-> {}]
  /\ task = [t \in Task |-> IdleTask]
  /\ timers = [i \in Instance |-> {}]
  /\ booting = {}
  /\ executed = [s \in Steps |-> 0]
  /\ undone = [s \in Steps |-> 0]
  /\ budget = Limits

\* What a task does once it is under way.
Continue(t) ==
  \/ RecoverOne(t) \/ RecoverResume(t) \/ SaveTimedOut(t) \/ AcquireWorkflow(t)
  \/ ClaimStep(t) \/ SaveClaim(t) \/ Execute(t) \/ SaveFailed(t) \/ Compensate(t)
  \/ SaveUndoFailed(t) \/ Persist(t) \/ ReleaseStep(t) \/ Finish(t)
  \/ Unwind(t) \/ Reschedule(t)

\* What starts by itself: recovery at startup, sweeper, retry timer.
Wake(t) == Boot(t) \/ Sweep(t) \/ FireRetry(t)

Clock == Lapse \/ PassDeadline \/ \E k \in Keys : ExpireLock(k)

Faults ==
  \/ \E t \in Task : Rejected(t)
  \/ \E k \in Keys : LoseLock(k)
  \/ \E i \in Instance, k \in Keys : RenewFails(i, k)
  \/ \E i \in Instance : Crash(i) \/ ReleaseAll(i)

Next ==
  \/ \E t \in Task : Run(t) \/ CallResume(t) \/ Wake(t) \/ Continue(t)
  \/ Clock
  \/ Faults

Spec == Init /\ [][Next]_vars

\* The Node.js event loop runs every continuation, timer and interval that is
\* due; leases and lock TTLs run out; a failed renewal is noticed at the next
\* renewal tick.  Calls from outside and faults are never promised.
Fairness ==
  /\ \A t \in Task : WF_vars(Continue(t)) /\ WF_vars(Wake(t))
  /\ WF_vars(Lapse)
  /\ WF_vars(PassDeadline)
  /\ \A k \in Keys : WF_vars(ExpireLock(k))
  /\ \A i \in Instance, k \in Keys :
       WF_vars(~Redis!OwnedBy(locks, k, i) /\ RenewFails(i, k))

LiveSpec == Spec /\ Fairness
-----------------------------------------------------------------------------
(* Properties.                                                             *)

\* Every variable keeps its type.
TypeOK ==
  /\ saga \in Record
  /\ lapsedTo \in Nat
  /\ overdue \in BOOLEAN
  /\ locks \in [Keys -> [owner : Instance \cup {Dead}] \cup {NoLock}]
  /\ renewing \in [Instance -> SUBSET Keys]
  /\ stolenKeys \in [Instance -> SUBSET Keys]
  /\ task \in [Task -> TaskState]
  /\ timers \in [Instance -> SUBSET Nat]
  /\ booting \in SUBSET Instance
  /\ executed \in [Steps -> Nat]
  /\ undone \in [Steps -> Nat]
  /\ budget \in [Kinds -> Nat]

\* Tasks that carry a record read from the store.
Carrying == {t \in Task : task[t].pc \notin {"idle", "listed", "resume"}}

\* A record a task still carries is never newer than the stored one, and if
\* their versions agree it is the stored one: a save() that passes the version
\* test never overwrites a change its task has not seen.
SnapshotCoherent ==
  \A t \in Carrying :
    /\ task[t].rec.version <= saga.version
    /\ task[t].rec.version = saga.version => task[t].rec = saga

\* Two tasks never act on the same claim, even when startup recovery, the
\* sweeper and HTTP calls overlap and leases and locks are lost.
ClaimsExclusive ==
  \A t, u \in Task :
    /\ t # u
    /\ task[t].pc \in {"act", "persist"}
    /\ task[u].pc \in {"act", "persist"}
    => task[t].rec.version # task[u].rec.version

\* completedSteps always lists a prefix of the saga's steps, in order and
\* without repeats, whatever the recoveries in between.
CompletedInOrder ==
  /\ Len(saga.completedSteps) <= N
  /\ \A i \in 1..Len(saga.completedSteps) :
       saga.completedSteps[i].stepName = StepOrder[i]

\* What the record says happened did happen: a step recorded as completed was
\* executed, one recorded as compensated had its compensation run.
RecordedStepsRan ==
  \A i \in 1..Len(saga.completedSteps) :
    /\ executed[saga.completedSteps[i].stepName] > 0
    /\ saga.completedSteps[i].status = "compensated"
         => undone[saga.completedSteps[i].stepName] > 0

\* Compensation runs in reverse: a step is marked compensated only after every
\* later recorded step is.
ReverseCompensation ==
  \A i, j \in 1..Len(saga.completedSteps) :
    /\ i < j
    /\ saga.completedSteps[i].status = "compensated"
    => saga.completedSteps[j].status = "compensated"

\* A saga reported completed has run every step and compensated none; one
\* reported compensated has compensated every step it recorded.
OutcomeIsWhole ==
  /\ saga.status = "completed" =>
       /\ Names(saga) = Steps
       /\ \A s \in Steps : undone[s] = 0
  /\ saga.status = "compensated" =>
       \A i \in 1..Len(saga.completedSteps) :
         saga.completedSteps[i].status = "compensated"

\* Once a saga has left "running" no step is added to its record: a task that
\* was executing when the saga was turned around cannot push it forward.
NoForwardAfterTurn ==
  [][saga.status \notin {"absent", "running"}
       => Len(saga'.completedSteps) = Len(saga.completedSteps)]_vars

\* A lease excludes: while the claim of a task that runs a step's action lasts,
\* no other task runs that action, whether or not they share a process and its
\* re-entrant locks, whatever happened to the locks and whoever crashed.
LeaseExcludes ==
  \A t, u \in Task :
    /\ t # u
    /\ {task[t].pc, task[u].pc} \subseteq {"act", "persist"}
    /\ task[t].mode = "advance" /\ task[u].mode = "advance"
    /\ StepOf(t) = StepOf(u)
    => ~Leased(task[t].rec) \/ ~Leased(task[u].rec)

\* The stored record seen as a SagaOutcome: which recorded steps still stand.
Standing(rec) ==
  {i \in 1..Len(rec.completedSteps) : rec.completedSteps[i].status = "completed"}
Outcome == INSTANCE SagaOutcome WITH
  StepCount <- N,
  status <- IF saga.status = "timed_out" THEN "compensating" ELSE saga.status,
  done <- Standing(saga)

\* As long as no deadline passes, the stored record behaves as SagaOutcome says
\* it should, whichever tasks of whichever processes write it: it grows step by
\* step, shrinks in reverse once turned, and a saga that has finished stays
\* finished ("treat both as terminal so a retried run() never restarts a saga
\* that already finished").
ImplementsOutcome == Outcome!Spec

\* A started saga is eventually settled.
EventuallySettled == (saga.status # "absent") ~> (saga.status \in Terminal)
=============================================================================
