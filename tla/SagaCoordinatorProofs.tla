------------------------ MODULE SagaCoordinatorProofs ------------------------
(***************************************************************************)
(* Proofs about SagaCoordinator for every set of processes and tasks, any  *)
(* list of steps and any limits.  No result needs the locks: the version   *)
(* test of save() carries the safety of the stored record, and with the    *)
(* claims it stores it keeps two tasks from running one step.              *)
(***************************************************************************)
EXTENDS SagaCoordinator, TLAPS

Turned == {"compensating", "timed_out", "compensated"}

\* What every record ever stored looks like.
RecordOK(rec) ==
  /\ Len(rec.completedSteps) <= N
  /\ \A i \in 1..Len(rec.completedSteps) : rec.completedSteps[i].stepName = StepOrder[i]
  /\ \A i, j \in 1..Len(rec.completedSteps) :
       i < j /\ rec.completedSteps[i].status = "compensated"
         => rec.completedSteps[j].status = "compensated"
  /\ rec.status = "completed" => Len(rec.completedSteps) = N
  /\ rec.status = "compensated" =>
       \A i \in 1..Len(rec.completedSteps) : rec.completedSteps[i].status = "compensated"

\* The effects a record vouches for, given the effect counts.
Ran(rec, exe, und) ==
  \A i \in 1..Len(rec.completedSteps) :
    /\ exe[rec.completedSteps[i].stepName] > 0
    /\ rec.completedSteps[i].status = "compensated"
         => und[rec.completedSteps[i].stepName] > 0

InLoop == {"claim", "claimSave", "act", "persist", "release"}
Acting == {"act", "persist"}

\* The forward loop of advance(): the step in hand follows the recorded ones.
ForwardOK(ts) ==
  /\ ts.rec.status = "running"
  /\ ts.pc = "release" => ts.at = Len(ts.rec.completedSteps)
  /\ ts.pc # "release" => ts.at = Len(ts.rec.completedSteps) + 1
  /\ ts.at \in 1..N+1
  /\ ts.pc # "claim" => ts.at <= N

\* The loop of compensate(): everything after the step in hand is undone.
BackwardOK(ts) ==
  /\ ts.rec.status \in {"compensating", "timed_out"}
  /\ ts.at \in 0..Len(ts.rec.completedSteps)
  /\ ts.pc # "claim" => ts.at > 0
  /\ \A j \in 1..Len(ts.rec.completedSteps) :
       j > ts.at \/ (j = ts.at /\ ts.pc = "release")
         => ts.rec.completedSteps[j].status = "compensated"

LoopOK(ts) ==
  /\ ts.pc \in InLoop /\ ts.mode = "advance" => ForwardOK(ts)
  /\ ts.pc \in InLoop /\ ts.mode = "compensate" => BackwardOK(ts)
  /\ ts.pc = "lock" => ts.rec.status \notin Terminal
  /\ ts.pc = "failSave" => ts.rec.status = "running"
  /\ ts.pc = "undoFailSave" => ts.rec.status \in {"compensating", "timed_out"}

\* A record a task carries, related to the stored one sg.
CarriedOK(rec, sg, exe, und) ==
  /\ rec.status # "absent"
  /\ rec.version <= sg.version
  /\ rec.version = sg.version => rec = sg
  /\ rec.status \in Turned => sg.status \in Turned
  /\ RecordOK(rec)
  /\ Ran(rec, exe, und)

Carries(ts) == ts.pc \notin {"idle", "listed", "resume"}

\* A step whose outcome is about to be persisted has taken effect.
EffectOK(ts, exe, und) ==
  /\ ts.pc = "persist" /\ ts.mode = "advance" => exe[StepOrder[ts.at]] > 0
  /\ ts.pc = "persist" /\ ts.mode = "compensate"
       => und[ts.rec.completedSteps[ts.at].stepName] > 0

TaskOK(ts, sg, exe, und) ==
  /\ ts.pc # "idle" => sg.status # "absent"
  /\ Carries(ts) => CarriedOK(ts.rec, sg, exe, und)
  /\ LoopOK(ts)
  /\ EffectOK(ts, exe, und)

SagaOK(sg, tm, exe, und) ==
  /\ sg.status = "absent" => sg = NoRecord /\ \A i \in Instance : tm[i] = {}
  /\ RecordOK(sg)
  /\ Ran(sg, exe, und)
  /\ sg.status \notin Turned => \A s \in Steps : und[s] = 0

\* The inductive invariant.
SagaInv ==
  /\ TypeOK
  /\ SagaOK(saga, timers, executed, undone)
  /\ \A t \in Task : TaskOK(task[t], saga, executed, undone)
  /\ ClaimsExclusive
-----------------------------------------------------------------------------
(* Facts about the constants and the helpers.                              *)

\* Steps are the members of StepOrder; they are lock keys and not NoStep.
LEMMA StepFacts ==
  /\ N \in Nat /\ N > 0
  /\ \A i \in 1..N : StepOrder[i] \in Steps
  /\ \A i, j \in 1..N : StepOrder[i] = StepOrder[j] => i = j
  /\ Steps \subseteq Keys
  /\ WorkflowKey \in Keys
BY StepsAssumption DEF N, Steps, Keys

\* advance() continues right after the recorded prefix.
LEMMA FirstRemainingNext ==
  ASSUME NEW rec \in Record, RecordOK(rec)
  PROVE  FirstRemaining(rec) = Len(rec.completedSteps) + 1
<1> DEFINE n == Len(rec.completedSteps)
           P(i) == /\ i = N + 1 \/ StepOrder[i] \notin Names(rec)
                   /\ \A j \in 1..i-1 : StepOrder[j] \in Names(rec)
<1>1. n \in Nat /\ n <= N /\ N \in Nat
  BY StepFacts DEF Record, RecordOK
<1>2. Names(rec) = {StepOrder[i] : i \in 1..n}
  BY <1>1 DEF Names, RecordOK
<1>3. P(n + 1)
  BY <1>1, <1>2, StepFacts
<1>4. \A i \in 1..N+1 : P(i) => i = n + 1
  <2> SUFFICES ASSUME NEW i \in 1..N+1, P(i) PROVE i = n + 1
    OBVIOUS
  <2>1. ~(i < n + 1)
    BY <1>1, <1>2
  <2>2. ~(n + 1 < i)
    <3> SUFFICES ASSUME n + 1 < i PROVE FALSE
      OBVIOUS
    <3>1. n + 1 \in 1..i-1 /\ n + 1 \in 1..N
      BY <1>1
    <3>2. StepOrder[n + 1] \in Names(rec)
      BY <3>1
    <3> QED BY <3>1, <3>2, <1>1, <1>2, StepFacts
  <2> QED BY <2>1, <2>2, <1>1
<1>5. FirstRemaining(rec) = CHOOSE i \in 1..N+1 : P(i)
  BY DEF FirstRemaining
<1> HIDE DEF P
<1> QED BY <1>1, <1>3, <1>4, <1>5

\* The entries of a record's completedSteps.
LEMMA EntryType ==
  ASSUME NEW rec \in Record
  PROVE  /\ rec.completedSteps \in Seq(CompletedStep)
         /\ Len(rec.completedSteps) \in Nat
         /\ \A i \in 1..Len(rec.completedSteps) :
              /\ rec.completedSteps[i] \in CompletedStep
              /\ rec.completedSteps[i].stepName \in Steps
              /\ rec.completedSteps[i].status \in {"completed", "compensated"}
<1>1. rec.completedSteps \in Seq(CompletedStep)
  BY DEF Record
<1>2. \A i \in 1..Len(rec.completedSteps) : rec.completedSteps[i] \in CompletedStep
  BY <1>1
<1>3. \A e \in CompletedStep : e.stepName \in Steps /\ e.status \in {"completed", "compensated"}
  BY DEF CompletedStep
<1> QED BY <1>1, <1>2, <1>3

\* What save() stores for a record.
LEMMA SavedFields ==
  ASSUME NEW rec \in Record
  PROVE  /\ Saved(rec) \in Record
         /\ Saved(rec).version = rec.version + 1
         /\ Saved(rec).status = rec.status
         /\ Saved(rec).completedSteps = rec.completedSteps
BY DEF Saved, Record
-----------------------------------------------------------------------------
(* Two ways a step changes the state.                                      *)

\* A step that leaves the stored record alone: the invariant is kept when the
\* moving task ends in an acceptable state and effect counts only grow.
LEMMA StepWithoutSave ==
  ASSUME SagaInv, TypeOK', saga' = saga,
         NEW t \in Task, NEW ts \in TaskState,
         task' = [task EXCEPT ![t] = ts],
         TaskOK(ts, saga, executed', undone'),
         ts.pc \in Acting => task[t].pc \in Acting /\ ts.rec = task[t].rec,
         \A s \in Steps : executed'[s] >= executed[s] /\ undone'[s] >= undone[s],
         undone' # undone => saga.status \in Turned,
         saga.status = "absent" => timers' = timers
  PROVE  SagaInv'
<1> USE DEF SagaInv
<1>1. ASSUME NEW rec \in Record, Ran(rec, executed, undone)
      PROVE  Ran(rec, executed', undone')
  <2> SUFFICES ASSUME NEW i \in 1..Len(rec.completedSteps)
               PROVE  /\ executed'[rec.completedSteps[i].stepName] > 0
                      /\ rec.completedSteps[i].status = "compensated"
                           => undone'[rec.completedSteps[i].stepName] > 0
    BY DEF Ran
  <2>1. rec.completedSteps[i].stepName \in Steps
    BY EntryType
  <2> QED BY <2>1, <1>1 DEF Ran, TypeOK
<1>2. SagaOK(saga', timers', executed', undone')
  BY <1>1 DEF SagaOK, TypeOK
<1>3. ASSUME NEW u \in Task PROVE TaskOK(task'[u], saga', executed', undone')
  <2>1. CASE u = t
    BY <2>1 DEF TypeOK
  <2>2. CASE u # t
    <3>1. task'[u] = task[u] /\ task[u] \in TaskState /\ TaskOK(task[u], saga, executed, undone)
      BY <2>2 DEF TypeOK
    <3>2. Carries(task[u]) => CarriedOK(task[u].rec, saga', executed', undone')
      BY <3>1, <1>1 DEF TaskOK, CarriedOK, TaskState
    <3>3. EffectOK(task[u], executed', undone')
      <4>1. CASE task[u].pc = "persist" /\ task[u].mode = "advance"
        <5>1. task[u].at \in 1..N
          BY <3>1, <4>1, StepFacts DEF TaskOK, LoopOK, ForwardOK, InLoop
        <5> QED BY <3>1, <4>1, <5>1, StepFacts DEF TaskOK, EffectOK, TypeOK
      <4>2. CASE task[u].pc = "persist" /\ task[u].mode = "compensate"
        <5>1. task[u].at \in 1..Len(task[u].rec.completedSteps)
          BY <3>1, <4>2 DEF TaskOK, LoopOK, BackwardOK, InLoop, TaskState, Record
        <5>2. task[u].rec.completedSteps[task[u].at].stepName \in Steps
          BY <3>1, <5>1, EntryType DEF TaskState
        <5> QED BY <3>1, <4>2, <5>2 DEF TaskOK, EffectOK, TypeOK
      <4> QED BY <4>1, <4>2 DEF EffectOK
    <3> QED BY <3>1, <3>2, <3>3 DEF TaskOK
  <2> QED BY <2>1, <2>2
<1>4. ClaimsExclusive'
  BY DEF ClaimsExclusive, TypeOK, Acting
<1> QED BY <1>2, <1>3, <1>4

\* A step that saves: the version test makes the task's record the stored one,
\* so the new row extends it, and every other task is left with an older one.
LEMMA StepWithSave ==
  ASSUME SagaInv, TypeOK',
         NEW t \in Task, NEW ts \in TaskState, NEW rec \in Record,
         task' = [task EXCEPT ![t] = ts],
         Carries(task[t]), VersionMatches(task[t].rec), saga' = Saved(rec),
         rec.version = task[t].rec.version,
         rec.status # "absent", RecordOK(rec), Ran(rec, executed, undone),
         task[t].rec.status \in Turned => rec.status \in Turned,
         LoopOK(ts), ts.pc # "persist",
         Carries(ts) /\ (ts.rec = saga' \/ (ts.rec = task[t].rec /\ ts.pc \notin Acting)),
         executed' = executed, undone' = undone, timers' = timers
  PROVE  SagaInv'
<1> USE DEF SagaInv
<1>1. /\ task[t] \in TaskState /\ saga \in Record
      /\ TaskOK(task[t], saga, executed, undone)
      /\ task[t].rec = saga
      /\ rec.version = saga.version
  BY DEF TypeOK, VersionMatches, TaskOK, CarriedOK
<1>2. /\ saga' \in Record
      /\ saga'.version = saga.version + 1
      /\ saga'.status = rec.status
      /\ saga'.completedSteps = rec.completedSteps
  BY <1>1, SavedFields
<1>3. saga.status \in Turned => saga'.status \in Turned
  BY <1>1, <1>2
<1>4. RecordOK(saga') /\ Ran(saga', executed', undone')
  BY <1>2 DEF RecordOK, Ran
<1>5. SagaOK(saga', timers', executed', undone')
  BY <1>1, <1>2, <1>3, <1>4 DEF SagaOK
<1>6. ASSUME NEW u \in Task PROVE TaskOK(task'[u], saga', executed', undone')
  <2>1. CASE u = t
    <3>1. task'[u] = ts
      BY <2>1 DEF TypeOK
    <3>2. CarriedOK(ts.rec, saga', executed', undone')
      <4>1. CASE ts.rec = saga'
        BY <4>1, <1>2, <1>4 DEF CarriedOK, Record
      <4>2. CASE ts.rec = task[t].rec
        BY <4>2, <1>1, <1>2, <1>3 DEF CarriedOK, TaskOK, Record
      <4> QED BY <4>1, <4>2
    <3> QED BY <3>1, <3>2, <1>2 DEF TaskOK, EffectOK
  <2>2. CASE u # t
    <3>1. task'[u] = task[u] /\ task[u] \in TaskState /\ TaskOK(task[u], saga, executed, undone)
      BY <2>2 DEF TypeOK
    <3>2. Carries(task[u]) => CarriedOK(task[u].rec, saga', executed', undone')
      BY <3>1, <1>1, <1>2, <1>3 DEF TaskOK, CarriedOK, TaskState, Record
    <3> QED BY <3>1, <3>2, <1>2 DEF TaskOK
  <2> QED BY <2>1, <2>2
<1>7. ClaimsExclusive'
  <2> SUFFICES ASSUME NEW u \in Task, NEW v \in Task, u # v,
                      task'[u].pc \in Acting, task'[v].pc \in Acting
               PROVE  task'[u].rec.version # task'[v].rec.version
    BY DEF ClaimsExclusive, Acting
  <2>1. ASSUME NEW w \in Task, w # t, task'[w].pc \in Acting
        PROVE  task'[w] = task[w] /\ task[w].rec.version < saga'.version
    <3>1. task'[w] = task[w] /\ task[w] \in TaskState /\ TaskOK(task[w], saga, executed, undone)
      BY <2>1 DEF TypeOK
    <3> QED BY <3>1, <2>1, <1>1, <1>2 DEF TaskOK, Carries, CarriedOK, TaskState, Record, Acting
  <2>2. task'[t] = ts
    BY DEF TypeOK
  <2>3. ts.pc \in Acting => ts.rec.version = saga'.version
    OBVIOUS
  <2>4. CASE u # t /\ v # t
    BY <2>4, <2>1 DEF ClaimsExclusive, Acting
  <2>5. CASE u = t
    <3>1. task'[v].rec.version < saga'.version /\ task'[v].rec.version \in Nat
      BY <2>5, <2>1 DEF TypeOK, TaskState, Record
    <3> QED BY <2>5, <2>2, <2>3, <3>1, <1>2 DEF Record
  <2>6. CASE v = t
    <3>1. task'[u].rec.version < saga'.version /\ task'[u].rec.version \in Nat
      BY <2>6, <2>1 DEF TypeOK, TaskState, Record
    <3> QED BY <2>6, <2>2, <2>3, <3>1, <1>2 DEF Record
  <2> QED BY <2>4, <2>5, <2>6
<1> QED BY <1>5, <1>6, <1>7
-----------------------------------------------------------------------------
(* Types of the parts that several actions share.                          *)

LockTypes ==
  /\ locks \in [Keys -> [owner : Instance \cup {Dead}] \cup {NoLock}]
  /\ renewing \in [Instance -> SUBSET Keys]
  /\ stolenKeys \in [Instance -> SUBSET Keys]

\* Acquiring and releasing a lock keep the lock table well-formed.
LEMMA TakeType ==
  ASSUME LockTypes, NEW i \in Instance, NEW k \in Keys, Take(i, k)
  PROVE  LockTypes'
<1>1. Payload(i) \in [owner : Instance \cup {Dead}]
  BY DEF Payload
<1> HIDE DEF Payload
<1> QED BY <1>1 DEF LockTypes, Take, lockVars, Redis!LuaAcquire

\* Giving up keys leaves a lock table.
LEMMA DropType ==
  ASSUME LockTypes, NEW i \in Instance, NEW k \in Keys, Drop(i, k)
  PROVE  LockTypes'
BY DEF LockTypes, Drop, lockVars, Redis!LuaRelease

\* Spending from a budget leaves a budget.
LEMMA SpendType ==
  ASSUME budget \in [Kinds -> Nat], NEW kind \in Kinds, Spend(kind)
  PROVE  budget' \in [Kinds -> Nat]
BY DEF Spend

\* Reading a task's state out of the invariant.
LEMMA TaskFacts ==
  ASSUME SagaInv, NEW t \in Task
  PROVE  /\ task[t] \in TaskState
         /\ task[t].pc \in Labels
         /\ task[t].mode \in {"advance", "compensate"}
         /\ task[t].rec \in Record
         /\ host[t] \in Instance
         /\ TaskOK(task[t], saga, executed, undone)
         /\ saga \in Record
         /\ LockTypes
BY HostAssumption DEF SagaInv, TypeOK, TaskState, LockTypes

\* The step in hand is a step of the saga, hence a lock key.
LEMMA StepInHand ==
  ASSUME SagaInv, NEW t \in Task, task[t].pc \in InLoop, ~LoopDone(t)
  PROVE  /\ StepOf(t) \in Steps
         /\ StepOf(t) \in Keys
         /\ task[t].mode = "advance" => task[t].at \in 1..N
         /\ task[t].mode = "compensate" => task[t].at \in 1..Len(task[t].rec.completedSteps)
<1>1. CASE task[t].mode = "advance"
  <2>1. task[t].at \in 1..N
    <3>1. ForwardOK(task[t]) /\ task[t].at # N + 1
      BY <1>1, TaskFacts DEF TaskOK, LoopOK, LoopDone
    <3>2. N \in Nat
      BY StepFacts
    <3>3. task[t].at \in 1..N+1
      BY <3>1 DEF ForwardOK
    <3> QED BY <3>1, <3>2, <3>3
  <2> QED BY <1>1, <2>1, StepFacts DEF StepOf
<1>2. CASE task[t].mode = "compensate"
  <2>1. task[t].at \in 1..Len(task[t].rec.completedSteps)
    BY <1>2, TaskFacts, EntryType DEF TaskOK, LoopOK, BackwardOK, LoopDone
  <2>2. task[t].rec.completedSteps[task[t].at].stepName \in Steps
    BY <2>1, TaskFacts, EntryType
  <2> QED BY <1>2, <2>1, <2>2, StepFacts DEF StepOf
<1> QED BY <1>1, <1>2, TaskFacts

\* Past the head of the loop a step is in hand.
LEMMA PastHead ==
  ASSUME SagaInv, NEW t \in Task, task[t].pc \in InLoop \ {"claim"}
  PROVE  ~LoopDone(t)
<1>1. CASE task[t].mode = "advance"
  <2>1. ForwardOK(task[t]) /\ task[t].pc # "claim"
    BY <1>1, TaskFacts DEF TaskOK, LoopOK
  <2>2. N \in Nat /\ task[t].at <= N
    BY <2>1, StepFacts DEF ForwardOK
  <2> QED BY <1>1, <2>2 DEF LoopDone
<1>2. CASE task[t].mode = "compensate"
  BY <1>2, TaskFacts DEF TaskOK, LoopOK, BackwardOK, LoopDone
<1> QED BY <1>1, <1>2, TaskFacts

\* Giving up is always acceptable.
LEMMA ExitOK ==
  ASSUME SagaInv, NEW t \in Task, Carries(task[t]), NEW l \in {"return", "throw"}
  PROVE  /\ [task[t] EXCEPT !.pc = l] \in TaskState
         /\ TaskOK([task[t] EXCEPT !.pc = l], saga, executed, undone)
<1>1. [task[t] EXCEPT !.pc = l] \in TaskState
  BY TaskFacts DEF TaskState, Labels
<1>2. /\ [task[t] EXCEPT !.pc = l].pc = l
      /\ [task[t] EXCEPT !.pc = l].rec = task[t].rec
  BY TaskFacts DEF TaskState
<1> HIDE DEF Carries
<1>3. CarriedOK(task[t].rec, saga, executed, undone) /\ saga.status # "absent"
  BY TaskFacts DEF TaskOK, Carries
<1> QED BY <1>1, <1>2, <1>3 DEF TaskOK, LoopOK, EffectOK, InLoop

\* Where advance() starts is a consistent point of one of the two loops.
LEMMA EnterAdvanceOK ==
  ASSUME NEW ts \in TaskState, NEW rec \in Record, RecordOK(rec),
         rec.status \notin Terminal, rec.status # "absent"
  PROVE  /\ EnterAdvance(ts, rec) \in TaskState
         /\ EnterAdvance(ts, rec).pc = "claim"
         /\ EnterAdvance(ts, rec).rec = rec
         /\ LoopOK(EnterAdvance(ts, rec))
<1> DEFINE en == EnterAdvance(ts, rec)
<1>0. Len(rec.completedSteps) \in Nat /\ rec.status \in Status
      /\ Len(rec.completedSteps) <= N /\ N \in Nat
  BY EntryType, StepFacts DEF Record, RecordOK
<1>1. CASE rec.status \in {"compensating", "timed_out"}
  <2>1. en = [ts EXCEPT !.pc = "claim", !.mode = "compensate", !.rec = rec,
                        !.at = Len(rec.completedSteps)]
    BY <1>1 DEF EnterAdvance
  <2>2. /\ en \in TaskState /\ en.pc = "claim" /\ en.rec = rec
        /\ en.mode = "compensate" /\ en.at = Len(rec.completedSteps)
    BY <2>1, <1>0 DEF TaskState, Labels
  <2>3. BackwardOK(en)
    BY <2>2, <1>0, <1>1 DEF BackwardOK
  <2> QED BY <2>2, <2>3 DEF LoopOK
<1>2. CASE rec.status \notin {"compensating", "timed_out"}
  <2>1. en = [ts EXCEPT !.pc = "claim", !.mode = "advance", !.rec = rec,
                        !.at = Len(rec.completedSteps) + 1]
    BY <1>2, FirstRemainingNext DEF EnterAdvance
  <2>2. /\ en \in TaskState /\ en.pc = "claim" /\ en.rec = rec
        /\ en.mode = "advance" /\ en.at = Len(rec.completedSteps) + 1
    <3>1. Len(rec.completedSteps) + 1 \in Nat
      BY <1>0
    <3> HIDE DEF en
    <3> QED BY <2>1, <3>1 DEF TaskState, Labels
  <2>3. rec.status = "running"
    BY <1>0, <1>2 DEF Status, Terminal, Incomplete
  <2>4. ForwardOK(en)
    BY <2>2, <2>3, <1>0 DEF ForwardOK
  <2> QED BY <2>2, <2>4 DEF LoopOK
<1> QED BY <1>1, <1>2

\* The loops look at a record's status and entries only.
LEMMA LoopRecord ==
  ASSUME NEW ts \in TaskState, NEW rec \in Record, LoopOK(ts),
         rec.status = ts.rec.status, rec.completedSteps = ts.rec.completedSteps
  PROVE  /\ [ts EXCEPT !.rec = rec] \in TaskState
         /\ [ts EXCEPT !.rec = rec].pc = ts.pc
         /\ [ts EXCEPT !.rec = rec].rec = rec
         /\ LoopOK([ts EXCEPT !.rec = rec])
<1> DEFINE tr == [ts EXCEPT !.rec = rec]
<1>1. tr \in TaskState /\ tr.pc = ts.pc /\ tr.rec = rec /\ tr.mode = ts.mode /\ tr.at = ts.at
  BY DEF TaskState
<1> HIDE DEF tr
<1>2. LoopOK(tr)
  BY <1>1 DEF LoopOK, ForwardOK, BackwardOK
<1> QED BY <1>1, <1>2 DEF tr
-----------------------------------------------------------------------------
(* One lemma per action: tasks being started.                              *)

\* run() creates the row, or reads it.
LEMMA RunKeeps == ASSUME SagaInv, NEW t \in Task, Run(t) PROVE SagaInv'
<1> USE DEF SagaInv
<1>0. task[t].pc = "idle" /\ saga \in Record /\ task[t] \in TaskState
  BY TaskFacts DEF Run, At
<1>1. budget' \in [Kinds -> Nat]
  BY SpendType DEF Run, Kinds, TypeOK
<1>2. CASE saga.status = "absent"
  <2>1. \A u \in Task : task[u].pc = "idle"
    BY <1>2, TaskFacts DEF TaskOK
  <2>2. /\ NewRecord \in Record /\ NewRecord.status = "running"
        /\ NewRecord.completedSteps = <<>> /\ saga' = NewRecord
    <3>1. StepOrder[1] \in Steps
      BY StepFacts
    <3>2. NewRecord \in Record
      BY <3>1 DEF NewRecord, Record, Status, Incomplete
    <3> QED BY <3>2, <1>2 DEF NewRecord, Run
  <2> DEFINE ts == [task[t] EXCEPT !.pc = "lock", !.rec = NewRecord]
  <2>3. /\ ts \in TaskState /\ ts.pc = "lock" /\ ts.rec = NewRecord
        /\ task' = [task EXCEPT ![t] = ts]
    <3>1. ts \in TaskState /\ ts.pc = "lock" /\ ts.rec = NewRecord
      BY <1>0, <2>2 DEF TaskState, Labels
    <3>2. task' = [task EXCEPT ![t].pc = "lock", ![t].rec = NewRecord]
      BY <2>2 DEF Run, Terminal
    <3> QED BY <3>1, <3>2
  <2> HIDE DEF ts
  <2>4. TypeOK'
    BY <1>1, <2>2, <2>3 DEF TypeOK, Run, lockVars, effectVars
  <2>5. RecordOK(NewRecord) /\ Ran(NewRecord, executed', undone')
    BY <2>2, StepFacts DEF RecordOK, Ran
  <2>6. SagaOK(saga', timers', executed', undone')
    BY <2>2, <2>5, <1>2 DEF SagaOK, Run, effectVars, Turned
  <2>7. TaskOK(ts, saga', executed', undone')
    BY <2>2, <2>3, <2>5 DEF TaskOK, LoopOK, EffectOK, CarriedOK, Turned, InLoop, Terminal, Record
  <2>8. \A u \in Task : u # t => task'[u] = task[u]
    BY <2>3 DEF TypeOK
  <2>9. \A u \in Task : TaskOK(task'[u], saga', executed', undone')
    <3> SUFFICES ASSUME NEW u \in Task PROVE TaskOK(task'[u], saga', executed', undone')
      OBVIOUS
    <3>1. CASE u = t
      BY <3>1, <2>7, <2>3 DEF TypeOK
    <3>2. CASE u # t
      BY <3>2, <2>1, <2>8 DEF TaskOK, LoopOK, EffectOK, Carries, InLoop
    <3> QED BY <3>1, <3>2
  <2>10. ClaimsExclusive'
    BY <2>1, <2>3, <2>8 DEF ClaimsExclusive, TypeOK
  <2> QED BY <2>4, <2>6, <2>9, <2>10
<1>3. CASE saga.status # "absent"
  <2>1. saga' = saga /\ executed' = executed /\ undone' = undone /\ timers' = timers
    BY <1>3 DEF Run, effectVars
  <2>2. CASE saga.status \in Terminal
    <3>1. task' = [task EXCEPT ![t] = task[t]]
      BY <2>1, <2>2 DEF Run, TypeOK
    <3>2. TypeOK'
      BY <1>1, <2>1, <3>1 DEF TypeOK, Run, lockVars
    <3>3. /\ TaskOK(task[t], saga, executed', undone')
          /\ \A s \in Steps : executed'[s] >= executed[s] /\ undone'[s] >= undone[s]
      BY <2>1, TaskFacts DEF TypeOK
    <3> QED BY <1>0, <2>1, <3>1, <3>2, <3>3, StepWithoutSave DEF Acting
  <2>3. CASE saga.status \notin Terminal
    <3> DEFINE ts == [task[t] EXCEPT !.pc = "lock", !.rec = saga]
    <3>1. ts \in TaskState /\ ts.pc = "lock" /\ ts.rec = saga
      BY <1>0 DEF TaskState, Labels
    <3>2. task' = [task EXCEPT ![t] = ts]
      BY <2>1, <2>3 DEF Run
    <3> HIDE DEF ts
    <3>3. TypeOK'
      BY <1>1, <2>1, <3>1, <3>2 DEF TypeOK, Run, lockVars
    <3>4. TaskOK(ts, saga, executed', undone')
      BY <3>1, <2>1, <2>3, <1>3, <1>0 DEF TaskOK, LoopOK, EffectOK, CarriedOK, InLoop, SagaOK, Record
    <3>5. \A s \in Steps : executed'[s] >= executed[s] /\ undone'[s] >= undone[s]
      BY <2>1 DEF TypeOK
    <3> QED BY <2>1, <3>1, <3>2, <3>3, <3>4, <3>5, StepWithoutSave DEF Acting
  <2> QED BY <2>2, <2>3
<1> QED BY <1>2, <1>3

\* A step that moves one task and changes neither the row nor an effect.
LEMMA QuietStep ==
  ASSUME SagaInv, NEW t \in Task, NEW ts \in TaskState,
         task' = [task EXCEPT ![t] = ts],
         TaskOK(ts, saga, executed, undone),
         ts.pc \in Acting => task[t].pc \in Acting /\ ts.rec = task[t].rec,
         UNCHANGED <<saga, lapsedTo, overdue, effectVars>>, LockTypes',
         timers' \in [Instance -> SUBSET Nat], booting' \in SUBSET Instance,
         budget' \in [Kinds -> Nat],
         saga.status = "absent" => timers' = timers
  PROVE  SagaInv'
<1>1. TypeOK'
  BY DEF SagaInv, TypeOK, LockTypes, effectVars
<1>2. /\ executed' = executed /\ undone' = undone /\ saga' = saga
      /\ \A s \in Steps : executed'[s] >= executed[s] /\ undone'[s] >= undone[s]
  BY DEF SagaInv, TypeOK, effectVars
<1> QED BY <1>1, <1>2, StepWithoutSave

\* The types QuietStep asks for, when the variables are left alone.
LEMMA Frame ==
  ASSUME SagaInv
  PROVE  /\ UNCHANGED lockVars => LockTypes'
         /\ UNCHANGED timers => timers' \in [Instance -> SUBSET Nat]
         /\ UNCHANGED booting => booting' \in SUBSET Instance
         /\ UNCHANGED budget => budget' \in [Kinds -> Nat]
         /\ \A kind \in Kinds : Spend(kind) => budget' \in [Kinds -> Nat]
BY SpendType DEF SagaInv, TypeOK, LockTypes, lockVars

\* The row is a record any task may pick up.
LEMMA SagaCarried ==
  ASSUME SagaInv, saga.status # "absent"
  PROVE  CarriedOK(saga, saga, executed, undone)
BY DEF SagaInv, SagaOK, CarriedOK, TypeOK, Record

\* The read at the head of resume().
LEMMA ResumeReadOK ==
  ASSUME SagaInv, NEW t \in Task, saga.status # "absent", ResumeRead(t)
  PROVE  \E ts \in TaskState :
           /\ task' = [task EXCEPT ![t] = ts]
           /\ TaskOK(ts, saga, executed, undone)
           /\ ts.pc \notin Acting
<1> DEFINE l == IF saga.status \in Terminal THEN "return" ELSE "lock"
           ts == [task[t] EXCEPT !.pc = l, !.rec = saga]
<1>1. ts \in TaskState /\ ts.pc = l /\ ts.rec = saga
  BY TaskFacts DEF TaskState, Labels
<1>2. task' = [task EXCEPT ![t] = ts]
  BY DEF ResumeRead
<1> HIDE DEF ts
<1>3. TaskOK(ts, saga, executed, undone) /\ ts.pc \notin Acting
  BY <1>1, SagaCarried DEF TaskOK, LoopOK, EffectOK, InLoop, Acting
<1> QED BY <1>1, <1>2, <1>3

\* resume() starts from the stored record as it is.
LEMMA CallResumeKeeps == ASSUME SagaInv, NEW t \in Task, CallResume(t) PROVE SagaInv'
<1>1. PICK ts \in TaskState : /\ task' = [task EXCEPT ![t] = ts]
                              /\ TaskOK(ts, saga, executed, undone)
                              /\ ts.pc \notin Acting
  BY ResumeReadOK DEF CallResume
<1>2. budget' \in [Kinds -> Nat]
  BY Frame DEF CallResume, Kinds
<1> QED BY <1>1, <1>2, Frame, QuietStep DEF CallResume

\* The resume() inside recoverOne() starts from the stored record too.
LEMMA RecoverResumeKeeps ==
  ASSUME SagaInv, NEW t \in Task, RecoverResume(t) PROVE SagaInv'
<1>0. saga.status # "absent"
  BY TaskFacts DEF TaskOK, RecoverResume, At
<1>1. PICK ts \in TaskState : /\ task' = [task EXCEPT ![t] = ts]
                              /\ TaskOK(ts, saga, executed, undone)
                              /\ ts.pc \notin Acting
  BY <1>0, ResumeReadOK DEF RecoverResume
<1> QED BY <1>1, Frame, QuietStep DEF RecoverResume

\* A task that has listed the saga carries nothing yet.
LEMMA ListedOK ==
  ASSUME SagaInv, NEW t \in Task, saga.status # "absent"
  PROVE  /\ [task[t] EXCEPT !.pc = "listed"] \in TaskState
         /\ TaskOK([task[t] EXCEPT !.pc = "listed"], saga, executed, undone)
         /\ [task[t] EXCEPT !.pc = "listed"].pc \notin Acting
<1> DEFINE ts == [task[t] EXCEPT !.pc = "listed"]
<1>1. ts \in TaskState /\ ts.pc = "listed"
  BY TaskFacts DEF TaskState, Labels
<1> HIDE DEF ts
<1>2. TaskOK(ts, saga, executed, undone) /\ ts.pc \notin Acting
  BY <1>1 DEF TaskOK, LoopOK, EffectOK, Carries, InLoop, Acting
<1> QED BY <1>1, <1>2 DEF ts

\* Startup recovery lists the saga and writes nothing.
LEMMA BootKeeps == ASSUME SagaInv, NEW t \in Task, Boot(t) PROVE SagaInv'
<1>0. booting' \in SUBSET Instance
  BY DEF Boot, SagaInv, TypeOK
<1>1. CASE saga.status \in Incomplete
  <2>1. saga.status # "absent" /\ task' = [task EXCEPT ![t] = [task[t] EXCEPT !.pc = "listed"]]
    BY <1>1 DEF Boot, Goto, Incomplete
  <2> QED BY <1>0, <2>1, ListedOK, Frame, QuietStep DEF Boot
<1>2. CASE saga.status \notin Incomplete
  <2>1. task' = [task EXCEPT ![t] = task[t]]
    BY <1>2 DEF Boot, SagaInv, TypeOK
  <2> QED BY <1>0, <2>1, TaskFacts, Frame, QuietStep DEF Boot
<1> QED BY <1>1, <1>2

\* A tick of the sweeper lists the saga and writes nothing.
LEMMA SweepKeeps == ASSUME SagaInv, NEW t \in Task, Sweep(t) PROVE SagaInv'
<1>1. saga.status # "absent" /\ task' = [task EXCEPT ![t] = [task[t] EXCEPT !.pc = "listed"]]
  BY DEF Sweep, Goto, Incomplete
<1> QED BY <1>1, ListedOK, Frame, QuietStep DEF Sweep

\* A retry timer starts another resume().
LEMMA FireRetryKeeps == ASSUME SagaInv, NEW t \in Task, FireRetry(t) PROVE SagaInv'
<1>1. PICK c \in timers[host[t]] : timers' = [timers EXCEPT ![host[t]] = @ \ {c}]
  BY DEF FireRetry
<1>2. saga.status # "absent"
  BY <1>1, TaskFacts DEF SagaInv, SagaOK
<1>3. timers' \in [Instance -> SUBSET Nat]
  BY <1>1 DEF SagaInv, TypeOK
<1>4. task' = [task EXCEPT ![t] = [task[t] EXCEPT !.pc = "listed"]]
  BY DEF FireRetry, Goto
<1> QED BY <1>2, <1>3, <1>4, ListedOK, Frame, QuietStep DEF FireRetry

\* recoverOne() carries the record it re-reads, turned around if it is overdue.
LEMMA RecoverOneKeeps == ASSUME SagaInv, NEW t \in Task, RecoverOne(t) PROVE SagaInv'
<1>0. saga.status # "absent" /\ task[t].pc = "listed"
  BY TaskFacts DEF TaskOK, RecoverOne, At
<1>1. CASE overdue
  <2> DEFINE ts == [task[t] EXCEPT !.pc = "expired", !.rec = saga]
  <2>1. ts \in TaskState /\ ts.pc = "expired" /\ ts.rec = saga
    BY TaskFacts DEF TaskState, Labels
  <2>2. task' = [task EXCEPT ![t] = ts]
    BY <1>1 DEF RecoverOne
  <2> HIDE DEF ts
  <2>3. TaskOK(ts, saga, executed, undone) /\ ts.pc \notin Acting
    BY <2>1, <1>0, SagaCarried DEF TaskOK, LoopOK, EffectOK, InLoop, Acting
  <2> QED BY <2>1, <2>2, <2>3, Frame, QuietStep DEF RecoverOne
<1>2. CASE ~overdue
  <2> DEFINE ts == [task[t] EXCEPT !.pc = "resume", !.recovering = TRUE]
  <2>1. ts \in TaskState /\ ts.pc = "resume"
    BY TaskFacts DEF TaskState, Labels
  <2>2. task' = [task EXCEPT ![t] = ts]
    BY <1>2 DEF RecoverOne
  <2> HIDE DEF ts
  <2>3. TaskOK(ts, saga, executed, undone) /\ ts.pc \notin Acting
    BY <2>1, <1>0 DEF TaskOK, LoopOK, EffectOK, Carries, InLoop, Acting
  <2> QED BY <2>1, <2>2, <2>3, Frame, QuietStep DEF RecoverOne
<1> QED BY <1>1, <1>2
-----------------------------------------------------------------------------
(* One lemma per action: locks, claims and the loops.                      *)

\* A step that saves, with the frame conditions all such actions share.
LEMMA SavingStep ==
  ASSUME SagaInv, NEW t \in Task, NEW ts \in TaskState, NEW rec \in Record,
         task' = [task EXCEPT ![t] = ts],
         Carries(task[t]), VersionMatches(task[t].rec), saga' = Saved(rec),
         rec.version = task[t].rec.version,
         rec.status # "absent", RecordOK(rec), Ran(rec, executed, undone),
         task[t].rec.status \in Turned => rec.status \in Turned,
         LoopOK(ts), ts.pc # "persist",
         Carries(ts) /\ (ts.rec = saga' \/ (ts.rec = task[t].rec /\ ts.pc \notin Acting)),
         UNCHANGED <<lapsedTo, overdue, timers, booting, effectVars>>, LockTypes',
         budget' \in [Kinds -> Nat]
  PROVE  SagaInv'
<1>1. saga' \in Record
  BY SavedFields
<1>2. TypeOK'
  BY <1>1 DEF SagaInv, TypeOK, LockTypes, effectVars
<1>3. executed' = executed /\ undone' = undone /\ timers' = timers
  BY DEF effectVars
<1> QED BY <1>2, <1>3, StepWithSave

\* A task that gives up.
LEMMA ExitStep ==
  ASSUME SagaInv, NEW t \in Task, Carries(task[t]), NEW l \in {"return", "throw"},
         Goto(t, l), UNCHANGED <<saga, lapsedTo, overdue, timers, booting, effectVars>>,
         LockTypes', budget' \in [Kinds -> Nat]
  PROVE  SagaInv'
<1>1. task' = [task EXCEPT ![t] = [task[t] EXCEPT !.pc = l]]
  BY DEF Goto
<1>2. [task[t] EXCEPT !.pc = l].pc = l
  BY TaskFacts DEF TaskState
<1> QED BY <1>1, <1>2, ExitOK, Frame, QuietStep DEF Acting

\* A write that throws leaves the row alone, or has committed all the same.
LEMMA FailedSave ==
  ASSUME SagaInv, NEW t \in Task, NEW rec, SaveFault(t, rec) \/ Conflict(t)
  PROVE  /\ saga' = saga \/ (VersionMatches(task[t].rec) /\ saga' = Saved(rec))
         /\ budget' \in [Kinds -> Nat]
BY Frame DEF SaveFault, Conflict, Kinds

\* After a write that threw the task goes on with the record it had, and without
\* the claim: whether the write has committed makes no difference to the others.
LEMMA ThrownSave ==
  ASSUME SagaInv, NEW t \in Task, Carries(task[t]), NEW rec,
         SaveFault(t, rec) \/ Conflict(t),
         VersionMatches(task[t].rec) =>
           /\ rec \in Record /\ rec.version = task[t].rec.version /\ rec.status # "absent"
           /\ RecordOK(rec) /\ Ran(rec, executed, undone)
           /\ task[t].rec.status \in Turned => rec.status \in Turned,
         NEW l \in {"return", "throw", "undoFailSave"}, Goto(t, l),
         l = "undoFailSave" => task[t].rec.status \in {"compensating", "timed_out"},
         UNCHANGED <<lapsedTo, overdue, timers, booting, effectVars>>, LockTypes'
  PROVE  SagaInv'
<1> DEFINE ts == [task[t] EXCEPT !.pc = l]
<1>1. ts \in TaskState /\ ts.pc = l /\ ts.rec = task[t].rec
  BY TaskFacts DEF TaskState, Labels
<1>2. task' = [task EXCEPT ![t] = ts]
  BY DEF Goto
<1> HIDE DEF ts
<1>3. LoopOK(ts) /\ Carries(ts) /\ ts.pc \notin Acting
  BY <1>1 DEF LoopOK, Carries, Acting, InLoop
<1>4. CASE saga' = saga
  <2>1. CarriedOK(task[t].rec, saga, executed, undone) /\ saga.status # "absent"
    BY TaskFacts DEF TaskOK, Carries
  <2>2. TaskOK(ts, saga, executed, undone)
    BY <1>1, <1>3, <2>1 DEF TaskOK, EffectOK
  <2> QED BY <1>1, <1>2, <1>3, <1>4, <2>2, FailedSave, Frame, QuietStep
<1>5. CASE VersionMatches(task[t].rec) /\ saga' = Saved(rec)
  <2>1. ts.pc # "persist"
    BY <1>1
  <2> QED BY <1>1, <1>2, <1>3, <1>5, <2>1, FailedSave, SavingStep
<1> QED BY <1>4, <1>5, FailedSave

\* A successful save that keeps status and entries, or changes the status.
LEMMA SavedTask ==
  ASSUME NEW t \in Task, NEW ts \in TaskState, NEW rec \in Record, LoopOK(ts),
         ts.rec.status = rec.status, ts.rec.completedSteps = rec.completedSteps,
         SaveOk(t, rec, ts)
  PROVE  /\ [ts EXCEPT !.rec = Saved(rec)] \in TaskState
         /\ [ts EXCEPT !.rec = Saved(rec)].pc = ts.pc
         /\ [ts EXCEPT !.rec = Saved(rec)].rec = saga'
         /\ LoopOK([ts EXCEPT !.rec = Saved(rec)])
         /\ task' = [task EXCEPT ![t] = [ts EXCEPT !.rec = Saved(rec)]]
         /\ saga' = Saved(rec)
         /\ VersionMatches(task[t].rec)
         /\ budget' = budget
<1>1. /\ saga' = Saved(rec) /\ budget' = budget /\ VersionMatches(task[t].rec)
      /\ task' = [task EXCEPT ![t] = [ts EXCEPT !.rec = Saved(rec)]]
  BY DEF SaveOk
<1>2. /\ Saved(rec) \in Record /\ Saved(rec).status = ts.rec.status
      /\ Saved(rec).completedSteps = ts.rec.completedSteps
  BY SavedFields
<1> QED BY <1>1, <1>2, LoopRecord

\* withWorkflowLock() decides who enters; the invariant does not care.
LEMMA AcquireWorkflowKeeps ==
  ASSUME SagaInv, NEW t \in Task, AcquireWorkflow(t) PROVE SagaInv'
<1>0. /\ task[t].pc = "lock" /\ Carries(task[t]) /\ saga.status # "absent"
      /\ CarriedOK(task[t].rec, saga, executed, undone)
      /\ task[t].rec.status \notin Terminal
  BY TaskFacts DEF TaskOK, LoopOK, AcquireWorkflow, At, Carries
<1>1. CASE CanTake(host[t], WorkflowKey)
  <2> DEFINE en == EnterAdvance(task[t], task[t].rec)
             ts == [en EXCEPT !.locked = TRUE]
  <2>1. en \in TaskState /\ en.pc = "claim" /\ en.rec = task[t].rec /\ LoopOK(en)
    BY <1>0, TaskFacts, EnterAdvanceOK DEF CarriedOK
  <2>2. task' = [task EXCEPT ![t] = ts] /\ Take(host[t], WorkflowKey)
    BY <1>1 DEF AcquireWorkflow
  <2> HIDE DEF en
  <2>3. ts \in TaskState /\ ts.pc = "claim" /\ ts.rec = en.rec /\ ts.mode = en.mode /\ ts.at = en.at
    BY <2>1 DEF TaskState
  <2> HIDE DEF ts
  <2>4. LoopOK(ts)
    BY <2>1, <2>3 DEF LoopOK, ForwardOK, BackwardOK
  <2>5. TaskOK(ts, saga, executed, undone) /\ ts.pc \notin Acting
    BY <2>1, <2>3, <2>4, <1>0 DEF TaskOK, EffectOK, Acting
  <2>6. LockTypes'
    BY <2>2, TakeType, TaskFacts, StepFacts
  <2> QED BY <2>2, <2>3, <2>5, <2>6, Frame, QuietStep DEF AcquireWorkflow
<1>2. CASE ~CanTake(host[t], WorkflowKey)
  <2> DEFINE ts == [task[t] EXCEPT !.pc = "return", !.rec = saga]
  <2>1. ts \in TaskState /\ ts.pc = "return" /\ ts.rec = saga
    BY TaskFacts DEF TaskState, Labels
  <2>2. task' = [task EXCEPT ![t] = ts]
    BY <1>2 DEF AcquireWorkflow
  <2> HIDE DEF ts
  <2>3. TaskOK(ts, saga, executed, undone) /\ ts.pc \notin Acting
    BY <2>1, <1>0, SagaCarried DEF TaskOK, LoopOK, EffectOK, InLoop, Acting
  <2> QED BY <1>2, <2>1, <2>2, <2>3, Frame, QuietStep DEF AcquireWorkflow
<1> QED BY <1>1, <1>2

\* Moving on within the loop, with the same step in hand.
LEMMA NextLabel ==
  ASSUME SagaInv, NEW t \in Task, task[t].pc \in InLoop \ {"release"}, ~LoopDone(t),
         NEW l \in InLoop \ {"release", "persist", "claim"}
  PROVE  /\ [task[t] EXCEPT !.pc = l] \in TaskState
         /\ [task[t] EXCEPT !.pc = l].pc = l
         /\ [task[t] EXCEPT !.pc = l].rec = task[t].rec
         /\ LoopOK([task[t] EXCEPT !.pc = l])
<1> DEFINE ts == [task[t] EXCEPT !.pc = l]
<1>1. /\ ts \in TaskState /\ ts.pc = l /\ ts.rec = task[t].rec
      /\ ts.mode = task[t].mode /\ ts.at = task[t].at
  BY TaskFacts DEF TaskState, Labels, InLoop
<1> HIDE DEF ts
<1>2. CASE task[t].mode = "advance"
  <2>1. ForwardOK(task[t]) /\ task[t].at \in 1..N
    BY <1>2, TaskFacts, StepInHand DEF TaskOK, LoopOK
  <2>2. N \in Nat
    BY StepFacts
  <2>3. ForwardOK(ts)
    BY <2>1, <2>2, <1>1, <1>2 DEF ForwardOK
  <2> QED BY <2>3, <1>1, <1>2 DEF LoopOK, InLoop, ts
<1>3. CASE task[t].mode = "compensate"
  <2>1. BackwardOK(task[t]) /\ task[t].at \in 1..Len(task[t].rec.completedSteps)
    BY <1>3, TaskFacts, StepInHand DEF TaskOK, LoopOK
  <2>2. BackwardOK(ts)
    BY <2>1, <1>1, <1>3, EntryType DEF BackwardOK
  <2> QED BY <2>2, <1>1, <1>3 DEF LoopOK, InLoop, ts
<1> QED BY <1>2, <1>3, TaskFacts

\* claimStep() prepares a claim for the step after the recorded prefix.
LEMMA ClaimStepKeeps ==
  ASSUME SagaInv, NEW t \in Task, ClaimStep(t) PROVE SagaInv'
<1>0. /\ task[t].pc = "claim" /\ ~LoopDone(t) /\ Carries(task[t]) /\ saga.status # "absent"
      /\ CarriedOK(task[t].rec, saga, executed, undone)
      /\ StepOf(t) \in Keys
  BY TaskFacts, StepInHand DEF TaskOK, ClaimStep, At, Carries, InLoop
<1>1. CASE Goto(t, "return") /\ UNCHANGED lockVars
  BY <1>0, <1>1, Frame, ExitStep DEF ClaimStep
<1>2. CASE Goto(t, "claimSave") /\ Take(host[t], StepOf(t))
  <2> DEFINE ts == [task[t] EXCEPT !.pc = "claimSave"]
  <2>1. ts \in TaskState /\ ts.pc = "claimSave" /\ ts.rec = task[t].rec /\ LoopOK(ts)
    BY <1>0, NextLabel DEF InLoop
  <2>2. task' = [task EXCEPT ![t] = ts]
    BY <1>2 DEF Goto
  <2> HIDE DEF ts
  <2>3. TaskOK(ts, saga, executed, undone) /\ ts.pc \notin Acting
    BY <2>1, <1>0 DEF TaskOK, EffectOK, Acting
  <2>4. LockTypes'
    BY <1>0, <1>2, TakeType, TaskFacts
  <2> QED BY <2>1, <2>2, <2>3, <2>4, Frame, QuietStep DEF ClaimStep
<1> QED BY <1>1, <1>2 DEF ClaimStep

\* The step a task has in hand past the head of the loop.
LEMMA InHand ==
  ASSUME SagaInv, NEW t \in Task, task[t].pc \in InLoop \ {"claim"}
  PROVE  /\ ~LoopDone(t) /\ Carries(task[t]) /\ saga.status # "absent"
         /\ CarriedOK(task[t].rec, saga, executed, undone)
         /\ StepOf(t) \in Keys /\ StepOf(t) \in Steps
         /\ task[t].mode = "advance" => task[t].at \in 1..N /\ ForwardOK(task[t])
         /\ task[t].mode = "compensate" =>
              task[t].at \in 1..Len(task[t].rec.completedSteps) /\ BackwardOK(task[t])
<1>1. ~LoopDone(t) /\ task[t].pc \in InLoop
  BY PastHead
<1>2. Carries(task[t])
  BY <1>1 DEF Carries, InLoop
<1>3. TaskOK(task[t], saga, executed, undone)
  BY TaskFacts
<1>4. /\ saga.status # "absent" /\ CarriedOK(task[t].rec, saga, executed, undone)
      /\ task[t].mode = "advance" => ForwardOK(task[t])
      /\ task[t].mode = "compensate" => BackwardOK(task[t])
  BY <1>1, <1>2, <1>3 DEF TaskOK, LoopOK, InLoop
<1> QED BY <1>1, <1>2, <1>4, StepInHand

\* Releasing the step in hand keeps the lock table well-formed.
LEMMA DropStep ==
  ASSUME SagaInv, NEW t \in Task, task[t].pc \in InLoop \ {"claim"}, Drop(host[t], StepOf(t))
  PROVE  LockTypes'
BY InHand, TaskFacts, DropType

\* The save of a claim, or its conflict, under the version test.
LEMMA SaveClaimKeeps == ASSUME SagaInv, NEW t \in Task, SaveClaim(t) PROVE SagaInv'
<1> DEFINE rec == [task[t].rec EXCEPT !.currentStep = StepOf(t), !.claim = task[t].rec.version + 1]
           ts == [task[t] EXCEPT !.pc = "act"]
<1>0. /\ task[t].pc = "claimSave" /\ task[t].pc \in InLoop \ {"claim"}
      /\ UNCHANGED <<lapsedTo, overdue, timers, booting, effectVars>>
  BY DEF SaveClaim, At, InLoop
<1>a. /\ rec \in Record /\ rec.version = task[t].rec.version
      /\ rec.status = task[t].rec.status
      /\ rec.completedSteps = task[t].rec.completedSteps
  <2>1. StepOf(t) \in Steps /\ task[t].rec.version + 1 \in Nat
    BY <1>0, InHand, TaskFacts DEF Record
  <2> QED BY <2>1, TaskFacts DEF Record
<1> HIDE DEF rec
<1>c. rec.status # "absent" /\ RecordOK(rec) /\ Ran(rec, executed, undone)
  BY <1>0, <1>a, InHand DEF CarriedOK, RecordOK, Ran
<1>1. CASE SaveOk(t, rec, ts) /\ UNCHANGED lockVars
  <2>1. ts \in TaskState /\ ts.pc = "act" /\ ts.rec = task[t].rec /\ LoopOK(ts)
    BY <1>0, InHand, NextLabel DEF InLoop
  <2> HIDE DEF ts
  <2>4. /\ [ts EXCEPT !.rec = Saved(rec)] \in TaskState
        /\ [ts EXCEPT !.rec = Saved(rec)].pc = "act"
        /\ [ts EXCEPT !.rec = Saved(rec)].rec = saga'
        /\ LoopOK([ts EXCEPT !.rec = Saved(rec)])
        /\ task' = [task EXCEPT ![t] = [ts EXCEPT !.rec = Saved(rec)]]
        /\ saga' = Saved(rec) /\ VersionMatches(task[t].rec) /\ budget' = budget
    BY <1>1, <2>1, <1>a, SavedTask
  <2>5. Carries([ts EXCEPT !.rec = Saved(rec)])
    BY <2>4 DEF Carries
  <2> QED BY <1>0, <1>1, <1>a, <1>c, <2>4, <2>5, InHand, Frame, SavingStep
<1>2. CASE Conflict(t) /\ Drop(host[t], StepOf(t)) /\ Goto(t, "return")
  BY <1>0, <1>2, <1>a, <1>c, InHand, DropStep, ThrownSave
<1>3. CASE SaveFault(t, rec) /\ Drop(host[t], StepOf(t)) /\ Goto(t, "throw")
  BY <1>0, <1>3, <1>a, <1>c, InHand, DropStep, ThrownSave
<1> QED BY <1>1, <1>2, <1>3 DEF SaveClaim, rec

\* Turning the saga around: the record keeps its entries and gets a status
\* from which compensate() starts.
LEMMA TurnAround ==
  ASSUME SagaInv, NEW t \in Task, Carries(task[t]),
         NEW st \in {"compensating", "timed_out"},
         NEW rec, rec = [task[t].rec EXCEPT !.status = st, !.claim = NoClaim],
         \/ SaveOk(t, rec, EnterAdvance(task[t], rec))
         \/ (SaveFault(t, rec) \/ Conflict(t)) /\ Goto(t, "throw"),
         UNCHANGED <<lapsedTo, overdue, lockVars, timers, booting, effectVars>>
  PROVE  SagaInv'
<1> DEFINE en == EnterAdvance(task[t], rec)
<1>1. /\ rec \in Record /\ rec.status = st /\ rec.version = task[t].rec.version
      /\ rec.completedSteps = task[t].rec.completedSteps
  BY TaskFacts DEF Record, Status, Incomplete
<1>2. CarriedOK(task[t].rec, saga, executed, undone)
  BY TaskFacts DEF TaskOK
<1>3. /\ rec.status \notin Terminal /\ rec.status # "absent" /\ rec.status \in Turned
      /\ RecordOK(rec) /\ Ran(rec, executed, undone)
  BY <1>1, <1>2 DEF CarriedOK, RecordOK, Ran, Terminal, Turned
<1>4. CASE SaveOk(t, rec, en)
  <2>1. en \in TaskState /\ en.pc = "claim" /\ en.rec = rec /\ LoopOK(en)
    BY <1>1, <1>3, TaskFacts, EnterAdvanceOK
  <2> HIDE DEF en
  <2>2. /\ [en EXCEPT !.rec = Saved(rec)] \in TaskState
        /\ [en EXCEPT !.rec = Saved(rec)].pc = "claim"
        /\ [en EXCEPT !.rec = Saved(rec)].rec = saga'
        /\ LoopOK([en EXCEPT !.rec = Saved(rec)])
        /\ task' = [task EXCEPT ![t] = [en EXCEPT !.rec = Saved(rec)]]
        /\ saga' = Saved(rec) /\ VersionMatches(task[t].rec) /\ budget' = budget
    BY <1>1, <2>1, <1>4, SavedTask
  <2>3. Carries([en EXCEPT !.rec = Saved(rec)])
    BY <2>2 DEF Carries
  <2> QED BY <1>1, <1>3, <2>2, <2>3, Frame, SavingStep
<1>5. CASE (SaveFault(t, rec) \/ Conflict(t)) /\ Goto(t, "throw")
  BY <1>1, <1>3, <1>5, Frame, ThrownSave
<1> QED BY <1>4, <1>5

\* recoverOne() saves timed_out under the version test.
LEMMA SaveTimedOutKeeps == ASSUME SagaInv, NEW t \in Task, SaveTimedOut(t) PROVE SagaInv'
<1>0. /\ Carries(task[t])
      /\ UNCHANGED <<lapsedTo, overdue, lockVars, timers, booting, effectVars>>
  BY DEF SaveTimedOut, At, Carries
<1> DEFINE rec == [task[t].rec EXCEPT !.status = "timed_out", !.claim = NoClaim]
<1>1. \/ SaveOk(t, rec, EnterAdvance(task[t], rec))
      \/ (SaveFault(t, rec) \/ Conflict(t)) /\ Goto(t, "throw")
  BY DEF SaveTimedOut
<1> QED BY <1>0, <1>1, TurnAround

\* A failed step is saved as compensating under the version test.
LEMMA SaveFailedKeeps == ASSUME SagaInv, NEW t \in Task, SaveFailed(t) PROVE SagaInv'
<1>0. /\ Carries(task[t])
      /\ UNCHANGED <<lapsedTo, overdue, lockVars, timers, booting, effectVars>>
  BY DEF SaveFailed, At, Carries
<1> DEFINE rec == [task[t].rec EXCEPT !.status = "compensating", !.claim = NoClaim]
<1>1. \/ SaveOk(t, rec, EnterAdvance(task[t], rec))
      \/ (SaveFault(t, rec) \/ Conflict(t)) /\ Goto(t, "throw")
  BY DEF SaveFailed
<1> QED BY <1>0, <1>1, TurnAround

\* A failed compensation is saved without touching the entries.
LEMMA SaveUndoFailedKeeps ==
  ASSUME SagaInv, NEW t \in Task, SaveUndoFailed(t) PROVE SagaInv'
<1> DEFINE rec == [task[t].rec EXCEPT !.claim = NoClaim]
           ts == [task[t] EXCEPT !.pc = "throw"]
<1>0. /\ Carries(task[t]) /\ Goto(t, "throw")
      /\ CarriedOK(task[t].rec, saga, executed, undone)
      /\ UNCHANGED <<lapsedTo, overdue, lockVars, timers, booting, effectVars>>
  BY TaskFacts DEF SaveUndoFailed, At, Carries, TaskOK
<1>1. /\ rec \in Record /\ rec.version = task[t].rec.version
      /\ rec.status = task[t].rec.status
      /\ rec.completedSteps = task[t].rec.completedSteps
  BY TaskFacts DEF Record
<1>2. \/ VersionMatches(rec) /\ saga' = Saved(rec) /\ UNCHANGED budget
      \/ SaveFault(t, rec) \/ Conflict(t)
  BY DEF SaveUndoFailed
<1> HIDE DEF rec
<1>3. rec.status # "absent" /\ RecordOK(rec) /\ Ran(rec, executed, undone)
  BY <1>0, <1>1 DEF CarriedOK, RecordOK, Ran
<1>4. CASE VersionMatches(rec) /\ saga' = Saved(rec) /\ UNCHANGED budget
  <2>1. VersionMatches(task[t].rec)
    BY <1>1, <1>4 DEF VersionMatches
  <2>2. /\ ts \in TaskState /\ ts.pc = "throw" /\ ts.rec = task[t].rec
        /\ task' = [task EXCEPT ![t] = ts]
    <3>1. ts \in TaskState /\ ts.pc = "throw" /\ ts.rec = task[t].rec
      BY TaskFacts DEF TaskState, Labels
    <3> QED BY <3>1, <1>0 DEF Goto
  <2> HIDE DEF ts
  <2>3. LoopOK(ts) /\ Carries(ts) /\ ts.pc \notin Acting
    BY <2>2 DEF LoopOK, Carries, Acting, InLoop
  <2> QED BY <1>0, <1>1, <1>3, <1>4, <2>1, <2>2, <2>3, Frame, SavingStep DEF Acting
<1>5. CASE SaveFault(t, rec) \/ Conflict(t)
  BY <1>0, <1>1, <1>3, <1>5, Frame, ThrownSave
<1> QED BY <1>2, <1>4, <1>5

\* A step's action runs, or throws.
LEMMA ExecuteKeeps == ASSUME SagaInv, NEW t \in Task, Execute(t) PROVE SagaInv'
<1>0. /\ task[t].pc = "act" /\ task[t].mode = "advance" /\ task[t].pc \in InLoop \ {"claim"}
      /\ UNCHANGED <<saga, lapsedTo, overdue, timers, booting, undone>>
  BY DEF Execute, At, InLoop
<1>1. /\ StepOf(t) \in Steps /\ StepOf(t) = StepOrder[task[t].at] /\ task[t].at \in 1..N
      /\ ForwardOK(task[t]) /\ CarriedOK(task[t].rec, saga, executed, undone)
      /\ saga.status # "absent" /\ N \in Nat
  BY <1>0, InHand, StepFacts DEF StepOf
<1>2. ASSUME NEW k \in {0, 1}, executed' = [executed EXCEPT ![StepOf(t)] = @ + k],
             NEW ts \in TaskState, task' = [task EXCEPT ![t] = ts],
             ts.rec = task[t].rec, ts.mode = "advance", ts.at = task[t].at,
             ts.pc \in {"act", "failSave"} \/ (ts.pc = "persist" /\ k = 1),
             LockTypes', budget' \in [Kinds -> Nat]
      PROVE  SagaInv'
  <2>1. /\ executed' \in [Steps -> Nat]
        /\ \A s \in Steps : executed'[s] >= executed[s] /\ undone'[s] >= undone[s]
        /\ k = 1 => executed'[StepOf(t)] > 0
    BY <1>0, <1>1, <1>2 DEF SagaInv, TypeOK
  <2>2. TypeOK'
    BY <1>0, <1>2, <2>1 DEF SagaInv, TypeOK, LockTypes
  <2>3. CarriedOK(task[t].rec, saga, executed', undone')
    <3>1. Ran(task[t].rec, executed', undone')
      <4> SUFFICES ASSUME NEW i \in 1..Len(task[t].rec.completedSteps)
                   PROVE  /\ executed'[task[t].rec.completedSteps[i].stepName] > 0
                          /\ task[t].rec.completedSteps[i].status = "compensated"
                               => undone'[task[t].rec.completedSteps[i].stepName] > 0
        BY DEF Ran
      <4>1. task[t].rec.completedSteps[i].stepName \in Steps
        BY EntryType, TaskFacts
      <4>2. Ran(task[t].rec, executed, undone)
        BY <1>1 DEF CarriedOK
      <4> QED BY <4>1, <4>2, <2>1, <1>0 DEF Ran, SagaInv, TypeOK
    <3> QED BY <3>1, <1>1 DEF CarriedOK
  <2>4. LoopOK(ts)
    BY <1>1, <1>2, <1>0 DEF LoopOK, ForwardOK, InLoop
  <2>5. EffectOK(ts, executed', undone')
    BY <1>1, <1>2, <2>1 DEF EffectOK
  <2>6. TaskOK(ts, saga, executed', undone')
    BY <1>1, <1>2, <2>3, <2>4, <2>5 DEF TaskOK
  <2> QED BY <1>0, <1>2, <2>1, <2>2, <2>6, StepWithoutSave DEF Acting
<1>3. CASE /\ executed' = [executed EXCEPT ![StepOf(t)] = @ + 1]
           /\ Goto(t, "persist") /\ UNCHANGED <<lockVars, budget>>
  <2> DEFINE ts == [task[t] EXCEPT !.pc = "persist"]
  <2>1. /\ ts \in TaskState /\ ts.pc = "persist" /\ ts.rec = task[t].rec
        /\ ts.mode = "advance" /\ ts.at = task[t].at
    BY <1>0, TaskFacts DEF TaskState, Labels
  <2>2. task' = [task EXCEPT ![t] = ts]
    BY <1>3 DEF Goto
  <2>3. LockTypes' /\ budget' \in [Kinds -> Nat]
    BY <1>3, Frame
  <2> HIDE DEF ts
  <2> QED BY <1>3, <2>1, <2>2, <2>3, <1>2
<1>4. CASE /\ Spend("failures")
           /\ \E k \in {0, 1} : executed' = [executed EXCEPT ![StepOf(t)] = @ + k]
           /\ Drop(host[t], StepOf(t)) /\ Goto(t, "failSave")
  <2> DEFINE ts == [task[t] EXCEPT !.pc = "failSave"]
  <2>1. /\ ts \in TaskState /\ ts.pc = "failSave" /\ ts.rec = task[t].rec
        /\ ts.mode = "advance" /\ ts.at = task[t].at
    BY <1>0, TaskFacts DEF TaskState, Labels
  <2>2. task' = [task EXCEPT ![t] = ts]
    BY <1>4 DEF Goto
  <2>3. LockTypes' /\ budget' \in [Kinds -> Nat]
    BY <1>4, <1>0, DropStep, Frame DEF Kinds
  <2> HIDE DEF ts
  <2>4. PICK k \in {0, 1} : executed' = [executed EXCEPT ![StepOf(t)] = @ + k]
    BY <1>4
  <2> QED BY <2>1, <2>2, <2>3, <2>4, <1>2
<1>5. CASE /\ Spend("failures")
           /\ \E k \in {0, 1} : executed' = [executed EXCEPT ![StepOf(t)] = @ + k]
           /\ UNCHANGED <<lockVars, task>>
  <2>1. task' = [task EXCEPT ![t] = task[t]]
    BY <1>5 DEF SagaInv, TypeOK
  <2>2. LockTypes' /\ budget' \in [Kinds -> Nat]
    BY <1>5, Frame DEF Kinds
  <2>3. PICK k \in {0, 1} : executed' = [executed EXCEPT ![StepOf(t)] = @ + k]
    BY <1>5
  <2> QED BY <1>0, <2>1, <2>2, <2>3, <1>2, TaskFacts
<1> QED BY <1>3, <1>4, <1>5 DEF Execute

\* A step's compensation runs, or throws.
LEMMA CompensateKeeps == ASSUME SagaInv, NEW t \in Task, Compensate(t) PROVE SagaInv'
<1>0. /\ task[t].pc = "act" /\ task[t].mode = "compensate" /\ task[t].pc \in InLoop \ {"claim"}
      /\ UNCHANGED <<saga, lapsedTo, overdue, timers, booting, executed>>
  BY DEF Compensate, At, InLoop
<1>1. /\ StepOf(t) \in Steps
      /\ StepOf(t) = task[t].rec.completedSteps[task[t].at].stepName
      /\ task[t].at \in 1..Len(task[t].rec.completedSteps)
      /\ BackwardOK(task[t]) /\ CarriedOK(task[t].rec, saga, executed, undone)
      /\ saga.status # "absent"
  BY <1>0, InHand DEF StepOf
<1>2. saga.status \in Turned
  BY <1>1 DEF BackwardOK, CarriedOK, Turned
<1>3. ASSUME NEW k \in {0, 1}, undone' = [undone EXCEPT ![StepOf(t)] = @ + k],
             NEW ts \in TaskState, task' = [task EXCEPT ![t] = ts],
             ts.rec = task[t].rec, ts.mode = "compensate", ts.at = task[t].at,
             ts.pc = "undoFailSave" \/ (ts.pc = "persist" /\ k = 1),
             LockTypes', budget' \in [Kinds -> Nat]
      PROVE  SagaInv'
  <2>1. /\ undone' \in [Steps -> Nat]
        /\ \A s \in Steps : executed'[s] >= executed[s] /\ undone'[s] >= undone[s]
        /\ k = 1 => undone'[StepOf(t)] > 0
    <3>1. StepOf(t) \in Steps /\ undone \in [Steps -> Nat] /\ executed' \in [Steps -> Nat]
          /\ executed' = executed
      BY <1>0, <1>1 DEF SagaInv, TypeOK
    <3> QED BY <3>1, <1>3
  <2>2. TypeOK'
    BY <1>0, <1>3, <2>1 DEF SagaInv, TypeOK, LockTypes
  <2>3. CarriedOK(task[t].rec, saga, executed', undone')
    <3>1. Ran(task[t].rec, executed', undone')
      <4> SUFFICES ASSUME NEW i \in 1..Len(task[t].rec.completedSteps)
                   PROVE  /\ executed'[task[t].rec.completedSteps[i].stepName] > 0
                          /\ task[t].rec.completedSteps[i].status = "compensated"
                               => undone'[task[t].rec.completedSteps[i].stepName] > 0
        BY DEF Ran
      <4>1. task[t].rec.completedSteps[i].stepName \in Steps
        BY EntryType, TaskFacts
      <4>2. Ran(task[t].rec, executed, undone)
        BY <1>1 DEF CarriedOK
      <4> QED BY <4>1, <4>2, <2>1, <1>0 DEF Ran, SagaInv, TypeOK
    <3> QED BY <3>1, <1>1 DEF CarriedOK
  <2>4. LoopOK(ts)
    <3>1. ts.pc = "persist" => BackwardOK(ts)
      BY <1>1, <1>3, <1>0 DEF BackwardOK
    <3>2. ts.rec.status \in {"compensating", "timed_out"}
      BY <1>1, <1>3 DEF BackwardOK
    <3> QED BY <3>1, <3>2, <1>3 DEF LoopOK, InLoop
  <2>5. EffectOK(ts, executed', undone')
    BY <1>1, <1>3, <2>1 DEF EffectOK
  <2>6. TaskOK(ts, saga, executed', undone')
    BY <1>1, <1>3, <2>3, <2>4, <2>5 DEF TaskOK
  <2> QED BY <1>0, <1>2, <1>3, <2>1, <2>2, <2>6, StepWithoutSave DEF Acting
<1>4. CASE /\ undone' = [undone EXCEPT ![StepOf(t)] = @ + 1]
           /\ Goto(t, "persist") /\ UNCHANGED <<lockVars, budget>>
  <2> DEFINE ts == [task[t] EXCEPT !.pc = "persist"]
  <2>1. /\ ts \in TaskState /\ ts.pc = "persist" /\ ts.rec = task[t].rec
        /\ ts.mode = "compensate" /\ ts.at = task[t].at
    BY <1>0, TaskFacts DEF TaskState, Labels
  <2>2. task' = [task EXCEPT ![t] = ts]
    BY <1>4 DEF Goto
  <2>3. LockTypes' /\ budget' \in [Kinds -> Nat]
    BY <1>4, Frame
  <2> HIDE DEF ts
  <2> QED BY <1>4, <2>1, <2>2, <2>3, <1>3
<1>5. CASE /\ Spend("undoFailures")
           /\ \E k \in {0, 1} : undone' = [undone EXCEPT ![StepOf(t)] = @ + k]
           /\ Drop(host[t], StepOf(t)) /\ Goto(t, "undoFailSave")
  <2> DEFINE ts == [task[t] EXCEPT !.pc = "undoFailSave"]
  <2>1. /\ ts \in TaskState /\ ts.pc = "undoFailSave" /\ ts.rec = task[t].rec
        /\ ts.mode = "compensate" /\ ts.at = task[t].at
    BY <1>0, TaskFacts DEF TaskState, Labels
  <2>2. task' = [task EXCEPT ![t] = ts]
    BY <1>5 DEF Goto
  <2>3. LockTypes' /\ budget' \in [Kinds -> Nat]
    BY <1>5, <1>0, DropStep, Frame DEF Kinds
  <2> HIDE DEF ts
  <2>4. PICK k \in {0, 1} : undone' = [undone EXCEPT ![StepOf(t)] = @ + k]
    BY <1>5
  <2> QED BY <2>1, <2>2, <2>3, <2>4, <1>3
<1> QED BY <1>4, <1>5 DEF Compensate

\* The record Persist writes when the step ran forward.
LEMMA ForwardRecorded ==
  ASSUME SagaInv, NEW t \in Task, task[t].pc = "persist", task[t].mode = "advance",
         VersionMatches(task[t].rec)
  PROVE  /\ StepRecorded(t) \in Record
         /\ StepRecorded(t).version = task[t].rec.version
         /\ StepRecorded(t).status = "running"
         /\ Len(StepRecorded(t).completedSteps) = Len(task[t].rec.completedSteps) + 1
         /\ RecordOK(StepRecorded(t))
         /\ Ran(StepRecorded(t), executed, undone)
<1> DEFINE old == task[t].rec
           done == old.completedSteps
           entry == [stepName |-> StepOf(t), status |-> "completed"]
           next == IF task[t].at < N THEN StepOrder[task[t].at + 1] ELSE NoStep
           new == Append(done, entry)
           rec == StepRecorded(t)
<1>1. /\ StepOf(t) \in Steps /\ StepOf(t) = StepOrder[task[t].at]
      /\ task[t].at \in 1..N /\ task[t].at = Len(done) + 1
      /\ old.status = "running" /\ old \in Record /\ N \in Nat
      /\ RecordOK(old) /\ Ran(old, executed, undone)
      /\ executed[StepOf(t)] > 0
  BY InHand, TaskFacts, StepFacts
     DEF InLoop, StepOf, ForwardOK, CarriedOK, TaskOK, EffectOK
<1>2. done \in Seq(CompletedStep) /\ Len(done) \in Nat /\ entry \in CompletedStep
  BY <1>1, EntryType DEF CompletedStep
<1>3. next \in Steps \cup {NoStep}
  BY <1>1, StepFacts
<1>4. /\ new \in Seq(CompletedStep) /\ Len(new) = Len(done) + 1
      /\ \A i \in 1..Len(done) : new[i] = done[i]
      /\ new[Len(done) + 1] = entry
  BY <1>2
<1> HIDE DEF next, new
<1>5. rec = [old EXCEPT !.completedSteps = new, !.currentStep = next, !.claim = NoClaim]
  BY DEF StepRecorded, next, new
<1>6. /\ rec \in Record /\ rec.version = old.version /\ rec.status = "running"
      /\ rec.completedSteps = new
  <2> HIDE DEF old, rec
  <2> QED BY <1>1, <1>3, <1>4, <1>5 DEF Record
<1>7. \A i \in 1..Len(done) : done[i].status # "compensated"
  <2>1. old = saga /\ saga.status \notin Turned
    BY <1>1, InHand DEF CarriedOK, VersionMatches, InLoop, Turned
  <2>2. \A s \in Steps : undone[s] = 0
    BY <2>1 DEF SagaInv, SagaOK
  <2>3. \A i \in 1..Len(done) : done[i].stepName \in Steps
    BY <1>1, EntryType
  <2> QED BY <1>1, <2>2, <2>3 DEF Ran
<1>8. \A i \in 1..Len(new) : i \in 1..Len(done) \/ i = Len(done) + 1
  BY <1>2, <1>4
<1>9. entry.stepName = StepOf(t) /\ entry.status = "completed"
  OBVIOUS
<1> HIDE DEF entry, rec, done, old
<1>10. RecordOK(rec)
  <2>1. Len(new) <= N
    BY <1>1, <1>2, <1>4
  <2>2. \A i \in 1..Len(new) : new[i].stepName = StepOrder[i]
    BY <1>1, <1>2, <1>4, <1>8, <1>9 DEF RecordOK, done
  <2>3. \A i \in 1..Len(new) : new[i].status # "compensated"
    BY <1>4, <1>7, <1>8, <1>9
  <2> QED BY <2>1, <2>2, <2>3, <1>6 DEF RecordOK
<1>11. Ran(rec, executed, undone)
  BY <1>1, <1>4, <1>6, <1>7, <1>8, <1>9 DEF Ran, done
<1> QED BY <1>4, <1>6, <1>10, <1>11 DEF rec, old, done

\* The record Persist writes when the step was compensated.
LEMMA BackwardRecorded ==
  ASSUME SagaInv, NEW t \in Task, task[t].pc = "persist", task[t].mode = "compensate"
  PROVE  /\ StepRecorded(t) \in Record
         /\ StepRecorded(t).version = task[t].rec.version
         /\ StepRecorded(t).status = task[t].rec.status
         /\ Len(StepRecorded(t).completedSteps) = Len(task[t].rec.completedSteps)
         /\ \A j \in 1..Len(task[t].rec.completedSteps) :
              j >= task[t].at => StepRecorded(t).completedSteps[j].status = "compensated"
         /\ RecordOK(StepRecorded(t))
         /\ Ran(StepRecorded(t), executed, undone)
<1> DEFINE old == task[t].rec
           done == old.completedSteps
           new == [i \in 1..Len(done) |->
                     IF done[i].stepName = StepOf(t)
                       THEN [done[i] EXCEPT !.status = "compensated"] ELSE done[i]]
           rec == StepRecorded(t)
<1>1. /\ StepOf(t) = done[task[t].at].stepName /\ task[t].at \in 1..Len(done)
      /\ old.status \in {"compensating", "timed_out"} /\ old \in Record /\ N \in Nat
      /\ RecordOK(old) /\ Ran(old, executed, undone)
      /\ undone[StepOf(t)] > 0
      /\ \A j \in 1..Len(done) : j > task[t].at => done[j].status = "compensated"
  BY InHand, TaskFacts, StepFacts
     DEF InLoop, StepOf, BackwardOK, CarriedOK, TaskOK, EffectOK
<1>2. /\ done \in Seq(CompletedStep) /\ Len(done) \in Nat
      /\ \A i \in 1..Len(done) : done[i] \in CompletedStep
  BY <1>1, EntryType
<1>3. \A e \in CompletedStep :
        /\ [e EXCEPT !.status = "compensated"] \in CompletedStep
        /\ [e EXCEPT !.status = "compensated"].stepName = e.stepName
        /\ [e EXCEPT !.status = "compensated"].status = "compensated"
  BY DEF CompletedStep
<1>4. /\ \A i \in 1..Len(done) : new[i] \in CompletedStep
      /\ \A i \in 1..Len(done) : new[i].stepName = done[i].stepName
      /\ \A i \in 1..Len(done) :
           done[i].stepName = StepOf(t) => new[i].status = "compensated"
      /\ \A i \in 1..Len(done) :
           done[i].stepName # StepOf(t) => new[i].status = done[i].status
  BY <1>2, <1>3
<1>5. new \in Seq(CompletedStep) /\ Len(new) = Len(done)
  <2>1. new \in [1..Len(done) -> CompletedStep]
    BY <1>4
  <2> HIDE DEF new
  <2> QED BY <2>1, <1>2
<1>6. rec = [old EXCEPT !.completedSteps = new, !.claim = NoClaim]
  BY DEF StepRecorded
<1> HIDE DEF new
<1>7. /\ rec \in Record /\ rec.version = old.version /\ rec.status = old.status
      /\ rec.completedSteps = new
  <2> HIDE DEF old, rec
  <2> QED BY <1>1, <1>5, <1>6 DEF Record
<1>8. \A i \in 1..Len(done) : done[i].stepName = StepOf(t) => i = task[t].at
  BY <1>1, StepFacts DEF RecordOK
<1> HIDE DEF rec, done, old
<1>9. \A j \in 1..Len(done) : j >= task[t].at => new[j].status = "compensated"
  BY <1>1, <1>2, <1>4
<1>10. RecordOK(rec)
  <2>1. \A i \in 1..Len(new) : new[i].stepName = StepOrder[i]
    BY <1>1, <1>4, <1>5 DEF RecordOK, done
  <2>2. ASSUME NEW i \in 1..Len(new), NEW j \in 1..Len(new), i < j,
               new[i].status = "compensated"
        PROVE  new[j].status = "compensated"
    <3>1. CASE i = task[t].at
      BY <3>1, <2>2, <1>5, <1>9
    <3>2. CASE i # task[t].at
      <4>1. done[i].stepName # StepOf(t)
        BY <3>2, <1>5, <1>8
      <4>2. done[i].status = "compensated"
        BY <4>1, <2>2, <1>4, <1>5
      <4>3. done[j].status = "compensated"
        BY <4>2, <2>2, <1>1, <1>5 DEF RecordOK, done
      <4> QED BY <4>3, <1>4, <1>5
    <3> QED BY <3>1, <3>2
  <2>3. Len(new) <= N
    BY <1>1, <1>5 DEF RecordOK, done
  <2> QED BY <2>1, <2>2, <2>3, <1>1, <1>7 DEF RecordOK
<1>11. Ran(rec, executed, undone)
  BY <1>1, <1>4, <1>5, <1>7 DEF Ran, done
<1> QED BY <1>5, <1>7, <1>9, <1>10, <1>11 DEF rec, old, done

\* The outcome of a step or of a compensation is recorded after its effect.
LEMMA PersistKeeps == ASSUME SagaInv, NEW t \in Task, Persist(t) PROVE SagaInv'
<1>0. /\ task[t].pc = "persist" /\ task[t].pc \in InLoop \ {"claim"}
      /\ Carries(task[t]) /\ CarriedOK(task[t].rec, saga, executed, undone)
      /\ UNCHANGED <<lapsedTo, overdue, timers, booting, effectVars>>
  BY InHand DEF Persist, At, InLoop
<1>a. VersionMatches(task[t].rec) =>
        /\ StepRecorded(t) \in Record /\ StepRecorded(t).version = task[t].rec.version
        /\ StepRecorded(t).status = task[t].rec.status
        /\ RecordOK(StepRecorded(t)) /\ Ran(StepRecorded(t), executed, undone)
  <2>1. CASE task[t].mode = "advance"
    <3>1. task[t].rec.status = "running"
      BY <2>1, <1>0, InHand DEF ForwardOK
    <3> QED BY <2>1, <3>1, <1>0, ForwardRecorded
  <2>2. CASE task[t].mode = "compensate"
    BY <2>2, <1>0, BackwardRecorded
  <2> QED BY <2>1, <2>2, TaskFacts
<1>1. CASE Goto(t, "return") /\ UNCHANGED <<saga, budget, lockVars>>
  BY <1>0, <1>1, Frame, ExitStep
<1>2. CASE /\ SaveOk(t, StepRecorded(t), [task[t] EXCEPT !.pc = "release"])
           /\ UNCHANGED lockVars
  <2> DEFINE rec == StepRecorded(t)
             new == Saved(rec)
             ts == [[task[t] EXCEPT !.pc = "release"] EXCEPT !.rec = new]
  <2>1. /\ VersionMatches(task[t].rec) /\ saga' = new /\ UNCHANGED budget
        /\ task' = [task EXCEPT ![t] = ts]
    BY <1>2 DEF SaveOk
  <2>2. /\ rec \in Record /\ rec.version = task[t].rec.version
        /\ rec.status = task[t].rec.status
        /\ RecordOK(rec) /\ Ran(rec, executed, undone)
    BY <1>a, <2>1
  <2> HIDE DEF rec
  <2>3. new \in Record /\ new.status = rec.status /\ new.completedSteps = rec.completedSteps
    BY <2>2, SavedFields
  <2> HIDE DEF new
  <2>4. /\ ts \in TaskState /\ ts.pc = "release" /\ ts.rec = new
        /\ ts.mode = task[t].mode /\ ts.at = task[t].at
    BY <2>3, TaskFacts DEF TaskState, Labels
  <2> HIDE DEF ts
  <2>5. LoopOK(ts)
    <3>1. CASE task[t].mode = "advance"
      <4>1. ForwardOK(task[t]) /\ task[t].at \in 1..N /\ N \in Nat
        BY <3>1, <1>0, InHand, StepFacts
      <4>2. Len(rec.completedSteps) = Len(task[t].rec.completedSteps) + 1
        BY <3>1, <1>0, <2>1, ForwardRecorded DEF rec
      <4>3. task[t].at = Len(new.completedSteps) /\ new.status = "running"
        BY <4>1, <4>2, <1>0, <2>2, <2>3 DEF ForwardOK
      <4>4. ForwardOK(ts)
        BY <4>1, <4>3, <2>4 DEF ForwardOK
      <4> QED BY <4>4, <3>1, <2>4 DEF LoopOK
    <3>2. CASE task[t].mode = "compensate"
      <4>1. /\ new.status \in {"compensating", "timed_out"}
            /\ task[t].at \in 1..Len(task[t].rec.completedSteps)
        BY <3>2, <1>0, <2>2, <2>3, InHand DEF BackwardOK
      <4>2. /\ Len(new.completedSteps) = Len(task[t].rec.completedSteps)
            /\ \A j \in 1..Len(new.completedSteps) :
                 j >= task[t].at => new.completedSteps[j].status = "compensated"
        BY <3>2, <1>0, <2>3, BackwardRecorded DEF rec
      <4>3. Len(new.completedSteps) \in Nat
        BY <2>3, EntryType
      <4>4. BackwardOK(ts)
        BY <4>1, <4>2, <4>3, <2>4 DEF BackwardOK
      <4> QED BY <4>4, <3>2, <2>4 DEF LoopOK
    <3> QED BY <3>1, <3>2, TaskFacts
  <2>6. rec.status # "absent" /\ Carries(ts)
    BY <1>0, <2>2, <2>4 DEF CarriedOK, Carries
  <2> QED BY <1>0, <1>2, <2>1, <2>2, <2>4, <2>5, <2>6, Frame, SavingStep DEF new
<1>3. CASE /\ SaveFault(t, StepRecorded(t)) \/ Conflict(t)
           /\ IF task[t].mode = "advance"
                THEN Goto(t, "throw") /\ UNCHANGED lockVars
                ELSE Goto(t, "undoFailSave") /\ Drop(host[t], StepOf(t))
  <2>0. task[t].rec.status # "absent"
    BY <1>0 DEF CarriedOK
  <2>1. CASE task[t].mode = "advance"
    BY <2>0, <2>1, <1>0, <1>a, <1>3, Frame, ThrownSave
  <2>2. CASE task[t].mode = "compensate"
    <3>1. Goto(t, "undoFailSave") /\ LockTypes'
      BY <1>3, <2>2, <1>0, DropStep
    <3>2. task[t].rec.status \in {"compensating", "timed_out"}
      BY <2>2, <1>0, InHand DEF BackwardOK
    <3> QED BY <2>0, <3>1, <3>2, <1>0, <1>a, <1>3, ThrownSave
  <2> QED BY <2>1, <2>2, TaskFacts
<1> QED BY <1>1, <1>2, <1>3 DEF Persist

\* Giving back the step lock leads to the next entry of the loop.
LEMMA ReleaseStepKeeps == ASSUME SagaInv, NEW t \in Task, ReleaseStep(t) PROVE SagaInv'
<1>0. /\ task[t].pc = "release" /\ task[t].pc \in InLoop \ {"claim"}
      /\ Carries(task[t]) /\ CarriedOK(task[t].rec, saga, executed, undone)
      /\ saga.status # "absent" /\ Drop(host[t], StepOf(t))
      /\ UNCHANGED <<saga, lapsedTo, overdue, timers, booting, effectVars>>
  BY InHand DEF ReleaseStep, At, InLoop
<1>1. LockTypes'
  BY <1>0, DropStep
<1> DEFINE nx == IF task[t].mode = "advance" THEN FirstRemaining(task[t].rec)
                                             ELSE task[t].at - 1
<1>2. CASE /\ task' = [task EXCEPT ![t].pc = "claim", ![t].at = nx]
           /\ UNCHANGED budget
  <2> DEFINE ts == [task[t] EXCEPT !.pc = "claim", !.at = nx]
  <2>1. /\ task[t].mode = "advance" =>
             nx = Len(task[t].rec.completedSteps) + 1 /\ nx \in 1..N+1
        /\ task[t].mode = "compensate" =>
             nx \in 0..Len(task[t].rec.completedSteps) /\ nx + 1 = task[t].at
        /\ nx \in Nat /\ N \in Nat
    <3>0. N \in Nat /\ Len(task[t].rec.completedSteps) \in Nat
          /\ Len(task[t].rec.completedSteps) <= N
      BY <1>0, TaskFacts, StepFacts, EntryType DEF CarriedOK, RecordOK
    <3>1. CASE task[t].mode = "advance"
      BY <3>0, <3>1, <1>0, TaskFacts, FirstRemainingNext DEF CarriedOK
    <3>2. CASE task[t].mode = "compensate"
      <4>1. task[t].at \in 1..Len(task[t].rec.completedSteps)
        BY <3>2, <1>0, InHand
      <4> QED BY <3>0, <3>2, <4>1
    <3> QED BY <3>0, <3>1, <3>2, TaskFacts
  <2> HIDE DEF nx
  <2>2. /\ ts \in TaskState /\ ts.pc = "claim" /\ ts.rec = task[t].rec
        /\ ts.mode = task[t].mode /\ ts.at = nx
    BY <2>1, TaskFacts DEF TaskState, Labels
  <2>3. task' = [task EXCEPT ![t] = ts]
    BY <1>2
  <2> HIDE DEF ts
  <2>4. LoopOK(ts)
    <3>1. CASE task[t].mode = "advance"
      <4>1. ForwardOK(ts)
        BY <3>1, <1>0, <2>1, <2>2, InHand DEF ForwardOK
      <4> QED BY <4>1, <3>1, <2>2 DEF LoopOK
    <3>2. CASE task[t].mode = "compensate"
      <4>1. BackwardOK(task[t]) /\ Len(task[t].rec.completedSteps) \in Nat
            /\ task[t].at \in Nat
        BY <3>2, <1>0, InHand, TaskFacts, EntryType DEF TaskState
      <4>2. BackwardOK(ts)
        BY <4>1, <3>2, <1>0, <2>1, <2>2 DEF BackwardOK
      <4> QED BY <4>2, <3>2, <2>2 DEF LoopOK
    <3> QED BY <3>1, <3>2, TaskFacts
  <2>5. TaskOK(ts, saga, executed, undone) /\ ts.pc \notin Acting
    BY <2>2, <2>4, <1>0 DEF TaskOK, EffectOK, Acting
  <2> QED BY <1>0, <1>1, <1>2, <2>2, <2>3, <2>5, Frame, QuietStep
<1>3. CASE /\ Spend("rejections")
           /\ Goto(t, IF task[t].mode = "advance" THEN "throw" ELSE "undoFailSave")
  <2>0. budget' \in [Kinds -> Nat]
    BY <1>3, Frame DEF Kinds
  <2>1. CASE task[t].mode = "advance"
    BY <2>0, <2>1, <1>0, <1>1, <1>3, Frame, ExitStep
  <2>2. CASE task[t].mode = "compensate"
    <3> DEFINE ts == [task[t] EXCEPT !.pc = "undoFailSave"]
    <3>1. ts \in TaskState /\ ts.pc = "undoFailSave" /\ ts.rec = task[t].rec
      BY TaskFacts DEF TaskState, Labels
    <3>2. task' = [task EXCEPT ![t] = ts]
      BY <1>3, <2>2 DEF Goto
    <3> HIDE DEF ts
    <3>3. task[t].rec.status \in {"compensating", "timed_out"}
      BY <2>2, <1>0, InHand DEF BackwardOK
    <3>4. TaskOK(ts, saga, executed, undone) /\ ts.pc \notin Acting
      BY <3>1, <3>3, <1>0 DEF TaskOK, LoopOK, EffectOK, InLoop, Acting
    <3> QED BY <2>0, <3>1, <3>2, <3>4, <1>0, <1>1, Frame, QuietStep
  <2> QED BY <2>1, <2>2, TaskFacts
<1> QED BY <1>2, <1>3 DEF ReleaseStep

\* The final save happens when the loop has nothing left to do.
LEMMA FinishKeeps == ASSUME SagaInv, NEW t \in Task, Finish(t) PROVE SagaInv'
<1> DEFINE final == IF task[t].mode = "advance" THEN "completed" ELSE "compensated"
           rec == [task[t].rec EXCEPT !.status = final, !.currentStep = NoStep, !.claim = NoClaim]
           ts == [[task[t] EXCEPT !.pc = "return"] EXCEPT !.rec = Saved(rec)]
<1>0. /\ task[t].pc = "claim" /\ LoopDone(t) /\ Carries(task[t])
      /\ CarriedOK(task[t].rec, saga, executed, undone) /\ LoopOK(task[t])
      /\ UNCHANGED <<lapsedTo, overdue, lockVars, timers, booting, effectVars>>
  BY TaskFacts DEF Finish, At, Carries, TaskOK
<1>1. /\ rec \in Record /\ rec.version = task[t].rec.version /\ rec.status = final
      /\ rec.completedSteps = task[t].rec.completedSteps
  <2>1. final \in Status
    BY DEF Status, Terminal
  <2> HIDE DEF final
  <2> QED BY <2>1, TaskFacts DEF Record
<1>2. \/ SaveOk(t, rec, [task[t] EXCEPT !.pc = "return"])
      \/ (SaveFault(t, rec) \/ Conflict(t)) /\ Goto(t, "throw")
  BY DEF Finish
<1> HIDE DEF rec
<1>3. RecordOK(rec)
  <2>1. CASE task[t].mode = "advance"
    <3>1. ForwardOK(task[t]) /\ task[t].at = N + 1 /\ N \in Nat
      BY <2>1, <1>0, StepFacts DEF LoopOK, LoopDone, InLoop
    <3>2. Len(task[t].rec.completedSteps) \in Nat
      BY EntryType, TaskFacts
    <3>3. Len(task[t].rec.completedSteps) = N
      BY <3>1, <3>2, <1>0 DEF ForwardOK
    <3> QED BY <2>1, <3>3, <1>1, <1>0 DEF RecordOK, CarriedOK
  <2>2. CASE task[t].mode = "compensate"
    <3>1. BackwardOK(task[t]) /\ task[t].at = 0
      BY <2>2, <1>0 DEF LoopOK, LoopDone, InLoop
    <3>2. \A j \in 1..Len(task[t].rec.completedSteps) :
            task[t].rec.completedSteps[j].status = "compensated"
      BY <3>1 DEF BackwardOK
    <3> QED BY <2>2, <3>2, <1>1, <1>0 DEF RecordOK, CarriedOK
  <2> QED BY <2>1, <2>2, TaskFacts
<1>4. Ran(rec, executed, undone) /\ rec.status # "absent"
  BY <1>1, <1>0 DEF Ran, CarriedOK
<1>5. task[t].rec.status \in Turned => rec.status \in Turned
  <2>1. task[t].mode = "advance" => task[t].rec.status = "running"
    BY <1>0 DEF LoopOK, ForwardOK, InLoop
  <2> QED BY <2>1, <1>1, TaskFacts DEF Turned
<1>6. CASE SaveOk(t, rec, [task[t] EXCEPT !.pc = "return"])
  <2>1. /\ VersionMatches(task[t].rec) /\ saga' = Saved(rec) /\ UNCHANGED budget
        /\ task' = [task EXCEPT ![t] = ts]
    BY <1>6 DEF SaveOk
  <2>2. Saved(rec) \in Record
    BY <1>1, SavedFields
  <2>3. ts \in TaskState /\ ts.pc = "return" /\ ts.rec = Saved(rec)
    BY <2>2, TaskFacts DEF TaskState, Labels
  <2> HIDE DEF ts
  <2>4. LoopOK(ts) /\ Carries(ts)
    BY <2>3 DEF LoopOK, Carries, InLoop
  <2> QED BY <1>0, <1>1, <1>3, <1>4, <1>5, <2>1, <2>3, <2>4, Frame, SavingStep
<1>7. CASE (SaveFault(t, rec) \/ Conflict(t)) /\ Goto(t, "throw")
  BY <1>0, <1>1, <1>3, <1>4, <1>5, <1>7, Frame, ThrownSave
<1> QED BY <1>2, <1>6, <1>7
-----------------------------------------------------------------------------
(* One lemma per action: leaving, the environment, crashes.                *)

\* An idle task satisfies every condition.
LEMMA IdleOK ==
  /\ IdleTask \in TaskState
  /\ IdleTask.pc = "idle"
  /\ \A sg, exe, und : TaskOK(IdleTask, sg, exe, und)
<1>1. NoRecord \in Record
  <2>1. StepOrder[1] \in Steps
    BY StepFacts
  <2>2. NewRecord \in Record
    BY <2>1 DEF NewRecord, Record, Status, Incomplete
  <2> QED BY <2>2 DEF NoRecord, Record, Status
<1>2. IdleTask \in TaskState /\ IdleTask.pc = "idle"
  BY <1>1 DEF IdleTask, TaskState, Labels
<1> QED BY <1>2 DEF TaskOK, LoopOK, EffectOK, Carries, InLoop

\* Leaving withWorkflowLock() ends or reschedules the call chain.
LEMMA UnwindKeeps == ASSUME SagaInv, NEW t \in Task, Unwind(t) PROVE SagaInv'
<1>0. /\ task[t].pc \in {"return", "throw"} /\ Carries(task[t])
      /\ CarriedOK(task[t].rec, saga, executed, undone) /\ saga.status # "absent"
      /\ UNCHANGED <<saga, lapsedTo, overdue, timers, booting, effectVars, budget>>
  BY TaskFacts DEF Unwind, TaskOK, Carries
<1>1. LockTypes'
  BY Frame, DropType, TaskFacts, StepFacts DEF Unwind
<1> DEFINE re == [task[t] EXCEPT !.pc = "reschedule"]
<1>2. CASE task' = [task EXCEPT ![t] = re]
  <2>1. re \in TaskState /\ re.pc = "reschedule" /\ re.rec = task[t].rec
    BY TaskFacts DEF TaskState, Labels
  <2> HIDE DEF re
  <2>2. TaskOK(re, saga, executed, undone) /\ re.pc \notin Acting
    BY <2>1, <1>0 DEF TaskOK, LoopOK, EffectOK, InLoop, Acting
  <2> QED BY <1>0, <1>1, <1>2, <2>1, <2>2, Frame, QuietStep
<1>3. CASE task' = [task EXCEPT ![t] = IdleTask]
  BY <1>0, <1>1, <1>3, IdleOK, Frame, QuietStep DEF Acting
<1> QED BY <1>2, <1>3 DEF Unwind

\* scheduleRetryIfLeased() arms a timer and ends the call chain.
LEMMA RescheduleKeeps == ASSUME SagaInv, NEW t \in Task, Reschedule(t) PROVE SagaInv'
<1> DEFINE rec == task[t].rec
           looked == IF rec.status \in Incomplete /\ rec.claim = NoClaim THEN saga ELSE rec
<1>1. looked \in Record /\ saga.status # "absent"
  BY TaskFacts DEF Reschedule, At, TaskOK
<1>2. looked.claim # NoClaim => looked.claim \in Nat
  BY <1>1 DEF Record
<1> HIDE DEF looked
<1>3. timers' \in [Instance -> SUBSET Nat]
  <2>1. timers' = IF looked.status \in Incomplete /\ Leased(looked)
                   THEN [timers EXCEPT ![host[t]] = @ \cup {looked.claim}] ELSE timers
    BY DEF Reschedule, looked
  <2> QED BY <2>1, <1>2 DEF Leased, SagaInv, TypeOK
<1> QED BY <1>1, <1>3, IdleOK, Frame, QuietStep DEF Reschedule, Acting

\* Clock ticks and lock faults leave tasks, row and effects alone.
LEMMA EnvironmentStep ==
  ASSUME SagaInv, UNCHANGED <<saga, task, timers, booting, effectVars>>, LockTypes',
         lapsedTo' \in Nat, overdue' \in BOOLEAN, budget' \in [Kinds -> Nat]
  PROVE  SagaInv'
BY DEF SagaInv, TypeOK, LockTypes, ClaimsExclusive, effectVars

\* Time that passes and locks that expire leave the record alone.
LEMMA ClockKeeps == ASSUME SagaInv, Clock PROVE SagaInv'
<1>0. lapsedTo \in Nat /\ overdue \in BOOLEAN /\ budget \in [Kinds -> Nat] /\ LockTypes
  BY DEF SagaInv, TypeOK, LockTypes
<1>1. CASE Lapse
  <2>1. lapsedTo' \in Nat
    BY <1>1 DEF Lapse, SagaInv, TypeOK, Record
  <2> QED BY <1>0, <1>1, <2>1, Frame, EnvironmentStep DEF Lapse
<1>2. CASE PassDeadline
  BY <1>0, <1>2, Frame, EnvironmentStep DEF PassDeadline
<1>3. ASSUME NEW k \in Keys, ExpireLock(k) PROVE SagaInv'
  <2>1. LockTypes'
    BY <1>0, <1>3 DEF ExpireLock, LockTypes, Redis!LuaExpire
  <2> QED BY <1>0, <1>3, <2>1, Frame, EnvironmentStep DEF ExpireLock
<1> QED BY <1>1, <1>2, <1>3 DEF Clock

\* A crash forgets the tasks of a process and nothing else.
LEMMA CrashKeeps == ASSUME SagaInv, NEW i \in Instance, Crash(i) PROVE SagaInv'
<1>0. budget' \in [Kinds -> Nat]
  BY Frame DEF Crash, Kinds
<1>1. LockTypes'
  <2>1. Payload(Dead) \in [owner : Instance \cup {Dead}]
    BY DEF Payload
  <2> QED BY <2>1 DEF Crash, SagaInv, TypeOK, LockTypes
<1>2. \A t \in Task : task'[t] = task[t] \/ task'[t] = IdleTask
  BY DEF Crash
<1>3. TypeOK'
  BY <1>0, <1>1, IdleOK DEF Crash, SagaInv, TypeOK, LockTypes, effectVars
<1>4. \A t \in Task : TaskOK(task'[t], saga', executed', undone')
  BY <1>2, IdleOK DEF Crash, SagaInv, effectVars
<1>5. SagaOK(saga', timers', executed', undone')
  <2>1. \A j \in Instance : timers[j] = {} => timers'[j] = {}
    BY DEF Crash, SagaInv, TypeOK
  <2> QED BY <2>1 DEF Crash, SagaInv, SagaOK, effectVars
<1>6. ClaimsExclusive'
  BY <1>2, IdleOK DEF ClaimsExclusive, SagaInv
<1> QED BY <1>3, <1>4, <1>5, <1>6 DEF SagaInv

\* A rejected call ends the task, or sends it out of the loop.
LEMMA RejectedKeeps == ASSUME SagaInv, NEW t \in Task, Rejected(t) PROVE SagaInv'
<1> DEFINE key == IF At(t, "lock") THEN WorkflowKey ELSE StepOf(t)
<1>0. /\ budget' \in [Kinds -> Nat]
      /\ UNCHANGED <<saga, lapsedTo, overdue, renewing, stolenKeys, timers, booting, effectVars>>
  BY Frame DEF Rejected, Kinds
<1>1. CASE task[t].pc \in {"listed", "resume", "reschedule"}
  <2>1. task' = [task EXCEPT ![t] = IdleTask] /\ UNCHANGED lockVars
    BY <1>0, <1>1 DEF Rejected, lockVars
  <2> QED BY <1>0, <2>1, IdleOK, Frame, QuietStep DEF Acting
<1>2. CASE task[t].pc \in {"lock", "claim"}
  <2>1. Goto(t, "throw") /\ Carries(task[t])
    BY <1>2 DEF Rejected, Carries
  <2>2. CASE UNCHANGED locks
    BY <1>0, <2>1, <2>2, Frame, ExitStep DEF lockVars
  <2>3. CASE /\ At(t, "claim") => ~LoopDone(t)
             /\ locks' = Redis!LuaAcquire(locks, key, Payload(host[t]))
    <3>1. key \in Keys
      BY <1>2, <2>3, StepInHand, StepFacts DEF At, InLoop
    <3>2. Payload(host[t]) \in [owner : Instance \cup {Dead}]
      BY TaskFacts DEF Payload
    <3> HIDE DEF key
    <3>3. LockTypes'
      BY <1>0, <2>3, <3>1, <3>2, TaskFacts DEF LockTypes, Redis!LuaAcquire
    <3> QED BY <1>0, <2>1, <3>3, ExitStep
  <2> QED BY <1>2, <2>2, <2>3 DEF Rejected
<1> QED BY <1>1, <1>2 DEF Rejected

\* Every fault keeps the invariant.
LEMMA FaultsKeep == ASSUME SagaInv, Faults PROVE SagaInv'
<1>0. lapsedTo \in Nat /\ overdue \in BOOLEAN /\ LockTypes
  BY DEF SagaInv, TypeOK, LockTypes
<1>1. ASSUME NEW k \in Keys, LoseLock(k) PROVE SagaInv'
  <2>1. LockTypes' /\ budget' \in [Kinds -> Nat]
    BY <1>0, <1>1, Frame DEF LoseLock, LockTypes, Redis!LuaExpire, Kinds
  <2> QED BY <1>0, <1>1, <2>1, EnvironmentStep DEF LoseLock
<1>2. ASSUME NEW i \in Instance, NEW k \in Keys, RenewFails(i, k) PROVE SagaInv'
  <2>1. LockTypes'
    BY <1>0, <1>2 DEF RenewFails, LockTypes
  <2>2. budget' \in [Kinds -> Nat]
    BY <1>2, Frame DEF RenewFails, Kinds
  <2> QED BY <1>0, <1>2, <2>1, <2>2, EnvironmentStep DEF RenewFails
<1>3. ASSUME NEW i \in Instance, ReleaseAll(i) PROVE SagaInv'
  <2>1. LockTypes'
    BY <1>0, <1>3 DEF ReleaseAll, LockTypes, Redis!LuaRelease
  <2>2. budget' \in [Kinds -> Nat]
    BY <1>3, Frame DEF ReleaseAll, Kinds
  <2> QED BY <1>0, <1>3, <2>1, <2>2, EnvironmentStep DEF ReleaseAll
<1> QED BY <1>1, <1>2, <1>3, RejectedKeeps, CrashKeeps DEF Faults
-----------------------------------------------------------------------------
(* The invariant holds, and what follows from it.                          *)

\* Every step of the specification keeps the inductive invariant.
LEMMA NextKeeps == ASSUME SagaInv, [Next]_vars PROVE SagaInv'
<1>1. CASE UNCHANGED vars
  BY <1>1 DEF vars, SagaInv, TypeOK, ClaimsExclusive
<1>2. ASSUME NEW t \in Task, Run(t) \/ CallResume(t) \/ Wake(t) PROVE SagaInv'
  BY <1>2, RunKeeps, CallResumeKeeps, BootKeeps, SweepKeeps, FireRetryKeeps DEF Wake
<1>3. ASSUME NEW t \in Task, Continue(t) PROVE SagaInv'
  BY <1>3, RecoverOneKeeps, RecoverResumeKeeps, SaveTimedOutKeeps, AcquireWorkflowKeeps,
     ClaimStepKeeps, SaveClaimKeeps, ExecuteKeeps, SaveFailedKeeps, CompensateKeeps,
     SaveUndoFailedKeeps, PersistKeeps, ReleaseStepKeeps, FinishKeeps, UnwindKeeps,
     RescheduleKeeps
     DEF Continue
<1> QED BY <1>1, <1>2, <1>3, ClockKeeps, FaultsKeep DEF Next

\* The initial state satisfies it.
LEMMA InitOK == Init => SagaInv
<1> SUFFICES ASSUME Init PROVE SagaInv
  OBVIOUS
<1>1. /\ NoRecord \in Record /\ NoRecord.status = "absent"
      /\ NoRecord.completedSteps = <<>>
  <2>1. StepOrder[1] \in Steps
    BY StepFacts
  <2>2. NewRecord \in Record /\ NewRecord.completedSteps = <<>>
    BY <2>1 DEF NewRecord, Record, Status, Incomplete
  <2> QED BY <2>2 DEF NoRecord, Record, Status
<1>2. TypeOK
  BY <1>1, IdleOK, LimitsAssumption DEF Init, TypeOK
<1>3. SagaOK(saga, timers, executed, undone)
  BY <1>1, StepFacts DEF Init, SagaOK, RecordOK, Ran, Turned
<1>4. \A t \in Task : TaskOK(task[t], saga, executed, undone)
  BY IdleOK DEF Init
<1>5. ClaimsExclusive
  BY IdleOK DEF Init, ClaimsExclusive
<1> QED BY <1>2, <1>3, <1>4, <1>5 DEF SagaInv

\* SagaInv is an invariant: the stored record, every record a task carries and
\* the position of every loop stay consistent through any interleaving of
\* calls, recoveries, sweeps, lost locks, failed writes and crashes.
THEOREM SagaInvariant == Spec => []SagaInv
BY InitOK, NextKeeps, PTL DEF Spec

\* The invariant implies the properties of the stored record.
LEMMA InvImplies ==
  SagaInv => /\ SnapshotCoherent
             /\ CompletedInOrder
             /\ RecordedStepsRan
             /\ ReverseCompensation
             /\ OutcomeIsWhole
<1> SUFFICES ASSUME SagaInv
             PROVE  /\ SnapshotCoherent
                    /\ CompletedInOrder
                    /\ RecordedStepsRan
                    /\ ReverseCompensation
                    /\ OutcomeIsWhole
  OBVIOUS
<1>0. RecordOK(saga) /\ Ran(saga, executed, undone) /\ saga \in Record
  BY DEF SagaInv, SagaOK, TypeOK
<1>1. SnapshotCoherent
  BY TaskFacts DEF SnapshotCoherent, Carrying, TaskOK, Carries, CarriedOK
<1>2. CompletedInOrder /\ RecordedStepsRan /\ ReverseCompensation
  BY <1>0 DEF CompletedInOrder, RecordedStepsRan, ReverseCompensation, RecordOK, Ran
<1>3. ASSUME saga.status = "completed"
      PROVE  Names(saga) = Steps /\ \A s \in Steps : undone[s] = 0
  <2>1. Len(saga.completedSteps) = N
    BY <1>0, <1>3 DEF RecordOK
  <2>2. Names(saga) = Steps
    BY <2>1, <1>0 DEF Names, Steps, RecordOK
  <2> QED BY <2>2, <1>3 DEF SagaInv, SagaOK, Turned
<1>4. OutcomeIsWhole
  BY <1>0, <1>3 DEF OutcomeIsWhole, RecordOK
<1> QED BY <1>1, <1>2, <1>4

\* Type correctness.
THEOREM TypeCorrect == Spec => []TypeOK
BY SagaInvariant, PTL DEF SagaInv

\* A successful save() never overwrites a change its task has not seen.
THEOREM SnapshotsCoherent == Spec => []SnapshotCoherent
BY SagaInvariant, InvImplies, PTL

\* No two tasks act on the same claim.
THEOREM ClaimsAreExclusive == Spec => []ClaimsExclusive
BY SagaInvariant, PTL DEF SagaInv

\* Steps are recorded in order.
THEOREM StepsInOrder == Spec => []CompletedInOrder
BY SagaInvariant, InvImplies, PTL

\* Recorded steps and compensations really ran.
THEOREM RecordIsFaithful == Spec => []RecordedStepsRan
BY SagaInvariant, InvImplies, PTL

\* Compensation is recorded in reverse order.
THEOREM CompensationReverses == Spec => []ReverseCompensation
BY SagaInvariant, InvImplies, PTL

\* Completed means every step and no compensation; compensated means all undone.
THEOREM OutcomesAreWhole == Spec => []OutcomeIsWhole
BY SagaInvariant, InvImplies, PTL
-----------------------------------------------------------------------------
(* Once turned around, a saga's record does not grow.                      *)

\* A save whose record keeps the task's entries keeps the row's entries.
LEMMA SameEntries ==
  ASSUME SagaInv, NEW t \in Task, Carries(task[t]), VersionMatches(task[t].rec),
         NEW rec \in Record, Len(rec.completedSteps) = Len(task[t].rec.completedSteps),
         saga' = Saved(rec)
  PROVE  Len(saga'.completedSteps) = Len(saga.completedSteps)
<1>1. task[t].rec = saga
  BY TaskFacts DEF TaskOK, CarriedOK, VersionMatches
<1> QED BY <1>1, SavedFields

\* Once a saga has turned around or ended, no step adds to its completed steps.
LEMMA NoGrowth ==
  ASSUME SagaInv, [Next]_vars, saga.status \notin {"absent", "running"}
  PROVE  Len(saga'.completedSteps) = Len(saga.completedSteps)
<1>1. CASE UNCHANGED saga
  BY <1>1
<1>2. ASSUME NEW t \in Task, SaveTimedOut(t) \/ SaveFailed(t), saga' # saga
      PROVE  Len(saga'.completedSteps) = Len(saga.completedSteps)
  <2>1. PICK st \in {"timed_out", "compensating"} :
          /\ VersionMatches(task[t].rec)
          /\ saga' = Saved([task[t].rec EXCEPT !.status = st, !.claim = NoClaim])
    BY <1>2 DEF SaveTimedOut, SaveFailed, SaveOk, SaveFault, Conflict
  <2> DEFINE rec == [task[t].rec EXCEPT !.status = st, !.claim = NoClaim]
  <2>2. rec \in Record /\ rec.completedSteps = task[t].rec.completedSteps
    BY TaskFacts DEF Record, Status, Incomplete
  <2>3. Carries(task[t])
    BY <1>2 DEF SaveTimedOut, SaveFailed, At, Carries
  <2> HIDE DEF rec
  <2> QED BY <2>1, <2>2, <2>3, SameEntries DEF rec
<1>3. ASSUME NEW t \in Task, SaveClaim(t), saga' # saga
      PROVE  Len(saga'.completedSteps) = Len(saga.completedSteps)
  <2> DEFINE rec == [task[t].rec EXCEPT !.currentStep = StepOf(t), !.claim = task[t].rec.version + 1]
  <2>1. VersionMatches(task[t].rec) /\ saga' = Saved(rec) /\ task[t].pc = "claimSave"
    BY <1>3 DEF SaveClaim, SaveOk, SaveFault, Conflict, At
  <2>2. StepOf(t) \in Steps /\ task[t].rec.version + 1 \in Nat /\ Carries(task[t])
    BY <2>1, InHand, TaskFacts DEF Record, InLoop
  <2>3. rec \in Record /\ rec.completedSteps = task[t].rec.completedSteps
    BY <2>2, TaskFacts DEF Record
  <2> HIDE DEF rec
  <2> QED BY <2>1, <2>2, <2>3, SameEntries
<1>4. ASSUME NEW t \in Task, SaveUndoFailed(t), saga' # saga
      PROVE  Len(saga'.completedSteps) = Len(saga.completedSteps)
  <2> DEFINE rec == [task[t].rec EXCEPT !.claim = NoClaim]
  <2>1. /\ VersionMatches(rec) \/ VersionMatches(task[t].rec)
        /\ saga' = Saved(rec) /\ Carries(task[t])
    BY <1>4 DEF SaveUndoFailed, SaveFault, Conflict, At, Carries
  <2>2. /\ rec \in Record /\ rec.completedSteps = task[t].rec.completedSteps
        /\ rec.version = task[t].rec.version
    BY TaskFacts DEF Record
  <2> HIDE DEF rec
  <2>3. VersionMatches(task[t].rec)
    BY <2>1, <2>2 DEF VersionMatches
  <2> QED BY <2>1, <2>2, <2>3, SameEntries
<1>5. ASSUME NEW t \in Task, Finish(t), saga' # saga
      PROVE  Len(saga'.completedSteps) = Len(saga.completedSteps)
  <2>1. PICK st \in Terminal :
          /\ VersionMatches(task[t].rec) /\ Carries(task[t])
          /\ saga' = Saved([task[t].rec EXCEPT !.status = st, !.currentStep = NoStep,
                                               !.claim = NoClaim])
    BY <1>5 DEF Finish, SaveOk, SaveFault, Conflict, Terminal, At, Carries
  <2> DEFINE rec == [task[t].rec EXCEPT !.status = st, !.currentStep = NoStep, !.claim = NoClaim]
  <2>2. rec \in Record /\ rec.completedSteps = task[t].rec.completedSteps
    BY TaskFacts DEF Record, Status
  <2> HIDE DEF rec
  <2> QED BY <2>1, <2>2, SameEntries DEF rec
<1>6. ASSUME NEW t \in Task, Persist(t), saga' # saga
      PROVE  Len(saga'.completedSteps) = Len(saga.completedSteps)
  <2>1. VersionMatches(task[t].rec) /\ saga' = Saved(StepRecorded(t)) /\ task[t].pc = "persist"
    BY <1>6 DEF Persist, SaveOk, SaveFault, Conflict, At
  <2>2. Carries(task[t]) /\ task[t].rec = saga
    BY <2>1, TaskFacts DEF TaskOK, CarriedOK, VersionMatches, Carries
  <2>3. task[t].mode = "compensate"
    BY <2>1, <2>2, InHand, TaskFacts DEF ForwardOK, InLoop
  <2> QED BY <2>1, <2>2, <2>3, BackwardRecorded, SameEntries
<1>7. ASSUME NEW t \in Task, Run(t) \/ CallResume(t) \/ Wake(t) PROVE saga' = saga
  BY <1>7 DEF Run, CallResume, Wake, Boot, Sweep, FireRetry
<1>8. Clock \/ Faults => saga' = saga
  BY DEF Clock, Faults, Lapse, PassDeadline, ExpireLock, LoseLock, RenewFails, Crash,
         Rejected, ReleaseAll
<1>9. ASSUME NEW t \in Task, Continue(t), saga' # saga
      PROVE  Len(saga'.completedSteps) = Len(saga.completedSteps)
  <2>1. RecoverOne(t) \/ RecoverResume(t) \/ AcquireWorkflow(t) \/ ClaimStep(t) \/ Execute(t)
        \/ Compensate(t) \/ ReleaseStep(t) \/ Unwind(t) \/ Reschedule(t) => saga' = saga
    BY DEF RecoverOne, RecoverResume, AcquireWorkflow, ClaimStep, Execute, Compensate,
           ReleaseStep, Unwind, Reschedule
  <2> QED BY <1>9, <2>1, <1>2, <1>3, <1>4, <1>5, <1>6 DEF Continue
<1> QED BY <1>1, <1>7, <1>8, <1>9 DEF Next, vars

\* A task that was executing when the saga was turned around, timed out or
\* finished cannot add a step to its record.
THEOREM TurnIsFinal == Spec => NoForwardAfterTurn
<1>1. SagaInv /\ [Next]_vars =>
        [saga.status \notin {"absent", "running"}
           => Len(saga'.completedSteps) = Len(saga.completedSteps)]_vars
  BY NoGrowth
<1> QED BY <1>1, SagaInvariant, PTL DEF Spec, NoForwardAfterTurn
-----------------------------------------------------------------------------
(* While no deadline passes, the coordinator implements SagaOutcome.       *)

\* Without a saga-level deadline nothing expires.
NoDeadline == ~overdue /\ \A t \in Task : task[t].pc # "expired"

\* RecoverOne is the only way to "expired", and only when the saga is overdue.
LEMMA NoDeadlineKept ==
  ASSUME CanExpire = FALSE, SagaInv, NoDeadline, [Next]_vars PROVE NoDeadline'
<1>1. overdue' = overdue
  BY DEF Next, vars, Run, CallResume, Wake, Boot, Sweep, FireRetry, Continue, RecoverOne,
         RecoverResume, SaveTimedOut, AcquireWorkflow, ClaimStep, SaveClaim, Execute,
         SaveFailed, Compensate, SaveUndoFailed, Persist, ReleaseStep, Finish, Unwind,
         Reschedule, Clock, Lapse, PassDeadline, ExpireLock, Faults, Rejected, LoseLock,
         RenewFails, Crash, ReleaseAll
<1>0. task \in [Task -> TaskState] /\ \A u \in Task : task[u].pc # "expired"
  BY DEF SagaInv, TypeOK, NoDeadline
<1>2. ASSUME NEW t \in Task, Run(t) \/ CallResume(t) \/ Wake(t)
      PROVE  \A u \in Task : task'[u].pc # "expired"
  <2>1. CASE Run(t)
    <3>1. task' = task \/ task' = [task EXCEPT ![t].pc = "lock", ![t].rec = saga']
      BY <2>1 DEF Run
    <3> QED BY <1>0, <3>1 DEF TaskState
  <2>2. CASE CallResume(t) \/ Wake(t)
    BY <1>0, <2>2 DEF CallResume, ResumeRead, Wake, Boot, Sweep, FireRetry, Goto, TaskState
  <2> QED BY <1>2, <2>1, <2>2
<1>3. ASSUME NEW t \in Task, Continue(t)
      PROVE  \A u \in Task : task'[u].pc # "expired"
  <2>1. CASE RecoverOne(t) \/ RecoverResume(t) \/ ClaimStep(t) \/ Unwind(t) \/ Reschedule(t)
    BY <2>1 DEF NoDeadline, RecoverOne, RecoverResume, ResumeRead, ClaimStep, Goto, Unwind,
       Reschedule, IdleTask, SagaInv, TypeOK, TaskState
  <2>2. CASE AcquireWorkflow(t) \/ SaveFailed(t)
    <3>1. ASSUME NEW rec PROVE EnterAdvance(task[t], rec).pc = "claim"
      BY <1>0 DEF EnterAdvance, TaskState
    <3>2. ASSUME NEW rec, NEW r, NEW b
          PROVE  /\ [EnterAdvance(task[t], rec) EXCEPT !.rec = r].pc = "claim"
                 /\ [EnterAdvance(task[t], rec) EXCEPT !.locked = b].pc = "claim"
      BY <1>0 DEF EnterAdvance, TaskState
    <3> HIDE DEF EnterAdvance
    <3>3. CASE AcquireWorkflow(t)
      <4>1. CASE task' = [task EXCEPT ![t] =
                            [EnterAdvance(task[t], task[t].rec) EXCEPT !.locked = TRUE]]
        BY <1>0, <3>2, <4>1
      <4>2. CASE task' = [task EXCEPT ![t].pc = "return", ![t].rec = saga]
        BY <1>0, <4>2 DEF TaskState
      <4> QED BY <3>3, <4>1, <4>2 DEF AcquireWorkflow
    <3>4. CASE SaveFailed(t)
      <4>1. ASSUME NEW rec, NEW r,
                   task' = [task EXCEPT ![t] = [EnterAdvance(task[t], rec) EXCEPT !.rec = r]]
            PROVE  \A u \in Task : task'[u].pc # "expired"
        BY <1>0, <3>2, <4>1
      <4>2. CASE Goto(t, "throw")
        BY <1>0, <4>2 DEF Goto, TaskState
      <4> QED BY <3>4, <4>1, <4>2 DEF SaveFailed, SaveOk
    <3> QED BY <2>2, <3>3, <3>4
  <2>3. CASE SaveTimedOut(t)
    BY <2>3 DEF NoDeadline, SaveTimedOut, At
  <2>4. CASE SaveClaim(t) \/ Execute(t) \/ Compensate(t) \/ SaveUndoFailed(t)
    BY <2>4 DEF NoDeadline, SaveClaim, SaveOk, Execute, Compensate, SaveUndoFailed, Goto,
       SagaInv, TypeOK, TaskState
  <2>5. CASE Persist(t)
    BY <1>0, <2>5 DEF Persist, SaveOk, Goto, TaskState
  <2>6. CASE ReleaseStep(t)
    BY <1>0, <2>6 DEF ReleaseStep, Goto, TaskState
  <2>7. CASE Finish(t)
    <3>2. CASE Goto(t, "throw")
      BY <1>0, <3>2 DEF Goto, TaskState
    <3>3. PICK rec : SaveOk(t, rec, [task[t] EXCEPT !.pc = "return"]) \/ Goto(t, "throw")
      BY <2>7 DEF Finish
    <3>4. \/ task' = [task EXCEPT ![t] =
                         [[task[t] EXCEPT !.pc = "return"] EXCEPT !.rec = Saved(rec)]]
          \/ Goto(t, "throw")
      BY <3>3 DEF SaveOk
    <3>5. CASE task' = [task EXCEPT ![t] =
                          [[task[t] EXCEPT !.pc = "return"] EXCEPT !.rec = Saved(rec)]]
      BY <1>0, <3>5 DEF TaskState
    <3> QED BY <3>2, <3>4, <3>5
  <2> QED BY <1>3, <2>1, <2>2, <2>3, <2>4, <2>5, <2>6, <2>7 DEF Continue
<1>4. ASSUME Clock \/ Faults PROVE \A u \in Task : task'[u].pc # "expired"
  <2>1. ASSUME NEW t \in Task, Rejected(t) PROVE \A u \in Task : task'[u].pc # "expired"
    BY <1>0, <2>1 DEF Rejected, Goto, IdleTask, TaskState
  <2>2. ASSUME NEW i \in Instance, Crash(i) PROVE \A u \in Task : task'[u].pc # "expired"
    BY <2>2 DEF NoDeadline, Crash, IdleTask
  <2>3. Clock \/ (\E k \in Keys : LoseLock(k)) \/ (\E i \in Instance, k \in Keys : RenewFails(i, k))
        \/ (\E i \in Instance : ReleaseAll(i)) => task' = task
    BY DEF Clock, Lapse, PassDeadline, ExpireLock, LoseLock, RenewFails, ReleaseAll
  <2>4. task' = task => \A u \in Task : task'[u].pc # "expired"
    BY <1>0
  <2> QED BY <1>4, <2>1, <2>2, <2>3, <2>4 DEF Faults
<1>5. ASSUME UNCHANGED vars PROVE \A u \in Task : task'[u].pc # "expired"
  BY <1>5 DEF vars, NoDeadline
<1>6. \A u \in Task : task'[u].pc # "expired"
  <2>1. CASE Next
    BY <1>2, <1>3, <1>4, <2>1, Zenon DEF Next
  <2> QED BY <2>1, <1>5
<1> QED BY <1>1, <1>6 DEF NoDeadline

\* A save that keeps the status and the entries is a stutter.
LEMMA QuietSave ==
  ASSUME saga'.status = saga.status, saga'.completedSteps = saga.completedSteps
  PROVE  UNCHANGED Outcome!outcomeVars
BY DEF Outcome!outcomeVars, Standing

\* While a saga runs forward every recorded step stands.
LEMMA RunningStands ==
  ASSUME SagaInv, saga.status \in {"running", "completed"}
  PROVE  Standing(saga) = 1..Len(saga.completedSteps)
<1>1. saga \in Record /\ Ran(saga, executed, undone) /\ \A s \in Steps : undone[s] = 0
  BY DEF SagaInv, SagaOK, TypeOK, Turned
<1>2. \A i \in 1..Len(saga.completedSteps) :
        /\ saga.completedSteps[i].stepName \in Steps
        /\ saga.completedSteps[i].status \in {"completed", "compensated"}
  BY <1>1, EntryType
<1> QED BY <1>1, <1>2 DEF Ran, Standing

\* The same after a step.
LEMMA RunningPrimed ==
  SagaInv' /\ (saga.status \in {"running", "completed"})'
    => (Standing(saga) = 1..Len(saga.completedSteps))'
<1>1. SagaInv /\ saga.status \in {"running", "completed"}
        => Standing(saga) = 1..Len(saga.completedSteps)
  BY RunningStands
<1> QED BY <1>1, PTL

\* A recorded step or compensation is a Step, an Undo or a stutter.
LEMMA PersistImplements ==
  ASSUME SagaInv, SagaInv', NEW t \in Task, Persist(t), saga' # saga
  PROVE  [Outcome!Next]_(Outcome!outcomeVars)
<1>1. VersionMatches(task[t].rec) /\ saga' = Saved(StepRecorded(t)) /\ task[t].pc = "persist"
  BY DEF Persist, SaveOk, SaveFault, Conflict, At
<1>2. Carries(task[t]) /\ task[t].rec = saga /\ saga \in Record /\ N \in Nat
  BY <1>1, TaskFacts, StepFacts DEF TaskOK, CarriedOK, VersionMatches, Carries
<1> DEFINE n == Len(saga.completedSteps)
<1>3. n \in Nat /\ RecordOK(saga)
  BY <1>2, EntryType DEF SagaInv, SagaOK
<1>4. CASE task[t].mode = "advance"
  <2>1. /\ StepRecorded(t) \in Record /\ StepRecorded(t).status = "running"
        /\ Len(StepRecorded(t).completedSteps) = n + 1
        /\ saga.status = "running" /\ n + 1 <= N
    BY <1>1, <1>2, <1>3, <1>4, ForwardRecorded, InHand DEF ForwardOK, InLoop, RecordOK
  <2>2. saga'.status = "running" /\ Len(saga'.completedSteps) = n + 1
    BY <1>1, <2>1, SavedFields
  <2>3. Standing(saga) = 1..n /\ Standing(saga)' = 1..n+1
    <3>1. Standing(saga) = 1..n
      BY <2>1, RunningStands
    <3>2. Standing(saga)' = 1..Len(saga'.completedSteps)
      BY <2>2, RunningPrimed
    <3> QED BY <3>1, <3>2, <2>2
  <2>4. n + 1 \in 1..N /\ (n + 1) - 1 = n
    BY <2>1, <1>2, <1>3
  <2>5. Outcome!Step
    BY <2>1, <2>2, <2>3, <2>4 DEF Outcome!Step
  <2> QED BY <2>5 DEF Outcome!Next
<1>5. CASE task[t].mode = "compensate"
  <2> DEFINE k == task[t].at
  <2>1. /\ StepRecorded(t) \in Record /\ StepRecorded(t).status = saga.status
        /\ Len(StepRecorded(t).completedSteps) = n
        /\ \A j \in 1..n : j >= k => StepRecorded(t).completedSteps[j].status = "compensated"
        /\ saga.status \in {"compensating", "timed_out"} /\ k \in 1..n
        /\ \A j \in 1..n : j > k => saga.completedSteps[j].status = "compensated"
    BY <1>1, <1>2, <1>3, <1>5, BackwardRecorded, InHand DEF BackwardOK, InLoop
  <2>2. \A j \in 1..n : j # k =>
           StepRecorded(t).completedSteps[j].status = saga.completedSteps[j].status
    <3>1. StepOf(t) = saga.completedSteps[k].stepName
      BY <1>2, <1>5 DEF StepOf
    <3>2. \A j \in 1..n : j # k => saga.completedSteps[j].stepName # StepOf(t)
      BY <1>2, <1>3, <2>1, <3>1, StepFacts DEF RecordOK
    <3>3. StepRecorded(t).completedSteps =
            [i \in 1..n |-> IF saga.completedSteps[i].stepName = StepOf(t)
                              THEN [saga.completedSteps[i] EXCEPT !.status = "compensated"]
                              ELSE saga.completedSteps[i]]
      BY <1>2, <1>5 DEF StepRecorded, Record
    <3> QED BY <3>2, <3>3
  <2>3. /\ saga'.status = saga.status /\ Len(saga'.completedSteps) = n
        /\ saga'.completedSteps = StepRecorded(t).completedSteps
    BY <1>1, <2>1, SavedFields
  <2>4. Standing(saga)' = {j \in 1..n : j < k /\ saga.completedSteps[j].status = "completed"}
    <3>1. Standing(saga)' = {j \in 1..n : saga'.completedSteps[j].status = "completed"}
      BY <2>3 DEF Standing
    <3>2. \A j \in 1..n : saga'.completedSteps[j].status = "completed"
            <=> j < k /\ saga.completedSteps[j].status = "completed"
      BY <1>3, <2>1, <2>2, <2>3
    <3> QED BY <3>1, <3>2
  <2>5. \A j \in 1..n : saga.completedSteps[j].status \in {"completed", "compensated"}
    BY <1>2, EntryType
  <2>6. CASE saga.completedSteps[k].status = "compensated"
    <3>1. Standing(saga)' = Standing(saga)
      <4>1. \A j \in 1..n : saga.completedSteps[j].status = "completed" => j < k
        <5> SUFFICES ASSUME NEW j \in 1..n, saga.completedSteps[j].status = "completed"
                     PROVE  j < k
          OBVIOUS
        <5>1. ~(j > k) /\ j # k
          BY <2>1, <2>6
        <5> QED BY <5>1, <1>3, <2>1
      <4> QED BY <2>4, <4>1 DEF Standing
    <3> QED BY <2>3, <3>1 DEF Outcome!outcomeVars
  <2>7. CASE saga.completedSteps[k].status = "completed"
    <3>1. \A j \in 1..n : j <= k => saga.completedSteps[j].status = "completed"
      BY <1>3, <2>1, <2>5, <2>7 DEF RecordOK
    <3>2. Standing(saga) = 1..k
      BY <1>3, <2>1, <3>1 DEF Standing
    <3>3. Standing(saga)' = 1..k-1
      BY <1>3, <2>1, <2>4, <3>1
    <3>4. k \in 1..N
      BY <1>2, <1>3, <2>1 DEF RecordOK
    <3>5. Outcome!Undo
      BY <2>1, <2>3, <3>2, <3>3, <3>4 DEF Outcome!Undo
    <3> QED BY <3>5 DEF Outcome!Next
  <2> QED BY <2>1, <2>5, <2>6, <2>7
<1> QED BY <1>4, <1>5, TaskFacts

\* Every step of the coordinator is a step of SagaOutcome or a stutter.
LEMMA StepImplements ==
  ASSUME SagaInv, SagaInv', NoDeadline, [Next]_vars
  PROVE  [Outcome!Next]_(Outcome!outcomeVars)
<1>1. CASE saga' = saga
  BY <1>1, QuietSave
<1>2. ASSUME NEW t \in Task, Run(t), saga' # saga PROVE Outcome!Start
  <2>1. saga.status = "absent" /\ saga' = NewRecord
    BY <1>2 DEF Run
  <2>2. saga = NoRecord
    BY <2>1 DEF SagaInv, SagaOK
  <2>3. saga.completedSteps = <<>> /\ saga'.completedSteps = <<>> /\ saga'.status = "running"
    BY <2>1, <2>2 DEF NoRecord, NewRecord
  <2> QED BY <2>1, <2>3 DEF Outcome!Start, Standing
<1>3. ASSUME NEW t \in Task, SaveFailed(t), saga' # saga PROVE Outcome!TurnAround
  <2> DEFINE rec == [task[t].rec EXCEPT !.status = "compensating", !.claim = NoClaim]
  <2>1. VersionMatches(task[t].rec) /\ saga' = Saved(rec) /\ task[t].pc = "failSave"
    BY <1>3 DEF SaveFailed, SaveOk, SaveFault, Conflict, At
  <2>2. /\ rec \in Record /\ rec.completedSteps = task[t].rec.completedSteps
        /\ rec.status = "compensating"
    BY TaskFacts DEF Record, Status, Incomplete
  <2>3. task[t].rec = saga /\ saga.status = "running"
    BY <2>1, TaskFacts DEF TaskOK, CarriedOK, VersionMatches, Carries, LoopOK
  <2> HIDE DEF rec
  <2>4. saga'.status = "compensating" /\ saga'.completedSteps = saga.completedSteps
    BY <2>1, <2>2, <2>3, SavedFields
  <2> QED BY <2>3, <2>4 DEF Outcome!TurnAround, Standing
<1>4. ASSUME NEW t \in Task, SaveClaim(t), saga' # saga PROVE UNCHANGED Outcome!outcomeVars
  <2> DEFINE rec == [task[t].rec EXCEPT !.currentStep = StepOf(t), !.claim = task[t].rec.version + 1]
  <2>1. VersionMatches(task[t].rec) /\ saga' = Saved(rec) /\ task[t].pc = "claimSave"
    BY <1>4 DEF SaveClaim, SaveOk, SaveFault, Conflict, At
  <2>2. StepOf(t) \in Steps /\ task[t].rec.version + 1 \in Nat /\ Carries(task[t])
    BY <2>1, InHand, TaskFacts DEF Record, InLoop
  <2>3. /\ rec \in Record /\ rec.completedSteps = task[t].rec.completedSteps
        /\ rec.status = task[t].rec.status
    BY <2>2, TaskFacts DEF Record
  <2>4. task[t].rec = saga
    BY <2>1, <2>2, TaskFacts DEF TaskOK, CarriedOK, VersionMatches
  <2> HIDE DEF rec
  <2>5. saga'.status = saga.status /\ saga'.completedSteps = saga.completedSteps
    BY <2>1, <2>3, <2>4, SavedFields
  <2> QED BY <2>5, QuietSave
<1>5. ASSUME NEW t \in Task, SaveUndoFailed(t), saga' # saga PROVE UNCHANGED Outcome!outcomeVars
  <2> DEFINE rec == [task[t].rec EXCEPT !.claim = NoClaim]
  <2>1. /\ VersionMatches(rec) \/ VersionMatches(task[t].rec)
        /\ saga' = Saved(rec) /\ Carries(task[t])
    BY <1>5 DEF SaveUndoFailed, SaveFault, Conflict, At, Carries
  <2>2. /\ rec \in Record /\ rec.completedSteps = task[t].rec.completedSteps
        /\ rec.version = task[t].rec.version /\ rec.status = task[t].rec.status
    BY TaskFacts DEF Record
  <2> HIDE DEF rec
  <2>3. task[t].rec = saga
    BY <2>1, <2>2, TaskFacts DEF TaskOK, CarriedOK, VersionMatches
  <2>4. saga'.status = saga.status /\ saga'.completedSteps = saga.completedSteps
    BY <2>1, <2>2, <2>3, SavedFields
  <2> QED BY <2>4, QuietSave
<1>6. ASSUME NEW t \in Task, Finish(t), saga' # saga PROVE Outcome!Settle
  <2> DEFINE final == IF task[t].mode = "advance" THEN "completed" ELSE "compensated"
             rec == [task[t].rec EXCEPT !.status = final, !.currentStep = NoStep,
                                        !.claim = NoClaim]
  <2>1. VersionMatches(task[t].rec) /\ saga' = Saved(rec) /\ task[t].pc = "claim" /\ LoopDone(t)
    BY <1>6 DEF Finish, SaveOk, SaveFault, Conflict, At
  <2>2. rec \in Record /\ rec.completedSteps = task[t].rec.completedSteps /\ rec.status = final
    BY TaskFacts DEF Record, Status, Terminal
  <2>3. task[t].rec = saga /\ LoopOK(task[t]) /\ saga \in Record
    BY <2>1, TaskFacts DEF TaskOK, CarriedOK, VersionMatches, Carries
  <2> HIDE DEF rec
  <2>4. saga'.status = final /\ saga'.completedSteps = saga.completedSteps
    BY <2>1, <2>2, <2>3, SavedFields
  <2>5. Standing(saga)' = Standing(saga)
    BY <2>4 DEF Standing
  <2>6. CASE task[t].mode = "advance"
    <3>1. saga.status = "running" /\ N + 1 = Len(saga.completedSteps) + 1
      BY <2>1, <2>3, <2>6 DEF LoopOK, ForwardOK, InLoop, LoopDone
    <3>2. Standing(saga) = 1..N
      BY <3>1, <2>3, EntryType, StepFacts, RunningStands
    <3> QED BY <2>4, <2>5, <2>6, <3>1, <3>2 DEF Outcome!Settle
  <2>7. CASE task[t].mode = "compensate"
    <3>1. /\ saga.status \in {"compensating", "timed_out"}
          /\ \A j \in 1..Len(saga.completedSteps) : saga.completedSteps[j].status = "compensated"
      BY <2>1, <2>3, <2>7, EntryType DEF LoopOK, BackwardOK, InLoop, LoopDone
    <3>2. Standing(saga) = {}
      BY <3>1 DEF Standing
    <3> QED BY <2>4, <2>5, <2>7, <3>1, <3>2 DEF Outcome!Settle
  <2> QED BY <2>6, <2>7, TaskFacts
<1>7. ASSUME NEW t \in Task, CallResume(t) \/ Wake(t) PROVE saga' = saga
  BY <1>7 DEF CallResume, Wake, Boot, Sweep, FireRetry
<1>8. Clock \/ Faults => saga' = saga
  BY DEF Clock, Faults, Lapse, PassDeadline, ExpireLock, LoseLock, RenewFails, Crash,
         Rejected, ReleaseAll
<1>9. ASSUME NEW t \in Task, Continue(t), saga' # saga
      PROVE  [Outcome!Next]_(Outcome!outcomeVars)
  <2>1. RecoverOne(t) \/ RecoverResume(t) \/ AcquireWorkflow(t) \/ ClaimStep(t) \/ Execute(t)
        \/ Compensate(t) \/ ReleaseStep(t) \/ Unwind(t) \/ Reschedule(t) => saga' = saga
    BY DEF RecoverOne, RecoverResume, AcquireWorkflow, ClaimStep, Execute, Compensate,
           ReleaseStep, Unwind, Reschedule
  <2>2. ~SaveTimedOut(t)
    BY DEF SaveTimedOut, At, NoDeadline
  <2> QED BY <1>9, <2>1, <2>2, <1>3, <1>4, <1>5, <1>6, PersistImplements
          DEF Continue, Outcome!Next
<1>10. UNCHANGED vars => saga' = saga
  BY DEF vars
<1> QED BY <1>1, <1>2, <1>7, <1>8, <1>9, <1>10 DEF Next, Outcome!Next

\* While no deadline passes, the coordinator implements SagaOutcome.
THEOREM SagaImplementsOutcome ==
  ASSUME CanExpire = FALSE PROVE Spec => ImplementsOutcome
<1>1. Init => Outcome!Init
  BY DEF Init, Outcome!Init, NoRecord, NewRecord, Standing
<1>2. Init => NoDeadline
  BY DEF Init, NoDeadline, IdleTask
<1>3. SagaInv /\ NoDeadline /\ [Next]_vars => NoDeadline'
  BY NoDeadlineKept, Zenon
<1>4. SagaInv /\ SagaInv' /\ NoDeadline /\ [Next]_vars
        => [Outcome!Next]_(Outcome!outcomeVars)
  BY StepImplements
<1> QED BY <1>1, <1>2, <1>3, <1>4, SagaInvariant, PTL
        DEF Spec, ImplementsOutcome, Outcome!Spec
-----------------------------------------------------------------------------
(* A lease excludes.  No lock is assumed: the claim stored by claimStep()  *)
(* and the version test of the saves do it alone.                          *)

\* A task that runs a step forward, or is about to record it.
Driver(t) == task[t].pc \in Acting /\ task[t].mode = "advance"

\* While its claim lasts and the saga runs, the record of a driver is the stored
\* one: whoever reads it finds the step claimed.
DriverOK(t) ==
  /\ task[t].rec.currentStep = StepOf(t)
  /\ Leased(task[t].rec) /\ saga.status = "running" => task[t].rec = saga

\* A task about to claim a step has found it free.
FreeStep(t) == ~(task[t].rec.currentStep = StepOf(t) /\ Leased(task[t].rec))

LeaseInv ==
  /\ \A t \in Task : task[t].pc = "claimSave" => FreeStep(t)
  /\ \A t \in Task : Driver(t) => DriverOK(t)
  /\ LeaseExcludes

\* Task u keeps its place.
Stays(u) == task'[u].rec = task[u].rec /\ task'[u].mode = task[u].mode /\ task'[u].at = task[u].at

\* The other tasks stay where they are, and none that drives holds a live claim.
OthersLapsed(t) ==
  \A u \in Task : u # t => Stays(u) /\ (Driver(u)' => ~Leased(task[u].rec))

\* What a step may do to a task: leave it, take it out of the loop, let it find a
\* step free, or make it the driver of a step that no live claim covers.
Admitted(u) ==
  /\ task'[u].pc = "claimSave" => (task[u].pc = "claimSave" /\ Stays(u)) \/ FreeStep(u)'
  /\ Driver(u)' =>
       \/ Driver(u) /\ Stays(u)
       \/ DriverOK(u)' /\ OthersLapsed(u)

\* A live lease of the next state is one already.
LEMMA LeasedBefore ==
  ASSUME lapsedTo \in Nat, lapsedTo' \in Nat, lapsedTo' >= lapsedTo
  PROVE  \A rec \in Record : rec.claim # NoClaim /\ rec.claim > lapsedTo' => Leased(rec)
BY ClaimAssumption DEF Leased, Record

\* A step that admits all it does to the tasks keeps the leases exclusive, unless
\* it writes a running record under a driver whose claim lasts.
LEMMA LeaseStep ==
  ASSUME LeaseInv, TypeOK, TypeOK', lapsedTo' >= lapsedTo,
         \A u \in Task : Admitted(u),
         \A u \in Task : Driver(u)' /\ Stays(u) /\ Leased(task[u].rec) /\ saga'.status = "running"
                           => saga' = saga
  PROVE  LeaseInv'
<1>1. lapsedTo \in Nat /\ lapsedTo' \in Nat
      /\ \A u \in Task : task[u].rec \in Record /\ task'[u].rec \in Record
  BY DEF TypeOK, TaskState
<1>2. ASSUME NEW u \in Task, Stays(u)
      PROVE  Leased(task[u].rec)' => Leased(task[u].rec)
  BY <1>1, <1>2, LeasedBefore DEF Stays, Leased
<1>3. ASSUME NEW u \in Task, Stays(u) PROVE StepOf(u)' = StepOf(u)
  BY <1>3 DEF Stays, StepOf
<1>4. ASSUME NEW u \in Task, task'[u].pc = "claimSave" PROVE FreeStep(u)'
  BY <1>2, <1>3, <1>4 DEF Admitted, LeaseInv, FreeStep, Stays
<1>5. ASSUME NEW u \in Task, Driver(u)' PROVE DriverOK(u)'
  <2>1. CASE Driver(u) /\ Stays(u)
    BY <1>2, <1>3, <1>5, <2>1 DEF LeaseInv, DriverOK, Stays
  <2> QED BY <1>5, <2>1 DEF Admitted
<1>6. ASSUME NEW t \in Task, NEW u \in Task, t # u, Driver(t)', Driver(u)',
             StepOf(t)' = StepOf(u)'
      PROVE  ~Leased(task[t].rec)' \/ ~Leased(task[u].rec)'
  <2>1. CASE Driver(t) /\ Stays(t) /\ Driver(u) /\ Stays(u)
    BY <1>2, <1>3, <1>6, <2>1 DEF LeaseInv, LeaseExcludes, Driver, Acting
  <2>2. CASE OthersLapsed(t)
    BY <1>2, <1>6, <2>2 DEF OthersLapsed
  <2>3. CASE OthersLapsed(u)
    BY <1>2, <1>6, <2>3 DEF OthersLapsed
  <2> QED BY <1>6, <2>1, <2>2, <2>3 DEF Admitted
<1> QED BY <1>4, <1>5, <1>6 DEF LeaseInv, LeaseExcludes, Driver, Acting

\* What a step by task t leaves of the others.
Moves(t) == \A u \in Task : u # t => task'[u] = task[u]

\* A step of a task that does not drive afterwards and writes no running record.
LEMMA LeaveStep ==
  ASSUME LeaseInv, TypeOK, TypeOK', lapsedTo' = lapsedTo, NEW t \in Task, Moves(t),
         task'[t].pc = "claimSave" => FreeStep(t)',
         Driver(t)' => Driver(t) /\ Stays(t),
         saga' = saga \/ saga'.status # "running"
  PROVE  LeaseInv'
<1>1. ASSUME NEW u \in Task PROVE Admitted(u)
  BY DEF Admitted, Moves, Stays, Driver
<1>2. lapsedTo' >= lapsedTo
  BY DEF TypeOK
<1> QED BY <1>1, <1>2, LeaseStep

\* The moving task, when only its label changes.
LEMMA GotoMoves ==
  ASSUME TypeOK, NEW t \in Task, NEW l \in Labels, Goto(t, l)
  PROVE  Moves(t) /\ Stays(t) /\ task'[t].pc = l
BY DEF TypeOK, TaskState, Goto, Moves, Stays

\* The moving task, when it gets a new state.
LEMMA SetMoves ==
  ASSUME TypeOK, NEW t \in Task, NEW ts, task' = [task EXCEPT ![t] = ts]
  PROVE  Moves(t) /\ task'[t] = ts
BY DEF TypeOK, Moves

\* A call that is started.
LEMMA RunLease ==
  ASSUME SagaInv, TypeOK', LeaseInv, NEW t \in Task, Run(t) PROVE LeaseInv'
<1>1. TypeOK /\ lapsedTo' = lapsedTo
  BY DEF SagaInv, Run
<1>2. Moves(t) /\ task'[t].pc \in {"idle", "lock"}
  BY <1>1 DEF Run, At, Moves, TypeOK, TaskState
<1>3. CASE saga' = saga
  BY <1>1, <1>2, <1>3, LeaveStep DEF Driver, Acting
<1>4. CASE saga.status = "absent"
  <2>1. \A u \in Task : u # t => task'[u].pc = "idle"
    BY <1>2, <1>4 DEF SagaInv, TaskOK, Moves
  <2>2. ASSUME NEW u \in Task PROVE task'[u].pc \in {"idle", "lock"}
    BY <1>2, <2>1
  <2>3. \A u \in Task : Admitted(u) /\ ~Driver(u)'
    BY <2>2 DEF Admitted, Driver, Acting
  <2>4. lapsedTo' >= lapsedTo
    BY <1>1 DEF TypeOK
  <2> QED BY <1>1, <2>3, <2>4, LeaseStep
<1> QED BY <1>3, <1>4 DEF Run

\* A call or a wake-up that only reads.
LEMMA WakeLease ==
  ASSUME SagaInv, TypeOK', LeaseInv, NEW t \in Task,
         CallResume(t) \/ Wake(t) \/ RecoverOne(t) \/ RecoverResume(t)
  PROVE  LeaseInv'
<1>1. TypeOK /\ lapsedTo' = lapsedTo /\ saga' = saga
  BY DEF SagaInv, CallResume, Wake, Boot, Sweep, FireRetry, RecoverOne, RecoverResume
<1>2. Moves(t) /\ task'[t].pc \notin Acting \cup {"claimSave"}
  BY <1>1 DEF CallResume, Wake, Boot, Sweep, FireRetry, RecoverOne, RecoverResume, ResumeRead,
              Goto, At, Moves, TypeOK, TaskState, Acting
<1> QED BY <1>1, <1>2, LeaveStep DEF Driver

\* Taking the workflow lock, leaving the call, or a rejected call.
LEMMA EdgeLease ==
  ASSUME SagaInv, TypeOK', LeaseInv, NEW t \in Task,
         AcquireWorkflow(t) \/ Unwind(t) \/ Reschedule(t) \/ Rejected(t) \/ ReleaseStep(t)
  PROVE  LeaseInv'
<1>1. TypeOK /\ lapsedTo' = lapsedTo /\ saga' = saga
  BY DEF SagaInv, AcquireWorkflow, Unwind, Reschedule, Rejected, ReleaseStep
<1>2. Moves(t) /\ task'[t].pc \notin Acting \cup {"claimSave"}
  <2>1. CASE AcquireWorkflow(t)
    <3>1. \/ task' = [task EXCEPT ![t] =
                        [EnterAdvance(task[t], task[t].rec) EXCEPT !.locked = TRUE]]
          \/ task' = [task EXCEPT ![t].pc = "return", ![t].rec = saga]
      BY <2>1 DEF AcquireWorkflow
    <3>2. [EnterAdvance(task[t], task[t].rec) EXCEPT !.locked = TRUE].pc = "claim"
      BY <1>1 DEF EnterAdvance, TypeOK, TaskState
    <3>3. CASE task' = [task EXCEPT ![t].pc = "return", ![t].rec = saga]
      BY <1>1, <3>3 DEF Moves, TypeOK, TaskState, Acting
    <3> QED BY <1>1, <3>1, <3>2, <3>3, SetMoves DEF Acting
  <2>2. CASE Unwind(t) \/ Reschedule(t)
    <3>1. PICK ts : task' = [task EXCEPT ![t] = ts] /\ ts.pc \in {"reschedule", "idle"}
      <4>1. task' = [task EXCEPT ![t] = [task[t] EXCEPT !.pc = "reschedule"]]
            \/ task' = [task EXCEPT ![t] = IdleTask]
        BY <2>2 DEF Unwind, Reschedule
      <4>2. [task[t] EXCEPT !.pc = "reschedule"].pc = "reschedule" /\ IdleTask.pc = "idle"
        BY <1>1 DEF TypeOK, TaskState, IdleTask
      <4> QED BY <4>1, <4>2
    <3> QED BY <1>1, <3>1, SetMoves DEF Acting
  <2>3. CASE Rejected(t)
    BY <1>1, <2>3 DEF Rejected, IdleTask, Goto, Moves, TypeOK, TaskState, Acting
  <2>4. CASE ReleaseStep(t)
    BY <1>1, <2>4 DEF ReleaseStep, Goto, Moves, TypeOK, TaskState, Acting
  <2> QED BY <2>1, <2>2, <2>3, <2>4
<1> QED BY <1>1, <1>2, LeaveStep DEF Driver

\* claimStep() goes on only with a step it finds free.
LEMMA ClaimStepLease ==
  ASSUME SagaInv, TypeOK', LeaseInv, NEW t \in Task, ClaimStep(t) PROVE LeaseInv'
<1>1. TypeOK /\ lapsedTo' = lapsedTo /\ saga' = saga
  BY DEF SagaInv, ClaimStep
<1>2. CASE Goto(t, "return")
  <2>1. Moves(t) /\ task'[t].pc = "return"
    BY <1>1, <1>2, GotoMoves DEF Labels
  <2> QED BY <1>1, <2>1, LeaveStep DEF Driver, Acting
<1>3. CASE FreeStep(t) /\ Goto(t, "claimSave")
  <2>1. Moves(t) /\ Stays(t) /\ task'[t].pc = "claimSave"
    BY <1>1, <1>3, GotoMoves DEF Labels
  <2>2. FreeStep(t)'
    BY <1>1, <1>3, <2>1 DEF FreeStep, Stays, StepOf, Leased
  <2> QED BY <1>1, <2>1, <2>2, LeaveStep DEF Driver, Acting
<1> QED BY <1>2, <1>3 DEF ClaimStep, FreeStep

\* Running a step, a compensation, or the next attempt.
LEMMA ActLease ==
  ASSUME SagaInv, TypeOK', LeaseInv, NEW t \in Task, Execute(t) \/ Compensate(t)
  PROVE  LeaseInv'
<1>1. TypeOK /\ lapsedTo' = lapsedTo /\ saga' = saga /\ task[t].pc \in Acting
  BY DEF SagaInv, Execute, Compensate, At, Acting
<1>2. CASE task' = task
  BY <1>1, <1>2, LeaveStep DEF Moves, Stays, Driver, Acting
<1>3. CASE \E l \in {"persist", "failSave", "undoFailSave"} : Goto(t, l)
  <2>1. PICK l \in {"persist", "failSave", "undoFailSave"} : Goto(t, l)
    BY <1>3
  <2>2. Moves(t) /\ Stays(t) /\ task'[t].pc = l
    BY <1>1, <2>1, GotoMoves DEF Labels
  <2> QED BY <1>1, <2>2, LeaveStep DEF Driver, Stays
<1> QED BY <1>2, <1>3 DEF Execute, Compensate

\* The writes that leave the saga turned around or finished.
LEMMA TurnLease ==
  ASSUME SagaInv, TypeOK', LeaseInv, NEW t \in Task,
         SaveTimedOut(t) \/ SaveFailed(t) \/ SaveUndoFailed(t) \/ Finish(t)
  PROVE  LeaseInv'
<1>1. TypeOK /\ lapsedTo' = lapsedTo /\ task[t].rec \in Record
  BY TaskFacts DEF SagaInv, SaveTimedOut, SaveFailed, SaveUndoFailed, Finish
<1>2. \A st \in Status \ {"running"} :
        /\ Saved([task[t].rec EXCEPT !.status = st, !.claim = NoClaim]).status # "running"
        /\ Saved([task[t].rec EXCEPT !.status = st, !.currentStep = NoStep,
                                     !.claim = NoClaim]).status # "running"
  BY <1>1 DEF Saved, Record
<1>3. \A l \in {"return", "throw"} : Goto(t, l) => Moves(t) /\ task'[t].pc = l
  BY <1>1, GotoMoves DEF Labels
<1>4. ASSUME NEW rec, NEW ts, SaveOk(t, rec, ts), ts.pc \in {"claim", "return"}, ts \in TaskState
      PROVE  Moves(t) /\ task'[t].pc \in {"claim", "return"}
  <2>1. task' = [task EXCEPT ![t] = [ts EXCEPT !.rec = Saved(rec)]]
    BY <1>4 DEF SaveOk
  <2>2. [ts EXCEPT !.rec = Saved(rec)].pc = ts.pc
    BY <1>4 DEF TaskState
  <2> QED BY <1>1, <1>4, <2>1, <2>2, SetMoves
<1>5. ASSUME NEW st \in {"compensating", "timed_out"},
             NEW rec, rec = [task[t].rec EXCEPT !.status = st, !.claim = NoClaim],
             \/ SaveOk(t, rec, EnterAdvance(task[t], rec))
             \/ (SaveFault(t, rec) \/ Conflict(t)) /\ Goto(t, "throw")
      PROVE  LeaseInv'
  <2>1. saga' = saga \/ saga'.status # "running"
    BY <1>2, <1>5 DEF SaveOk, SaveFault, Conflict, Status, Incomplete
  <2>2. Moves(t) /\ task'[t].pc \in {"claim", "return", "throw"}
    <3>1. rec.status \in {"compensating", "timed_out"}
      BY <1>1, <1>5 DEF Record
    <3>2. EnterAdvance(task[t], rec) =
            [task[t] EXCEPT !.pc = "claim", !.mode = "compensate", !.rec = rec,
                            !.at = Len(rec.completedSteps)]
      BY <3>1 DEF EnterAdvance
    <3>3. CASE SaveOk(t, rec, EnterAdvance(task[t], rec))
      <4>1. task' = [task EXCEPT ![t] = [EnterAdvance(task[t], rec) EXCEPT !.rec = Saved(rec)]]
        BY <3>3 DEF SaveOk
      <4>2. [EnterAdvance(task[t], rec) EXCEPT !.rec = Saved(rec)].pc = "claim"
        BY <3>2, <1>1 DEF TypeOK, TaskState
      <4> QED BY <1>1, <4>1, <4>2, SetMoves
    <3> QED BY <1>3, <1>5, <3>3
  <2> QED BY <1>1, <2>1, <2>2, LeaveStep DEF Driver, Acting
<1>6. CASE SaveTimedOut(t) \/ SaveFailed(t)
  BY <1>5, <1>6 DEF SaveTimedOut, SaveFailed
<1>7. CASE SaveUndoFailed(t)
  <2>1. task[t].rec.status \in {"compensating", "timed_out"}
    BY <1>7, TaskFacts DEF SaveUndoFailed, At, TaskOK, LoopOK
  <2>2. Saved([task[t].rec EXCEPT !.claim = NoClaim]).status # "running"
    BY <1>1, <2>1 DEF Saved, Record
  <2>3. saga' = saga \/ saga'.status # "running"
    BY <1>7, <2>2 DEF SaveUndoFailed, SaveFault, Conflict
  <2>4. Moves(t) /\ task'[t].pc = "throw"
    BY <1>3, <1>7 DEF SaveUndoFailed
  <2> QED BY <1>1, <2>3, <2>4, LeaveStep DEF Driver, Acting
<1>8. CASE Finish(t)
  <2>1. saga' = saga \/ saga'.status # "running"
    BY <1>2, <1>8 DEF Finish, SaveOk, SaveFault, Conflict, Status, Terminal
  <2>2. [task[t] EXCEPT !.pc = "return"] \in TaskState
        /\ [task[t] EXCEPT !.pc = "return"].pc = "return"
    BY TaskFacts DEF TaskState, Labels
  <2>3. Moves(t) /\ task'[t].pc \in {"claim", "return", "throw"}
    <3>1. (\E rec : SaveOk(t, rec, [task[t] EXCEPT !.pc = "return"])) \/ Goto(t, "throw")
      BY <1>8 DEF Finish
    <3> QED BY <1>3, <1>4, <2>2, <3>1
  <2> QED BY <1>1, <2>1, <2>3, LeaveStep DEF Driver, Acting
<1> QED BY <1>6, <1>7, <1>8

\* The step in hand of a task going forward.
LEMMA ForwardStep ==
  ASSUME SagaInv, NEW t \in Task, task[t].pc \in InLoop \ {"claim", "release"},
         task[t].mode = "advance"
  PROVE  StepOf(t) = StepOrder[Len(task[t].rec.completedSteps) + 1]
BY InHand DEF ForwardOK, StepOf

\* A write that finds its version finds the record it carries.
LEMMA WriterHasRow ==
  ASSUME SagaInv, NEW t \in Task, Carries(task[t]), VersionMatches(task[t].rec)
  PROVE  task[t].rec = saga
BY TaskFacts DEF TaskOK, CarriedOK, VersionMatches

\* Recording a step: whoever else drives has lost its lease.
LEMMA PersistLease ==
  ASSUME SagaInv, TypeOK', LeaseInv, NEW t \in Task, Persist(t) PROVE LeaseInv'
<1>1. /\ TypeOK /\ lapsedTo' = lapsedTo /\ task[t].pc = "persist"
      /\ task[t].pc \in InLoop \ {"claim"} /\ Carries(task[t])
  BY DEF SagaInv, Persist, At, InLoop, Carries
<1>2. Moves(t) /\ task'[t].pc \notin Acting \cup {"claimSave"}
  <2>1. CASE SaveOk(t, StepRecorded(t), [task[t] EXCEPT !.pc = "release"])
    <3>1. task' = [task EXCEPT ![t] = [[task[t] EXCEPT !.pc = "release"]
                                         EXCEPT !.rec = Saved(StepRecorded(t))]]
      BY <2>1 DEF SaveOk
    <3>2. [[task[t] EXCEPT !.pc = "release"] EXCEPT !.rec = Saved(StepRecorded(t))].pc = "release"
      BY TaskFacts DEF TaskState
    <3> QED BY <1>1, <3>1, <3>2, SetMoves DEF Acting
  <2>2. CASE Goto(t, "return") \/ Goto(t, "throw") \/ Goto(t, "undoFailSave")
    BY <1>1, <2>2, GotoMoves DEF Labels, Acting
  <2> QED BY <2>1, <2>2 DEF Persist
<1>3. saga' = saga \/ VersionMatches(task[t].rec)
  BY DEF Persist, SaveOk, SaveFault, Conflict
<1>4. CASE saga' = saga
  BY <1>1, <1>2, <1>4, LeaveStep DEF Driver
<1>5. CASE VersionMatches(task[t].rec)
  <2>1. task[t].rec = saga
    BY <1>1, <1>5, WriterHasRow
  <2>2. ASSUME NEW u \in Task, Driver(u)', Leased(task[u].rec), saga'.status = "running"
        PROVE  saga' = saga
    <3>1. u # t /\ Driver(u)
      BY <1>2, <2>2 DEF Driver, Moves
    <3>2. saga.status # "running"
      BY <1>1, <2>1, <2>2, <3>1 DEF SagaInv, LeaseInv, DriverOK, ClaimsExclusive, Driver, Acting
    <3>3. task[t].mode = "compensate"
      BY <1>1, <2>1, <3>2, InHand, TaskFacts DEF ForwardOK
    <3>4. StepRecorded(t).status = saga.status /\ StepRecorded(t) \in Record
      BY <1>1, <2>1, <3>3, BackwardRecorded
    <3>5. Saved(StepRecorded(t)).status # "running"
      BY <3>2, <3>4, SavedFields
    <3> QED BY <2>2, <3>5 DEF Persist, SaveOk, SaveFault, Conflict
  <2>3. ASSUME NEW u \in Task PROVE Admitted(u)
    BY <1>2 DEF Admitted, Moves, Stays, Driver
  <2>4. lapsedTo' >= lapsedTo
    BY <1>1 DEF TypeOK
  <2> QED BY <1>1, <2>2, <2>3, <2>4, LeaseStep
<1> QED BY <1>3, <1>4, <1>5

\* The claim: a step found free has no driver whose lease lasts.
LEMMA SaveClaimLease ==
  ASSUME SagaInv, TypeOK', LeaseInv, NEW t \in Task, SaveClaim(t) PROVE LeaseInv'
<1> DEFINE rec == [task[t].rec EXCEPT !.currentStep = StepOf(t), !.claim = task[t].rec.version + 1]
<1>1. /\ TypeOK /\ lapsedTo' = lapsedTo /\ task[t].pc = "claimSave" /\ FreeStep(t)
      /\ task[t].pc \in InLoop \ {"claim", "release"} /\ Carries(task[t])
      /\ lapsedTo' >= lapsedTo
  BY DEF SagaInv, SaveClaim, At, InLoop, Carries, TypeOK, LeaseInv
<1>2. /\ rec \in Record /\ Saved(rec).status = task[t].rec.status
      /\ Saved(rec).currentStep = StepOf(t)
  <2>1. StepOf(t) \in Steps /\ task[t].rec.version + 1 \in Nat
    BY <1>1, InHand, TaskFacts DEF Record
  <2> QED BY <2>1, TaskFacts DEF Record, Saved
<1>3. \/ SaveOk(t, rec, [task[t] EXCEPT !.pc = "act"])
      \/ SaveFault(t, rec) /\ Goto(t, "throw")
      \/ Conflict(t) /\ Goto(t, "return")
  BY DEF SaveClaim
<1> HIDE DEF rec
<1>4. ASSUME VersionMatches(task[t].rec), saga' = Saved(rec), saga'.status = "running",
             NEW u \in Task, u # t, Driver(u)
      PROVE  ~Leased(task[u].rec)
  <2> SUFFICES ASSUME Leased(task[u].rec) PROVE FALSE
    OBVIOUS
  <2>1. task[t].rec = saga /\ saga.status = "running"
    BY <1>1, <1>2, <1>4, WriterHasRow
  <2>2. task[u].rec = saga /\ saga.currentStep = StepOf(u)
    BY <1>4, <2>1 DEF LeaseInv, DriverOK
  <2>3. task[t].mode = "advance" /\ task[u].pc \in InLoop \ {"claim", "release"}
    BY <1>1, <1>4, <2>1, InHand, TaskFacts DEF BackwardOK, Driver, Acting, InLoop
  <2>4. StepOf(t) = StepOf(u)
    BY <1>1, <1>4, <2>1, <2>2, <2>3, ForwardStep DEF Driver
  <2> QED BY <1>1, <2>1, <2>2, <2>4 DEF FreeStep
<1>5. CASE saga' = saga /\ (Goto(t, "throw") \/ Goto(t, "return"))
  <2>1. Moves(t) /\ task'[t].pc \in {"throw", "return"}
    BY <1>1, <1>5, GotoMoves DEF Labels
  <2> QED BY <1>1, <1>5, <2>1, LeaveStep DEF Driver, Acting
<1>6. CASE VersionMatches(task[t].rec) /\ saga' = Saved(rec) /\ Goto(t, "throw")
  <2>1. Moves(t) /\ task'[t].pc = "throw"
    BY <1>1, <1>6, GotoMoves DEF Labels
  <2>2. ASSUME NEW u \in Task PROVE Admitted(u)
    BY <2>1 DEF Admitted, Moves, Stays, Driver, Acting
  <2>3. ASSUME NEW u \in Task, Driver(u)', Leased(task[u].rec) PROVE saga'.status # "running"
    BY <1>4, <1>6, <2>1, <2>3 DEF Driver, Moves, Acting
  <2> QED BY <1>1, <2>2, <2>3, LeaseStep
<1>7. CASE SaveOk(t, rec, [task[t] EXCEPT !.pc = "act"])
  <2> DEFINE ts == [[task[t] EXCEPT !.pc = "act"] EXCEPT !.rec = Saved(rec)]
  <2>1. VersionMatches(task[t].rec) /\ saga' = Saved(rec) /\ task' = [task EXCEPT ![t] = ts]
    BY <1>7 DEF SaveOk
  <2>2. ts.pc = "act" /\ ts.rec = Saved(rec) /\ ts.mode = task[t].mode /\ ts.at = task[t].at
    BY TaskFacts DEF TaskState
  <2> HIDE DEF ts
  <2>3. Moves(t) /\ task'[t] = ts
    BY <1>1, <2>1, SetMoves
  <2>4. ASSUME NEW u \in Task, Driver(u)', Stays(u), Leased(task[u].rec), saga'.status = "running"
        PROVE  saga' = saga
    <3>1. CASE u = t
      BY <1>1, <2>1, <2>2, <2>3, <2>4, <3>1, WriterHasRow DEF Stays
    <3>2. CASE u # t
      BY <1>4, <2>1, <2>3, <2>4, <3>2 DEF Driver, Moves
    <3> QED BY <3>1, <3>2
  <2>5. ASSUME NEW u \in Task PROVE Admitted(u)
    <3>1. CASE u # t
      BY <2>3, <3>1 DEF Admitted, Moves, Stays, Driver
    <3>2. CASE u = t /\ task[t].mode = "advance"
      <4>1. saga'.status = "running"
        BY <1>1, <1>2, <2>1, <3>2, InHand DEF ForwardOK
      <4>2. OthersLapsed(t)
        BY <1>4, <2>1, <2>3, <4>1 DEF OthersLapsed, Moves, Stays, Driver
      <4>3. StepOf(t)' = StepOf(t)
        BY <2>2, <2>3, <3>2 DEF StepOf
      <4>4. DriverOK(t)'
        BY <1>2, <2>1, <2>2, <2>3, <4>3 DEF DriverOK
      <4> QED BY <2>2, <2>3, <3>2, <4>2, <4>4 DEF Admitted
    <3>3. CASE u = t /\ task[t].mode # "advance"
      BY <2>2, <2>3, <3>3 DEF Admitted, Driver
    <3> QED BY <3>1, <3>2, <3>3
  <2> QED BY <1>1, <2>4, <2>5, LeaseStep
<1> QED BY <1>3, <1>5, <1>6, <1>7 DEF SaveFault, Conflict

\* Time, locks and crashes.
LEMMA EnvironmentLease ==
  ASSUME SagaInv, TypeOK', LeaseInv,
         \/ Clock
         \/ \E k \in Keys : LoseLock(k)
         \/ \E i \in Instance, k \in Keys : RenewFails(i, k)
         \/ \E i \in Instance : Crash(i) \/ ReleaseAll(i)
         \/ UNCHANGED vars
  PROVE  LeaseInv'
<1>1. TypeOK /\ saga' = saga
  BY DEF SagaInv, Clock, Lapse, PassDeadline, ExpireLock, LoseLock, RenewFails, Crash, ReleaseAll,
         vars
<1>2. lapsedTo' >= lapsedTo
  <2>1. lapsedTo' = lapsedTo \/ Lapse
    BY DEF Clock, PassDeadline, ExpireLock, LoseLock, RenewFails, Crash, ReleaseAll, vars
  <2> QED BY <1>1, <2>1 DEF Lapse, TypeOK, Record
<1>3. \A u \in Task : task'[u] = task[u] \/ task'[u] = IdleTask
  BY DEF Clock, Lapse, PassDeadline, ExpireLock, LoseLock, RenewFails, Crash, ReleaseAll, vars
<1>4. ASSUME NEW u \in Task PROVE Admitted(u)
  BY <1>3 DEF Admitted, Stays, Driver, IdleTask, Acting
<1> QED BY <1>1, <1>2, <1>4, LeaseStep

\* Every step of the specification keeps the leases exclusive.
LEMMA NextLease ==
  ASSUME SagaInv, SagaInv', LeaseInv, [Next]_vars PROVE LeaseInv'
<1>1. TypeOK'
  BY DEF SagaInv
<1>2. ASSUME NEW t \in Task, Run(t) \/ CallResume(t) \/ Wake(t) \/ Continue(t) \/ Rejected(t)
      PROVE  LeaseInv'
  BY <1>1, <1>2, RunLease, WakeLease, EdgeLease, ClaimStepLease, ActLease, TurnLease,
     PersistLease, SaveClaimLease DEF Continue
<1> QED BY <1>1, <1>2, EnvironmentLease DEF Next, Faults

\* While the claim of a task that runs a step lasts, no other task runs that step,
\* whatever happens to locks and processes.
THEOREM LeasesExclude == Spec => []LeaseExcludes
<1>1. Init => LeaseInv
  BY DEF Init, LeaseInv, LeaseExcludes, IdleTask, Driver, Acting
<1>2. SagaInv /\ SagaInv' /\ LeaseInv /\ [Next]_vars => LeaseInv'
  BY NextLease
<1>3. LeaseInv => LeaseExcludes
  BY DEF LeaseInv
<1> QED BY <1>1, <1>2, <1>3, SagaInvariant, PTL DEF Spec
=============================================================================
