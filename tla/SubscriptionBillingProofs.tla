---------------------- MODULE SubscriptionBillingProofs ----------------------
(***************************************************************************)
(* Proofs about SubscriptionBilling for any number of overlapping call     *)
(* chains, requests, faults and periods.                                   *)
(***************************************************************************)
EXTENDS SubscriptionBilling, FiniteSetTheorems, TLAPS

Requests == {"pause", "resume", "cancel", "cancelLater"}

\* Periods before p, apart from the first, have been paid.
PaidUpTo(p, paid) == \A q \in Periods : 0 < q /\ q < p => paid[q] > 0

\* What a chain knows: the charge it is about to report went through, and it
\* charges a period only when the ones before are paid.
CallOK(w, paid) ==
  /\ w.pc \in {"succeed", "advance"} => paid[w.start] > 0
  /\ w.pc \in Charging \cup {"advance"} => PaidUpTo(w.start, paid)
  /\ w.pc = "write" => w.op \in Requests

\* The inductive invariant behind ServedIsPaid.
PaidInv ==
  /\ SubscriptionTypeOK
  /\ \A p \in Periods : charge[p].status = "succeeded" => settled[p] > 0
  /\ PaidUpTo(sub.end, settled)
  /\ \A c \in Call : CallOK(call[c], settled)

LEMMA PeriodTypes ==
  /\ \A p \in Periods : p \in Nat /\ p + 1 \in 0..MaxPeriod + 1
  /\ 0 \in Periods /\ 1 \in 0..MaxPeriod + 1
BY SubscriptionAssumption DEF Periods

LEMMA SpendType ==
  ASSUME SubscriptionTypeOK, NEW kind \in Kinds, Spend(kind) PROVE budget' \in [Kinds -> Nat]
BY DEF SubscriptionTypeOK, Spend

\* A step of one chain.
LEMMA ChainStep ==
  ASSUME PaidInv, NEW c \in Call, NEW w \in CallState, call' = [call EXCEPT ![c] = w],
         sub' \in Subscription, PaidUpTo(sub'.end, settled'),
         charge' \in [Periods -> Charge],
         \A p \in Periods : charge'[p].status = "succeeded" => settled'[p] > 0,
         billed' \in [Periods -> Nat], settled' \in [Periods -> Nat],
         \A p \in Periods : settled[p] <= settled'[p],
         now' = now, budget' \in [Kinds -> Nat], spoiled' \subseteq Periods,
         CallOK(w, settled')
  PROVE  PaidInv'
<1>1. SubscriptionTypeOK'
  BY DEF PaidInv, SubscriptionTypeOK
<1>2. ASSUME NEW d \in Call PROVE CallOK(call'[d], settled')
  <2>1. CASE d = c
    BY <2>1 DEF PaidInv, SubscriptionTypeOK
  <2>2. CASE d # c
    <3>1. call'[d] = call[d] /\ CallOK(call[d], settled) /\ call[d].start \in Periods
      BY <2>2 DEF PaidInv, SubscriptionTypeOK, CallState
    <3>2. \A p \in Periods : settled[p] > 0 => settled'[p] > 0
      BY DEF PaidInv, SubscriptionTypeOK
    <3> QED BY <3>1, <3>2 DEF CallOK, PaidUpTo
  <2> QED BY <2>1, <2>2
<1> QED BY <1>1, <1>2 DEF PaidInv

\* A step of one chain that leaves money, row and ledger alone.
LEMMA QuietStep ==
  ASSUME PaidInv, NEW c \in Call, NEW w \in CallState, call' = [call EXCEPT ![c] = w],
         UNCHANGED <<sub, charge, billed, settled, now>>,
         budget' \in [Kinds -> Nat], spoiled' \subseteq Periods, CallOK(w, settled)
  PROVE  PaidInv'
<1>1. \A p \in Periods : settled[p] <= settled'[p]
  BY DEF PaidInv, SubscriptionTypeOK
<1> QED BY <1>1, ChainStep DEF PaidInv, SubscriptionTypeOK

\* A step of one chain that writes the row and returns.
LEMMA RowStep ==
  ASSUME PaidInv, NEW c \in Call, Return(c), sub' \in Subscription,
         PaidUpTo(sub'.end, settled),
         UNCHANGED <<charge, billed, settled, now, budget, spoiled>>
  PROVE  PaidInv'
<1>1. IdleCall \in CallState /\ CallOK(IdleCall, settled)
  BY PeriodTypes DEF IdleCall, CallState, CallOK, Label, Op, Charging
<1>2. \A p \in Periods : settled[p] <= settled'[p]
  BY DEF PaidInv, SubscriptionTypeOK
<1> QED BY <1>1, <1>2, ChainStep DEF PaidInv, SubscriptionTypeOK, Return

\* A chain that returns without writing.
LEMMA ReturnStep ==
  ASSUME PaidInv, NEW c \in Call, Return(c), UNCHANGED <<sub, charge, billed, settled, now>>,
         budget' \in [Kinds -> Nat], spoiled' \subseteq Periods
  PROVE  PaidInv'
<1>1. IdleCall \in CallState /\ CallOK(IdleCall, settled)
  BY PeriodTypes DEF IdleCall, CallState, CallOK, Label, Op, Charging
<1> QED BY <1>1, QuietStep DEF Return

\* A step of one chain within chargeSubscriptionPeriod() that changes the ledger.
LEMMA LedgerStep ==
  ASSUME PaidInv, NEW c \in Call, NEW w \in CallState, call' = [call EXCEPT ![c] = w],
         NEW row \in Charge, charge' = [charge EXCEPT ![call[c].start] = row],
         row.status = "succeeded" => settled[call[c].start] > 0,
         UNCHANGED <<sub, billed, settled, now, budget>>, spoiled' \subseteq Periods,
         CallOK(w, settled)
  PROVE  PaidInv'
<1>1. \A p \in Periods : settled[p] <= settled'[p]
  BY DEF PaidInv, SubscriptionTypeOK
<1>2. /\ charge' \in [Periods -> Charge]
      /\ \A p \in Periods : charge'[p].status = "succeeded" => settled'[p] > 0
  BY DEF PaidInv, SubscriptionTypeOK
<1> QED BY <1>1, <1>2, ChainStep DEF PaidInv, SubscriptionTypeOK

\* What Goto and Start do to the chain.
LEMMA GotoForm ==
  ASSUME SubscriptionTypeOK, NEW c \in Call, NEW l \in Label, Goto(c, l)
  PROVE  \E w \in CallState : /\ call' = [call EXCEPT ![c] = w]
                              /\ w.pc = l /\ w.op = call[c].op /\ w.start = call[c].start
<1> DEFINE w == [call[c] EXCEPT !.pc = l]
<1>1. call[c] \in CallState
  BY DEF SubscriptionTypeOK
<1>2. w \in CallState /\ w.pc = l /\ w.op = call[c].op /\ w.start = call[c].start
  BY <1>1 DEF CallState
<1>3. call' = [call EXCEPT ![c] = w]
  BY DEF Goto
<1> QED BY <1>2, <1>3

LEMMA StartForm ==
  ASSUME SubscriptionTypeOK, NEW c \in Call, NEW op \in Op, NEW l \in Label, Start(c, op, l),
         op = "renew" => sub.end \in Periods
  PROVE  \E w \in CallState : /\ call' = [call EXCEPT ![c] = w]
                              /\ w.pc = l /\ w.op = op
                              /\ w.start = IF op = "renew" THEN sub.end ELSE 0
<1> DEFINE w == [pc |-> l, op |-> op, start |-> IF op = "renew" THEN sub.end ELSE 0]
<1>1. w \in CallState
  BY PeriodTypes DEF CallState
<1>2. w.pc = l /\ w.op = op /\ w.start = IF op = "renew" THEN sub.end ELSE 0
  OBVIOUS
<1>3. call' = [call EXCEPT ![c] = w]
  BY DEF Start
<1> QED BY <1>1, <1>2, <1>3

\* The first period is charged before anything else.
LEMMA PaidUpToZero == \A paid : PaidUpTo(0, paid) /\ PaidUpTo(1, paid)
BY PeriodTypes DEF PaidUpTo

LEMMA Labels == Charging \subseteq Label /\ "write" \notin Charging /\ "advance" \notin Charging
BY DEF Charging, Label

LEMMA CreateKeeps == ASSUME PaidInv, NEW c \in Call, Create(c) PROVE PaidInv'
<1>0. SubscriptionTypeOK /\ call \in [Call -> CallState] /\ CallOK(call[c], settled)
  BY DEF PaidInv, SubscriptionTypeOK
<1>1. /\ sub' \in Subscription /\ sub'.end = 1
      /\ UNCHANGED <<charge, billed, settled, now, budget, spoiled>>
      /\ call' = call \/ Start(c, "create", "charge")
  BY PeriodTypes, <1>0 DEF Create, SubscriptionTypeOK, Subscription
<1>2. PICK w \in CallState : call' = [call EXCEPT ![c] = w] /\ CallOK(w, settled)
  <2>1. CASE call' = call
    BY <1>0, <2>1
  <2>2. CASE Start(c, "create", "charge")
    <3>1. PICK w \in CallState : call' = [call EXCEPT ![c] = w] /\ w.pc = "charge" /\ w.start = 0
      BY <1>0, <2>2, StartForm DEF Op, Label, Charging
    <3> QED BY <3>1, PaidUpToZero, Labels DEF CallOK
  <2> QED BY <1>1, <2>1, <2>2
<1>3. \A p \in Periods : settled[p] <= settled'[p]
  BY <1>1 DEF PaidInv, SubscriptionTypeOK
<1> QED BY <1>1, <1>2, <1>3, PaidUpToZero, ChainStep DEF PaidInv, SubscriptionTypeOK

\* The other ways in which a chain begins.
LEMMA BeginKeeps ==
  ASSUME PaidInv, NEW c \in Call, Renew(c) \/ Request(c) \/ Cycle(c) \/ Scan(c) PROVE PaidInv'
<1>0. SubscriptionTypeOK /\ PaidUpTo(sub.end, settled)
  BY DEF PaidInv
<1>1. UNCHANGED <<sub, charge, billed, settled, now>> /\ spoiled' = spoiled
  BY DEF Renew, Request, Cycle, Scan
<1>2. budget' \in [Kinds -> Nat] /\ spoiled' \subseteq Periods
  BY <1>0, <1>1, SpendType DEF Renew, Request, Cycle, Scan, Kinds, SubscriptionTypeOK
<1>3. \E w \in CallState : call' = [call EXCEPT ![c] = w] /\ CallOK(w, settled)
  <2>1. CASE Renew(c)
    <3>1. PICK w \in CallState : call' = [call EXCEPT ![c] = w] /\ w.pc = "charge" /\ w.start = sub.end
      BY <1>0, <2>1, StartForm DEF Renew, Op, Label, Charging
    <3> QED BY <1>0, <3>1, Labels DEF CallOK
  <2>2. CASE Request(c)
    <3>1. PICK op \in Requests : Start(c, op, "write")
      BY <2>2 DEF Request, Requests
    <3>2. PICK w \in CallState : call' = [call EXCEPT ![c] = w] /\ w.pc = "write" /\ w.op = op
      BY <1>0, <3>1, StartForm DEF Op, Label, Requests
    <3> QED BY <3>1, <3>2, Labels DEF CallOK
  <2>3. CASE Cycle(c) \/ Scan(c)
    <3>1. PICK l \in {"read", "cancelling"} : Start(c, "cycle", l)
      BY <2>3 DEF Cycle, Scan
    <3>2. PICK w \in CallState : call' = [call EXCEPT ![c] = w] /\ w.pc = l
      BY <1>0, <3>1, StartForm DEF Op, Label
    <3> QED BY <3>1, <3>2 DEF CallOK, Charging
  <2> QED BY <2>1, <2>2, <2>3
<1> QED BY <1>1, <1>2, <1>3, QuietStep

\* What a request writes.
LEMMA UpdatedType ==
  ASSUME sub \in Subscription, NEW op \in Requests
  PROVE  Updated(op) \in Subscription /\ Updated(op).end = sub.end
<1>1. CASE op = "pause"
  <2>1. Updated(op) = [sub EXCEPT !.status = "paused"]
    BY <1>1, Zenon DEF Updated
  <2> QED BY <2>1 DEF Subscription
<1>2. CASE op = "resume"
  <2>1. Updated(op) = [sub EXCEPT !.status = "active"]
    BY <1>2, Zenon DEF Updated
  <2> QED BY <2>1 DEF Subscription
<1>3. CASE op = "cancel"
  <2>1. Updated(op) = [sub EXCEPT !.status = "cancelled", !.flagged = FALSE]
    BY <1>3, Zenon DEF Updated
  <2> QED BY <2>1 DEF Subscription
<1>4. CASE op = "cancelLater"
  <2>1. Updated(op) = [sub EXCEPT !.flagged = TRUE]
    BY <1>4, Zenon DEF Updated
  <2> QED BY <2>1 DEF Subscription
<1> QED BY <1>1, <1>2, <1>3, <1>4 DEF Requests

\* Everything that writes the row.
LEMMA WriteKeeps ==
  ASSUME PaidInv, NEW c \in Call,
         Write(c) \/ FinishCancellation(c) \/ Advance(c) \/ PastDue(c)
  PROVE  PaidInv'
<1>0. /\ SubscriptionTypeOK /\ sub \in Subscription /\ PaidUpTo(sub.end, settled)
      /\ call[c] \in CallState /\ CallOK(call[c], settled)
  BY DEF PaidInv, SubscriptionTypeOK
<1>1. Return(c) /\ UNCHANGED <<charge, billed, settled, now, budget, spoiled>>
  BY DEF Write, FinishCancellation, Advance, PastDue
<1>2. sub' \in Subscription /\ PaidUpTo(sub'.end, settled)
  <2>1. CASE Write(c)
    <3>1. call[c].op \in Requests /\ sub' = Updated(call[c].op)
      BY <1>0, <2>1 DEF Write, At, CallOK
    <3>2. Updated(call[c].op) \in Subscription /\ Updated(call[c].op).end = sub.end
      BY <1>0, <3>1, UpdatedType
    <3> QED BY <1>0, <3>1, <3>2
  <2>2. CASE FinishCancellation(c) \/ PastDue(c)
    <3>1. sub' \in Subscription /\ sub'.end = sub.end
      BY <1>0, <2>2 DEF FinishCancellation, PastDue, Subscription
    <3> QED BY <1>0, <3>1
  <2>3. CASE Advance(c)
    <3>1. /\ PaidUpTo(call[c].start, settled) /\ settled[call[c].start] > 0
          /\ call[c].start \in Periods
      BY <1>0, <2>3 DEF Advance, At, CallOK, CallState
    <3>2. sub' \in Subscription /\ sub'.end = call[c].start + 1
      BY <1>0, <2>3, <3>1, PeriodTypes DEF Advance, Subscription
    <3>3. PaidUpTo(call[c].start + 1, settled)
      BY <3>1, PeriodTypes DEF PaidUpTo
    <3> QED BY <3>2, <3>3
  <2> QED BY <2>1, <2>2, <2>3
<1> QED BY <1>1, <1>2, RowStep

\* The steps of chargeSubscriptionPeriod() that change the ledger.
LEMMA ChargeKeeps ==
  ASSUME PaidInv, NEW c \in Call,
         OpenCharge(c) \/ CountAttempt(c) \/ RecordSuccess(c) \/ RecordFailure(c)
  PROVE  PaidInv'
<1> DEFINE p == call[c].start
<1>0. /\ SubscriptionTypeOK /\ call[c] \in CallState /\ CallOK(call[c], settled)
      /\ p \in Periods /\ charge[p] \in Charge
      /\ charge[p].status = "succeeded" => settled[p] > 0
  BY DEF PaidInv, SubscriptionTypeOK, CallState
<1>1. /\ UNCHANGED <<sub, billed, settled, now, budget>> /\ spoiled' \subseteq Periods
      /\ call[c].pc \in Charging /\ PaidUpTo(p, settled)
  BY <1>0 DEF OpenCharge, CountAttempt, RecordSuccess, RecordFailure, SubscriptionTypeOK, At,
              Charging, CallOK
<1>2. \E row \in Charge : /\ charge' = [charge EXCEPT ![p] = row]
                          /\ row.status = "succeeded" => settled[p] > 0
  <2>1. CASE OpenCharge(c)
    <3> DEFINE row == [charge[p] EXCEPT !.status = IF @ = "none" THEN "pending" ELSE @]
    <3>1. row \in Charge /\ (row.status = "succeeded" => charge[p].status = "succeeded")
      BY <1>0 DEF Charge
    <3>2. charge' = [charge EXCEPT ![p] = row]
      BY <2>1 DEF OpenCharge
    <3> HIDE DEF row
    <3> QED BY <1>0, <3>1, <3>2
  <2>2. CASE CountAttempt(c)
    <3> DEFINE row == [charge[p] EXCEPT !.attempts = @ + 1]
    <3>1. row \in Charge /\ row.status = charge[p].status
      BY <1>0 DEF Charge
    <3>2. charge' = [charge EXCEPT ![p] = row]
      BY <2>2 DEF CountAttempt
    <3> QED BY <1>0, <3>1, <3>2
  <2>3. CASE RecordSuccess(c)
    <3> DEFINE row == [charge[p] EXCEPT !.status = "succeeded"]
    <3>1. row \in Charge
      BY <1>0 DEF Charge
    <3>2. charge' = [charge EXCEPT ![p] = row] /\ settled[p] > 0
      BY <1>0, <2>3 DEF RecordSuccess, At, CallOK
    <3> QED BY <3>1, <3>2
  <2>4. CASE RecordFailure(c)
    <3> DEFINE row == [charge[p] EXCEPT !.status = "failed"]
    <3>1. row \in Charge /\ row.status # "succeeded"
      BY <1>0 DEF Charge
    <3>2. charge' = [charge EXCEPT ![p] = row]
      BY <2>4 DEF RecordFailure
    <3> QED BY <3>1, <3>2
  <2> QED BY <2>1, <2>2, <2>3, <2>4
<1>3. \E w \in CallState : call' = [call EXCEPT ![c] = w] /\ CallOK(w, settled)
  <2>1. ASSUME NEW l \in Label \ {"write"}, Goto(c, l),
               l \in {"succeed", "advance"} => settled[p] > 0
        PROVE  \E w \in CallState : call' = [call EXCEPT ![c] = w] /\ CallOK(w, settled)
    <3>1. PICK w \in CallState : call' = [call EXCEPT ![c] = w] /\ w.pc = l /\ w.start = p
      BY <1>0, <2>1, GotoForm
    <3> QED BY <1>1, <2>1, <3>1 DEF CallOK
  <2>2. CASE Return(c)
    <3>1. IdleCall \in CallState /\ CallOK(IdleCall, settled)
      BY PeriodTypes DEF IdleCall, CallState, CallOK, Label, Op, Charging
    <3> QED BY <2>2, <3>1 DEF Return
  <2>3. CASE Goto(c, "advance") /\ settled[p] > 0
    BY <2>1, <2>3 DEF Label
  <2>4. CASE Goto(c, "attempt") \/ Goto(c, "deposit") \/ Goto(c, "pastDue")
    BY <2>1, <2>4 DEF Label, Charging
  <2>5. CASE RecordSuccess(c)
    BY <1>0, <2>2, <2>3, <2>5 DEF RecordSuccess, Succeed, At, CallOK
  <2>6. CASE OpenCharge(c)
    BY <1>0, <2>2, <2>3, <2>4, <2>6 DEF OpenCharge, Succeed, IsCharged
  <2>7. CASE CountAttempt(c) \/ RecordFailure(c)
    BY <2>4, <2>7 DEF CountAttempt, RecordFailure
  <2> QED BY <2>5, <2>6, <2>7
<1> QED BY <1>1, <1>2, <1>3, LedgerStep

\* The steps of chargeSubscriptionPeriod() that move money.
LEMMA MoneyKeeps ==
  ASSUME PaidInv, NEW c \in Call, Deposit(c) \/ Release(c) PROVE PaidInv'
<1> DEFINE p == call[c].start
<1>0. /\ SubscriptionTypeOK /\ call[c] \in CallState /\ CallOK(call[c], settled)
      /\ p \in Periods /\ billed \in [Periods -> Nat] /\ settled \in [Periods -> Nat]
  BY DEF PaidInv, SubscriptionTypeOK, CallState
<1>1. UNCHANGED <<sub, charge, now>> /\ call[c].pc \in Charging /\ PaidUpTo(p, settled)
  BY <1>0 DEF Deposit, Release, At, Charging, CallOK
<1>2. budget' \in [Kinds -> Nat] /\ spoiled' \subseteq Periods
  <2>1. CASE UNCHANGED budget
    BY <1>0, <2>1 DEF Deposit, Release, Spoil, SubscriptionTypeOK
  <2>2. CASE Spend("faults")
    BY <1>0, <2>2, SpendType DEF Deposit, Release, Spoil, SubscriptionTypeOK, Kinds
  <2> QED BY <2>1, <2>2 DEF Deposit, Release, NoFault
<1>3. billed' \in [Periods -> Nat] /\ settled' \in [Periods -> Nat]
  BY <1>0 DEF Deposit, Release
<1>4. \A q \in Periods : settled[q] <= settled'[q]
  BY <1>0 DEF Deposit, Release
<1>5. \E l \in {"release", "succeed", "fail"} :
        Goto(c, l) /\ (l = "succeed" => settled'[p] > 0)
  BY <1>0 DEF Deposit, Release
<1>6. \E w \in CallState : call' = [call EXCEPT ![c] = w] /\ CallOK(w, settled')
  <2>1. PICK l \in {"release", "succeed", "fail"} :
          Goto(c, l) /\ (l = "succeed" => settled'[p] > 0)
    BY <1>5
  <2>2. PICK w \in CallState : call' = [call EXCEPT ![c] = w] /\ w.pc = l /\ w.start = p
    BY <1>0, <2>1, GotoForm DEF Label, Charging
  <2>3. PaidUpTo(p, settled')
    BY <1>0, <1>1, <1>3, <1>4 DEF PaidUpTo
  <2> QED BY <2>1, <2>2, <2>3 DEF CallOK
<1>7. PaidUpTo(sub.end, settled') /\ \A q \in Periods : charge[q].status = "succeeded" => settled'[q] > 0
  BY <1>0, <1>3, <1>4 DEF PaidInv, PaidUpTo
<1> QED BY <1>1, <1>2, <1>3, <1>4, <1>6, <1>7, ChainStep DEF PaidInv, SubscriptionTypeOK

\* Faults, and the second reading of a billing cycle.
LEMMA FaultKeeps ==
  ASSUME PaidInv, NEW c \in Call, Rejected(c) \/ Crash(c) \/ CycleRenews(c) PROVE PaidInv'
<1>0. /\ SubscriptionTypeOK /\ call[c] \in CallState /\ call[c].start \in Periods
      /\ PaidUpTo(sub.end, settled)
  BY DEF PaidInv, SubscriptionTypeOK, CallState
<1>1. CASE Rejected(c) \/ Crash(c)
  <2>1. /\ Return(c) /\ UNCHANGED <<sub, charge, billed, settled, now>>
        /\ budget' \in [Kinds -> Nat] /\ spoiled' \subseteq Periods
    BY <1>0, <1>1, SpendType DEF Rejected, Crash, Kinds, SubscriptionTypeOK
  <2> QED BY <2>1, ReturnStep
<1>2. CASE CycleRenews(c)
  <2>1. UNCHANGED <<sub, charge, billed, settled, now, budget, spoiled>>
    BY <1>2 DEF CycleRenews
  <2>2. CASE Return(c)
    BY <2>1, <2>2, ReturnStep, <1>0 DEF SubscriptionTypeOK
  <2>3. CASE sub.end \in Periods
             /\ call' = [call EXCEPT ![c].pc = "charge", ![c].start = sub.end]
    <3> DEFINE w == [call[c] EXCEPT !.pc = "charge", !.start = sub.end]
    <3>1. w \in CallState /\ w.pc = "charge" /\ w.start = sub.end
      BY <1>0, <2>3 DEF CallState, Label, Charging
    <3>2. call' = [call EXCEPT ![c] = w]
      BY <2>3
    <3> HIDE DEF w
    <3>3. CallOK(w, settled)
      BY <1>0, <3>1 DEF CallOK
    <3> QED BY <1>0, <2>1, <3>1, <3>2, <3>3, QuietStep DEF SubscriptionTypeOK
  <2> QED BY <1>2, <2>2, <2>3 DEF CycleRenews
<1> QED BY <1>1, <1>2

\* Every step keeps the invariant.
LEMMA PaidNext == ASSUME PaidInv, [Next]_vars PROVE PaidInv'
<1>1. CASE Tick
  BY <1>1, SubscriptionAssumption
     DEF Tick, PaidInv, SubscriptionTypeOK, CallOK, PaidUpTo
<1>2. CASE UNCHANGED vars
  BY <1>2 DEF vars, PaidInv, SubscriptionTypeOK, CallOK, PaidUpTo
<1> QED
  BY <1>1, <1>2, CreateKeeps, BeginKeeps, WriteKeeps, ChargeKeeps, MoneyKeeps, FaultKeeps
     DEF Next, Continue, Bill

LEMMA PaidInit == Init => PaidInv
<1> SUFFICES ASSUME Init PROVE PaidInv
  OBVIOUS
<1>1. IdleCall \in CallState /\ CallOK(IdleCall, settled)
  BY PeriodTypes DEF IdleCall, CallState, CallOK, Label, Op, Charging
<1>2. sub \in Subscription /\ sub.end = 0
  BY SubscriptionAssumption DEF Init, Subscription
<1>3. [status |-> "none", attempts |-> 0] \in Charge
  BY DEF Charge
<1>4. SubscriptionTypeOK
  BY <1>1, <1>2, <1>3, SubscriptionAssumption DEF Init, SubscriptionTypeOK
<1>5. \A q \in Periods : charge[q].status # "succeeded"
  BY DEF Init
<1> QED BY <1>1, <1>2, <1>4, <1>5, PaidUpToZero DEF Init, PaidInv

\* The invariant holds throughout.
THEOREM PaidInvariant == Spec => []PaidInv
BY PaidInit, PaidNext, PTL DEF Spec

\* Every variable keeps its type.
THEOREM SubscriptionTypesKept == Spec => []SubscriptionTypeOK
<1>1. PaidInv => SubscriptionTypeOK
  BY DEF PaidInv
<1> QED BY <1>1, PaidInvariant, PTL

\* Whatever overlaps or fails, a charge recorded as succeeded, and every period
\* that the subscription has moved past, was paid to the seller.
THEOREM ServedPeriodsArePaid == Spec => []ServedIsPaid
<1>1. PaidInv => ServedIsPaid
  BY DEF PaidInv, ServedIsPaid, PaidUpTo
<1> QED BY <1>1, PaidInvariant, PTL
-----------------------------------------------------------------------------
(* One deposit per period.                                                 *)

\* Past the test of the ledger, and with money of the buyer in hand.
Inside == {"attempt", "deposit", "release", "succeed", "fail"}
Holding == {"release", "succeed"}

Charges(c, p, labels) == call[c].pc \in labels /\ call[c].start = p

\* At most one chain is past the test; while it has not deposited nothing is
\* billed, and a deposit is either in its hands or in the ledger.
OnceAt(p) ==
  /\ \A c, d \in Call : Charges(c, p, Inside) /\ Charges(d, p, Inside) => c = d
  /\ billed[p] <= 1
  /\ \A c \in Call : Charges(c, p, Inside \ Holding) => billed[p] = 0
  /\ charge[p].status # "succeeded" /\ (\A c \in Call : ~Charges(c, p, Holding))
       => billed[p] = 0

OnceInv == \A p \in Periods \ spoiled : OnceAt(p)

\* A step of a chain that neither enters nor leaves with money in hand.
LEMMA OnceOther ==
  ASSUME PaidInv, NEW q \in Periods, OnceAt(q), NEW c \in Call, NEW w \in CallState,
         call' = [call EXCEPT ![c] = w], ~Charges(c, q, Holding),
         w.start # q \/ w.pc \notin Inside, billed'[q] = billed[q],
         charge'[q].status = "succeeded" <=> charge[q].status = "succeeded"
  PROVE  OnceAt(q)'
<1>1. \A d \in Call : call'[d] = IF d = c THEN w ELSE call[d]
  BY DEF PaidInv, SubscriptionTypeOK
<1>2. \A d \in Call, labels \in {Inside, Holding, Inside \ Holding} :
        Charges(d, q, labels)' => d # c /\ Charges(d, q, labels)
  BY <1>1 DEF Charges, Inside, Holding
<1>3. (\A d \in Call : ~Charges(d, q, Holding)') => \A d \in Call : ~Charges(d, q, Holding)
  BY <1>1 DEF Charges
<1>4. (\A b, d \in Call : Charges(b, q, Inside) /\ Charges(d, q, Inside) => b = d)'
  BY <1>2 DEF OnceAt
<1>5. (\A d \in Call : Charges(d, q, Inside \ Holding) => billed[q] = 0)'
  BY <1>2 DEF OnceAt
<1>6. billed'[q] <= 1
  BY DEF OnceAt
<1>7. charge'[q].status # "succeeded" /\ (\A d \in Call : ~Charges(d, q, Holding)')
        => billed'[q] = 0
  BY <1>3 DEF OnceAt
<1> QED BY <1>4, <1>5, <1>6, <1>7 DEF OnceAt

\* A step of the only chain that is, or gets, past the test.
LEMMA OnceOwn ==
  ASSUME PaidInv, NEW p \in Periods, NEW c \in Call, NEW w \in CallState,
         call' = [call EXCEPT ![c] = w],
         \A d \in Call \ {c} : ~Charges(d, p, Inside),
         billed'[p] <= 1,
         w.pc \in Inside \ Holding => billed'[p] = 0,
         charge'[p].status # "succeeded" /\ w.pc \notin Holding => billed'[p] = 0,
         w.start = p \/ w.pc \notin Inside
  PROVE  OnceAt(p)'
<1>1. \A d \in Call : call'[d] = IF d = c THEN w ELSE call[d]
  BY DEF PaidInv, SubscriptionTypeOK
<1>2. \A d \in Call, labels \in {Inside, Holding, Inside \ Holding} :
        Charges(d, p, labels)' => d = c /\ w.pc \in labels
  BY <1>1 DEF Charges, Inside, Holding
<1>3. (\A d \in Call : ~Charges(d, p, Holding)') => w.pc \notin Holding
  BY <1>1 DEF Charges, Inside, Holding
<1>4. (\A b, d \in Call : Charges(b, p, Inside) /\ Charges(d, p, Inside) => b = d)'
  BY <1>2
<1>5. (\A d \in Call : Charges(d, p, Inside \ Holding) => billed[p] = 0)'
  BY <1>2
<1>6. charge'[p].status # "succeeded" /\ (\A d \in Call : ~Charges(d, p, Holding)')
        => billed'[p] = 0
  BY <1>3
<1> QED BY <1>4, <1>5, <1>6 DEF OnceAt

\* Everything outside chargeSubscriptionPeriod(), and faults that do not strike
\* a deposit.
LEMMA OnceOutside ==
  ASSUME PaidInv, OnceInv, NEW c \in Call, NEW w \in CallState,
         call' = [call EXCEPT ![c] = w], w.pc \notin Inside,
         UNCHANGED <<charge, billed>>, spoiled \subseteq spoiled',
         call[c].pc \in Holding => call[c].start \in spoiled'
  PROVE  OnceInv'
<1> SUFFICES ASSUME NEW q \in Periods, q \notin spoiled' PROVE OnceAt(q)'
  BY DEF OnceInv
<1>1. OnceAt(q) /\ ~Charges(c, q, Holding)
  BY DEF OnceInv, Charges
<1> QED BY <1>1, OnceOther

LEMMA OnceReturn ==
  ASSUME PaidInv, OnceInv, NEW c \in Call, Return(c),
         UNCHANGED <<charge, billed>>, spoiled \subseteq spoiled',
         call[c].pc \in Holding => call[c].start \in spoiled'
  PROVE  OnceInv'
<1>1. IdleCall \in CallState /\ IdleCall.pc \notin Inside
  BY PeriodTypes DEF IdleCall, CallState, Label, Op, Inside
<1> QED BY <1>1, OnceOutside DEF Return

\* Steps that stay away from the charge.
LEMMA OnceAway ==
  ASSUME PaidInv, OnceInv, NEW c \in Call,
         \/ Create(c) \/ Renew(c) \/ Request(c) \/ Cycle(c) \/ Scan(c) \/ CycleRenews(c)
         \/ FinishCancellation(c) \/ Write(c) \/ Advance(c) \/ PastDue(c)
         \/ Rejected(c) \/ Crash(c)
  PROVE  OnceInv'
<1>0. SubscriptionTypeOK /\ call \in [Call -> CallState] /\ call[c] \in CallState
  BY DEF PaidInv, SubscriptionTypeOK
<1>1. ASSUME NEW op \in Op, NEW l \in Label, Start(c, op, l), l \notin Inside,
             op = "renew" => sub.end \in Periods, UNCHANGED <<charge, billed, spoiled>>
      PROVE  OnceInv'
  <2>1. call[c].pc \notin Holding
    BY <1>1 DEF Start, At, Holding
  <2>2. PICK w \in CallState : call' = [call EXCEPT ![c] = w] /\ w.pc = l
    BY <1>0, <1>1, StartForm
  <2> QED BY <1>1, <2>1, <2>2, OnceOutside
<1>2. CASE Create(c)
  <2>1. CASE UNCHANGED call
    <3>1. call' = [call EXCEPT ![c] = call[c]] /\ UNCHANGED <<charge, billed, spoiled>>
          /\ call[c].pc = "idle"
      BY <1>0, <1>2, <2>1 DEF Create, At, Start
    <3> QED BY <1>0, <3>1, OnceOutside DEF Inside, Holding
  <2>2. CASE Start(c, "create", "charge")
    BY <1>1, <1>2, <2>2 DEF Create, Op, Label, Charging, Inside
  <2> QED BY <1>2, <2>1, <2>2 DEF Create
<1>3. CASE Renew(c)
  BY <1>1, <1>3 DEF Renew, Op, Label, Charging, Inside
<1>4. CASE Request(c)
  <2>1. PICK op \in Requests : Start(c, op, "write")
    BY <1>4 DEF Request, Requests
  <2> QED BY <1>1, <1>4, <2>1 DEF Request, Requests, Op, Label, Inside
<1>5. CASE Cycle(c) \/ Scan(c)
  BY <1>1, <1>5 DEF Cycle, Scan, Op, Label, Inside
<1>6. CASE CycleRenews(c)
  <2>1. UNCHANGED <<charge, billed, spoiled>> /\ call[c].pc = "read"
    BY <1>6 DEF CycleRenews, At
  <2>2. CASE Return(c)
    BY <2>1, <2>2, OnceReturn DEF Holding
  <2>3. CASE sub.end \in Periods
             /\ call' = [call EXCEPT ![c].pc = "charge", ![c].start = sub.end]
    <3> DEFINE w == [call[c] EXCEPT !.pc = "charge", !.start = sub.end]
    <3>1. w \in CallState /\ w.pc = "charge"
      BY <1>0, <2>3 DEF CallState, Label, Charging
    <3>2. call' = [call EXCEPT ![c] = w]
      BY <2>3
    <3> HIDE DEF w
    <3> QED BY <2>1, <3>1, <3>2, OnceOutside DEF Inside, Holding
  <2> QED BY <1>6, <2>2, <2>3 DEF CycleRenews
<1>7. CASE FinishCancellation(c) \/ Write(c) \/ Advance(c) \/ PastDue(c)
  BY <1>7, OnceReturn DEF FinishCancellation, Write, Advance, PastDue, At, Holding
<1>8. CASE Rejected(c) \/ Crash(c)
  BY <1>8, OnceReturn DEF Rejected, Crash, At, Holding, Charging
<1> QED BY <1>2, <1>3, <1>4, <1>5, <1>6, <1>7, <1>8

\* A chain that stays in, or leaves, the charge of its own period p: what has to
\* be shown is about p only.
LEMMA OnceCharging ==
  ASSUME PaidInv, OnceInv, NEW c \in Call, NEW w \in CallState,
         call' = [call EXCEPT ![c] = w],
         w.start = call[c].start \/ w.pc \notin Inside,
         spoiled \subseteq spoiled',
         \A q \in Periods \ {call[c].start} : billed'[q] = billed[q] /\ charge'[q] = charge[q],
         \A p \in Periods : p = call[c].start /\ p \notin spoiled' => OnceAt(p)'
  PROVE  OnceInv'
<1> SUFFICES ASSUME NEW q \in Periods, q \notin spoiled', q # call[c].start PROVE OnceAt(q)'
  BY DEF OnceInv
<1>1. OnceAt(q) /\ ~Charges(c, q, Holding)
  BY DEF OnceInv, Charges
<1> QED BY <1>1, OnceOther

\* The steps of a chain that is past the test.
LEMMA OnceInside ==
  ASSUME PaidInv, OnceInv, NEW c \in Call,
         CountAttempt(c) \/ Deposit(c) \/ Release(c) \/ RecordSuccess(c) \/ RecordFailure(c)
  PROVE  OnceInv'
<1>p. PICK p \in Periods : p = call[c].start
  BY DEF PaidInv, SubscriptionTypeOK, CallState
<1>0. /\ SubscriptionTypeOK /\ call[c] \in CallState /\ p = call[c].start
      /\ billed \in [Periods -> Nat] /\ charge \in [Periods -> Charge]
      /\ spoiled \subseteq Periods
  BY <1>p DEF PaidInv, SubscriptionTypeOK
<1>1. PICK w \in CallState :
        /\ call' = [call EXCEPT ![c] = w]
        /\ w.start = p \/ w.pc = "idle"
        /\ w.pc = "idle" \/ Goto(c, w.pc)
  <2>1. ASSUME NEW l \in Label, Goto(c, l)
        PROVE  \E w \in CallState : /\ call' = [call EXCEPT ![c] = w]
                                    /\ w.start = p \/ w.pc = "idle"
                                    /\ w.pc = "idle" \/ Goto(c, w.pc)
    BY <1>0, <2>1, GotoForm
  <2>2. IdleCall \in CallState /\ IdleCall.pc = "idle"
    BY PeriodTypes DEF IdleCall, CallState, Label, Op
  <2>3. \/ Return(c)
        \/ \E l \in Label : Goto(c, l)
    BY DEF CountAttempt, Deposit, Release, RecordSuccess, RecordFailure, Succeed, Label, Charging
  <2> QED BY <2>1, <2>2, <2>3 DEF Return
<1>2. call'[c] = w /\ (Goto(c, w.pc) => w = [call[c] EXCEPT !.pc = w.pc])
  BY <1>0, <1>1 DEF SubscriptionTypeOK, Goto
<1>3. \A q \in Periods \ {p} : billed'[q] = billed[q] /\ charge'[q] = charge[q]
  BY <1>0 DEF CountAttempt, Deposit, Release, RecordSuccess, RecordFailure
<1>4. spoiled \subseteq spoiled'
  BY DEF CountAttempt, Deposit, Release, RecordSuccess, RecordFailure, Spoil
<1>5. ASSUME p \notin spoiled' PROVE OnceAt(p)'
  <2>1. OnceAt(p)
    BY <1>0, <1>4, <1>5 DEF OnceInv
  <2>2. call[c].pc \in Inside
    BY DEF CountAttempt, Deposit, Release, RecordSuccess, RecordFailure, At, Inside
  <2>3. Charges(c, p, Inside) /\ \A d \in Call \ {c} : ~Charges(d, p, Inside)
    BY <1>0, <2>1, <2>2 DEF OnceAt, Charges
  <2>4. /\ call[c].pc \in Inside \ Holding => billed[p] = 0
        /\ billed[p] <= 1
    BY <1>0, <2>1 DEF OnceAt, Charges
  <2>5. /\ billed'[p] <= 1
        /\ w.pc \in Inside \ Holding => billed'[p] = 0
        /\ charge'[p].status # "succeeded" /\ w.pc \notin Holding => billed'[p] = 0
    <3>1. CASE CountAttempt(c)
      <4>1. w.pc = "deposit" /\ billed' = billed /\ call[c].pc = "attempt"
        BY <1>0, <1>2, <3>1 DEF CountAttempt, Goto, At, SubscriptionTypeOK, CallState
      <4> QED BY <2>4, <4>1 DEF Inside, Holding
    <3>2. CASE Deposit(c)
      <4>1. call[c].pc = "deposit" /\ billed[p] = 0
        BY <2>4, <3>2 DEF Deposit, At, Inside, Holding
      <4>2. \/ billed'[p] = 1 /\ call' = [call EXCEPT ![c].pc = "release"]
            \/ billed' = billed
        BY <1>0, <1>5, <3>2, <4>1 DEF Deposit, Spoil, Goto
      <4>3. CASE billed' = billed
        BY <4>1, <4>3
      <4>4. CASE billed'[p] = 1 /\ call' = [call EXCEPT ![c].pc = "release"]
        <5>1. w.pc = "release"
          BY <1>0, <1>2, <4>4 DEF SubscriptionTypeOK, CallState
        <5> QED BY <4>4, <5>1 DEF Holding
      <4> QED BY <4>2, <4>3, <4>4
    <3>3. CASE Release(c)
      <4>1. call' = [call EXCEPT ![c].pc = "succeed"] /\ billed' = billed
        BY <1>0, <1>5, <3>3 DEF Release, Spoil, Goto
      <4>2. w.pc = "succeed"
        BY <1>0, <1>2, <4>1 DEF SubscriptionTypeOK, CallState
      <4> QED BY <2>4, <4>1, <4>2 DEF Holding
    <3>4. CASE RecordSuccess(c)
      <4>1. charge'[p].status = "succeeded" /\ billed' = billed
        BY <1>0, <3>4 DEF RecordSuccess, Charge
      <4>2. Return(c) \/ Goto(c, "advance")
        BY <3>4 DEF RecordSuccess, Succeed
      <4>3. w.pc \in {"idle", "advance"}
        BY <1>0, <1>2, <4>2 DEF SubscriptionTypeOK, CallState, Return, Goto, IdleCall
      <4> QED BY <2>4, <4>1, <4>3 DEF Inside
    <3>5. CASE RecordFailure(c)
      <4>1. billed' = billed /\ billed[p] = 0
        BY <2>4, <3>5 DEF RecordFailure, At, Inside, Holding
      <4> QED BY <4>1
    <3> QED BY <3>1, <3>2, <3>3, <3>4, <3>5
  <2> QED BY <1>0, <1>1, <2>3, <2>5, OnceOwn DEF Inside
<1> QED BY <1>0, <1>1, <1>3, <1>4, <1>5, OnceCharging DEF Inside

\* The test of the ledger.
LEMMA OnceOpen == ASSUME PaidInv, OnceInv, NEW c \in Call, OpenCharge(c) PROVE OnceInv'
<1>p. PICK p \in Periods : p = call[c].start
  BY DEF PaidInv, SubscriptionTypeOK, CallState
<1>0. /\ SubscriptionTypeOK /\ call[c] \in CallState /\ p = call[c].start
      /\ charge \in [Periods -> Charge] /\ call[c].pc = "charge"
      /\ UNCHANGED billed /\ spoiled \subseteq spoiled'
  BY <1>p DEF PaidInv, SubscriptionTypeOK, OpenCharge, At
<1>1. /\ \A q \in Periods \ {p} : charge'[q] = charge[q]
      /\ charge'[p].status = "succeeded" <=> charge[p].status = "succeeded"
  BY <1>0 DEF OpenCharge, Charge
<1>2. ASSUME NEW w \in CallState, call' = [call EXCEPT ![c] = w], w.pc \notin Inside
      PROVE  OnceInv'
  <2>1. p \notin spoiled' => OnceAt(p)'
    <3> SUFFICES ASSUME p \notin spoiled' PROVE OnceAt(p)'
      OBVIOUS
    <3>1. OnceAt(p) /\ ~Charges(c, p, Holding)
      BY <1>0 DEF OnceInv, Charges, Holding
    <3> QED BY <1>0, <1>1, <1>2, <3>1, OnceOther
  <2> QED BY <1>0, <1>1, <1>2, <2>1, OnceCharging
<1>3. CASE Return(c)
  <2>1. IdleCall \in CallState /\ IdleCall.pc \notin Inside
    BY PeriodTypes DEF IdleCall, CallState, Label, Op, Inside
  <2> QED BY <1>2, <1>3, <2>1 DEF Return
<1>4. CASE Goto(c, "advance")
  <2>1. PICK w \in CallState : call' = [call EXCEPT ![c] = w] /\ w.pc = "advance"
    BY <1>0, <1>4, GotoForm DEF Label
  <2> QED BY <1>2, <2>1 DEF Inside
<1>5. CASE Goto(c, "attempt") /\ ~IsCharged(p)
  <2>1. PICK w \in CallState : call' = [call EXCEPT ![c] = w] /\ w.pc = "attempt" /\ w.start = p
    BY <1>0, <1>5, GotoForm DEF Label, Charging
  <2>2. ASSUME p \notin spoiled' PROVE OnceAt(p)'
    <3>1. OnceAt(p) /\ ~Shared(c)
      BY <1>0, <2>2 DEF OnceInv, OpenCharge
    <3>2. \A d \in Call \ {c} : ~Charges(d, p, Inside) /\ ~Charges(d, p, Holding)
      BY <1>0, <3>1 DEF Shared, Charges, Charging, Inside, Holding
    <3>3. \A d \in Call : ~Charges(d, p, Holding)
      BY <1>0, <3>2 DEF Charges, Holding
    <3>4. billed[p] = 0
      BY <1>5, <3>1, <3>3 DEF OnceAt, IsCharged
    <3>5. billed'[p] = 0 /\ billed'[p] <= 1
      BY <1>0, <3>4
    <3>6. \A d \in Call \ {c} : ~Charges(d, p, Inside)
      BY <3>2
    <3> QED BY <2>1, <3>5, <3>6, OnceOwn
  <2> QED BY <1>0, <1>1, <2>1, <2>2, OnceCharging
<1> QED BY <1>0, <1>3, <1>4, <1>5 DEF OpenCharge, Succeed

\* Until two chains charge a period at once, or something fails after its deposit,
\* the buyer pays for it once.
THEOREM PeriodsAreBilledOnce == Spec => []BilledOnce
<1>1. Init => OnceInv
  <2> SUFFICES ASSUME Init PROVE OnceInv
    OBVIOUS
  <2>1. \A c \in Call : call[c].pc = "idle"
    BY DEF Init, IdleCall
  <2>2. \A p \in Periods : billed[p] = 0
    BY DEF Init
  <2> QED BY <2>1, <2>2 DEF OnceInv, OnceAt, Charges, Inside
<1>2. ASSUME PaidInv, OnceInv, [Next]_vars PROVE OnceInv'
  <2>1. CASE Tick \/ UNCHANGED vars
    BY <1>2, <2>1 DEF Tick, vars, OnceInv, OnceAt, Charges
  <2> QED BY <1>2, <2>1, OnceAway, OnceInside, OnceOpen DEF Next, Continue, Bill
<1>3. OnceInv => BilledOnce
  BY DEF OnceInv, OnceAt, BilledOnce
<1> QED BY <1>1, <1>2, <1>3, PaidInvariant, PTL DEF Spec
-----------------------------------------------------------------------------
(* Cancellation.                                                           *)

\* A cancelled subscription on which nothing is under way stays cancelled, and
\* nothing is started on it.
THEOREM CancellationIsFinal == Spec => CancelledIsFinal
<1>1. ASSUME PaidInv, [Next]_vars, sub.status = "cancelled", Quiet
      PROVE  sub'.status = "cancelled" /\ Quiet'
  <2>0. call \in [Call -> CallState] /\ sub \in Subscription
    BY <1>1 DEF PaidInv, SubscriptionTypeOK
  <2>1. ~Renewable
    BY <1>1 DEF Renewable
  <2>2. CASE Tick \/ UNCHANGED vars
    BY <1>1, <2>2 DEF Tick, vars, Quiet
  <2>3. ASSUME NEW c \in Call, Return(c), sub'.status = "cancelled"
        PROVE  sub'.status = "cancelled" /\ Quiet'
    BY <1>1, <2>0, <2>3 DEF Return, Quiet, IdleCall
  <2>4. ASSUME NEW c \in Call, Create(c) \/ Renew(c) \/ Cycle(c) \/ Scan(c) PROVE FALSE
    BY <1>1, <2>1, <2>4 DEF Create, Renew, Cycle, Scan, PendingCancellation
  <2>5. ASSUME NEW c \in Call, Request(c) PROVE FALSE
    <3>1. PICK op \in Requests : Accepts(op)
      BY <2>5 DEF Request, Requests
    <3>2. CASE op = "resume"
      <4>1. Accepts(op) <=> sub.status = "paused"
        BY <3>2, Zenon DEF Accepts
      <4> QED BY <1>1, <3>1, <4>1
    <3>3. CASE op # "resume"
      <4>1. Accepts(op) <=> sub.status # "cancelled"
        BY <3>3, Zenon DEF Accepts
      <4> QED BY <1>1, <3>1, <4>1
    <3> QED BY <3>2, <3>3
  <2>6. ASSUME NEW c \in Call, CycleRenews(c) \/ FinishCancellation(c)
        PROVE  sub'.status = "cancelled" /\ Quiet'
    <3>1. Return(c) /\ sub'.status = "cancelled"
      BY <1>1, <2>0, <2>1, <2>6 DEF CycleRenews, FinishCancellation, Subscription
    <3> QED BY <2>3, <3>1
  <2>7. ASSUME NEW c \in Call, Write(c) \/ Bill(c) PROVE FALSE
    BY <1>1, <2>7 DEF Write, Bill, OpenCharge, CountAttempt, Deposit, Release, RecordSuccess,
                      RecordFailure, Advance, PastDue, At, Quiet
  <2>8. ASSUME NEW c \in Call, Rejected(c) \/ Crash(c)
        PROVE  sub'.status = "cancelled" /\ Quiet'
    BY <1>1, <2>3, <2>8 DEF Rejected, Crash
  <2> QED BY <1>1, <2>2, <2>4, <2>5, <2>6, <2>7, <2>8 DEF Next, Continue
<1>2. PaidInv /\ [Next]_vars
        => [sub.status = "cancelled" /\ Quiet => sub'.status = "cancelled" /\ Quiet']_vars
  BY <1>1
<1> QED BY <1>2, PaidInvariant, PTL DEF Spec, CancelledIsFinal
-----------------------------------------------------------------------------
(* The ledger knows of every deposit.                                      *)

\* The chains that are about to deposit, or to release, for period p.
Waiting(p, label) == {c \in Call : Charges(c, p, {label})}
Count(p, label) == Cardinality(Waiting(p, label))

\* Every chain that is about to deposit has counted its attempt, and every one that
\* is about to release has made its deposit.
LedgerAt(p) ==
  /\ settled[p] + Count(p, "release") <= billed[p]
  /\ billed[p] + Count(p, "deposit") <= charge[p].attempts
LedgerInv == \A p \in Periods : LedgerAt(p)

LEMMA WaitingFinite == \A p \in Periods, l \in Label : IsFiniteSet(Waiting(p, l))
<1> SUFFICES ASSUME NEW p \in Periods, NEW l \in Label PROVE IsFiniteSet(Waiting(p, l))
  OBVIOUS
<1>1. Waiting(p, l) \in SUBSET Call /\ IsFiniteSet(Call)
  BY SubscriptionAssumption DEF Waiting
<1> QED BY <1>1, FS_Subset

LEMMA CountType == \A p \in Periods, l \in Label : Count(p, l) \in Nat
BY WaitingFinite, FS_CardinalityType DEF Count

\* How the number of waiting chains changes when one of them takes a step.
LEMMA CountStep ==
  ASSUME SubscriptionTypeOK, NEW c \in Call, NEW w \in CallState,
         call' = [call EXCEPT ![c] = w]
  PROVE  \A p \in Periods, l \in Label :
           Count(p, l)' =
             IF w.pc = l /\ w.start = p
               THEN IF Charges(c, p, {l}) THEN Count(p, l) ELSE Count(p, l) + 1
               ELSE IF Charges(c, p, {l}) THEN Count(p, l) - 1 ELSE Count(p, l)
<1> SUFFICES ASSUME NEW p \in Periods, NEW l \in Label
             PROVE  Count(p, l)' =
                      IF w.pc = l /\ w.start = p
                        THEN IF Charges(c, p, {l}) THEN Count(p, l) ELSE Count(p, l) + 1
                        ELSE IF Charges(c, p, {l}) THEN Count(p, l) - 1 ELSE Count(p, l)
  OBVIOUS
<1> DEFINE W == Waiting(p, l)
<1>1. \A d \in Call : call'[d] = IF d = c THEN w ELSE call[d]
  BY DEF SubscriptionTypeOK
<1>2. W' = IF w.pc = l /\ w.start = p THEN W \cup {c} ELSE W \ {c}
  BY <1>1 DEF Waiting, Charges
<1>3. c \in W <=> Charges(c, p, {l})
  BY DEF Waiting
<1>4. IsFiniteSet(W)
  BY WaitingFinite
<1>5. Cardinality(W \cup {c}) = IF c \in W THEN Cardinality(W) ELSE Cardinality(W) + 1
  BY <1>4, FS_AddElement
<1>6. Cardinality(W \ {c}) = IF c \in W THEN Cardinality(W) - 1 ELSE Cardinality(W)
  BY <1>4, FS_RemoveElement
<1>7. Count(p, l)' = Cardinality(W') /\ Count(p, l) = Cardinality(W)
  BY DEF Count
<1> HIDE DEF W
<1> QED BY <1>2, <1>3, <1>5, <1>6, <1>7

\* A step that neither deposits nor releases, and after which its chain waits for
\* neither.
LEMMA LedgerAway ==
  ASSUME SubscriptionTypeOK, LedgerInv, NEW c \in Call, NEW w \in CallState,
         call' = [call EXCEPT ![c] = w], w.pc \notin {"deposit", "release"},
         UNCHANGED <<billed, settled>>,
         \A p \in Periods : charge'[p].attempts = charge[p].attempts
  PROVE  LedgerInv'
<1> SUFFICES ASSUME NEW p \in Periods PROVE LedgerAt(p)'
  BY DEF LedgerInv
<1> DEFINE deposits == Count(p, "deposit")
           releases == Count(p, "release")
<1>0. "deposit" \in Label /\ "release" \in Label
  BY DEF Label, Charging
<1>1. /\ deposits \in Nat /\ deposits' \in {deposits, deposits - 1}
      /\ releases \in Nat /\ releases' \in {releases, releases - 1}
  BY <1>0, CountType, CountStep
<1>2. /\ settled[p] + releases <= billed[p] /\ billed[p] + deposits <= charge[p].attempts
      /\ settled[p] \in Nat /\ billed[p] \in Nat /\ charge[p].attempts \in Nat
  BY DEF LedgerInv, LedgerAt, SubscriptionTypeOK, Charge
<1>3. settled'[p] = settled[p] /\ billed'[p] = billed[p]
  OBVIOUS
<1> HIDE DEF deposits, releases
<1>4. settled'[p] + releases' <= billed'[p] /\ billed'[p] + deposits' <= charge'[p].attempts
  BY <1>1, <1>2, <1>3
<1> QED BY <1>4 DEF LedgerAt, deposits, releases

LEMMA LedgerReturn ==
  ASSUME SubscriptionTypeOK, LedgerInv, NEW c \in Call, Return(c), UNCHANGED <<billed, settled>>,
         \A p \in Periods : charge'[p].attempts = charge[p].attempts
  PROVE  LedgerInv'
<1>1. IdleCall \in CallState /\ IdleCall.pc \notin {"deposit", "release"}
  BY PeriodTypes DEF IdleCall, CallState, Label, Op
<1> QED BY <1>1, LedgerAway DEF Return

LEMMA LedgerGoto ==
  ASSUME SubscriptionTypeOK, LedgerInv, NEW c \in Call,
         NEW l \in Label \ {"deposit", "release"}, Goto(c, l), UNCHANGED <<billed, settled>>,
         \A p \in Periods : charge'[p].attempts = charge[p].attempts
  PROVE  LedgerInv'
<1>1. PICK w \in CallState : call' = [call EXCEPT ![c] = w] /\ w.pc = l
  BY GotoForm
<1> QED BY <1>1, LedgerAway

LEMMA LedgerStart ==
  ASSUME SubscriptionTypeOK, LedgerInv, NEW c \in Call, NEW op \in Op,
         NEW l \in Label \ {"deposit", "release"}, Start(c, op, l),
         op = "renew" => sub.end \in Periods, UNCHANGED <<charge, billed, settled>>
  PROVE  LedgerInv'
<1>1. PICK w \in CallState : call' = [call EXCEPT ![c] = w] /\ w.pc = l
  BY StartForm
<1> QED BY <1>1, LedgerAway

\* The count of one label for the period of the chain, which keeps its period.
LEMMA CountMoves ==
  ASSUME SubscriptionTypeOK, NEW c \in Call, NEW w \in CallState,
         call' = [call EXCEPT ![c] = w], w.start = call[c].start,
         NEW p \in Periods, NEW l \in Label
  PROVE  /\ Count(p, l) \in Nat
         /\ p # call[c].start => Count(p, l)' = Count(p, l)
         /\ call[c].pc # l /\ w.pc # l => Count(p, l)' = Count(p, l)
         /\ p = call[c].start /\ call[c].pc = l /\ w.pc # l => Count(p, l)' = Count(p, l) - 1
         /\ p = call[c].start /\ call[c].pc # l /\ w.pc = l => Count(p, l)' = Count(p, l) + 1
<1>1. Count(p, l) \in Nat
  BY CountType
<1>0. \A q \in Periods, k \in Label :
        Count(q, k)' =
          IF w.pc = k /\ w.start = q
            THEN IF Charges(c, q, {k}) THEN Count(q, k) ELSE Count(q, k) + 1
            ELSE IF Charges(c, q, {k}) THEN Count(q, k) - 1 ELSE Count(q, k)
  BY CountStep
<1>2. Count(p, l)' =
        IF w.pc = l /\ w.start = p
          THEN IF Charges(c, p, {l}) THEN Count(p, l) ELSE Count(p, l) + 1
          ELSE IF Charges(c, p, {l}) THEN Count(p, l) - 1 ELSE Count(p, l)
  BY <1>0
<1>3. Charges(c, p, {l}) <=> call[c].pc = l /\ call[c].start = p
  BY DEF Charges
<1> QED BY <1>1, <1>2, <1>3

\* The three steps that matter: what they add to the columns of the period of their
\* chain, and where they lead.
LEMMA LedgerMoves ==
  ASSUME SubscriptionTypeOK, LedgerInv, NEW c \in Call, NEW w \in CallState,
         call' = [call EXCEPT ![c] = w], w.start = call[c].start,
         NEW a \in {0, 1}, NEW b \in {0, 1}, NEW s \in {0, 1},
         \A p \in Periods : charge'[p].attempts =
           IF p = call[c].start THEN charge[p].attempts + a ELSE charge[p].attempts,
         \A p \in Periods : billed'[p] = IF p = call[c].start THEN billed[p] + b ELSE billed[p],
         \A p \in Periods : settled'[p] = IF p = call[c].start THEN settled[p] + s ELSE settled[p],
         \/ call[c].pc = "attempt" /\ w.pc = "deposit" /\ a = 1 /\ b = 0 /\ s = 0
         \/ call[c].pc = "deposit" /\ w.pc = "release" /\ a = 0 /\ b = 1 /\ s = 0
         \/ call[c].pc = "deposit" /\ w.pc = "fail" /\ a = 0 /\ s = 0
         \/ call[c].pc = "release" /\ w.pc \in {"succeed", "fail"} /\ a = 0 /\ b = 0
  PROVE  LedgerInv'
<1> SUFFICES ASSUME NEW p \in Periods PROVE LedgerAt(p)'
  BY DEF LedgerInv
<1> DEFINE deposits == Count(p, "deposit")
           releases == Count(p, "release")
<1>1. /\ settled[p] + releases <= billed[p] /\ billed[p] + deposits <= charge[p].attempts
      /\ settled[p] \in Nat /\ billed[p] \in Nat /\ charge[p].attempts \in Nat
  BY DEF LedgerInv, LedgerAt, SubscriptionTypeOK, Charge
<1>2. "deposit" \in Label /\ "release" \in Label
  BY DEF Label, Charging
<1>3. /\ deposits \in Nat
      /\ p # call[c].start => deposits' = deposits
      /\ call[c].pc # "deposit" /\ w.pc # "deposit" => deposits' = deposits
      /\ p = call[c].start /\ call[c].pc = "deposit" /\ w.pc # "deposit" => deposits' = deposits - 1
      /\ p = call[c].start /\ call[c].pc # "deposit" /\ w.pc = "deposit" => deposits' = deposits + 1
  BY <1>2, CountMoves
<1>4. /\ releases \in Nat
      /\ p # call[c].start => releases' = releases
      /\ call[c].pc # "release" /\ w.pc # "release" => releases' = releases
      /\ p = call[c].start /\ call[c].pc = "release" /\ w.pc # "release" => releases' = releases - 1
      /\ p = call[c].start /\ call[c].pc # "release" /\ w.pc = "release" => releases' = releases + 1
  BY <1>2, CountMoves
<1> HIDE DEF deposits, releases
<1>5. CASE p # call[c].start
  <2>1. settled'[p] + releases' <= billed'[p] /\ billed'[p] + deposits' <= charge'[p].attempts
    BY <1>1, <1>3, <1>4, <1>5
  <2> QED BY <2>1 DEF LedgerAt, deposits, releases
<1>6. CASE p = call[c].start
  <2>1. /\ charge'[p].attempts = charge[p].attempts + a
        /\ billed'[p] = billed[p] + b /\ settled'[p] = settled[p] + s
    BY <1>6
  <2>2. settled'[p] + releases' <= billed'[p] /\ billed'[p] + deposits' <= charge'[p].attempts
    BY <1>1, <1>3, <1>4, <1>6, <2>1
  <2> QED BY <2>2 DEF LedgerAt, deposits, releases
<1> QED BY <1>5, <1>6

LEMMA LedgerNext == ASSUME PaidInv, LedgerInv, [Next]_vars PROVE LedgerInv'
<1>0. /\ SubscriptionTypeOK /\ call \in [Call -> CallState] /\ charge \in [Periods -> Charge]
      /\ billed \in [Periods -> Nat] /\ settled \in [Periods -> Nat]
      /\ \A c \in Call : call[c] \in CallState /\ call[c].start \in Periods
  BY DEF PaidInv, SubscriptionTypeOK, CallState
<1>1. CASE Tick \/ UNCHANGED vars
  BY <1>1 DEF Tick, vars, LedgerInv, LedgerAt, Count, Waiting, Charges
<1>2. ASSUME NEW c \in Call, Create(c) PROVE LedgerInv'
  <2>1. CASE UNCHANGED call
    BY <1>2, <2>1 DEF Create, LedgerInv, LedgerAt, Count, Waiting, Charges
  <2>2. CASE Start(c, "create", "charge")
    BY <1>0, <1>2, <2>2, LedgerStart DEF Create, Op, Label, Charging
  <2> QED BY <1>2, <2>1, <2>2 DEF Create
<1>3. ASSUME NEW c \in Call, Renew(c) PROVE LedgerInv'
  BY <1>0, <1>3, LedgerStart DEF Renew, Op, Label, Charging
<1>4. ASSUME NEW c \in Call, Request(c) PROVE LedgerInv'
  <2>1. PICK op \in Requests : Start(c, op, "write")
    BY <1>4 DEF Request, Requests
  <2> QED BY <1>0, <1>4, <2>1, LedgerStart DEF Request, Requests, Op, Label
<1>5. ASSUME NEW c \in Call, Cycle(c) \/ Scan(c) PROVE LedgerInv'
  BY <1>0, <1>5, LedgerStart DEF Cycle, Scan, Op, Label
<1>6. ASSUME NEW c \in Call, CycleRenews(c) PROVE LedgerInv'
  <2>1. CASE Return(c)
    BY <1>0, <1>6, <2>1, LedgerReturn DEF CycleRenews
  <2>2. CASE sub.end \in Periods
             /\ call' = [call EXCEPT ![c].pc = "charge", ![c].start = sub.end]
    <3> DEFINE w == [call[c] EXCEPT !.pc = "charge", !.start = sub.end]
    <3>1. w \in CallState /\ w.pc = "charge"
      BY <1>0, <2>2 DEF CallState, Label, Charging
    <3>2. call' = [call EXCEPT ![c] = w]
      BY <2>2
    <3> HIDE DEF w
    <3> QED BY <1>0, <1>6, <3>1, <3>2, LedgerAway DEF CycleRenews
  <2> QED BY <1>6, <2>1, <2>2 DEF CycleRenews
<1>7. ASSUME NEW c \in Call,
             \/ FinishCancellation(c) \/ Write(c) \/ Advance(c) \/ PastDue(c)
             \/ Rejected(c) \/ Crash(c)
      PROVE  LedgerInv'
  BY <1>0, <1>7, LedgerReturn
     DEF FinishCancellation, Write, Advance, PastDue, Rejected, Crash
<1>8. ASSUME NEW c \in Call, OpenCharge(c) \/ RecordSuccess(c) \/ RecordFailure(c)
      PROVE  LedgerInv'
  <2>1. ASSUME NEW p \in Periods PROVE charge'[p].attempts = charge[p].attempts
    <3>1. charge[p] \in Charge /\ charge[call[c].start] \in Charge
      BY <1>0
    <3>2. CASE OpenCharge(c)
      BY <1>0, <3>1, <3>2 DEF OpenCharge, Charge
    <3>3. CASE RecordSuccess(c) \/ RecordFailure(c)
      BY <1>0, <3>1, <3>3 DEF RecordSuccess, RecordFailure, Charge
    <3> QED BY <1>8, <3>2, <3>3
  <2>2. /\ Return(c) \/ Goto(c, "advance") \/ Goto(c, "attempt") \/ Goto(c, "pastDue")
        /\ UNCHANGED <<billed, settled>>
    BY <1>8 DEF OpenCharge, RecordSuccess, RecordFailure, Succeed
  <2> QED BY <1>0, <2>1, <2>2, LedgerReturn, LedgerGoto DEF Label, Charging
<1>9. ASSUME NEW c \in Call, NEW l \in Label, Goto(c, l)
      PROVE  \E w \in CallState : /\ call' = [call EXCEPT ![c] = w]
                                  /\ w.pc = l /\ w.start = call[c].start
  BY <1>0, <1>9, GotoForm
<1>10. ASSUME NEW c \in Call, CountAttempt(c) PROVE LedgerInv'
  <2>1. PICK w \in CallState : /\ call' = [call EXCEPT ![c] = w]
                               /\ w.pc = "deposit" /\ w.start = call[c].start
    BY <1>9, <1>10 DEF CountAttempt, Label, Charging
  <2>2. \A p \in Periods :
          /\ charge'[p].attempts =
               IF p = call[c].start THEN charge[p].attempts + 1 ELSE charge[p].attempts
          /\ billed'[p] = IF p = call[c].start THEN billed[p] + 0 ELSE billed[p]
          /\ settled'[p] = IF p = call[c].start THEN settled[p] + 0 ELSE settled[p]
    BY <1>0, <1>10 DEF CountAttempt, Charge
  <2>3. call[c].pc = "attempt"
    BY <1>10 DEF CountAttempt, At
  <2> QED BY <1>0, <2>1, <2>2, <2>3, LedgerMoves
<1>11. ASSUME NEW c \in Call, Deposit(c) PROVE LedgerInv'
  <2>0. call[c].pc = "deposit" /\ UNCHANGED <<charge, settled>>
    BY <1>11 DEF Deposit, At
  <2>1. ASSUME NEW l \in {"release", "fail"}, Goto(c, l),
               NEW n \in {0, 1}, l = "release" => n = 1,
               billed' = [billed EXCEPT ![call[c].start] = @ + n]
        PROVE  LedgerInv'
    <3>1. PICK w \in CallState : /\ call' = [call EXCEPT ![c] = w]
                                 /\ w.pc = l /\ w.start = call[c].start
      BY <1>9, <2>1 DEF Label, Charging
    <3>2. \A p \in Periods :
            /\ charge'[p].attempts =
                 IF p = call[c].start THEN charge[p].attempts + 0 ELSE charge[p].attempts
            /\ billed'[p] = IF p = call[c].start THEN billed[p] + n ELSE billed[p]
            /\ settled'[p] = IF p = call[c].start THEN settled[p] + 0 ELSE settled[p]
      BY <1>0, <2>0, <2>1 DEF Charge
    <3> QED BY <1>0, <2>0, <2>1, <3>1, <3>2, LedgerMoves
  <2>2. billed = [billed EXCEPT ![call[c].start] = @ + 0]
    BY <1>0
  <2> QED BY <1>11, <2>1, <2>2 DEF Deposit
<1>12. ASSUME NEW c \in Call, Release(c) PROVE LedgerInv'
  <2>0. call[c].pc = "release" /\ UNCHANGED <<charge, billed>>
    BY <1>12 DEF Release, At
  <2>1. ASSUME NEW l \in {"succeed", "fail"}, Goto(c, l), NEW n \in {0, 1},
               settled' = [settled EXCEPT ![call[c].start] = @ + n]
        PROVE  LedgerInv'
    <3>1. PICK w \in CallState : /\ call' = [call EXCEPT ![c] = w]
                                 /\ w.pc = l /\ w.start = call[c].start
      BY <1>9, <2>1 DEF Label, Charging
    <3>2. \A p \in Periods :
            /\ charge'[p].attempts =
                 IF p = call[c].start THEN charge[p].attempts + 0 ELSE charge[p].attempts
            /\ billed'[p] = IF p = call[c].start THEN billed[p] + 0 ELSE billed[p]
            /\ settled'[p] = IF p = call[c].start THEN settled[p] + n ELSE settled[p]
      BY <1>0, <2>0, <2>1 DEF Charge
    <3> QED BY <1>0, <2>0, <2>1, <3>1, <3>2, LedgerMoves
  <2>2. settled = [settled EXCEPT ![call[c].start] = @ + 0]
    BY <1>0
  <2> QED BY <1>12, <2>1, <2>2 DEF Release
<1> QED BY <1>1, <1>2, <1>3, <1>4, <1>5, <1>6, <1>7, <1>8, <1>10, <1>11, <1>12
        DEF Next, Continue, Bill

\* The ledger counts at least the deposits of a period, and no more is released than
\* was deposited, for any number of overlapping calls, retries, faults and crashes.
THEOREM LedgerKnowsDeposits == Spec => []LedgerCoversDeposits
<1>1. Init => LedgerInv
  <2> SUFFICES ASSUME Init, NEW p \in Periods PROVE LedgerAt(p)
    BY DEF LedgerInv
  <2>1. Waiting(p, "deposit") = {} /\ Waiting(p, "release") = {}
    BY DEF Init, IdleCall, Waiting, Charges
  <2>2. Count(p, "deposit") = 0 /\ Count(p, "release") = 0
    BY <2>1, FS_EmptySet DEF Count
  <2>3. settled[p] = 0 /\ billed[p] = 0 /\ charge[p].attempts = 0
    BY DEF Init
  <2> QED BY <2>2, <2>3 DEF LedgerAt
<1>2. PaidInv /\ LedgerInv => LedgerCoversDeposits
  <2> SUFFICES ASSUME PaidInv, LedgerInv, NEW p \in Periods
               PROVE  settled[p] <= billed[p] /\ billed[p] <= charge[p].attempts
    BY DEF LedgerCoversDeposits
  <2>1. settled[p] \in Nat /\ billed[p] \in Nat /\ charge[p].attempts \in Nat
    BY DEF PaidInv, SubscriptionTypeOK, Charge
  <2> QED BY <2>1, CountType DEF LedgerInv, LedgerAt, Label, Charging
<1> QED BY <1>1, <1>2, LedgerNext, PaidInvariant, PTL DEF Spec
==============================================================================
