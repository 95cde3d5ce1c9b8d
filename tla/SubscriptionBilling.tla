-------------------------- MODULE SubscriptionBilling --------------------------
(***************************************************************************)
(* One recurring subscription: payments/src/subscriptions/service.ts, its  *)
(* billing of a period through the escrow contract (billing.ts), the       *)
(* charge ledger (chargeStore.ts), the subscription row                    *)
(* (subscriptionStore.ts) and the scheduler (billingScheduler.ts).         *)
(*                                                                         *)
(* Billing periods are numbered: period p runs from boundary p to boundary *)
(* p+1, and the row's currentPeriodEnd is the boundary at which the next   *)
(* period to be charged starts. Amounts, plans and metadata are left out:  *)
(* nothing below branches on them.                                         *)
(***************************************************************************)
EXTENDS Integers, FiniteSets

CONSTANTS
  Call,         \* call chains that may be under way at once
  MaxPeriod,    \* bound: the last period that is charged
  Limits        \* how often each kind of external event may happen

\* HTTP requests; failed transactions, lost answers, rejected store calls and
\* process deaths.
Kinds == {"requests", "faults"}

ASSUME SubscriptionAssumption ==
  /\ IsFiniteSet(Call)
  /\ MaxPeriod \in Nat
  /\ Limits \in [Kinds -> Nat]

VARIABLES
  sub,        \* the subscriptions row
  charge,     \* the subscription_charges row of every period
  billed,     \* deposits that left the buyer, per period
  settled,    \* escrows released to the seller, per period
  now,        \* the boundary that time has reached
  call,       \* the local state of every call chain
  budget,
  spoiled     \* history: periods with a fault after a deposit, or charged by two calls at once

vars == <<sub, charge, billed, settled, now, call, budget, spoiled>>

Periods == 0..MaxPeriod

Subscription == [status : {"none", "trialing", "active", "past_due", "paused", "cancelled"},
                 end : 0..MaxPeriod + 1,        \* currentPeriodEnd
                 flagged : BOOLEAN,             \* cancelAtPeriodEnd
                 method : {"escrow", "wallet"}]
Charge == [status : {"none", "pending", "succeeded", "failed"}, attempts : Nat]

\* A chain is at "read" before renewSubscription() reads the row, at one of
\* the next six within chargeSubscriptionPeriod(), then about to write what
\* came of it; at "cancelling" a billing cycle has found it to be cancelled.
Charging == {"charge", "attempt", "deposit", "release", "succeed", "fail"}
Label == {"idle", "read", "advance", "pastDue", "cancelling", "write"} \cup Charging
Op == {"create", "renew", "cycle", "pause", "resume", "cancel", "cancelLater"}
CallState == [pc : Label, op : Op, start : Periods]
IdleCall == [pc |-> "idle", op |-> "cycle", start |-> 0]

At(c, label) == call[c].pc = label
Goto(c, label) == call' = [call EXCEPT ![c].pc = label]
Start(c, op, label) ==
  /\ At(c, "idle")
  /\ call' = [call EXCEPT ![c] = [pc |-> label, op |-> op,
                                  start |-> IF op = "renew" THEN sub.end ELSE 0]]
\* A request's chain has returned or thrown; a cycle's renewal as well, whose
\* error the cycle logs.
Return(c) == call' = [call EXCEPT ![c] = IdleCall]

Spend(kind) == /\ budget[kind] > 0
               /\ budget' = [budget EXCEPT ![kind] = @ - 1]
NoFault == UNCHANGED budget
Spoil(p) == spoiled' = spoiled \cup {p}

Init ==
  /\ \E m \in {"escrow", "wallet"} :
       sub = [status |-> "none", end |-> 0, flagged |-> FALSE, method |-> m]
  /\ charge = [p \in Periods |-> [status |-> "none", attempts |-> 0]]
  /\ billed = [p \in Periods |-> 0]
  /\ settled = [p \in Periods |-> 0]
  /\ now = 0
  /\ call = [c \in Call |-> IdleCall]
  /\ budget = Limits
  /\ spoiled = {}
-----------------------------------------------------------------------------
(* The requests (service.ts). Each reads the row, awaits, and then writes  *)
(* by id without looking again.                                            *)

\* createSubscription(): a trial ends at boundary 1 and is not charged; without
\* one period 0 is charged at once.
Create(c) ==
  /\ sub.status = "none"
  /\ \/ /\ sub' = [sub EXCEPT !.status = "trialing", !.end = 1]
        /\ At(c, "idle") /\ UNCHANGED call
     \/ /\ sub' = [sub EXCEPT !.status = "active", !.end = 1]
        /\ Start(c, "create", "charge")
  /\ UNCHANGED <<charge, billed, settled, now, budget, spoiled>>

\* The statuses that renewSubscription() accepts, and that findDue() selects.
Renewable == sub.status \in {"active", "past_due", "trialing"}

\* POST /renew: renewSubscription() with force.
Renew(c) ==
  /\ Spend("requests")
  /\ Renewable /\ sub.end \in Periods
  /\ Start(c, "renew", "charge")
  /\ UNCHANGED <<sub, charge, billed, settled, now, spoiled>>

\* Mutant: a cancelled subscription can be paused, and so resumed.
Accepts_Cancelled(op) == CASE op = "resume" -> sub.status = "paused" [] OTHER -> TRUE

\* The status test at the head of pauseSubscription(), resumeSubscription() and
\* cancelSubscription().
Accepts(op) == CASE op = "resume" -> sub.status = "paused" [] OTHER -> sub.status # "cancelled"

Request(c) ==
  \E op \in {"pause", "resume", "cancel", "cancelLater"} :
    /\ sub.status # "none" /\ Accepts(op)
    /\ Spend("requests")
    /\ Start(c, op, "write")
    /\ UNCHANGED <<sub, charge, billed, settled, now, spoiled>>

Updated(op) ==
  CASE op = "pause" -> [sub EXCEPT !.status = "paused"]
    [] op = "resume" -> [sub EXCEPT !.status = "active"]
    [] op = "cancel" -> [sub EXCEPT !.status = "cancelled", !.flagged = FALSE]
    [] op = "cancelLater" -> [sub EXCEPT !.flagged = TRUE]

Write(c) ==
  /\ At(c, "write")
  /\ sub' = Updated(call[c].op)
  /\ Return(c)
  /\ UNCHANGED <<charge, billed, settled, now, budget, spoiled>>
-----------------------------------------------------------------------------
(* The scheduler (billingScheduler.ts). runBillingCycle() first renews what *)
(* is due and then cancels what is flagged; as the two passes list the     *)
(* subscription separately, and a flagged one is skipped by the first, each *)
(* pass is a chain of its own here. Nothing keeps cycles from overlapping. *)

\* The first pass of an interval tick lists the subscription as due.
Cycle(c) ==
  /\ Renewable /\ sub.end <= now /\ ~sub.flagged /\ sub.end \in Periods
  /\ Start(c, "cycle", "read")
  /\ UNCHANGED <<sub, charge, billed, settled, now, budget, spoiled>>

\* The cycle's call of renewSubscription(), forced: the status is tested again,
\* the due date and the flag are not.
CycleRenews(c) ==
  /\ At(c, "read")
  /\ IF Renewable /\ sub.end \in Periods
       THEN call' = [call EXCEPT ![c].pc = "charge", ![c].start = sub.end]
       ELSE Return(c)
  /\ UNCHANGED <<sub, charge, billed, settled, now, budget, spoiled>>

\* Mutant: only an active subscription is looked at, so a trial keeps its flag.
PendingCancellation_Active == sub.flagged /\ sub.status = "active" /\ sub.end <= now

\* findPendingCancellation()
PendingCancellation == sub.flagged /\ sub.status # "cancelled" /\ sub.end <= now

\* The second pass of an interval tick.
Scan(c) ==
  /\ PendingCancellation
  /\ Start(c, "cycle", "cancelling")
  /\ UNCHANGED <<sub, charge, billed, settled, now, budget, spoiled>>

FinishCancellation(c) ==
  /\ At(c, "cancelling")
  /\ sub' = [sub EXCEPT !.status = "cancelled"]
  /\ Return(c)
  /\ UNCHANGED <<charge, billed, settled, now, budget, spoiled>>
-----------------------------------------------------------------------------
(* chargeSubscriptionPeriod() (billing.ts, chargeStore.ts).                *)

Shared(c) == \E d \in Call \ {c} : call[d].pc \in Charging /\ call[d].start = call[c].start

\* Where a chain goes with a charge that has succeeded.
Succeed(c) == IF call[c].op = "create" THEN Return(c) ELSE Goto(c, "advance")

\* Mutant: a period whose charge succeeded is charged again.
IsCharged_Never(p) == FALSE

IsCharged(p) == charge[p].status = "succeeded"

\* getOrCreate() and the tests that follow it: a charge that succeeded is
\* returned, a payment method other than escrow throws.
OpenCharge(c) ==
  LET p == call[c].start IN
  /\ At(c, "charge")
  /\ charge' = [charge EXCEPT ![p].status = IF @ = "none" THEN "pending" ELSE @]
  /\ IF IsCharged(p) THEN Succeed(c)
     ELSE IF sub.method = "wallet" THEN Return(c)
     ELSE Goto(c, "attempt")
  /\ spoiled' = IF Shared(c) THEN spoiled \cup {p} ELSE spoiled
  /\ UNCHANGED <<sub, billed, settled, now, budget>>

\* incrementAttempt()
CountAttempt(c) ==
  /\ At(c, "attempt")
  /\ charge' = [charge EXCEPT ![call[c].start].attempts = @ + 1]
  /\ Goto(c, "deposit")
  /\ UNCHANGED <<sub, billed, settled, now, budget, spoiled>>

\* The deposit of this attempt. The transaction may fail on chain, and the call
\* may throw whether or not the transaction went through.
Deposit(c) ==
  LET p == call[c].start IN
  /\ At(c, "deposit")
  /\ \/ /\ billed' = [billed EXCEPT ![p] = @ + 1]
        /\ Goto(c, "release") /\ NoFault /\ UNCHANGED spoiled
     \/ /\ Spend("faults") /\ Goto(c, "fail")
        /\ \/ UNCHANGED <<billed, spoiled>>
           \/ billed' = [billed EXCEPT ![p] = @ + 1] /\ Spoil(p)
  /\ UNCHANGED <<sub, charge, settled, now>>

\* The escrow's id is read from the deposit and stored in columns that nothing
\* reads, then the escrow that this attempt opened is released. Any of the three
\* may fail, the release after it took effect.
Release(c) ==
  LET p == call[c].start IN
  /\ At(c, "release")
  /\ \/ /\ settled' = [settled EXCEPT ![p] = @ + 1]
        /\ Goto(c, "succeed") /\ NoFault /\ UNCHANGED spoiled
     \/ /\ Spend("faults") /\ Goto(c, "fail") /\ Spoil(p)
        /\ \/ UNCHANGED settled
           \/ settled' = [settled EXCEPT ![p] = @ + 1]
  /\ UNCHANGED <<sub, charge, billed, now>>

RecordSuccess(c) ==
  /\ At(c, "succeed")
  /\ charge' = [charge EXCEPT ![call[c].start].status = "succeeded"]
  /\ Succeed(c)
  /\ UNCHANGED <<sub, billed, settled, now, budget, spoiled>>

\* Either return of a failed charge: it overwrites whatever the row says.
RecordFailure(c) ==
  /\ At(c, "fail")
  /\ charge' = [charge EXCEPT ![call[c].start].status = "failed"]
  /\ Goto(c, "pastDue")
  /\ UNCHANGED <<sub, billed, settled, now, budget, spoiled>>

\* Mutant: the period is advanced from what the row says by now.
Advance_Reread(c) ==
  /\ At(c, "advance")
  /\ sub' = [sub EXCEPT !.status = "active", !.end = IF @ > MaxPeriod THEN @ ELSE @ + 1]
  /\ Return(c)
  /\ UNCHANGED <<charge, billed, settled, now, budget, spoiled>>

\* renewSubscription() after a charge that succeeded.
Advance(c) ==
  /\ At(c, "advance")
  /\ sub' = [sub EXCEPT !.status = "active", !.end = call[c].start + 1]
  /\ Return(c)
  /\ UNCHANGED <<charge, billed, settled, now, budget, spoiled>>

\* renewSubscription() and createSubscription() after a charge that failed.
PastDue(c) ==
  /\ At(c, "pastDue")
  /\ sub' = [sub EXCEPT !.status = "past_due"]
  /\ Return(c)
  /\ UNCHANGED <<charge, billed, settled, now, budget, spoiled>>
-----------------------------------------------------------------------------
(* Faults and time.                                                        *)

\* A store call rejects. None of these is inside the try block of
\* chargeSubscriptionPeriod(): its last updates are returned, not awaited. The
\* renewal throws; a billing cycle logs that and goes on. An update that commits
\* while its answer is lost is that update, and then this at the next label: at
\* "deposit" it is incrementAttempt() that threw.
Rejected(c) ==
  /\ call[c].pc \in {"read", "charge", "attempt", "deposit", "succeed", "fail", "advance",
                     "pastDue", "cancelling", "write"}
  /\ Spend("faults")
  /\ Return(c)
  /\ spoiled' = IF At(c, "succeed") THEN spoiled \cup {call[c].start} ELSE spoiled
  /\ UNCHANGED <<sub, charge, billed, settled, now>>

\* The process that runs a chain dies; the rows stay.
Crash(c) ==
  /\ ~At(c, "idle")
  /\ Spend("faults")
  /\ Return(c)
  /\ spoiled' = IF call[c].pc \in Charging THEN spoiled \cup {call[c].start} ELSE spoiled
  /\ UNCHANGED <<sub, charge, billed, settled, now>>

\* Time, counted from the creation of the subscription.
Tick ==
  /\ sub.status # "none"
  /\ now <= MaxPeriod
  /\ now' = now + 1
  /\ UNCHANGED <<sub, charge, billed, settled, call, budget, spoiled>>
-----------------------------------------------------------------------------
Bill(c) == \/ OpenCharge(c) \/ CountAttempt(c) \/ Deposit(c) \/ Release(c)
           \/ RecordSuccess(c) \/ RecordFailure(c) \/ Advance(c) \/ PastDue(c)
Continue(c) == CycleRenews(c) \/ FinishCancellation(c) \/ Write(c) \/ Bill(c)

Next == \/ \E c \in Call : \/ Create(c) \/ Renew(c) \/ Request(c) \/ Cycle(c) \/ Scan(c)
                           \/ Continue(c) \/ Rejected(c) \/ Crash(c)
        \/ Tick

\* Continuations run, the scheduler's interval ticks and time passes; requests
\* and faults are not promised.
Fairness == /\ \A c \in Call : WF_vars(Continue(c))
            /\ WF_vars(\E c \in Call : Cycle(c))
            /\ WF_vars(\E c \in Call : Scan(c))
            /\ WF_vars(Tick)

Spec == Init /\ [][Next]_vars /\ Fairness
-----------------------------------------------------------------------------
(* Properties.                                                             *)

\* Every variable keeps its type.
SubscriptionTypeOK ==
  /\ sub \in Subscription
  /\ charge \in [Periods -> Charge]
  /\ billed \in [Periods -> Nat]
  /\ settled \in [Periods -> Nat]
  /\ now \in 0..MaxPeriod + 1
  /\ call \in [Call -> CallState]
  /\ budget \in [Kinds -> Nat]
  /\ spoiled \in SUBSET Periods

\* A charge that is recorded as succeeded, and every period that the
\* subscription has moved past (the trial or first one apart), was paid to the
\* seller, although failures are written over successes and a slow renewal
\* sets currentPeriodEnd back.
ServedIsPaid ==
  \A p \in Periods :
    /\ charge[p].status = "succeeded" => settled[p] > 0
    /\ p > 0 /\ p < sub.end => settled[p] > 0

\* The ledger knows of every deposit: attempt_count is at least the number of
\* deposits of the period, and no more is released than was deposited.
LedgerCoversDeposits ==
  \A p \in Periods : settled[p] <= billed[p] /\ billed[p] <= charge[p].attempts

\* Until two calls charge a period at once, or something fails after its
\* deposit, the buyer pays for it once: a repeated, late or overtaken renewal
\* finds the charge in the ledger.
BilledOnce == \A p \in Periods \ spoiled : billed[p] <= 1

\* What billingScheduler.ts and chargeStore.ts promise: a period is never
\* billed twice, whatever passes overlap or are run again.
NeverDoubleBilled == \A p \in Periods : billed[p] <= 1

\* No chain is under way that may still write a status it settled on earlier.
Quiet == \A c \in Call : call[c].pc \in {"idle", "read", "cancelling"}

\* A cancelled subscription on which nothing is under way stays cancelled, and
\* no request, tick or listed renewal starts anything on it that would bill
\* the buyer or bring it back.
CancelledIsFinal == [][sub.status = "cancelled" /\ Quiet => sub'.status = "cancelled" /\ Quiet']_vars

\* A subscription flagged to end with its period is eventually cancelled, even
\* if it is renewed, paused or past due meanwhile.
FlaggedIsCancelled == sub.flagged ~> sub.status = "cancelled"
=============================================================================
