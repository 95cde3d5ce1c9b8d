--------------------------- MODULE EscrowCoordinator ---------------------------
(***************************************************************************)
(* The escrow of one order: payments/src/escrowCoordinator/index.ts over   *)
(* its payment_records row (paymentRecordStore.ts) and the escrow contract *)
(* on chain, reached through the wallet service with retries               *)
(* (contractInvocationRetry.ts, autoRelease/retry.ts).                     *)
(*                                                                         *)
(* The funding lock is left out on purpose: with its default configuration *)
(* it always takes the optimistic path, which excludes nobody, and         *)
(* fundEscrow() goes on without a lock anyway.                             *)
(***************************************************************************)
EXTENDS Integers

CONSTANTS
  Call,            \* concurrent invocations of the coordinator
  Total,           \* amountStroops of the order
  MaxRetries,      \* DEFAULT_MAX_RETRIES
  Limits           \* how often each kind of external event may happen

\* Requests, submissions whose answer is an error, database, RPC or Redis calls
\* that reject, process deaths.
Kinds == {"calls", "networkFaults", "serviceFaults", "crashes"}

ASSUME EscrowAssumption ==
  /\ Total \in Nat \ {0}
  /\ MaxRetries \in Nat
  /\ Limits \in [Kinds -> Nat]

VARIABLES
  record,     \* the payment_records row of the order
  chain,      \* the escrow contract
  call,       \* the local state of every invocation
  budget

escrowVars == <<record, chain, call, budget>>

Full == {"release", "refund", "dispute"}
Partial == {"partialRelease", "partialRefund"}
Op == {"fund"} \cup Full \cup Partial

\* The status that a completed operation leaves, in the row and on chain.
Outcome(op) == CASE op = "fund" -> "funded" [] op = "release" -> "released"
                 [] op = "refund" -> "refunded" [] op = "dispute" -> "disputed"

Payment == [status : {"none", "pending", "funded", "released", "refunded", "disputed", "failed"},
            known : BOOLEAN,         \* escrow_id is set
            tx : SUBSET Op,          \* the ..._tx_hash columns that are set
            released : Nat, refunded : Nat]
NoPayment == [status |-> "none", known |-> FALSE, tx |-> {}, released |-> 0, refunded |-> 0]

Chain == [status : {"none", "funded", "disputed", "released", "refunded"},
          deposits : Nat, balance : Nat, toSeller : Nat, toBuyer : Nat]
NoEscrow == [status |-> "none", deposits |-> 0, balance |-> 0, toSeller |-> 0, toBuyer |-> 0]

CallState == [pc : {"idle", "create", "submit", "record", "fail", "done"}, op : Op,
              amount : 0..Total, attempts : 0..MaxRetries,
              released : Nat, refunded : Nat,       \* as read at the head of the operation
              result : {"none", "ok", "failed"}]
IdleCall == [pc |-> "idle", op |-> "fund", amount |-> 0, attempts |-> 0,
             released |-> 0, refunded |-> 0, result |-> "none"]
Finished(op, result) == [pc |-> "done", op |-> op, amount |-> 0, attempts |-> 0,
                         released |-> 0, refunded |-> 0, result |-> result]

At(c, label) == call[c].pc = label
Busy(c) == call[c].pc \notin {"idle", "done"}
Goto(c, label) == call' = [call EXCEPT ![c].pc = label]
Return(c, result) == call' = [call EXCEPT ![c] = Finished(call[c].op, result)]

Spend(kind) == /\ budget[kind] > 0
               /\ budget' = [budget EXCEPT ![kind] = @ - 1]
-----------------------------------------------------------------------------
(* The contract, as the coordinator's calls and error handling assume it.  *)

\* A deposit always opens an escrow; nothing leaves a settled one, and no
\* partial payment exceeds what is left.
Accepts(op, amount) ==
  \/ op = "fund"
  \/ op = "dispute" /\ chain.status = "funded"
  \/ /\ op \in {"release", "refund"} \cup Partial
     /\ chain.status \in {"funded", "disputed"}
     /\ chain.balance > 0 /\ amount <= chain.balance

\* The share of the balance that a call moves to each side.
ToSeller(op, amount) ==
  IF op = "release" THEN chain.balance ELSE IF op = "partialRelease" THEN amount ELSE 0
ToBuyer(op, amount) ==
  IF op = "refund" THEN chain.balance ELSE IF op = "partialRefund" THEN amount ELSE 0

Executed(op, amount) ==
  [status |-> IF op \in Partial THEN chain.status ELSE Outcome(op),
   deposits |-> chain.deposits + (IF op = "fund" THEN 1 ELSE 0),
   balance |-> IF op = "fund" THEN Total
               ELSE chain.balance - ToSeller(op, amount) - ToBuyer(op, amount),
   toSeller |-> chain.toSeller + ToSeller(op, amount),
   toBuyer |-> chain.toBuyer + ToBuyer(op, amount)]
-----------------------------------------------------------------------------
(* The payment record.                                                     *)

\* computeRemaining(), of the row or of an invocation's copy of its amounts.
Remaining(rec) == Total - rec.released - rec.refunded

\* Mutant: a record that is still pending counts as funded.
ToFundResult_Pending(rec) == IF rec.status # "failed" THEN "ok" ELSE "failed"

\* toFundResult(): what a duplicate fund request is told.
ToFundResult(rec) ==
  IF rec.status \in {"funded", "released", "refunded"} \/ "fund" \in rec.tx
    THEN "ok" ELSE "failed"

\* The operation is recorded as done already.
AlreadyDone(op) == op \in Full /\ record.status = Outcome(op) /\ op \in record.tx

\* What an operation makes of the row it reads first: an answer, or "go".
Lookup(op, amount) ==
  CASE op = "fund" -> IF record.status = "none" THEN "go" ELSE ToFundResult(record)
    [] op # "fund" /\ ~record.known -> "failed"
    [] op # "fund" /\ record.known /\ AlreadyDone(op) -> "ok"
    [] op \in Partial /\ record.known /\ amount > Remaining(record) -> "failed"
    [] OTHER -> "go"

\* Mutant: the status is settled whenever the other side got nothing.
Settles_Early(c) ==
  IF call[c].op = "partialRelease" THEN call[c].refunded = 0 ELSE call[c].released = 0

\* A partial payment settles the record when, by the row read at the start,
\* it takes the rest and the other side got nothing.
Settles(c) ==
  /\ call[c].amount = Remaining(call[c])
  /\ IF call[c].op = "partialRelease" THEN call[c].refunded = 0 ELSE call[c].released = 0

\* incrementPaymentRecordAmounts(): the columns grow by the payment.
Incremented(c) ==
  LET op == call[c].op
      amount == call[c].amount
  IN
  [record EXCEPT !.released = @ + (IF op = "partialRelease" THEN amount ELSE 0),
                 !.refunded = @ + (IF op = "partialRefund" THEN amount ELSE 0),
                 !.status = IF ~Settles(c) THEN @
                            ELSE IF op = "partialRelease" THEN "released" ELSE "refunded"]

\* The row after a successful submission: the update names its own columns.
Recorded(c) ==
  LET op == call[c].op IN
  IF op \in Partial
    THEN Incremented(c)
    ELSE [record EXCEPT !.status = Outcome(op), !.known = @ \/ op = "fund",
                        !.tx = @ \cup {op}]
-----------------------------------------------------------------------------
(* One invocation of the coordinator.                                      *)

\* The read at the head of an operation.
Begin(c, op, amount) ==
  LET answer == Lookup(op, amount) IN
  /\ ~Busy(c)
  /\ call' = [call EXCEPT ![c] =
       IF answer = "go"
         THEN [pc |-> IF op = "fund" THEN "create" ELSE "submit", op |-> op,
               amount |-> amount, attempts |-> 0, result |-> "none",
               released |-> record.released, refunded |-> record.refunded]
         ELSE Finished(op, answer)]
  /\ UNCHANGED <<record, chain>>

\* A request from outside; partial payments carry an amount.
Request(c) ==
  /\ Spend("calls")
  /\ \E op \in Op : \E amount \in IF op \in Partial THEN 1..Total ELSE {0} : Begin(c, op, amount)

\* Mutant: the insert does not fail when the order has a record.
CreateRecord_Upsert(c) ==
  /\ At(c, "create")
  /\ record' = IF record.status = "none" THEN [NoPayment EXCEPT !.status = "pending"] ELSE record
  /\ Goto(c, "submit")
  /\ UNCHANGED <<chain, budget>>

\* createPaymentRecord(): order_id is unique, so a second insert throws.
CreateRecord(c) ==
  /\ At(c, "create")
  /\ \/ /\ record.status = "none"
        /\ record' = [NoPayment EXCEPT !.status = "pending"]
        /\ Goto(c, "submit")
        /\ UNCHANGED budget
     \/ /\ record.status # "none"
        /\ Return(c, "failed")
        /\ UNCHANGED <<record, budget>>
  /\ UNCHANGED chain

\* A call before the submission rejects: the fraud service pauses the buyer,
\* or a query of the database throws.
RejectedEarly(c) ==
  /\ \/ At(c, "create")
     \/ At(c, "submit") /\ call[c].op # "fund" /\ call[c].attempts = 0
  /\ Spend("serviceFaults")
  /\ Return(c, "failed")
  /\ UNCHANGED <<record, chain>>

\* Mutant: a transaction that was refused on chain counts as a success.
Submit_Unchecked(c) ==
  LET op == call[c].op
      amount == call[c].amount
  IN
  /\ At(c, "submit")
  /\ chain' = IF Accepts(op, amount) THEN Executed(op, amount) ELSE chain
  /\ Goto(c, "record")
  /\ UNCHANGED <<record, budget>>

\* submitContractInvocationWithRetry(): the contract executes or refuses the
\* call; an answer that is an error says nothing about which, and is retried if
\* it looks transient.
Submit(c) ==
  LET op == call[c].op
      amount == call[c].amount
      executed == IF Accepts(op, amount) THEN {Executed(op, amount)} ELSE {}
  IN
  /\ At(c, "submit")
  /\ \/ chain' \in executed /\ Goto(c, "record") /\ UNCHANGED budget
     \/ executed = {} /\ Goto(c, "fail") /\ UNCHANGED <<chain, budget>>
     \/ /\ Spend("networkFaults")
        /\ chain' \in {chain} \cup executed
        /\ \/ Goto(c, "fail")
           \/ /\ call[c].attempts < MaxRetries
              /\ call' = [call EXCEPT ![c].attempts = @ + 1]
  /\ UNCHANGED record

\* The update of the row and the status event.  If the escrow id cannot be read
\* back, the update fails or Redis refuses the event, the catch block follows.
RecordSuccess(c) ==
  /\ At(c, "record")
  /\ \/ record' = Recorded(c) /\ Return(c, "ok") /\ UNCHANGED budget
     \/ /\ Spend("serviceFaults")
        /\ record' \in {record, Recorded(c)}
        /\ Goto(c, "fail")
  /\ UNCHANGED chain

\* The catch block (or the branch for a failed transaction) marks the record
\* failed, whatever it says by now.
RecordFailure(c) ==
  LET failed == [record EXCEPT !.status = "failed"] IN
  /\ At(c, "fail")
  /\ \/ record' = failed /\ UNCHANGED budget
     \/ Spend("serviceFaults") /\ record' = record
  /\ Return(c, "failed")
  /\ UNCHANGED chain

\* The process dies, with the invocation it was in.
Crash(c) ==
  /\ Spend("crashes")
  /\ call' = [call EXCEPT ![c] = IdleCall]
  /\ UNCHANGED <<record, chain>>

Step(c) ==
  CreateRecord(c) \/ RejectedEarly(c) \/ Submit(c) \/ RecordSuccess(c) \/ RecordFailure(c)

EscrowInit ==
  /\ record = NoPayment
  /\ chain = NoEscrow
  /\ call = [c \in Call |-> IdleCall]
  /\ budget = Limits

EscrowNext == \E c \in Call : Request(c) \/ Step(c) \/ (Busy(c) /\ Crash(c))

EscrowSpec == EscrowInit /\ [][EscrowNext]_escrowVars
-----------------------------------------------------------------------------
(* Properties.                                                             *)

\* Every variable keeps its type.
EscrowTypeOK ==
  /\ record \in Payment
  /\ chain \in Chain
  /\ call \in [Call -> CallState]
  /\ budget \in [Kinds -> Nat]

\* However many fund requests for the order overlap, at most one deposit is
\* made, until the answer to a submission is lost and fundEscrow() retries it.
OneDeposit == budget.networkFaults = Limits.networkFaults => chain.deposits <= 1

\* A fund request answered "funded" has its money in an escrow whose id is
\* recorded, also when the answer was read off another request's record.
FundedIsReal ==
  \A c \in Call : call[c].op = "fund" /\ call[c].result = "ok"
                    => chain.deposits > 0 /\ record.known

\* The amounts in the record never run ahead of the chain: concurrent partial
\* payments, lost answers and retries cannot record a payment nobody received.
RecordNeverAhead ==
  record.released <= chain.toSeller /\ record.refunded <= chain.toBuyer

\* A record that says released or refunded leaves nothing in the escrow, though
\* a partial payment decides this on a row it read before its submission.
SettledIsEmpty == record.status \in {"released", "refunded"} => chain.balance = 0
=============================================================================
