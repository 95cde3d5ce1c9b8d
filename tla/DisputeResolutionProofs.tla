------------------------ MODULE DisputeResolutionProofs ------------------------
(***************************************************************************)
(* Proofs about DisputeResolution: for any number of overlapping requests, *)
(* faults and crashes, and any amount, an order has one deposit, a fund    *)
(* request answered "funded" is backed by it, the record is never ahead of *)
(* the contract, and a dispute that is shown as resolved has been paid,    *)
(* the buyer first.                                                        *)
(***************************************************************************)
EXTENDS DisputeResolution, FiniteSetTheorems, TLAPS

\* The invocations of fundEscrow() past their insert.
Funding(c) == call[c].op = "fund" /\ call[c].pc \in {"submit", "record", "fail"}

\* One of them at most gets past the insert, and until an answer is lost it
\* submits at most once.
DepositInv ==
  /\ budget.networkFaults <= Limits.networkFaults
  /\ \A c \in Call : Funding(c) => record.status # "none"
  /\ \A c, d \in Call : Funding(c) /\ Funding(d) => c = d
  /\ budget.networkFaults = Limits.networkFaults =>
       /\ chain.deposits <= 1
       /\ record.status = "none" => chain.deposits = 0
       /\ \A c \in Call : Funding(c) /\ At(c, "submit") => chain.deposits = 0

\* What the status and the columns of the row say about the deposit, and what an
\* invocation knows when it is about to write them.
FundedInv ==
  /\ record.known => chain.deposits > 0 /\ record.status # "none"
  /\ (record.status \in {"funded", "released", "refunded"} \/ "fund" \in record.tx)
       => record.known
  /\ \A c \in Call :
       /\ call[c].op # "fund" /\ call[c].pc \in {"submit", "record", "fail"} => record.known
       /\ call[c].op = "fund" /\ At(c, "record") => chain.deposits > 0
       /\ call[c].op = "fund" /\ call[c].result = "ok" => record.known
       /\ call[c].op # "fund" => ~At(c, "create")

EscrowInv == EscrowTypeOK /\ DepositInv /\ FundedInv
-----------------------------------------------------------------------------
(* The escrow.                                                             *)

\* Spending from the budget.
LEMMA SpendFacts ==
  ASSUME EscrowTypeOK, NEW kind \in Kinds, Spend(kind)
  PROVE  /\ budget' \in [Kinds -> Nat]
         /\ budget'.networkFaults <= budget.networkFaults
         /\ kind = "networkFaults" => budget'.networkFaults < budget.networkFaults
         /\ kind # "networkFaults" => budget'.networkFaults = budget.networkFaults
BY DEF EscrowTypeOK, Spend, Kinds

\* What the read at the head of an operation leads to.
LEMMA BeginFacts ==
  ASSUME EscrowTypeOK, NEW c \in Call, NEW op \in Op, NEW amount \in 0..Total,
         Begin(c, op, amount)
  PROVE  /\ record' = record /\ chain' = chain
         /\ call' = [call EXCEPT ![c] = call'[c]]
         /\ call'[c] \in CallState
         /\ call'[c].op = op
         /\ call'[c].pc \in {"create", "submit", "done"}
         /\ call'[c].pc = "create" <=> op = "fund" /\ call'[c].pc # "done"
         /\ call'[c].pc # "done" => call'[c].amount = amount /\ call'[c].result = "none"
         /\ call'[c].pc = "submit" => record.known
         /\ call'[c].result = "ok" =>
              \/ op \in Full
              \/ op = "fund" /\ record.status # "none" /\ ToFundResult(record) = "ok"
<1> DEFINE answer == Lookup(op, amount)
<1>1. answer \in {"go", "ok", "failed"}
  BY DEF Lookup, ToFundResult
<1>2. answer = "go" /\ op # "fund" => record.known
  BY DEF Lookup, Op, Full, Partial
<1>3. answer = "ok" => \/ op \in Full
                       \/ op = "fund" /\ record.status # "none" /\ ToFundResult(record) = "ok"
  BY DEF Lookup, AlreadyDone, Op, Full, Partial
<1> DEFINE goes == [pc |-> IF op = "fund" THEN "create" ELSE "submit", op |-> op,
                    amount |-> amount, attempts |-> 0, result |-> "none",
                    released |-> record.released, refunded |-> record.refunded]
           ends == Finished(op, answer)
<1>4. /\ call'[c] = IF answer = "go" THEN goes ELSE ends
      /\ call' = [call EXCEPT ![c] = call'[c]]
  BY DEF Begin, EscrowTypeOK
<1>5. goes \in CallState
  BY EscrowAssumption DEF CallState, EscrowTypeOK, Payment
<1>6. answer # "go" => ends \in CallState
  BY <1>1, EscrowAssumption DEF CallState, Finished
<1>7. record' = record /\ chain' = chain
  BY DEF Begin
<1>8. /\ goes.op = op /\ goes.pc = (IF op = "fund" THEN "create" ELSE "submit")
      /\ goes.amount = amount /\ goes.result = "none"
      /\ ends.op = op /\ ends.pc = "done" /\ ends.result = answer
  BY DEF Finished
<1> HIDE DEF answer, goes, ends
<1> QED BY <1>1, <1>2, <1>3, <1>4, <1>5, <1>6, <1>7, <1>8

\* The statuses that operations leave.
LEMMA OutcomeFacts ==
  ASSUME NEW op \in Op \ Partial
  PROVE  /\ Outcome(op) \in {"funded", "released", "refunded", "disputed"}
         /\ op = "fund" => Outcome(op) = "funded"
BY DEF Op, Full, Partial, Outcome

\* The contract keeps its books, pays nothing back, and only a deposit deposits.
LEMMA ExecutedFacts ==
  ASSUME EscrowTypeOK, NEW op \in Op, NEW amount \in 0..Total, Accepts(op, amount)
  PROVE  /\ Executed(op, amount) \in Chain
         /\ ToSeller(op, amount) \in Nat /\ ToBuyer(op, amount) \in Nat
<1>1. chain \in Chain /\ Total \in Nat /\ amount \in Nat
  BY EscrowAssumption DEF EscrowTypeOK
<1>2. /\ chain.deposits \in Nat /\ chain.balance \in Nat
      /\ chain.toSeller \in Nat /\ chain.toBuyer \in Nat
  BY <1>1 DEF Chain
<1>3. (IF op \in Partial THEN chain.status ELSE Outcome(op))
        \in {"none", "funded", "disputed", "released", "refunded"}
  BY <1>1, OutcomeFacts DEF Chain
<1>4. op \in Partial => amount <= chain.balance
  BY DEF Accepts, Partial
<1>5. /\ ToSeller(op, amount) \in Nat /\ ToBuyer(op, amount) \in Nat
      /\ chain.balance - ToSeller(op, amount) - ToBuyer(op, amount) \in Nat
  BY <1>1, <1>2, <1>4 DEF ToSeller, ToBuyer, Partial
<1> QED BY <1>1, <1>2, <1>3, <1>5 DEF Executed, Chain

\* What one submission does: it executes the call once or not at all.
LEMMA SubmitFacts ==
  ASSUME EscrowTypeOK, NEW c \in Call, Submit(c)
  PROVE  /\ record' = record
         /\ chain' \in Chain
         /\ chain' = chain \/ (Accepts(call[c].op, call[c].amount)
                               /\ chain' = Executed(call[c].op, call[c].amount))
         /\ call' = [call EXCEPT ![c] = call'[c]]
         /\ call'[c] \in CallState
         /\ call'[c].op = call[c].op /\ call'[c].amount = call[c].amount
         /\ call'[c].result = call[c].result
         /\ call'[c].pc \in {"submit", "record", "fail"}
         /\ call'[c].pc = "record" =>
              Accepts(call[c].op, call[c].amount) /\ chain' = Executed(call[c].op, call[c].amount)
         /\ budget' \in [Kinds -> Nat]
         /\ budget'.networkFaults <= budget.networkFaults
         /\ call'[c].pc = "submit" => budget'.networkFaults < budget.networkFaults
<1> DEFINE op == call[c].op
           amount == call[c].amount
<1>1. call[c] \in CallState /\ call[c].pc = "submit" /\ record' = record
  BY DEF EscrowTypeOK, Submit, At
<1>2. op \in Op /\ amount \in 0..Total /\ chain \in Chain /\ budget \in [Kinds -> Nat]
  BY <1>1 DEF CallState, EscrowTypeOK
<1>3. \A label \in {"record", "fail"} : Goto(c, label) =>
        /\ call' = [call EXCEPT ![c] = call'[c]] /\ call'[c] \in CallState
        /\ call'[c].op = op /\ call'[c].amount = amount /\ call'[c].result = call[c].result
        /\ call'[c].pc = label
  BY <1>1 DEF Goto, EscrowTypeOK, CallState
<1>0. UNCHANGED budget => budget' \in [Kinds -> Nat]
                            /\ budget'.networkFaults <= budget.networkFaults
  <2>1. budget.networkFaults \in Nat
    BY <1>2 DEF Kinds
  <2> QED BY <1>2, <2>1
<1> HIDE DEF op, amount
<1>4. CASE Accepts(op, amount) /\ chain' = Executed(op, amount) /\ Goto(c, "record")
           /\ UNCHANGED budget
  <2>1. chain' \in Chain
    BY <1>2, <1>4, ExecutedFacts
  <2> QED BY <1>0, <1>1, <1>3, <1>4, <2>1 DEF op, amount
<1>5. CASE Goto(c, "fail") /\ UNCHANGED <<chain, budget>>
  BY <1>0, <1>1, <1>2, <1>3, <1>5 DEF op, amount
<1>6. CASE /\ Spend("networkFaults")
           /\ chain' = chain \/ (Accepts(op, amount) /\ chain' = Executed(op, amount))
           /\ \/ Goto(c, "fail")
              \/ /\ call[c].attempts < MaxRetries
                 /\ call' = [call EXCEPT ![c].attempts = @ + 1]
  <2>1. chain' \in Chain
    BY <1>2, <1>6, ExecutedFacts
  <2>2. budget' \in [Kinds -> Nat] /\ budget'.networkFaults < budget.networkFaults
    BY <1>6, SpendFacts DEF Kinds
  <2>3. budget'.networkFaults \in Nat /\ budget.networkFaults \in Nat
    BY <1>2, <2>2 DEF Kinds
  <2>4. CASE Goto(c, "fail")
    BY <1>1, <1>3, <1>6, <2>1, <2>2, <2>3, <2>4 DEF op, amount
  <2>5. CASE /\ call[c].attempts < MaxRetries
             /\ call' = [call EXCEPT ![c].attempts = @ + 1]
    <3>1. /\ call' = [call EXCEPT ![c] = call'[c]] /\ call'[c] \in CallState
          /\ call'[c].op = op /\ call'[c].amount = amount /\ call'[c].result = call[c].result
          /\ call'[c].pc = "submit"
      BY <1>1, <2>5, EscrowAssumption DEF EscrowTypeOK, CallState, op, amount
    <3> QED BY <1>1, <1>6, <2>1, <2>2, <2>3, <3>1 DEF op, amount
  <2> QED BY <1>6, <2>4, <2>5
<1> QED BY <1>4, <1>5, <1>6 DEF Submit, op, amount

\* The row that a successful operation writes.
LEMMA RecordedFacts ==
  ASSUME EscrowTypeOK, NEW c \in Call
  PROVE  /\ Recorded(c) \in Payment
         /\ Recorded(c).known = (record.known \/ call[c].op = "fund")
         /\ Recorded(c).status = "none" => record.status = "none"
<1> DEFINE op == call[c].op
<1>1. record \in Payment /\ op \in Op /\ call[c].amount \in Nat
  BY EscrowAssumption DEF EscrowTypeOK, CallState
<1>2. CASE op \in Partial
  <2> DEFINE amount == call[c].amount
             released == record.released + (IF op = "partialRelease" THEN amount ELSE 0)
             refunded == record.refunded + (IF op = "partialRefund" THEN amount ELSE 0)
             status == IF ~Settles(c) THEN record.status
                       ELSE IF op = "partialRelease" THEN "released" ELSE "refunded"
  <2>1. op # "fund"
    BY <1>2 DEF Partial
  <2>2. released \in Nat /\ refunded \in Nat
    BY <1>1 DEF Payment
  <2>3. /\ status \in {"none", "pending", "funded", "released", "refunded", "disputed", "failed"}
        /\ status = "none" => record.status = "none"
    BY <1>1 DEF Payment
  <2>4. Recorded(c) = [record EXCEPT !.released = released, !.refunded = refunded,
                                     !.status = status]
    BY <1>2 DEF Recorded, Incremented
  <2> HIDE DEF released, refunded, status, op
  <2>5. /\ Recorded(c) \in Payment /\ Recorded(c).known = record.known
        /\ Recorded(c).status = status
    BY <1>1, <2>2, <2>3, <2>4 DEF Payment
  <2>6. record.known \in BOOLEAN
    BY <1>1 DEF Payment
  <2> QED BY <2>1, <2>3, <2>5, <2>6 DEF op
<1>3. CASE op \notin Partial
  <2>1. Outcome(op) \in {"funded", "released", "refunded", "disputed"}
    BY <1>1, <1>3, OutcomeFacts
  <2>2. Recorded(c) = [record EXCEPT !.status = Outcome(op), !.known = @ \/ op = "fund",
                                     !.tx = @ \cup {op}]
    BY <1>3 DEF Recorded
  <2>3. (record.known \/ op = "fund") \in BOOLEAN /\ record.tx \cup {op} \in SUBSET Op
    BY <1>1 DEF Payment
  <2> HIDE DEF op
  <2>4. Recorded(c) \in Payment
    BY <1>1, <2>1, <2>2, <2>3 DEF Payment
  <2>5. Recorded(c).known = (record.known \/ op = "fund") /\ Recorded(c).status = Outcome(op)
    BY <1>1, <2>2 DEF Payment
  <2> QED BY <2>1, <2>4, <2>5 DEF op
<1> QED BY <1>2, <1>3

\* An invocation that ends leaves a finished call behind.
LEMMA ReturnFacts ==
  ASSUME EscrowTypeOK, NEW c \in Call, NEW result \in {"ok", "failed"}, Return(c, result)
  PROVE  /\ call' = [call EXCEPT ![c] = call'[c]]
         /\ call'[c] \in CallState /\ call'[c].op = call[c].op
         /\ call'[c].pc = "done" /\ call'[c].result = result
BY EscrowAssumption DEF EscrowTypeOK, CallState, Return, Finished

\* An invocation that moves on keeps its other local variables.
LEMMA GotoFacts ==
  ASSUME EscrowTypeOK, NEW c \in Call, NEW label \in {"submit", "fail"}, Goto(c, label)
  PROVE  /\ call' = [call EXCEPT ![c] = call'[c]]
         /\ call'[c] \in CallState /\ call'[c].op = call[c].op
         /\ call'[c].pc = label /\ call'[c].result = call[c].result
         /\ call'[c].amount = call[c].amount
BY DEF EscrowTypeOK, CallState, Goto

\* The head of an operation keeps the invariant.
LEMMA BeginKeeps ==
  ASSUME EscrowInv, NEW c \in Call, NEW op \in Op, NEW amount \in 0..Total,
         Begin(c, op, amount),
         budget' \in [Kinds -> Nat], budget'.networkFaults = budget.networkFaults
  PROVE  EscrowInv'
<1> USE DEF EscrowInv
<1>1. EscrowTypeOK'
  BY BeginFacts DEF EscrowTypeOK
<1>2. \A d \in Call : d # c => call'[d] = call[d]
  BY BeginFacts DEF EscrowTypeOK
<1>3. ~(call'[c].op = "fund" /\ call'[c].pc \in {"submit", "record", "fail"})
  BY BeginFacts
<1>4. DepositInv'
  BY <1>2, <1>3, BeginFacts DEF DepositInv, Funding, At
<1>5. op = "fund" /\ call'[c].result = "ok" => record.known
  BY BeginFacts DEF FundedInv, ToFundResult, Full
<1>6. FundedInv'
  BY <1>2, <1>5, BeginFacts DEF FundedInv, At
<1> QED BY <1>1, <1>4, <1>6

\* An invocation that gives up leaves the row and the chain alone.
LEMMA FailedKeeps ==
  ASSUME EscrowInv, NEW c \in Call, Return(c, "failed"), record' = record, chain' = chain,
         budget' \in [Kinds -> Nat], budget'.networkFaults = budget.networkFaults
  PROVE  EscrowInv'
<1> USE DEF EscrowInv
<1>1. EscrowTypeOK'
  BY ReturnFacts DEF EscrowTypeOK
<1>2. \A d \in Call : d # c => call'[d] = call[d]
  BY ReturnFacts DEF EscrowTypeOK
<1>3. call'[c].pc = "done" /\ call'[c].result = "failed"
  BY ReturnFacts
<1>4. DepositInv'
  BY <1>2, <1>3 DEF DepositInv, Funding, At
<1>5. FundedInv'
  BY <1>2, <1>3 DEF FundedInv, At
<1> QED BY <1>1, <1>4, <1>5

\* The insert keeps the invariant: only the first one finds no row.
LEMMA CreateRecordKeeps == ASSUME EscrowInv, NEW c \in Call, CreateRecord(c) PROVE EscrowInv'
<1> USE DEF EscrowInv
<1>1. /\ call[c].op = "fund" /\ call[c].pc = "create" /\ chain' = chain /\ budget' = budget
  BY DEF CreateRecord, At, FundedInv, EscrowTypeOK
<1>2. CASE record.status = "none" /\ record' = [NoPayment EXCEPT !.status = "pending"]
           /\ Goto(c, "submit")
  <2>1. /\ record' \in Payment /\ record'.status = "pending" /\ ~record'.known
        /\ record'.tx = {} /\ ~record.known
    <3>1. record' = [status |-> "pending", known |-> FALSE, tx |-> {}, released |-> 0,
                     refunded |-> 0]
      BY <1>2 DEF NoPayment
    <3>2. ~record.known
      BY <1>2 DEF FundedInv
    <3>3. /\ record'.status = "pending" /\ record'.known = FALSE /\ record'.tx = {}
          /\ record' \in Payment
      BY <3>1 DEF Payment
    <3> QED BY <3>2, <3>3
  <2>2. EscrowTypeOK'
    BY <1>1, <1>2, <2>1, GotoFacts DEF EscrowTypeOK
  <2>3. \A d \in Call : d # c => call'[d] = call[d]
    BY <1>2, GotoFacts DEF EscrowTypeOK
  <2>4. call'[c].pc = "submit" /\ call'[c].op = "fund" /\ call'[c].result = call[c].result
    BY <1>1, <1>2, GotoFacts
  <2>5. \A d \in Call : ~Funding(d)
    BY <1>2 DEF DepositInv
  <2>6. DepositInv'
    BY <1>1, <1>2, <2>1, <2>3, <2>4, <2>5 DEF DepositInv, Funding, At
  <2>7. FundedInv'
    BY <1>1, <2>1, <2>3, <2>4 DEF FundedInv, At
  <2> QED BY <2>2, <2>6, <2>7
<1>3. CASE Return(c, "failed") /\ record' = record
  BY <1>1, <1>3, FailedKeeps DEF EscrowTypeOK
<1> QED BY <1>2, <1>3 DEF CreateRecord

\* A submission keeps the invariant: the only funder submits at most once until
\* an answer is lost.
LEMMA SubmitKeeps == ASSUME EscrowInv, NEW c \in Call, Submit(c) PROVE EscrowInv'
<1> USE DEF EscrowInv
<1> DEFINE op == call[c].op
           amount == call[c].amount
<1>1. call[c].pc = "submit" /\ op \in Op /\ amount \in 0..Total
  BY DEF Submit, At, EscrowTypeOK, CallState
<1>2. EscrowTypeOK'
  BY SubmitFacts DEF EscrowTypeOK
<1>3. \A d \in Call : d # c => call'[d] = call[d]
  BY SubmitFacts DEF EscrowTypeOK
<1>4. /\ chain'.deposits \in Nat /\ chain.deposits \in Nat
      /\ op = "fund" => chain'.deposits \in {chain.deposits, chain.deposits + 1}
      /\ op # "fund" => chain'.deposits = chain.deposits
  <2>1. chain.deposits \in Nat /\ chain'.deposits \in Nat
    BY <1>2 DEF EscrowTypeOK, Chain
  <2>2. chain' = Executed(op, amount) =>
          /\ op = "fund" => chain'.deposits = chain.deposits + 1
          /\ op # "fund" => chain'.deposits = chain.deposits
    BY <2>1 DEF Executed
  <2>3. chain' = chain \/ chain' = Executed(op, amount)
    BY SubmitFacts
  <2> HIDE DEF op, amount
  <2> QED BY <2>1, <2>2, <2>3
<1>5. call'[c].pc = "record" /\ op = "fund" => chain'.deposits > 0
  <2>1. ASSUME call'[c].pc = "record", op = "fund" PROVE chain'.deposits = chain.deposits + 1
    BY <2>1, SubmitFacts DEF Executed
  <2> QED BY <1>4, <2>1
<1>6. /\ budget'.networkFaults \in Nat /\ budget.networkFaults \in Nat
      /\ Limits.networkFaults \in Nat
  BY <1>2, EscrowAssumption DEF EscrowTypeOK, Kinds
<1>7. DepositInv'
  <2>1. /\ budget'.networkFaults <= Limits.networkFaults
        /\ budget'.networkFaults = Limits.networkFaults =>
             budget.networkFaults = Limits.networkFaults /\ call'[c].pc # "submit"
    BY <1>6, SubmitFacts DEF DepositInv
  <2>2. \A d \in Call : Funding(d)' => Funding(d)
    BY <1>1, <1>3, SubmitFacts DEF Funding
  <2>3. op = "fund" => Funding(c)
    BY <1>1 DEF Funding
  <2>4. ASSUME budget'.networkFaults = Limits.networkFaults
        PROVE  /\ chain'.deposits <= 1
               /\ record'.status = "none" => chain'.deposits = 0
               /\ \A d \in Call : Funding(d)' /\ At(d, "submit")' => chain'.deposits = 0
    <3>1. CASE op = "fund"
      <4>1. chain.deposits = 0 /\ record.status # "none"
        BY <1>1, <2>1, <2>3, <2>4, <3>1 DEF DepositInv, At
      <4>2. \A d \in Call : Funding(d)' => d = c
        BY <2>2, <2>3, <3>1 DEF DepositInv
      <4> QED BY <1>4, <2>1, <2>4, <4>1, <4>2, SubmitFacts DEF At
    <3>2. CASE op # "fund"
      <4>1. chain'.deposits = chain.deposits /\ ~Funding(c)'
        BY <1>4, <3>2, SubmitFacts DEF Funding
      <4> QED BY <1>3, <2>1, <2>2, <2>4, <4>1, SubmitFacts DEF DepositInv, At
    <3> QED BY <3>1, <3>2
  <2> QED BY <2>1, <2>2, <2>4, SubmitFacts DEF DepositInv
<1>8. FundedInv'
  <2>1. op # "fund" => record.known
    BY <1>1 DEF FundedInv
  <2>2. chain.deposits > 0 => chain'.deposits > 0
    BY <1>4
  <2> QED BY <1>1, <1>3, <1>5, <2>1, <2>2, SubmitFacts DEF FundedInv, At
<1> QED BY <1>2, <1>7, <1>8

\* The update of the row keeps the invariant.
LEMMA RecordSuccessKeeps == ASSUME EscrowInv, NEW c \in Call, RecordSuccess(c) PROVE EscrowInv'
<1> USE DEF EscrowInv
<1>1. call[c].pc = "record" /\ chain' = chain
  BY DEF RecordSuccess, At
<1>2. /\ record' \in Payment /\ record' \in {record, Recorded(c)}
      /\ record'.status = "none" => record.status = "none"
      /\ record.known => record'.known
      /\ record'.known => chain.deposits > 0
      /\ record' = Recorded(c) => record'.known
  <2>1. Recorded(c).known /\ chain.deposits > 0
    BY <1>1, RecordedFacts DEF FundedInv, At
  <2>2. record' \in {record, Recorded(c)}
    BY DEF RecordSuccess
  <2> QED BY <2>1, <2>2, RecordedFacts DEF EscrowTypeOK, FundedInv
<1>3. /\ budget' \in [Kinds -> Nat] /\ budget'.networkFaults = budget.networkFaults
  BY SpendFacts DEF RecordSuccess, EscrowTypeOK, Kinds
<1>4. /\ call' = [call EXCEPT ![c] = call'[c]] /\ call'[c] \in CallState
      /\ call'[c].op = call[c].op
      /\ \/ call'[c].pc = "done" /\ record' = Recorded(c)
         \/ call'[c].pc = "fail" /\ call'[c].result = call[c].result
  BY ReturnFacts, GotoFacts DEF RecordSuccess
<1>5. EscrowTypeOK'
  BY <1>1, <1>2, <1>3, <1>4 DEF EscrowTypeOK
<1>6. \A d \in Call : d # c => call'[d] = call[d]
  BY <1>4 DEF EscrowTypeOK
<1>7. DepositInv'
  <2>1. \A d \in Call : Funding(d)' => Funding(d) /\ ~(d = c /\ At(d, "submit")')
    BY <1>1, <1>4, <1>6 DEF Funding, At
  <2> QED BY <1>1, <1>2, <1>3, <1>6, <2>1 DEF DepositInv, At
<1>8. FundedInv'
  <2>1. record'.known => record'.status # "none"
    BY <1>1, <1>2, RecordedFacts DEF FundedInv, DepositInv, Funding
  <2>2. (record'.status \in {"funded", "released", "refunded"} \/ "fund" \in record'.tx)
          => record'.known
    BY <1>2 DEF FundedInv
  <2> QED BY <1>1, <1>2, <1>4, <1>6, <2>1, <2>2 DEF FundedInv, At
<1> QED BY <1>5, <1>7, <1>8

\* The catch block keeps the invariant, although it overwrites the status.
LEMMA RecordFailureKeeps == ASSUME EscrowInv, NEW c \in Call, RecordFailure(c) PROVE EscrowInv'
<1> USE DEF EscrowInv
<1>1. chain' = chain /\ Return(c, "failed")
  BY DEF RecordFailure
<1>2. /\ budget' \in [Kinds -> Nat] /\ budget'.networkFaults = budget.networkFaults
  BY SpendFacts DEF RecordFailure, EscrowTypeOK, Kinds
<1>3. CASE record' = record
  BY <1>1, <1>2, <1>3, FailedKeeps
<1>4. CASE record' = [record EXCEPT !.status = "failed"]
  <2>1. /\ record' \in Payment /\ record'.status = "failed" /\ record'.known = record.known
        /\ record'.tx = record.tx
    BY <1>4 DEF EscrowTypeOK, Payment
  <2>2. EscrowTypeOK'
    BY <1>1, <1>2, <2>1, ReturnFacts DEF EscrowTypeOK
  <2>3. \A d \in Call : d # c => call'[d] = call[d]
    BY <1>1, ReturnFacts DEF EscrowTypeOK
  <2>4. call'[c].pc = "done" /\ call'[c].result = "failed"
    BY <1>1, ReturnFacts
  <2>5. DepositInv'
    BY <1>1, <1>2, <2>1, <2>3, <2>4 DEF DepositInv, Funding, At
  <2>6. FundedInv'
    BY <1>1, <2>1, <2>3, <2>4 DEF FundedInv, At
  <2> QED BY <2>2, <2>5, <2>6
<1> QED BY <1>3, <1>4 DEF RecordFailure

\* Every step of an invocation keeps the invariant.
LEMMA StepKeeps == ASSUME EscrowInv, NEW c \in Call, Step(c) PROVE EscrowInv'
<1>1. CASE RejectedEarly(c)
  <2>1. /\ budget' \in [Kinds -> Nat] /\ budget'.networkFaults = budget.networkFaults
    BY <1>1, SpendFacts DEF RejectedEarly, EscrowInv, Kinds
  <2> QED BY <1>1, <2>1, FailedKeeps DEF RejectedEarly
<1> QED BY <1>1, CreateRecordKeeps, SubmitKeeps, RecordSuccessKeeps, RecordFailureKeeps DEF Step

\* A crash forgets an invocation, and nothing else.
LEMMA CrashKeeps == ASSUME EscrowInv, NEW c \in Call, Crash(c) PROVE EscrowInv'
<1> USE DEF EscrowInv
<1>1. /\ record' = record /\ chain' = chain
      /\ budget' \in [Kinds -> Nat] /\ budget'.networkFaults = budget.networkFaults
  BY SpendFacts DEF Crash, Kinds
<1>2. IdleCall \in CallState /\ IdleCall.pc = "idle" /\ IdleCall.op = "fund"
      /\ IdleCall.result = "none"
  BY EscrowAssumption DEF IdleCall, CallState, Op
<1>3. call'[c] = IdleCall /\ (\A d \in Call : d # c => call'[d] = call[d])
      /\ call' \in [Call -> CallState]
  BY <1>2 DEF Crash, EscrowTypeOK
<1>4. EscrowTypeOK'
  BY <1>1, <1>3 DEF EscrowTypeOK
<1>5. DepositInv'
  BY <1>1, <1>2, <1>3 DEF DepositInv, Funding, At
<1>6. FundedInv'
  BY <1>1, <1>2, <1>3 DEF FundedInv, At
<1> QED BY <1>4, <1>5, <1>6
-----------------------------------------------------------------------------
(* The dispute.                                                            *)

Deciding(h) == HandlerAt(h, "balance") \/ (HandlerAt(h, "write") /\ handler[h].status = "decided")
Waiting(h) == handler[h].pc \in {"buyerWait", "sellerWait"}
Executing(h) == handler[h].pc \in {"buyerLeg", "buyerWait", "sellerLeg", "sellerWait", "resolve"}

\* Before the decision is written nothing is executed or paid.
Undecided ==
  /\ dispute.status \notin {"decided", "resolved"}
  /\ paid.buyer = 0 /\ paid.seller = 0
  /\ \A h \in Call : ~Executing(h)

\* The call that a handler waits for is the leg it has begun, and once it is about
\* to be recorded as a success its share has been paid.
LegInHand(h, op, share, total) ==
  /\ call[h].op = op
  /\ call[h].pc \in {"submit", "record", "fail", "done"}
  /\ call[h].pc \in {"submit", "record"} => call[h].amount = share
  /\ call[h].pc = "record" \/ call[h].result = "ok" => total >= share

ExecutionOK(h) ==
  LET split == handler[h].resolution IN
  /\ split = dispute.resolution
  /\ HandlerAt(h, "buyerWait") => LegInHand(h, "partialRefund", split.buyer, paid.buyer)
  /\ HandlerAt(h, "sellerWait") => LegInHand(h, "partialRelease", split.seller, paid.seller)
  /\ handler[h].pc \in {"sellerLeg", "sellerWait", "resolve"} => paid.buyer >= split.buyer
  /\ HandlerAt(h, "resolve") => paid.seller >= split.seller

\* As long as there is one decision, every execution holds its amounts.
DecisionInv ==
  /\ \A h \in Call : HandlerAt(h, "write") => handler[h].status # "resolved"
  /\ decisions = 0 => Undecided /\ \A h \in Call : ~Deciding(h)
  /\ decisions = 1 =>
       /\ \A h \in Call : Deciding(h) => Undecided /\ \A g \in Call : Deciding(g) => g = h
       /\ \A h \in Call : Executing(h) => ExecutionOK(h)
  /\ BuyerFirst
  /\ ResolvedIsPaid

RowTypes ==
  /\ dispute \in Dispute
  /\ handler \in [Call -> HandlerState]
  /\ requests \in 0..MaxRequests /\ decisions \in 0..MaxDecisions
  /\ paid \in [buyer : Nat, seller : Nat]

DisputeInv == EscrowInv /\ RowTypes /\ DecisionInv

\* Nothing of the dispute changes but one handler, which does not start a
\* decision or an execution.
LEMMA HandlerQuiet ==
  ASSUME RowTypes, DecisionInv, NEW h \in Call, NEW local \in HandlerState,
         handler' = [handler EXCEPT ![h] = local],
         local.pc \notin {"balance"} \cup {"buyerLeg", "buyerWait", "sellerLeg", "sellerWait", "resolve"},
         local.pc = "write" => local.status \notin {"decided", "resolved"},
         \A g \in Call : g # h => call'[g] = call[g],
         dispute' = dispute, decisions' = decisions, paid' = paid,
         requests' \in 0..MaxRequests
  PROVE  RowTypes' /\ DecisionInv'
<1>1. RowTypes'
  BY DEF RowTypes
<1>2. handler'[h] = local /\ \A g \in Call : g # h => handler'[g] = handler[g]
  BY DEF RowTypes
<1>3. ~Deciding(h)' /\ ~Executing(h)'
  BY <1>2 DEF Deciding, Executing, HandlerAt
<1>4. \A g \in Call : g # h => /\ Deciding(g)' = Deciding(g) /\ Executing(g)' = Executing(g)
                               /\ HandlerAt(g, "write")' = HandlerAt(g, "write")
                               /\ ExecutionOK(g)' = ExecutionOK(g)
  BY <1>2 DEF Deciding, Executing, HandlerAt, ExecutionOK, LegInHand
<1>5. Undecided => Undecided'
  BY <1>3, <1>4 DEF Undecided
<1>6. BuyerFirst' /\ ResolvedIsPaid'
  BY DEF DecisionInv, BuyerFirst, ResolvedIsPaid
<1>7. \A g \in Call : HandlerAt(g, "write")' => handler'[g].status # "resolved"
  BY <1>2, <1>4 DEF DecisionInv, HandlerAt
<1> QED BY <1>1, <1>3, <1>4, <1>5, <1>6, <1>7 DEF DecisionInv

\* Nothing of the dispute changes but one handler, which executes the decision.
LEMMA HandlerExecutes ==
  ASSUME RowTypes, DecisionInv, NEW h \in Call, NEW local \in HandlerState,
         Executing(h) \/ dispute.status = "decided",
         handler' = [handler EXCEPT ![h] = local],
         local.pc \in {"buyerLeg", "buyerWait", "sellerLeg", "sellerWait", "resolve"},
         decisions = 1 => ExecutionOK(h)',
         \A g \in Call : g # h => call'[g] = call[g],
         dispute' = dispute, decisions' = decisions, paid' = paid, requests' = requests
  PROVE  RowTypes' /\ DecisionInv'
<1>1. RowTypes'
  BY DEF RowTypes
<1>2. handler'[h] = local /\ \A g \in Call : g # h => handler'[g] = handler[g]
  BY DEF RowTypes
<1>3. ~Deciding(h)' /\ ~HandlerAt(h, "write")' /\ ~Undecided
  BY <1>2 DEF Deciding, HandlerAt, Undecided
<1>4. \A g \in Call : g # h => /\ Deciding(g)' = Deciding(g) /\ Executing(g)' = Executing(g)
                               /\ HandlerAt(g, "write")' = HandlerAt(g, "write")
                               /\ ExecutionOK(g)' = ExecutionOK(g)
  BY <1>2 DEF Deciding, Executing, HandlerAt, ExecutionOK, LegInHand
<1>5. BuyerFirst' /\ ResolvedIsPaid'
  BY DEF DecisionInv, BuyerFirst, ResolvedIsPaid
<1>6. \A g \in Call : HandlerAt(g, "write")' => handler'[g].status # "resolved"
  BY <1>2, <1>3, <1>4 DEF DecisionInv
<1>7. decisions # 0
  BY <1>3 DEF DecisionInv
<1>8. decisions = 1 => \A g \in Call : ~Deciding(g)'
  BY <1>3, <1>4 DEF DecisionInv
<1> QED BY <1>1, <1>4, <1>5, <1>6, <1>7, <1>8 DEF DecisionInv

\* The local states that the updates of a handler lead to.
LEMMA HandlerTypes ==
  ASSUME RowTypes, NEW h \in Call
  PROVE  /\ IdleHandler \in HandlerState /\ IdleHandler.pc = "idle"
         /\ HandlerEnds(h) => handler' = [handler EXCEPT ![h] = IdleHandler]
         /\ \A label \in {"flag", "balance", "execute", "buyerWait", "sellerLeg", "sellerWait",
                          "resolve"} :
              HandlerGoto(h, label) =>
                \E local \in HandlerState :
                  /\ handler' = [handler EXCEPT ![h] = local]
                  /\ local.pc = label /\ local.resolution = handler[h].resolution
<1>1. IdleHandler \in HandlerState /\ IdleHandler.pc = "idle"
  BY EscrowAssumption DEF IdleHandler, HandlerState, NoSplit, Split, Stage
<1>2. ASSUME NEW label \in {"flag", "balance", "execute", "buyerWait", "sellerLeg",
                            "sellerWait", "resolve"},
             HandlerGoto(h, label)
      PROVE  \E local \in HandlerState :
               /\ handler' = [handler EXCEPT ![h] = local]
               /\ local.pc = label /\ local.resolution = handler[h].resolution
  <2> DEFINE local == [handler[h] EXCEPT !.pc = label]
  <2>1. handler[h] \in HandlerState
    BY DEF RowTypes
  <2>2. local \in HandlerState /\ local.pc = label /\ local.resolution = handler[h].resolution
    BY <2>1 DEF HandlerState
  <2>3. handler' = [handler EXCEPT ![h] = local]
    BY <1>2 DEF HandlerGoto
  <2> HIDE DEF local
  <2> QED BY <2>2, <2>3
<1> QED BY <1>1, <1>2 DEF HandlerEnds

\* The calls of other handlers are untouched.
LEMMA OthersKeep ==
  ASSUME EscrowTypeOK, NEW c \in Call, call' = [call EXCEPT ![c] = call'[c]] \/ UNCHANGED call
  PROVE  \A g \in Call : g # c => call'[g] = call[g]
BY DEF EscrowTypeOK

\* A step that leaves the escrow alone keeps its invariant.
LEMMA EscrowQuiet == ASSUME EscrowInv, UNCHANGED escrowVars PROVE EscrowInv'
BY DEF EscrowInv, escrowVars, EscrowTypeOK, DepositInv, FundedInv, Funding, At

\* The handlers before the decision keep the invariant.
LEMMA OpenDisputeKeeps ==
  ASSUME DisputeInv, NEW h \in Call, OpenDispute(h)
  PROVE  DisputeInv'
<1> USE DEF DisputeInv
<1>1. EscrowInv' /\ UNCHANGED call
  BY EscrowQuiet DEF OpenDispute, escrowVars
<1>2. /\ dispute.status = "none" /\ dispute' = [dispute EXCEPT !.status = "open"]
      /\ decisions' = decisions /\ paid' = paid
      /\ requests' \in 0..MaxRequests
  BY DisputeAssumption DEF OpenDispute, Receive, RowTypes
<1>3. dispute' \in Dispute /\ dispute'.status = "open" /\ dispute'.resolution = dispute.resolution
  BY <1>2 DEF RowTypes, Dispute, Stage
<1>4. PICK local \in HandlerState : handler' = [handler EXCEPT ![h] = local] /\ local.pc = "flag"
  BY HandlerTypes DEF OpenDispute
<1>5. RowTypes'
  BY <1>2, <1>3, <1>4 DEF RowTypes
<1>6. handler'[h] = local /\ \A g \in Call : g # h => handler'[g] = handler[g]
  BY <1>4 DEF RowTypes
<1>7. ~Deciding(h)' /\ ~Executing(h)' /\ ~HandlerAt(h, "write")'
  BY <1>4, <1>6 DEF Deciding, Executing, HandlerAt
<1>8. \A g \in Call : g # h => /\ Deciding(g)' = Deciding(g) /\ Executing(g)' = Executing(g)
                               /\ HandlerAt(g, "write")' = HandlerAt(g, "write")
                               /\ ExecutionOK(g)' = ExecutionOK(g)
  BY <1>1, <1>2, <1>3, <1>6 DEF Deciding, Executing, HandlerAt, ExecutionOK, LegInHand
<1>9. Undecided => Undecided'
  BY <1>2, <1>3, <1>7, <1>8 DEF Undecided
<1>10. BuyerFirst' /\ ResolvedIsPaid'
  BY <1>2, <1>3 DEF DecisionInv, BuyerFirst, ResolvedIsPaid
<1>11. \A g \in Call : HandlerAt(g, "write")' => handler'[g].status # "resolved"
  BY <1>6, <1>7, <1>8 DEF DecisionInv
<1> QED BY <1>1, <1>2, <1>5, <1>7, <1>8, <1>9, <1>10, <1>11 DEF DecisionInv

\* So does an update that checks nothing: it never writes a decision.
LEMMA WriteStageKeeps ==
  ASSUME DisputeInv, NEW h \in Call, WriteStage(h)
  PROVE  DisputeInv'
<1> USE DEF DisputeInv
<1>1. EscrowInv' /\ UNCHANGED call
  BY EscrowQuiet DEF WriteStage, escrowVars
<1>2. /\ dispute' = [dispute EXCEPT !.status = handler[h].status]
      /\ decisions' = decisions /\ paid' = paid /\ requests' = requests
      /\ handler' = [handler EXCEPT ![h] = IdleHandler]
      /\ handler[h].status \in Stage \ {"decided", "resolved"}
  BY DEF WriteStage, HandlerEnds, RowTypes, DecisionInv, HandlerState
<1>3. dispute' \in Dispute /\ dispute'.status \notin {"decided", "resolved"}
      /\ dispute'.resolution = dispute.resolution
  BY <1>2 DEF RowTypes, Dispute
<1>4. RowTypes'
  BY <1>2, <1>3, HandlerTypes DEF RowTypes
<1>5. handler'[h] = IdleHandler /\ \A g \in Call : g # h => handler'[g] = handler[g]
  BY <1>2 DEF RowTypes
<1>6. ~Deciding(h)' /\ ~Executing(h)' /\ ~HandlerAt(h, "write")'
  BY <1>5, HandlerTypes DEF Deciding, Executing, HandlerAt
<1>7. \A g \in Call : g # h => /\ Deciding(g)' = Deciding(g) /\ Executing(g)' = Executing(g)
                               /\ HandlerAt(g, "write")' = HandlerAt(g, "write")
                               /\ ExecutionOK(g)' = ExecutionOK(g)
  BY <1>1, <1>2, <1>3, <1>5 DEF Deciding, Executing, HandlerAt, ExecutionOK, LegInHand
<1>8. Undecided => Undecided'
  BY <1>2, <1>3, <1>6, <1>7 DEF Undecided
<1>9. BuyerFirst' /\ ResolvedIsPaid'
  BY <1>2, <1>3 DEF DecisionInv, BuyerFirst, ResolvedIsPaid
<1>10. \A g \in Call : HandlerAt(g, "write")' => handler'[g].status # "resolved"
  BY <1>5, <1>6, <1>7 DEF DecisionInv
<1> QED BY <1>1, <1>2, <1>4, <1>6, <1>7, <1>8, <1>9, <1>10 DEF DecisionInv

\* The flag that openDispute() puts on the escrow keeps the invariant.
LEMMA FlagEscrowKeeps ==
  ASSUME DisputeInv, NEW h \in Call, FlagEscrow(h)
  PROVE  DisputeInv'
<1> USE DEF DisputeInv
<1>1. /\ Begin(h, "dispute", 0) /\ HandlerEnds(h)
      /\ budget' = budget /\ dispute' = dispute /\ requests' = requests
      /\ decisions' = decisions /\ paid' = paid
  BY DEF FlagEscrow
<1>2. "dispute" \in Op /\ 0 \in 0..Total /\ EscrowTypeOK /\ budget' \in [Kinds -> Nat]
  BY <1>1, EscrowAssumption DEF Op, Full, EscrowInv, EscrowTypeOK
<1>3. EscrowInv'
  BY <1>1, <1>2, BeginKeeps
<1>4. \A g \in Call : g # h => call'[g] = call[g]
  BY <1>1, <1>2, BeginFacts, OthersKeep
<1>5. requests' \in 0..MaxRequests
  BY <1>1 DEF RowTypes
<1> QED BY <1>1, <1>3, <1>4, <1>5, HandlerTypes, HandlerQuiet

\* A handler that reads, ends or fails keeps the invariant.
LEMMA ReadStageKeeps ==
  ASSUME DisputeInv, NEW h \in Call, ReadStage(h)
  PROVE  DisputeInv'
<1> USE DEF DisputeInv
<1>1. EscrowInv' /\ UNCHANGED call /\ dispute' = dispute /\ decisions' = decisions /\ paid' = paid
  BY EscrowQuiet DEF ReadStage, escrowVars
<1>2. requests' \in 0..MaxRequests
  BY DisputeAssumption DEF ReadStage, Receive, RowTypes
<1>3. PICK stage \in NextStage :
        handler' = [handler EXCEPT ![h].pc = "write", ![h].status = stage]
  BY DEF ReadStage
<1>4. stage \in Stage /\ stage \notin {"decided", "resolved"}
  BY <1>3 DEF NextStage, Stage
<1> DEFINE local == [handler[h] EXCEPT !.pc = "write", !.status = stage]
<1>5. handler[h] \in HandlerState
  BY DEF RowTypes
<1>6. local \in HandlerState /\ local.pc = "write" /\ local.status = stage
  BY <1>4, <1>5 DEF HandlerState
<1>7. handler' = [handler EXCEPT ![h] = local]
  BY <1>3, <1>5 DEF RowTypes
<1> HIDE DEF local
<1> QED BY <1>1, <1>2, <1>4, <1>6, <1>7, HandlerQuiet

\* A handler that only ends keeps the invariant.
LEMMA EndsKeeps ==
  ASSUME DisputeInv, NEW h \in Call, HandlerEnds(h), UNCHANGED <<escrowVars, dispute, requests, decisions, paid>>
  PROVE  DisputeInv'
<1> USE DEF DisputeInv
<1>1. /\ EscrowInv' /\ UNCHANGED call /\ dispute' = dispute /\ decisions' = decisions
      /\ paid' = paid /\ requests' \in 0..MaxRequests
  BY EscrowQuiet DEF escrowVars, RowTypes
<1> QED BY <1>1, HandlerTypes, HandlerQuiet

\* So does the retry route, which looks at the status only later.
LEMMA RetryDecisionKeeps ==
  ASSUME DisputeInv, NEW h \in Call, RetryDecision(h)
  PROVE  DisputeInv'
<1> USE DEF DisputeInv
<1>1. EscrowInv' /\ UNCHANGED call /\ dispute' = dispute /\ decisions' = decisions /\ paid' = paid
  BY EscrowQuiet DEF RetryDecision, escrowVars
<1>2. requests' \in 0..MaxRequests
  BY DisputeAssumption DEF RetryDecision, Receive, RowTypes
<1>3. PICK local \in HandlerState : handler' = [handler EXCEPT ![h] = local] /\ local.pc = "execute"
  BY HandlerTypes DEF RetryDecision
<1> QED BY <1>1, <1>2, <1>3, HandlerQuiet

\* Faults and crashes keep the invariant, whatever the handler was about to do.
LEMMA HandlerFailsKeeps ==
  ASSUME DisputeInv, NEW h \in Call, HandlerFails(h)
  PROVE  DisputeInv'
<1> USE DEF DisputeInv
<1>1. /\ UNCHANGED <<record, chain, call>> /\ dispute' = dispute /\ decisions' = decisions
      /\ paid' = paid /\ requests' \in 0..MaxRequests
  BY DEF HandlerFails, RowTypes
<1>2. budget' \in [Kinds -> Nat] /\ budget'.networkFaults = budget.networkFaults
  BY SpendFacts DEF HandlerFails, EscrowInv, Kinds
<1>3. EscrowInv'
  BY <1>1, <1>2 DEF EscrowInv, EscrowTypeOK, DepositInv, FundedInv, Funding, At
<1> QED BY <1>1, <1>3, HandlerTypes, HandlerQuiet DEF HandlerFails

\* See HandlerFailsKeeps.
LEMMA HandlerCrashKeeps ==
  ASSUME DisputeInv, NEW h \in Call, HandlerCrash(h)
  PROVE  DisputeInv'
<1> USE DEF DisputeInv
<1>1. EscrowInv'
  BY CrashKeeps DEF HandlerCrash
<1>2. \A g \in Call : g # h => call'[g] = call[g]
  BY DEF HandlerCrash, Crash, EscrowInv, EscrowTypeOK
<1>3. requests' \in 0..MaxRequests
  BY DEF HandlerCrash, RowTypes
<1> QED BY <1>1, <1>2, <1>3, HandlerTypes, HandlerQuiet DEF HandlerCrash

\* A request to the coordinator itself runs in a slot no handler waits in.
LEMMA OtherRequestKeeps ==
  ASSUME DisputeInv, NEW h \in Call, OtherRequest(h)
  PROVE  DisputeInv'
<1> USE DEF DisputeInv
<1>1. /\ handler[h].pc = "idle" /\ handler' = handler /\ dispute' = dispute
      /\ decisions' = decisions /\ paid' = paid /\ requests' = requests
  BY DEF OtherRequest, HandlerAt, disputeVars
<1>2. PICK op \in Op, amount \in 0..Total : Begin(h, op, amount)
  BY EscrowAssumption DEF OtherRequest, Request
<1>3. budget' \in [Kinds -> Nat] /\ budget'.networkFaults = budget.networkFaults /\ EscrowTypeOK
  BY SpendFacts DEF OtherRequest, Request, EscrowInv, Kinds
<1>4. EscrowInv'
  BY <1>2, <1>3, BeginKeeps
<1>5. \A g \in Call : g # h => call'[g] = call[g]
  BY <1>2, <1>3, BeginFacts, OthersKeep
<1>6. handler[h] \in HandlerState /\ handler' = [handler EXCEPT ![h] = handler[h]]
      /\ requests' \in 0..MaxRequests
  BY <1>1 DEF RowTypes
<1> QED BY <1>1, <1>4, <1>5, <1>6, HandlerQuiet

\* The first decision starts on a dispute of which nothing is decided or paid.
LEMMA SubmitDecisionKeeps ==
  ASSUME DisputeInv, NEW h \in Call, SubmitDecision(h)
  PROVE  DisputeInv'
<1> USE DEF DisputeInv
<1>1. /\ EscrowInv' /\ UNCHANGED call /\ dispute' = dispute /\ paid' = paid
  BY EscrowQuiet DEF SubmitDecision, escrowVars
<1>2. /\ decisions \in Nat /\ decisions' = decisions + 1
      /\ decisions' \in 0..MaxDecisions /\ requests' \in 0..MaxRequests
  BY DisputeAssumption DEF SubmitDecision, Receive, RowTypes
<1>3. PICK local \in HandlerState : handler' = [handler EXCEPT ![h] = local] /\ local.pc = "balance"
  BY HandlerTypes DEF SubmitDecision
<1>4. RowTypes'
  BY <1>1, <1>2, <1>3 DEF RowTypes
<1>5. handler'[h] = local /\ \A g \in Call : g # h => handler'[g] = handler[g]
  BY <1>3 DEF RowTypes
<1>6. ~Executing(h)' /\ ~HandlerAt(h, "write")'
  BY <1>3, <1>5 DEF Executing, HandlerAt
<1>7. \A g \in Call : g # h => /\ Deciding(g)' = Deciding(g) /\ Executing(g)' = Executing(g)
                               /\ HandlerAt(g, "write")' = HandlerAt(g, "write")
  BY <1>5 DEF Deciding, Executing, HandlerAt
<1>8. \A g \in Call : HandlerAt(g, "write")' => handler'[g].status # "resolved"
  BY <1>5, <1>6, <1>7 DEF DecisionInv
<1>9. decisions' = 1 => /\ Undecided' /\ \A g \in Call : ~Executing(g)'
                        /\ \A g \in Call : Deciding(g)' => g = h
  <2>1. SUFFICES ASSUME decisions = 0 PROVE /\ Undecided' /\ \A g \in Call : ~Executing(g)'
                                           /\ \A g \in Call : Deciding(g)' => g = h
    BY <1>2
  <2>2. Undecided /\ \A g \in Call : ~Deciding(g)
    BY <2>1 DEF DecisionInv
  <2> QED BY <1>1, <1>6, <1>7, <2>2 DEF Undecided
<1>10. decisions' # 0 /\ BuyerFirst' /\ ResolvedIsPaid'
  <2>1. decisions' = 1 => paid'.seller = 0 /\ dispute'.status # "resolved"
    BY <1>9 DEF Undecided
  <2> QED BY <1>2, <2>1 DEF BuyerFirst, ResolvedIsPaid
<1> QED BY <1>1, <1>4, <1>8, <1>9, <1>10 DEF DecisionInv

\* The validation of the amounts goes on with the decision, or ends.
LEMMA ReadBalanceKeeps ==
  ASSUME DisputeInv, NEW h \in Call, ReadBalance(h)
  PROVE  DisputeInv'
<1> USE DEF DisputeInv
<1>1. CASE HandlerEnds(h)
  BY <1>1, EndsKeeps DEF ReadBalance
<1>2. CASE ~HandlerEnds(h)
  <2>1. /\ EscrowInv' /\ UNCHANGED call /\ dispute' = dispute /\ paid' = paid
        /\ decisions' = decisions /\ requests' = requests
    BY EscrowQuiet DEF ReadBalance, escrowVars
  <2>2. PICK split \in Split :
          handler' = [handler EXCEPT ![h].pc = "write", ![h].status = "decided",
                                     ![h].resolution = split]
    BY <1>2 DEF ReadBalance
  <2> DEFINE local == [handler[h] EXCEPT !.pc = "write", !.status = "decided", !.resolution = split]
  <2>3. handler[h] \in HandlerState /\ Deciding(h) /\ ~Executing(h)
    BY DEF RowTypes, ReadBalance, HandlerAt, Deciding, Executing
  <2>4. local \in HandlerState /\ local.pc = "write" /\ local.status = "decided"
    BY <2>2, <2>3 DEF HandlerState, Stage
  <2>5. handler' = [handler EXCEPT ![h] = local]
    BY <2>2, <2>3 DEF RowTypes
  <2> HIDE DEF local
  <2>6. RowTypes'
    BY <2>1, <2>4, <2>5 DEF RowTypes
  <2>7. handler'[h] = local /\ \A g \in Call : g # h => handler'[g] = handler[g]
    BY <2>5 DEF RowTypes
  <2>8. ~Executing(h)' /\ Deciding(h)' /\ handler'[h].status # "resolved"
    BY <2>4, <2>7 DEF Executing, Deciding, HandlerAt
  <2>9. \A g \in Call : g # h => /\ Deciding(g)' = Deciding(g) /\ Executing(g)' = Executing(g)
                                 /\ HandlerAt(g, "write")' = HandlerAt(g, "write")
                                 /\ ExecutionOK(g)' = ExecutionOK(g)
    BY <2>1, <2>7 DEF Deciding, Executing, HandlerAt, ExecutionOK, LegInHand
  <2>10. \A g \in Call : HandlerAt(g, "write")' => handler'[g].status # "resolved"
    BY <2>7, <2>8, <2>9 DEF DecisionInv
  <2>11. Undecided => Undecided'
    BY <2>1, <2>8, <2>9 DEF Undecided
  <2>12. BuyerFirst' /\ ResolvedIsPaid'
    BY <2>1 DEF DecisionInv, BuyerFirst, ResolvedIsPaid
  <2> QED BY <2>1, <2>3, <2>6, <2>8, <2>9, <2>10, <2>11, <2>12 DEF DecisionInv
<1> QED BY <1>1, <1>2

\* The decision is written while nothing is being executed.
LEMMA WriteDecisionKeeps ==
  ASSUME DisputeInv, NEW h \in Call, WriteDecision(h)
  PROVE  DisputeInv'
<1> USE DEF DisputeInv
<1>1. /\ EscrowInv' /\ UNCHANGED call /\ paid' = paid
      /\ decisions' = decisions /\ requests' = requests
      /\ dispute' = [status |-> "decided", resolution |-> handler[h].resolution]
  BY EscrowQuiet DEF WriteDecision, escrowVars
<1>2. handler[h].resolution \in Split /\ Deciding(h)
  BY DEF RowTypes, HandlerState, WriteDecision, Deciding
<1>3. dispute' \in Dispute /\ dispute'.status = "decided"
  BY <1>1, <1>2 DEF Dispute, Stage
<1>4. PICK local \in HandlerState : handler' = [handler EXCEPT ![h] = local] /\ local.pc = "execute"
  BY HandlerTypes DEF WriteDecision
<1>5. RowTypes'
  BY <1>1, <1>3, <1>4 DEF RowTypes
<1>6. handler'[h] = local /\ \A g \in Call : g # h => handler'[g] = handler[g]
  BY <1>4 DEF RowTypes
<1>7. ~Deciding(h)' /\ ~Executing(h)' /\ ~HandlerAt(h, "write")'
  BY <1>4, <1>6 DEF Deciding, Executing, HandlerAt
<1>8. \A g \in Call : g # h => /\ Deciding(g)' = Deciding(g) /\ Executing(g)' = Executing(g)
                               /\ HandlerAt(g, "write")' = HandlerAt(g, "write")
  BY <1>6 DEF Deciding, Executing, HandlerAt
<1>9. \A g \in Call : HandlerAt(g, "write")' => handler'[g].status # "resolved"
  BY <1>6, <1>7, <1>8 DEF DecisionInv
<1>10. decisions' # 0
  BY <1>1, <1>2 DEF DecisionInv
<1>11. decisions' = 1 => /\ Undecided /\ \A g \in Call : ~Executing(g)' /\ ~Deciding(g)'
  BY <1>1, <1>2, <1>7, <1>8 DEF DecisionInv, Undecided
<1>12. BuyerFirst' /\ ResolvedIsPaid'
  <2>1. decisions' = 1 => paid'.seller = 0
    BY <1>1, <1>11 DEF Undecided
  <2> QED BY <1>3, <2>1 DEF BuyerFirst, ResolvedIsPaid
<1> QED BY <1>1, <1>5, <1>9, <1>10, <1>11, <1>12 DEF DecisionInv

\* An execution takes its amounts from the row it has just read.
LEMMA ExecuteDecisionKeeps ==
  ASSUME DisputeInv, NEW h \in Call, ExecuteDecision(h)
  PROVE  DisputeInv'
<1> USE DEF DisputeInv
<1>1. CASE HandlerEnds(h)
  BY <1>1, EndsKeeps DEF ExecuteDecision
<1>2. CASE ~HandlerEnds(h)
  <2>1. /\ EscrowInv' /\ UNCHANGED call /\ dispute' = dispute /\ paid' = paid
        /\ decisions' = decisions /\ requests' = requests /\ dispute.status = "decided"
        /\ handler' = [handler EXCEPT ![h].pc = "buyerLeg", ![h].resolution = dispute.resolution]
    BY <1>2, EscrowQuiet DEF ExecuteDecision, escrowVars
  <2> DEFINE local == [handler[h] EXCEPT !.pc = "buyerLeg", !.resolution = dispute.resolution]
  <2>2. handler[h] \in HandlerState /\ dispute.resolution \in Split
    BY DEF RowTypes, Dispute
  <2>3. local \in HandlerState /\ local.pc = "buyerLeg" /\ local.resolution = dispute.resolution
    BY <2>2 DEF HandlerState
  <2>4. handler' = [handler EXCEPT ![h] = local] /\ handler'[h] = local
    BY <2>1, <2>2 DEF RowTypes
  <2> HIDE DEF local
  <2>5. ExecutionOK(h)'
    BY <2>1, <2>3, <2>4 DEF ExecutionOK, HandlerAt
  <2> QED BY <2>1, <2>3, <2>4, <2>5, HandlerExecutes
<1> QED BY <1>1, <1>2

\* The dispute is resolved after both legs.
LEMMA ResolveDisputeKeeps ==
  ASSUME DisputeInv, NEW h \in Call, ResolveDispute(h)
  PROVE  DisputeInv'
<1> USE DEF DisputeInv
<1>1. /\ EscrowInv' /\ UNCHANGED call /\ paid' = paid
      /\ decisions' = decisions /\ requests' = requests
      /\ dispute' = [dispute EXCEPT !.status = "resolved"]
      /\ handler' = [handler EXCEPT ![h] = IdleHandler]
  BY EscrowQuiet DEF ResolveDispute, escrowVars, HandlerEnds
<1>2. handler[h].pc = "resolve" /\ Executing(h)
  BY DEF ResolveDispute, HandlerAt, Executing
<1>3. dispute' \in Dispute /\ dispute'.resolution = dispute.resolution
  BY <1>1 DEF RowTypes, Dispute, Stage
<1>4. RowTypes'
  BY <1>1, <1>3, HandlerTypes DEF RowTypes
<1>5. handler'[h] = IdleHandler /\ \A g \in Call : g # h => handler'[g] = handler[g]
  BY <1>1 DEF RowTypes
<1>6. ~Deciding(h)' /\ ~Executing(h)' /\ ~HandlerAt(h, "write")'
  BY <1>5, HandlerTypes DEF Deciding, Executing, HandlerAt
<1>7. \A g \in Call : g # h => /\ Deciding(g)' = Deciding(g) /\ Executing(g)' = Executing(g)
                               /\ HandlerAt(g, "write")' = HandlerAt(g, "write")
                               /\ ExecutionOK(g)' = ExecutionOK(g)
  BY <1>1, <1>3, <1>5 DEF Deciding, Executing, HandlerAt, ExecutionOK, LegInHand
<1>8. \A g \in Call : HandlerAt(g, "write")' => handler'[g].status # "resolved"
  BY <1>5, <1>6, <1>7 DEF DecisionInv
<1>9. decisions # 0 /\ (decisions = 1 => \A g \in Call : ~Deciding(g)')
  BY <1>2, <1>6, <1>7 DEF DecisionInv, Undecided
<1>10. decisions = 1 => paid.buyer >= dispute.resolution.buyer
                          /\ paid.seller >= dispute.resolution.seller
  BY <1>2 DEF DecisionInv, ExecutionOK, HandlerAt
<1>11. BuyerFirst' /\ ResolvedIsPaid'
  BY <1>1, <1>3, <1>10 DEF BuyerFirst, ResolvedIsPaid
<1> QED BY <1>1, <1>4, <1>6, <1>7, <1>8, <1>9, <1>11 DEF DecisionInv

\* A leg that begins has paid nothing yet, and it holds the share it pays.
LEMMA LegBegins ==
  ASSUME EscrowTypeOK, NEW h \in Call, NEW op \in Partial, NEW share \in 0..Total,
         Begin(h, op, share)
  PROVE  /\ call'[h].op = op /\ call'[h].pc \in {"submit", "done"}
         /\ call'[h].pc = "submit" => call'[h].amount = share
         /\ call'[h].result # "ok"
         /\ \A g \in Call : g # h => call'[g] = call[g]
<1>1. op \in Op /\ op \notin Full /\ op # "fund"
  BY DEF Op, Full, Partial
<1> QED BY <1>1, BeginFacts, OthersKeep

\* Either leg keeps the escrow's invariant and the rest of the row.
LEMMA LegFacts ==
  ASSUME DisputeInv, NEW h \in Call, NEW op \in Partial, NEW share \in 0..Total,
         NEW wait \in {"buyerWait", "sellerWait"}, NEW next \in {"sellerLeg", "resolve"},
         Leg(h, op, share, wait, next)
  PROVE  /\ EscrowInv'
         /\ \A g \in Call : g # h => call'[g] = call[g]
         /\ dispute' = dispute /\ requests' = requests /\ decisions' = decisions /\ paid' = paid
         /\ \E local \in HandlerState :
              /\ handler' = [handler EXCEPT ![h] = local] /\ handler'[h] = local
              /\ local.resolution = handler[h].resolution
              /\ \/ local.pc = wait /\ Begin(h, op, share)
                 \/ local.pc = next /\ share = 0
<1> USE DEF DisputeInv
<1>1. /\ dispute' = dispute /\ requests' = requests /\ decisions' = decisions /\ paid' = paid
      /\ budget' = budget /\ budget' \in [Kinds -> Nat] /\ EscrowTypeOK
  BY DEF Leg, EscrowInv, EscrowTypeOK
<1>2. CASE Begin(h, op, share) /\ HandlerGoto(h, wait)
  <2>1. op \in Op
    BY DEF Op, Partial
  <2>2. EscrowInv'
    BY <1>1, <1>2, <2>1, BeginKeeps
  <2>3. \A g \in Call : g # h => call'[g] = call[g]
    BY <1>1, <1>2, LegBegins
  <2>4. PICK local \in HandlerState :
          /\ handler' = [handler EXCEPT ![h] = local]
          /\ local.pc = wait /\ local.resolution = handler[h].resolution
    BY <1>2, HandlerTypes
  <2>5. handler'[h] = local
    BY <2>4 DEF RowTypes
  <2> QED BY <1>1, <1>2, <2>2, <2>3, <2>4, <2>5
<1>3. CASE share = 0 /\ HandlerGoto(h, next) /\ UNCHANGED <<record, chain, call>>
  <2>1. EscrowInv' /\ UNCHANGED call
    BY <1>1, <1>3, EscrowQuiet DEF escrowVars
  <2>2. PICK local \in HandlerState :
          /\ handler' = [handler EXCEPT ![h] = local]
          /\ local.pc = next /\ local.resolution = handler[h].resolution
    BY <1>3, HandlerTypes
  <2>3. handler'[h] = local
    BY <2>2 DEF RowTypes
  <2> QED BY <1>1, <1>3, <2>1, <2>2, <2>3
<1> QED BY <1>2, <1>3 DEF Leg

\* The buyer's leg.
LEMMA BuyerLegKeeps ==
  ASSUME DisputeInv, NEW h \in Call, BuyerLeg(h)
  PROVE  DisputeInv'
<1> USE DEF DisputeInv
<1> DEFINE share == handler[h].resolution.buyer
<1>1. handler[h].pc = "buyerLeg" /\ Executing(h) /\ share \in 0..Total /\ EscrowTypeOK
  BY DEF BuyerLeg, HandlerAt, Executing, RowTypes, HandlerState, Split, EscrowInv
<1>2. Leg(h, "partialRefund", share, "buyerWait", "sellerLeg") /\ "partialRefund" \in Partial
  BY DEF BuyerLeg, Partial
<1>3. /\ EscrowInv' /\ \A g \in Call : g # h => call'[g] = call[g]
      /\ dispute' = dispute /\ requests' = requests /\ decisions' = decisions /\ paid' = paid
  BY <1>1, <1>2, LegFacts
<1>4. PICK local \in HandlerState :
        /\ handler' = [handler EXCEPT ![h] = local] /\ handler'[h] = local
        /\ local.resolution = handler[h].resolution
        /\ \/ local.pc = "buyerWait" /\ Begin(h, "partialRefund", share)
           \/ local.pc = "sellerLeg" /\ share = 0
  BY <1>1, <1>2, LegFacts
<1>5. decisions = 1 => ExecutionOK(h)'
  <2>1. decisions = 1 => handler'[h].resolution = dispute'.resolution
    BY <1>1, <1>3, <1>4 DEF DecisionInv, ExecutionOK
  <2>2. CASE local.pc = "buyerWait" /\ Begin(h, "partialRefund", share)
    <3>1. /\ call'[h].op = "partialRefund" /\ call'[h].pc \in {"submit", "done"}
          /\ call'[h].pc = "submit" => call'[h].amount = share
          /\ call'[h].result # "ok"
      BY <1>1, <1>2, <2>2, LegBegins
    <3> QED BY <1>4, <2>1, <2>2, <3>1 DEF ExecutionOK, LegInHand, HandlerAt
  <2>3. CASE local.pc = "sellerLeg" /\ share = 0
    <3>1. paid'.buyer >= handler'[h].resolution.buyer
      BY <1>3, <1>4, <2>3 DEF RowTypes
    <3> QED BY <1>4, <2>1, <2>3, <3>1 DEF ExecutionOK, HandlerAt
  <2> QED BY <1>4, <2>2, <2>3
<1> QED BY <1>1, <1>3, <1>4, <1>5, HandlerExecutes

\* The seller's leg, which starts when the buyer is paid.
LEMMA SellerLegKeeps ==
  ASSUME DisputeInv, NEW h \in Call, SellerLeg(h)
  PROVE  DisputeInv'
<1> USE DEF DisputeInv
<1> DEFINE share == handler[h].resolution.seller
<1>1. handler[h].pc = "sellerLeg" /\ Executing(h) /\ share \in 0..Total /\ EscrowTypeOK
  BY DEF SellerLeg, HandlerAt, Executing, RowTypes, HandlerState, Split, EscrowInv
<1>2. Leg(h, "partialRelease", share, "sellerWait", "resolve") /\ "partialRelease" \in Partial
  BY DEF SellerLeg, Partial
<1>3. /\ EscrowInv' /\ \A g \in Call : g # h => call'[g] = call[g]
      /\ dispute' = dispute /\ requests' = requests /\ decisions' = decisions /\ paid' = paid
  BY <1>1, <1>2, LegFacts
<1>4. PICK local \in HandlerState :
        /\ handler' = [handler EXCEPT ![h] = local] /\ handler'[h] = local
        /\ local.resolution = handler[h].resolution
        /\ \/ local.pc = "sellerWait" /\ Begin(h, "partialRelease", share)
           \/ local.pc = "resolve" /\ share = 0
  BY <1>1, <1>2, LegFacts
<1>5. decisions = 1 => ExecutionOK(h)'
  <2>1. decisions = 1 => /\ handler'[h].resolution = dispute'.resolution
                         /\ paid'.buyer >= handler'[h].resolution.buyer
    BY <1>1, <1>3, <1>4 DEF DecisionInv, ExecutionOK
  <2>2. CASE local.pc = "sellerWait" /\ Begin(h, "partialRelease", share)
    <3>1. /\ call'[h].op = "partialRelease" /\ call'[h].pc \in {"submit", "done"}
          /\ call'[h].pc = "submit" => call'[h].amount = share
          /\ call'[h].result # "ok"
      BY <1>1, <1>2, <2>2, LegBegins
    <3> QED BY <1>4, <2>1, <2>2, <3>1 DEF ExecutionOK, LegInHand, HandlerAt
  <2>3. CASE local.pc = "resolve" /\ share = 0
    <3>1. paid'.seller >= handler'[h].resolution.seller
      BY <1>3, <1>4, <2>3 DEF RowTypes
    <3> QED BY <1>4, <2>1, <2>3, <3>1 DEF ExecutionOK, HandlerAt
  <2> QED BY <1>4, <2>2, <2>3
<1> QED BY <1>1, <1>3, <1>4, <1>5, HandlerExecutes

\* An answer moves the execution on only if it says the leg is paid.
LEMMA LegAnsweredKeeps ==
  ASSUME DisputeInv, NEW h \in Call, LegAnswered(h)
  PROVE  DisputeInv'
<1> USE DEF DisputeInv
<1>1. CASE call[h].result # "ok"
  BY <1>1, EndsKeeps DEF LegAnswered
<1>2. CASE call[h].result = "ok"
  <2> DEFINE label == IF HandlerAt(h, "buyerWait") THEN "sellerLeg" ELSE "resolve"
  <2>1. /\ EscrowInv' /\ UNCHANGED call /\ dispute' = dispute /\ paid' = paid
        /\ decisions' = decisions /\ requests' = requests
        /\ handler[h].pc \in {"buyerWait", "sellerWait"} /\ Executing(h)
        /\ HandlerGoto(h, label) /\ label \in {"sellerLeg", "resolve"}
    BY <1>2, EscrowQuiet DEF LegAnswered, escrowVars, Executing
  <2>2. PICK local \in HandlerState :
          /\ handler' = [handler EXCEPT ![h] = local]
          /\ local.pc = label /\ local.resolution = handler[h].resolution
    BY <2>1, HandlerTypes
  <2>3. handler'[h] = local
    BY <2>2 DEF RowTypes
  <2>4. decisions = 1 => ExecutionOK(h)'
    BY <1>2, <2>1, <2>2, <2>3 DEF DecisionInv, ExecutionOK, LegInHand, HandlerAt
  <2> QED BY <2>1, <2>2, <2>4, HandlerExecutes
<1> QED BY <1>1, <1>2

\* What a step of an invocation pays, and how far it gets.
LEMMA StepFacts ==
  ASSUME EscrowTypeOK, NEW c \in Call, Step(c)
  PROVE  /\ \A d \in Call : d # c => call'[d] = call[d]
         /\ call'[c].op = call[c].op
         /\ call'[c].pc \in {"submit", "record", "fail", "done"}
         /\ call'[c].pc \in {"submit", "record"} =>
              /\ call'[c].amount = call[c].amount
              /\ call[c].pc \in {"create", "submit"}
         /\ call'[c].result = "ok" => call[c].pc = "record" \/ call[c].result = "ok"
         /\ chain'.toBuyer - chain.toBuyer \in Nat
         /\ chain'.toSeller - chain.toSeller \in Nat
         /\ call[c].op = "partialRefund" =>
              /\ chain'.toSeller - chain.toSeller = 0
              /\ call'[c].pc = "record" => chain'.toBuyer - chain.toBuyer = call[c].amount
         /\ call[c].op = "partialRelease" /\ call'[c].pc = "record" =>
              chain'.toSeller - chain.toSeller = call[c].amount
<1>1. chain.toBuyer \in Nat /\ chain.toSeller \in Nat
  BY DEF EscrowTypeOK, Chain
<1>2. CASE Submit(c)
  <2> DEFINE op == call[c].op
             amount == call[c].amount
  <2>1. op \in Op /\ amount \in 0..Total /\ amount \in Nat /\ call[c].pc = "submit"
    BY <1>2, EscrowAssumption DEF Submit, At, EscrowTypeOK, CallState
  <2>2. Accepts(op, amount) =>
          /\ ToSeller(op, amount) \in Nat /\ ToBuyer(op, amount) \in Nat
          /\ Executed(op, amount).toSeller = chain.toSeller + ToSeller(op, amount)
          /\ Executed(op, amount).toBuyer = chain.toBuyer + ToBuyer(op, amount)
    BY <2>1, ExecutedFacts DEF Executed
  <2>3. /\ op = "partialRefund" => ToBuyer(op, amount) = amount /\ ToSeller(op, amount) = 0
        /\ op = "partialRelease" => ToSeller(op, amount) = amount
    BY DEF ToBuyer, ToSeller
  <2>4. \A d \in Call : d # c => call'[d] = call[d]
    BY <1>2, SubmitFacts, OthersKeep
  <2> HIDE DEF op, amount
  <2>5. /\ chain' = chain \/ (Accepts(op, amount) /\ chain' = Executed(op, amount))
        /\ call'[c].pc = "record" => Accepts(op, amount) /\ chain' = Executed(op, amount)
        /\ call'[c].op = op /\ call'[c].amount = amount /\ call'[c].result = call[c].result
        /\ call'[c].pc \in {"submit", "record", "fail"}
    BY <1>2, SubmitFacts DEF op, amount
  <2>6. /\ chain'.toBuyer - chain.toBuyer \in Nat
        /\ chain'.toSeller - chain.toSeller \in Nat
        /\ op = "partialRefund" =>
             /\ chain'.toSeller - chain.toSeller = 0
             /\ call'[c].pc = "record" => chain'.toBuyer - chain.toBuyer = amount
        /\ op = "partialRelease" /\ call'[c].pc = "record" =>
             chain'.toSeller - chain.toSeller = amount
    <3>1. CASE chain' = Executed(op, amount) /\ Accepts(op, amount)
      BY <1>1, <2>1, <2>2, <2>3, <3>1
    <3>2. CASE chain' = chain /\ call'[c].pc # "record"
      BY <1>1, <3>2
    <3> QED BY <2>5, <3>1, <3>2
  <2> QED BY <2>1, <2>4, <2>5, <2>6 DEF op, amount
<1>3. CASE CreateRecord(c)
  BY <1>1, <1>3, GotoFacts, ReturnFacts, OthersKeep DEF CreateRecord, At
<1>4. CASE RejectedEarly(c)
  BY <1>1, <1>4, ReturnFacts, OthersKeep DEF RejectedEarly
<1>5. CASE RecordSuccess(c)
  BY <1>1, <1>5, GotoFacts, ReturnFacts, OthersKeep DEF RecordSuccess, At
<1>6. CASE RecordFailure(c)
  BY <1>1, <1>6, ReturnFacts, OthersKeep DEF RecordFailure
<1> QED BY <1>2, <1>3, <1>4, <1>5, <1>6 DEF Step

\* A step of the coordinator only ever adds to what the legs have paid, and a
\* leg that can answer "ok" has added its share.
LEMMA CallStepKeeps ==
  ASSUME DisputeInv, NEW c \in Call, CallStep(c)
  PROVE  DisputeInv'
<1> USE DEF DisputeInv
<1>1. /\ Step(c) /\ EscrowInv' /\ EscrowTypeOK
      /\ dispute' = dispute /\ handler' = handler /\ requests' = requests /\ decisions' = decisions
  BY StepKeeps DEF CallStep, EscrowInv
<1> DEFINE toBuyer == chain'.toBuyer - chain.toBuyer
           toSeller == chain'.toSeller - chain.toSeller
<1>2. toBuyer \in Nat /\ toSeller \in Nat /\ paid.buyer \in Nat /\ paid.seller \in Nat
      /\ paid \in [buyer : Nat, seller : Nat]
  BY <1>1, StepFacts DEF RowTypes
<1>3. /\ Waiting(c) => paid' = [buyer |-> paid.buyer + toBuyer, seller |-> paid.seller + toSeller]
      /\ ~Waiting(c) => paid' = paid
  BY DEF CallStep, Waiting
<1>4. call[c].op = "partialRefund" =>
        toSeller = 0 /\ (call'[c].pc = "record" => toBuyer = call[c].amount)
  BY <1>1, StepFacts
<1>5. call[c].op = "partialRelease" /\ call'[c].pc = "record" => toSeller = call[c].amount
  BY <1>1, StepFacts
<1>6. /\ call'[c].op = call[c].op
      /\ call'[c].pc \in {"submit", "record", "fail", "done"}
      /\ call'[c].pc \in {"submit", "record"} =>
           call'[c].amount = call[c].amount /\ call[c].pc \in {"create", "submit"}
      /\ call'[c].result = "ok" => call[c].pc = "record" \/ call[c].result = "ok"
      /\ \A d \in Call : d # c => call'[d] = call[d]
  BY <1>1, StepFacts
<1> HIDE DEF toBuyer, toSeller
<1>7. /\ paid' \in [buyer : Nat, seller : Nat]
      /\ paid'.buyer >= paid.buyer /\ paid'.seller >= paid.seller
      /\ paid'.buyer \in Nat /\ paid'.seller \in Nat
      /\ Waiting(c) => paid'.buyer = paid.buyer + toBuyer /\ paid'.seller = paid.seller + toSeller
  BY <1>2, <1>3
<1>8. RowTypes'
  BY <1>1, <1>7 DEF RowTypes
<1>9. dispute.resolution.buyer \in Nat /\ dispute.resolution.seller \in Nat
  BY EscrowAssumption DEF RowTypes, Dispute, Split
<1>10. \A h \in Call : Deciding(h)' = Deciding(h) /\ Executing(h)' = Executing(h)
  BY <1>1 DEF Deciding, Executing, HandlerAt
<1>11. Undecided => Undecided'
  BY <1>1, <1>3, <1>10 DEF Undecided, Executing, Waiting
<1>12. ASSUME NEW h \in Call, ExecutionOK(h), Executing(h) PROVE ExecutionOK(h)'
  <2> DEFINE split == dispute.resolution
  <2>1. /\ handler'[h].resolution = split /\ dispute'.resolution = split
        /\ handler[h].resolution = split
    BY <1>1, <1>12 DEF ExecutionOK
  <2>2. /\ handler[h].pc \in {"sellerLeg", "sellerWait", "resolve"} => paid'.buyer >= split.buyer
        /\ HandlerAt(h, "resolve") => paid'.seller >= split.seller
    BY <1>2, <1>7, <1>9, <1>12, <2>1 DEF ExecutionOK
  <2>3. CASE h # c
    <3>1. call'[h] = call[h]
      BY <1>6, <2>3
    <3>2. /\ paid.buyer >= split.buyer => paid'.buyer >= split.buyer
          /\ paid.seller >= split.seller => paid'.seller >= split.seller
      BY <1>2, <1>7, <1>9
    <3> QED BY <1>1, <1>12, <2>1, <2>2, <3>1, <3>2 DEF ExecutionOK, LegInHand, HandlerAt
  <2>4. CASE h = c /\ HandlerAt(c, "buyerWait")
    <3>1. LegInHand(c, "partialRefund", split.buyer, paid.buyer) /\ Waiting(c)
      BY <1>12, <2>1, <2>4 DEF ExecutionOK, Waiting, HandlerAt
    <3>2. call'[c].pc = "record" => paid'.buyer >= split.buyer
      BY <1>2, <1>4, <1>6, <1>7, <1>9, <3>1 DEF LegInHand
    <3>3. call'[c].result = "ok" => paid'.buyer >= split.buyer
      BY <1>2, <1>6, <1>7, <1>9, <3>1 DEF LegInHand
    <3> QED BY <1>1, <1>6, <2>1, <2>2, <2>4, <3>1, <3>2, <3>3 DEF ExecutionOK, LegInHand, HandlerAt
  <2>5. CASE h = c /\ HandlerAt(c, "sellerWait")
    <3>1. LegInHand(c, "partialRelease", split.seller, paid.seller) /\ Waiting(c)
      BY <1>12, <2>1, <2>5 DEF ExecutionOK, Waiting, HandlerAt
    <3>2. call'[c].pc = "record" => paid'.seller >= split.seller
      BY <1>2, <1>5, <1>6, <1>7, <1>9, <3>1 DEF LegInHand
    <3>3. call'[c].result = "ok" => paid'.seller >= split.seller
      BY <1>2, <1>6, <1>7, <1>9, <3>1 DEF LegInHand
    <3> QED BY <1>1, <1>6, <2>1, <2>2, <2>5, <3>1, <3>2, <3>3 DEF ExecutionOK, LegInHand, HandlerAt
  <2>6. CASE ~HandlerAt(h, "buyerWait") /\ ~HandlerAt(h, "sellerWait")
    BY <1>1, <2>1, <2>2, <2>6 DEF ExecutionOK, HandlerAt
  <2> QED BY <2>3, <2>4, <2>5, <2>6
<1>13. BuyerFirst'
  <2>1. SUFFICES ASSUME decisions = 1, paid'.seller > 0
                 PROVE  paid'.buyer >= dispute.resolution.buyer
    BY <1>1 DEF BuyerFirst
  <2>2. CASE paid.seller > 0
    BY <1>2, <1>7, <1>9, <2>1, <2>2 DEF DecisionInv, BuyerFirst
  <2>3. CASE paid.seller = 0
    <3>1. Waiting(c) /\ toSeller # 0
      BY <1>2, <1>3, <1>7, <2>1, <2>3
    <3>2. Executing(c)
      BY <3>1 DEF Waiting, Executing
    <3>3. ExecutionOK(c)
      BY <2>1, <3>2 DEF DecisionInv
    <3>4. HandlerAt(c, "sellerWait")
      BY <1>4, <3>1, <3>3 DEF ExecutionOK, LegInHand, Waiting, HandlerAt
    <3>5. paid.buyer >= dispute.resolution.buyer
      BY <3>3, <3>4 DEF ExecutionOK, HandlerAt
    <3> QED BY <1>2, <1>7, <1>9, <3>5
  <2> QED BY <1>2, <2>2, <2>3
<1>14. ResolvedIsPaid'
  BY <1>1, <1>2, <1>7, <1>9 DEF DecisionInv, ResolvedIsPaid
<1>15. \A h \in Call : HandlerAt(h, "write")' => handler'[h].status # "resolved"
  BY <1>1 DEF DecisionInv, HandlerAt
<1> QED BY <1>1, <1>8, <1>10, <1>11, <1>12, <1>13, <1>14, <1>15 DEF DecisionInv
-----------------------------------------------------------------------------
(* The invariant and what it implies.                                      *)

\* Every behaviour keeps the invariant.
THEOREM DisputeInvariant == DisputeSpec => []DisputeInv
<1>1. DisputeInit => DisputeInv
  <2> SUFFICES ASSUME DisputeInit PROVE DisputeInv
    OBVIOUS
  <2>1. /\ record = NoPayment /\ chain = NoEscrow /\ call = [c \in Call |-> IdleCall]
        /\ budget = Limits /\ handler = [c \in Call |-> IdleHandler]
        /\ dispute = [status |-> "none", resolution |-> NoSplit]
        /\ requests = 0 /\ decisions = 0 /\ paid = NoSplit
    BY DEF DisputeInit, EscrowInit
  <2>2. /\ NoPayment \in Payment /\ NoPayment.status = "none" /\ ~NoPayment.known
        /\ NoPayment.tx = {}
    BY DEF NoPayment, Payment
  <2>3. NoEscrow \in Chain /\ NoEscrow.deposits = 0
    BY DEF NoEscrow, Chain
  <2>4. IdleCall \in CallState /\ IdleCall.pc = "idle" /\ IdleCall.op = "fund"
        /\ IdleCall.result = "none"
    BY EscrowAssumption DEF IdleCall, CallState, Op
  <2>5. EscrowTypeOK
    BY <2>1, <2>2, <2>3, <2>4, EscrowAssumption DEF EscrowTypeOK
  <2>6. Limits.networkFaults \in Nat
    BY EscrowAssumption DEF Kinds
  <2>7. DepositInv
    BY <2>1, <2>3, <2>4, <2>6 DEF DepositInv, Funding, At
  <2>8. FundedInv
    BY <2>1, <2>2, <2>4 DEF FundedInv, At
  <2>9. IdleHandler \in HandlerState /\ IdleHandler.pc = "idle"
    BY EscrowAssumption DEF IdleHandler, HandlerState, NoSplit, Split, Stage
  <2>10. /\ NoSplit \in [buyer : Nat, seller : Nat] /\ NoSplit \in Split
         /\ NoSplit.buyer = 0 /\ NoSplit.seller = 0
    BY EscrowAssumption DEF NoSplit, Split
  <2>11. dispute \in Dispute /\ dispute.status = "none"
    BY <2>1, <2>10 DEF Dispute
  <2>12. RowTypes
    BY <2>1, <2>9, <2>10, <2>11, DisputeAssumption DEF RowTypes
  <2>13. \A h \in Call : ~Deciding(h) /\ ~Executing(h) /\ ~HandlerAt(h, "write")
    BY <2>1, <2>9 DEF Deciding, Executing, HandlerAt
  <2>14. DecisionInv
    BY <2>1, <2>10, <2>11, <2>13 DEF DecisionInv, Undecided, BuyerFirst, ResolvedIsPaid
  <2> QED BY <2>5, <2>7, <2>8, <2>12, <2>14 DEF DisputeInv, EscrowInv
<1>2. DisputeInv /\ [DisputeNext]_allVars => DisputeInv'
  <2> SUFFICES ASSUME DisputeInv, [DisputeNext]_allVars PROVE DisputeInv'
    OBVIOUS
  <2>1. CASE UNCHANGED allVars
    <3>1. EscrowInv'
      BY <2>1, EscrowQuiet DEF allVars, DisputeInv
    <3>2. RowTypes'
      BY <2>1 DEF allVars, disputeVars, DisputeInv, RowTypes
    <3>3. DecisionInv'
      BY <2>1 DEF allVars, disputeVars, escrowVars, DisputeInv, DecisionInv, Undecided, Deciding,
        Executing, ExecutionOK, LegInHand, HandlerAt, BuyerFirst, ResolvedIsPaid
    <3> QED BY <3>1, <3>2, <3>3 DEF DisputeInv
  <2>2. ASSUME NEW c \in Call, CallStep(c) \/ OtherRequest(c) PROVE DisputeInv'
    BY <2>2, CallStepKeeps, OtherRequestKeeps
  <2>3. ASSUME NEW h \in Call, HandlerNext(h) PROVE DisputeInv'
    BY <2>3, OpenDisputeKeeps, FlagEscrowKeeps, ReadStageKeeps, WriteStageKeeps,
       SubmitDecisionKeeps, ReadBalanceKeeps, WriteDecisionKeeps, RetryDecisionKeeps,
       ExecuteDecisionKeeps, BuyerLegKeeps, SellerLegKeeps, LegAnsweredKeeps,
       ResolveDisputeKeeps, HandlerFailsKeeps, HandlerCrashKeeps DEF HandlerNext
  <2> QED BY <2>1, <2>2, <2>3 DEF DisputeNext
<1> QED BY <1>1, <1>2, PTL DEF DisputeSpec

\* The record, the contract, the invocations and the dispute keep their types.
THEOREM DisputeTypeCorrect == DisputeSpec => []DisputeTypeOK
<1>1. DisputeInv => DisputeTypeOK
  BY DEF DisputeInv, EscrowInv, RowTypes, DisputeTypeOK
<1> QED BY <1>1, DisputeInvariant, PTL

\* Overlapping fund requests make one deposit: the unique order_id lets only one
\* past createPaymentRecord(), for any number of requests.
THEOREM OneDepositPerOrder == DisputeSpec => []OneDeposit
<1>1. DisputeInv => OneDeposit
  BY DEF DisputeInv, EscrowInv, DepositInv, OneDeposit
<1> QED BY <1>1, DisputeInvariant, PTL

\* toFundResult() never tells a duplicate request "funded" without a deposit whose
\* escrow id is recorded.
THEOREM FundedAnswersAreReal == DisputeSpec => []FundedIsReal
<1>1. DisputeInv => FundedIsReal
  BY DEF DisputeInv, EscrowInv, FundedInv, FundedIsReal
<1> QED BY <1>1, DisputeInvariant, PTL

\* executeDecision() resolves a dispute that was decided once only when both of
\* its shares have been paid.
THEOREM ResolvedDisputesArePaid == DisputeSpec => []ResolvedIsPaid
<1>1. DisputeInv => ResolvedIsPaid
  BY DEF DisputeInv, DecisionInv
<1> QED BY <1>1, DisputeInvariant, PTL

\* Nothing goes to the seller before the buyer has the whole share, however many
\* executions of the decision overlap.
THEOREM BuyersArePaidFirst == DisputeSpec => []BuyerFirst
<1>1. DisputeInv => BuyerFirst
  BY DEF DisputeInv, DecisionInv
<1> QED BY <1>1, DisputeInvariant, PTL
-----------------------------------------------------------------------------
(* The money: what the record says and what the contract holds.            *)

\* The stroops of a kind of partial payment that were executed and are about to be
\* recorded, each with its invocation.
Unrecorded(op) ==
  {u \in Call \X (1..Total) :
     call[u[1]].op = op /\ At(u[1], "record") /\ u[2] <= call[u[1]].amount}

\* The record lags behind the chain by what is about to be recorded, at least.
BooksInv ==
  /\ \A op \in Partial : IsFiniteSet(Unrecorded(op))
  /\ record.released + Cardinality(Unrecorded("partialRelease")) <= chain.toSeller
  /\ record.refunded + Cardinality(Unrecorded("partialRefund")) <= chain.toBuyer

\* Nothing is lost in the contract; nothing is paid, and nobody deposits again, once
\* the escrow is known.
BalanceInv ==
  /\ chain.deposits > 0 => chain.balance + chain.toSeller + chain.toBuyer = Total
  /\ ~record.known => chain.toSeller = 0 /\ chain.toBuyer = 0
  /\ \A c \in Call : call[c].op = "fund" /\ At(c, "submit") => ~record.known

\* What an invocation read is not ahead of the chain, and what it has executed is on top.
ReadInv(c) ==
  /\ call[c].pc \in {"submit", "record"} /\ call[c].op # "fund"
       => call[c].released <= chain.toSeller /\ call[c].refunded <= chain.toBuyer
  /\ At(c, "record") =>
       CASE call[c].op \in {"release", "refund"} -> chain.balance = 0
         [] call[c].op = "partialRelease" -> call[c].released + call[c].amount <= chain.toSeller
         [] call[c].op = "partialRefund" -> call[c].refunded + call[c].amount <= chain.toBuyer
         [] OTHER -> TRUE

MoneyInv == BooksInv /\ BalanceInv /\ (\A c \in Call : ReadInv(c)) /\ SettledIsEmpty

\* The amounts are natural numbers.
LEMMA MoneyTypes ==
  ASSUME EscrowTypeOK
  PROVE  /\ record.released \in Nat /\ record.refunded \in Nat /\ Total \in Nat
         /\ chain.deposits \in Nat /\ chain.balance \in Nat
         /\ chain.toSeller \in Nat /\ chain.toBuyer \in Nat
         /\ \A c \in Call : /\ call[c] \in CallState /\ call[c].op \in Op
                            /\ call[c].amount \in 0..Total
                            /\ call[c].released \in Nat /\ call[c].refunded \in Nat
<1>1. record.released \in Nat /\ record.refunded \in Nat
  BY DEF EscrowTypeOK, Payment
<1>2. /\ chain.deposits \in Nat /\ chain.balance \in Nat
      /\ chain.toSeller \in Nat /\ chain.toBuyer \in Nat
  BY DEF EscrowTypeOK, Chain
<1>3. ASSUME NEW c \in Call
      PROVE  /\ call[c] \in CallState /\ call[c].op \in Op /\ call[c].amount \in 0..Total
             /\ call[c].released \in Nat /\ call[c].refunded \in Nat
  <2>1. call[c] \in CallState
    BY DEF EscrowTypeOK
  <2> QED BY <2>1 DEF CallState
<1> QED BY <1>1, <1>2, <1>3, EscrowAssumption

\* As many pairs with an invocation as stroops.
LEMMA PairsCount ==
  ASSUME NEW c, NEW n \in Nat
  PROVE  IsFiniteSet({c} \X (1..n)) /\ Cardinality({c} \X (1..n)) = n
<1>1. IsFiniteSet({c}) /\ Cardinality({c}) = 1
  BY FS_Singleton
<1>2. IsFiniteSet(1..n) /\ Cardinality(1..n) = n
  BY FS_Interval
<1>3. /\ IsFiniteSet({c} \X (1..n))
      /\ Cardinality({c} \X (1..n)) = Cardinality({c}) * Cardinality(1..n)
  BY <1>1, <1>2, FS_Product, Zenon
<1> QED BY <1>1, <1>2, <1>3

LEMMA DisjointCount ==
  ASSUME NEW S, NEW T, IsFiniteSet(S), IsFiniteSet(T), S \cap T = {}
  PROVE  /\ IsFiniteSet(S \cup T) /\ Cardinality(S \cup T) = Cardinality(S) + Cardinality(T)
         /\ Cardinality(S) \in Nat /\ Cardinality(T) \in Nat
<1>1. Cardinality(S) \in Nat /\ Cardinality(T) \in Nat
  BY FS_CardinalityType
<1>2. Cardinality(S \cap T) = 0
  BY FS_EmptySet
<1>3. /\ IsFiniteSet(S \cup T)
      /\ Cardinality(S \cup T) = Cardinality(S) + Cardinality(T) - Cardinality(S \cap T)
  BY FS_Union
<1> QED BY <1>1, <1>2, <1>3

Changes(c) == call' = [call EXCEPT ![c] = call'[c]]

LEMMA OtherCalls ==
  ASSUME EscrowTypeOK, NEW c \in Call, Changes(c)
  PROVE  \A d \in Call : d # c => call'[d] = call[d]
<1>1. call \in [Call -> CallState]
  BY DEF EscrowTypeOK
<1> QED BY <1>1 DEF Changes

\* An invocation that is not about to record takes its stroops away.
LEMMA UnrecordedShrinks ==
  ASSUME EscrowTypeOK, NEW c \in Call, Changes(c), call'[c].pc # "record",
         NEW op \in Partial, IsFiniteSet(Unrecorded(op))
  PROVE  /\ IsFiniteSet(Unrecorded(op)')
         /\ Cardinality(Unrecorded(op)') \in Nat /\ Cardinality(Unrecorded(op)) \in Nat
         /\ Cardinality(Unrecorded(op)') <= Cardinality(Unrecorded(op))
         /\ call[c].op = op /\ At(c, "record") =>
              Cardinality(Unrecorded(op)') + call[c].amount = Cardinality(Unrecorded(op))
<1>1. \A d \in Call : d # c => call'[d] = call[d]
  BY OtherCalls
<1>2. call[c].amount \in 0..Total /\ Total \in Nat
  BY MoneyTypes
<1> DEFINE S == Unrecorded(op)
           T == Unrecorded(op)'
           P == {c} \X (1..call[c].amount)
<1>3. T \subseteq S
  <2> SUFFICES ASSUME NEW u \in Call \X (1..Total), u \in T PROVE u \in S
    BY DEF Unrecorded
  <2>1. call'[u[1]].op = op /\ call'[u[1]].pc = "record" /\ u[2] <= call'[u[1]].amount
    BY DEF Unrecorded, At
  <2>2. u[1] \in Call /\ u[1] # c
    BY <2>1
  <2>3. call'[u[1]] = call[u[1]]
    BY <1>1, <2>2
  <2> QED BY <2>1, <2>3 DEF Unrecorded, At
<1>4. ASSUME call[c].op = op, At(c, "record") PROVE S = T \cup P /\ T \cap P = {}
  <2>1. \A u \in P : u \in S /\ u \notin T
    BY <1>2, <1>4 DEF Unrecorded, At
  <2>2. \A u \in S : u[1] # c => u \in T
    BY <1>1 DEF Unrecorded, At
  <2>3. \A u \in S : u[1] = c => u \in P
    BY <1>2 DEF Unrecorded
  <2> QED BY <1>3, <2>1, <2>2, <2>3
<1>5. IsFiniteSet(P) /\ Cardinality(P) = call[c].amount
  <2>1. call[c].amount \in Nat
    BY <1>2
  <2> QED BY <2>1, PairsCount, Zenon
<1> HIDE DEF S, T, P
<1>6. IsFiniteSet(S)
  BY DEF S
<1>7. /\ IsFiniteSet(T) /\ Cardinality(T) <= Cardinality(S)
      /\ Cardinality(T) \in Nat /\ Cardinality(S) \in Nat
  BY <1>3, <1>6, FS_Subset, FS_CardinalityType
<1>8. ASSUME call[c].op = op, At(c, "record")
      PROVE  Cardinality(T) + call[c].amount = Cardinality(S)
  BY <1>4, <1>5, <1>7, <1>8, DisjointCount
<1> QED BY <1>7, <1>8 DEF S, T

\* A submission that succeeded adds its stroops.
LEMMA UnrecordedGrows ==
  ASSUME EscrowTypeOK, NEW c \in Call, Changes(c), call[c].pc # "record",
         call'[c].pc = "record", call'[c].op = call[c].op, call'[c].amount = call[c].amount,
         NEW op \in Partial, IsFiniteSet(Unrecorded(op))
  PROVE  /\ IsFiniteSet(Unrecorded(op)')
         /\ Cardinality(Unrecorded(op)') \in Nat /\ Cardinality(Unrecorded(op)) \in Nat
         /\ Cardinality(Unrecorded(op)')
              = Cardinality(Unrecorded(op)) + (IF call[c].op = op THEN call[c].amount ELSE 0)
<1>1. \A d \in Call : d # c => call'[d] = call[d]
  BY OtherCalls
<1>2. call[c].amount \in 0..Total /\ Total \in Nat
  BY MoneyTypes
<1> DEFINE S == Unrecorded(op)
           T == Unrecorded(op)'
           P == {c} \X (1..call[c].amount)
<1>3. \A u \in S : u[1] # c
  BY DEF Unrecorded, At
<1>4. ASSUME call[c].op = op PROVE T = S \cup P /\ S \cap P = {}
  <2>1. \A u \in P : u \in T /\ u \notin S
    BY <1>2, <1>3, <1>4 DEF Unrecorded, At
  <2>2. \A u \in T : u[1] # c => u \in S
    BY <1>1 DEF Unrecorded, At
  <2>3. \A u \in T : u[1] = c => u \in P
    BY <1>2 DEF Unrecorded
  <2>4. S \subseteq T
    BY <1>1, <1>3 DEF Unrecorded, At
  <2> QED BY <2>1, <2>2, <2>3, <2>4
<1>5. ASSUME call[c].op # op PROVE T = S
  <2>1. \A u \in T : u[1] # c
    BY <1>5 DEF Unrecorded
  <2>2. T \subseteq S
    BY <1>1, <2>1 DEF Unrecorded, At
  <2>3. S \subseteq T
    BY <1>1, <1>3 DEF Unrecorded, At
  <2> QED BY <2>2, <2>3
<1>6. IsFiniteSet(P) /\ Cardinality(P) = call[c].amount
  <2>1. call[c].amount \in Nat
    BY <1>2
  <2> QED BY <2>1, PairsCount, Zenon
<1> HIDE DEF S, T, P
<1>7. IsFiniteSet(S) /\ Cardinality(S) \in Nat
  BY FS_CardinalityType DEF S
<1>8. CASE call[c].op = op
  <2>1. IsFiniteSet(T) /\ Cardinality(T) = Cardinality(S) + call[c].amount
    BY <1>4, <1>6, <1>7, <1>8, DisjointCount
  <2>2. Cardinality(T) \in Nat
    BY <2>1, FS_CardinalityType
  <2> QED BY <1>7, <1>8, <2>1, <2>2 DEF S, T
<1>9. CASE call[c].op # op
  BY <1>5, <1>7, <1>9 DEF S, T
<1> QED BY <1>8, <1>9

\* A step that takes nothing back and does not settle the row.
KeepsAmounts ==
  /\ record'.released <= record.released /\ record'.refunded <= record.refunded
  /\ record'.known = record.known
  /\ record'.status = record.status \/ record'.status \notin {"released", "refunded"}

\* An invocation that begins, fails, ends or dies, while the contract rests.
LEMMA QuietKeepsMoney ==
  ASSUME EscrowTypeOK, EscrowTypeOK', MoneyInv, NEW c \in Call, Changes(c), chain' = chain,
         KeepsAmounts, call'[c].pc # "record",
         call'[c].pc = "submit" =>
           IF call'[c].op = "fund" THEN ~record.known
           ELSE call'[c].released <= chain.toSeller /\ call'[c].refunded <= chain.toBuyer
  PROVE  MoneyInv'
<1>1. \A d \in Call : d # c => call'[d] = call[d]
  BY OtherCalls
<1>2. BooksInv'
  <2>1. \A op \in Partial : /\ IsFiniteSet(Unrecorded(op)')
                            /\ Cardinality(Unrecorded(op)') \in Nat
                            /\ Cardinality(Unrecorded(op)) \in Nat
                            /\ Cardinality(Unrecorded(op)') <= Cardinality(Unrecorded(op))
    BY UnrecordedShrinks DEF MoneyInv, BooksInv
  <2>2. "partialRelease" \in Partial /\ "partialRefund" \in Partial
    BY DEF Partial
  <2>3. record'.released \in Nat /\ record'.refunded \in Nat
    BY DEF EscrowTypeOK, Payment
  <2>4. /\ record'.released + Cardinality(Unrecorded("partialRelease")') <= chain.toSeller
        /\ record'.refunded + Cardinality(Unrecorded("partialRefund")') <= chain.toBuyer
    BY <2>1, <2>2, <2>3, MoneyTypes DEF MoneyInv, BooksInv, KeepsAmounts
  <2> QED BY <2>1, <2>4 DEF BooksInv
<1>3. BalanceInv'
  BY <1>1 DEF MoneyInv, BalanceInv, KeepsAmounts, At
<1>4. \A d \in Call : ReadInv(d)'
  BY <1>1 DEF MoneyInv, ReadInv, At
<1>5. SettledIsEmpty'
  BY DEF MoneyInv, SettledIsEmpty, KeepsAmounts
<1> QED BY <1>2, <1>3, <1>4, <1>5 DEF MoneyInv

\* The amounts an invocation read stay with it while it submits.
LEMMA SubmitLocal ==
  ASSUME EscrowTypeOK, NEW c \in Call, Submit(c)
  PROVE  call'[c].released = call[c].released /\ call'[c].refunded = call[c].refunded
<1>1. call[c] \in CallState
  BY DEF EscrowTypeOK
<1> QED BY <1>1 DEF EscrowTypeOK, CallState, Submit, Goto

\* A deposit: nobody has been paid yet, and no payment is on its way.
LEMMA DepositKeepsMoney ==
  ASSUME EscrowInv, EscrowInv', MoneyInv, NEW c \in Call, Submit(c), call[c].op = "fund",
         chain' = Executed("fund", call[c].amount)
  PROVE  MoneyInv'
<1> USE DEF EscrowInv
<1>1. /\ Changes(c) /\ record' = record /\ call[c].pc = "submit"
      /\ call'[c].op = "fund" /\ call'[c].amount = call[c].amount
      /\ call'[c].pc \in {"submit", "record", "fail"}
  BY SubmitFacts DEF Changes, Submit, At
<1>2. \A d \in Call : d # c => call'[d] = call[d]
  BY <1>1, OtherCalls
<1>3. ~record.known /\ chain.toSeller = 0 /\ chain.toBuyer = 0
  BY <1>1 DEF MoneyInv, BalanceInv, At
<1>4. chain'.balance = Total /\ chain'.toSeller = 0 /\ chain'.toBuyer = 0
  <2>1. /\ chain'.balance = Total
        /\ chain'.toSeller = chain.toSeller + ToSeller("fund", call[c].amount)
        /\ chain'.toBuyer = chain.toBuyer + ToBuyer("fund", call[c].amount)
    BY DEF Executed
  <2> QED BY <1>3, <2>1 DEF ToSeller, ToBuyer
<1>5. /\ record.status \notin {"released", "refunded"}
      /\ \A d \in Call : call[d].op # "fund" => call[d].pc \notin {"submit", "record"}
  BY <1>3 DEF FundedInv
<1>6. "fund" \notin Partial /\ "partialRelease" \in Partial /\ "partialRefund" \in Partial
  BY DEF Partial
<1>7. BooksInv'
  <2>1. ASSUME NEW op \in Partial
        PROVE  /\ IsFiniteSet(Unrecorded(op)') /\ Cardinality(Unrecorded(op)') \in Nat
               /\ Cardinality(Unrecorded(op)) \in Nat
               /\ Cardinality(Unrecorded(op)') <= Cardinality(Unrecorded(op))
    <3>1. IsFiniteSet(Unrecorded(op))
      BY DEF MoneyInv, BooksInv
    <3>2. CASE call'[c].pc # "record"
      BY <1>1, <3>1, <3>2, UnrecordedShrinks
    <3>3. CASE call'[c].pc = "record"
      <4>1. call[c].pc # "record" /\ call'[c].op = call[c].op
        BY <1>1
      <4>2. /\ IsFiniteSet(Unrecorded(op)') /\ Cardinality(Unrecorded(op)') \in Nat
            /\ Cardinality(Unrecorded(op)) \in Nat
            /\ Cardinality(Unrecorded(op)')
                 = Cardinality(Unrecorded(op)) + (IF call[c].op = op THEN call[c].amount ELSE 0)
        BY <1>1, <3>1, <3>3, <4>1, UnrecordedGrows
      <4>3. call[c].op # op
        BY <1>6
      <4> QED BY <4>2, <4>3
    <3> QED BY <3>2, <3>3
  <2>2. /\ record.released + Cardinality(Unrecorded("partialRelease")') <= 0
        /\ record.refunded + Cardinality(Unrecorded("partialRefund")') <= 0
    BY <1>3, <1>6, <2>1, MoneyTypes DEF MoneyInv, BooksInv
  <2> QED BY <1>1, <1>4, <2>1, <2>2 DEF BooksInv
<1>8. BalanceInv'
  <2>1. Total + 0 + 0 = Total
    BY EscrowAssumption
  <2> QED BY <1>1, <1>3, <1>4, <2>1 DEF BalanceInv
<1>9. \A d \in Call : ReadInv(d)'
  BY <1>1, <1>2, <1>5 DEF ReadInv, At
<1>10. SettledIsEmpty'
  BY <1>1, <1>5 DEF SettledIsEmpty
<1> QED BY <1>7, <1>8, <1>9, <1>10 DEF MoneyInv

\* A payment out of the contract: the books lag further behind, nothing is lost, and
\* an empty escrow stays empty.
LEMMA PayKeepsMoney ==
  ASSUME EscrowInv, EscrowInv', MoneyInv, NEW c \in Call, Submit(c), call[c].op # "fund",
         Accepts(call[c].op, call[c].amount), chain' = Executed(call[c].op, call[c].amount)
  PROVE  MoneyInv'
<1> USE DEF EscrowInv
<1> DEFINE op == call[c].op
           amount == call[c].amount
<1>1. /\ Changes(c) /\ record' = record /\ call[c].pc = "submit"
      /\ call'[c].op = op /\ call'[c].amount = amount
      /\ call'[c].pc \in {"submit", "record", "fail"}
  BY SubmitFacts DEF Changes, Submit, At
<1>2. \A d \in Call : d # c => call'[d] = call[d]
  BY <1>1, OtherCalls
<1>3. call'[c].released = call[c].released /\ call'[c].refunded = call[c].refunded
  BY SubmitLocal
<1>4. record.known /\ chain.deposits > 0
  BY <1>1 DEF FundedInv
<1>5. PICK x \in Nat : x = ToSeller(op, amount)
  BY ExecutedFacts, MoneyTypes
<1>6. PICK y \in Nat : y = ToBuyer(op, amount)
  BY ExecutedFacts, MoneyTypes
<1>7. /\ chain'.deposits = chain.deposits + 0
      /\ chain'.balance = chain.balance - x - y
      /\ chain'.toSeller = chain.toSeller + x /\ chain'.toBuyer = chain.toBuyer + y
  BY <1>5, <1>6 DEF Executed
<1>8. /\ op = "release" => x = chain.balance /\ y = 0
      /\ op = "refund" => x = 0 /\ y = chain.balance
      /\ op = "partialRelease" => x = amount
      /\ op = "partialRefund" => y = amount
  BY <1>5, <1>6 DEF ToSeller, ToBuyer
<1>9. chain'.balance \in Nat
  BY DEF EscrowTypeOK, Chain
<1>10. /\ chain.deposits \in Nat /\ chain.balance \in Nat /\ chain.toSeller \in Nat
       /\ chain.toBuyer \in Nat /\ op \in Op /\ amount \in Nat /\ Total \in Nat
       /\ record.released \in Nat /\ record.refunded \in Nat
       /\ \A d \in Call : /\ call[d].released \in Nat /\ call[d].refunded \in Nat
                          /\ call[d].amount \in Nat
  BY MoneyTypes
<1>11. "partialRelease" \in Partial /\ "partialRefund" \in Partial
  BY DEF Partial
<1> HIDE DEF op, amount
<1>12. BooksInv'
  <2>1. ASSUME NEW kind \in Partial
        PROVE  /\ IsFiniteSet(Unrecorded(kind)') /\ Cardinality(Unrecorded(kind)') \in Nat
               /\ Cardinality(Unrecorded(kind)) \in Nat
               /\ Cardinality(Unrecorded(kind)')
                    <= Cardinality(Unrecorded(kind)) + (IF op = kind THEN amount ELSE 0)
    <3>1. IsFiniteSet(Unrecorded(kind))
      BY DEF MoneyInv, BooksInv
    <3>2. CASE call'[c].pc # "record"
      <4>1. /\ IsFiniteSet(Unrecorded(kind)') /\ Cardinality(Unrecorded(kind)') \in Nat
            /\ Cardinality(Unrecorded(kind)) \in Nat
            /\ Cardinality(Unrecorded(kind)') <= Cardinality(Unrecorded(kind))
        BY <1>1, <3>1, <3>2, UnrecordedShrinks
      <4> QED BY <1>10, <4>1
    <3>3. CASE call'[c].pc = "record"
      <4>1. call[c].pc # "record"
        BY <1>1
      <4>2. /\ IsFiniteSet(Unrecorded(kind)') /\ Cardinality(Unrecorded(kind)') \in Nat
            /\ Cardinality(Unrecorded(kind)) \in Nat
            /\ Cardinality(Unrecorded(kind)')
                 = Cardinality(Unrecorded(kind)) + (IF op = kind THEN amount ELSE 0)
        BY <1>1, <3>1, <3>3, <4>1, UnrecordedGrows DEF op, amount
      <4> QED BY <1>10, <4>2
    <3> QED BY <3>2, <3>3
  <2>2. PICK r : r = Cardinality(Unrecorded("partialRelease"))
    OBVIOUS
  <2>3. PICK f : f = Cardinality(Unrecorded("partialRefund"))
    OBVIOUS
  <2>4. PICK s : s = Cardinality(Unrecorded("partialRelease")')
    OBVIOUS
  <2>5. PICK g : g = Cardinality(Unrecorded("partialRefund")')
    OBVIOUS
  <2>6. /\ r \in Nat /\ f \in Nat /\ s \in Nat /\ g \in Nat
        /\ s <= r + (IF op = "partialRelease" THEN amount ELSE 0)
        /\ g <= f + (IF op = "partialRefund" THEN amount ELSE 0)
    BY <1>11, <2>1, <2>2, <2>3, <2>4, <2>5
  <2>7. record.released + r <= chain.toSeller /\ record.refunded + f <= chain.toBuyer
    BY <2>2, <2>3 DEF MoneyInv, BooksInv
  <2>8. record.released + s <= chain.toSeller + x
    BY <1>8, <1>10, <2>6, <2>7
  <2>9. record.refunded + g <= chain.toBuyer + y
    BY <1>8, <1>10, <2>6, <2>7
  <2>10. /\ record'.released + Cardinality(Unrecorded("partialRelease")') <= chain'.toSeller
         /\ record'.refunded + Cardinality(Unrecorded("partialRefund")') <= chain'.toBuyer
    BY <1>1, <1>7, <2>4, <2>5, <2>8, <2>9
  <2> QED BY <2>1, <2>10 DEF BooksInv
<1>13. BalanceInv'
  <2>1. chain'.balance + chain'.toSeller + chain'.toBuyer = Total
    BY <1>4, <1>7, <1>10 DEF MoneyInv, BalanceInv
  <2>2. ASSUME NEW d \in Call, call'[d].op = "fund", call'[d].pc = "submit" PROVE FALSE
    <3>1. d # c
      BY <1>1, <2>2 DEF op
    <3> QED BY <1>2, <1>4, <2>2, <3>1 DEF MoneyInv, BalanceInv, At
  <2> QED BY <1>1, <1>4, <2>1, <2>2 DEF BalanceInv, At
<1>14. /\ chain.balance = 0 => chain'.balance = 0
       /\ chain.toSeller <= chain'.toSeller /\ chain.toBuyer <= chain'.toBuyer
  BY <1>7, <1>9, <1>10
<1>15. ASSUME NEW d \in Call PROVE ReadInv(d)'
  <2>1. chain'.toSeller \in Nat /\ chain'.toBuyer \in Nat
    BY <1>7, <1>10
  <2>2. ReadInv(d)
    BY DEF MoneyInv
  <2>3. CASE d # c
    <3>1. call'[d] = call[d]
      BY <1>2, <2>3
    <3> QED BY <1>10, <1>14, <2>1, <2>2, <3>1 DEF ReadInv, At
  <2>4. CASE d = c
    <3>1. call[c].released <= chain.toSeller /\ call[c].refunded <= chain.toBuyer
      BY <1>1, <2>2, <2>4 DEF ReadInv
    <3>2. /\ call[c].released <= chain'.toSeller /\ call[c].refunded <= chain'.toBuyer
          /\ op \in {"release", "refund"} => chain'.balance = 0
          /\ op = "partialRelease" => call[c].released + amount <= chain'.toSeller
          /\ op = "partialRefund" => call[c].refunded + amount <= chain'.toBuyer
      BY <1>7, <1>8, <1>10, <3>1
    <3> QED BY <1>1, <1>3, <2>4, <3>2 DEF ReadInv, At
  <2> QED BY <2>3, <2>4
<1>16. SettledIsEmpty'
  BY <1>1, <1>14 DEF MoneyInv, SettledIsEmpty
<1> QED BY <1>12, <1>13, <1>15, <1>16 DEF MoneyInv

\* Every submission: the contract executes the call once, or not at all.
LEMMA SubmitKeepsMoney ==
  ASSUME EscrowInv, EscrowInv', MoneyInv, NEW c \in Call, Submit(c)
  PROVE  MoneyInv'
<1> USE DEF EscrowInv
<1>1. CASE chain' = chain /\ call'[c].pc # "record"
  <2>1. /\ Changes(c) /\ record' = record /\ call[c].pc = "submit"
        /\ call'[c].op = call[c].op
    BY SubmitFacts DEF Changes, Submit, At
  <2>2. call'[c].released = call[c].released /\ call'[c].refunded = call[c].refunded
    BY SubmitLocal
  <2>3. IF call[c].op = "fund" THEN ~record.known
        ELSE call[c].released <= chain.toSeller /\ call[c].refunded <= chain.toBuyer
    BY <2>1 DEF MoneyInv, BalanceInv, ReadInv, At
  <2>4. KeepsAmounts
    BY <2>1, MoneyTypes DEF KeepsAmounts
  <2> QED BY <1>1, <2>1, <2>2, <2>3, <2>4, QuietKeepsMoney
<1>2. CASE Accepts(call[c].op, call[c].amount) /\ chain' = Executed(call[c].op, call[c].amount)
  BY <1>2, DepositKeepsMoney, PayKeepsMoney
<1> QED BY <1>1, <1>2, SubmitFacts

\* The row that a successful operation writes, in amounts.
LEMMA RecordedAmounts ==
  ASSUME EscrowTypeOK, NEW c \in Call
  PROVE  /\ Recorded(c).released
              = record.released + (IF call[c].op = "partialRelease" THEN call[c].amount ELSE 0)
         /\ Recorded(c).refunded
              = record.refunded + (IF call[c].op = "partialRefund" THEN call[c].amount ELSE 0)
         /\ \/ call[c].op \in Partial /\ (Settles(c) \/ Recorded(c).status = record.status)
            \/ call[c].op \notin Partial /\ Recorded(c).status = Outcome(call[c].op)
<1> DEFINE op == call[c].op
           amount == call[c].amount
           released == record.released + (IF op = "partialRelease" THEN amount ELSE 0)
           refunded == record.refunded + (IF op = "partialRefund" THEN amount ELSE 0)
<1>1. record \in Payment /\ record.released \in Nat /\ record.refunded \in Nat
  BY DEF EscrowTypeOK, Payment
<1>2. CASE op \in Partial
  <2> DEFINE status == IF ~Settles(c) THEN record.status
                       ELSE IF op = "partialRelease" THEN "released" ELSE "refunded"
  <2>1. Recorded(c) = [record EXCEPT !.released = released, !.refunded = refunded,
                                     !.status = status]
    BY <1>2 DEF Recorded, Incremented
  <2>2. ~Settles(c) => status = record.status
    OBVIOUS
  <2> HIDE DEF released, refunded, status
  <2>3. /\ Recorded(c).released = released /\ Recorded(c).refunded = refunded
        /\ Recorded(c).status = status
    BY <1>1, <2>1 DEF Payment
  <2>4. Settles(c) \/ Recorded(c).status = record.status
    BY <2>2, <2>3
  <2>5. Recorded(c).released = released /\ Recorded(c).refunded = refunded
    BY <2>3
  <2> QED BY ONLY <1>2, <2>4, <2>5 DEF released, refunded
<1>3. CASE op \notin Partial
  <2>1. Recorded(c) = [record EXCEPT !.status = Outcome(op), !.known = @ \/ op = "fund",
                                     !.tx = @ \cup {op}]
    BY <1>3 DEF Recorded
  <2>2. /\ Recorded(c).released = record.released /\ Recorded(c).refunded = record.refunded
        /\ Recorded(c).status = Outcome(op)
    BY <1>1, <2>1 DEF Payment
  <2>3. released = record.released /\ refunded = record.refunded
    BY <1>1, <1>3 DEF Partial
  <2> QED BY <1>3, <2>2, <2>3
<1> QED BY <1>2, <1>3

\* The update of the row: what is added was executed and not recorded yet, and a row
\* that it settles belongs to an empty escrow, although the amounts are old.
LEMMA RecordKeepsMoney ==
  ASSUME EscrowInv, EscrowInv', MoneyInv, NEW c \in Call, At(c, "record"), Changes(c),
         chain' = chain, record' = Recorded(c), call'[c].pc \in {"done", "fail"}
  PROVE  MoneyInv'
<1> USE DEF EscrowInv
<1> DEFINE op == call[c].op
           amount == call[c].amount
<1>1. \A d \in Call : d # c => call'[d] = call[d]
  BY OtherCalls
<1>2. /\ chain.balance \in Nat /\ chain.toSeller \in Nat /\ chain.toBuyer \in Nat
      /\ op \in Op /\ amount \in Nat /\ Total \in Nat
      /\ record.released \in Nat /\ record.refunded \in Nat
      /\ call[c].released \in Nat /\ call[c].refunded \in Nat
  BY MoneyTypes
<1>3. /\ record'.released = record.released + (IF op = "partialRelease" THEN amount ELSE 0)
      /\ record'.refunded = record.refunded + (IF op = "partialRefund" THEN amount ELSE 0)
      /\ record'.known
  <2>1. record'.known
    BY RecordedFacts DEF FundedInv, At
  <2> QED BY <2>1, RecordedAmounts
<1>4. "partialRelease" \in Partial /\ "partialRefund" \in Partial
  BY DEF Partial
<1>5. ReadInv(c) /\ chain.deposits > 0
  BY DEF MoneyInv, FundedInv, At
<1>6. BooksInv'
  <2>1. ASSUME NEW kind \in Partial
        PROVE  /\ IsFiniteSet(Unrecorded(kind)') /\ Cardinality(Unrecorded(kind)') \in Nat
               /\ Cardinality(Unrecorded(kind)) \in Nat
               /\ Cardinality(Unrecorded(kind)') + (IF op = kind THEN amount ELSE 0)
                    <= Cardinality(Unrecorded(kind))
    <3>1. IsFiniteSet(Unrecorded(kind))
      BY DEF MoneyInv, BooksInv
    <3>2. /\ IsFiniteSet(Unrecorded(kind)') /\ Cardinality(Unrecorded(kind)') \in Nat
          /\ Cardinality(Unrecorded(kind)) \in Nat
          /\ Cardinality(Unrecorded(kind)') <= Cardinality(Unrecorded(kind))
          /\ op = kind => Cardinality(Unrecorded(kind)') + amount = Cardinality(Unrecorded(kind))
      BY <3>1, UnrecordedShrinks
    <3> HIDE DEF op, amount
    <3> QED BY <1>2, <3>2
  <2> HIDE DEF op, amount
  <2>2. PICK r : r = Cardinality(Unrecorded("partialRelease"))
    OBVIOUS
  <2>3. PICK f : f = Cardinality(Unrecorded("partialRefund"))
    OBVIOUS
  <2>4. PICK s : s = Cardinality(Unrecorded("partialRelease")')
    OBVIOUS
  <2>5. PICK g : g = Cardinality(Unrecorded("partialRefund")')
    OBVIOUS
  <2>6. /\ r \in Nat /\ f \in Nat /\ s \in Nat /\ g \in Nat
        /\ s + (IF op = "partialRelease" THEN amount ELSE 0) <= r
        /\ g + (IF op = "partialRefund" THEN amount ELSE 0) <= f
    BY <1>4, <2>1, <2>2, <2>3, <2>4, <2>5
  <2>7. record.released + r <= chain.toSeller /\ record.refunded + f <= chain.toBuyer
    BY <2>2, <2>3 DEF MoneyInv, BooksInv
  <2>8. record'.released + s <= chain.toSeller /\ record'.refunded + g <= chain.toBuyer
    BY <1>2, <1>3, <2>6, <2>7
  <2> QED BY <2>1, <2>4, <2>5, <2>8 DEF BooksInv
<1>7. BalanceInv'
  <2>1. ASSUME NEW d \in Call, call'[d].op = "fund", call'[d].pc = "submit" PROVE FALSE
    <3>1. d # c /\ call[d].op = "fund" /\ call[d].pc = "submit"
      BY <1>1, <2>1
    <3>2. ~record.known /\ Funding(d)
      BY <3>1 DEF MoneyInv, BalanceInv, At, Funding
    <3>3. Funding(c)
      BY <3>2 DEF FundedInv, At, Funding
    <3> QED BY <3>1, <3>2, <3>3 DEF DepositInv
  <2> QED BY <1>3, <2>1 DEF MoneyInv, BalanceInv, At
<1>8. \A d \in Call : ReadInv(d)'
  BY <1>1 DEF MoneyInv, ReadInv, At
<1>9. SettledIsEmpty'
  <2> SUFFICES ASSUME record'.status \in {"released", "refunded"} PROVE chain.balance = 0
    BY DEF SettledIsEmpty
  <2>1. CASE op \in Partial /\ Settles(c)
    <3>1. /\ amount = Total - call[c].released - call[c].refunded
          /\ IF op = "partialRelease" THEN call[c].refunded = 0 ELSE call[c].released = 0
      BY <2>1 DEF Settles, Remaining
    <3>2. CASE op = "partialRelease"
      <4>1. call[c].released + amount <= chain.toSeller
        BY <1>5, <3>2 DEF ReadInv
      <4>2. Total <= chain.toSeller
        BY <1>2, <3>1, <3>2, <4>1
      <4> QED BY <1>2, <1>5, <4>2 DEF MoneyInv, BalanceInv
    <3>3. CASE op = "partialRefund"
      <4>1. call[c].refunded + amount <= chain.toBuyer
        BY <1>5, <3>3 DEF ReadInv
      <4>2. Total <= chain.toBuyer
        BY <1>2, <3>1, <3>3, <4>1
      <4> QED BY <1>2, <1>5, <4>2 DEF MoneyInv, BalanceInv
    <3> QED BY <2>1, <3>2, <3>3 DEF Partial
  <2>2. CASE op \in Partial /\ record'.status = record.status
    BY <2>2 DEF MoneyInv, SettledIsEmpty
  <2>3. CASE op \notin Partial /\ record'.status = Outcome(op)
    <3>1. op \in {"release", "refund"}
      BY <1>2, <2>3 DEF Outcome, Op, Full, Partial
    <3> QED BY <1>5, <3>1 DEF ReadInv
  <2> QED BY <2>1, <2>2, <2>3, RecordedAmounts
<1> QED BY <1>6, <1>7, <1>8, <1>9 DEF MoneyInv

\* An invocation that ends or dies.
LEMMA EndKeepsMoney ==
  ASSUME EscrowTypeOK, EscrowTypeOK', MoneyInv, NEW c \in Call, Changes(c), chain' = chain,
         call'[c].pc \in {"idle", "fail", "done"},
         record' = record \/ record' = [record EXCEPT !.status = "failed"]
  PROVE  MoneyInv'
<1>1. record \in Payment /\ record.released \in Nat /\ record.refunded \in Nat
  BY DEF EscrowTypeOK, Payment
<1>2. record' = [record EXCEPT !.status = "failed"] =>
        /\ record'.status = "failed" /\ record'.known = record.known
        /\ record'.released = record.released /\ record'.refunded = record.refunded
  BY <1>1 DEF Payment
<1>3. KeepsAmounts
  BY <1>1, <1>2 DEF KeepsAmounts
<1> QED BY <1>3, QuietKeepsMoney

\* Every step of an invocation keeps the books.
LEMMA StepKeepsMoney ==
  ASSUME EscrowInv, MoneyInv, NEW c \in Call, Step(c)
  PROVE  MoneyInv'
<1> USE DEF EscrowInv
<1>0. EscrowInv'
  BY StepKeeps
<1>1. CASE CreateRecord(c)
  <2>1. call[c].op = "fund" /\ chain' = chain
    BY <1>1 DEF CreateRecord, At, FundedInv, EscrowTypeOK
  <2>2. CASE record.status = "none" /\ record' = [NoPayment EXCEPT !.status = "pending"]
             /\ Goto(c, "submit")
    <3>1. Changes(c) /\ call'[c].pc = "submit" /\ call'[c].op = "fund"
      BY <2>1, <2>2, GotoFacts DEF Changes
    <3>2. ~record.known /\ record.known \in BOOLEAN
      BY <2>2 DEF FundedInv, EscrowTypeOK, Payment
    <3>3. record' = [status |-> "pending", known |-> FALSE, tx |-> {}, released |-> 0,
                     refunded |-> 0]
      BY <2>2 DEF NoPayment
    <3>4. /\ record'.status = "pending" /\ record'.known = FALSE
          /\ record'.released = 0 /\ record'.refunded = 0
      BY <3>3
    <3>5. record'.known = record.known
      BY <3>2, <3>4
    <3>6. record'.released <= record.released /\ record'.refunded <= record.refunded
      BY <3>4, MoneyTypes
    <3>7. record'.status \notin {"released", "refunded"}
      BY <3>4
    <3>8. KeepsAmounts
      BY <3>5, <3>6, <3>7 DEF KeepsAmounts
    <3> QED BY <1>0, <2>1, <3>1, <3>2, <3>8, QuietKeepsMoney
  <2>3. CASE Return(c, "failed") /\ record' = record
    BY <1>0, <2>1, <2>3, ReturnFacts, EndKeepsMoney DEF Changes
  <2> QED BY <1>1, <2>2, <2>3 DEF CreateRecord
<1>2. CASE RejectedEarly(c)
  <2>1. Return(c, "failed") /\ record' = record /\ chain' = chain
    BY <1>2 DEF RejectedEarly
  <2> QED BY <1>0, <2>1, ReturnFacts, EndKeepsMoney DEF Changes
<1>3. CASE Submit(c)
  BY <1>0, <1>3, SubmitKeepsMoney
<1>4. CASE RecordSuccess(c)
  <2>1. /\ Changes(c) /\ call'[c].pc \in {"done", "fail"} /\ At(c, "record") /\ chain' = chain
        /\ record' \in {record, Recorded(c)}
    BY <1>4, ReturnFacts, GotoFacts DEF RecordSuccess, Changes
  <2> QED BY <1>0, <2>1, EndKeepsMoney, RecordKeepsMoney
<1>5. CASE RecordFailure(c)
  <2>1. /\ Return(c, "failed") /\ chain' = chain
        /\ record' = record \/ record' = [record EXCEPT !.status = "failed"]
    BY <1>5 DEF RecordFailure
  <2> QED BY <1>0, <2>1, ReturnFacts, EndKeepsMoney DEF Changes
<1> QED BY <1>1, <1>2, <1>3, <1>4, <1>5 DEF Step

\* The head of an operation copies the amounts of the row, which are not ahead.
LEMMA BeginKeepsMoney ==
  ASSUME EscrowInv, MoneyInv, EscrowTypeOK', NEW c \in Call, NEW op \in Op,
         NEW amount \in 0..Total, Begin(c, op, amount)
  PROVE  MoneyInv'
<1> USE DEF EscrowInv
<1>1. /\ Changes(c) /\ record' = record /\ chain' = chain
      /\ call'[c].pc \in {"create", "submit", "done"} /\ call'[c].op = op
      /\ call'[c].pc = "submit" => op # "fund"
  BY BeginFacts DEF Changes
<1>2. call'[c].pc = "submit" =>
        call'[c].released = record.released /\ call'[c].refunded = record.refunded
  BY DEF Begin, Finished, EscrowTypeOK
<1>3. record.released <= chain.toSeller /\ record.refunded <= chain.toBuyer
  <2>1. "partialRelease" \in Partial /\ "partialRefund" \in Partial
    BY DEF Partial
  <2>2. \A kind \in Partial : Cardinality(Unrecorded(kind)) \in Nat
    BY FS_CardinalityType DEF MoneyInv, BooksInv
  <2> QED BY <2>1, <2>2, MoneyTypes DEF MoneyInv, BooksInv
<1>4. KeepsAmounts
  BY <1>1, MoneyTypes DEF KeepsAmounts
<1> QED BY <1>1, <1>2, <1>3, <1>4, QuietKeepsMoney

LEMMA IdleKeepsMoney ==
  ASSUME MoneyInv, UNCHANGED <<record, chain, call>>
  PROVE  MoneyInv'
<1>1. \A op : Unrecorded(op)' = Unrecorded(op)
  BY DEF Unrecorded, At
<1>2. BooksInv'
  BY <1>1 DEF MoneyInv, BooksInv
<1>3. BalanceInv' /\ (\A c \in Call : ReadInv(c)') /\ SettledIsEmpty'
  BY DEF MoneyInv, BalanceInv, ReadInv, SettledIsEmpty, At
<1> QED BY <1>2, <1>3 DEF MoneyInv

\* Every step of the composition keeps the books.
LEMMA NextKeepsMoney ==
  ASSUME DisputeInv, DisputeInv', MoneyInv, [DisputeNext]_allVars
  PROVE  MoneyInv'
<1>0. EscrowInv /\ EscrowTypeOK /\ EscrowTypeOK' /\ RowTypes
  BY DEF DisputeInv, EscrowInv
<1>1. CASE UNCHANGED <<record, chain, call>>
  BY <1>1, IdleKeepsMoney
<1>2. ASSUME NEW c \in Call, NEW op \in Op, NEW amount \in 0..Total, Begin(c, op, amount)
      PROVE  MoneyInv'
  BY <1>0, <1>2, BeginKeepsMoney
<1>3. ASSUME NEW c \in Call, CallStep(c) PROVE MoneyInv'
  BY <1>0, <1>3, StepKeepsMoney DEF CallStep
<1>4. ASSUME NEW c \in Call, OtherRequest(c) PROVE MoneyInv'
  <2>1. \E op \in Op : \E amount \in 0..Total : Begin(c, op, amount)
    BY <1>4, EscrowAssumption DEF OtherRequest, Request
  <2> QED BY <1>2, <2>1
<1>5. ASSUME NEW h \in Call, HandlerNext(h) PROVE MoneyInv'
  <2>1. CASE FlagEscrow(h)
    <3>1. "dispute" \in Op /\ 0 \in 0..Total /\ Begin(h, "dispute", 0)
      BY <2>1, EscrowAssumption DEF FlagEscrow, Op, Full
    <3> QED BY <1>2, <3>1
  <2>2. CASE BuyerLeg(h)
    <3>1. handler[h].resolution.buyer \in 0..Total /\ "partialRefund" \in Op
      BY <1>0 DEF RowTypes, HandlerState, Split, Op, Partial
    <3> QED BY <1>1, <1>2, <2>2, <3>1 DEF BuyerLeg, Leg
  <2>3. CASE SellerLeg(h)
    <3>1. handler[h].resolution.seller \in 0..Total /\ "partialRelease" \in Op
      BY <1>0 DEF RowTypes, HandlerState, Split, Op, Partial
    <3> QED BY <1>1, <1>2, <2>3, <3>1 DEF SellerLeg, Leg
  <2>4. CASE HandlerCrash(h)
    <3>1. record' = record /\ chain' = chain /\ call' = [call EXCEPT ![h] = IdleCall]
      BY <2>4 DEF HandlerCrash, Crash
    <3>2. Changes(h) /\ call'[h].pc = "idle"
      BY <1>0, <3>1 DEF Changes, EscrowTypeOK, IdleCall
    <3> QED BY <1>0, <3>1, <3>2, EndKeepsMoney
  <2>5. CASE HandlerFails(h)
    BY <1>1, <2>5 DEF HandlerFails
  <2>6. CASE OpenDispute(h) \/ ReadStage(h) \/ WriteStage(h) \/ SubmitDecision(h)
             \/ ReadBalance(h) \/ WriteDecision(h) \/ RetryDecision(h) \/ ExecuteDecision(h)
             \/ LegAnswered(h) \/ ResolveDispute(h)
    <3>1. UNCHANGED escrowVars
      BY <2>6 DEF OpenDispute, ReadStage, WriteStage, SubmitDecision, ReadBalance,
        WriteDecision, RetryDecision, ExecuteDecision, LegAnswered, ResolveDispute
    <3> QED BY <1>1, <3>1 DEF escrowVars
  <2> QED BY <1>5, <2>1, <2>2, <2>3, <2>4, <2>5, <2>6 DEF HandlerNext
<1>6. CASE UNCHANGED allVars
  BY <1>1, <1>6 DEF allVars, escrowVars
<1> QED BY <1>3, <1>4, <1>5, <1>6 DEF DisputeNext

\* The money invariant holds of every behaviour.
THEOREM MoneyInvariant == DisputeSpec => []MoneyInv
<1>1. DisputeInit => MoneyInv
  <2> SUFFICES ASSUME DisputeInit PROVE MoneyInv
    OBVIOUS
  <2>1. /\ record = NoPayment /\ chain = NoEscrow /\ call = [c \in Call |-> IdleCall]
    BY DEF DisputeInit, EscrowInit
  <2>2. /\ record.status = "none" /\ record.known = FALSE
        /\ record.released = 0 /\ record.refunded = 0
    BY <2>1 DEF NoPayment
  <2>3. /\ chain.deposits = 0 /\ chain.balance = 0
        /\ chain.toSeller = 0 /\ chain.toBuyer = 0
    BY <2>1 DEF NoEscrow
  <2>4. \A c \in Call : call[c].pc = "idle"
    BY <2>1 DEF IdleCall
  <2>5. \A op : Unrecorded(op) = {}
    BY <2>4 DEF Unrecorded, At
  <2>6. BooksInv
    BY <2>2, <2>3, <2>5, FS_EmptySet DEF BooksInv
  <2>7. BalanceInv
    BY <2>3, <2>4 DEF BalanceInv, At
  <2>8. \A c \in Call : ReadInv(c)
    BY <2>4 DEF ReadInv, At
  <2>9. SettledIsEmpty
    BY <2>3 DEF SettledIsEmpty
  <2> QED BY <2>6, <2>7, <2>8, <2>9 DEF MoneyInv
<1>2. DisputeInv /\ DisputeInv' /\ MoneyInv /\ [DisputeNext]_allVars => MoneyInv'
  BY NextKeepsMoney
<1> QED BY <1>1, <1>2, DisputeInvariant, PTL DEF DisputeSpec

\* The amounts in the record never exceed what the seller and the buyer received,
\* for any number of overlapping partial payments, lost answers, retries and crashes.
THEOREM RecordIsNeverAhead == DisputeSpec => []RecordNeverAhead
<1>1. DisputeInv /\ MoneyInv => RecordNeverAhead
  <2> SUFFICES ASSUME DisputeInv, MoneyInv PROVE RecordNeverAhead
    OBVIOUS
  <2>1. EscrowTypeOK
    BY DEF DisputeInv, EscrowInv
  <2>2. "partialRelease" \in Partial /\ "partialRefund" \in Partial
    BY DEF Partial
  <2>3. \A kind \in Partial : Cardinality(Unrecorded(kind)) \in Nat
    BY FS_CardinalityType DEF MoneyInv, BooksInv
  <2> QED BY <2>1, <2>2, <2>3, MoneyTypes DEF MoneyInv, BooksInv, RecordNeverAhead
<1> QED BY <1>1, DisputeInvariant, MoneyInvariant, PTL

\* A record that says released or refunded belongs to an empty escrow, although a
\* partial payment decides that on a row it read before its submission.
THEOREM SettledEscrowsAreEmpty == DisputeSpec => []SettledIsEmpty
<1>1. MoneyInv => SettledIsEmpty
  BY DEF MoneyInv
<1> QED BY <1>1, MoneyInvariant, PTL
=============================================================================
