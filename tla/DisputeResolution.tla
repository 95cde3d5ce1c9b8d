--------------------------- MODULE DisputeResolution ---------------------------
(***************************************************************************)
(* A dispute over the escrow of EscrowCoordinator.tla and its mediation:   *)
(* payments/src/disputes/mediation.ts over disputeStore.ts, with the       *)
(* transitions of stateMachine.ts.  Every route handler reads the row,     *)
(* decides, and later updates it by id alone, so two handlers can overtake *)
(* each other between the read and the write.  The decision's two legs are *)
(* calls of the coordinator, made in the slot the handler runs in.         *)
(*                                                                         *)
(* One dispute per escrow.  Evidence, the mediator's name, escalation,     *)
(* notifications, reputation and the audit log never feed back into the    *)
(* status or the amounts and are left out.                                 *)
(***************************************************************************)
EXTENDS EscrowCoordinator

CONSTANTS
  MaxRequests,     \* dispute requests, over all handlers
  MaxDecisions     \* decisions submitted for the dispute

ASSUME DisputeAssumption ==
  /\ MaxRequests \in Nat
  /\ MaxDecisions \in Nat

VARIABLES
  dispute,    \* the disputes row: status and resolution
  handler,    \* the local state of every handler
  requests, decisions,
  paid        \* what the legs of decisions moved on chain (history)

disputeVars == <<dispute, handler, requests, decisions, paid>>
allVars == <<escrowVars, disputeVars>>

Stage == {"open", "evidence_collection", "negotiation", "merchant_responded",
          "decided", "resolved"}
Split == [buyer : 0..Total, seller : 0..Total]
NoSplit == [buyer |-> 0, seller |-> 0]

Dispute == [status : Stage \cup {"none"}, resolution : Split]

HandlerState == [pc : {"idle", "flag", "balance", "write", "execute", "buyerLeg", "buyerWait",
                       "sellerLeg", "sellerWait", "resolve"},
                 status : Stage,          \* what the pending update writes
                 resolution : Split]      \* the split it holds in memory
IdleHandler == [pc |-> "idle", status |-> "open", resolution |-> NoSplit]

HandlerAt(h, label) == handler[h].pc = label
HandlerGoto(h, label) == handler' = [handler EXCEPT ![h].pc = label]
HandlerEnds(h) == handler' = [handler EXCEPT ![h] = IdleHandler]

\* A request arrives at an idle handler.
Receive(h) ==
  /\ HandlerAt(h, "idle") /\ ~Busy(h)
  /\ requests < MaxRequests
  /\ requests' = requests + 1
-----------------------------------------------------------------------------
(* stateMachine.ts.                                                        *)

\* ALLOWED_TRANSITIONS, the re-entry of a state included.
AllowedTransitions ==
  [open |-> {"open", "evidence_collection"},
   evidence_collection |-> {"evidence_collection", "negotiation"},
   negotiation |-> {"negotiation", "merchant_responded", "decided"},
   merchant_responded |-> {"merchant_responded", "decided"},
   decided |-> {"decided", "resolved"},
   resolved |-> {"resolved"}]

CanTransition(from, to) == to \in AllowedTransitions[from]
-----------------------------------------------------------------------------
(* The handlers before the decision.                                       *)

\* openDispute(): the row comes first, the flag on chain is best effort.
OpenDispute(h) ==
  /\ Receive(h)
  /\ dispute.status = "none" /\ record.known
  /\ dispute' = [dispute EXCEPT !.status = "open"]
  /\ HandlerGoto(h, "flag")
  /\ UNCHANGED <<escrowVars, decisions, paid>>

\* disputeEscrow(), whose outcome openDispute() only logs.
FlagEscrow(h) ==
  /\ HandlerAt(h, "flag")
  /\ Begin(h, "dispute", 0)
  /\ HandlerEnds(h)
  /\ UNCHANGED <<budget, dispute, requests, decisions, paid>>

\* What submitEvidence(), assignMediator() and submitMerchantResponse() write,
\* for the status they read last.
NextStage ==
  (IF dispute.status = "open" THEN {"evidence_collection"} ELSE {})
    \cup (IF dispute.status \in {"open", "evidence_collection", "negotiation"}
          THEN {"negotiation"} ELSE {})
    \cup (IF dispute.status = "negotiation" THEN {"merchant_responded"} ELSE {})

\* The read of one of those handlers ...
ReadStage(h) ==
  /\ Receive(h)
  /\ \E stage \in NextStage :
       handler' = [handler EXCEPT ![h].pc = "write", ![h].status = stage]
  /\ UNCHANGED <<escrowVars, dispute, decisions, paid>>

\* ... and its update, which checks nothing.
WriteStage(h) ==
  /\ HandlerAt(h, "write") /\ handler[h].status # "decided"
  /\ dispute' = [dispute EXCEPT !.status = handler[h].status]
  /\ HandlerEnds(h)
  /\ UNCHANGED <<escrowVars, requests, decisions, paid>>
-----------------------------------------------------------------------------
(* The decision and its execution.                                         *)

\* submitMediationDecision() reads the dispute; a resolved one is refused.
SubmitDecision(h) ==
  /\ Receive(h)
  /\ decisions < MaxDecisions
  /\ decisions' = decisions + 1
  /\ dispute.status # "none" /\ CanTransition(dispute.status, "decided")
  /\ HandlerGoto(h, "balance")
  /\ UNCHANGED <<escrowVars, dispute, paid>>

\* validateResolutionAmounts().
ValidResolution(split) == split.buyer + split.seller = Remaining(record)

\* getRemainingBalance() and the validation of the amounts.
ReadBalance(h) ==
  /\ HandlerAt(h, "balance")
  /\ \/ \E split \in Split :
          /\ ValidResolution(split)
          /\ handler' = [handler EXCEPT ![h].pc = "write", ![h].status = "decided",
                                        ![h].resolution = split]
     \/ HandlerEnds(h)
  /\ UNCHANGED <<escrowVars, dispute, requests, decisions, paid>>

WriteDecision(h) ==
  /\ HandlerAt(h, "write") /\ handler[h].status = "decided"
  /\ dispute' = [status |-> "decided", resolution |-> handler[h].resolution]
  /\ HandlerGoto(h, "execute")
  /\ UNCHANGED <<escrowVars, requests, decisions, paid>>

\* POST .../decision/retry.
RetryDecision(h) ==
  /\ Receive(h)
  /\ dispute.status # "none"
  /\ HandlerGoto(h, "execute")
  /\ UNCHANGED <<escrowVars, dispute, decisions, paid>>

\* Mutant: the seller's share comes first.
ExecuteDecision_SellerFirst(h) ==
  /\ HandlerAt(h, "execute")
  /\ \/ /\ dispute.status = "decided"
        /\ handler' = [handler EXCEPT ![h].pc = "sellerLeg", ![h].resolution = dispute.resolution]
     \/ dispute.status # "decided" /\ HandlerEnds(h)
  /\ UNCHANGED <<escrowVars, dispute, requests, decisions, paid>>

\* executeDecision() re-reads the row: resolved is done, any other status than
\* decided throws.
ExecuteDecision(h) ==
  /\ HandlerAt(h, "execute")
  /\ \/ /\ dispute.status = "decided"
        /\ handler' = [handler EXCEPT ![h].pc = "buyerLeg", ![h].resolution = dispute.resolution]
     \/ dispute.status # "decided" /\ HandlerEnds(h)
  /\ UNCHANGED <<escrowVars, dispute, requests, decisions, paid>>

\* A share of zero is skipped, any other is a call of the coordinator.
Leg(h, op, share, wait, next) ==
  /\ \/ share > 0 /\ Begin(h, op, share) /\ HandlerGoto(h, wait)
     \/ share = 0 /\ HandlerGoto(h, next) /\ UNCHANGED <<record, chain, call>>
  /\ UNCHANGED <<budget, dispute, requests, decisions, paid>>

BuyerLeg(h) ==
  HandlerAt(h, "buyerLeg")
    /\ Leg(h, "partialRefund", handler[h].resolution.buyer, "buyerWait", "sellerLeg")

SellerLeg(h) ==
  HandlerAt(h, "sellerLeg")
    /\ Leg(h, "partialRelease", handler[h].resolution.seller, "sellerWait", "resolve")

\* Mutant: the status of the answer is not looked at.
LegAnswered_Ignored(h) ==
  /\ handler[h].pc \in {"buyerWait", "sellerWait"} /\ At(h, "done")
  /\ HandlerGoto(h, IF HandlerAt(h, "buyerWait") THEN "sellerLeg" ELSE "resolve")
  /\ UNCHANGED <<escrowVars, dispute, requests, decisions, paid>>

\* A leg that failed or threw ends the execution; the dispute keeps its status.
LegAnswered(h) ==
  /\ handler[h].pc \in {"buyerWait", "sellerWait"} /\ At(h, "done")
  /\ IF call[h].result = "ok"
       THEN HandlerGoto(h, IF HandlerAt(h, "buyerWait") THEN "sellerLeg" ELSE "resolve")
       ELSE HandlerEnds(h)
  /\ UNCHANGED <<escrowVars, dispute, requests, decisions, paid>>

ResolveDispute(h) ==
  /\ HandlerAt(h, "resolve")
  /\ dispute' = [dispute EXCEPT !.status = "resolved"]
  /\ HandlerEnds(h)
  /\ UNCHANGED <<escrowVars, requests, decisions, paid>>
-----------------------------------------------------------------------------
(* The composition.                                                        *)

\* A query of the disputes table, or the read at the head of a leg, rejects.
HandlerFails(h) ==
  /\ handler[h].pc \notin {"idle", "buyerWait", "sellerWait"}
  /\ Spend("serviceFaults")
  /\ HandlerEnds(h)
  /\ UNCHANGED <<record, chain, call, dispute, requests, decisions, paid>>

\* The process dies, and with it the call the handler was waiting for.
HandlerCrash(h) ==
  /\ ~HandlerAt(h, "idle") \/ Busy(h)
  /\ Crash(h)
  /\ HandlerEnds(h)
  /\ UNCHANGED <<dispute, requests, decisions, paid>>

\* A step of the coordinator; what it moves for a leg is remembered.
CallStep(c) ==
  /\ Step(c)
  /\ paid' = IF handler[c].pc \in {"buyerWait", "sellerWait"}
               THEN [buyer |-> paid.buyer + (chain'.toBuyer - chain.toBuyer),
                     seller |-> paid.seller + (chain'.toSeller - chain.toSeller)]
               ELSE paid
  /\ UNCHANGED <<dispute, handler, requests, decisions>>

\* A request to the coordinator itself: a buyer, auto-release, a timeout refund.
OtherRequest(c) == HandlerAt(c, "idle") /\ Request(c) /\ UNCHANGED disputeVars

HandlerNext(h) ==
  \/ OpenDispute(h) \/ FlagEscrow(h) \/ ReadStage(h) \/ WriteStage(h)
  \/ SubmitDecision(h) \/ ReadBalance(h) \/ WriteDecision(h) \/ RetryDecision(h)
  \/ ExecuteDecision(h) \/ BuyerLeg(h) \/ SellerLeg(h) \/ LegAnswered(h) \/ ResolveDispute(h)
  \/ HandlerFails(h) \/ HandlerCrash(h)

DisputeInit ==
  /\ EscrowInit
  /\ dispute = [status |-> "none", resolution |-> NoSplit]
  /\ handler = [c \in Call |-> IdleHandler]
  /\ requests = 0 /\ decisions = 0
  /\ paid = NoSplit

DisputeNext ==
  \E c \in Call : CallStep(c) \/ OtherRequest(c) \/ HandlerNext(c)

DisputeSpec == DisputeInit /\ [][DisputeNext]_allVars
-----------------------------------------------------------------------------
(* Properties.                                                             *)

\* Every variable keeps its type.
DisputeTypeOK ==
  /\ EscrowTypeOK
  /\ dispute \in Dispute
  /\ handler \in [Call -> HandlerState]
  /\ requests \in 0..MaxRequests /\ decisions \in 0..MaxDecisions
  /\ paid \in [buyer : Nat, seller : Nat]

\* A dispute shown as resolved has had both shares of its decision paid on chain,
\* through failed legs, retries that overlap and stale status updates.  It is
\* said of a dispute decided once: a second decision replaces the amounts under
\* an execution that is running.
ResolvedIsPaid ==
  dispute.status = "resolved" /\ decisions = 1
    => paid.buyer >= dispute.resolution.buyer /\ paid.seller >= dispute.resolution.seller

\* The legs run in order: nothing goes to the seller before the buyer has the
\* whole share, whichever of the overlapping executions pays.
BuyerFirst ==
  paid.seller > 0 /\ decisions = 1 => paid.buyer >= dispute.resolution.buyer

\* executeDecision(): "a retry after a partial failure does not double-spend the
\* leg that already succeeded".
LegsPaidOnce ==
  decisions = 1 => paid.buyer <= dispute.resolution.buyer
                     /\ paid.seller <= dispute.resolution.seller
=============================================================================
