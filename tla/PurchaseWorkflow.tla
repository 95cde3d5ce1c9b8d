-------------------------- MODULE PurchaseWorkflow --------------------------
(***************************************************************************)
(* Purchase workflows (workflows/purchase/index.ts) on top of the outbox:  *)
(* transitionWorkflow() reads the row of an order, computes the next state *)
(* and writes it together with the event that announces it, which a relay  *)
(* delivers later.  Transitions come from callers, from the checkout       *)
(* timeout (workflows/checkout/index.ts) and from reconcileWorkflows()     *)
(* (src/index.ts), each of which may be in flight when another commits.    *)
(*                                                                         *)
(* One order is modelled.  Its context is left out, and the transaction is *)
(* one step: nobody sees its writes before the COMMIT.                     *)
(***************************************************************************)
EXTENDS ServiceEventOutbox

CONSTANTS
  Call,            \* callers of transitionWorkflow()
  Reconciler,      \* those that run reconcileWorkflows() too
  Start            \* states in which the order is found, "absent" before it exists

VARIABLES
  state,           \* purchase_workflows.state
  call,            \* each caller's position, and the state it has read
  payload,         \* what each outbox row announces
  first,           \* the state found at the start
  overlapped       \* two transitions have been under way at the same time

workflowVars == <<state, call, payload, first, overlapped>>
allVars == <<vars, workflowVars>>
-----------------------------------------------------------------------------
(* The state machine.                                                      *)

PurchaseState ==
  {"INITIATED", "SEARCHING", "FOUND", "APPROVED", "ESCROW_FUNDED", "PURCHASED",
   "DELIVERING", "DELIVERED", "COMPLETED", "CANCELLED", "FAILED"}
Terminal == {"COMPLETED", "CANCELLED", "FAILED"}

PurchaseEvent ==
  {"SEARCH", "PRODUCTS_FOUND", "APPROVE", "REJECT", "ESCROW_FUNDED", "ESCROW_FAILED",
   "PURCHASE_CONFIRMED", "DELIVERY_CONFIRMED", "SETTLE", "CANCEL", "TIMEOUT", "FAIL"}

\* TRANSITIONS: from, event, to.
Transitions ==
  {<<s, "CANCEL", "CANCELLED">> :
     s \in {"INITIATED", "SEARCHING", "FOUND", "APPROVED", "ESCROW_FUNDED", "PURCHASED"}}
  \cup {<<s, "FAIL", "FAILED">> :
          s \in {"SEARCHING", "ESCROW_FUNDED", "PURCHASED", "DELIVERING"}}
  \cup {<<"INITIATED", "SEARCH", "SEARCHING">>,
        <<"SEARCHING", "PRODUCTS_FOUND", "FOUND">>,
        <<"SEARCHING", "TIMEOUT", "CANCELLED">>,
        <<"FOUND", "APPROVE", "APPROVED">>,
        <<"FOUND", "REJECT", "CANCELLED">>,
        <<"APPROVED", "ESCROW_FUNDED", "ESCROW_FUNDED">>,
        <<"APPROVED", "ESCROW_FAILED", "CANCELLED">>,
        <<"ESCROW_FUNDED", "PURCHASE_CONFIRMED", "PURCHASED">>,
        <<"PURCHASED", "DELIVERY_CONFIRMED", "DELIVERING">>,
        <<"DELIVERING", "SETTLE", "DELIVERED">>,
        <<"DELIVERED", "SETTLE", "COMPLETED">>}

\* The states an event leads to; applyEvent() throws when there is none.
ApplyEvent(s, event) == {t[3] : t \in {u \in Transitions : u[1] = s /\ u[2] = event}}

ASSUME WorkflowAssumption ==
  /\ Reconciler \subseteq Call
  /\ Start \subseteq PurchaseState \cup {"absent"}

CallState == [pc : {"idle", "listed", "write"}, prior : PurchaseState \cup {"absent"},
              next : PurchaseState \cup {"absent"}]
Idle == [pc |-> "idle", prior |-> "absent", next |-> "absent"]
-----------------------------------------------------------------------------
(* Transitions.                                                            *)

\* createWorkflow(): the first state is not announced.
CreateWorkflow ==
  /\ state = "absent"
  /\ state' = "INITIATED"
  /\ UNCHANGED <<vars, call, payload, first, overlapped>>

\* Bound: a transition begins only while there is a row left for its event.
RowsLeft ==
  Cardinality({c \in Call : call[c].pc = "write"}) <
    Cardinality({e \in Event : rows[e].status = "none"})

\* transitionWorkflow() from a state it has read, up to its transaction.
BeginTransition(c, prior, event) ==
  /\ RowsLeft
  /\ \E s \in ApplyEvent(prior, event) :
       call' = [call EXCEPT ![c] = [pc |-> "write", prior |-> prior, next |-> s]]
  /\ overlapped' = (overlapped \/ \E d \in Call \ {c} : call[d].pc = "write")
  /\ UNCHANGED <<vars, state, payload, first>>

\* A caller, or the timeout of a checkout, which sends CANCEL.
Transition(c, event) ==
  /\ call[c].pc = "idle"
  /\ BeginTransition(c, state, event)

\* The row an INSERT creates.
NextRow == CHOOSE e \in Event : rows[e].status = "none"

\* Mutant: the event is written after the transaction, and its failure is logged.
CommitTransition_Outside(c) ==
  LET e == NextRow IN
  /\ call[c].pc = "write"
  /\ state' = call[c].next
  /\ payload' = [payload EXCEPT ![e] = <<call[c].prior, call[c].next>>]
  /\ call' = [call EXCEPT ![c] = Idle]
  /\ Insert(e) \/ UNCHANGED vars
  /\ UNCHANGED <<first, overlapped>>

\* The transaction: the row is overwritten, whatever it has become since it was
\* read, and the event is inserted.  When the answer is lost the caller
\* sees an error, but everything is written.
CommitTransition(c) ==
  LET e == NextRow IN
  /\ call[c].pc = "write"
  /\ e \in Event /\ Insert(e)
  /\ state' = call[c].next
  /\ payload' = [payload EXCEPT ![e] = <<call[c].prior, call[c].next>>]
  /\ call' = [call EXCEPT ![c] = Idle]
  /\ UNCHANGED <<first, overlapped>>

\* ROLLBACK, or the death of the process: nothing is written.
RollbackTransition(c) ==
  /\ call[c].pc # "idle"
  /\ call' = [call EXCEPT ![c] = Idle]
  /\ UNCHANGED <<vars, state, payload, first, overlapped>>
-----------------------------------------------------------------------------
(* reconcileWorkflows().                                                   *)

\* The listing leaves out terminal orders.
ListWorkflows(c) ==
  /\ c \in Reconciler
  /\ call[c].pc = "idle" /\ RowsLeft
  /\ state \notin Terminal \cup {"absent"}
  /\ call' = [call EXCEPT ![c] = [Idle EXCEPT !.pc = "listed", !.prior = state]]
  /\ UNCHANGED <<vars, state, payload, first, overlapped>>

\* recommend(), for what fetchOnChainEscrowStatus() may answer: the events that
\* are sent without asking anybody.
Recommend(listed) == IF listed = "ESCROW_FUNDED" THEN {"SETTLE", "CANCEL"} ELSE {}

\* Mutant: the transition starts from the state that was listed.
Remediate_Listed(c) ==
  /\ call[c].pc = "listed"
  /\ \E event \in Recommend(call[c].prior) : BeginTransition(c, call[c].prior, event)

\* The order is read again before the transition.
Remediate(c) ==
  /\ call[c].pc = "listed"
  /\ \E event \in Recommend(call[c].prior) : BeginTransition(c, state, event)
-----------------------------------------------------------------------------
WorkflowInit ==
  /\ Init
  /\ state \in Start
  /\ first = state
  /\ call = [c \in Call |-> Idle]
  /\ payload = [e \in Event |-> <<"absent", "absent">>]
  /\ overlapped = FALSE

\* What relays do goes on beside the transitions.
RelayStep ==
  /\ \/ \E e \in Event : Due(e)
     \/ \E r \in Relay : Cycle(r) \/ Crash(r)
  /\ UNCHANGED workflowVars

WorkflowNext ==
  \/ CreateWorkflow
  \/ \E c \in Call : \/ \E event \in PurchaseEvent : Transition(c, event)
                     \/ CommitTransition(c)
                     \/ RollbackTransition(c)
                     \/ ListWorkflows(c)
                     \/ Remediate(c)
  \/ RelayStep

\* Only the relays are bound to go on.
WorkflowSpec == WorkflowInit /\ [][WorkflowNext]_allVars /\ Fairness
-----------------------------------------------------------------------------
(* Properties.                                                             *)

\* The variables of this module keep their types.
WorkflowTypeOK ==
  /\ state \in PurchaseState \cup {"absent"}
  /\ call \in [Call -> CallState]
  /\ payload \in [Event -> (PurchaseState \cup {"absent"}) \X (PurchaseState \cup {"absent"})]
  /\ overlapped \in BOOLEAN

\* The events written so far, in the order of their commits.
Written == {e \in Event : rows[e].status # "none"}
Follows(e, f) == rows[f].created = rows[e].created + 1

\* "persist the new state and enqueue its notification event in one transaction":
\* whatever is delayed, overlaps, fails or crashes, the order is in the state that
\* the event written last announces.
StateIsAnnounced ==
  IF Written = {}
    THEN state = first \/ (first = "absent" /\ state = "INITIATED")
    ELSE \E e \in Written : /\ ~\E f \in Written : Follows(e, f)
                            /\ payload[e][2] = state

\* Until two transitions overlap the events tell one run of the state machine:
\* each one leaves the state that the previous one entered, by an event this state
\* accepts, and none leaves a terminal state, reconcilers and timeouts included.
HistoryIsLegal ==
  ~overlapped =>
    /\ \A e \in Written : \E t \in Transitions : payload[e] = <<t[1], t[3]>>
    /\ \A e, f \in Written : Follows(e, f) => payload[e][2] = payload[f][1]
=============================================================================
