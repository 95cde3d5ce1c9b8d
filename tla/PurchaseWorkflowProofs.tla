----------------------- MODULE PurchaseWorkflowProofs -----------------------
(***************************************************************************)
(* Proofs about PurchaseWorkflow, for any number of callers, relays,       *)
(* events and faults and every state an order may be found in.             *)
(***************************************************************************)
EXTENDS PurchaseWorkflow, ServiceEventOutboxProofs

Count == Cardinality(Written)

\* Rows are numbered from zero in the order of their commits, and the one written
\* last announces the state.
LastAnnounces ==
  /\ \A e \in Written : rows[e].created < Count
  /\ Written # {} => \E e \in Written : rows[e].created + 1 = Count
  /\ \A e \in Written : rows[e].created + 1 = Count => payload[e][2] = state
  /\ Written = {} => state = first \/ (first = "absent" /\ state = "INITIATED")

Legal(edge) == \E t \in Transitions : edge = <<t[1], t[3]>>

\* What a caller is about to write is a transition of the machine and, until two
\* overlap, starts from the state the order is in.
WritersOK ==
  /\ \A c \in Call : call[c].pc = "write" => Legal(<<call[c].prior, call[c].next>>)
  /\ ~overlapped =>
       /\ \A c \in Call : call[c].pc = "write" => call[c].prior = state
       /\ \A c, d \in Call : call[c].pc = "write" /\ call[d].pc = "write" => c = d

\* Relays hold rows that exist.
BatchesWritten == \A r \in Relay : \A e \in relay[r].batch : rows[e].status # "none"

\* The inductive invariant.
WorkflowInv ==
  /\ OutboxInv
  /\ BatchesWritten
  /\ WorkflowTypeOK
  /\ LastAnnounces
  /\ \A e \in Written : Legal(payload[e])
  /\ WritersOK
  /\ HistoryIsLegal

\* Transitions lead from a state to a state, so nothing leads to "absent".
LEMMA TransitionTypes ==
  \A t \in Transitions : t[1] \in PurchaseState /\ t[3] \in PurchaseState
BY DEF Transitions, PurchaseState

LEMMA AbsentIsNone == "absent" \notin PurchaseState
BY DEF PurchaseState

\* Events are finite in number, and one more makes the count larger by one.
LEMMA CountType == Count \in Nat /\ IsFiniteSet(Written)
BY OutboxAssumption, FS_Subset, FS_CardinalityType DEF Count, Written

LEMMA CountUp ==
  ASSUME NEW e \in Event, e \notin Written, Written' = Written \cup {e}
  PROVE  Count' = Count + 1
BY CountType, FS_AddElement DEF Count

\* An order that has been announced exists.
LEMMA AnnouncedExists ==
  ASSUME WorkflowInv, Written # {} PROVE state \in PurchaseState
<1>1. PICK e \in Written : rows[e].created + 1 = Count
  BY DEF WorkflowInv, LastAnnounces
<1>2. payload[e][2] = state
  BY <1>1 DEF WorkflowInv, LastAnnounces
<1>3. PICK t \in Transitions : payload[e] = <<t[1], t[3]>>
  BY DEF WorkflowInv, Legal
<1> QED BY <1>2, <1>3, TransitionTypes

\* Relays change neither which rows exist nor their order, and hold only rows
\* that exist.
LEMMA RelayRows ==
  ASSUME OutboxInv, BatchesWritten, RelayStep
  PROVE  /\ \A e \in Event : /\ rows'[e].status = "none" <=> rows[e].status = "none"
                             /\ rows'[e].created = rows[e].created
         /\ BatchesWritten'
<1>0. /\ rows \in [Event -> Row] /\ relay \in [Relay -> Worker]
      /\ \A r \in Relay : relay[r] \in Worker /\ HandOK(relay[r])
  BY DEF OutboxInv, TypeOK
<1> DEFINE Same == \A f \in Event : /\ rows'[f].status = "none" <=> rows[f].status = "none"
                                    /\ rows'[f].created = rows[f].created
<1>1. ASSUME NEW e \in Event, NEW row \in Row, rows' = [rows EXCEPT ![e] = row],
             row.created = rows[e].created, row.status # "none", rows[e].status # "none",
             \A r \in Relay : relay'[r].batch \subseteq relay[r].batch
      PROVE  Same /\ BatchesWritten'
  <2>1. Same
    BY <1>0, <1>1
  <2>2. \A r \in Relay : relay[r].batch \subseteq Event
    BY <1>0 DEF Worker
  <2> QED BY <1>1, <2>1, <2>2 DEF BatchesWritten
<1>2. ASSUME UNCHANGED rows, NEW r \in Relay, NEW w, relay' = [relay EXCEPT ![r] = w],
             \A e \in w.batch : rows[e].status # "none" \/ e \in relay[r].batch
      PROVE  Same /\ BatchesWritten'
  <2>1. \A q \in Relay : relay'[q] = IF q = r THEN w ELSE relay[q]
    BY <1>0, <1>2
  <2> QED BY <1>2, <2>1 DEF BatchesWritten
<1>3. ASSUME NEW e \in Event, Due(e) PROVE Same /\ BatchesWritten'
  <2> DEFINE row == [rows[e] EXCEPT !.due = TRUE]
  <2>1. row \in Row /\ row.status = rows[e].status /\ row.created = rows[e].created
    BY <1>0 DEF Row
  <2>2. rows' = [rows EXCEPT ![e] = row] /\ rows[e].status = "pending" /\ relay' = relay
    BY <1>3 DEF Due
  <2> HIDE DEF row
  <2> QED BY <1>1, <2>1, <2>2
<1>4. ASSUME NEW r \in Relay, Claim(r) PROVE Same /\ BatchesWritten'
  <2> DEFINE b == Oldest(Eligible)
             w == [relay[r] EXCEPT !.pc = "commit", !.batch = b]
  <2>1. \A e \in b : rows[e].status = "pending"
    BY DEF Oldest, Eligible
  <2> HIDE DEF b
  <2>2. w.batch = b /\ relay' = [relay EXCEPT ![r] = w] /\ UNCHANGED rows
    BY <1>0, <1>4 DEF Claim, b, Worker
  <2> HIDE DEF w
  <2> QED BY <1>2, <2>1, <2>2
<1>5. ASSUME UNCHANGED rows, \A q \in Relay : relay'[q].batch \in {{}, relay[q].batch}
      PROVE  Same /\ BatchesWritten'
  BY <1>5 DEF BatchesWritten
<1>6. ASSUME NEW r \in Relay, Commit(r) \/ Publish(r) \/ Crash(r)
      PROVE  Same /\ BatchesWritten'
  <2>1. UNCHANGED rows
    BY <1>6 DEF Commit, Publish, Crash
  <2>2. ASSUME NEW q \in Relay PROVE relay'[q].batch \in {{}, relay[q].batch}
    <3>1. relay[q] \in Worker /\ relay[r] \in Worker
      BY <1>0
    <3>2. CASE Commit(r)
      BY <1>0, <3>1, <3>2 DEF Commit, Worker
    <3>3. CASE Publish(r)
      <4>1. PICK e \in First(r), l \in {"mark", "fail"} :
              relay' = [relay EXCEPT ![r].pc = l, ![r].row = e]
        BY <3>3 DEF Publish
      <4> QED BY <1>0, <3>1, <4>1 DEF Worker
    <3>4. CASE Crash(r)
      BY <1>0, <3>1, <3>4 DEF Crash, FreshWorker
    <3> QED BY <1>6, <3>2, <3>3, <3>4
  <2> QED BY <1>5, <2>1, <2>2
<1>7. ASSUME NEW r \in Relay, relay[r].pc \in {"mark", "fail"}, NEW row \in Row,
             UNCHANGED rows \/ rows' = [rows EXCEPT ![relay[r].row] = row],
             \/ relay' = Advance(r)
             \/ relay' = [relay EXCEPT ![r].pc = "fail"]
             \/ relay' = [relay EXCEPT ![r].pc = "poll", ![r].batch = {}, ![r].row = NoEvent],
             row.created = rows[relay[r].row].created, row.status # "none"
      PROVE  Same /\ BatchesWritten'
  <2>1. relay[r].row \in relay[r].batch /\ relay[r].row \in Event
    BY <1>7, Leaves
  <2>2. PICK w \in Worker : relay' = [relay EXCEPT ![r] = w] /\ w.batch \subseteq relay[r].batch
    BY <1>7, Leaves
  <2>3. rows[relay[r].row].status # "none"
    BY <2>1 DEF BatchesWritten
  <2>4. \A q \in Relay : relay'[q].batch \subseteq relay[q].batch
    BY <1>0, <2>2
  <2>5. CASE UNCHANGED rows
    BY <1>2, <2>2, <2>5
  <2>6. CASE rows' = [rows EXCEPT ![relay[r].row] = row]
    BY <1>1, <1>7, <2>1, <2>3, <2>4, <2>6
  <2> QED BY <1>7, <2>5, <2>6
<1>8. ASSUME NEW r \in Relay, Mark(r) PROVE Same /\ BatchesWritten'
  <2> DEFINE e == relay[r].row
             row == [rows[e] EXCEPT !.status = "published"]
  <2>1. relay[r].pc = "mark" /\ e \in Event
    BY <1>0, <1>8 DEF Mark, At, HandOK, Worker
  <2>2. row \in Row /\ row.status = "published" /\ row.created = rows[e].created
    BY <1>0, <2>1 DEF Row
  <2>3. UNCHANGED rows \/ rows' = [rows EXCEPT ![e] = row]
    BY <1>8 DEF Mark
  <2> HIDE DEF row
  <2> QED BY <1>7, <1>8, <2>1, <2>2, <2>3 DEF Mark
<1>9. ASSUME NEW r \in Relay, RecordFailure(r) PROVE Same /\ BatchesWritten'
  <2> DEFINE e == relay[r].row
             row == Failed(rows[e])
  <2>1. relay[r].pc = "fail" /\ e \in Event
    BY <1>0, <1>9 DEF RecordFailure, At, HandOK, Worker
  <2>2. rows[e] \in Row /\ rows[e].attempts + 1 \in Nat
    BY <1>0, <2>1 DEF Row
  <2>3. row \in Row /\ row.status # "none"
    BY <2>2, FailedRow
  <2>4. row.created = rows[e].created
    BY <2>2 DEF Row, Failed
  <2>5. UNCHANGED rows \/ rows' = [rows EXCEPT ![e] = row]
    BY <1>9 DEF RecordFailure
  <2> HIDE DEF row
  <2> QED BY <1>7, <1>9, <2>1, <2>3, <2>4, <2>5 DEF RecordFailure
<1> QED
  BY <1>3, <1>4, <1>6, <1>8, <1>9 DEF RelayStep, Cycle

\* What relays do keeps the invariant.
LEMMA RelayKeeps == ASSUME WorkflowInv, RelayStep PROVE WorkflowInv'
<1>1. OutboxInv'
  BY NextKeeps DEF RelayStep, Next, WorkflowInv
<1>2. /\ \A e \in Event : /\ rows'[e].status = "none" <=> rows[e].status = "none"
                          /\ rows'[e].created = rows[e].created
      /\ BatchesWritten'
  BY RelayRows DEF WorkflowInv
<1>3. UNCHANGED <<state, call, payload, first, overlapped>>
  BY DEF RelayStep, workflowVars
<1>4. Written' = Written /\ Count' = Count /\ Written \subseteq Event
  BY <1>2 DEF Written, Count
<1>5. WorkflowTypeOK' /\ WritersOK'
  BY <1>3 DEF WorkflowInv, WorkflowTypeOK, WritersOK, Legal
<1>6. LastAnnounces'
  BY <1>2, <1>3, <1>4 DEF WorkflowInv, LastAnnounces
<1>7. (\A e \in Written : Legal(payload[e]))'
  BY <1>3, <1>4 DEF WorkflowInv, Legal
<1>8. HistoryIsLegal'
  BY <1>2, <1>3, <1>4 DEF WorkflowInv, HistoryIsLegal, Follows
<1> QED BY <1>1, <1>2, <1>5, <1>6, <1>7, <1>8 DEF WorkflowInv

\* A step of one caller that writes nothing, and is about to write only what
\* WritersOK allows.
LEMMA CallKeeps ==
  ASSUME WorkflowInv, NEW c \in Call, NEW w \in CallState,
         call' = [call EXCEPT ![c] = w],
         UNCHANGED <<vars, state, payload, first>>,
         overlapped' \in BOOLEAN, overlapped => overlapped',
         w.pc = "write" =>
           /\ w.prior = state /\ Legal(<<w.prior, w.next>>)
           /\ ~overlapped' => \A d \in Call \ {c} : call[d].pc # "write"
  PROVE  WorkflowInv'
<1>1. OutboxInv' /\ BatchesWritten'
  <2>1. OutboxInv'
    BY NextKeeps DEF WorkflowInv
  <2>2. BatchesWritten'
    BY DEF WorkflowInv, BatchesWritten, vars
  <2> QED BY <2>1, <2>2
<1>2. \A d \in Call : call'[d] = IF d = c THEN w ELSE call[d]
  BY DEF WorkflowInv, WorkflowTypeOK
<1>3. WorkflowTypeOK'
  BY DEF WorkflowInv, WorkflowTypeOK
<1>4. Written' = Written /\ Count' = Count /\ UNCHANGED rows
  BY DEF Written, Count, vars
<1>5. LastAnnounces' /\ (\A e \in Written : Legal(payload[e]))'
  BY <1>4 DEF WorkflowInv, LastAnnounces, Legal
<1>6. WritersOK'
  <2>1. (\A d \in Call : call[d].pc = "write" => Legal(<<call[d].prior, call[d].next>>))'
    BY <1>2 DEF WorkflowInv, WritersOK, Legal
  <2>2. ASSUME ~overlapped'
        PROVE  /\ \A d \in Call : call'[d].pc = "write" => call'[d].prior = state
               /\ \A b, d \in Call : call'[b].pc = "write" /\ call'[d].pc = "write" => b = d
    BY <1>2, <2>2 DEF WorkflowInv, WritersOK
  <2> QED BY <2>1, <2>2 DEF WritersOK
<1>7. HistoryIsLegal'
  BY <1>4 DEF WorkflowInv, HistoryIsLegal, Follows
<1> QED BY <1>1, <1>3, <1>5, <1>6, <1>7 DEF WorkflowInv

\* The beginning of a transition, by whoever asks for it.
LEMMA BeginKeeps ==
  ASSUME WorkflowInv, NEW c \in Call, NEW event, BeginTransition(c, state, event)
  PROVE  WorkflowInv'
<1>1. PICK s \in ApplyEvent(state, event) :
        call' = [call EXCEPT ![c] = [pc |-> "write", prior |-> state, next |-> s]]
  BY DEF BeginTransition
<1>2. PICK t \in Transitions : t[1] = state /\ t[3] = s
  BY DEF ApplyEvent
<1> DEFINE w == [pc |-> "write", prior |-> state, next |-> s]
<1>3. w \in CallState /\ w.pc = "write" /\ w.prior = state /\ w.next = s
  BY <1>2, TransitionTypes DEF CallState
<1>4. Legal(<<state, s>>)
  BY <1>2 DEF Legal
<1>5. call' = [call EXCEPT ![c] = w]
  BY <1>1
<1> HIDE DEF w
<1>6. /\ UNCHANGED <<vars, state, payload, first>>
      /\ overlapped' = (overlapped \/ \E d \in Call \ {c} : call[d].pc = "write")
  BY DEF BeginTransition
<1>7. /\ overlapped' \in BOOLEAN /\ overlapped => overlapped'
      /\ ~overlapped' => \A d \in Call \ {c} : call[d].pc # "write"
  BY <1>6, Zenon DEF WorkflowInv, WorkflowTypeOK
<1> QED BY <1>3, <1>4, <1>5, <1>6, <1>7, CallKeeps

\* The order is created: until then nobody has read or announced anything.
LEMMA CreateKeeps == ASSUME WorkflowInv, CreateWorkflow PROVE WorkflowInv'
<1>1. /\ state = "absent" /\ state' = "INITIATED"
      /\ UNCHANGED <<vars, call, payload, first, overlapped>>
  BY DEF CreateWorkflow
<1>2. OutboxInv' /\ BatchesWritten'
  <2>1. OutboxInv'
    BY <1>1, NextKeeps DEF WorkflowInv
  <2>2. BatchesWritten'
    BY <1>1 DEF WorkflowInv, BatchesWritten, vars
  <2> QED BY <2>1, <2>2
<1>3. Written = {}
  BY <1>1, AnnouncedExists, AbsentIsNone
<1>4. Written' = Written /\ UNCHANGED rows
  BY <1>1 DEF Written, vars
<1>5. LastAnnounces'
  BY <1>1, <1>3, <1>4, AbsentIsNone DEF WorkflowInv, LastAnnounces, PurchaseState
<1>6. WorkflowTypeOK'
  BY <1>1 DEF WorkflowInv, WorkflowTypeOK, PurchaseState
<1>7. WritersOK'
  <2>1. ASSUME ~overlapped, NEW c \in Call, call[c].pc = "write" PROVE FALSE
    <3>1. call[c].prior = "absent" /\ Legal(<<call[c].prior, call[c].next>>)
      BY <1>1, <2>1 DEF WorkflowInv, WritersOK
    <3> QED BY <3>1, TransitionTypes, AbsentIsNone DEF Legal
  <2> QED BY <1>1, <2>1 DEF WorkflowInv, WritersOK, Legal
<1>8. HistoryIsLegal' /\ (\A e \in Written : Legal(payload[e]))'
  BY <1>3, <1>4 DEF HistoryIsLegal
<1> QED BY <1>2, <1>5, <1>6, <1>7, <1>8 DEF WorkflowInv

\* The transaction: the new row is the last one, and announces the new state.
LEMMA CommitKeeps ==
  ASSUME WorkflowInv, NEW c \in Call, CommitTransition(c) PROVE WorkflowInv'
<1> DEFINE e == NextRow
           new == <<call[c].prior, call[c].next>>
<1>1. /\ call[c].pc = "write" /\ e \in Event /\ Insert(e)
      /\ state' = call[c].next
      /\ payload' = [payload EXCEPT ![e] = new]
      /\ call' = [call EXCEPT ![c] = Idle]
      /\ UNCHANGED <<first, overlapped>>
  BY DEF CommitTransition
<1> HIDE DEF e
<1>2. OutboxInv'
  BY <1>1, NextKeeps DEF WorkflowInv, Next
<1>3. /\ rows \in [Event -> Row] /\ call \in [Call -> CallState]
      /\ payload \in [Event -> (PurchaseState \cup {"absent"}) \X (PurchaseState \cup {"absent"})]
      /\ overlapped \in BOOLEAN
  BY DEF WorkflowInv, OutboxInv, TypeOK, WorkflowTypeOK
<1>4. /\ rows[e].status = "none" /\ relay' = relay
      /\ \A f \in Event \ {e} : rows'[f] = rows[f]
      /\ rows'[e].status = "pending" /\ rows'[e].created = Count
  BY <1>1, <1>3 DEF Insert, Count, Written
<1>5. e \notin Written /\ Written' = Written \cup {e} /\ Written \subseteq Event
  BY <1>1, <1>4 DEF Written
<1>6. Count' = Count + 1 /\ Count \in Nat
  BY <1>1, <1>5, CountUp, CountType
<1>7. \A f \in Written : rows'[f] = rows[f] /\ payload'[f] = payload[f] /\ rows[f].created \in Nat
  BY <1>1, <1>3, <1>4, <1>5 DEF Row
<1>8. payload'[e] = new /\ new[1] = call[c].prior /\ new[2] = call[c].next
  BY <1>1, <1>3
<1>9. Legal(new)
  BY <1>1 DEF WorkflowInv, WritersOK
<1>10. new \in PurchaseState \X PurchaseState /\ call[c].next \in PurchaseState
  BY <1>9, TransitionTypes DEF Legal
<1> HIDE DEF new
<1>11. BatchesWritten'
  <2>1. \A r \in Relay : relay[r].batch \subseteq Event
    BY DEF WorkflowInv, OutboxInv, TypeOK, Worker
  <2> QED BY <1>4, <2>1 DEF WorkflowInv, BatchesWritten
<1>12. \A d \in Call : call'[d] = IF d = c THEN Idle ELSE call[d]
  BY <1>1, <1>3
<1>13. WorkflowTypeOK'
  <2>1. Idle \in CallState
    BY DEF Idle, CallState
  <2> QED BY <1>1, <1>3, <1>10, <2>1 DEF WorkflowTypeOK
<1>14. LastAnnounces'
  <2>1. \A f \in Written' : rows'[f].created < Count'
    BY <1>4, <1>5, <1>6, <1>7 DEF WorkflowInv, LastAnnounces
  <2>2. e \in Written' /\ rows'[e].created + 1 = Count'
    BY <1>4, <1>5, <1>6
  <2>3. \A f \in Written' : rows'[f].created + 1 = Count' => f = e
    BY <1>5, <1>6, <1>7 DEF WorkflowInv, LastAnnounces
  <2>4. payload'[e][2] = state'
    BY <1>1, <1>8
  <2> QED BY <2>1, <2>2, <2>3, <2>4 DEF LastAnnounces
<1>15. (\A f \in Written : Legal(payload[f]))'
  BY <1>5, <1>7, <1>8, <1>9 DEF WorkflowInv, Legal
<1>16. WritersOK'
  <2>1. Idle.pc # "write"
    BY DEF Idle
  <2>2. (\A d \in Call : call[d].pc = "write" => Legal(<<call[d].prior, call[d].next>>))'
    BY <1>12, <2>1 DEF WorkflowInv, WritersOK, Legal
  <2>3. ~overlapped' => \A d \in Call : call'[d].pc # "write"
    BY <1>1, <1>12, <2>1 DEF WorkflowInv, WritersOK
  <2> QED BY <2>2, <2>3 DEF WritersOK
<1>17. HistoryIsLegal'
  <2> SUFFICES ASSUME ~overlapped'
               PROVE  /\ \A f \in Written' : \E t \in Transitions : payload'[f] = <<t[1], t[3]>>
                      /\ \A f, g \in Written' : rows'[g].created = rows'[f].created + 1
                           => payload'[f][2] = payload'[g][1]
    BY DEF HistoryIsLegal, Follows
  <2>1. \A f \in Written' : \E t \in Transitions : payload'[f] = <<t[1], t[3]>>
    BY <1>15 DEF Legal
  <2>2. ASSUME NEW f \in Written, NEW g \in Written, rows'[g].created = rows'[f].created + 1
        PROVE  payload'[f][2] = payload'[g][1]
    BY <1>1, <1>7, <2>2 DEF WorkflowInv, HistoryIsLegal, Follows
  <2>3. ASSUME NEW f \in Written, rows'[e].created = rows'[f].created + 1
        PROVE  payload'[f][2] = payload'[e][1]
    <3>1. payload[f][2] = state
      BY <1>4, <1>7, <2>3 DEF WorkflowInv, LastAnnounces
    <3>2. call[c].prior = state
      BY <1>1 DEF WorkflowInv, WritersOK
    <3> QED BY <1>7, <1>8, <3>1, <3>2
  <2>4. \A g \in Written' : rows'[g].created # rows'[e].created + 1
    BY <1>4, <1>5, <1>6, <1>7 DEF WorkflowInv, LastAnnounces
  <2> QED BY <1>5, <2>1, <2>2, <2>3, <2>4
<1> QED BY <1>2, <1>11, <1>13, <1>14, <1>15, <1>16, <1>17 DEF WorkflowInv

\* Every step keeps the invariant.
LEMMA WorkflowNextKeeps == ASSUME WorkflowInv, [WorkflowNext]_allVars PROVE WorkflowInv'
<1>1. ASSUME NEW c \in Call, NEW w \in CallState, w.pc # "write",
             call' = [call EXCEPT ![c] = w], UNCHANGED <<vars, state, payload, first, overlapped>>
      PROVE  WorkflowInv'
  BY <1>1, CallKeeps DEF WorkflowInv, WorkflowTypeOK
<1>2. ASSUME NEW c \in Call, RollbackTransition(c) PROVE WorkflowInv'
  <2>1. Idle \in CallState /\ Idle.pc # "write"
    BY DEF Idle, CallState
  <2> QED BY <1>1, <1>2, <2>1 DEF RollbackTransition
<1>3. ASSUME NEW c \in Call, ListWorkflows(c) PROVE WorkflowInv'
  <2> DEFINE w == [Idle EXCEPT !.pc = "listed", !.prior = state]
  <2>1. w \in CallState /\ w.pc # "write"
    BY DEF Idle, CallState, WorkflowInv, WorkflowTypeOK
  <2>2. call' = [call EXCEPT ![c] = w] /\ UNCHANGED <<vars, state, payload, first, overlapped>>
    BY <1>3 DEF ListWorkflows
  <2> HIDE DEF w
  <2> QED BY <1>1, <2>1, <2>2
<1>4. ASSUME NEW c \in Call, NEW event \in PurchaseEvent, Transition(c, event) PROVE WorkflowInv'
  BY <1>4, BeginKeeps DEF Transition
<1>5. ASSUME NEW c \in Call, Remediate(c) PROVE WorkflowInv'
  BY <1>5, BeginKeeps DEF Remediate
<1>6. CASE UNCHANGED allVars
  <2>1. /\ UNCHANGED vars /\ UNCHANGED <<state, call, payload, first, overlapped>>
        /\ UNCHANGED <<rows, relay>>
    BY <1>6 DEF allVars, workflowVars, vars
  <2>2. OutboxInv' /\ BatchesWritten'
    BY <2>1, NextKeeps DEF WorkflowInv, BatchesWritten
  <2>3. Written' = Written /\ Count' = Count
    BY <2>1 DEF Written, Count
  <2>4. WorkflowTypeOK' /\ LastAnnounces' /\ (\A e \in Written : Legal(payload[e]))' /\ WritersOK'
    BY <2>1, <2>3 DEF WorkflowInv, WorkflowTypeOK, LastAnnounces, WritersOK, Legal
  <2>5. HistoryIsLegal'
    BY <2>1, <2>3 DEF WorkflowInv, HistoryIsLegal, Follows
  <2> QED BY <2>2, <2>4, <2>5 DEF WorkflowInv
<1> QED
  BY <1>2, <1>3, <1>4, <1>5, <1>6, CreateKeeps, CommitKeeps, RelayKeeps DEF WorkflowNext

LEMMA WorkflowInitOK == WorkflowInit => WorkflowInv
<1> SUFFICES ASSUME WorkflowInit PROVE WorkflowInv
  OBVIOUS
<1>1. OutboxInv
  BY InitOK DEF WorkflowInit
<1>2. Written = {} /\ BatchesWritten
  BY DEF WorkflowInit, Init, Written, BatchesWritten, FreshWorker
<1>3. Idle \in CallState /\ Idle.pc # "write"
  BY DEF Idle, CallState
<1>4. WorkflowTypeOK
  BY <1>3, WorkflowAssumption DEF WorkflowInit, WorkflowTypeOK
<1>5. LastAnnounces
  BY <1>2 DEF WorkflowInit, LastAnnounces
<1>6. WritersOK
  BY <1>3 DEF WorkflowInit, WritersOK
<1> QED BY <1>1, <1>2, <1>4, <1>5, <1>6 DEF WorkflowInv, HistoryIsLegal

\* The invariant holds throughout.
LEMMA WorkflowInvariant == WorkflowSpec => []WorkflowInv
BY WorkflowInitOK, WorkflowNextKeeps, PTL DEF WorkflowSpec

\* Whatever overlaps, fails or crashes, the order is in the state that the event
\* written last announces.
THEOREM StateAlwaysAnnounced == WorkflowSpec => []StateIsAnnounced
<1>1. ASSUME WorkflowInv PROVE StateIsAnnounced
  <2>1. CASE Written = {}
    BY <1>1, <2>1 DEF WorkflowInv, LastAnnounces, StateIsAnnounced
  <2>2. CASE Written # {}
    <3>1. PICK e \in Written : rows[e].created + 1 = Count
      BY <1>1, <2>2 DEF WorkflowInv, LastAnnounces
    <3>2. payload[e][2] = state
      BY <1>1, <3>1 DEF WorkflowInv, LastAnnounces
    <3>3. \A f \in Written : rows[f].created < Count /\ rows[f].created \in Nat
      BY <1>1 DEF WorkflowInv, LastAnnounces, OutboxInv, TypeOK, Row, Written
    <3>4. ~\E f \in Written : Follows(e, f)
      BY <3>1, <3>3, CountType DEF Follows
    <3> QED BY <2>2, <3>2, <3>4 DEF StateIsAnnounced
  <2> QED BY <2>1, <2>2
<1> QED BY <1>1, WorkflowInvariant, PTL

\* Until two transitions overlap, the events tell one legal run of the machine.
THEOREM HistoryAlwaysLegal == WorkflowSpec => []HistoryIsLegal
<1>1. WorkflowInv => HistoryIsLegal
  BY DEF WorkflowInv
<1> QED BY <1>1, WorkflowInvariant, PTL

\* Every variable of the workflow keeps its type.
THEOREM WorkflowTypesKept == WorkflowSpec => []WorkflowTypeOK
<1>1. WorkflowInv => WorkflowTypeOK
  BY DEF WorkflowInv
<1> QED BY <1>1, WorkflowInvariant, PTL
=============================================================================
