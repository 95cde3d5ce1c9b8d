-------------------------- MODULE CheckoutInventory --------------------------
(***************************************************************************)
(* Stock reservation: checkoutWorkflow() (orchestrator/workflows/checkout) *)
(* reserves an order's stock, drives its saga and gives the stock back     *)
(* when the saga does not complete, through InventoryReservationService    *)
(* (orchestrator/src/inventory/reservation.ts); payments offers its own    *)
(* reserve and release on the same tables (payments/src/inventory).        *)
(*                                                                         *)
(* Transactions take Postgres row locks one statement at a time and hold   *)
(* them to the end; their writes are applied at COMMIT, which nobody sees  *)
(* earlier because every written row is locked.  The saga is the abstract  *)
(* SagaOutcome, one per order.                                             *)
(***************************************************************************)
EXTENDS Integers, FiniteSets, FiniteSetsExt

CONSTANTS
  Order, Product,
  Basket,      \* Basket[o][p]: units of p in order o, 0 when it has none
  Stock,       \* Stock[p]: units a merchant starts with
  rank,        \* how many product keys come after it in localeCompare order
  Task,        \* concurrent calls
  Limits,      \* how often each kind of external event may happen
  NoTask

\* Checkouts and reservations of payments, releases of payments, and faults: run()
\* returns a saga that another process drives, a call to Postgres, Redis or the saga store
\* rejects, a redlock is given up after ten retries or outlives its 10 seconds,
\* a process dies.
Kinds == {"calls", "payReleases", "faults"}

ASSUME BasketAssumption ==
  /\ Order # {} /\ IsFiniteSet(Order)
  /\ Basket \in [Order -> [Product -> Nat]]
ASSUME StockAssumption == Stock \in [Product -> Nat]
ASSUME RankAssumption ==
  /\ rank \in [Product -> Nat]
  /\ \A p, q \in Product : rank[p] = rank[q] => p = q
ASSUME TaskAssumption == NoTask \notin Task
ASSUME LimitsAssumption == Limits \in [Kinds -> Nat]

VARIABLES
  stock,      \* merchant_inventory: available and reserved units per product
  line,       \* merchant_inventory_reservations: status per order and product
  redlock,    \* the Redis lock of a product
  stockLock,  \* holder of the row lock of a merchant_inventory row
  lineLock,   \* holder of the row lock (or uncommitted insert) of a reservation
  task,       \* the local state of every call
  saga,       \* the saga of every order
  budget      \* what is left of Limits

rowLocks == <<stockLock, lineLock>>
tables == <<stock, line>>
vars == <<stock, line, redlock, stockLock, lineLock, task, saga, budget>>

Saga(o) == INSTANCE SagaOutcome WITH
  StepCount <- 1, status <- saga[o].status, done <- saga[o].done
SagaState == [status : {"absent", "running", "compensating", "completed", "compensated"},
              done : SUBSET (1..1)]

Items(o) == {p \in Product : Basket[o][p] > 0}
-----------------------------------------------------------------------------
Jobs == {"reserve", "release", "payReserve", "payRelease"}
Labels == {"idle", "redlock", "row", "line", "find", "restore", "commit", "rollback",
           "unlock", "run", "driving"}
TaskState == [pc : Labels, job : Jobs, order : Order, items : SUBSET Product,
              left : SUBSET Product, failed : BOOLEAN]

At(t, label) == task[t].pc = label
Goto(t, label) == task' = [task EXCEPT ![t].pc = label]
Spend(kind) == /\ budget[kind] > 0
               /\ budget' = [budget EXCEPT ![kind] = @ - 1]

\* A call begins with all its items to do.
Begin(t, label, job, o, items) ==
  task' = [task EXCEPT ![t] = [pc |-> label, job |-> job, order |-> o, items |-> items,
                               left |-> items, failed |-> FALSE]]
Fail(t) == task' = [task EXCEPT ![t].pc = "rollback", ![t].failed = TRUE]

Reserves(t) == task[t].job \in {"reserve", "payReserve"}
Quantity(t, p) == Basket[task[t].order][p]

\* Mutant: items are handled in the order in which they were sent, which is not the
\* same for every order.
IsNext_Unsorted(t, p) ==
  /\ p \in task[t].left
  /\ \A q \in task[t].left :
       IF task[t].order = CHOOSE o \in Order : TRUE THEN rank[p] <= rank[q]
                                                   ELSE rank[p] >= rank[q]

\* orderedItems: by merchant and product key.
IsNext(t, p) ==
  /\ p \in task[t].left
  /\ \A q \in task[t].left : rank[p] >= rank[q]
-----------------------------------------------------------------------------
(* Calls.                                                                  *)

\* checkoutWorkflow() with inventory items: reserve() comes first.
Checkout(t, o) ==
  /\ At(t, "idle") /\ Items(o) # {}
  /\ Spend("calls")
  /\ Begin(t, "redlock", "reserve", o, Items(o))
  /\ UNCHANGED <<tables, redlock, rowLocks, saga>>

\* POST /inventory/reserve of payments.
PayReserve(t, o, p) ==
  /\ At(t, "idle") /\ p \in Items(o)
  /\ Spend("calls")
  /\ Begin(t, "row", "payReserve", o, {p})
  /\ UNCHANGED <<tables, redlock, rowLocks, saga>>

\* POST /inventory/reservations/:id/release of payments, for a known id.
PayRelease(t, o, p) ==
  /\ At(t, "idle") /\ line[o][p] # "none"
  /\ Spend("payReleases")
  /\ Begin(t, "find", "payRelease", o, {p})
  /\ UNCHANGED <<tables, redlock, rowLocks, saga>>
-----------------------------------------------------------------------------
(* updateReservation() and its counterparts in payments.                   *)

\* redlock.acquire(resources, 10_000): all products at once, or after its
\* retries an error thrown before the try block.
AcquireRedlock(t) ==
  /\ At(t, "redlock")
  /\ \/ /\ \A p \in task[t].items : redlock[p] = NoTask
        /\ redlock' = [p \in Product |-> IF p \in task[t].items THEN t ELSE redlock[p]]
        /\ Goto(t, "row")
        /\ UNCHANGED budget
     \/ /\ \E p \in task[t].items : redlock[p] # NoTask
        /\ Spend("faults")
        /\ Goto(t, "idle")
        /\ UNCHANGED redlock
  /\ UNCHANGED <<tables, rowLocks, saga>>

\* Mutant: the stock is not compared with the quantity.
Enough_Unchecked(t, p) == TRUE

Enough(t, p) ==
  Quantity(t, p) <= IF Reserves(t) THEN stock[p].available ELSE stock[p].reserved

\* SELECT ... FOR UPDATE of the next item's inventory row, the stock test and
\* the UPDATE that moves the units.
MoveStock(t) ==
  \E p \in Product :
    /\ At(t, "row") /\ IsNext(t, p)
    /\ stockLock[p] = NoTask
    /\ stockLock' = [stockLock EXCEPT ![p] = t]
    /\ IF Enough(t, p) THEN Goto(t, "line") ELSE Fail(t)
    /\ UNCHANGED <<tables, redlock, lineLock, saga, budget>>

\* Mutant: the insert is an upsert, nothing tells a repeated reservation.
RecordLine_Upsert(t) ==
  \E p \in Product :
    LET o == task[t].order IN
    /\ At(t, "line") /\ IsNext(t, p)
    /\ lineLock[o][p] = NoTask
    /\ lineLock' = [lineLock EXCEPT ![o][p] = t]
    /\ task' = [task EXCEPT
         ![t].left = @ \ {p},
         ![t].pc = IF task[t].left = {p} THEN "commit" ELSE "row"]
    /\ UNCHANGED <<tables, redlock, stockLock, saga, budget>>

\* The item's reservation row: an insert that fails on the unique index, or an
\* update of a row that is still reserved.  A release goes on when no row
\* matches.
RecordLine(t) ==
  \E p \in Product :
    LET o == task[t].order
        wanted == IF Reserves(t) THEN "none" ELSE "reserved"
    IN
    /\ At(t, "line") /\ IsNext(t, p)
    /\ lineLock[o][p] = NoTask
    /\ IF Reserves(t) /\ line[o][p] # "none"
         THEN Fail(t) /\ UNCHANGED lineLock
         ELSE /\ lineLock' = IF line[o][p] = wanted
                               THEN [lineLock EXCEPT ![o][p] = t] ELSE lineLock
              /\ task' = [task EXCEPT
                   ![t].left = @ \ {p},
                   ![t].pc = IF task[t].left = {p} THEN "commit" ELSE "row"]
    /\ UNCHANGED <<tables, redlock, stockLock, saga, budget>>

\* releaseReservation() of payments: lock the reservation first; one that is
\* not reserved any more ends the call.
FindReservation(t) ==
  \E p \in task[t].items :
    LET o == task[t].order IN
    /\ At(t, "find")
    /\ lineLock[o][p] = NoTask
    /\ IF line[o][p] = "reserved"
         THEN lineLock' = [lineLock EXCEPT ![o][p] = t] /\ Goto(t, "restore")
         ELSE Goto(t, "idle") /\ UNCHANGED lineLock
    /\ UNCHANGED <<tables, redlock, stockLock, saga, budget>>

\* ... then the inventory row, whose CHECK (reserved_stock >= 0) may refuse.
RestoreStock(t) ==
  \E p \in task[t].left :
    /\ At(t, "restore")
    /\ stockLock[p] = NoTask
    /\ stockLock' = [stockLock EXCEPT ![p] = t]
    /\ IF Enough(t, p)
         THEN task' = [task EXCEPT ![t].pc = "commit", ![t].left = {}]
         ELSE Fail(t)
    /\ UNCHANGED <<tables, redlock, lineLock, saga, budget>>

\* COMMIT and ROLLBACK give up every row lock of the transaction.
Unlocked(t) ==
  /\ stockLock' = [p \in Product |-> IF stockLock[p] = t THEN NoTask ELSE stockLock[p]]
  /\ lineLock' = [o \in Order |-> [p \in Product |->
                    IF lineLock[o][p] = t THEN NoTask ELSE lineLock[o][p]]]

\* What COMMIT makes visible.
Moved(t, p) ==
  IF Reserves(t)
    THEN [available |-> stock[p].available - Quantity(t, p),
          reserved |-> stock[p].reserved + Quantity(t, p)]
    ELSE [available |-> stock[p].available + Quantity(t, p),
          reserved |-> stock[p].reserved - Quantity(t, p)]
Written(t) ==
  /\ stock' = [p \in Product |-> IF p \in task[t].items THEN Moved(t, p) ELSE stock[p]]
  /\ line' = [o \in Order |-> [p \in Product |->
                IF lineLock[o][p] = t THEN IF Reserves(t) THEN "reserved" ELSE "released"
                                      ELSE line[o][p]]]

\* Where a transaction goes when it is over: payments answers at once.
Leave(t, failed) ==
  task' = [task EXCEPT
    ![t].pc = IF task[t].job \in {"reserve", "release"} THEN "unlock" ELSE "idle",
    ![t].failed = failed]

\* COMMIT; its answer may be lost, and the caller sees an error.
Commit(t) ==
  /\ At(t, "commit")
  /\ Written(t) /\ Unlocked(t)
  /\ \/ Leave(t, FALSE) /\ UNCHANGED budget
     \/ Leave(t, TRUE) /\ Spend("faults")
  /\ UNCHANGED <<redlock, saga>>

Rollback(t) ==
  /\ At(t, "rollback")
  /\ Unlocked(t)
  /\ Leave(t, TRUE)
  /\ UNCHANGED <<tables, redlock, saga, budget>>

\* What follows updateReservation(): a failed reserve() is outside the try block
\* of checkoutWorkflow(), and nobody looks at a failed release().
AfterUpdate(t, failed) == IF task[t].job = "reserve" /\ ~failed THEN "run" ELSE "idle"

\* The finally block: lock.release() rejects when the lock has lapsed, or when
\* Redis does not answer, although the transaction is over.
ReleaseRedlock(t) ==
  LET lapsed == \E p \in task[t].items : redlock[p] # t IN
  /\ At(t, "unlock")
  /\ redlock' = [p \in Product |-> IF redlock[p] = t THEN NoTask ELSE redlock[p]]
  /\ \/ Goto(t, AfterUpdate(t, task[t].failed \/ lapsed)) /\ UNCHANGED budget
     \/ Goto(t, AfterUpdate(t, TRUE)) /\ Spend("faults")
  /\ UNCHANGED <<tables, rowLocks, saga>>
-----------------------------------------------------------------------------
(* The saga.                                                               *)

\* coordinator.run(): create() starts the saga unless it exists.
RunSaga(t) ==
  LET o == task[t].order IN
  /\ At(t, "run")
  /\ saga' = IF saga[o].status = "absent"
               THEN [saga EXCEPT ![o].status = "running"] ELSE saga
  /\ Goto(t, "driving")
  /\ UNCHANGED <<tables, redlock, rowLocks, budget>>

\* The saga moves on, driven by run() or by a recovery of another process.
SagaMoves(o) ==
  /\ saga[o].status # "absent"
  /\ \E s \in SagaState : saga' = [saga EXCEPT ![o] = s]
  /\ Saga(o)!Next
  /\ UNCHANGED <<tables, redlock, rowLocks, task, budget>>

\* Mutant: only an error of run() gives the stock back.
GiveBack_Thrown(t, status) ==
  IF status = "thrown" THEN Begin(t, "redlock", "release", task[t].order, Items(task[t].order))
                       ELSE Goto(t, "idle")

\* The stock is given back unless run() returned a completed saga.
GiveBack(t, status) ==
  IF status # "completed"
    THEN Begin(t, "redlock", "release", task[t].order, Items(task[t].order))
    ELSE Goto(t, "idle")

\* Mutant: a saga that is compensated does not end run().
RunReturns_Completed(t) ==
  /\ At(t, "driving")
  /\ saga[task[t].order].status = "completed"
  /\ GiveBack(t, "completed")
  /\ UNCHANGED <<tables, redlock, rowLocks, saga, budget>>

\* run() returns: with a finished saga, with one that another process is still
\* driving, or by throwing.
RunReturns(t) ==
  LET status == saga[task[t].order].status IN
  /\ At(t, "driving")
  /\ \/ status \in {"completed", "compensated"} /\ GiveBack(t, status) /\ UNCHANGED budget
     \/ Spend("faults") /\ GiveBack(t, status)
     \/ Spend("faults") /\ GiveBack(t, "thrown")
  /\ UNCHANGED <<tables, redlock, rowLocks, saga>>
-----------------------------------------------------------------------------
(* Failures.                                                               *)

\* A statement or the redlock request rejects.
Rejected(t) ==
  /\ Spend("faults")
  /\ \/ task[t].pc \in {"row", "line", "find", "restore", "commit"} /\ Fail(t)
     \/ At(t, "redlock") /\ Goto(t, "idle")
  /\ UNCHANGED <<tables, redlock, rowLocks, saga>>

\* The task whose row lock task t waits for.
Blocker(t) ==
  IF task[t].pc \in {"row", "restore"} THEN {stockLock[p] : p \in {q \in Product : IsNext(t, q)}}
  ELSE IF task[t].pc \in {"line", "find"}
    THEN {lineLock[task[t].order][p] : p \in {q \in Product : IsNext(t, q)}}
  ELSE {}
\* Tasks that wait for each other in a circle.
Circles == {c \in SUBSET Task : c # {} /\ \A t \in c : Blocker(t) \cap c # {}}

\* Postgres finds the circle and fails the statement of one of its members.
Deadlocked(t) ==
  /\ Blocker(t) \cap Task # {}
  /\ \E c \in Circles : t \in c
  /\ Fail(t)
  /\ UNCHANGED <<tables, redlock, rowLocks, saga, budget>>

\* The products of the lock that a call in progress holds.
Locked(t) ==
  IF task[t].pc \in {"row", "line", "commit", "rollback", "unlock"}
    THEN {p \in task[t].items : redlock[p] = t} ELSE {}

\* The one TTL of a call's lock runs out for all its products: the process stalls.
LapseRedlock(t) ==
  /\ Locked(t) # {}
  /\ Spend("faults")
  /\ redlock' = [p \in Product |-> IF p \in Locked(t) THEN NoTask ELSE redlock[p]]
  /\ UNCHANGED <<tables, rowLocks, task, saga>>

\* What a call that is over has left locked runs out as well.
ExpireRedlock(p) ==
  /\ redlock[p] # NoTask
  /\ p \notin Locked(redlock[p])
  /\ redlock' = [redlock EXCEPT ![p] = NoTask]
  /\ UNCHANGED <<tables, rowLocks, task, saga, budget>>

\* The process of a call dies; Postgres rolls its transaction back.
Crash(t) ==
  /\ ~At(t, "idle")
  /\ Spend("faults")
  /\ Unlocked(t)
  /\ Goto(t, "idle")
  /\ UNCHANGED <<tables, redlock, saga>>
-----------------------------------------------------------------------------
AnyOrder == CHOOSE o \in Order : TRUE

Init ==
  /\ stock = [p \in Product |-> [available |-> Stock[p], reserved |-> 0]]
  /\ line = [o \in Order |-> [p \in Product |-> "none"]]
  /\ redlock = [p \in Product |-> NoTask]
  /\ stockLock = [p \in Product |-> NoTask]
  /\ lineLock = [o \in Order |-> [p \in Product |-> NoTask]]
  /\ task = [t \in Task |-> [pc |-> "idle", job |-> "reserve", order |-> AnyOrder,
                             items |-> {}, left |-> {}, failed |-> FALSE]]
  /\ saga = [o \in Order |-> [status |-> "absent", done |-> {}]]
  /\ budget = Limits

Continue(t) ==
  \/ AcquireRedlock(t) \/ MoveStock(t) \/ RecordLine(t) \/ FindReservation(t)
  \/ RestoreStock(t) \/ Commit(t) \/ Rollback(t) \/ ReleaseRedlock(t)
  \/ RunSaga(t) \/ RunReturns(t) \/ Deadlocked(t)

Next ==
  \/ \E t \in Task, o \in Order :
       Checkout(t, o) \/ \E p \in Product : PayReserve(t, o, p) \/ PayRelease(t, o, p)
  \/ \E t \in Task : Continue(t) \/ Rejected(t) \/ LapseRedlock(t) \/ Crash(t)
  \/ \E o \in Order : SagaMoves(o)
  \/ \E p \in Product : ExpireRedlock(p)

Spec == Init /\ [][Next]_vars

\* Continuations run, statements get the locks that come free, Postgres breaks
\* circles, TTLs run out, and sagas are driven to their end.
Fairness ==
  /\ \A t \in Task : WF_vars(Continue(t))
  /\ \A o \in Order : WF_vars(SagaMoves(o))
  /\ \A p \in Product : WF_vars(ExpireRedlock(p))

LiveSpec == Spec /\ Fairness
-----------------------------------------------------------------------------
(* Properties.                                                             *)

\* Every variable keeps its type; in particular no stock column goes below
\* zero, although it is tested one statement before it is changed.
InventoryTypeOK ==
  /\ stock \in [Product -> [available : Nat, reserved : Nat]]
  /\ line \in [Order -> [Product -> {"none", "reserved", "released"}]]
  /\ redlock \in [Product -> Task \cup {NoTask}]
  /\ stockLock \in [Product -> Task \cup {NoTask}]
  /\ lineLock \in [Order -> [Product -> Task \cup {NoTask}]]
  /\ task \in [Task -> TaskState]
  /\ saga \in [Order -> SagaState]
  /\ budget \in [Kinds -> Nat]

\* Units promised to orders by reservation rows.
Units(p, orders) == MapThenSumSet(LAMBDA o : Basket[o][p], orders)
Promised(p) == Units(p, {o \in Order : line[o][p] = "reserved"})

Untouched(kinds) == \A k \in kinds : budget[k] = Limits[k]

\* Until payments releases a reservation, the reserved column is the sum of the
\* reservation rows and the available column the rest: partial failures, lost
\* answers, duplicate checkouts, lapsed redlocks and crashes neither lose nor
\* invent a reservation.
ReservedIsBacked ==
  Untouched({"payReleases"}) =>
    \A p \in Product : /\ stock[p].reserved = Promised(p)
                       /\ stock[p].available = Stock[p] - Promised(p)

\* The tables as an abstract ledger.
Ledger == INSTANCE StockLedger

\* Until payments releases a reservation, the tables change as StockLedger says:
\* although a transaction tests, moves and records one item at a time, among faults
\* and other transactions on the same rows, what it commits is a reservation out of
\* units that are there, or the return of a whole order that was reserved.
ImplementsLedger ==
  Ledger!Init /\ [][Untouched({"payReleases"})' => Ledger!Next]_tables

\* Sorting the items keeps transactions from waiting for each other in a circle:
\* a deadlock always involves a release of payments, which locks the reservation
\* row before the inventory row.
OrderedLocking ==
  \A c \in Circles : \E t \in c : task[t].job = "payRelease"

\* As long as run() reports what became of the saga and no release fails, an
\* order's stock follows its saga, however many checkouts of the order overlap: a
\* completed order has its units, a compensated one has none once its calls end.
StockFollowsSaga ==
  Untouched({"payReleases", "faults"}) =>
    \A o \in Order : \A p \in Items(o) :
      /\ saga[o].status = "completed" => line[o][p] = "reserved"
      /\ /\ saga[o].status = "compensated"
         /\ \A t \in Task : task[t].order = o => At(t, "idle")
         => line[o][p] = "released"

\* Every call comes to an end: no transaction waits for ever for a row lock that
\* another one, or a circle of them, holds.
CallsReturn == \A t \in Task : ~At(t, "idle") ~> At(t, "idle")
=============================================================================
