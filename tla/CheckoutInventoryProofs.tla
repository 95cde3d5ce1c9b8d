----------------------- MODULE CheckoutInventoryProofs -----------------------
(***************************************************************************)
(* Proofs about CheckoutInventory for any orders, products, baskets and    *)
(* stocks, any number of overlapping calls and any number of faults.       *)
(***************************************************************************)
EXTENDS CheckoutInventory, FiniteSetTheorems, TLAPS

(* Sums over finite sets.                                                  *)

\* A nonempty set of subsets of a finite set has a minimal member.
LEMMA MinimalSet ==
  ASSUME NEW S, IsFiniteSet(S), NEW T \in SUBSET SUBSET S, T # {}
  PROVE  \E x \in T : \A y \in T : y \subseteq x => y = x
<1>1. T \subseteq FiniteSubsetsOf(S)
  BY FS_Subset DEF FiniteSubsetsOf
<1>2. \E x \in T : \A y \in T : ~(<<y, x>> \in StrictSubsetOrdering(S))
  BY <1>1, FS_StrictSubsetOrderingWellFounded, WFMin
<1> QED BY <1>1, <1>2 DEF StrictSubsetOrdering, FiniteSubsetsOf

\* The least-number principle, from minimal initial segments.
LEMMA LeastNumber ==
  ASSUME NEW T \in SUBSET Nat, T # {}
  PROVE  \E n \in T : \A m \in T : n <= m
<1>1. PICK k \in T : TRUE
  OBVIOUS
<1> DEFINE Low == {n \in T : n <= k}
           Upto == 0..k
           Segments == {0..n : n \in Low}
<1>2. IsFiniteSet(Upto)
  BY FS_Interval
<1>3. Segments \in SUBSET SUBSET Upto /\ Segments # {}
  OBVIOUS
<1>4. PICK x \in Segments : \A y \in Segments : y \subseteq x => y = x
  <2> HIDE DEF Segments, Upto
  <2> QED BY <1>2, <1>3, MinimalSet
<1>5. PICK n \in Low : x = 0..n
  BY <1>4
<1>6. ASSUME NEW m \in T, m < n PROVE FALSE
  <2>1. m \in Low /\ 0..m \subseteq 0..n
    BY <1>6
  <2>2. 0..m = 0..n
    BY <1>4, <1>5, <2>1
  <2>3. n \in 0..n /\ n \notin 0..m
    BY <1>6
  <2> QED BY <2>2, <2>3
<1> QED BY <1>6

\* How MapThenSumSet() walks through a set of orders.
Pick(s) == CHOOSE o \in s : TRUE
SumStep(g, s, p) == IF s = {} THEN 0 ELSE Basket[Pick(s)][p] + g[s \ {Pick(s)}]
IsSum(g, S, p) == g = [s \in SUBSET S |-> SumStep(g, s, p)]

LEMMA UnitsDef ==
  ASSUME NEW S, NEW p PROVE Units(p, S) = (CHOOSE g : IsSum(g, S, p))[S]
BY DEF Units, MapThenSumSet, MapThenFoldSet, IsSum, SumStep, Pick

LEMMA PickIn == ASSUME NEW s, s # {} PROVE Pick(s) \in s
BY DEF Pick

\* There is only one such walk.
LEMMA SumUnique ==
  ASSUME NEW S, IsFiniteSet(S), NEW p, NEW g, NEW h, IsSum(g, S, p), IsSum(h, S, p)
  PROVE  g = h
<1> DEFINE T == {s \in SUBSET S : g[s] # h[s]}
<1>1. CASE T = {}
  BY <1>1 DEF IsSum
<1>2. CASE T # {}
  <2>0. T \in SUBSET SUBSET S
    OBVIOUS
  <2>1. PICK x \in T : \A y \in T : y \subseteq x => y = x
    <3> HIDE DEF T
    <3> QED BY <1>2, <2>0, MinimalSet
  <2>2. x # {}
    BY <2>1 DEF IsSum, SumStep
  <2>3. Pick(x) \in x
    BY <2>2, PickIn
  <2>4. g[x \ {Pick(x)}] = h[x \ {Pick(x)}]
    BY <2>1, <2>3
  <2> QED BY <2>1, <2>2, <2>4 DEF IsSum, SumStep
<1> QED BY <1>1, <1>2

\* A walk through S contains one through each of its subsets.
LEMMA SumRestricts ==
  ASSUME NEW S, NEW p, NEW g, IsSum(g, S, p), NEW R \in SUBSET S
  PROVE  IsSum([s \in SUBSET R |-> g[s]], R, p)
<1> DEFINE h == [s \in SUBSET R |-> g[s]]
<1>1. ASSUME NEW s \in SUBSET R PROVE h[s] = SumStep(h, s, p)
  <2>1. s \in SUBSET S /\ g[s] = SumStep(g, s, p)
    BY DEF IsSum
  <2>2. s \ {Pick(s)} \in SUBSET R
    OBVIOUS
  <2> QED BY <2>1, <2>2 DEF SumStep
<1> QED BY <1>1 DEF IsSum

\* A walk through R for every subset R, if there is one for every smaller subset.
LEMMA SumExtends ==
  ASSUME NEW S, IsFiniteSet(S), NEW p, S # {},
         \A R \in SUBSET S : R # S => \E g : IsSum(g, R, p)
  PROVE  \E g : IsSum(g, S, p)
<1> DEFINE W(R) == CHOOSE g : IsSum(g, R, p)
           rest == S \ {Pick(S)}
           g == [s \in SUBSET S |-> IF s = S THEN Basket[Pick(S)][p] + W(rest)[rest] ELSE W(s)[s]]
<1>1. Pick(S) \in S
  BY PickIn
<1>2. ASSUME NEW R \in SUBSET S, R # S PROVE IsSum(W(R), R, p)
  BY <1>2
<1>3. ASSUME NEW s \in SUBSET S PROVE g[s] = SumStep(g, s, p)
  <2>1. CASE s = S
    <3>1. rest \in SUBSET S /\ rest # S
      BY <1>1
    <3> QED BY <2>1, <3>1 DEF SumStep
  <2>2. CASE s # S /\ s = {}
    <3>1. IsSum(W(s), s, p)
      BY <2>2, <1>2
    <3>2. W(s)[s] = 0
      BY <2>2, <3>1 DEF IsSum, SumStep
    <3> HIDE DEF W
    <3> QED BY <2>2, <3>2 DEF SumStep
  <2>3. CASE s # S /\ s # {}
    <3> DEFINE r == s \ {Pick(s)}
    <3>1. Pick(s) \in s
      BY <2>3, PickIn
    <3>2. r \in SUBSET s /\ r \in SUBSET S /\ r # S /\ r # s
      BY <3>1
    <3>3. IsSum(W(s), s, p) /\ IsSum(W(r), r, p)
      BY <2>3, <3>2, <1>2
    <3> HIDE DEF W
    <3>4. IsFiniteSet(r)
      BY <3>2, FS_Subset
    <3>5. IsSum([q \in SUBSET r |-> W(s)[q]], r, p)
      BY <3>2, <3>3, SumRestricts
    <3>6. [q \in SUBSET r |-> W(s)[q]] = W(r)
      BY <3>3, <3>4, <3>5, SumUnique
    <3>7. W(s)[r] = W(r)[r]
      BY <3>6
    <3>8. W(s)[s] = Basket[Pick(s)][p] + W(s)[r]
      BY <2>3, <3>3 DEF IsSum, SumStep
    <3>9. g[s] = W(s)[s] /\ g[r] = W(r)[r]
      BY <2>3, <3>2
    <3> QED BY <2>3, <3>7, <3>8, <3>9 DEF SumStep
  <2> QED BY <2>1, <2>2, <2>3
<1>4. g = [s \in SUBSET S |-> SumStep(g, s, p)]
  <2>1. g = [s \in SUBSET S |-> g[s]]
    OBVIOUS
  <2> HIDE DEF g
  <2> QED BY <1>3, <2>1
<1> QED
  <2> HIDE DEF g
  <2> QED BY <1>4 DEF IsSum

\* So there is one through every finite set.
LEMMA SumExists ==
  ASSUME NEW S, IsFiniteSet(S), NEW p PROVE \E g : IsSum(g, S, p)
<1> DEFINE T == {R \in SUBSET S : ~\E g : IsSum(g, R, p)}
<1>1. CASE T = {}
  BY <1>1
<1>2. CASE T # {}
  <2>0. T \in SUBSET SUBSET S
    OBVIOUS
  <2>1. PICK x \in T : \A y \in T : y \subseteq x => y = x
    <3> HIDE DEF T
    <3> QED BY <1>2, <2>0, MinimalSet
  <2>2. IsFiniteSet(x)
    BY FS_Subset
  <2>3. x # {}
    <3>1. IsSum([s \in SUBSET {} |-> 0], {}, p)
      BY DEF IsSum, SumStep
    <3> QED BY <2>1, <3>1
  <2>4. \A R \in SUBSET x : R # x => \E g : IsSum(g, R, p)
    BY <2>1
  <2>5. \E g : IsSum(g, x, p)
    BY <2>2, <2>3, <2>4, SumExtends
  <2> QED BY <2>1, <2>5
<1> QED BY <1>1, <1>2

\* What a sum is, for every set of orders: nothing for none, ...
LEMMA UnitsWalk ==
  ASSUME NEW S, IsFiniteSet(S), NEW p
  PROVE  \E g : /\ IsSum(g, S, p)
                /\ \A R \in SUBSET S : Units(p, R) = g[R]
<1>1. PICK g : IsSum(g, S, p)
  BY SumExists
<1>2. ASSUME NEW R \in SUBSET S PROVE Units(p, R) = g[R]
  <2> DEFINE h == [s \in SUBSET R |-> g[s]]
             c == CHOOSE f : IsSum(f, R, p)
  <2>1. IsSum(h, R, p)
    BY <1>1, SumRestricts
  <2>2. IsSum(c, R, p)
    BY <2>1
  <2>3. Units(p, R) = c[R]
    BY UnitsDef
  <2>4. h[R] = g[R]
    OBVIOUS
  <2>5. IsFiniteSet(R)
    BY FS_Subset
  <2> HIDE DEF h, c
  <2>6. c = h
    BY <2>1, <2>2, <2>5, SumUnique
  <2> QED BY <2>3, <2>4, <2>6
<1> QED BY <1>1, <1>2

LEMMA UnitsEmpty == ASSUME NEW p PROVE Units(p, {}) = 0
<1>1. IsFiniteSet({})
  BY FS_EmptySet
<1>2. PICK g : IsSum(g, {}, p) /\ \A R \in SUBSET {} : Units(p, R) = g[R]
  BY <1>1, UnitsWalk
<1> QED BY <1>2 DEF IsSum, SumStep

LEMMA UnitsStep ==
  ASSUME NEW S, IsFiniteSet(S), NEW p, S # {}
  PROVE  Units(p, S) = Basket[Pick(S)][p] + Units(p, S \ {Pick(S)})
<1>1. PICK g : IsSum(g, S, p) /\ \A R \in SUBSET S : Units(p, R) = g[R]
  BY UnitsWalk
<1> QED BY <1>1 DEF IsSum, SumStep

\* ... a natural number, ...
LEMMA UnitsNat ==
  ASSUME NEW S \in SUBSET Order, NEW p \in Product PROVE Units(p, S) \in Nat
<1> DEFINE T == {R \in SUBSET Order : Units(p, R) \notin Nat}
<1>1. CASE T = {}
  BY <1>1
<1>2. CASE T # {}
  <2>0. T \in SUBSET SUBSET Order
    OBVIOUS
  <2>1. PICK x \in T : \A y \in T : y \subseteq x => y = x
    <3> HIDE DEF T
    <3> QED BY <1>2, <2>0, MinimalSet, BasketAssumption
  <2>2. x # {}
    <3>1. Units(p, {}) \in Nat
      BY UnitsEmpty
    <3>2. Units(p, x) \notin Nat
      BY <2>1
    <3> HIDE DEF T
    <3> QED BY <3>1, <3>2, Zenon
  <2>3. Pick(x) \in x /\ x \in SUBSET Order
    BY <2>2, PickIn
  <2>4. Units(p, x \ {Pick(x)}) \in Nat
    BY <2>1, <2>3
  <2>5. Basket[Pick(x)][p] \in Nat
    BY <2>3, BasketAssumption
  <2>6. IsFiniteSet(x)
    BY <2>3, FS_Subset, BasketAssumption
  <2> HIDE DEF T
  <2>7. Units(p, x) = Basket[Pick(x)][p] + Units(p, x \ {Pick(x)})
    BY <2>2, <2>6, UnitsStep, Zenon
  <2>8. Units(p, x) \in Nat
    BY <2>4, <2>5, <2>7
  <2> USE DEF T
  <2> QED BY <2>8
<1> QED BY <1>1, <1>2

\* ... and the sum of any one term and the rest, whichever term is taken.
LEMMA UnitsRemove ==
  ASSUME NEW S \in SUBSET Order, NEW p \in Product, NEW o \in S
  PROVE  Units(p, S) = Basket[o][p] + Units(p, S \ {o})
<1> DEFINE Holds(R) == \A x \in R : Units(p, R) = Basket[x][p] + Units(p, R \ {x})
           T == {R \in SUBSET Order : ~Holds(R)}
<1>1. CASE T = {}
  BY <1>1
<1>2. CASE T # {}
  <2>0. T \in SUBSET SUBSET Order
    OBVIOUS
  <2>1. PICK R \in T : \A y \in T : y \subseteq R => y = R
    <3> HIDE DEF T
    <3> QED BY <1>2, <2>0, MinimalSet, BasketAssumption
  <2>2. PICK x \in R : Units(p, R) # Basket[x][p] + Units(p, R \ {x})
    BY <2>1
  <2> DEFINE y == Pick(R)
  <2>3. y \in R /\ R \in SUBSET Order
    BY <2>2, PickIn
  <2>4. Units(p, R) = Basket[y][p] + Units(p, R \ {y})
    BY <2>3, FS_Subset, BasketAssumption, UnitsStep
  <2> HIDE DEF y
  <2>5. x # y
    BY <2>2, <2>4
  <2>6. Holds(R \ {x}) /\ Holds(R \ {y})
    BY <2>1, <2>2, <2>3
  <2> HIDE DEF T
  <2>7. Units(p, R \ {y}) = Basket[x][p] + Units(p, (R \ {y}) \ {x})
    BY <2>2, <2>5, <2>6
  <2>8. Units(p, R \ {x}) = Basket[y][p] + Units(p, (R \ {x}) \ {y})
    BY <2>3, <2>5, <2>6
  <2>9. (R \ {y}) \ {x} = (R \ {x}) \ {y}
    OBVIOUS
  <2>10. Basket[x][p] \in Nat /\ Basket[y][p] \in Nat /\ Units(p, (R \ {x}) \ {y}) \in Nat
    BY <2>3, BasketAssumption, UnitsNat
  <2>11. Units(p, R) = Basket[x][p] + Units(p, R \ {x})
    <3> DEFINE a == Basket[x][p]
               b == Basket[y][p]
               c == Units(p, (R \ {x}) \ {y})
    <3>1. a \in Nat /\ b \in Nat /\ c \in Nat
      BY <2>10
    <3>2. Units(p, R) = b + (a + c) /\ Units(p, R \ {x}) = b + c
      BY <2>4, <2>7, <2>8, <2>9, Zenon
    <3> HIDE DEF a, b, c
    <3>3. b + (a + c) = a + (b + c)
      BY <3>1
    <3>4. Units(p, R) = a + Units(p, R \ {x})
      BY <3>2, <3>3, Zenon
    <3> QED BY <3>4 DEF a
  <2> QED BY <2>2, <2>11
<1> QED BY <1>1, <1>2

LEMMA UnitsAdd ==
  ASSUME NEW S \in SUBSET Order, NEW p \in Product, NEW o \in Order \ S
  PROVE  Units(p, S \cup {o}) = Units(p, S) + Basket[o][p]
<1>1. (S \cup {o}) \ {o} = S /\ S \cup {o} \in SUBSET Order /\ o \in S \cup {o}
  OBVIOUS
<1>2. Units(p, S \cup {o}) = Basket[o][p] + Units(p, (S \cup {o}) \ {o})
  BY <1>1, UnitsRemove, Zenon
<1>3. Units(p, S \cup {o}) = Basket[o][p] + Units(p, S)
  BY <1>1, <1>2, Zenon
<1> QED BY <1>3, UnitsNat, BasketAssumption
-----------------------------------------------------------------------------
(* The inductive invariants.                                               *)

Working == {"row", "line", "commit"}
Top(w, p) == p \in w.left /\ \A q \in w.left : rank[p] >= rank[q]

\* Items whose inventory row, and items whose reservation row, a call has been through.
MovedBy(w) ==
  {p \in w.items : /\ w.pc \in Working
                   /\ p \notin w.left \/ (w.pc = "line" /\ Top(w, p))}
RecordedBy(w) ==
  {p \in w.items : IF w.job = "payRelease" THEN w.pc \in {"restore", "commit"}
                                           ELSE w.pc \in Working /\ p \notin w.left}

\* What a call can look like; items that are done come before those that are left.
Shape(w) ==
  /\ w.left \subseteq w.items
  /\ w.pc \in {"find", "restore"} => w.job = "payRelease"
  /\ w.pc \in {"find", "restore", "redlock"} => w.left = w.items
  /\ w.pc = "commit" => w.left = {}
  /\ w.job = "payRelease" =>
       /\ w.pc \in {"idle", "find", "restore", "commit", "rollback"}
       /\ w.pc # "idle" => \E p \in Product : w.items = {p}
  /\ w.pc \in {"redlock", "unlock"} => w.job \in {"reserve", "release"}
  /\ w.pc \in {"run", "driving"} => w.job = "reserve"
  /\ w.job \in {"reserve", "release"} /\ w.pc # "idle" =>
       w.items = Items(w.order) /\ w.items # {}
  /\ w.job = "payReserve" /\ w.pc # "idle" => \E p \in Items(w.order) : w.items = {p}
  /\ w.job # "payRelease" /\ w.pc \in Working =>
       \A p \in w.items \ w.left, q \in w.left : rank[p] > rank[q]

\* The row locks of a call: it holds those of the rows that it has been through and
\* no others until it ends, and what it has tested about them still holds.
Holds(t) ==
  /\ \A p \in MovedBy(task[t]) : stockLock[p] = t /\ Enough(t, p)
  /\ \A p \in Product :
       stockLock[p] = t => task[t].pc = "rollback" \/ p \in MovedBy(task[t])
  /\ \A o \in Order, p \in Product :
       lineLock[o][p] = t => /\ o = task[t].order
                             /\ task[t].pc = "rollback" \/ p \in RecordedBy(task[t])
                             /\ line[o][p] = IF Reserves(t) THEN "none" ELSE "reserved"
  /\ Reserves(t) => \A p \in RecordedBy(task[t]) : lineLock[task[t].order][p] = t

LockInv ==
  /\ InventoryTypeOK
  /\ \A k \in Kinds : budget[k] <= Limits[k]
  /\ \A t \in Task : Shape(task[t]) /\ Holds(t)

\* A call to which the whole order's reservation belongs: a checkout between its
\* reservation and the end of the saga, or the release that follows.
Owner(w) ==
  \/ /\ w.job = "reserve"
     /\ w.pc \in {"run", "driving"} \/ (w.pc = "unlock" /\ ~w.failed)
  \/ /\ w.job = "release"
     /\ w.pc \in {"redlock", "row", "line", "commit"}

Owns(t) ==
  Owner(task[t]) =>
    /\ \A p \in Items(task[t].order) : line[task[t].order][p] = "reserved"
    /\ \A p \in RecordedBy(task[t]) : lineLock[task[t].order][p] = t
    /\ \A u \in Task : Owner(task[u]) /\ task[u].order = task[t].order => u = t

Backed(p) == /\ stock[p].reserved = Promised(p)
             /\ stock[p].available = Stock[p] - Promised(p)

OwnersBacked ==
  /\ \A t \in Task : task[t].job # "payRelease" /\ Owns(t)
  /\ \A p \in Product : Backed(p)

BackedInv == Untouched({"payReleases"}) => OwnersBacked

\* Calls that see to it that the stock follows the saga.
Drives(w) == w.job = "reserve" /\ w.pc = "driving"
Releases(w) == w.job = "release" /\ w.pc \in {"redlock", "row", "line", "commit"}
AllLines(o, status) == \A p \in Items(o) : line[o][p] = status

Follows(o) ==
  /\ saga[o].status \in {"running", "compensating"} =>
       \E t \in Task : task[t].order = o /\ Drives(task[t])
  /\ saga[o].status \notin {"absent", "compensated"} => AllLines(o, "reserved")
  /\ saga[o].status = "compensated" =>
       \/ AllLines(o, "released")
       \/ \E t \in Task : task[t].order = o /\ (Drives(task[t]) \/ Releases(task[t]))

StockFollows ==
  /\ \A o \in Order : Follows(o)
  /\ \A t \in Task : Releases(task[t]) => saga[task[t].order].status = "compensated"

FollowInv == Untouched({"payReleases", "faults"}) => StockFollows

-----------------------------------------------------------------------------
(* Row locks: no stock column goes below zero.                             *)

LEMMA KindTypes == {"calls", "payReleases", "faults"} = Kinds
BY DEF Kinds

LEMMA SpendType ==
  ASSUME LockInv, NEW kind \in Kinds, Spend(kind)
  PROVE  /\ budget' \in [Kinds -> Nat] /\ \A k \in Kinds : budget'[k] <= Limits[k]
         /\ budget'[kind] < Limits[kind] /\ \A k \in Kinds : k # kind => budget'[k] = budget[k]
<1>1. budget \in [Kinds -> Nat] /\ \A k \in Kinds : budget[k] <= Limits[k]
  BY DEF LockInv, InventoryTypeOK
<1>2. budget[kind] > 0 /\ budget' = [budget EXCEPT ![kind] = budget[kind] - 1]
  BY DEF Spend
<1>3. Limits[kind] \in Nat /\ budget[kind] \in Nat
  BY <1>1, LimitsAssumption
<1>4. budget' \in [Kinds -> Nat]
  BY <1>1, <1>2, <1>3
<1>5. \A k \in Kinds : budget'[k] = IF k = kind THEN budget[kind] - 1 ELSE budget[k]
  BY <1>1, <1>2
<1>6. \A k \in Kinds : budget'[k] <= Limits[k]
  BY <1>1, <1>3, <1>5
<1>7. budget'[kind] < Limits[kind]
  BY <1>1, <1>3, <1>5
<1> QED BY <1>4, <1>5, <1>6, <1>7

\* What a step of call t may do to rows and locks.
OnlyTouches(t) ==
  /\ \A p \in Product : \/ stockLock'[p] = stockLock[p]
                        \/ stockLock[p] \in {t, NoTask} /\ stockLock'[p] \in {t, NoTask}
  /\ \A o \in Order, p \in Product :
       \/ lineLock'[o][p] = lineLock[o][p]
       \/ lineLock[o][p] \in {t, NoTask} /\ lineLock'[o][p] \in {t, NoTask}
  /\ \A p \in Product : stock'[p] = stock[p] \/ stockLock[p] = t
  /\ \A o \in Order, p \in Product : line'[o][p] = line[o][p] \/ lineLock[o][p] = t

\* The budget after a step.
BudgetOK == budget' \in [Kinds -> Nat] /\ \A k \in Kinds : budget'[k] <= Limits[k]

LEMMA ItemsType ==
  ASSUME NEW o \in Order PROVE Items(o) \in SUBSET Product
BY DEF Items

\* The locks of the other calls are as they were.
LEMMA OthersHold ==
  ASSUME LockInv, NEW t \in Task, OnlyTouches(t), NEW u \in Task, u # t, task'[u] = task[u]
  PROVE  Holds(u)'
<1>1. Holds(u) /\ u # NoTask /\ task[u] \in TaskState
  BY TaskAssumption DEF LockInv, InventoryTypeOK
<1>2. \A p \in Product : stockLock'[p] = u <=> stockLock[p] = u
  BY <1>1 DEF OnlyTouches
<1>3. \A o \in Order, p \in Product : lineLock'[o][p] = u <=> lineLock[o][p] = u
  BY <1>1 DEF OnlyTouches
<1>4. \A p \in Product : stockLock[p] = u => stock'[p] = stock[p]
  BY DEF OnlyTouches
<1>5. \A o \in Order, p \in Product : lineLock[o][p] = u => line'[o][p] = line[o][p]
  BY DEF OnlyTouches
<1>6. \A p \in MovedBy(task[u]) : p \in Product
  BY <1>1 DEF MovedBy, TaskState
<1>7. \A p \in RecordedBy(task[u]) : p \in Product
  BY <1>1 DEF RecordedBy, TaskState
<1>8. task[u].order \in Order
  BY <1>1 DEF TaskState
<1>9. \A p \in MovedBy(task'[u]) : stockLock'[p] = u /\ Enough(u, p)'
  BY <1>1, <1>2, <1>4, <1>6 DEF Holds, Enough, Reserves, Quantity
<1>10. \A p \in Product :
         stockLock'[p] = u => task'[u].pc = "rollback" \/ p \in MovedBy(task'[u])
  BY <1>1, <1>2 DEF Holds
<1>11. \A o \in Order, p \in Product :
         lineLock'[o][p] = u =>
           /\ o = task'[u].order
           /\ task'[u].pc = "rollback" \/ p \in RecordedBy(task'[u])
           /\ line'[o][p] = IF Reserves(u)' THEN "none" ELSE "reserved"
  BY <1>1, <1>3, <1>5 DEF Holds, Reserves
<1>12. Reserves(u)' => \A p \in RecordedBy(task'[u]) : lineLock'[task'[u].order][p] = u
  BY <1>1, <1>3, <1>7, <1>8 DEF Holds, Reserves
<1> QED BY <1>9, <1>10, <1>11, <1>12 DEF Holds, MovedBy, RecordedBy, Top

\* The types of the shared state after a step.
TablesOK ==
  /\ stock \in [Product -> [available : Nat, reserved : Nat]]
  /\ line \in [Order -> [Product -> {"none", "reserved", "released"}]]
  /\ redlock \in [Product -> Task \cup {NoTask}]
  /\ stockLock \in [Product -> Task \cup {NoTask}]
  /\ lineLock \in [Order -> [Product -> Task \cup {NoTask}]]
  /\ saga \in [Order -> SagaState]

LEMMA CallStep ==
  ASSUME LockInv, NEW t \in Task, NEW w \in TaskState, task' = [task EXCEPT ![t] = w],
         Shape(w), TablesOK', BudgetOK, OnlyTouches(t), Holds(t)'
  PROVE  LockInv'
<1>1. InventoryTypeOK'
  BY DEF LockInv, InventoryTypeOK, TablesOK, BudgetOK
<1>2. ASSUME NEW u \in Task PROVE Shape(task'[u]) /\ Holds(u)'
  <2>1. CASE u = t
    BY <2>1 DEF LockInv, InventoryTypeOK
  <2>2. CASE u # t
    <3>1. task'[u] = task[u] /\ Shape(task[u])
      BY <2>2 DEF LockInv, InventoryTypeOK
    <3> QED BY <2>2, <3>1, OthersHold
  <2> QED BY <2>1, <2>2
<1> QED BY <1>1, <1>2 DEF LockInv, BudgetOK, Shape

\* A call that has no row locks before and after its step.
Free(w) == w.pc # "rollback" /\ MovedBy(w) = {} /\ RecordedBy(w) = {}

LEMMA FreeStep ==
  ASSUME LockInv, NEW t \in Task, NEW w \in TaskState, task' = [task EXCEPT ![t] = w],
         Shape(w), Free(task[t]), Free(w), UNCHANGED <<tables, rowLocks>>, BudgetOK,
         redlock' \in [Product -> Task \cup {NoTask}], saga' \in [Order -> SagaState]
  PROVE  LockInv'
<1>1. TablesOK'
  BY DEF LockInv, InventoryTypeOK, TablesOK, tables, rowLocks
<1>2. OnlyTouches(t)
  BY DEF OnlyTouches, tables, rowLocks
<1>3. task'[t] = w
  BY DEF LockInv, InventoryTypeOK
<1>4. /\ \A p \in Product : stockLock[p] # t
      /\ \A o \in Order, p \in Product : lineLock[o][p] # t
  BY DEF LockInv, Holds, Free
<1>5. stockLock' = stockLock /\ lineLock' = lineLock
  BY DEF rowLocks
<1>6. Holds(t)'
  BY <1>3, <1>4, <1>5 DEF Holds, Free, MovedBy, RecordedBy, Top
<1> QED BY <1>1, <1>2, <1>6, CallStep

\* A transaction that ends, with or without its writes.
LEMMA EndStep ==
  ASSUME LockInv, NEW t \in Task, NEW w \in TaskState, task' = [task EXCEPT ![t] = w],
         Shape(w), w.pc \in {"unlock", "idle"}, Unlocked(t), BudgetOK,
         UNCHANGED <<redlock, saga>>, UNCHANGED tables \/ (At(t, "commit") /\ Written(t))
  PROVE  LockInv'
<1>1. stockLock' \in [Product -> Task \cup {NoTask}]
      /\ lineLock' \in [Order -> [Product -> Task \cup {NoTask}]]
  BY DEF Unlocked, LockInv, InventoryTypeOK
<1>2. /\ \A p \in Product : stockLock'[p] = IF stockLock[p] = t THEN NoTask ELSE stockLock[p]
      /\ \A o \in Order, p \in Product :
           lineLock'[o][p] = IF lineLock[o][p] = t THEN NoTask ELSE lineLock[o][p]
  BY DEF Unlocked
<1>3. task'[t] = w /\ t # NoTask
  BY TaskAssumption DEF LockInv, InventoryTypeOK
<1>4. MovedBy(w) = {} /\ RecordedBy(w) = {}
  BY DEF MovedBy, RecordedBy, Working
<1>5. Holds(t)'
  BY <1>2, <1>3, <1>4 DEF Holds, MovedBy, RecordedBy, Top
<1>6. /\ stock' \in [Product -> [available : Nat, reserved : Nat]]
      /\ line' \in [Order -> [Product -> {"none", "reserved", "released"}]]
      /\ \A p \in Product : stock'[p] = stock[p] \/ stockLock[p] = t
      /\ \A o \in Order, p \in Product : line'[o][p] = line[o][p] \/ lineLock[o][p] = t
  <2>1. CASE UNCHANGED tables
    BY <2>1 DEF tables, LockInv, InventoryTypeOK
  <2>2. CASE At(t, "commit") /\ Written(t)
    <3>1. MovedBy(task[t]) = task[t].items
      BY <2>2 DEF MovedBy, LockInv, Shape, At, Working
    <3>2. \A p \in task[t].items : stockLock[p] = t /\ Enough(t, p)
      BY <3>1 DEF LockInv, Holds
    <3>3. task[t] \in TaskState /\ task[t].order \in Order
      BY DEF LockInv, InventoryTypeOK, TaskState
    <3>4. ASSUME NEW p \in Product, p \in task[t].items
          PROVE  Moved(t, p) \in [available : Nat, reserved : Nat]
      <4>1. Quantity(t, p) \in Nat
        BY <3>3, BasketAssumption DEF Quantity
      <4>2. stock[p].available \in Nat /\ stock[p].reserved \in Nat
        BY DEF LockInv, InventoryTypeOK
      <4>3. Enough(t, p)
        BY <3>2, <3>4
      <4> QED BY <4>1, <4>2, <4>3 DEF Moved, Enough
    <3>5. stock' \in [Product -> [available : Nat, reserved : Nat]]
      BY <2>2, <3>4 DEF Written, LockInv, InventoryTypeOK
    <3>6. line' \in [Order -> [Product -> {"none", "reserved", "released"}]]
      BY <2>2 DEF Written, LockInv, InventoryTypeOK
    <3>7. \A p \in Product : stock'[p] = stock[p] \/ stockLock[p] = t
      BY <2>2, <3>2 DEF Written
    <3>8. \A o \in Order, p \in Product : line'[o][p] = line[o][p] \/ lineLock[o][p] = t
      BY <2>2 DEF Written
    <3> QED BY <3>5, <3>6, <3>7, <3>8
  <2> QED BY <2>1, <2>2
<1>7. TablesOK'
  BY <1>1, <1>6 DEF TablesOK, LockInv, InventoryTypeOK
<1>8. OnlyTouches(t)
  BY <1>2, <1>6 DEF OnlyTouches
<1> QED BY <1>5, <1>7, <1>8, CallStep

\* A call that fails: its locks stay until it rolls back.
LEMMA FailStep ==
  ASSUME LockInv, NEW t \in Task, task[t].pc \in {"row", "line", "find", "restore", "commit"},
         Fail(t), UNCHANGED <<tables, redlock, lineLock, saga>>, BudgetOK,
         stockLock' \in [Product -> Task \cup {NoTask}],
         \A p \in Product : stockLock'[p] = stockLock[p]
                            \/ (stockLock[p] = NoTask /\ stockLock'[p] = t)
  PROVE  LockInv'
<1> DEFINE w == [task[t] EXCEPT !.pc = "rollback", !.failed = TRUE]
<1>1. task[t] \in TaskState /\ Shape(task[t]) /\ Holds(t)
  BY DEF LockInv, InventoryTypeOK
<1>2. w \in TaskState /\ w.pc = "rollback" /\ w.job = task[t].job /\ w.order = task[t].order
      /\ w.items = task[t].items /\ w.left = task[t].left
  BY <1>1 DEF TaskState, Labels
<1>3. task' = [task EXCEPT ![t] = w]
  BY DEF Fail
<1> HIDE DEF w
<1>4. Shape(w)
  BY <1>1, <1>2 DEF Shape, Working
<1>5. TablesOK'
  BY DEF TablesOK, LockInv, InventoryTypeOK, tables
<1>6. OnlyTouches(t)
  BY DEF OnlyTouches, tables
<1>7. MovedBy(w) = {} /\ RecordedBy(w) = {}
  BY <1>2 DEF MovedBy, RecordedBy, Working
<1>8. task'[t] = w
  BY <1>3 DEF LockInv, InventoryTypeOK
<1>9. \A o \in Order, p \in Product :
        lineLock'[o][p] = t =>
          o = task[t].order /\ line'[o][p] = IF Reserves(t) THEN "none" ELSE "reserved"
  BY <1>1 DEF Holds, tables
<1>10. Reserves(t)' = Reserves(t)
  BY <1>2, <1>8 DEF Reserves
<1>11. Holds(t)'
  BY <1>2, <1>7, <1>8, <1>9, <1>10 DEF Holds, MovedBy, RecordedBy, Top
<1> QED BY <1>2, <1>3, <1>4, <1>5, <1>6, <1>11, CallStep

\* The calls.
LEMMA BeginForm ==
  ASSUME NEW t \in Task, NEW label \in Labels, NEW job \in Jobs, NEW o \in Order,
         NEW items \in SUBSET Product, Begin(t, label, job, o, items)
  PROVE  \E w \in TaskState :
           /\ task' = [task EXCEPT ![t] = w]
           /\ w.pc = label /\ w.job = job /\ w.order = o /\ w.items = items /\ w.left = items
<1> DEFINE w == [pc |-> label, job |-> job, order |-> o, items |-> items, left |-> items,
                 failed |-> FALSE]
<1>1. w \in TaskState /\ w.pc = label /\ w.job = job /\ w.order = o /\ w.items = items
      /\ w.left = items
  BY DEF TaskState
<1>2. task' = [task EXCEPT ![t] = w]
  BY DEF Begin
<1> QED BY <1>1, <1>2

LEMMA FreePoint ==
  ASSUME NEW w \in TaskState, Shape(w),
         w.pc \in {"idle", "redlock", "find", "unlock", "run", "driving"}
         \/ (w.pc = "row" /\ w.left = w.items)
  PROVE  Free(w)
<1>1. w.pc # "rollback"
  OBVIOUS
<1>2. ASSUME NEW p \in MovedBy(w) PROVE FALSE
  BY DEF MovedBy, Working
<1>3. ASSUME NEW p \in RecordedBy(w) PROVE FALSE
  BY DEF RecordedBy, Working, Shape
<1> QED BY <1>1, <1>2, <1>3 DEF Free

LEMMA CheckoutStep ==
  ASSUME LockInv, NEW t \in Task, NEW o \in Order, Checkout(t, o) PROVE LockInv'
<1>1. PICK w \in TaskState :
        /\ task' = [task EXCEPT ![t] = w]
        /\ w.pc = "redlock" /\ w.job = "reserve" /\ w.order = o /\ w.items = Items(o)
        /\ w.left = Items(o)
  BY ItemsType, BeginForm DEF Checkout, Labels, Jobs
<1>2. Shape(w)
  BY <1>1 DEF Shape, Checkout, Working
<1>3. task[t] \in TaskState /\ Shape(task[t]) /\ task[t].pc = "idle"
  BY DEF LockInv, InventoryTypeOK, Checkout, At
<1>4. Free(task[t]) /\ Free(w)
  BY <1>1, <1>2, <1>3, FreePoint
<1>5. BudgetOK
  BY SpendType, KindTypes DEF Checkout, BudgetOK
<1>6. UNCHANGED <<tables, redlock, rowLocks, saga>>
  BY DEF Checkout
<1> QED BY <1>1, <1>2, <1>4, <1>5, <1>6, FreeStep DEF LockInv, InventoryTypeOK

LEMMA PayReserveStep ==
  ASSUME LockInv, NEW t \in Task, NEW o \in Order, NEW p \in Product, PayReserve(t, o, p)
  PROVE  LockInv'
<1>1. PICK w \in TaskState :
        /\ task' = [task EXCEPT ![t] = w]
        /\ w.pc = "row" /\ w.job = "payReserve" /\ w.order = o /\ w.items = {p} /\ w.left = {p}
  BY BeginForm DEF PayReserve, Labels, Jobs
<1>2. Shape(w)
  BY <1>1 DEF Shape, Working, PayReserve
<1>3. task[t] \in TaskState /\ Shape(task[t]) /\ task[t].pc = "idle"
  BY DEF LockInv, InventoryTypeOK, PayReserve, At
<1>4. Free(task[t]) /\ Free(w)
  BY <1>1, <1>2, <1>3, FreePoint
<1>5. BudgetOK
  BY SpendType, KindTypes DEF PayReserve, BudgetOK
<1>6. UNCHANGED <<tables, redlock, rowLocks, saga>>
  BY DEF PayReserve
<1> QED BY <1>1, <1>2, <1>4, <1>5, <1>6, FreeStep DEF LockInv, InventoryTypeOK

LEMMA PayReleaseStep ==
  ASSUME LockInv, NEW t \in Task, NEW o \in Order, NEW p \in Product, PayRelease(t, o, p)
  PROVE  LockInv'
<1>1. PICK w \in TaskState :
        /\ task' = [task EXCEPT ![t] = w]
        /\ w.pc = "find" /\ w.job = "payRelease" /\ w.order = o /\ w.items = {p} /\ w.left = {p}
  BY BeginForm DEF PayRelease, Labels, Jobs
<1>2. Shape(w)
  BY <1>1 DEF Shape, Working
<1>3. task[t] \in TaskState /\ Shape(task[t]) /\ task[t].pc = "idle"
  BY DEF LockInv, InventoryTypeOK, PayRelease, At
<1>4. Free(task[t]) /\ Free(w)
  BY <1>1, <1>2, <1>3, FreePoint
<1>5. BudgetOK
  BY SpendType, KindTypes DEF PayRelease, BudgetOK
<1>6. UNCHANGED <<tables, redlock, rowLocks, saga>>
  BY DEF PayRelease
<1> QED BY <1>1, <1>2, <1>4, <1>5, <1>6, FreeStep DEF LockInv, InventoryTypeOK

\* A step to another label.
LEMMA GotoForm ==
  ASSUME LockInv, NEW t \in Task, NEW label \in Labels, Goto(t, label)
  PROVE  \E w \in TaskState :
           /\ task' = [task EXCEPT ![t] = w]
           /\ w.pc = label /\ w.job = task[t].job /\ w.order = task[t].order
           /\ w.items = task[t].items /\ w.left = task[t].left /\ w.failed = task[t].failed
<1> DEFINE w == [task[t] EXCEPT !.pc = label]
<1>1. task[t] \in TaskState
  BY DEF LockInv, InventoryTypeOK
<1>2. w \in TaskState /\ w.pc = label /\ w.job = task[t].job /\ w.order = task[t].order
      /\ w.items = task[t].items /\ w.left = task[t].left /\ w.failed = task[t].failed
  BY <1>1 DEF TaskState
<1>3. task' = [task EXCEPT ![t] = w]
  BY DEF Goto
<1> QED BY <1>2, <1>3

\* ... of a call that has no row locks.
LEMMA FreeGoto ==
  ASSUME LockInv, NEW t \in Task, NEW label \in Labels, Goto(t, label),
         task[t].pc \in {"redlock", "find", "unlock", "run", "driving"},
         \/ label = "idle"
         \/ task[t].pc = "redlock" /\ label = "row"
         \/ label \in {"run", "driving"} /\ task[t].job = "reserve",
         UNCHANGED <<tables, rowLocks>>, BudgetOK,
         redlock' \in [Product -> Task \cup {NoTask}], saga' \in [Order -> SagaState]
  PROVE  LockInv'
<1>1. task[t] \in TaskState /\ Shape(task[t])
  BY DEF LockInv, InventoryTypeOK
<1>2. PICK w \in TaskState :
        /\ task' = [task EXCEPT ![t] = w]
        /\ w.pc = label /\ w.job = task[t].job /\ w.order = task[t].order
        /\ w.items = task[t].items /\ w.left = task[t].left
  BY GotoForm
<1>3. Shape(w)
  BY <1>1, <1>2 DEF Shape, Working
<1>4. Free(task[t]) /\ Free(w)
  <2>1. Free(task[t])
    BY <1>1, FreePoint
  <2>2. w.pc \in {"idle", "run", "driving"} \/ (w.pc = "row" /\ w.left = w.items)
    BY <1>1, <1>2 DEF Shape
  <2> QED BY <1>3, <2>1, <2>2, FreePoint
<1> QED BY <1>2, <1>3, <1>4, FreeStep

LEMMA BudgetSame == ASSUME LockInv, UNCHANGED budget PROVE BudgetOK
BY DEF LockInv, InventoryTypeOK, BudgetOK

\* The steps of a transaction.
LEMMA AcquireRedlockStep ==
  ASSUME LockInv, NEW t \in Task, AcquireRedlock(t) PROVE LockInv'
<1>1. UNCHANGED <<tables, rowLocks, saga>> /\ task[t].pc = "redlock"
  BY DEF AcquireRedlock, At
<1>2. redlock' \in [Product -> Task \cup {NoTask}] /\ saga' \in [Order -> SagaState]
  BY <1>1 DEF AcquireRedlock, LockInv, InventoryTypeOK
<1>3. CASE Goto(t, "row") /\ UNCHANGED budget
  BY <1>1, <1>2, <1>3, FreeGoto, BudgetSame DEF Labels
<1>4. CASE Goto(t, "idle") /\ Spend("faults")
  BY <1>1, <1>2, <1>4, FreeGoto, SpendType, KindTypes DEF Labels, BudgetOK
<1> QED BY <1>3, <1>4 DEF AcquireRedlock

\* There is at most one next item.
LEMMA OneNext ==
  ASSUME NEW w, w.left \subseteq Product, NEW p, NEW q, Top(w, p), Top(w, q) PROVE p = q
<1>1. p \in Product /\ q \in Product /\ rank[p] >= rank[q] /\ rank[q] >= rank[p]
  BY DEF Top
<1>2. rank[p] \in Nat /\ rank[q] \in Nat
  BY <1>1, RankAssumption
<1>3. rank[p] = rank[q]
  BY <1>1, <1>2
<1> QED BY <1>1, <1>3, RankAssumption

LEMMA TakeRow ==
  ASSUME LockInv, NEW t \in Task, NEW p \in Product, stockLock[p] = NoTask,
         stockLock' = [stockLock EXCEPT ![p] = t], UNCHANGED <<tables, lineLock>>
  PROVE  /\ stockLock' \in [Product -> Task \cup {NoTask}] /\ stockLock'[p] = t
         /\ \A q \in Product : q # p => stockLock'[q] = stockLock[q]
         /\ \A q \in Product : stockLock'[q] = stockLock[q]
                               \/ (stockLock[q] = NoTask /\ stockLock'[q] = t)
         /\ OnlyTouches(t)
<1>1. stockLock \in [Product -> Task \cup {NoTask}]
  BY DEF LockInv, InventoryTypeOK
<1>2. stockLock' \in [Product -> Task \cup {NoTask}] /\ stockLock'[p] = t
      /\ \A q \in Product : q # p => stockLock'[q] = stockLock[q]
  BY <1>1
<1>3. \A q \in Product : stockLock'[q] = stockLock[q]
                         \/ (stockLock[q] = NoTask /\ stockLock'[q] = t)
  BY <1>2
<1> QED BY <1>2, <1>3 DEF OnlyTouches, tables

LEMMA MoveStockStep ==
  ASSUME LockInv, NEW t \in Task, MoveStock(t) PROVE LockInv'
<1>1. PICK p \in Product :
        /\ task[t].pc = "row" /\ IsNext(t, p) /\ stockLock[p] = NoTask
        /\ stockLock' = [stockLock EXCEPT ![p] = t]
        /\ IF Enough(t, p) THEN Goto(t, "line") ELSE Fail(t)
        /\ UNCHANGED <<tables, redlock, lineLock, saga, budget>>
  BY DEF MoveStock, At
<1>2. /\ stockLock' \in [Product -> Task \cup {NoTask}] /\ stockLock'[p] = t
      /\ \A q \in Product : q # p => stockLock'[q] = stockLock[q]
      /\ \A q \in Product : stockLock'[q] = stockLock[q]
                            \/ (stockLock[q] = NoTask /\ stockLock'[q] = t)
      /\ OnlyTouches(t)
  BY <1>1, TakeRow
<1>3. BudgetOK
  BY <1>1, BudgetSame
<1>4. CASE ~Enough(t, p)
  BY <1>1, <1>2, <1>3, <1>4, FailStep
<1>5. CASE Enough(t, p)
  <2>1. task[t] \in TaskState /\ Shape(task[t]) /\ Holds(t)
    BY DEF LockInv, InventoryTypeOK
  <2>2. PICK w \in TaskState :
          /\ task' = [task EXCEPT ![t] = w]
          /\ w.pc = "line" /\ w.job = task[t].job /\ w.order = task[t].order
          /\ w.items = task[t].items /\ w.left = task[t].left
    BY <1>1, <1>5, GotoForm DEF Labels
  <2>3. Shape(w)
    BY <1>1, <2>1, <2>2 DEF Shape, Working
  <2>4. task'[t] = w
    BY <2>2 DEF LockInv, InventoryTypeOK
  <2>5. TablesOK'
    BY <1>1, <1>2 DEF TablesOK, LockInv, InventoryTypeOK, tables
  <2>6. \A q : q \in MovedBy(w) <=> q \in MovedBy(task[t]) \/ q = p
    <3>1. Top(w, p) /\ w.left \subseteq Product /\ p \in w.items
      BY <1>1, <2>1, <2>2 DEF IsNext, Top, TaskState, Shape
    <3>2. \A q : Top(w, q) => q = p
      BY <3>1, OneNext
    <3> QED BY <1>1, <2>2, <3>1, <3>2 DEF MovedBy, Working
  <2>7. \A q : q \in RecordedBy(w) <=> q \in RecordedBy(task[t])
    BY <1>1, <2>1, <2>2 DEF RecordedBy, Working, Shape
  <2>8. \A q : Enough(t, q)' = Enough(t, q)
    BY <1>1, <2>2, <2>4 DEF Enough, Reserves, Quantity, tables
  <2>9. Reserves(t)' = Reserves(t)
    BY <2>2, <2>4 DEF Reserves
  <2>10. \A q \in MovedBy(w) : stockLock'[q] = t /\ Enough(t, q)'
    <3>1. ASSUME NEW q \in MovedBy(w) PROVE stockLock'[q] = t /\ Enough(t, q)
      <4>1. q \in Product
        BY <2>1, <2>2 DEF MovedBy, TaskState
      <4>2. CASE q = p
        BY <1>2, <1>5, <4>2
      <4>3. CASE q # p
        BY <1>2, <2>1, <2>6, <4>1, <4>3 DEF Holds
      <4> QED BY <4>2, <4>3
    <3> QED BY <2>8, <3>1
  <2>11. \A q \in Product : stockLock'[q] = t => q \in MovedBy(w)
    BY <1>1, <1>2, <2>1, <2>6 DEF Holds
  <2>12. \A o \in Order, q \in Product :
           lineLock'[o][q] = t => /\ o = w.order /\ q \in RecordedBy(w)
                                  /\ line'[o][q] = IF Reserves(t)' THEN "none" ELSE "reserved"
    BY <1>1, <2>1, <2>2, <2>7, <2>9 DEF Holds, tables
  <2>13. Reserves(t)' => \A q \in RecordedBy(w) : lineLock'[w.order][q] = t
    BY <1>1, <2>1, <2>2, <2>7, <2>9 DEF Holds
  <2>14. Holds(t)'
    BY <2>4, <2>10, <2>11, <2>12, <2>13 DEF Holds, MovedBy, RecordedBy, Top
  <2> QED BY <1>2, <1>3, <2>2, <2>3, <2>5, <2>14, CallStep
<1> QED BY <1>4, <1>5

LEMMA TakeLine ==
  ASSUME LockInv, NEW t \in Task, NEW o \in Order, NEW p \in Product, lineLock[o][p] = NoTask,
         lineLock' = [lineLock EXCEPT ![o][p] = t], UNCHANGED <<tables, stockLock>>
  PROVE  /\ lineLock' \in [Order -> [Product -> Task \cup {NoTask}]] /\ lineLock'[o][p] = t
         /\ \A n \in Order, q \in Product :
              lineLock'[n][q] = lineLock[n][q] \/ (n = o /\ q = p)
         /\ OnlyTouches(t)
<1>1. lineLock \in [Order -> [Product -> Task \cup {NoTask}]]
  BY DEF LockInv, InventoryTypeOK
<1>2. lineLock' \in [Order -> [Product -> Task \cup {NoTask}]] /\ lineLock'[o][p] = t
      /\ \A n \in Order, q \in Product : lineLock'[n][q] = lineLock[n][q] \/ (n = o /\ q = p)
  BY <1>1
<1> QED BY <1>2 DEF OnlyTouches, tables

LEMMA StrictlyAbove == \A m, n \in Nat : m >= n /\ m # n => m > n
OBVIOUS

\* A call that is through with the reservation row of its next item, whose lock it
\* has now if the row is to be written.
LEMMA LineDone ==
  ASSUME LockInv, NEW t \in Task, NEW p \in Product, task[t].pc = "line", IsNext(t, p),
         UNCHANGED <<tables, redlock, stockLock, saga>>, BudgetOK,
         task' = [task EXCEPT ![t].left = @ \ {p},
                              ![t].pc = IF task[t].left = {p} THEN "commit" ELSE "row"],
         OnlyTouches(t), lineLock' \in [Order -> [Product -> Task \cup {NoTask}]],
         \A n \in Order, q \in Product :
           lineLock'[n][q] = lineLock[n][q] \/ (n = task[t].order /\ q = p),
         lineLock'[task[t].order][p] = t =>
           line[task[t].order][p] = (IF Reserves(t) THEN "none" ELSE "reserved"),
         Reserves(t) => lineLock'[task[t].order][p] = t
  PROVE  LockInv'
<1> DEFINE w == [task[t] EXCEPT !.left = @ \ {p},
                                !.pc = IF task[t].left = {p} THEN "commit" ELSE "row"]
<1>1. task[t] \in TaskState /\ Shape(task[t]) /\ Holds(t)
  BY DEF LockInv, InventoryTypeOK
<1>2. /\ w \in TaskState /\ w.pc = (IF task[t].left = {p} THEN "commit" ELSE "row")
      /\ w.job = task[t].job /\ w.order = task[t].order /\ w.items = task[t].items
      /\ w.left = task[t].left \ {p}
  BY <1>1 DEF TaskState, Labels
<1>3. task' = [task EXCEPT ![t] = w]
  OBVIOUS
<1> HIDE DEF w
<1>4. task[t].job # "payRelease" /\ Top(task[t], p) /\ p \in task[t].items
      /\ task[t].left \subseteq Product /\ task[t].items \subseteq Product
  BY <1>1 DEF Shape, IsNext, Top, TaskState
<1>5. Shape(w)
  <2>1. \A q \in w.items \ w.left, r \in w.left : rank[q] > rank[r]
    <3>1. ASSUME NEW q \in w.items \ w.left, NEW r \in w.left PROVE rank[q] > rank[r]
      <4>1. r \in task[t].left /\ r # p /\ r \in Product /\ q \in Product
        BY <1>2, <1>4
      <4>2. CASE q = p
        <5>1. rank[p] >= rank[r] /\ rank[p] # rank[r]
          BY <1>4, <4>1, RankAssumption DEF Top
        <5>2. rank[p] \in Nat /\ rank[r] \in Nat
          BY <4>1, RankAssumption
        <5>3. rank[p] > rank[r]
          BY <5>1, <5>2, StrictlyAbove
        <5> QED BY <4>2, <5>3
      <4>3. CASE q # p
        BY <1>1, <1>2, <1>4, <4>1, <4>3 DEF Shape, Working
      <4> QED BY <4>2, <4>3
    <3> QED BY <3>1
  <2>2. w.pc = "commit" => w.left = {}
    BY <1>2
  <2>3. w.pc \in {"commit", "row"}
    BY <1>2
  <2> QED BY <1>1, <1>2, <1>4, <2>1, <2>2, <2>3 DEF Shape
<1>6. task'[t] = w
  BY <1>3 DEF LockInv, InventoryTypeOK
<1>7. TablesOK'
  BY DEF TablesOK, LockInv, InventoryTypeOK, tables
<1>8. \A q : q \in MovedBy(w) <=> q \in MovedBy(task[t])
  <2>1. \A q : Top(task[t], q) => q = p
    BY <1>4, OneNext
  <2>2. w.pc \in Working /\ w.pc # "line"
    BY <1>2 DEF Working
  <2> QED BY <1>2, <1>4, <2>1, <2>2 DEF MovedBy, Working
<1>9. \A q : q \in RecordedBy(w) <=> q \in RecordedBy(task[t]) \/ q = p
  BY <1>2, <1>4 DEF RecordedBy, Working
<1>10. \A q : Enough(t, q)' = Enough(t, q)
  BY <1>2, <1>6 DEF Enough, Reserves, Quantity, tables
<1>11. Reserves(t)' = Reserves(t)
  BY <1>2, <1>6 DEF Reserves
<1>12. \A q \in MovedBy(w) : stockLock'[q] = t /\ Enough(t, q)'
  BY <1>1, <1>8, <1>10 DEF Holds
<1>13. \A q \in Product : stockLock'[q] = t => q \in MovedBy(w)
  BY <1>1, <1>8 DEF Holds
<1>14. \A o \in Order, q \in Product :
         lineLock'[o][q] = t => /\ o = w.order /\ q \in RecordedBy(w)
                                /\ line'[o][q] = IF Reserves(t)' THEN "none" ELSE "reserved"
  <2>1. ASSUME NEW o \in Order, NEW q \in Product, lineLock'[o][q] = t
        PROVE  /\ o = w.order /\ q \in RecordedBy(w)
               /\ line[o][q] = IF Reserves(t) THEN "none" ELSE "reserved"
    <3>1. CASE o = task[t].order /\ q = p
      BY <1>2, <1>9, <2>1, <3>1
    <3>2. CASE lineLock'[o][q] = lineLock[o][q]
      BY <1>1, <1>2, <1>9, <2>1, <3>2 DEF Holds
    <3> QED BY <3>1, <3>2
  <2> QED BY <1>11, <2>1 DEF tables
<1>15. Reserves(t)' => \A q \in RecordedBy(w) : lineLock'[w.order][q] = t
  <2>1. ASSUME Reserves(t), NEW q \in RecordedBy(w) PROVE lineLock'[w.order][q] = t
    <3>1. CASE q = p
      BY <1>2, <2>1, <3>1
    <3>2. CASE q # p
      <4>1. lineLock[task[t].order][q] = t
        BY <1>1, <1>9, <2>1, <3>2 DEF Holds
      <4>2. q \in Product /\ task[t].order \in Order
        BY <1>1, <1>4, <1>9, <3>2 DEF RecordedBy, TaskState
      <4> QED BY <1>2, <3>2, <4>1, <4>2
    <3> QED BY <3>1, <3>2
  <2> QED BY <1>11, <2>1
<1>16. Holds(t)'
  BY <1>6, <1>12, <1>13, <1>14, <1>15 DEF Holds, MovedBy, RecordedBy, Top
<1> QED BY <1>2, <1>3, <1>5, <1>7, <1>16, CallStep

LEMMA RecordLineStep ==
  ASSUME LockInv, NEW t \in Task, RecordLine(t) PROVE LockInv'
<1> DEFINE o == task[t].order
           wanted == IF Reserves(t) THEN "none" ELSE "reserved"
<1>1. PICK p \in Product :
        /\ task[t].pc = "line" /\ IsNext(t, p) /\ lineLock[o][p] = NoTask
        /\ IF Reserves(t) /\ line[o][p] # "none"
             THEN Fail(t) /\ UNCHANGED lineLock
             ELSE /\ lineLock' = IF line[o][p] = wanted
                                   THEN [lineLock EXCEPT ![o][p] = t] ELSE lineLock
                  /\ task' = [task EXCEPT
                       ![t].left = @ \ {p},
                       ![t].pc = IF task[t].left = {p} THEN "commit" ELSE "row"]
        /\ UNCHANGED <<tables, redlock, stockLock, saga, budget>>
  BY DEF RecordLine, At
<1>2. BudgetOK
  BY <1>1, BudgetSame
<1>3. o \in Order /\ t # NoTask
  BY TaskAssumption DEF LockInv, InventoryTypeOK, TaskState
<1> HIDE DEF o
<1>4. CASE Reserves(t) /\ line[o][p] # "none"
  BY <1>1, <1>2, <1>4, FailStep DEF LockInv, InventoryTypeOK
<1>5. CASE ~(Reserves(t) /\ line[o][p] # "none") /\ line[o][p] = wanted
  <2>1. lineLock' = [lineLock EXCEPT ![o][p] = t]
    BY <1>1, <1>5
  <2>2. /\ lineLock' \in [Order -> [Product -> Task \cup {NoTask}]] /\ lineLock'[o][p] = t
        /\ \A n \in Order, q \in Product : lineLock'[n][q] = lineLock[n][q] \/ (n = o /\ q = p)
        /\ OnlyTouches(t)
    BY <1>1, <1>3, <2>1, TakeLine
  <2> QED BY <1>1, <1>2, <1>5, <2>2, LineDone DEF o
<1>6. CASE ~(Reserves(t) /\ line[o][p] # "none") /\ line[o][p] # wanted
  <2>1. lineLock' = lineLock /\ OnlyTouches(t) /\ ~Reserves(t)
    BY <1>1, <1>6 DEF OnlyTouches, tables
  <2>2. lineLock'[o][p] # t
    BY <1>1, <1>3, <2>1
  <2> QED BY <1>1, <1>2, <1>6, <2>1, <2>2, LineDone DEF o, LockInv, InventoryTypeOK
<1> QED BY <1>4, <1>5, <1>6

LEMMA FindReservationStep ==
  ASSUME LockInv, NEW t \in Task, FindReservation(t) PROVE LockInv'
<1> DEFINE o == task[t].order
<1>1. PICK p \in task[t].items :
        /\ task[t].pc = "find" /\ lineLock[o][p] = NoTask
        /\ IF line[o][p] = "reserved"
             THEN lineLock' = [lineLock EXCEPT ![o][p] = t] /\ Goto(t, "restore")
             ELSE Goto(t, "idle") /\ UNCHANGED lineLock
        /\ UNCHANGED <<tables, redlock, stockLock, saga, budget>>
  BY DEF FindReservation, At
<1>2. BudgetOK
  BY <1>1, BudgetSame
<1>3. task[t] \in TaskState /\ Shape(task[t]) /\ Holds(t) /\ o \in Order /\ p \in Product
  BY DEF LockInv, InventoryTypeOK, TaskState
<1>4. CASE line[o][p] # "reserved"
  BY <1>1, <1>2, <1>4, FreeGoto DEF rowLocks, Labels, LockInv, InventoryTypeOK
<1>5. CASE line[o][p] = "reserved"
  <2>1. /\ lineLock' \in [Order -> [Product -> Task \cup {NoTask}]] /\ lineLock'[o][p] = t
        /\ \A n \in Order, q \in Product : lineLock'[n][q] = lineLock[n][q] \/ (n = o /\ q = p)
        /\ OnlyTouches(t)
    BY <1>1, <1>3, <1>5, TakeLine
  <2>2. PICK w \in TaskState :
          /\ task' = [task EXCEPT ![t] = w]
          /\ w.pc = "restore" /\ w.job = task[t].job /\ w.order = task[t].order
          /\ w.items = task[t].items /\ w.left = task[t].left
    BY <1>1, <1>5, GotoForm DEF Labels
  <2>3. Shape(w) /\ w.items = {p} /\ w.job = "payRelease"
    BY <1>1, <1>3, <2>2 DEF Shape, Working
  <2>4. task'[t] = w
    BY <2>2 DEF LockInv, InventoryTypeOK
  <2>5. TablesOK'
    BY <1>1, <2>1 DEF TablesOK, LockInv, InventoryTypeOK, tables
  <2>6. MovedBy(w) = {} /\ RecordedBy(w) = {p} /\ Free(task[t])
    <3>1. Free(task[t])
      BY <1>1, <1>3, FreePoint
    <3> QED BY <2>2, <2>3, <3>1 DEF MovedBy, RecordedBy, Working
  <2>7. /\ \A q \in Product : stockLock'[q] # t
        /\ \A n \in Order, q \in Product : lineLock[n][q] # t
    BY <1>1, <1>3, <2>6 DEF Holds, Free
  <2>8. ~Reserves(t)'
    BY <2>3, <2>4 DEF Reserves
  <2>9. \A n \in Order, q \in Product :
           lineLock'[n][q] = t => n = w.order /\ q \in RecordedBy(w) /\ line'[n][q] = "reserved"
    <3>1. ASSUME NEW n \in Order, NEW q \in Product, lineLock'[n][q] = t
          PROVE  n = o /\ q = p
      BY <2>1, <2>7, <3>1
    <3> QED BY <1>1, <1>5, <2>2, <2>6, <3>1 DEF tables
  <2>10. Holds(t)'
    BY <2>4, <2>6, <2>7, <2>8, <2>9 DEF Holds, MovedBy, RecordedBy, Top
  <2> QED BY <1>2, <2>1, <2>2, <2>3, <2>5, <2>10, CallStep
<1> QED BY <1>4, <1>5

LEMMA RestoreStockStep ==
  ASSUME LockInv, NEW t \in Task, RestoreStock(t) PROVE LockInv'
<1>1. PICK p \in task[t].left :
        /\ task[t].pc = "restore" /\ stockLock[p] = NoTask
        /\ stockLock' = [stockLock EXCEPT ![p] = t]
        /\ IF Enough(t, p)
             THEN task' = [task EXCEPT ![t].pc = "commit", ![t].left = {}]
             ELSE Fail(t)
        /\ UNCHANGED <<tables, redlock, lineLock, saga, budget>>
  BY DEF RestoreStock, At
<1>2. BudgetOK
  BY <1>1, BudgetSame
<1>3. task[t] \in TaskState /\ Shape(task[t]) /\ Holds(t) /\ p \in Product
  BY DEF LockInv, InventoryTypeOK, TaskState
<1>4. /\ stockLock' \in [Product -> Task \cup {NoTask}] /\ stockLock'[p] = t
      /\ \A q \in Product : q # p => stockLock'[q] = stockLock[q]
      /\ \A q \in Product : stockLock'[q] = stockLock[q]
                            \/ (stockLock[q] = NoTask /\ stockLock'[q] = t)
      /\ OnlyTouches(t)
  BY <1>1, <1>3, TakeRow
<1>5. CASE ~Enough(t, p)
  BY <1>1, <1>2, <1>4, <1>5, FailStep
<1>6. CASE Enough(t, p)
  <2> DEFINE w == [task[t] EXCEPT !.pc = "commit", !.left = {}]
  <2>1. /\ w \in TaskState /\ w.pc = "commit" /\ w.job = task[t].job
        /\ w.order = task[t].order /\ w.items = task[t].items /\ w.left = {}
    BY <1>3 DEF TaskState, Labels
  <2>2. task' = [task EXCEPT ![t] = w]
    BY <1>1, <1>6
  <2> HIDE DEF w
  <2>3. task[t].job = "payRelease" /\ task[t].items = {p}
    BY <1>1, <1>3 DEF Shape
  <2>4. Shape(w)
    BY <1>3, <2>1, <2>3 DEF Shape, Working
  <2>5. task'[t] = w
    BY <2>2 DEF LockInv, InventoryTypeOK
  <2>6. TablesOK'
    BY <1>1, <1>4 DEF TablesOK, LockInv, InventoryTypeOK, tables
  <2>7. MovedBy(w) = {p} /\ MovedBy(task[t]) = {} /\ RecordedBy(w) = RecordedBy(task[t])
    BY <1>1, <2>1, <2>3 DEF MovedBy, RecordedBy, Working
  <2>8. Enough(t, p)' = Enough(t, p) /\ ~Reserves(t)' /\ ~Reserves(t)
    BY <1>1, <2>1, <2>3, <2>5 DEF Enough, Reserves, Quantity, tables
  <2>9. \A q \in Product : stockLock'[q] = t => q \in MovedBy(w)
    BY <1>1, <1>3, <1>4, <2>7 DEF Holds
  <2>10. \A n \in Order, q \in Product :
           lineLock'[n][q] = t => n = w.order /\ q \in RecordedBy(w) /\ line'[n][q] = "reserved"
    BY <1>1, <1>3, <2>1, <2>7, <2>8 DEF Holds, tables
  <2>11. \A q \in MovedBy(w) : stockLock'[q] = t /\ Enough(t, q)'
    BY <1>4, <1>6, <2>7, <2>8
  <2>12. Holds(t)'
    BY <2>5, <2>8, <2>9, <2>10, <2>11 DEF Holds, MovedBy, RecordedBy, Top
  <2> QED BY <1>2, <1>4, <2>1, <2>2, <2>4, <2>6, <2>12, CallStep
<1> QED BY <1>5, <1>6

LEMMA LeaveForm ==
  ASSUME LockInv, NEW t \in Task, NEW failed \in BOOLEAN, Leave(t, failed),
         task[t].pc \in {"commit", "rollback"}
  PROVE  \E w \in TaskState :
           /\ task' = [task EXCEPT ![t] = w] /\ Shape(w)
           /\ w.pc = IF task[t].job \in {"reserve", "release"} THEN "unlock" ELSE "idle"
           /\ w.job = task[t].job /\ w.order = task[t].order /\ w.failed = failed
<1> DEFINE l == IF task[t].job \in {"reserve", "release"} THEN "unlock" ELSE "idle"
           w == [task[t] EXCEPT !.pc = l, !.failed = failed]
<1>1. task[t] \in TaskState /\ Shape(task[t])
  BY DEF LockInv, InventoryTypeOK
<1>2. l \in Labels
  BY DEF Labels
<1>3. task' = [task EXCEPT ![t] = w]
  BY DEF Leave
<1> HIDE DEF l
<1>4. /\ w \in TaskState /\ w.pc = l /\ w.job = task[t].job /\ w.order = task[t].order
      /\ w.items = task[t].items /\ w.left = task[t].left /\ w.failed = failed
  BY <1>1, <1>2 DEF TaskState
<1> HIDE DEF w
<1>5. Shape(w)
  BY <1>1, <1>4 DEF Shape, l, Working
<1> QED BY <1>3, <1>4, <1>5 DEF l

LEMMA CommitStep ==
  ASSUME LockInv, NEW t \in Task, Commit(t) PROVE LockInv'
<1>1. PICK failed \in BOOLEAN : Leave(t, failed)
  BY DEF Commit
<1>2. BudgetOK
  BY SpendType, KindTypes, BudgetSame DEF Commit, BudgetOK
<1>3. At(t, "commit") /\ Written(t) /\ Unlocked(t) /\ UNCHANGED <<redlock, saga>>
  BY DEF Commit
<1>4. PICK w \in TaskState :
           /\ task' = [task EXCEPT ![t] = w] /\ Shape(w)
           /\ w.pc = IF task[t].job \in {"reserve", "release"} THEN "unlock" ELSE "idle"
  BY <1>1, <1>3, LeaveForm DEF At
<1>5. w.pc \in {"unlock", "idle"}
  BY <1>4
<1> QED BY <1>2, <1>3, <1>4, <1>5, EndStep

LEMMA RollbackStep ==
  ASSUME LockInv, NEW t \in Task, Rollback(t) PROVE LockInv'
<1>1. PICK w \in TaskState :
           /\ task' = [task EXCEPT ![t] = w] /\ Shape(w)
           /\ w.pc = IF task[t].job \in {"reserve", "release"} THEN "unlock" ELSE "idle"
  BY LeaveForm DEF At, Rollback
<1>2. w.pc \in {"unlock", "idle"}
  BY <1>1
<1> QED BY <1>1, <1>2, BudgetSame, EndStep DEF Rollback

LEMMA CrashStep ==
  ASSUME LockInv, NEW t \in Task, Crash(t) PROVE LockInv'
<1>1. PICK w \in TaskState :
        /\ task' = [task EXCEPT ![t] = w]
        /\ w.pc = "idle" /\ w.job = task[t].job /\ w.order = task[t].order
        /\ w.items = task[t].items /\ w.left = task[t].left
  BY GotoForm DEF Crash, Labels
<1>2. Shape(task[t])
  BY DEF LockInv
<1>3. Shape(w)
  BY <1>1, <1>2 DEF Shape, Working
<1>4. BudgetOK
  BY SpendType, KindTypes DEF Crash, BudgetOK
<1> QED BY <1>1, <1>3, <1>4, EndStep DEF Crash

LEMMA ReleaseRedlockStep ==
  ASSUME LockInv, NEW t \in Task, ReleaseRedlock(t) PROVE LockInv'
<1>1. task[t].pc = "unlock" /\ UNCHANGED <<tables, rowLocks, saga>>
  BY DEF ReleaseRedlock, At
<1>2. redlock' \in [Product -> Task \cup {NoTask}] /\ saga' \in [Order -> SagaState]
  BY <1>1 DEF ReleaseRedlock, LockInv, InventoryTypeOK
<1>3. BudgetOK
  BY SpendType, KindTypes, BudgetSame DEF ReleaseRedlock, BudgetOK
<1>4. Goto(t, "idle") \/ (Goto(t, "run") /\ task[t].job = "reserve")
  BY DEF ReleaseRedlock, AfterUpdate
<1> QED BY <1>1, <1>2, <1>3, <1>4, FreeGoto DEF Labels

LEMMA RunSagaStep ==
  ASSUME LockInv, NEW t \in Task, RunSaga(t) PROVE LockInv'
<1>1. task[t].pc = "run" /\ UNCHANGED <<tables, rowLocks, redlock, budget>> /\ Goto(t, "driving")
  BY DEF RunSaga, At
<1>2. task[t].job = "reserve" /\ task[t].order \in Order
  BY <1>1 DEF LockInv, Shape, InventoryTypeOK, TaskState
<1>3. saga' \in [Order -> SagaState]
  BY <1>2 DEF RunSaga, LockInv, InventoryTypeOK, SagaState
<1> QED BY <1>1, <1>2, <1>3, BudgetSame, FreeGoto DEF Labels, LockInv, InventoryTypeOK

LEMMA GiveBackForm ==
  ASSUME LockInv, NEW t \in Task, task[t].pc = "driving", NEW status, GiveBack(t, status)
  PROVE  \E w \in TaskState :
           /\ task' = [task EXCEPT ![t] = w] /\ Shape(w) /\ w.order = task[t].order
           /\ \/ status # "completed" /\ w.pc = "redlock" /\ w.job = "release"
              \/ status = "completed" /\ w.pc = "idle" /\ w.job = "reserve"
<1>1. task[t] \in TaskState /\ Shape(task[t]) /\ task[t].order \in Order
  BY DEF LockInv, InventoryTypeOK, TaskState
<1>2. task[t].job = "reserve" /\ Items(task[t].order) # {}
  BY <1>1 DEF Shape
<1>3. CASE status = "completed"
  <2>1. PICK w \in TaskState :
        /\ task' = [task EXCEPT ![t] = w]
        /\ w.pc = "idle" /\ w.job = task[t].job /\ w.order = task[t].order
        /\ w.items = task[t].items /\ w.left = task[t].left
    BY <1>3, GotoForm DEF GiveBack, Labels
  <2>2. Shape(w)
    BY <1>1, <2>1 DEF Shape, Working
  <2> QED BY <1>2, <1>3, <2>1, <2>2
<1>4. CASE status # "completed"
  <2> DEFINE o == task[t].order
  <2>1. PICK w \in TaskState :
        /\ task' = [task EXCEPT ![t] = w]
        /\ w.pc = "redlock" /\ w.job = "release" /\ w.order = o /\ w.items = Items(o)
        /\ w.left = Items(o)
    BY <1>1, <1>4, ItemsType, BeginForm DEF GiveBack, Labels, Jobs
  <2>2. Shape(w)
    BY <1>2, <2>1 DEF Shape, Working
  <2> QED BY <1>4, <2>1, <2>2
<1> QED BY <1>3, <1>4

LEMMA RunReturnsStep ==
  ASSUME LockInv, NEW t \in Task, RunReturns(t) PROVE LockInv'
<1>1. task[t].pc = "driving" /\ UNCHANGED <<tables, redlock, rowLocks, saga>>
  BY DEF RunReturns, At
<1>2. PICK status : GiveBack(t, status)
  BY DEF RunReturns
<1>3. PICK w \in TaskState :
        task' = [task EXCEPT ![t] = w] /\ Shape(w) /\ w.pc \in {"redlock", "idle"}
  BY <1>1, <1>2, GiveBackForm
<1>4. task[t] \in TaskState /\ Shape(task[t])
  BY DEF LockInv, InventoryTypeOK
<1>5. Free(task[t]) /\ Free(w)
  BY <1>1, <1>3, <1>4, FreePoint
<1>6. BudgetOK
  BY SpendType, KindTypes, BudgetSame DEF RunReturns, BudgetOK
<1> QED BY <1>1, <1>3, <1>5, <1>6, FreeStep DEF LockInv, InventoryTypeOK

LEMMA RejectedStep ==
  ASSUME LockInv, NEW t \in Task, Rejected(t) PROVE LockInv'
<1>1. BudgetOK
  BY SpendType, KindTypes DEF Rejected, BudgetOK
<1>2. UNCHANGED <<tables, redlock, rowLocks, saga>>
  BY DEF Rejected
<1>3. CASE task[t].pc \in {"row", "line", "find", "restore", "commit"} /\ Fail(t)
  BY <1>1, <1>2, <1>3, FailStep DEF rowLocks, LockInv, InventoryTypeOK
<1>4. CASE At(t, "redlock") /\ Goto(t, "idle")
  BY <1>1, <1>2, <1>4, FreeGoto DEF At, Labels, LockInv, InventoryTypeOK
<1> QED BY <1>3, <1>4 DEF Rejected

LEMMA DeadlockedStep ==
  ASSUME LockInv, NEW t \in Task, Deadlocked(t) PROVE LockInv'
<1>1. task[t].pc \in {"row", "line", "find", "restore", "commit"}
  BY DEF Deadlocked, Blocker
<1> QED BY <1>1, BudgetSame, FailStep DEF Deadlocked, rowLocks, LockInv, InventoryTypeOK

\* Sagas and lapsing redlocks.
LEMMA OutsideStep ==
  ASSUME LockInv, UNCHANGED <<tables, rowLocks, task>>, BudgetOK,
         redlock' \in [Product -> Task \cup {NoTask}], saga' \in [Order -> SagaState]
  PROVE  LockInv'
<1>1. InventoryTypeOK'
  BY DEF LockInv, InventoryTypeOK, BudgetOK, tables, rowLocks
<1>2. ASSUME NEW t \in Task PROVE Shape(task'[t]) /\ Holds(t)'
  BY DEF LockInv, Holds, MovedBy, RecordedBy, Top, Enough, Reserves, Quantity, tables, rowLocks
<1> QED BY <1>1, <1>2 DEF LockInv, BudgetOK, Shape

LEMMA SagaMovesStep ==
  ASSUME LockInv, NEW o \in Order, SagaMoves(o) PROVE LockInv'
<1>1. saga' \in [Order -> SagaState]
  BY DEF SagaMoves, LockInv, InventoryTypeOK
<1> QED BY <1>1, BudgetSame, OutsideStep DEF SagaMoves, LockInv, InventoryTypeOK

LEMMA LapseRedlockStep ==
  ASSUME LockInv, NEW t \in Task, LapseRedlock(t) PROVE LockInv'
<1>1. redlock' \in [Product -> Task \cup {NoTask}]
  BY DEF LapseRedlock, LockInv, InventoryTypeOK
<1>2. BudgetOK
  BY SpendType, KindTypes DEF LapseRedlock, BudgetOK
<1> QED BY <1>1, <1>2, OutsideStep DEF LapseRedlock, LockInv, InventoryTypeOK

LEMMA ExpireRedlockStep ==
  ASSUME LockInv, NEW p \in Product, ExpireRedlock(p) PROVE LockInv'
<1>1. redlock' \in [Product -> Task \cup {NoTask}]
  BY DEF ExpireRedlock, LockInv, InventoryTypeOK
<1> QED BY <1>1, BudgetSame, OutsideStep DEF ExpireRedlock, LockInv, InventoryTypeOK

LEMMA LockInvInit == Init => LockInv
<1> SUFFICES ASSUME Init PROVE LockInv
  OBVIOUS
<1>1. AnyOrder \in Order
  BY BasketAssumption DEF AnyOrder
<1>2. InventoryTypeOK
  BY <1>1, StockAssumption, LimitsAssumption
     DEF Init, InventoryTypeOK, TaskState, Labels, Jobs, SagaState
<1>3. \A k \in Kinds : budget[k] <= Limits[k]
  BY LimitsAssumption DEF Init
<1>4. ASSUME NEW t \in Task PROVE Shape(task[t]) /\ Holds(t)
  <2>1. Shape(task[t])
    BY DEF Init, Shape, Working
  <2>2. /\ \A p \in Product : stockLock[p] # t
        /\ \A o \in Order, p \in Product : lineLock[o][p] # t
    BY TaskAssumption DEF Init
  <2>3. MovedBy(task[t]) = {} /\ RecordedBy(task[t]) = {}
    BY DEF Init, MovedBy, RecordedBy
  <2> QED BY <2>1, <2>2, <2>3 DEF Holds
<1> QED BY <1>2, <1>3, <1>4 DEF LockInv

LEMMA LockInvNext ==
  ASSUME LockInv, [Next]_vars PROVE LockInv'
<1>1. CASE UNCHANGED vars
  <2>1. BudgetOK
    BY <1>1, BudgetSame DEF vars
  <2> QED BY <1>1, <2>1, OutsideStep DEF vars, tables, rowLocks, LockInv, InventoryTypeOK
<1>2. ASSUME NEW t \in Task, NEW o \in Order,
             Checkout(t, o) \/ \E p \in Product : PayReserve(t, o, p) \/ PayRelease(t, o, p)
      PROVE  LockInv'
  BY <1>2, CheckoutStep, PayReserveStep, PayReleaseStep
<1>3. ASSUME NEW t \in Task, Continue(t) \/ Rejected(t) \/ LapseRedlock(t) \/ Crash(t)
      PROVE  LockInv'
  BY <1>3, AcquireRedlockStep, MoveStockStep, RecordLineStep, FindReservationStep,
     RestoreStockStep, CommitStep, RollbackStep, ReleaseRedlockStep, RunSagaStep,
     RunReturnsStep, DeadlockedStep, RejectedStep, LapseRedlockStep, CrashStep DEF Continue
<1>4. ASSUME NEW o \in Order, SagaMoves(o) PROVE LockInv'
  BY <1>4, SagaMovesStep
<1>5. ASSUME NEW p \in Product, ExpireRedlock(p) PROVE LockInv'
  BY <1>5, ExpireRedlockStep
<1> QED BY <1>1, <1>2, <1>3, <1>4, <1>5 DEF Next

LEMMA LocksAreKept == Spec => []LockInv
<1>1. LockInv /\ [Next]_vars => LockInv'
  BY LockInvNext
<1> QED BY <1>1, LockInvInit, PTL DEF Spec

\* Every variable keeps its type: whatever fails, lapses or overlaps, no COMMIT
\* takes a stock column below zero, although the test and the write are separate
\* statements, because the row is locked from one to the other.
THEOREM InventoryTypes == Spec => []InventoryTypeOK
<1>1. LockInv => InventoryTypeOK
  BY DEF LockInv
<1> QED BY <1>1, LocksAreKept, PTL
-----------------------------------------------------------------------------
(* Deadlocks.                                                              *)

\* A call of a circle that is not a release of payments waits for a row lock ...
LEMMA WaitsFor ==
  ASSUME LockInv, NEW t \in Task, task[t].job # "payRelease", NEW u \in Blocker(t)
  PROVE  \E p \in Product :
           /\ Top(task[t], p)
           /\ \/ task[t].pc = "row" /\ u = stockLock[p]
              \/ task[t].pc = "line" /\ u = lineLock[task[t].order][p]
<1>1. task[t].pc \notin {"find", "restore"}
  BY DEF LockInv, Shape
<1>2. CASE task[t].pc = "row"
  BY <1>2 DEF Blocker, IsNext, Top
<1>3. CASE task[t].pc = "line"
  BY <1>3 DEF Blocker, IsNext, Top
<1> QED BY <1>1, <1>2, <1>3 DEF Blocker

\* ... which is not that of a reservation, because whoever has that has the
\* inventory row too, ...
LEMMA LineIsFree ==
  ASSUME LockInv, NEW t \in Task, task[t].pc = "line", NEW p \in Product, Top(task[t], p),
         NEW u \in Task, u = lineLock[task[t].order][p], task[u].pc \in {"row", "line"}
  PROVE  FALSE
<1>1. Shape(task[t]) /\ Shape(task[u]) /\ Holds(t) /\ Holds(u) /\ task[t].order \in Order
  BY DEF LockInv, InventoryTypeOK, TaskState
<1>2. p \in RecordedBy(task[u])
  BY <1>1 DEF Holds
<1>3. task[u].job # "payRelease"
  BY <1>1 DEF Shape
<1>4. p \in MovedBy(task[u]) /\ p \notin task[u].left
  BY <1>2, <1>3 DEF MovedBy, RecordedBy
<1>5. p \in MovedBy(task[t])
  BY <1>1 DEF MovedBy, Working, Top, Shape
<1>6. t = u
  BY <1>1, <1>4, <1>5 DEF Holds
<1> QED BY <1>4, <1>6 DEF Top

\* ... and that of an inventory row is held by a call that waits for a row that
\* comes later in the order of the keys.
LEMMA WaitsDownwards ==
  ASSUME LockInv, NEW t \in Task, task[t].pc = "row", NEW p \in Product, Top(task[t], p),
         NEW u \in Task, u = stockLock[p], task[u].pc = "row", task[u].job # "payRelease",
         NEW q \in Product, Top(task[u], q)
  PROVE  rank[q] < rank[p]
<1>1. Shape(task[u]) /\ Holds(u)
  BY DEF LockInv
<1>2. p \in MovedBy(task[u])
  BY <1>1 DEF Holds
<1>3. p \in task[u].items \ task[u].left
  BY <1>2 DEF MovedBy
<1>4. rank[p] > rank[q]
  BY <1>1, <1>3 DEF Shape, Top, Working
<1> QED BY <1>4, RankAssumption

LEMMA CirclesNeedPayments == LockInv => OrderedLocking
<1> SUFFICES ASSUME LockInv, NEW c \in Circles, \A t \in c : task[t].job # "payRelease"
             PROVE  FALSE
  BY DEF OrderedLocking
<1>1. c \subseteq Task /\ c # {} /\ \A t \in c : Blocker(t) \cap c # {}
  BY DEF Circles
<1> HIDE DEF Circles
<1> DEFINE Waits(t, p, u) == /\ p \in Product /\ Top(task[t], p)
                             /\ \/ task[t].pc = "row" /\ u = stockLock[p]
                                \/ task[t].pc = "line" /\ u = lineLock[task[t].order][p]
<1>2. ASSUME NEW t \in c PROVE \E u \in c, p \in Product : Waits(t, p, u)
  <2>1. PICK u \in c : u \in Blocker(t)
    BY <1>1
  <2>2. \E p \in Product : Waits(t, p, u)
    BY <1>1, <2>1, WaitsFor
  <2> QED BY <2>2
<1>3. ASSUME NEW t \in c PROVE task[t].pc = "row"
  <2>1. PICK u \in c, p \in Product : Waits(t, p, u)
    BY <1>2
  <2>2. task[u].pc \in {"row", "line"}
    BY <1>2
  <2> QED BY <1>1, <2>1, <2>2, LineIsFree
<1> DEFINE Ranks == {n \in Nat : \E t \in c, p \in Product : Top(task[t], p) /\ n = rank[p]}
<1>4. Ranks \in SUBSET Nat /\ Ranks # {}
  <2>1. PICK t \in c : TRUE
    BY <1>1
  <2>2. PICK p \in Product : Top(task[t], p)
    BY <1>2
  <2>3. rank[p] \in Ranks
    BY <2>2, RankAssumption
  <2> QED BY <2>3
<1>5. PICK n \in Ranks : \A m \in Ranks : n <= m
  <2> HIDE DEF Ranks
  <2> QED BY <1>4, LeastNumber
<1>6. PICK t \in c, p \in Product : Top(task[t], p) /\ n = rank[p]
  BY <1>5
<1>7. PICK u \in c, q \in Product : Waits(t, q, u)
  BY <1>2
<1>8. q = p /\ u = stockLock[p]
  <2>1. task[t].left \subseteq Product
    BY <1>1 DEF LockInv, InventoryTypeOK, TaskState
  <2>2. q = p
    BY <1>6, <1>7, <2>1, OneNext
  <2> QED BY <1>3, <1>7, <2>2
<1>9. PICK r \in Product : Top(task[u], r)
  BY <1>2
<1>10. rank[r] < n
  BY <1>1, <1>3, <1>6, <1>8, <1>9, WaitsDownwards
<1>11. rank[r] \in Ranks
  BY <1>9, RankAssumption
<1>12. n <= rank[r] /\ n \in Nat /\ rank[r] \in Nat
  BY <1>5, <1>11
<1> HIDE DEF Ranks
<1> QED BY <1>10, <1>12

\* Sorting the items keeps any number of overlapping transactions from waiting for
\* each other in a circle: a deadlock always involves a release of payments.
THEOREM LockingIsOrdered == Spec => []OrderedLocking
BY LocksAreKept, CirclesNeedPayments, PTL
-----------------------------------------------------------------------------
(* Reservations are backed.                                                *)

\* Events are only ever used up.
LEMMA BudgetForm ==
  ASSUME [Next]_vars PROVE UNCHANGED budget \/ \E kind \in Kinds : Spend(kind)
<1>1. ASSUME NEW t \in Task, NEW o \in Order,
             Checkout(t, o) \/ \E p \in Product : PayReserve(t, o, p) \/ PayRelease(t, o, p)
      PROVE  \E kind \in Kinds : Spend(kind)
  BY <1>1 DEF Checkout, PayReserve, PayRelease, Kinds
<1>2. ASSUME NEW t \in Task, Continue(t)
      PROVE  UNCHANGED budget \/ \E kind \in Kinds : Spend(kind)
  BY <1>2 DEF Continue, AcquireRedlock, MoveStock, RecordLine, FindReservation, RestoreStock,
              Commit, Rollback, ReleaseRedlock, RunSaga, RunReturns, Deadlocked, Kinds
<1>3. ASSUME NEW t \in Task, Rejected(t) \/ LapseRedlock(t) \/ Crash(t)
      PROVE  \E kind \in Kinds : Spend(kind)
  BY <1>3 DEF Rejected, LapseRedlock, Crash, Kinds
<1>4. ASSUME NEW o \in Order, SagaMoves(o) PROVE UNCHANGED budget
  BY <1>4 DEF SagaMoves
<1>5. ASSUME NEW p \in Product, ExpireRedlock(p) PROVE UNCHANGED budget
  BY <1>5 DEF ExpireRedlock
<1> QED BY <1>1, <1>2, <1>3, <1>4, <1>5 DEF Next, vars

LEMMA StillUntouched ==
  ASSUME LockInv, [Next]_vars, NEW kinds \in SUBSET Kinds, Untouched(kinds)'
  PROVE  Untouched(kinds)
<1> SUFFICES ASSUME NEW k \in kinds PROVE budget[k] = Limits[k]
  BY DEF Untouched
<1>1. budget'[k] = Limits[k] /\ k \in Kinds
  BY DEF Untouched
<1>2. CASE UNCHANGED budget
  BY <1>1, <1>2
<1>3. CASE \E kind \in Kinds : Spend(kind)
  <2>1. PICK kind \in Kinds : Spend(kind)
    BY <1>3
  <2>2. budget'[kind] < Limits[kind] /\ (k # kind => budget'[k] = budget[k])
    BY <1>1, <2>1, SpendType
  <2>3. Limits[k] \in Nat
    BY <1>1, LimitsAssumption
  <2> QED BY <1>1, <2>2, <2>3
<1> QED BY <1>2, <1>3, BudgetForm

\* A step in which nobody becomes the owner of a reservation and no table changes.
LEMMA OwnStep ==
  ASSUME LockInv, OwnersBacked, NEW t \in Task, NEW w \in TaskState,
         task' = [task EXCEPT ![t] = w], w.job # "payRelease", UNCHANGED tables, OnlyTouches(t),
         Owner(w) => /\ Owner(task[t]) /\ w.order = task[t].order
                     /\ \A p \in RecordedBy(w) : lineLock'[w.order][p] = t
  PROVE  OwnersBacked'
<1>1. task'[t] = w /\ \A u \in Task : u # t => task'[u] = task[u]
  BY DEF LockInv, InventoryTypeOK
<1>2. \A u \in Task : Owner(task'[u]) => Owner(task[u]) /\ task'[u].order = task[u].order
  BY <1>1
<1>3. ASSUME NEW u \in Task PROVE task'[u].job # "payRelease"
  BY <1>1 DEF OwnersBacked
<1>4. ASSUME NEW u \in Task, Owner(task'[u])
      PROVE  /\ \A p \in Items(task'[u].order) : line'[task'[u].order][p] = "reserved"
             /\ \A v \in Task : Owner(task'[v]) /\ task'[v].order = task'[u].order => v = u
  BY <1>2, <1>4 DEF OwnersBacked, Owns, tables
<1>5. ASSUME NEW u \in Task, Owner(task'[u]), NEW p \in RecordedBy(task'[u])
      PROVE  lineLock'[task'[u].order][p] = u
  <2>1. CASE u = t
    BY <1>1, <1>5, <2>1
  <2>2. CASE u # t
    <3>1. task'[u] = task[u] /\ lineLock[task[u].order][p] = u
      BY <1>1, <1>5, <2>2 DEF OwnersBacked, Owns
    <3>2. p \in Product /\ task[u].order \in Order /\ u # NoTask
      BY <1>5, <3>1, TaskAssumption DEF RecordedBy, LockInv, InventoryTypeOK, TaskState
    <3> QED BY <2>2, <3>1, <3>2 DEF OnlyTouches
  <2> QED BY <2>1, <2>2
<1>6. ASSUME NEW u \in Task PROVE Owns(u)'
  BY <1>4, <1>5 DEF Owns, Owner, Items, RecordedBy
<1>7. ASSUME NEW p \in Product PROVE Backed(p)'
  <2>1. stock' = stock /\ line' = line
    BY DEF tables
  <2>2. Promised(p)' = Promised(p)
    BY <2>1 DEF Promised
  <2> QED BY <2>1, <2>2 DEF OwnersBacked, Backed
<1> QED BY <1>3, <1>6, <1>7 DEF OwnersBacked

\* ... among them those whose locks stay as they are.
LEMMA OwnGoto ==
  ASSUME LockInv, OwnersBacked, NEW t \in Task, NEW w \in TaskState,
         task' = [task EXCEPT ![t] = w], w.job # "payRelease", UNCHANGED <<tables, rowLocks>>,
         Owner(w) => /\ Owner(task[t]) /\ w.order = task[t].order /\ RecordedBy(w) = {}
  PROVE  OwnersBacked'
<1>1. OnlyTouches(t)
  BY DEF OnlyTouches, tables, rowLocks
<1> QED BY <1>1, OwnStep

\* ... and those of a call that fails or ends.
LEMMA OwnEnds ==
  ASSUME LockInv, OwnersBacked, NEW t \in Task, NEW w \in TaskState,
         task' = [task EXCEPT ![t] = w], w.job = task[t].job, UNCHANGED tables, OnlyTouches(t),
         w.pc \in {"idle", "rollback"} \/ (w.pc = "unlock" /\ w.failed)
  PROVE  OwnersBacked'
<1>1. ~Owner(w)
  BY DEF Owner
<1>2. w.job # "payRelease"
  BY DEF OwnersBacked
<1> QED BY <1>1, <1>2, OwnStep

LEMMA FailForm ==
  ASSUME LockInv, NEW t \in Task, Fail(t)
  PROVE  \E w \in TaskState : /\ task' = [task EXCEPT ![t] = w]
                              /\ w.pc = "rollback" /\ w.job = task[t].job
<1> DEFINE w == [task[t] EXCEPT !.pc = "rollback", !.failed = TRUE]
<1>1. task[t] \in TaskState
  BY DEF LockInv, InventoryTypeOK
<1>2. w \in TaskState /\ w.pc = "rollback" /\ w.job = task[t].job
  BY <1>1 DEF TaskState, Labels
<1>3. task' = [task EXCEPT ![t] = w]
  BY DEF Fail
<1> QED BY <1>2, <1>3

LEMMA OwnFails ==
  ASSUME LockInv, OwnersBacked, NEW t \in Task, Fail(t), UNCHANGED tables, OnlyTouches(t)
  PROVE  OwnersBacked'
<1>1. PICK w \in TaskState : /\ task' = [task EXCEPT ![t] = w]
                             /\ w.pc = "rollback" /\ w.job = task[t].job
  BY FailForm
<1> QED BY <1>1, OwnEnds

LEMMA OwnCallsBegin ==
  ASSUME LockInv, OwnersBacked, NEW t \in Task, NEW o \in Order,
         Checkout(t, o) \/ \E p \in Product : PayReserve(t, o, p)
  PROVE  OwnersBacked'
<1>1. UNCHANGED <<tables, rowLocks>>
  BY DEF Checkout, PayReserve
<1>2. CASE Checkout(t, o)
  <2>1. PICK w \in TaskState : /\ task' = [task EXCEPT ![t] = w]
                               /\ w.pc = "redlock" /\ w.job = "reserve"
    BY <1>2, ItemsType, BeginForm DEF Checkout, Labels, Jobs
  <2> QED BY <1>1, <2>1, OwnGoto DEF Owner
<1>3. CASE \E p \in Product : PayReserve(t, o, p)
  <2>1. PICK w \in TaskState : /\ task' = [task EXCEPT ![t] = w]
                               /\ w.pc = "row" /\ w.job = "payReserve"
    BY <1>3, BeginForm DEF PayReserve, Labels, Jobs
  <2> QED BY <1>1, <2>1, OwnGoto DEF Owner
<1> QED BY <1>2, <1>3

LEMMA OwnAcquireRedlock ==
  ASSUME LockInv, OwnersBacked, NEW t \in Task, AcquireRedlock(t) PROVE OwnersBacked'
<1>1. UNCHANGED <<tables, rowLocks>> /\ task[t].pc = "redlock"
  BY DEF AcquireRedlock, At
<1>2. PICK label \in {"row", "idle"} : Goto(t, label)
  BY DEF AcquireRedlock
<1>3. PICK w \in TaskState :
        /\ task' = [task EXCEPT ![t] = w]
        /\ w.pc = label /\ w.job = task[t].job /\ w.order = task[t].order
        /\ w.items = task[t].items /\ w.left = task[t].left
  BY <1>2, GotoForm DEF Labels
<1>4. w.job # "payRelease" /\ w.left = w.items
  BY <1>1, <1>3 DEF OwnersBacked, LockInv, Shape
<1>5. RecordedBy(w) = {}
  BY <1>4 DEF RecordedBy
<1>6. Owner(w) => Owner(task[t])
  BY <1>1, <1>2, <1>3 DEF Owner
<1> QED BY <1>1, <1>3, <1>4, <1>5, <1>6, OwnGoto

LEMMA OwnMoveStock ==
  ASSUME LockInv, OwnersBacked, NEW t \in Task, MoveStock(t) PROVE OwnersBacked'
<1>1. PICK p \in Product :
        /\ task[t].pc = "row" /\ stockLock[p] = NoTask
        /\ stockLock' = [stockLock EXCEPT ![p] = t]
        /\ IF Enough(t, p) THEN Goto(t, "line") ELSE Fail(t)
        /\ UNCHANGED <<tables, lineLock>>
  BY DEF MoveStock, At
<1>2. OnlyTouches(t)
  BY <1>1, TakeRow
<1>3. CASE Fail(t)
  BY <1>1, <1>2, <1>3, OwnFails
<1>4. CASE Goto(t, "line")
  <2>1. PICK w \in TaskState :
          /\ task' = [task EXCEPT ![t] = w]
          /\ w.pc = "line" /\ w.job = task[t].job /\ w.order = task[t].order
          /\ w.items = task[t].items /\ w.left = task[t].left
    BY <1>4, GotoForm DEF Labels
  <2>2. w.job # "payRelease"
    BY <2>1 DEF OwnersBacked
  <2>3. RecordedBy(w) = RecordedBy(task[t])
    BY <1>1, <2>1, <2>2 DEF RecordedBy, Working
  <2>4. Owner(w) => Owner(task[t])
    BY <1>1, <2>1 DEF Owner
  <2>5. Owner(task[t]) => \A q \in RecordedBy(task[t]) : lineLock[task[t].order][q] = t
    BY DEF OwnersBacked, Owns
  <2> QED BY <1>1, <1>2, <2>1, <2>2, <2>3, <2>4, <2>5, OwnStep
<1> QED BY <1>1, <1>3, <1>4

\* The release of an order finds all its reservations.
LEMMA OwnRecordLine ==
  ASSUME LockInv, OwnersBacked, NEW t \in Task, RecordLine(t) PROVE OwnersBacked'
<1> DEFINE o == task[t].order
           wanted == IF Reserves(t) THEN "none" ELSE "reserved"
<1>1. PICK p \in Product :
        /\ task[t].pc = "line" /\ IsNext(t, p) /\ lineLock[o][p] = NoTask
        /\ IF Reserves(t) /\ line[o][p] # "none"
             THEN Fail(t) /\ UNCHANGED lineLock
             ELSE /\ lineLock' = IF line[o][p] = wanted
                                   THEN [lineLock EXCEPT ![o][p] = t] ELSE lineLock
                  /\ task' = [task EXCEPT
                       ![t].left = @ \ {p},
                       ![t].pc = IF task[t].left = {p} THEN "commit" ELSE "row"]
        /\ UNCHANGED <<tables, stockLock>>
  BY DEF RecordLine, At
<1>2. task[t] \in TaskState /\ Shape(task[t]) /\ o \in Order
  BY DEF LockInv, InventoryTypeOK, TaskState
<1>3. CASE Reserves(t) /\ line[o][p] # "none"
  BY <1>1, <1>3, OwnFails DEF OnlyTouches, tables
<1>4. CASE ~(Reserves(t) /\ line[o][p] # "none")
  <2> DEFINE w == [task[t] EXCEPT !.left = @ \ {p},
                                  !.pc = IF task[t].left = {p} THEN "commit" ELSE "row"]
  <2>1. /\ w \in TaskState /\ w.pc = (IF task[t].left = {p} THEN "commit" ELSE "row")
        /\ w.job = task[t].job /\ w.order = task[t].order /\ w.items = task[t].items
        /\ w.left = task[t].left \ {p}
    BY <1>2 DEF TaskState, Labels
  <2>2. task' = [task EXCEPT ![t] = w]
    BY <1>1, <1>4
  <2> HIDE DEF w
  <2>3. w.job # "payRelease"
    BY <2>1 DEF OwnersBacked
  <2>4. OnlyTouches(t)
    <3>1. CASE lineLock' = lineLock
      BY <1>1, <3>1 DEF OnlyTouches, tables
    <3>2. CASE lineLock' = [lineLock EXCEPT ![o][p] = t]
      BY <1>1, <1>2, <3>2, TakeLine
    <3> QED BY <1>1, <1>4, <3>1, <3>2
  <2>5. ASSUME Owner(w)
        PROVE  Owner(task[t]) /\ \A q \in RecordedBy(w) : lineLock'[w.order][q] = t
    <3>1. w.job = "release"
      BY <2>1, <2>5 DEF Owner
    <3>2. Owner(task[t])
      BY <1>1, <2>1, <3>1 DEF Owner
    <3>3. p \in Items(o)
      BY <1>1, <1>2, <2>1, <3>1 DEF Shape, IsNext
    <3>4. line[o][p] = "reserved" /\ ~Reserves(t)
      BY <2>1, <3>1, <3>2, <3>3 DEF OwnersBacked, Owns, Reserves
    <3>5. lineLock' = [lineLock EXCEPT ![o][p] = t]
      BY <1>1, <3>4
    <3>6. /\ lineLock'[o][p] = t
          /\ \A n \in Order, q \in Product :
               lineLock'[n][q] = lineLock[n][q] \/ (n = o /\ q = p)
      <4>1. lineLock \in [Order -> [Product -> Task \cup {NoTask}]]
        BY DEF LockInv, InventoryTypeOK
      <4> HIDE DEF o
      <4> QED BY <1>2, <3>5, <4>1
    <3>7. ASSUME NEW q \in RecordedBy(w), q # p PROVE lineLock'[o][q] = t
      <4>1. q \in RecordedBy(task[t]) /\ q \in Product
        BY <1>1, <1>2, <2>1, <2>3, <3>7 DEF RecordedBy, Working, TaskState
      <4>2. lineLock[o][q] = t
        BY <3>2, <4>1 DEF OwnersBacked, Owns
      <4> QED BY <1>2, <3>6, <3>7, <4>1, <4>2
    <3> QED BY <2>1, <3>2, <3>6, <3>7
  <2> QED BY <1>1, <2>1, <2>2, <2>3, <2>4, <2>5, OwnStep
<1> QED BY <1>3, <1>4

LEMMA OwnRollback ==
  ASSUME LockInv, OwnersBacked, NEW t \in Task, Rollback(t) PROVE OwnersBacked'
<1>1. PICK w \in TaskState :
           /\ task' = [task EXCEPT ![t] = w]
           /\ w.pc = IF task[t].job \in {"reserve", "release"} THEN "unlock" ELSE "idle"
           /\ w.job = task[t].job /\ w.failed = TRUE
  BY LeaveForm DEF At, Rollback
<1>2. OnlyTouches(t) /\ UNCHANGED tables
  BY DEF Rollback, Unlocked, OnlyTouches, tables
<1> QED BY <1>1, <1>2, OwnEnds

LEMMA OwnCrash ==
  ASSUME LockInv, OwnersBacked, NEW t \in Task, Crash(t) PROVE OwnersBacked'
<1>1. PICK w \in TaskState :
        task' = [task EXCEPT ![t] = w] /\ w.pc = "idle" /\ w.job = task[t].job
  BY GotoForm DEF Crash, Labels
<1>2. OnlyTouches(t) /\ UNCHANGED tables
  BY DEF Crash, Unlocked, OnlyTouches, tables
<1> QED BY <1>1, <1>2, OwnEnds

LEMMA OwnReleaseRedlock ==
  ASSUME LockInv, OwnersBacked, NEW t \in Task, ReleaseRedlock(t) PROVE OwnersBacked'
<1>1. task[t].pc = "unlock" /\ UNCHANGED <<tables, rowLocks>>
  BY DEF ReleaseRedlock, At
<1>2. PICK label \in {"idle", "run"} :
        Goto(t, label) /\ (label = "run" => task[t].job = "reserve" /\ ~task[t].failed)
  BY DEF ReleaseRedlock, AfterUpdate
<1>3. PICK w \in TaskState :
        /\ task' = [task EXCEPT ![t] = w]
        /\ w.pc = label /\ w.job = task[t].job /\ w.order = task[t].order
  BY <1>2, GotoForm DEF Labels
<1>4. w.job # "payRelease"
  BY <1>3 DEF OwnersBacked
<1>5. RecordedBy(w) = {}
  BY <1>2, <1>3, <1>4 DEF RecordedBy, Working
<1>6. Owner(w) => Owner(task[t])
  BY <1>1, <1>2, <1>3 DEF Owner
<1> QED BY <1>1, <1>3, <1>4, <1>5, <1>6, OwnGoto

LEMMA OwnRunSaga ==
  ASSUME LockInv, OwnersBacked, NEW t \in Task, RunSaga(t) PROVE OwnersBacked'
<1>1. task[t].pc = "run" /\ UNCHANGED <<tables, rowLocks>> /\ Goto(t, "driving")
  BY DEF RunSaga, At
<1>2. PICK w \in TaskState :
        /\ task' = [task EXCEPT ![t] = w]
        /\ w.pc = "driving" /\ w.job = task[t].job /\ w.order = task[t].order
  BY <1>1, GotoForm DEF Labels
<1>3. w.job # "payRelease"
  BY <1>2 DEF OwnersBacked
<1>4. RecordedBy(w) = {}
  BY <1>2, <1>3 DEF RecordedBy, Working
<1>5. Owner(w) => Owner(task[t])
  BY <1>1, <1>2 DEF Owner
<1> QED BY <1>1, <1>2, <1>3, <1>4, <1>5, OwnGoto

LEMMA OwnRunReturns ==
  ASSUME LockInv, OwnersBacked, NEW t \in Task, RunReturns(t) PROVE OwnersBacked'
<1>1. task[t].pc = "driving" /\ UNCHANGED <<tables, rowLocks>>
  BY DEF RunReturns, At
<1>2. PICK status : GiveBack(t, status)
  BY DEF RunReturns
<1>3. PICK w \in TaskState :
        /\ task' = [task EXCEPT ![t] = w] /\ w.order = task[t].order
        /\ \/ w.pc = "redlock" /\ w.job = "release"
           \/ w.pc = "idle" /\ w.job = "reserve"
  BY <1>1, <1>2, GiveBackForm
<1>4. RecordedBy(w) = {} /\ w.job # "payRelease"
  BY <1>3 DEF RecordedBy, Working
<1>5. Owner(task[t])
  BY <1>1 DEF Owner, LockInv, Shape
<1> QED BY <1>1, <1>3, <1>4, <1>5, OwnGoto

LEMMA OwnRejected ==
  ASSUME LockInv, OwnersBacked, NEW t \in Task, Rejected(t) \/ Deadlocked(t)
  PROVE  OwnersBacked'
<1>1. UNCHANGED <<tables, rowLocks>>
  BY DEF Rejected, Deadlocked
<1>2. OnlyTouches(t)
  BY <1>1 DEF OnlyTouches, tables, rowLocks
<1>3. CASE Fail(t)
  BY <1>1, <1>2, <1>3, OwnFails
<1>4. CASE Goto(t, "idle")
  <2>1. PICK w \in TaskState :
          task' = [task EXCEPT ![t] = w] /\ w.pc = "idle" /\ w.job = task[t].job
    BY <1>4, GotoForm DEF Labels
  <2> QED BY <1>1, <1>2, <2>1, OwnEnds
<1> QED BY <1>3, <1>4 DEF Rejected, Deadlocked

\* Calls of payments that release do not exist yet.
LEMMA OwnNoPayRelease ==
  ASSUME LockInv, OwnersBacked, NEW t \in Task PROVE ~FindReservation(t) /\ ~RestoreStock(t)
BY DEF FindReservation, RestoreStock, At, OwnersBacked, LockInv, Shape

LEMMA OwnOutside ==
  ASSUME OwnersBacked, UNCHANGED <<tables, rowLocks, task>> PROVE OwnersBacked'
<1>1. stock' = stock /\ line' = line /\ lineLock' = lineLock /\ task' = task
  BY DEF tables, rowLocks
<1>2. ASSUME NEW t \in Task PROVE Owns(t)' /\ task'[t].job # "payRelease"
  BY <1>1 DEF OwnersBacked, Owns, Owner, RecordedBy, Items
<1>3. ASSUME NEW p \in Product PROVE Backed(p)'
  <2>1. Promised(p)' = Promised(p)
    BY <1>1 DEF Promised
  <2> QED BY <1>1, <2>1 DEF OwnersBacked, Backed
<1> QED BY <1>2, <1>3 DEF OwnersBacked

\* A transaction commits: it has the reservation rows of all its items and of
\* nothing else.
LEMMA CommitLines ==
  ASSUME LockInv, OwnersBacked, NEW t \in Task, At(t, "commit")
  PROVE  /\ \A o \in Order, p \in Product :
              lineLock[o][p] = t <=> o = task[t].order /\ p \in task[t].items
         /\ \A p \in task[t].items :
              line[task[t].order][p] = IF Reserves(t) THEN "none" ELSE "reserved"
         /\ task[t].items \subseteq Product /\ task[t].order \in Order
         /\ Reserves(t) \/ (task[t].job = "release" /\ Owner(task[t]))
<1>1. /\ task[t] \in TaskState /\ Shape(task[t]) /\ Holds(t) /\ task[t].job # "payRelease"
      /\ task[t].pc = "commit"
  BY DEF LockInv, InventoryTypeOK, OwnersBacked, At
<1>2. task[t].items \subseteq Product /\ task[t].order \in Order
  BY <1>1 DEF TaskState
<1>3. RecordedBy(task[t]) = task[t].items
  BY <1>1 DEF RecordedBy, Shape, Working
<1>4. Reserves(t) \/ (task[t].job = "release" /\ Owner(task[t]))
  BY <1>1 DEF Reserves, Owner, TaskState, Jobs
<1>5. \A p \in task[t].items : lineLock[task[t].order][p] = t
  <2>1. CASE Reserves(t)
    BY <1>1, <1>3, <2>1 DEF Holds
  <2>2. CASE Owner(task[t])
    BY <1>3, <2>2 DEF OwnersBacked, Owns
  <2> QED BY <1>4, <2>1, <2>2
<1>6. \A o \in Order, p \in Product :
        lineLock[o][p] = t => o = task[t].order /\ p \in task[t].items
  BY <1>1, <1>3 DEF Holds
<1>7. \A p \in task[t].items :
        line[task[t].order][p] = IF Reserves(t) THEN "none" ELSE "reserved"
  BY <1>1, <1>2, <1>5 DEF Holds
<1> QED BY <1>2, <1>4, <1>5, <1>6, <1>7

LEMMA CommitBacked ==
  ASSUME LockInv, OwnersBacked, NEW t \in Task, Commit(t), NEW p \in Product
  PROVE  Backed(p)'
<1> DEFINE o == task[t].order
           R == {n \in Order : line[n][p] = "reserved"}
           S == {n \in Order : line'[n][p] = "reserved"}
           Q == Basket[o][p]
<1>1. /\ \A n \in Order, q \in Product : lineLock[n][q] = t <=> n = o /\ q \in task[t].items
      /\ \A q \in task[t].items : line[o][q] = IF Reserves(t) THEN "none" ELSE "reserved"
      /\ o \in Order
  BY CommitLines DEF Commit
<1>2. \A n \in Order :
        line'[n][p] = IF lineLock[n][p] = t THEN IF Reserves(t) THEN "reserved" ELSE "released"
                                            ELSE line[n][p]
  BY DEF Commit, Written
<1>3. stock'[p] = IF p \in task[t].items THEN Moved(t, p) ELSE stock[p]
  BY DEF Commit, Written
<1>4. stock[p].reserved = Units(p, R) /\ stock[p].available = Stock[p] - Units(p, R)
  BY DEF OwnersBacked, Backed, Promised
<1>5. Promised(p)' = Units(p, S)
  BY DEF Promised
<1>6. R \in SUBSET Order /\ S \in SUBSET Order
  OBVIOUS
<1>7. /\ p \notin task[t].items => S = R
      /\ p \in task[t].items /\ Reserves(t) => S = R \cup {o} /\ o \notin R
      /\ p \in task[t].items /\ ~Reserves(t) => S = R \ {o} /\ o \in R
  BY <1>1, <1>2
<1>8. Q \in Nat /\ Stock[p] \in Nat
  BY <1>1, BasketAssumption, StockAssumption
<1> HIDE DEF R, S
<1>9. Units(p, R) \in Nat /\ Units(p, S) \in Nat
  BY <1>6, UnitsNat
<1>10. CASE p \notin task[t].items
  BY <1>3, <1>4, <1>5, <1>7, <1>10 DEF Backed
<1>11. CASE p \in task[t].items /\ Reserves(t)
  <2>1. Units(p, S) = Units(p, R) + Q
    BY <1>1, <1>6, <1>7, <1>11, UnitsAdd
  <2>2. /\ stock'[p].reserved = Units(p, R) + Q
        /\ stock'[p].available = (Stock[p] - Units(p, R)) - Q
    BY <1>3, <1>4, <1>11 DEF Moved, Quantity
  <2>3. (Stock[p] - Units(p, R)) - Q = Stock[p] - (Units(p, R) + Q)
    BY <1>8, <1>9
  <2> QED BY <1>5, <2>1, <2>2, <2>3 DEF Backed
<1>12. CASE p \in task[t].items /\ ~Reserves(t)
  <2>1. Units(p, R) = Q + Units(p, S)
    BY <1>6, <1>7, <1>12, UnitsRemove
  <2>2. /\ stock'[p].reserved = Units(p, R) - Q
        /\ stock'[p].available = (Stock[p] - Units(p, R)) + Q
    BY <1>3, <1>4, <1>12 DEF Moved, Quantity
  <2>3. Units(p, R) - Q = Units(p, S)
        /\ (Stock[p] - Units(p, R)) + Q = Stock[p] - Units(p, S)
    BY <1>8, <1>9, <2>1
  <2> QED BY <1>5, <2>2, <2>3 DEF Backed
<1> QED BY <1>10, <1>11, <1>12

LEMMA CommitTouches ==
  ASSUME LockInv, NEW t \in Task, Commit(t) PROVE OnlyTouches(t)
<1>1. MovedBy(task[t]) = task[t].items
  BY DEF MovedBy, LockInv, Shape, Commit, At, Working
<1>2. \A p \in task[t].items : stockLock[p] = t
  BY <1>1 DEF LockInv, Holds
<1> QED BY <1>2 DEF Commit, Written, Unlocked, OnlyTouches

LEMMA CommitOwns ==
  ASSUME LockInv, OwnersBacked, NEW t \in Task, Commit(t), NEW u \in Task
  PROVE  Owns(u)'
<1> DEFINE o == task[t].order
<1>1. /\ \A n \in Order, q \in Product : lineLock[n][q] = t <=> n = o /\ q \in task[t].items
      /\ \A q \in task[t].items : line[o][q] = IF Reserves(t) THEN "none" ELSE "reserved"
      /\ task[t].items \subseteq Product /\ o \in Order
      /\ Reserves(t) \/ (task[t].job = "release" /\ Owner(task[t]))
  BY CommitLines DEF Commit
<1>2. PICK failed \in BOOLEAN : Leave(t, failed)
  BY DEF Commit
<1>3. PICK w \in TaskState :
           /\ task' = [task EXCEPT ![t] = w]
           /\ w.pc = IF task[t].job \in {"reserve", "release"} THEN "unlock" ELSE "idle"
           /\ w.job = task[t].job /\ w.order = o
  BY <1>2, LeaveForm DEF Commit, At
<1>4. task'[t] = w /\ \A v \in Task : v # t => task'[v] = task[v]
  BY <1>3 DEF LockInv, InventoryTypeOK
<1>5. \A n \in Order, q \in Product :
        line'[n][q] = IF n = o /\ q \in task[t].items
                        THEN IF Reserves(t) THEN "reserved" ELSE "released"
                        ELSE line[n][q]
  BY <1>1 DEF Commit, Written
<1>6. Owner(w) => /\ task[t].job = "reserve" /\ Reserves(t)
                  /\ task[t].items = Items(o) /\ Items(o) # {}
  <2>1. Shape(task[t]) /\ task[t].pc = "commit"
    BY DEF LockInv, Commit, At
  <2> QED BY <1>3, <2>1 DEF Owner, Shape, Reserves
<1>7. ASSUME NEW v \in Task, v # t, Owner(task[v]), task[v].order = o
      PROVE  ~Owner(w) /\ Reserves(t) /\ \A q \in Items(o) : q \notin task[t].items
  <2>1. \A q \in Items(o) : line[o][q] = "reserved"
    BY <1>7 DEF OwnersBacked, Owns
  <2>2. Reserves(t)
    BY <1>1, <1>7 DEF OwnersBacked, Owns
  <2>3. \A q \in Items(o) : q \notin task[t].items
    BY <1>1, <2>1, <2>2
  <2> QED BY <1>6, <2>2, <2>3
<1>8. OnlyTouches(t)
  BY CommitTouches
<1>9. CASE u = t
  <2>1. ASSUME Owner(w) PROVE \A q \in Items(o) : line'[o][q] = "reserved"
    BY <1>1, <1>5, <1>6, <2>1
  <2>2. RecordedBy(w) = {}
    BY <1>3 DEF RecordedBy, Working
  <2>3. ASSUME Owner(w), NEW v \in Task, Owner(task'[v]), task'[v].order = w.order PROVE v = t
    BY <1>3, <1>4, <1>7, <2>3
  <2> QED BY <1>3, <1>4, <1>9, <2>1, <2>2, <2>3 DEF Owns, Owner, RecordedBy, Items
<1>10. CASE u # t
  <2> SUFFICES ASSUME Owner(task[u])
               PROVE  /\ \A q \in Items(task[u].order) : line'[task[u].order][q] = "reserved"
                      /\ \A q \in RecordedBy(task[u]) : lineLock'[task[u].order][q] = u
                      /\ \A v \in Task : Owner(task'[v]) /\ task'[v].order = task[u].order => v = u
    BY <1>4, <1>10 DEF Owns, Owner, RecordedBy, Items
  <2>1. Owns(u) /\ task[u] \in TaskState /\ task[u].order \in Order /\ u # NoTask
    BY TaskAssumption DEF OwnersBacked, LockInv, InventoryTypeOK, TaskState
  <2>2. ASSUME NEW q \in Items(task[u].order) PROVE line'[task[u].order][q] = "reserved"
    <3>1. q \in Product /\ line[task[u].order][q] = "reserved"
      BY <2>1 DEF Owns, Items
    <3>2. ~(task[u].order = o /\ q \in task[t].items)
      BY <1>7, <1>10
    <3> QED BY <1>5, <2>1, <3>1, <3>2
  <2>3. ASSUME NEW q \in RecordedBy(task[u]) PROVE lineLock'[task[u].order][q] = u
    <3>1. q \in Product /\ lineLock[task[u].order][q] = u
      BY <2>1 DEF Owns, RecordedBy, TaskState
    <3> QED BY <1>8, <1>10, <2>1, <3>1 DEF OnlyTouches
  <2>4. ASSUME NEW v \in Task, Owner(task'[v]), task'[v].order = task[u].order PROVE v = u
    <3>1. CASE v = t
      BY <1>3, <1>4, <1>7, <1>10, <2>4, <3>1
    <3>2. CASE v # t
      BY <1>4, <2>1, <2>4, <3>2 DEF Owns
    <3> QED BY <3>1, <3>2
  <2> QED BY <2>2, <2>3, <2>4
<1> QED BY <1>9, <1>10

LEMMA OwnCommit ==
  ASSUME LockInv, OwnersBacked, NEW t \in Task, Commit(t) PROVE OwnersBacked'
<1>1. ASSUME NEW u \in Task PROVE task'[u].job # "payRelease"
  <2>0. PICK failed \in BOOLEAN : Leave(t, failed)
    BY DEF Commit
  <2>1. task'[u].job = task[u].job
    <3>1. PICK w \in TaskState : task' = [task EXCEPT ![t] = w] /\ w.job = task[t].job
      BY <2>0, LeaveForm DEF Commit, At
    <3> QED BY <3>1 DEF LockInv, InventoryTypeOK
  <2> QED BY <2>1 DEF OwnersBacked
<1> QED BY <1>1, CommitBacked, CommitOwns DEF OwnersBacked

LEMMA BackedInvInit == Init => BackedInv
<1> SUFFICES ASSUME Init PROVE OwnersBacked
  BY DEF BackedInv
<1>1. ASSUME NEW t \in Task PROVE task[t].job # "payRelease" /\ Owns(t)
  BY DEF Init, Owns, Owner
<1>2. ASSUME NEW p \in Product PROVE Backed(p)
  <2>1. {o \in Order : line[o][p] = "reserved"} = {}
    BY DEF Init
  <2>2. Promised(p) = 0
    BY <2>1, UnitsEmpty DEF Promised
  <2> QED BY <2>2, StockAssumption DEF Init, Backed
<1> QED BY <1>1, <1>2 DEF OwnersBacked

LEMMA BackedInvNext ==
  ASSUME LockInv, BackedInv, [Next]_vars PROVE BackedInv'
<1> SUFFICES ASSUME Untouched({"payReleases"})' PROVE OwnersBacked'
  BY DEF BackedInv
<1>1. OwnersBacked
  BY StillUntouched DEF BackedInv, Kinds
<1>2. CASE UNCHANGED vars
  BY <1>1, <1>2, OwnOutside DEF vars, tables, rowLocks
<1>3. ASSUME NEW t \in Task, NEW o \in Order,
             Checkout(t, o) \/ \E p \in Product : PayReserve(t, o, p) \/ PayRelease(t, o, p)
      PROVE  OwnersBacked'
  <2>1. \A p \in Product : ~PayRelease(t, o, p)
    <3>1. budget'["payReleases"] = Limits["payReleases"] /\ Limits["payReleases"] \in Nat
      BY LimitsAssumption DEF Untouched, Kinds
    <3>2. ASSUME Spend("payReleases") PROVE FALSE
      BY <3>1, <3>2, SpendType, KindTypes
    <3> QED BY <3>2 DEF PayRelease
  <2> QED BY <1>1, <1>3, <2>1, OwnCallsBegin
<1>4. ASSUME NEW t \in Task, Continue(t) \/ Rejected(t) \/ LapseRedlock(t) \/ Crash(t)
      PROVE  OwnersBacked'
  <2>1. CASE LapseRedlock(t)
    BY <1>1, <2>1, OwnOutside DEF LapseRedlock
  <2> QED
    BY <1>1, <1>4, <2>1, OwnAcquireRedlock, OwnMoveStock, OwnRecordLine, OwnNoPayRelease,
       OwnCommit, OwnRollback, OwnReleaseRedlock, OwnRunSaga, OwnRunReturns, OwnRejected,
       OwnCrash DEF Continue
<1>5. ASSUME NEW o \in Order, SagaMoves(o) PROVE OwnersBacked'
  BY <1>1, <1>5, OwnOutside DEF SagaMoves
<1>6. ASSUME NEW p \in Product, ExpireRedlock(p) PROVE OwnersBacked'
  BY <1>1, <1>6, OwnOutside DEF ExpireRedlock
<1> QED BY <1>2, <1>3, <1>4, <1>5, <1>6 DEF Next

\* Until payments releases a reservation, the stock columns are what the
\* reservation rows say: however checkouts and their releases overlap, fail half
\* way, lose answers, redlocks or processes, a reservation is neither lost nor
\* invented.
THEOREM ReservationsAreBacked == Spec => []ReservedIsBacked
<1>1. LockInv /\ BackedInv /\ [Next]_vars => BackedInv'
  BY BackedInvNext
<1>2. BackedInv => ReservedIsBacked
  BY DEF BackedInv, OwnersBacked, Backed, ReservedIsBacked
<1> QED BY <1>1, <1>2, BackedInvInit, LocksAreKept, PTL DEF Spec
-----------------------------------------------------------------------------
(* The tables implement the stock ledger.                                  *)

LEMMA LedgerInit == Init => Ledger!Init
BY DEF Init, Ledger!Init

\* Only COMMIT writes to the tables.
LEMMA OnlyCommits ==
  ASSUME [Next]_vars PROVE UNCHANGED tables \/ \E t \in Task : Commit(t)
<1>1. ASSUME NEW t \in Task, NEW o \in Order,
             Checkout(t, o) \/ \E p \in Product : PayReserve(t, o, p) \/ PayRelease(t, o, p)
      PROVE  UNCHANGED tables
  BY <1>1 DEF Checkout, PayReserve, PayRelease, tables
<1>2. ASSUME NEW t \in Task, Continue(t), ~Commit(t) PROVE UNCHANGED tables
  BY <1>2 DEF Continue, AcquireRedlock, MoveStock, RecordLine, FindReservation, RestoreStock,
              Rollback, ReleaseRedlock, RunSaga, RunReturns, Deadlocked, tables
<1>3. ASSUME NEW t \in Task, Rejected(t) \/ LapseRedlock(t) \/ Crash(t) PROVE UNCHANGED tables
  BY <1>3 DEF Rejected, LapseRedlock, Crash, tables
<1>4. ASSUME NEW o \in Order, SagaMoves(o) PROVE UNCHANGED tables
  BY <1>4 DEF SagaMoves, tables
<1>5. ASSUME NEW p \in Product, ExpireRedlock(p) PROVE UNCHANGED tables
  BY <1>5 DEF ExpireRedlock, tables
<1>6. UNCHANGED vars => UNCHANGED tables
  BY DEF vars, tables
<1> QED BY <1>1, <1>2, <1>3, <1>4, <1>5, <1>6 DEF Next

\* What a COMMIT writes is a step of the ledger.
LEMMA CommitIsLedgerStep ==
  ASSUME LockInv, OwnersBacked, NEW t \in Task, Commit(t) PROVE Ledger!Next
<1> DEFINE o == task[t].order
           I == task[t].items
<1>1. /\ \A n \in Order, p \in Product : lineLock[n][p] = t <=> n = o /\ p \in I
      /\ \A p \in I : line[o][p] = IF Reserves(t) THEN "none" ELSE "reserved"
      /\ I \in SUBSET Product /\ o \in Order
      /\ Reserves(t) \/ (task[t].job = "release" /\ Owner(task[t]))
  BY CommitLines DEF Commit
<1>2. /\ Shape(task[t]) /\ Holds(t) /\ task[t].pc = "commit" /\ task[t].job # "payRelease"
      /\ task[t] \in TaskState
  BY DEF LockInv, InventoryTypeOK, OwnersBacked, Commit, At
<1>3. \A p \in I : Enough(t, p)
  <2>1. MovedBy(task[t]) = I
    BY <1>2 DEF MovedBy, Shape, Working
  <2> QED BY <1>2, <2>1 DEF Holds
<1>4. \A p \in Product : Basket[o][p] \in Nat
  BY <1>1, BasketAssumption
<1>5. Ledger!Ordered(o) = Items(o)
  BY DEF Ledger!Ordered, Items
<1>6. ASSUME NEW status, status = IF Reserves(t) THEN "reserved" ELSE "released"
      PROVE  Ledger!Marked(o, I, status)
  BY <1>1, <1>6 DEF Commit, Written, Ledger!Marked
<1>7. stock' = [p \in Product |-> IF p \in I THEN Moved(t, p) ELSE stock[p]]
  BY DEF Commit, Written
<1>8. \A p \in Product : stock[p].available \in Nat /\ stock[p].reserved \in Nat
  BY DEF LockInv, InventoryTypeOK
<1>9. CASE Reserves(t)
  <2>1. I = Items(o) \/ \E p \in Items(o) : I = {p}
    BY <1>1, <1>2, <1>9 DEF Shape, Reserves
  <2>2. \A p \in I : line[o][p] = "none" /\ Basket[o][p] <= stock[p].available
    BY <1>1, <1>3, <1>9 DEF Enough, Quantity
  <2>3. Ledger!Shifted(I, Basket[o])
    BY <1>7, <1>9 DEF Ledger!Shifted, Moved, Quantity
  <2>4. Ledger!Reserve(o, I)
    BY <1>5, <1>6, <1>9, <2>1, <2>2, <2>3 DEF Ledger!Reserve
  <2> QED BY <1>1, <2>4 DEF Ledger!Next
<1>10. CASE ~Reserves(t)
  <2>1. I = Items(o)
    BY <1>1, <1>2, <1>10 DEF Shape
  <2>2. \A p \in I : line[o][p] = "reserved" /\ Basket[o][p] <= stock[p].reserved
    BY <1>1, <1>3, <1>10 DEF Enough, Quantity
  <2>3. ASSUME NEW p \in I
        PROVE  Moved(t, p) = [available |-> stock[p].available - (-Basket[o][p]),
                              reserved |-> stock[p].reserved + (-Basket[o][p])]
    BY <1>1, <1>4, <1>8, <1>10 DEF Moved, Quantity
  <2>4. Ledger!Shifted(I, [p \in Product |-> -Basket[o][p]])
    BY <1>1, <1>7, <2>3 DEF Ledger!Shifted
  <2>5. Ledger!Release(o)
    BY <1>5, <1>6, <1>10, <2>1, <2>2, <2>4 DEF Ledger!Release
  <2> QED BY <1>1, <2>5 DEF Ledger!Next
<1> QED BY <1>9, <1>10

\* Until payments releases a reservation, the tables are a stock ledger: what every
\* COMMIT writes is the reservation of units that are there, for rows that did not
\* exist, or the return of a whole order, although a transaction tests, moves and
\* records one item at a time.
THEOREM TablesImplementLedger == Spec => ImplementsLedger
<1>1. Init => Ledger!Init
  BY LedgerInit
<1>2. LockInv /\ BackedInv /\ [Next]_vars => [Untouched({"payReleases"})' => Ledger!Next]_tables
  <2> SUFFICES ASSUME LockInv, BackedInv, [Next]_vars, ~UNCHANGED tables,
                      Untouched({"payReleases"})'
               PROVE  Ledger!Next
    OBVIOUS
  <2>1. OwnersBacked
    BY StillUntouched DEF BackedInv, Kinds
  <2> QED BY <2>1, OnlyCommits, CommitIsLedgerStep
<1>3. LockInv /\ BackedInv /\ [Next]_vars => BackedInv'
  BY BackedInvNext
<1> QED BY <1>1, <1>2, <1>3, BackedInvInit, LocksAreKept, PTL DEF Spec, ImplementsLedger
-----------------------------------------------------------------------------
(* Stock follows the saga.                                                 *)

\* A step that leaves lines and sagas alone and after which a call that drives a
\* saga or gives stock back still does.
LEMMA FollowStep ==
  ASSUME LockInv, StockFollows, NEW t \in Task, NEW w \in TaskState,
         task' = [task EXCEPT ![t] = w], UNCHANGED <<line, saga>>,
         Drives(task[t]) => Drives(w) /\ w.order = task[t].order,
         Releases(task[t]) => Releases(w) /\ w.order = task[t].order,
         Releases(w) => Releases(task[t]) /\ w.order = task[t].order
  PROVE  StockFollows'
<1>1. task'[t] = w /\ \A u \in Task : u # t => task'[u] = task[u]
  BY DEF LockInv, InventoryTypeOK
<1>2. \A u \in Task : Drives(task[u]) => Drives(task'[u]) /\ task'[u].order = task[u].order
  BY <1>1
<1>3. \A u \in Task : Releases(task[u]) => Releases(task'[u]) /\ task'[u].order = task[u].order
  BY <1>1
<1>4. \A u \in Task : Releases(task'[u]) => Releases(task[u]) /\ task'[u].order = task[u].order
  BY <1>1
<1>5. ASSUME NEW o \in Order PROVE Follows(o)'
  <2>1. /\ Follows(o)
        /\ AllLines(o, "reserved")' = AllLines(o, "reserved")
        /\ AllLines(o, "released")' = AllLines(o, "released")
    BY DEF StockFollows, AllLines
  <2>2. (\E u \in Task : task[u].order = o /\ Drives(task[u]))
        => \E u \in Task : task'[u].order = o /\ Drives(task'[u])
    BY <1>2
  <2>3. (\E u \in Task : task[u].order = o /\ (Drives(task[u]) \/ Releases(task[u])))
        => \E u \in Task : task'[u].order = o /\ (Drives(task'[u]) \/ Releases(task'[u]))
    BY <1>2, <1>3
  <2> QED BY <2>1, <2>2, <2>3 DEF Follows, Drives, Releases
<1>6. \A u \in Task : Releases(task'[u]) => saga'[task'[u].order].status = "compensated"
  BY <1>4 DEF StockFollows
<1> QED BY <1>5, <1>6 DEF StockFollows, Releases

\* ... because it does neither.
LEMMA FollowIdle ==
  ASSUME LockInv, StockFollows, NEW t \in Task, NEW w \in TaskState,
         task' = [task EXCEPT ![t] = w], UNCHANGED <<line, saga>>,
         ~Drives(task[t]), ~Releases(task[t]), ~Releases(w)
  PROVE  StockFollows'
BY FollowStep

LEMMA FollowCallsBegin ==
  ASSUME LockInv, StockFollows, NEW t \in Task, NEW o \in Order,
         Checkout(t, o) \/ \E p \in Product : PayReserve(t, o, p)
  PROVE  StockFollows'
<1>1. UNCHANGED <<line, saga>> /\ task[t].pc = "idle"
  BY DEF Checkout, PayReserve, tables, At
<1>2. PICK w \in TaskState :
        task' = [task EXCEPT ![t] = w] /\ w.job \in {"reserve", "payReserve"}
  <2>1. CASE Checkout(t, o)
    BY <2>1, ItemsType, BeginForm DEF Checkout, Labels, Jobs
  <2>2. CASE \E p \in Product : PayReserve(t, o, p)
    BY <2>2, BeginForm DEF PayReserve, Labels, Jobs
  <2> QED BY <2>1, <2>2
<1> QED BY <1>1, <1>2, FollowIdle DEF Drives, Releases

LEMMA FollowAcquireRedlock ==
  ASSUME LockInv, StockFollows, NEW t \in Task, AcquireRedlock(t), ~Spend("faults")
  PROVE  StockFollows'
<1>1. UNCHANGED <<line, saga>> /\ task[t].pc = "redlock" /\ Goto(t, "row")
  BY DEF AcquireRedlock, tables, At
<1>2. PICK w \in TaskState :
        /\ task' = [task EXCEPT ![t] = w]
        /\ w.pc = "row" /\ w.job = task[t].job /\ w.order = task[t].order
  BY <1>1, GotoForm DEF Labels
<1> QED BY <1>1, <1>2, FollowStep DEF Drives, Releases

\* A release finds its units in the reserved column.
LEMMA EnoughToRelease ==
  ASSUME LockInv, OwnersBacked, NEW t \in Task, Releases(task[t]), task[t].pc # "redlock",
         NEW p \in task[t].items
  PROVE  Enough(t, p)
<1> DEFINE o == task[t].order
           R == {n \in Order : line[n][p] = "reserved"}
<1>1. /\ task[t] \in TaskState /\ Shape(task[t]) /\ o \in Order /\ p \in Product
      /\ Owner(task[t]) /\ ~Reserves(t)
  BY DEF LockInv, InventoryTypeOK, TaskState, Releases, Owner, Reserves
<1>2. p \in Items(o)
  BY <1>1 DEF Shape, Releases
<1>3. o \in R
  BY <1>1, <1>2 DEF OwnersBacked, Owns
<1>4. R \in SUBSET Order /\ R \ {o} \in SUBSET Order
  OBVIOUS
<1>5. stock[p].reserved = Units(p, R)
  BY <1>1 DEF OwnersBacked, Backed, Promised
<1> HIDE DEF R
<1>6. Units(p, R) = Basket[o][p] + Units(p, R \ {o})
  BY <1>1, <1>3, <1>4, UnitsRemove
<1>7. Units(p, R \ {o}) \in Nat /\ Basket[o][p] \in Nat
  BY <1>1, <1>4, UnitsNat, BasketAssumption
<1>8. Basket[o][p] <= stock[p].reserved
  BY <1>5, <1>6, <1>7
<1> QED BY <1>1, <1>8 DEF Enough, Quantity

LEMMA FollowMoveStock ==
  ASSUME LockInv, OwnersBacked, StockFollows, NEW t \in Task, MoveStock(t)
  PROVE  StockFollows'
<1>1. PICK p \in Product :
        /\ task[t].pc = "row" /\ IsNext(t, p)
        /\ IF Enough(t, p) THEN Goto(t, "line") ELSE Fail(t)
        /\ UNCHANGED <<line, saga>>
  BY DEF MoveStock, At, tables
<1>2. p \in task[t].items
  BY <1>1 DEF IsNext, LockInv, Shape
<1>3. CASE Goto(t, "line")
  <2>1. PICK w \in TaskState :
        /\ task' = [task EXCEPT ![t] = w]
        /\ w.pc = "line" /\ w.job = task[t].job /\ w.order = task[t].order
    BY <1>3, GotoForm DEF Labels
  <2> QED BY <1>1, <2>1, FollowStep DEF Drives, Releases
<1>4. CASE ~Enough(t, p)
  <2>1. ~Releases(task[t]) /\ ~Drives(task[t])
    BY <1>1, <1>2, <1>4, EnoughToRelease DEF Drives
  <2>2. PICK w \in TaskState : task' = [task EXCEPT ![t] = w] /\ w.pc = "rollback"
    BY <1>1, <1>4, FailForm
  <2> QED BY <1>1, <2>1, <2>2, FollowIdle DEF Releases
<1> QED BY <1>1, <1>3, <1>4

LEMMA FollowRecordLine ==
  ASSUME LockInv, StockFollows, NEW t \in Task, RecordLine(t) PROVE StockFollows'
<1>1. PICK p \in Product :
        /\ task[t].pc = "line" /\ UNCHANGED <<line, saga>>
        /\ \/ Reserves(t) /\ Fail(t)
           \/ task' = [task EXCEPT
                ![t].left = @ \ {p},
                ![t].pc = IF task[t].left = {p} THEN "commit" ELSE "row"]
  BY DEF RecordLine, At, tables
<1>2. CASE Reserves(t) /\ Fail(t)
  <2>1. PICK w \in TaskState : task' = [task EXCEPT ![t] = w] /\ w.pc = "rollback"
    BY <1>2, FailForm
  <2> QED BY <1>1, <1>2, <2>1, FollowIdle DEF Releases, Drives, Reserves
<1>3. CASE task' = [task EXCEPT
             ![t].left = @ \ {p},
             ![t].pc = IF task[t].left = {p} THEN "commit" ELSE "row"]
  <2> DEFINE w == [task[t] EXCEPT !.left = @ \ {p},
                                  !.pc = IF task[t].left = {p} THEN "commit" ELSE "row"]
  <2>1. task[t] \in TaskState
    BY DEF LockInv, InventoryTypeOK
  <2>2. /\ w \in TaskState /\ w.pc \in {"commit", "row"}
        /\ w.job = task[t].job /\ w.order = task[t].order
    BY <2>1 DEF TaskState, Labels
  <2>3. task' = [task EXCEPT ![t] = w]
    BY <1>3
  <2> HIDE DEF w
  <2> QED BY <1>1, <2>2, <2>3, FollowStep DEF Drives, Releases
<1> QED BY <1>1, <1>2, <1>3

LEMMA FollowCommit ==
  ASSUME LockInv, OwnersBacked, StockFollows, NEW t \in Task, Commit(t) PROVE StockFollows'
<1> DEFINE o == task[t].order
<1>1. /\ \A n \in Order, q \in Product : lineLock[n][q] = t <=> n = o /\ q \in task[t].items
      /\ \A q \in task[t].items : line[o][q] = IF Reserves(t) THEN "none" ELSE "reserved"
      /\ task[t].items \subseteq Product /\ o \in Order
      /\ Reserves(t) \/ (task[t].job = "release" /\ Owner(task[t]))
  BY CommitLines DEF Commit
<1>2. PICK failed \in BOOLEAN : Leave(t, failed)
  BY DEF Commit
<1>3. PICK w \in TaskState :
           /\ task' = [task EXCEPT ![t] = w]
           /\ w.pc = IF task[t].job \in {"reserve", "release"} THEN "unlock" ELSE "idle"
           /\ w.job = task[t].job /\ w.order = o
  BY <1>2, LeaveForm DEF Commit, At
<1>4. task'[t] = w /\ \A v \in Task : v # t => task'[v] = task[v]
  BY <1>3 DEF LockInv, InventoryTypeOK
<1>5. \A n \in Order, q \in Product :
        line'[n][q] = IF n = o /\ q \in task[t].items
                        THEN IF Reserves(t) THEN "reserved" ELSE "released"
                        ELSE line[n][q]
  BY <1>1 DEF Commit, Written
<1>6. task[t].pc = "commit" /\ saga' = saga /\ Shape(task[t])
  BY DEF Commit, At, LockInv
<1>7. ~Drives(task[t]) /\ ~Releases(w)
  BY <1>3, <1>6 DEF Drives, Releases
<1>8. ASSUME Reserves(t), NEW n \in Order, NEW status \in {"reserved", "released"},
             AllLines(n, status)
      PROVE  AllLines(n, status)'
  <2>1. ASSUME NEW q \in Items(n) PROVE line'[n][q] = status
    BY <1>1, <1>5, <1>8, <2>1 DEF AllLines, Items
  <2> QED BY <2>1 DEF AllLines, Items
<1>9. ASSUME NEW n \in Order, n # o, NEW status, AllLines(n, status) PROVE AllLines(n, status)'
  BY <1>5, <1>9 DEF AllLines, Items
<1>10. ASSUME ~Reserves(t)
       PROVE  saga[o].status = "compensated" /\ \A q \in Items(o) : line'[o][q] = "released"
  <2>1. task[t].job = "release" /\ task[t].items = Items(o)
    BY <1>1, <1>6, <1>10 DEF Shape
  <2>2. saga[o].status = "compensated"
    BY <1>6, <2>1 DEF StockFollows, Releases
  <2>3. \A q \in Items(o) : line'[o][q] = "released"
    BY <1>1, <1>5, <1>10, <2>1
  <2> QED BY <2>2, <2>3
<1>11. ASSUME NEW n \in Order PROVE Follows(n)'
  <2>1. Follows(n) /\ saga'[n] = saga[n]
    BY <1>6 DEF StockFollows
  <2>2. (\E u \in Task : task[u].order = n /\ Drives(task[u]))
        => \E u \in Task : task'[u].order = n /\ Drives(task'[u])
    BY <1>4, <1>7
  <2>3. (\E u \in Task : task[u].order = n /\ (Drives(task[u]) \/ Releases(task[u])))
        => \/ \E u \in Task : task'[u].order = n /\ (Drives(task'[u]) \/ Releases(task'[u]))
           \/ n = o /\ Releases(task[t])
    BY <1>4, <1>7
  <2>4. CASE n = o /\ ~Reserves(t)
    <3>1. AllLines(n, "released")'
      BY <1>10, <2>4 DEF AllLines, Items
    <3>2. saga'[n].status = "compensated"
      BY <1>10, <2>1, <2>4
    <3> QED BY <3>1, <3>2 DEF Follows
  <2>5. CASE n # o \/ Reserves(t)
    <3>1. AllLines(n, "reserved") => AllLines(n, "reserved")'
      BY <1>8, <1>9, <2>5
    <3>2. AllLines(n, "released") => AllLines(n, "released")'
      BY <1>8, <1>9, <2>5
    <3>3. ~(n = o /\ Releases(task[t]))
      BY <2>5 DEF Releases, Reserves
    <3> QED BY <2>1, <2>2, <2>3, <3>1, <3>2, <3>3 DEF Follows, Drives, Releases
  <2> QED BY <2>4, <2>5
<1>12. \A u \in Task : Releases(task'[u]) => saga'[task'[u].order].status = "compensated"
  BY <1>4, <1>6, <1>7 DEF StockFollows
<1> QED BY <1>11, <1>12 DEF StockFollows, Releases

LEMMA FollowRollback ==
  ASSUME LockInv, StockFollows, NEW t \in Task, Rollback(t) PROVE StockFollows'
<1>1. UNCHANGED <<line, saga>> /\ task[t].pc = "rollback"
  BY DEF Rollback, tables, At
<1>2. PICK w \in TaskState :
           /\ task' = [task EXCEPT ![t] = w]
           /\ w.pc = IF task[t].job \in {"reserve", "release"} THEN "unlock" ELSE "idle"
  BY LeaveForm DEF At, Rollback
<1> QED BY <1>1, <1>2, FollowIdle DEF Drives, Releases

LEMMA FollowReleaseRedlock ==
  ASSUME LockInv, StockFollows, NEW t \in Task, ReleaseRedlock(t) PROVE StockFollows'
<1>1. UNCHANGED <<line, saga>> /\ task[t].pc = "unlock"
  BY DEF ReleaseRedlock, tables, At
<1>2. PICK label \in {"idle", "run"} : Goto(t, label)
  BY DEF ReleaseRedlock, AfterUpdate
<1>3. PICK w \in TaskState : task' = [task EXCEPT ![t] = w] /\ w.pc = label
  BY <1>2, GotoForm DEF Labels
<1> QED BY <1>1, <1>3, FollowIdle DEF Drives, Releases

LEMMA FollowRunSaga ==
  ASSUME LockInv, OwnersBacked, StockFollows, NEW t \in Task, RunSaga(t) PROVE StockFollows'
<1> DEFINE o == task[t].order
<1>1. /\ task[t].pc = "run" /\ line' = line /\ Goto(t, "driving")
      /\ saga' = IF saga[o].status = "absent"
                   THEN [saga EXCEPT ![o].status = "running"] ELSE saga
  BY DEF RunSaga, At, tables
<1>2. PICK w \in TaskState :
        /\ task' = [task EXCEPT ![t] = w]
        /\ w.pc = "driving" /\ w.job = task[t].job /\ w.order = o
  BY <1>1, GotoForm DEF Labels
<1>3. task[t].job = "reserve" /\ o \in Order /\ Owner(task[t])
  BY <1>1 DEF LockInv, Shape, Owner, InventoryTypeOK, TaskState
<1>4. task'[t] = w /\ \A u \in Task : u # t => task'[u] = task[u]
  BY <1>2 DEF LockInv, InventoryTypeOK
<1>5. Drives(w) /\ ~Drives(task[t]) /\ ~Releases(task[t]) /\ ~Releases(w)
  BY <1>1, <1>2, <1>3 DEF Drives, Releases
<1>6. AllLines(o, "reserved")
  BY <1>3 DEF OwnersBacked, Owns, AllLines
<1>7. /\ \A n \in Order : n # o => saga'[n] = saga[n]
      /\ saga'[o].status = IF saga[o].status = "absent" THEN "running" ELSE saga[o].status
  BY <1>1, <1>3 DEF LockInv, InventoryTypeOK, SagaState
<1>8. ASSUME NEW n \in Order PROVE Follows(n)'
  <2>1. /\ Follows(n)
        /\ AllLines(n, "reserved")' = AllLines(n, "reserved")
        /\ AllLines(n, "released")' = AllLines(n, "released")
    BY <1>1 DEF StockFollows, AllLines
  <2>2. (\E u \in Task : task[u].order = n /\ Drives(task[u])) \/ n = o
        => \E u \in Task : task'[u].order = n /\ Drives(task'[u])
    BY <1>2, <1>4, <1>5
  <2>3. (\E u \in Task : task[u].order = n /\ (Drives(task[u]) \/ Releases(task[u]))) \/ n = o
        => \E u \in Task : task'[u].order = n /\ (Drives(task'[u]) \/ Releases(task'[u]))
    BY <1>2, <1>4, <1>5
  <2>4. CASE n = o
    BY <1>6, <2>1, <2>2, <2>3, <2>4 DEF Follows, Drives, Releases
  <2>5. CASE n # o
    BY <1>7, <2>1, <2>2, <2>3, <2>5 DEF Follows, Drives, Releases
  <2> QED BY <2>4, <2>5
<1>9. ASSUME NEW u \in Task, Releases(task'[u])
      PROVE  saga'[task'[u].order].status = "compensated"
  <2>1. u # t /\ task'[u] = task[u] /\ saga[task[u].order].status = "compensated"
        /\ task[u].order \in Order
    BY <1>4, <1>5, <1>9 DEF StockFollows, LockInv, InventoryTypeOK, TaskState
  <2> QED BY <1>7, <2>1
<1> QED BY <1>8, <1>9 DEF StockFollows, Releases

LEMMA FollowRunReturns ==
  ASSUME LockInv, StockFollows, NEW t \in Task, RunReturns(t), ~Spend("faults")
  PROVE  StockFollows'
<1> DEFINE o == task[t].order
           status == saga[o].status
<1>1. /\ task[t].pc = "driving" /\ line' = line /\ saga' = saga
      /\ status \in {"completed", "compensated"} /\ GiveBack(t, status)
  BY DEF RunReturns, At, tables
<1>2. PICK w \in TaskState :
        /\ task' = [task EXCEPT ![t] = w] /\ w.order = o
        /\ \/ status # "completed" /\ w.pc = "redlock" /\ w.job = "release"
           \/ status = "completed" /\ w.pc = "idle" /\ w.job = "reserve"
  BY <1>1, GiveBackForm
<1>3. task'[t] = w /\ \A u \in Task : u # t => task'[u] = task[u]
  BY <1>2 DEF LockInv, InventoryTypeOK
<1>4. (Releases(w) <=> status = "compensated") /\ ~Releases(task[t])
  BY <1>1, <1>2 DEF Releases
<1>5. ASSUME NEW n \in Order PROVE Follows(n)'
  <2>1. /\ Follows(n) /\ saga'[n] = saga[n]
        /\ AllLines(n, "reserved")' = AllLines(n, "reserved")
        /\ AllLines(n, "released")' = AllLines(n, "released")
    BY <1>1 DEF StockFollows, AllLines
  <2>2. CASE n = o
    <3>1. status = "compensated"
          => \E u \in Task : task'[u].order = o /\ (Drives(task'[u]) \/ Releases(task'[u]))
      BY <1>2, <1>3, <1>4
    <3> QED BY <1>1, <2>1, <2>2, <3>1 DEF Follows, Drives, Releases
  <2>3. CASE n # o
    <3>1. (\E u \in Task : task[u].order = n /\ Drives(task[u]))
          => \E u \in Task : task'[u].order = n /\ Drives(task'[u])
      BY <1>3, <2>3
    <3>2. (\E u \in Task : task[u].order = n /\ (Drives(task[u]) \/ Releases(task[u])))
          => \E u \in Task : task'[u].order = n /\ (Drives(task'[u]) \/ Releases(task'[u]))
      BY <1>3, <2>3
    <3> QED BY <2>1, <3>1, <3>2 DEF Follows, Drives, Releases
  <2> QED BY <2>2, <2>3
<1>6. \A u \in Task : Releases(task'[u]) => saga'[task'[u].order].status = "compensated"
  BY <1>1, <1>2, <1>3, <1>4 DEF StockFollows
<1> QED BY <1>5, <1>6 DEF StockFollows, Releases

\* How a saga that exists moves on.
LEMMA SagaForm ==
  ASSUME LockInv, NEW o \in Order, SagaMoves(o)
  PROVE  /\ \A n \in Order : n # o => saga'[n] = saga[n]
         /\ \/ saga[o].status \in {"running", "compensating"} /\ saga'[o].status = saga[o].status
            \/ saga[o].status = "running" /\ saga'[o].status \in {"compensating", "completed"}
            \/ saga[o].status = "compensating" /\ saga'[o].status = "compensated"
<1>1. \A n \in Order : n # o => saga'[n] = saga[n]
  BY DEF SagaMoves, LockInv, InventoryTypeOK
<1>2. Saga(o)!Next /\ saga[o].status # "absent"
  BY DEF SagaMoves
<1>3. CASE Saga(o)!Start
  BY <1>2, <1>3 DEF Saga!Start
<1>4. CASE Saga(o)!Step
  BY <1>1, <1>4 DEF Saga!Step
<1>5. CASE Saga(o)!TurnAround
  BY <1>1, <1>5 DEF Saga!TurnAround
<1>6. CASE Saga(o)!Undo
  BY <1>1, <1>6 DEF Saga!Undo
<1>7. CASE Saga(o)!Settle
  BY <1>1, <1>7 DEF Saga!Settle
<1> QED BY <1>1, <1>2, <1>3, <1>4, <1>5, <1>6, <1>7 DEF Saga!Next

LEMMA FollowSagaMoves ==
  ASSUME LockInv, StockFollows, NEW o \in Order, SagaMoves(o) PROVE StockFollows'
<1>1. line' = line /\ task' = task
  BY DEF SagaMoves, tables
<1>2. ASSUME NEW n \in Order PROVE Follows(n)'
  <2>1. /\ Follows(n)
        /\ AllLines(n, "reserved")' = AllLines(n, "reserved")
        /\ AllLines(n, "released")' = AllLines(n, "released")
    BY <1>1 DEF StockFollows, AllLines
  <2>2. CASE n # o
    BY <1>1, <2>1, <2>2, SagaForm DEF Follows, Drives, Releases
  <2>3. CASE n = o
    <3>1. /\ saga[o].status \in {"running", "compensating"}
          /\ saga'[o].status \in {"running", "compensating", "completed", "compensated"}
      BY SagaForm
    <3>2. AllLines(o, "reserved")
          /\ \E u \in Task : task'[u].order = o /\ Drives(task'[u])
      BY <1>1, <2>1, <2>3, <3>1 DEF Follows
    <3> QED BY <2>1, <2>3, <3>1, <3>2 DEF Follows, Drives, Releases
  <2> QED BY <2>2, <2>3
<1>3. ASSUME NEW u \in Task, Releases(task'[u])
      PROVE  saga'[task'[u].order].status = "compensated"
  <2>1. saga[task[u].order].status = "compensated" /\ task[u].order \in Order
    BY <1>1, <1>3 DEF StockFollows, LockInv, InventoryTypeOK, TaskState
  <2>2. task[u].order # o
    BY <2>1, SagaForm
  <2> QED BY <1>1, <2>1, <2>2, SagaForm
<1> QED BY <1>2, <1>3 DEF StockFollows, Releases

LEMMA FollowOutside ==
  ASSUME StockFollows, UNCHANGED <<line, saga, task>> PROVE StockFollows'
<1>1. ASSUME NEW o \in Order PROVE Follows(o)'
  BY DEF StockFollows, Follows, AllLines, Items, Drives, Releases
<1> QED BY <1>1 DEF StockFollows, Releases

LEMMA FollowInvInit == Init => FollowInv
BY DEF Init, FollowInv, StockFollows, Follows, Releases

LEMMA FollowInvNext ==
  ASSUME LockInv, BackedInv, FollowInv, [Next]_vars PROVE FollowInv'
<1> SUFFICES ASSUME Untouched({"payReleases", "faults"})' PROVE StockFollows'
  BY DEF FollowInv
<1>1. Untouched({"payReleases", "faults"})
  BY StillUntouched DEF Kinds
<1>2. StockFollows /\ OwnersBacked
  BY <1>1 DEF FollowInv, BackedInv, Untouched
<1>3. ~Spend("faults") /\ ~Spend("payReleases")
  <2>1. /\ budget'["faults"] = Limits["faults"] /\ Limits["faults"] \in Nat
        /\ budget'["payReleases"] = Limits["payReleases"] /\ Limits["payReleases"] \in Nat
    BY LimitsAssumption DEF Untouched, Kinds
  <2>2. ASSUME Spend("faults") PROVE FALSE
    BY <2>1, <2>2, SpendType, KindTypes
  <2>3. ASSUME Spend("payReleases") PROVE FALSE
    BY <2>1, <2>3, SpendType, KindTypes
  <2> QED BY <2>2, <2>3
<1>4. CASE UNCHANGED vars
  BY <1>2, <1>4, FollowOutside DEF vars
<1>5. ASSUME NEW t \in Task, NEW o \in Order,
             Checkout(t, o) \/ \E p \in Product : PayReserve(t, o, p) \/ PayRelease(t, o, p)
      PROVE  StockFollows'
  BY <1>2, <1>3, <1>5, FollowCallsBegin DEF PayRelease
<1>6. ASSUME NEW t \in Task, Continue(t) \/ Rejected(t) \/ LapseRedlock(t) \/ Crash(t)
      PROVE  StockFollows'
  <2>1. ~Deadlocked(t)
    BY <1>2, CirclesNeedPayments DEF Deadlocked, OrderedLocking, OwnersBacked, Circles
  <2>2. ~Rejected(t) /\ ~LapseRedlock(t) /\ ~Crash(t)
    BY <1>3 DEF Rejected, LapseRedlock, Crash
  <2>3. ~FindReservation(t) /\ ~RestoreStock(t)
    BY <1>2, OwnNoPayRelease
  <2> QED BY <1>2, <1>3, <1>6, <2>1, <2>2, <2>3, FollowAcquireRedlock, FollowMoveStock,
             FollowRecordLine, FollowCommit, FollowRollback, FollowReleaseRedlock,
             FollowRunSaga, FollowRunReturns DEF Continue
<1>7. ASSUME NEW o \in Order, SagaMoves(o) PROVE StockFollows'
  BY <1>2, <1>7, FollowSagaMoves
<1>8. ASSUME NEW p \in Product, ExpireRedlock(p) PROVE StockFollows'
  BY <1>2, <1>8, FollowOutside DEF ExpireRedlock, tables
<1> QED BY <1>4, <1>5, <1>6, <1>7, <1>8 DEF Next

\* As long as run() reports what became of the saga and no release fails, an order's
\* stock follows its saga, however many checkouts overlap: a release finds its
\* rows and its units and cannot be the victim of a deadlock.
THEOREM StockFollowsTheSaga == Spec => []StockFollowsSaga
<1>1. LockInv /\ BackedInv /\ [Next]_vars => BackedInv'
  BY BackedInvNext
<1>2. LockInv /\ BackedInv /\ FollowInv /\ [Next]_vars => FollowInv'
  BY FollowInvNext
<1>3. FollowInv => StockFollowsSaga
  <2> SUFFICES ASSUME FollowInv, Untouched({"payReleases", "faults"}), NEW o \in Order,
                      NEW p \in Items(o)
               PROVE  /\ saga[o].status = "completed" => line[o][p] = "reserved"
                      /\ /\ saga[o].status = "compensated"
                         /\ \A t \in Task : task[t].order = o => At(t, "idle")
                         => line[o][p] = "released"
    BY DEF StockFollowsSaga
  <2>1. Follows(o)
    BY DEF FollowInv, StockFollows
  <2> QED BY <2>1 DEF Follows, AllLines, Drives, Releases, At
<1> QED BY <1>1, <1>2, <1>3, BackedInvInit, FollowInvInit, LocksAreKept, PTL DEF Spec
==============================================================================
