----------------------------- MODULE MCInventory -----------------------------
(***************************************************************************)
(* Small instances of CheckoutInventory for TLC.                           *)
(***************************************************************************)
EXTENDS CheckoutInventory, TLC

CONSTANTS o1, o2, p1, p2, t1, t2

\* Two orders for the same two products, of which one is scarce.
TwoBaskets == [o \in {o1, o2} |-> p1 :> 1 @@ p2 :> 1]
TwoStocks == p1 :> 2 @@ p2 :> 1
TwoRanks == p1 :> 1 @@ p2 :> 0

Limit(calls, payReleases, faults) ==
  [calls |-> calls, payReleases |-> payReleases, faults |-> faults]

LimitsStock == Limit(2, 1, 1)
==============================================================================
