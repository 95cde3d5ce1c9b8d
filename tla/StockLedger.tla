----------------------------- MODULE StockLedger -----------------------------
(***************************************************************************)
(* What the inventory tables promise to a merchant: units move between the *)
(* columns together with the reservation rows that account for them, all   *)
(* items of a request or none, only out of units that are there, and an    *)
(* order's reservation is given back as a whole, once.                     *)
(* CheckoutInventory implements it.                                        *)
(***************************************************************************)
EXTENDS Integers

CONSTANTS Order, Product, Basket, Stock

VARIABLES
  stock,   \* available and reserved units per product
  line     \* status of an order's reservation of a product

Ordered(o) == {p \in Product : Basket[o][p] > 0}

\* The rows of an order's items change their status, and no others.
Marked(o, items, status) ==
  line' = [n \in Order |-> [p \in Product |->
             IF n = o /\ p \in items THEN status ELSE line[n][p]]]

\* units[p] units of every item p move from available to reserved.
Shifted(items, units) ==
  stock' = [p \in Product |->
    IF p \in items THEN [available |-> stock[p].available - units[p],
                         reserved |-> stock[p].reserved + units[p]]
                   ELSE stock[p]]

Init ==
  /\ stock = [p \in Product |-> [available |-> Stock[p], reserved |-> 0]]
  /\ line = [o \in Order |-> [p \in Product |-> "none"]]

\* The whole order, or one product of it, is reserved for the first time.
Reserve(o, items) ==
  /\ items = Ordered(o) \/ \E p \in Ordered(o) : items = {p}
  /\ \A p \in items : line[o][p] = "none" /\ Basket[o][p] <= stock[p].available
  /\ Shifted(items, Basket[o])
  /\ Marked(o, items, "reserved")

\* The whole order is given back.
Release(o) ==
  /\ \A p \in Ordered(o) : line[o][p] = "reserved" /\ Basket[o][p] <= stock[p].reserved
  /\ Shifted(Ordered(o), [p \in Product |-> -Basket[o][p]])
  /\ Marked(o, Ordered(o), "released")

Next == \E o \in Order : Release(o) \/ \E items \in SUBSET Product : Reserve(o, items)

Spec == Init /\ [][Next]_<<stock, line>>
=============================================================================
