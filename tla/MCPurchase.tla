------------------------------ MODULE MCPurchase ------------------------------
(***************************************************************************)
(* A small instance of PurchaseWorkflow for TLC: an order that does not    *)
(* exist yet or is funded, and the relays of the outbox.                   *)
(***************************************************************************)
EXTENDS PurchaseWorkflow

CONSTANTS r1, r2, e1, e2, c1, c2

MCStart == {"absent", "ESCROW_FUNDED"}
===============================================================================
