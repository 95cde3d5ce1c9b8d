-------------------------- MODULE MCTransactionQueue --------------------------
(***************************************************************************)
(* Small instances of TransactionQueue for TLC.                            *)
(***************************************************************************)
EXTENDS TransactionQueue, TLC

\* Every block, a block and a refused call or a crash, two blocks and a lapse, or one
\* or two losses.
SingleFaults ==
  {Lease, {"lost", "revert"}, {"timeout"}, {"stall"}, {"drop"}}
  \cup {{l, m, "lapse"} : l, m \in Lease}
  \cup {{l, f} : l \in Lease, f \in {"error", "crash"}}

\* Jobs, workers, calls and leases are interchangeable.
Symmetry ==
  Permutations(Job) \cup Permutations(Worker) \cup Permutations(Admin) \cup Permutations(Lease)
===============================================================================
