------------------------------- MODULE MCDispute -------------------------------
(* Small instances of DisputeResolution and the escrow under it.           *)
EXTENDS DisputeResolution, TLC

CONSTANTS c1, c2

\* Requests outside the dispute, lost answers, refused database, RPC or Redis
\* calls, process deaths.
SettleLimits == [calls |-> 2, networkFaults |-> 1, serviceFaults |-> 1, crashes |-> 1]
RetryLimits == [calls |-> 1, networkFaults |-> 0, serviceFaults |-> 1, crashes |-> 0]

SymmetricCalls == Permutations(Call)
=============================================================================
