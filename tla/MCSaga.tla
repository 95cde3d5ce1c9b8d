------------------------------- MODULE MCSaga -------------------------------
(***************************************************************************)
(* Small instances of SagaCoordinator for TLC: the two checkout steps, two *)
(* tasks, in two processes or sharing one.  SagaCoordinatorProofs is the   *)
(* same specification with its proofs.                                     *)
(***************************************************************************)
EXTENDS SagaCoordinator, TLC

CONSTANTS i1, i2, t1, t2

MCStepName == {"deposit-escrow", "confirm-checkout"}
MCSteps == <<"deposit-escrow", "confirm-checkout">>

HostApart == t1 :> i1 @@ t2 :> i2
HostShared == t1 :> i1 @@ t2 :> i1

\* Tasks may be exchanged together with the processes they run in.
Symmetry == {p \in Permutations(Task \cup Instance) :
               \A t \in Task : p[t] \in Task /\ host[p[t]] = p[host[t]]}

Limit(calls, failures, undoFailures, rejections, lockFaults, crashes) ==
  [calls |-> calls, failures |-> failures, undoFailures |-> undoFailures,
   rejections |-> rejections, lockFaults |-> lockFaults, crashes |-> crashes]

LimitsCrash == Limit(1, 1, 0, 1, 0, 1)
LimitsFaults == Limit(2, 1, 1, 0, 1, 0)
LimitsLive == Limit(2, 1, 0, 0, 0, 0)
=============================================================================
