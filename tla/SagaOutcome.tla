----------------------------- MODULE SagaOutcome -----------------------------
(***************************************************************************)
(* What a saga promises its caller, whoever drives it and however often:   *)
(* steps are recorded one after the other; a saga that turns around undoes *)
(* the recorded steps in reverse; it ends completed with every step        *)
(* standing or compensated with none, and then never changes again.        *)
(* SagaCoordinator implements it, CheckoutInventory builds on it.          *)
(***************************************************************************)
EXTENDS Naturals

CONSTANT StepCount

VARIABLES
  status,   \* where the saga is
  done      \* positions of the recorded steps whose effect stands

outcomeVars == <<status, done>>

Stages == {"absent", "running", "compensating", "completed", "compensated"}

Init == status = "absent" /\ done = {}

Start ==
  /\ status = "absent"
  /\ status' = "running"
  /\ UNCHANGED done

Step ==
  /\ status = "running"
  /\ \E i \in 1..StepCount : done = 1..i-1 /\ done' = 1..i
  /\ UNCHANGED status

TurnAround ==
  /\ status = "running"
  /\ status' = "compensating"
  /\ UNCHANGED done

Undo ==
  /\ status = "compensating"
  /\ \E i \in 1..StepCount : done = 1..i /\ done' = 1..i-1
  /\ UNCHANGED status

Settle ==
  /\ \/ status = "running" /\ done = 1..StepCount /\ status' = "completed"
     \/ status = "compensating" /\ done = {} /\ status' = "compensated"
  /\ UNCHANGED done

Next == Start \/ Step \/ TurnAround \/ Undo \/ Settle

Spec == Init /\ [][Next]_outcomeVars
=============================================================================
