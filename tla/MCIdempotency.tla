---------------------------- MODULE MCIdempotency ----------------------------
(***************************************************************************)
(* Small instances of CheckoutIdempotency for TLC: three submissions of    *)
(* one checkout, and a fourth that reuses their key for another body.      *)
(***************************************************************************)
EXTENDS CheckoutIdempotency, TLC

CONSTANTS r1, r2, r3, r4, h1, h2

HashMixed == r1 :> h1 @@ r2 :> h1 @@ r3 :> h1 @@ r4 :> h2

Limit(redisFaults, failures, crashes) ==
  [redisFaults |-> redisFaults, failures |-> failures, crashes |-> crashes]

LimitsFaulty == Limit(1, 1, 1)
=============================================================================
