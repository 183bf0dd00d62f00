--------------------------- MODULE MCIdempotency ---------------------------
(***************************************************************************)
(* Instances of Idempotency for TLC: keys and requests are interchangeable *)
(* and no property tells one client from another.                          *)
(***************************************************************************)
EXTENDS Idempotency, TLC

Symmetry ==
  Permutations(Keys) \cup Permutations(Requests) \cup Permutations(Clients)
=============================================================================
