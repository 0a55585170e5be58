--------------------------- MODULE MCFleetUpdate ---------------------------
(* Small instances of FleetUpdate for TLC. *)
EXTENDS FleetUpdate, TLC

CONSTANTS h1, h2, h3, va, vb, k1, k2

PairPosition == (h1 :> 1) @@ (h2 :> 2)
TriplePosition == PairPosition @@ (h3 :> 3)
=============================================================================
