------------------------- MODULE MCReleaseSelector -------------------------
(* Small instances of ReleaseSelector for TLC. *)
EXTENDS ReleaseSelector, TLC

CONSTANTS ra, rb, rc, p1, p2

ProcessSymmetry == Permutations(Processes)
=============================================================================
