--------------------------- MODULE MCControlPlane ---------------------------
(* Small instances of ControlPlane for TLC. *)
EXTENDS ControlPlane, TLC

\* Two trusted controllers, a component host; the first moves its links in one
\* step and is the authority until the last version names the second, or none.
CONSTANTS desk, peer, node, model, gateway, c1, c2

MCHostOrder == <<desk, peer, node>>
MCMayName == [v \in Versions |-> IF v < 3 THEN {desk} ELSE {peer, Nobody}]
MCHostIn == [v \in Versions |->
    (model :> IF v = 1 THEN Nowhere ELSE node) @@ (gateway :> peer)]

CommandSymmetry == Permutations(Commands)
=============================================================================
