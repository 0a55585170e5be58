------------------------ MODULE MCConfigTransaction ------------------------
(* Small instances of ConfigTransaction for TLC. *)
EXTENDS ConfigTransaction, TLC

CONSTANTS stack, profile, created, configure, provision, create, o1, o2

\* component configure, component provision with a new profile, profile create.
MCDocuments == (configure :> <<stack, profile>>) @@ (provision :> <<created, stack>>)
               @@ (create :> <<created>>)
MCCreates   == (configure :> {}) @@ (provision :> {created}) @@ (create :> {created})

\* One edit is fine alone and refused once the other is in.
MCIncompatible == {{configure, provision}}

OperatorSymmetry == Permutations(Operators)
=============================================================================
