--------------------------- MODULE MCProvisioning ---------------------------
(***************************************************************************)
(* Provisioning on small sets.                                             *)
(***************************************************************************)
EXTENDS Provisioning, TLC

Symmetry ==
    Permutations(Users) \cup Permutations(Macs) \cup Permutations(Tokens)
        \cup Permutations(Layouts) \cup Permutations(Workers)

=============================================================================
