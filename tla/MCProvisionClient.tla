------------------------- MODULE MCProvisionClient -------------------------
(* Small instances of ProvisionClient for TLC. *)
EXTENDS ProvisionClient, TLC

Symmetry == Permutations(Serials) \union Permutations(Callers)
=============================================================================
