--------------------------- MODULE MCRecoveryFlow ---------------------------
(* Small instances of RecoveryFlow for TLC. *)
EXTENDS RecoveryFlow, TLC

CONSTANTS p1, p2

Symmetry == Permutations(Phones) \union Permutations(Flows)

\* Up to three dialogs on one phone, none on the other,
StackOnOne == (p1 :> 3) @@ (p2 :> 0)

\* and none at all.
NoStacks == (p1 :> 0) @@ (p2 :> 0)
=============================================================================
