--------------------------- MODULE MCOrchestrator ---------------------------
(* Small instances of Orchestrator for TLC. *)
EXTENDS Orchestrator, TLC

ActorSymmetry == Permutations(Workers) \union Permutations(Clients)
=============================================================================
