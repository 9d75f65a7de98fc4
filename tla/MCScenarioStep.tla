--------------------------- MODULE MCScenarioStep ---------------------------
(* A small instance of ScenarioStep for TLC. *)
EXTENDS ScenarioStep

\* A default, a full minute; a time of day past, too near, and two near enough.
DurationsUsed == {0, 60}
UntilsUsed == {0, 20, 30, 45}
=============================================================================
