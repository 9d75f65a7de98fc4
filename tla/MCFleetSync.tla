---------------------------- MODULE MCFleetSync ----------------------------
(* A small instance of FleetSync for TLC. *)
EXTENDS FleetSync, TLC

CONSTANTS p1, p2

StandUsed == p1 :> 304 @@ p2 :> MaxNumber

\* Every phone, or one of the two.
AllowlistsUsed == {{}, {p1}}

\* One number another screen may show, and one too large for the column.
OthersUsed == {14, 40000}
=============================================================================
