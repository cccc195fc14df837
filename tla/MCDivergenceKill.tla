-------------------------- MODULE MCDivergenceKill --------------------------
(* Instances of DivergenceKill for TLC. *)
EXTENDS DivergenceKill

\* A ring with room for every event and one of two slots, each with every
\* combination of faults.
AnyRing == [capacity : {20, 2}, faults : SUBSET {"error", "withdraw", "cancel"}]

Tight == {[capacity |-> 2, faults |-> {}]}
=============================================================================
