------------------------------ MODULE MCRouting ------------------------------
(***************************************************************************)
(* Instances of Routing: gates and lobbies on two or three RouterAgents.   *)
(***************************************************************************)
EXTENDS Routing

CONSTANTS ra1, ra2, ra3, g1, g2, g3, l1

\* Two gates on one RA, a third beside the lobbies on the other.
TwoRAs == [p \in Procs |-> IF p \in {g1, g2} THEN ra1 ELSE ra2]

\* Each gate has an RA of its own, the lobbies a third.
ThreeRAs == [p \in Procs |-> CASE p = g1 -> ra1 [] p = g2 -> ra2 [] OTHER -> ra3]
=============================================================================
