---------------------------- MODULE MCConnections ----------------------------
(***************************************************************************)
(* Values for the constants of Connections.                                *)
(***************************************************************************)
EXTENDS Connections, TLC

CONSTANTS s1, s2, u1

\* Safety does not tell sessions apart; the ids do, and they are numbers.
Symmetry == Permutations(Session)
=============================================================================
