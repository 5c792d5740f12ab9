--------------------------- MODULE MCConnections ---------------------------
(* Connections for TLC: Session objects are interchangeable.               *)
EXTENDS Connections, TLC

ConnSymmetry == Permutations(Conns)

=============================================================================
