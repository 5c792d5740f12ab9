------------------------------- MODULE MCCast -------------------------------
(* Cast for TLC: small sets of model values.                               *)
EXTENDS Cast, TLC
CONSTANTS c1, c2, c3, a1, r1, r2
MCConns == {c1, c2, c3}
MCAccounts == {a1}
MCRooms == {r1, r2}
\* One closed socket with handlers left, one answer or request on its way, one
\* id that was shared or put in a room late.
Bound == /\ Cardinality({c \in Conns : stat[c] = "closing"}) <= 1
         /\ Cardinality(closeReqs) + Cardinality(posted) <= 1
         /\ Cardinality(shared \cup strays) <= 1
Symmetry == Permutations(MCConns) \cup Permutations(MCRooms)
=============================================================================
