----------------------------- MODULE MCParties -----------------------------
(* Parties for TLC: two sessions of one clan and one of another.           *)
EXTENDS Parties, TLC
CONSTANTS a1, a2, b1, A, B

MCSessions == {a1, a2, b1}
MCClans == {A, B}
MCClanOf == [s \in MCSessions |-> IF s = b1 THEN B ELSE A]
\* Bound: a step to a dead entry is checked, but not what follows it.
Bounded ==
  /\ \A n \in DOMAIN rooms : \A i \in DOMAIN rooms[n].players : rooms[n].players[i].live
  /\ \A k \in DOMAIN parties : \A i \in DOMAIN parties[k].players : parties[k].players[i].live
Symmetry == Permutations({a1, a2})
=============================================================================
