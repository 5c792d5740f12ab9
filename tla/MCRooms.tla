------------------------------ MODULE MCRooms ------------------------------
(* NormalRooms for TLC: sessions with a clan are interchangeable, and so    *)
(* are the others.  States beyond Bounded are checked, but not continued.   *)
EXTENDS NormalRooms, TLC

CONSTANTS MaxTangle,  \* bound: removed sessions, rooms and votes, in sum
          MaxDead     \* bound: dead entries of all rooms together

RoomsSymmetry == Permutations(Clanned) \cup Permutations(Sessions \ Clanned)

Voting == {n \in DOMAIN rooms : rooms[n].target # NoSession}
DeadEntries == UNION {{<<n, i, s>> : i \in {i \in DOMAIN rooms[n][s] : ~rooms[n][s][i].live}} :
                        n \in DOMAIN rooms, s \in {"players", "observers"}}
Bounded ==
  /\ Cardinality(online \ registry) + Cardinality(DOMAIN rooms) + Cardinality(Voting) <= MaxTangle
  /\ Cardinality(DeadEntries) <= MaxDead
=============================================================================
