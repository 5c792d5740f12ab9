------------------------------ MODULE MCSocial ------------------------------
(* Social for TLC: interchangeable users and seconds, an id that belongs to *)
(* nobody, and a bound on how much is going on at a time.                   *)
EXTENDS Social, TLC

CONSTANTS MaxLoad, MaxTorn

Symmetric ==
  {p @@ s : p \in Permutations(Users), s \in Permutations(Seconds)}

Load(a) ==
  2 * (Len(rows[a].mails) + Size(rows[a].blocks) + Cardinality(pendingRows[a])
         + Cardinality(asked[a]) + Cardinality(held[a]))
    + Len(queue[a]) + Size(friendRows[a])
Total(f(_)) == FoldSet(LAMBDA a, n : n + f(a), 0, Accounts)
Bounded ==
  /\ Total(Load) <= MaxLoad
  /\ Total(LAMBDA a : torn[a]) <= MaxTorn
=============================================================================
