------------------------------ MODULE MCClans ------------------------------
(* Clans for TLC: three accounts and two ids of clans.                     *)
EXTENDS Clans, TLC
Symmetry == Permutations(Accounts)
=============================================================================
