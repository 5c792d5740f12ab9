------------------------------ MODULE MCTrade ------------------------------
(* Trade for TLC: players and items are interchangeable.                   *)
EXTENDS Trade, TLC

TradeSymmetry == Permutations(Players) \cup Permutations(Items)
=============================================================================
