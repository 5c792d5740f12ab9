----------------------------- MODULE MCAccounts -----------------------------
(* Accounts for TLC: one account, whose clients compete for its keys.      *)
EXTENDS Accounts
First == [a \in Accounts |-> Mod]
=============================================================================
