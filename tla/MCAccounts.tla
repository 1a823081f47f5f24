----------------------------- MODULE MCAccounts -----------------------------
(* An instance of Accounts for TLC. Workers are interchangeable.            *)
EXTENDS Accounts, TLC

Interchangeable == Permutations(Workers)
=============================================================================
