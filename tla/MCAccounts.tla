----------------------------- MODULE MCAccounts -----------------------------
(* Instances of Accounts for TLC.                                            *)
EXTENDS Accounts

CONSTANTS s1, s2

=============================================================================
