----------------------------- MODULE MCAccounts -----------------------------
(* Model values for Accounts: addresses, passwords, browsers and requests   *)
(* are each alike.                                                          *)
EXTENDS Accounts, TLC

Alike == Permutations(Emails) \cup Permutations(Words) \cup Permutations(Browsers) \cup Permutations(Workers)
=============================================================================
