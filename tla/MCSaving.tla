------------------------------ MODULE MCSaving ------------------------------
(* Model values for Saving: one account, whose requests are alike, and       *)
(* pictures that are alike.                                                  *)
EXTENDS Saving, TLC

Alike == Permutations(Pictures) \cup Permutations(Requests)
=============================================================================
