---------------------------- MODULE MCStashSync ----------------------------
(* Model values for StashSync.                                             *)
EXTENDS StashSync
=============================================================================
