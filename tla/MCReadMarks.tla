---------------------------- MODULE MCReadMarks ----------------------------
(* Model values for ReadMarks.                                             *)
EXTENDS ReadMarks
=============================================================================
