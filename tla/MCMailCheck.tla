----------------------------- MODULE MCMailCheck -----------------------------
(* Model values for MailCheck: three messages, the first of which can't be    *)
(* saved, and the last not marked read.                                       *)
EXTENDS MailCheck
=============================================================================
