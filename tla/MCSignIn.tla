------------------------------ MODULE MCSignIn ------------------------------
(* Model values for SignIn: one provider in the server's settings, and one  *)
(* or two that were added.                                                  *)
EXTENDS SignIn
=============================================================================
