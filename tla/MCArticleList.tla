--------------------------- MODULE MCArticleList ---------------------------
(* Model values for FullText: two entries of the same second, which       *)
(* only ids tell apart, and a newer one.                                   *)
EXTENDS FullText

Dates == [e \in Entries |-> IF e = CHOOSE x \in Entries : TRUE THEN 2 ELSE 1]
=============================================================================
