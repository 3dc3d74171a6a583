---------------------------- MODULE MCFollowing ----------------------------
(* Model values for Following: a feed on a host of its own, or moved to     *)
(* another, where http:// is refused and found on https://; or https://     *)
(* leads back to http://.                                                   *)
EXTENDS Following

CONSTANTS here, there

MCHosts == {here, there}
At(h, s) == [host |-> h, secure |-> s]

Moved == [a \in [host : MCHosts, secure : BOOLEAN] |-> At(there, TRUE)]
Back == [a \in [host : MCHosts, secure : BOOLEAN] |-> IF a.host = here THEN At(here, FALSE) ELSE a]
MCWebs == {Moved, Back}
=============================================================================
