--------------------------- MODULE MCPageCapture ---------------------------
(* Model values for PageCapture: the order of the code's times is kept,    *)
(* first retry (60 s) < fetch deadline (90 s) < stale work (600 s) < second *)
(* retry (900 s).                                                          *)
EXTENDS PageCapture

MCDelay == <<1, 4>>
=============================================================================
