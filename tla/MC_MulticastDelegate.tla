----------------------- MODULE MC_MulticastDelegate -----------------------
(* Threads and delegates for model checking MulticastDelegate.             *)
EXTENDS MulticastDelegate

CONSTANTS t1, t2, outer, inner, private, c1, c2, k1, k2

MCHash == (c1 :> k1) @@ (c2 :> k2)

\* The callbacks of outer call inner, and wrongly outer itself.
MCNested == {<<outer, inner>>, <<outer, outer>>}

\* The threads hold copies of two delegates; the third is t1's own.
MCUsers == [d \in Delegates |-> IF d = private THEN {t1} ELSE Threads]
=============================================================================
