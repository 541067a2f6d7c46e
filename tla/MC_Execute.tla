------------------------------- MODULE MC_Execute -------------------------------
(* Four tasks on an executor with two places. *)
EXTENDS Execute

CONSTANTS t1, t2, t3, t4

\* One task calls Run itself: fewer such tasks than places.
OneNests == [t \in Tasks |-> IF t = t2 THEN t1 ELSE Outside]

===============================================================================
