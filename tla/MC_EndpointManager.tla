--------------------------- MODULE MC_EndpointManager ---------------------------
(* Small numbers of connections on one executor. *)
EXTENDS EndpointManager

CONSTANTS c1, c2

\* One peer sends as many pieces as are asked for, the other one only connects.
Pieces(n) == [c \in Conns |-> IF c = c1 THEN n ELSE 0]
OnePiece == Pieces(1)
TwoPieces == Pieces(2)

=================================================================================
