---------------------------- MODULE MC_RouteRegistry ----------------------------
(* Small instances of RouteRegistry. *)
EXTENDS RouteRegistry

CONSTANTS GET, v1, bad, x   \* model values

MCUpper == [m \in Methods |-> GET]

\* Every route accepts x, so that the order of registration decides; no route of
\* v1 accepts anything else.  "bad" is never compiled.
MCAccepts ==
  [vp \in Versions \X Patterns |->
     IF vp[2] = bad THEN {} ELSE IF vp[1] = v1 THEN {x} ELSE Paths]

\* Nothing reads an array that nothing refers to: two states that differ only in
\* such garbage are the same state.
LiveView ==
  <<currentApiVersion, routes, [a \in Arrays \ Free |-> arrays[a]], call>>

Symm == Permutations(Callers) \cup Permutations(Arrays)

===============================================================================
