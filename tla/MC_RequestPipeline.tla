--------------------------- MODULE MC_RequestPipeline ---------------------------
(* Small chains for RequestPipeline. *)
EXTENDS RequestPipeline

Mixed == <<"user", "guard", "user">>
GuardThenUser == <<"guard", "user">>

===============================================================================
