--------------------------------- MODULE MC_Site ---------------------------------
(* Two requests, for what may interfere; one for files, whose tree changes. *)
EXTENDS Site

CONSTANTS r1, r2

MCBuiltin == <<"logger", "recovery", "static">>
MCLater == <<"embed", "user">>
MCEmbedKind == [n \in EmbedNames |-> n]

\* Literals, parameters and wildcards that compete for the same paths.
At(pattern, to) == [pattern |-> pattern, to |-> to]
a == <<"a">>
ab == <<"a", "b">>
Param == <<":">>
Wild == <<"**">>
MCTable ==
  <<At(<<<<"p">>>>, "proxy"), At(<<<<"u">>>>, "upload"), At(<<<<"f">>, Wild>>, "files"),
    At(<<a, Param>>, "redirect"), At(<<Wild, a>>, "redirect"),
    At(<<Param, ab, Param>>, "redirect"), At(<<ab>>, "redirect"),
    At(<<ab, Wild, ab>>, "redirect"), At(<<Wild, a, Wild>>, "redirect")>>

\* Every path of up to three segments; "a?" cannot be matched.
Segs == {<<>>, a, ab, <<"a", "?">>}
MCPaths == UNION {[1..n -> Segs] : n \in 1..3}
MCPathsFor ==
  [what \in For |->
     CASE what = "redirect" -> MCPaths
       [] what = "proxy" -> {<<<<"p">>>>}
       [] what = "upload" -> {<<<<"u">>>>}
       [] what = "files" -> {<<<<"f">>, a>>}
       [] OTHER -> {<<<<"s">>>>}]

Pair(a_, b_) == [r \in Requests |-> IF r = r1 THEN a_ ELSE b_]
MCMixes ==
  {Pair("static", "none"), Pair("files", "none"), Pair("embed", "embed"),
   Pair("proxy", "proxy"), Pair("upload", "upload"), Pair("redirect", "none")}

==================================================================================
