------------------------------- MODULE Routing -------------------------------
(***************************************************************************)
(* Sequences of routes and what http/route.go asks of them.  Shared by the *)
(* abstract table and the registry that implements it.                     *)
(***************************************************************************)
EXTENDS SequencesExt

CONSTANTS
  Versions,   \* API version prefixes
  Patterns,   \* uri patterns of routes
  Paths,      \* request paths
  Accepts,    \* Accepts[ver, pat]: the paths the compiled pattern matches
  NotFound    \* http.NotFound

\* A registered route, identified by what equalRoute and match look at.
Item == [version : Versions, pattern : Patterns]

ASSUME RoutingAssumption ==
  /\ Accepts \in [Versions \X Patterns -> SUBSET Paths]
  /\ NotFound \notin Item

\* The positions in s of the item a registration or a removal names.
Hits(s, it) == {i \in 1..Len(s) : s[i] = it}

\* The positions in s of the routes that accept path.
Accepting(s, path) ==
  {i \in 1..Len(s) : path \in Accepts[<<s[i].version, s[i].pattern>>]}

\* The route that serves path: the first that accepts it.
FirstMatch(s, path) ==
  LET hits == Accepting(s, path) IN IF hits = {} THEN NotFound ELSE s[Min(hits)]

\* newRoutes of removeRouteImpl: what is before and behind the first route of
\* that name.  The loop copies NOTHING when it meets no such route.
Removed(s, it) ==
  LET hits == Hits(s, it) IN IF hits = {} THEN <<>> ELSE RemoveAt(s, Min(hits))

==============================================================================
