------------------------------ MODULE RouteTable ------------------------------
(***************************************************************************)
(* What the route registry of http/route.go promises to its callers, with  *)
(* no lock, no slice and no scan: a table of routes per method in order of *)
(* registration.  Registering and removing are atomic.  A request is       *)
(* routed by the table as it is at ONE instant, to the first registered    *)
(* route that accepts its path, and learns the result later.               *)
(***************************************************************************)
EXTENDS Routing

CONSTANTS
  Callers,    \* goroutines that use the registry
  Methods,    \* HTTP methods as written by a route or a request
  Upper       \* strings.ToUpper on Methods

VARIABLES
  table,      \* method -> sequence of items; no key before its first route
  decided     \* caller -> the outcome of its running request

tableVars == <<table, decided>>

\* The routes of method m, none when the map has no such key.
RoutesOf(m) == IF m \in DOMAIN table THEN table[m] ELSE <<>>

-------------------------------------------------------------------------------
TableInit ==
  /\ table = << >>
  /\ decided = << >>

SetRoutes(m, s) ==
  table' = [x \in DOMAIN table \cup {m} |-> IF x = m THEN s ELSE table[x]]

\* A route is added behind the others unless it is registered already.
Register(m, it) ==
  /\ Hits(RoutesOf(m), it) = {}
  /\ SetRoutes(m, Append(RoutesOf(m), it))
  /\ UNCHANGED decided

Unregister(m, it) ==
  /\ m \in DOMAIN table
  /\ SetRoutes(m, Removed(table[m], it))
  /\ UNCHANGED decided

\* The instant at which a request is routed.
Decide(c, m, path) ==
  /\ c \notin DOMAIN decided
  /\ decided' = [x \in DOMAIN decided \cup {c} |->
                   IF x = c THEN FirstMatch(RoutesOf(Upper[m]), path)
                   ELSE decided[x]]
  /\ UNCHANGED table

\* The request is handed to that route, or answered 404.
Return(c) ==
  /\ c \in DOMAIN decided
  /\ decided' = [x \in DOMAIN decided \ {c} |-> decided[x]]
  /\ UNCHANGED table

TableNext ==
  \/ \E m \in Methods, it \in Item : Register(m, it) \/ Unregister(m, it)
  \/ \E c \in Callers :
       \/ \E m \in Methods, path \in Paths : Decide(c, m, path)
       \/ Return(c)

TableSpec == TableInit /\ [][TableNext]_tableVars

===============================================================================
