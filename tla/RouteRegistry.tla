----------------------------- MODULE RouteRegistry -----------------------------
(***************************************************************************)
(* The route registry of http/route.go, down to the slices it is made of.  *)
(*                                                                         *)
(* routes maps a method to a Go slice: a backing array and a length.       *)
(* AddRoute appends in place while the array has room; RemoveRoute copies; *)
(* Handle copies only the slice HEADER under the read lock and scans the   *)
(* shared array after the lock is released, so a writer may run between    *)
(* any two comparisons of the scan.  currentApiVersion is read before the  *)
(* lock is taken and is itself guarded by nothing: while a SetApiVersion   *)
(* is under way a reader of the two-word string may see the old value, the *)
(* new one or a mixture, here any member of Versions.                      *)
(*                                                                         *)
(* The code between Lock and Unlock is one action: the lock excludes every *)
(* other holder, and a panic inside releases it (defer).                   *)
(***************************************************************************)
EXTENDS Routing

CONSTANTS
  Callers,      \* goroutines that use the registry
  Methods,      \* HTTP methods as written by a route or a request
  Upper,        \* strings.ToUpper on Methods
  InitVersion,  \* "", the version of a new registry
  Malformed,    \* the patterns whose regular expression does not compile
  MaxRoutes,    \* bound: routes of one method, and the capacity of an array
  Arrays,       \* addresses of backing arrays; one is free when none refers to it
  NilArray,     \* the array of a slice that was never appended to: capacity 0
  Blank         \* an element of an array that was never written

ASSUME RegistryAssumption ==
  /\ Upper \in [Methods -> Methods]
  /\ InitVersion \in Versions
  /\ Malformed \subseteq Patterns
  /\ MaxRoutes \in Nat \ {0}
  /\ NilArray \notin Arrays
  /\ Blank \notin Item

VARIABLES
  currentApiVersion,
  routes,       \* method -> slice header; no key before its first route
  arrays,       \* address -> contents, as long as the capacity
  call          \* what each caller is doing

vars == <<currentApiVersion, routes, arrays, call>>

Slice == [arr : Arrays \cup {NilArray}, len : 0..MaxRoutes]
EmptySlice == [arr |-> NilArray, len |-> 0]

\* The elements a slice gives access to.
Contents(sl) == SubSeq(arrays[sl.arr], 1, sl.len)

Idle == [op |-> "idle"]
Call ==
  {Idle}
    \cup [op : {"set"}, version : Versions]
    \cup [op : {"add", "remove"}, method : Methods, item : Item]
    \cup [op : {"scan"}, path : Paths, snap : Slice, pos : 1..(MaxRoutes + 1)]
    \cup [op : {"routed"}, route : Item \cup {NotFound}]

Scanning == {c \in Callers : call[c].op = "scan"}

-------------------------------------------------------------------------------
Init ==
  /\ currentApiVersion = InitVersion
  /\ routes = << >>
  /\ arrays = [a \in Arrays \cup {NilArray} |-> <<>>]
  /\ call = [c \in Callers |-> Idle]

Become(c, what) == call' = [call EXCEPT ![c] = what]

\* What a read of currentApiVersion may yield.
VersionRead ==
  IF \E c \in Callers : call[c].op = "set" THEN Versions ELSE {currentApiVersion}

\* The addresses the allocator may hand out.
Free ==
  {a \in Arrays : /\ \A m \in DOMAIN routes : routes[m].arr # a
                  /\ \A c \in Scanning : call[c].snap.arr # a}

\* A new array that holds s and may have room for more: append rounds up.
NewArray(a, s) ==
  /\ a \in Free
  /\ \E cap \in Len(s)..MaxRoutes :
       arrays' = [arrays EXCEPT ![a] = s \o [i \in 1..(cap - Len(s)) |-> Blank]]

StoreSlice(m, sl) ==
  routes' = [x \in DOMAIN routes \cup {m} |-> IF x = m THEN sl ELSE routes[x]]

-------------------------------------------------------------------------------
SetApiVersion(c, ver) ==
  /\ call[c] = Idle
  /\ Become(c, [op |-> "set", version |-> ver])
  /\ UNCHANGED <<currentApiVersion, routes, arrays>>

\* Two writers at once may leave a mixture.
ApiVersionSet(c) ==
  /\ call[c].op = "set"
  /\ currentApiVersion' \in
       IF \E d \in Callers \ {c} : call[d].op = "set" THEN Versions
       ELSE {call[c].version}
  /\ Become(c, Idle)
  /\ UNCHANGED <<routes, arrays>>

SliceOf(m) == IF m \in DOMAIN routes THEN routes[m] ELSE EmptySlice

\* The bound: a route is added only while every route on its way has room too.
HasRoom(m) ==
  SliceOf(m).len + Cardinality({c \in Callers : call[c].op = "add"}) < MaxRoutes

\* AddRoute and removeRouteImpl read the version, then wait for the lock.
Start(c, op, m, pat) ==
  /\ call[c] = Idle
  /\ op = "add" => HasRoom(m)
  /\ \E ver \in VersionRead :
       Become(c, [op |-> op, method |-> m,
                  item |-> [version |-> ver, pattern |-> pat]])
  /\ UNCHANGED <<currentApiVersion, routes, arrays>>

\* append(*routeSlice, item): in place when the array has room, else a copy.
AppendItem(m, it) ==
  LET sl == SliceOf(m) IN
  /\ sl.len < MaxRoutes
  /\ \/ /\ sl.len < Len(arrays[sl.arr])
        /\ arrays' = [arrays EXCEPT ![sl.arr][sl.len + 1] = it]
        /\ StoreSlice(m, [arr |-> sl.arr, len |-> sl.len + 1])
     \/ /\ sl.len = Len(arrays[sl.arr])
        /\ \E a \in Arrays : /\ NewArray(a, Append(Contents(sl), it))
                             /\ StoreSlice(m, [arr |-> a, len |-> sl.len + 1])

\* Mutant: the duplicate check reads currentApiVersion again, under the lock.
Refused_Reread(m, it) ==
  \/ it.pattern \in Malformed
  \/ Hits(Contents(SliceOf(m)), [it EXCEPT !.version = currentApiVersion]) # {}

\* checkDuplicateRoute finds the item, or its pattern does not compile.
Refused(m, it) ==
  it.pattern \in Malformed \/ Hits(Contents(SliceOf(m)), it) # {}

\* A panic leaves the table alone.
AddPanics(c) ==
  /\ call[c].op = "add"
  /\ Refused(call[c].method, call[c].item)
  /\ Become(c, Idle)
  /\ UNCHANGED <<currentApiVersion, routes, arrays>>

AddRoute(c) ==
  /\ call[c].op = "add"
  /\ ~Refused(call[c].method, call[c].item)
  /\ AppendItem(call[c].method, call[c].item)
  /\ Become(c, Idle)
  /\ UNCHANGED currentApiVersion

\* Mutant: the rest is moved up inside the old array.
StoreCopy_InPlace(m, s) ==
  LET sl == routes[m] IN
  /\ StoreSlice(m, [sl EXCEPT !.len = Len(s)])
  /\ arrays' = [arrays EXCEPT ![sl.arr] = s \o SubSeq(@, Len(s) + 1, Len(@))]

\* s.routes[method] = &newRoutes: a slice of its own, never the old array.
StoreCopy(m, s) ==
  \/ /\ s = <<>>
     /\ StoreSlice(m, EmptySlice)
     /\ UNCHANGED arrays
  \/ /\ s # <<>>
     /\ \E a \in Arrays : /\ NewArray(a, s)
                          /\ StoreSlice(m, [arr |-> a, len |-> Len(s)])

RemoveRoute(c) ==
  /\ call[c].op = "remove"
  /\ call[c].method \in DOMAIN routes
  /\ StoreCopy(call[c].method,
               Removed(Contents(routes[call[c].method]), call[c].item))
  /\ Become(c, Idle)
  /\ UNCHANGED currentApiVersion

\* No route was ever added under that method.
RemovePanics(c) ==
  /\ call[c].op = "remove"
  /\ call[c].method \notin DOMAIN routes
  /\ Become(c, Idle)
  /\ UNCHANGED <<currentApiVersion, routes, arrays>>

\* Mutant: the scan starts one element too early.
Handle_FromZero(c, m, path) ==
  /\ call[c] = Idle
  /\ Become(c, [op |-> "scan", path |-> path, snap |-> SliceOf(Upper[m]), pos |-> 0])
  /\ UNCHANGED <<currentApiVersion, routes, arrays>>

\* Handle, under the read lock: the slice header is copied, no element is.
Handle(c, m, path) ==
  /\ call[c] = Idle
  /\ Become(c, [op |-> "scan", path |-> path, snap |-> SliceOf(Upper[m]), pos |-> 1])
  /\ UNCHANGED <<currentApiVersion, routes, arrays>>

\* Handle, after the lock: one element of the array is read and matched.
Match(c) ==
  /\ call[c].op = "scan"
  /\ call[c].pos <= call[c].snap.len
  /\ LET item == arrays[call[c].snap.arr][call[c].pos] IN
       IF call[c].path \in Accepts[<<item.version, item.pattern>>]
       THEN Become(c, [op |-> "routed", route |-> item])
       ELSE Become(c, [call[c] EXCEPT !.pos = @ + 1])
  /\ UNCHANGED <<currentApiVersion, routes, arrays>>

\* Mutant: the scan gives up before the last element.
NoMatch_Early(c) ==
  /\ call[c].op = "scan"
  /\ call[c].pos >= call[c].snap.len
  /\ Become(c, [op |-> "routed", route |-> NotFound])
  /\ UNCHANGED <<currentApiVersion, routes, arrays>>

NoMatch(c) ==
  /\ call[c].op = "scan"
  /\ call[c].pos > call[c].snap.len
  /\ Become(c, [op |-> "routed", route |-> NotFound])
  /\ UNCHANGED <<currentApiVersion, routes, arrays>>

\* The request goes on into the route context or is answered 404; what happens
\* there is RequestPipeline's.
HandleReturns(c) ==
  /\ call[c].op = "routed"
  /\ Become(c, Idle)
  /\ UNCHANGED <<currentApiVersion, routes, arrays>>

Next ==
  \E c \in Callers :
    \/ \E ver \in Versions : SetApiVersion(c, ver)
    \/ ApiVersionSet(c)
    \/ \E op \in {"add", "remove"}, m \in Methods, pat \in Patterns : Start(c, op, m, pat)
    \/ AddPanics(c) \/ AddRoute(c)
    \/ RemoveRoute(c) \/ RemovePanics(c)
    \/ \E m \in Methods, path \in Paths : Handle(c, m, path)
    \/ Match(c) \/ NoMatch(c) \/ HandleReturns(c)

Spec == Init /\ [][Next]_vars

-------------------------------------------------------------------------------
TypeOK ==
  /\ currentApiVersion \in Versions
  /\ DOMAIN routes \subseteq Methods
  /\ \A m \in DOMAIN routes : routes[m] \in Slice
  /\ arrays \in [Arrays \cup {NilArray} -> Seq(Item \cup {Blank})]
  /\ call \in [Callers -> Call]

\* A slice lies inside its array, and its elements were written.
InBounds(sl) ==
  /\ sl.len <= Len(arrays[sl.arr])
  /\ \A i \in 1..sl.len : arrays[sl.arr][i] \in Item

\* Who may write where: no two methods append to the same array, and a scan of
\* an array that a method still appends to stays below that method's length
\* (append at route.go:193 against the header copied at route.go:276).
ArraysOwned ==
  /\ arrays[NilArray] = <<>>
  /\ \A m \in DOMAIN routes :
       /\ InBounds(routes[m])
       /\ \A n \in DOMAIN routes \ {m} :
            routes[m].arr = routes[n].arr => routes[m].arr = NilArray
       /\ \A c \in Scanning :
            call[c].snap.arr = routes[m].arr => call[c].snap.len <= routes[m].len
  /\ \A c \in Scanning : InBounds(call[c].snap)

\* No method is registered twice under the same version and pattern, although
\* checkDuplicateRoute works with a version read before the lock and the table
\* may have changed since (AddRoute, route.go:184-191).
NoDuplicateRoutes ==
  \A m \in DOMAIN routes : IsInjective(Contents(routes[m]))

\* The elements a Handle is scanning outside the lock never change under it,
\* whatever is added and removed meanwhile: appends write behind its length and
\* removals go to another array (Handle's [:] at route.go:276 copies nothing).
SnapshotFrozen ==
  [][\A c \in Callers : \A sl \in Slice :
       (call[c].op = "scan" /\ call[c].snap = sl) => Contents(sl)' = Contents(sl)]_vars

\* Every request is routed by the table as it was at one instant between its
\* arrival and its dispatch, to the route registered first among those that
\* accept it; adding and removing are atomic (route.go:183-297).
Table ==
  INSTANCE RouteTable WITH
    table <- [m \in DOMAIN routes |-> Contents(routes[m])],
    decided <- [c \in {d \in Callers : call[d].op \in {"scan", "routed"}} |->
                  IF call[c].op = "routed" THEN call[c].route
                  ELSE FirstMatch(Contents(call[c].snap), call[c].path)]

RoutedAtOneInstant == Table!TableSpec

\* RemoveRoute takes out the route it names and no other (static_test.go:24
\* "expected first route to remain").
RemoveKeepsOthers ==
  [][\A c \in Callers :
       (call[c].op = "remove" /\ call[c]' = Idle) =>
         \A m \in DOMAIN routes :
           Range(Contents(routes[m])) \ {call[c].item}
             \subseteq Range(Contents(routes[m]))']_vars

===============================================================================
