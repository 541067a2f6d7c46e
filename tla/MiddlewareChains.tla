---------------------------- MODULE MiddlewareChains ----------------------------
(***************************************************************************)
(* The global middlewares (http/middleware_chains.go).  GetHandlers hands  *)
(* out the slice itself, and Append writes behind its end in the same      *)
(* array or moves everything to a larger one, while the requests that      *)
(* begin and run meanwhile read what they were handed without a lock.      *)
(***************************************************************************)
EXTENDS SequencesExt

CONSTANTS
  Requests,
  Builtin,   \* what NewHTTPServer appends: a sequence of handlers
  Later,     \* what the user appends afterwards, in this order
  Blank      \* a cell of an array that nothing was appended to

ChainsAssumption ==
  /\ Builtin \in Seq(STRING) \ {<<>>} /\ Later \in Seq(STRING)
  /\ IsInjective(Builtin \o Later)
  /\ Blank \notin ToSet(Builtin \o Later)

VARIABLES
  arrays,    \* the arrays behind the slices, as long as their capacity
  handlers,  \* chainsImpl.handlers: the array and the length of the slice
  used,      \* history: what was appended
  chain,     \* the slice that GetHandlers handed to a request
  ran        \* the handlers that a request has called

chainVars == <<arrays, handlers, used, chain, ran>>

Slice(a, n) == [array |-> a, len |-> n]
Blanks(n) == [i \in 1..n |-> Blank]

\* Go's append doubles the capacity of a small array that is full.
Capacity(n) == IF n = 0 THEN 1 ELSE 2 * n

AppendTo(a, n, h) ==
  IF n < Len(arrays[a])
  THEN /\ arrays' = [arrays EXCEPT ![a][n + 1] = h]
       /\ handlers' = Slice(a, n + 1)
  ELSE /\ arrays' = Append(arrays, Append(arrays[a], h) \o Blanks(Capacity(n) - n - 1))
       /\ handlers' = Slice(Len(arrays) + 1, n + 1)

\* NewHTTPServer is done: its handlers are in an array of the next power of two, which
\* has this room behind them.
Room ==
  {room \in 0..(Len(Builtin) - 1) : \E k \in 0..Len(Builtin) : Len(Builtin) + room = 2^k}

ChainsInit ==
  /\ arrays \in {<<Builtin \o Blanks(room)>> : room \in Room}
  /\ handlers = Slice(1, Len(Builtin))
  /\ used = Builtin
  /\ chain = [r \in Requests |-> Slice(1, 0)]
  /\ ran = [r \in Requests |-> <<>>]

NextUsed == Later[Len(used) - Len(Builtin) + 1]

\* Mutant: Use puts what it is given in front of the others.
Use_InFront ==
  /\ Len(used) < Len(Builtin) + Len(Later)
  /\ used' = Append(used, NextUsed)
  /\ handlers' = Slice(handlers.array, handlers.len + 1)
  /\ arrays' = [arrays EXCEPT ![handlers.array] =
                  SubSeq(<<NextUsed>> \o @, 1, Max({handlers.len + 1, Len(@)}))]
  /\ UNCHANGED <<chain, ran>>

\* HTTPServer.Use, at any time.
Use ==
  /\ Len(used) < Len(Builtin) + Len(Later)
  /\ used' = Append(used, NextUsed)
  /\ AppendTo(handlers.array, handlers.len, NextUsed)
  /\ UNCHANGED <<chain, ran>>

\* ServeHTTP: a request begins with the slice as it is.
GetHandlers(r) ==
  /\ chain' = [chain EXCEPT ![r] = handlers]
  /\ ran' = [ran EXCEPT ![r] = <<>>]
  /\ UNCHANGED <<arrays, handlers, used>>

ChainDone(r) == Len(ran[r]) = chain[r].len

\* middlewareChainsFuncs[index], read from the array.
NextHandler(r) == arrays[chain[r].array][Len(ran[r]) + 1]

CallHandler(r) ==
  /\ ~ChainDone(r)
  /\ ran' = [ran EXCEPT ![r] = Append(@, NextHandler(r))]
  /\ UNCHANGED <<arrays, handlers, used, chain>>

\* The context of the request is garbage.
Forget(r) ==
  /\ chain' = [chain EXCEPT ![r] = Slice(1, 0)]
  /\ ran' = [ran EXCEPT ![r] = <<>>]
  /\ UNCHANGED <<arrays, handlers, used>>

-------------------------------------------------------------------------------
\* However Use interleaves with the requests in flight, a request calls the
\* handlers that were appended before it began, in that order, and no other: Append
\* never writes where a slice that was handed out reads (middleware_chains.go:42-54).
RunsWhatWasUsed ==
  \A r \in Requests : ran[r] = SubSeq(used, 1, Len(ran[r])) /\ Len(ran[r]) <= chain[r].len

===============================================================================
