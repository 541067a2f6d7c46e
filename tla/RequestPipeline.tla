---------------------------- MODULE RequestPipeline ----------------------------
(***************************************************************************)
(* One request in the HTTP server: httpServer.ServeHTTP (http_server.go)   *)
(* runs the global middlewares, the registry hands over to the middlewares *)
(* and the handler of a route (context.go), and the recovery middleware    *)
(* (recovery.go) stops panics.                                             *)
(*                                                                         *)
(* A middleware calls ctx.Next() to run what is behind it INSIDE its own   *)
(* call, or returns and lets the loop of Run go on; it may do both.  The   *)
(* state is therefore the call stack of the request's goroutine, with the  *)
(* index that all frames of a context share and the status that says       *)
(* whether the response was written.                                       *)
(***************************************************************************)
EXTENDS SequencesExt

CONSTANTS
  UserChain,   \* the kinds of the middlewares added with Use, "user" or "guard"
  RouteChain,  \* the kinds of the route's own middlewares
  MaxActs,     \* bound: what one middleware or handler does before it returns
  Statuses     \* final statuses that user code writes

ASSUME PipelineAssumption ==
  /\ UserChain \in Seq({"user", "guard"})
  /\ RouteChain \in Seq({"user", "guard"})
  /\ MaxActs \in Nat \ {0}
  /\ Statuses \subseteq Nat \ {0}

\* Mutant: what the caller adds comes before logger and recovery.
Chain_UserFirst ==
  [global |-> UserChain \o <<"logger", "recovery">>, route |-> RouteChain]

\* NewHTTPServer installs logger and recovery before the caller's own.
Chain ==
  [global |-> <<"logger", "recovery">> \o UserChain, route |-> RouteChain]

Ctx == {"global", "route"}
Positions(ctx) == 1..Len(Chain[ctx])

VARIABLES
  stack,     \* the frames of the goroutine, the running one last
  index,     \* baseContext.index of each context, counted from 0
  bound,     \* Bind was called: there is a registry
  status,    \* responseWriter.status, 0 until something is written
  wire,      \* the status line the client gets, which only the first write sets
  entered,   \* history: how often each middleware was called, 2 for more
  handled,   \* history: how often the handler was called
  swallowed, \* history: a guard ate a panic
  escaped    \* history: a panic left ServeHTTP

vars == <<stack, index, bound, status, wire, entered, handled, swallowed, escaped>>
history == <<entered, handled, swallowed, escaped>>

Run(ctx, at) == [frame |-> "run", ctx |-> ctx, at |-> at]
Middleware(ctx, i) == [frame |-> "mw", ctx |-> ctx, i |-> i, acts |-> 0]
Handler == [frame |-> "handler", acts |-> 0]

RunFrame == [frame : {"run"}, ctx : Ctx, at : {"loop", "called", "tail"}]
MwFrame ==
  UNION {[frame : {"mw"}, ctx : {ctx}, i : Positions(ctx), acts : 0..MaxActs] : ctx \in Ctx}
Frame == RunFrame \cup MwFrame \cup [frame : {"handler"}, acts : 0..MaxActs]

Running == stack # <<>>
Top == Last(stack)
InRun(at) == Running /\ Top.frame = "run" /\ Top.at = at
InKind(kind) == Running /\ Top.frame = "mw" /\ Chain[Top.ctx][Top.i] = kind
InUserCode == InKind("user") \/ InKind("guard") \/ (Running /\ Top.frame = "handler")

Pop == Front(stack)
Replace(f) == Append(Pop, f)

-------------------------------------------------------------------------------
\* ServeHTTP makes the request context and calls its Run.
Init ==
  /\ stack = <<Run("global", "loop")>>
  /\ index = [ctx \in Ctx |-> 0]
  /\ bound \in BOOLEAN
  /\ status = 0
  /\ wire = 0
  /\ entered = [ctx \in Ctx |-> [i \in Positions(ctx) |-> 0]]
  /\ handled = 0
  /\ swallowed = FALSE
  /\ escaped = FALSE

Written == status # 0

\* responseWriter.WriteHeader records every status, net/http sends the first.
WriteHeader(s) ==
  /\ status' = s
  /\ wire' = IF wire = 0 THEN s ELSE wire

Unwritten == UNCHANGED <<status, wire>>

Twice(n) == IF n = 2 THEN 2 ELSE n + 1

-------------------------------------------------------------------------------
\* Run's loop calls the middleware at index.
CallMiddleware ==
  /\ InRun("loop")
  /\ LET ctx == Top.ctx
         i == index[ctx] + 1
     IN /\ i <= Len(Chain[ctx])
        /\ stack' = Append(Replace(Run(ctx, "called")), Middleware(ctx, i))
        /\ entered' = [entered EXCEPT ![ctx][i] = Twice(@)]
  /\ UNCHANGED <<index, bound, status, wire, handled, swallowed, escaped>>

\* Mutant: the loop forgets to move on.
MiddlewareReturned_NoIncrement ==
  /\ InRun("called")
  /\ stack' = IF Written THEN Pop ELSE Replace(Run(Top.ctx, "loop"))
  /\ UNCHANGED <<index, bound, status, wire, history>>

\* The middleware returned: the loop ends once something was written.
MiddlewareReturned ==
  /\ InRun("called")
  /\ index' = [index EXCEPT ![Top.ctx] = @ + 1]
  /\ stack' = IF Written THEN Pop ELSE Replace(Run(Top.ctx, "loop"))
  /\ UNCHANGED <<bound, status, wire, history>>

\* Mutant: the loop ends one middleware early.
LoopDone_OffByOne(ctx) ==
  InRun("loop") /\ Top.ctx = ctx /\ index[ctx] >= Len(Chain[ctx]) - 1

LoopDone(ctx) == InRun("loop") /\ Top.ctx = ctx /\ index[ctx] >= Len(Chain[ctx])

\* requestContext.Run behind the loop: the registry finds a route and runs a new
\* route context (RouteRegistry.Handle), or answers 404.
DispatchRoute ==
  /\ LoopDone("global") /\ ~Written /\ bound
  /\ stack' = Append(Replace(Run("global", "tail")), Run("route", "loop"))
  /\ index' = [index EXCEPT !.route = 0]
  /\ entered' = [entered EXCEPT !.route = [i \in Positions("route") |-> 0]]
  /\ UNCHANGED <<bound, status, wire, handled, swallowed, escaped>>

NoRoute ==
  /\ LoopDone("global") /\ ~Written /\ bound
  /\ stack' = Replace(Run("global", "tail"))
  /\ WriteHeader(404)
  /\ UNCHANGED <<index, bound, history>>

\* Without a registry, and also when something was written before the loop began.
NotFoundBehindLoop ==
  /\ LoopDone("global") /\ (Written \/ ~bound)
  /\ stack' = Pop
  /\ WriteHeader(404)
  /\ UNCHANGED <<index, bound, history>>

\* routeContext.Run behind the loop.
CallHandler ==
  /\ LoopDone("route") /\ ~Written
  /\ stack' = Append(Replace(Run("route", "tail")), Handler)
  /\ handled' = Twice(handled)
  /\ UNCHANGED <<index, bound, status, wire, entered, swallowed, escaped>>

SkipHandler ==
  /\ LoopDone("route") /\ Written
  /\ stack' = Pop
  /\ UNCHANGED <<index, bound, status, wire, history>>

\* Mutant: no 204 behind the loop.
RunEnds_NoFallback ==
  /\ InRun("tail")
  /\ stack' = Pop
  /\ UNCHANGED <<index, bound, status, wire, history>>

\* The last lines of either Run: 204 if nobody answered.
RunEnds ==
  /\ InRun("tail")
  /\ IF Written THEN Unwritten ELSE WriteHeader(204)
  /\ stack' = Pop
  /\ UNCHANGED <<index, bound, history>>

-------------------------------------------------------------------------------
Acted == [Top EXCEPT !.acts = @ + 1]

\* ctx.Next(): the next index, in a Run of its own inside the caller.
Next_(ctx) ==
  /\ index' = [index EXCEPT ![ctx] = @ + 1]
  /\ stack' = Append(Replace(Acted), Run(ctx, "loop"))
  /\ UNCHANGED <<bound, status, wire, history>>

\* The built-in middlewares call Next exactly once.
BuiltinNext ==
  /\ InKind("logger") \/ InKind("recovery")
  /\ Top.acts = 0
  /\ Next_(Top.ctx)

BuiltinReturns ==
  /\ InKind("logger") \/ InKind("recovery")
  /\ Top.acts > 0
  /\ stack' = Pop
  /\ UNCHANGED <<index, bound, status, wire, history>>

UserNext ==
  /\ InKind("user") \/ InKind("guard")
  /\ Top.acts < MaxActs
  /\ Next_(Top.ctx)

UserWrites(s) ==
  /\ InUserCode
  /\ Top.acts < MaxActs
  /\ WriteHeader(s)
  /\ stack' = Replace(Acted)
  /\ UNCHANGED <<index, bound, history>>

\* responseWriter.Write: the first one writes a 200 header.
UserWritesBody ==
  /\ InUserCode
  /\ Top.acts < MaxActs
  /\ IF Written THEN Unwritten ELSE WriteHeader(200)
  /\ stack' = Replace(Acted)
  /\ UNCHANGED <<index, bound, history>>

UserReturns ==
  /\ InUserCode
  /\ stack' = Pop
  /\ UNCHANGED <<index, bound, status, wire, history>>

\* The frames below the running one whose deferred function calls recover.
Catchers ==
  {k \in 1..Len(stack) :
     stack[k].frame = "mw" /\ Chain[stack[k].ctx][stack[k].i] \in {"recovery", "guard"}}

\* User code panics: the frames down to the nearest recover are gone.  recovery
\* writes 500 there and returns, a guard of the user's just returns.
UserPanics ==
  /\ InUserCode
  /\ IF Catchers = {}
     THEN /\ stack' = <<>> /\ escaped' = TRUE
          /\ Unwritten /\ UNCHANGED swallowed
     ELSE LET k == Max(Catchers) IN
          /\ stack' = SubSeq(stack, 1, k - 1)
          /\ \/ /\ Chain[stack[k].ctx][stack[k].i] = "recovery"
                /\ WriteHeader(500) /\ UNCHANGED swallowed
             \/ /\ Chain[stack[k].ctx][stack[k].i] = "guard"
                /\ Unwritten /\ swallowed' = TRUE
          /\ UNCHANGED escaped
  /\ UNCHANGED <<index, bound, entered, handled>>

-------------------------------------------------------------------------------
Step ==
  \/ CallMiddleware \/ MiddlewareReturned
  \/ DispatchRoute \/ NoRoute \/ NotFoundBehindLoop
  \/ CallHandler \/ SkipHandler \/ RunEnds
  \/ BuiltinNext \/ BuiltinReturns
  \/ UserNext \/ (\E s \in Statuses : UserWrites(s)) \/ UserWritesBody
  \/ UserReturns \/ UserPanics

\* The response is finished, the goroutine is gone.
Served == ~Running /\ UNCHANGED vars

Next == Step \/ Served

\* The goroutine keeps running: user code returns, by assumption.
Spec == Init /\ [][Next]_vars /\ WF_vars(Step)

-------------------------------------------------------------------------------
Enters(ctx, i) == entered'[ctx][i] > entered[ctx][i]

\* Calling Next, returning, doing both or panicking: a middleware is called at
\* most once per context, and never after one that stands behind it
\* (context.go:64-79, the index shared by nested Runs).
OnceInOrder ==
  [][\A ctx \in Ctx : \A i \in Positions(ctx) :
       Enters(ctx, i) => \A j \in Positions(ctx) : j >= i => entered[ctx][j] = 0]_vars

\* No route middleware and no handler runs before every global middleware was
\* called (design-http.md:30), although each Next skips an index: a second Next
\* finds the response written (context.go:82-91).
GlobalsBeforeRoute ==
  [][(handled' # handled \/ \E i \in Positions("route") : Enters("route", i))
       => \A i \in Positions("global") : entered.global[i] > 0]_vars

\* A request runs its handler at most once, however often middlewares call Next,
\* unless one of them swallows a panic and lets the loop go on (context.go:73-92).
HandlerAtMostOnce == ~swallowed => handled <= 1

\* No panic of user code leaves ServeHTTP: recovery is below every user frame
\* (http_server.go:61-62, recovery.go:116-139).
PanicContained == ~escaped

\* Every request ends with a status line on the wire (context.go:84-90, 147-149).
EventuallyAnswered == <>(~Running /\ wire # 0)

===============================================================================
