# A verification model of magicEngine

magicEngine is a small Go framework: an HTTP server with middlewares and a route
registry (`http/`), server-sent events (`sse/`), and a TCP server and client whose
callbacks run on a bounded executor (`tcp/`, and `execute/` of magicCommon, which is
vendored). This directory holds TLA+ models of its concurrent and stateful parts,
TLC configurations that check them on small instances, and TLAPS proofs of what
matters most for every instance. Paths below are relative to the repository.

## 1. Inventory

| Component | State | Operations | What is hard | What makes it correct |
|---|---|---|---|---|
| Route registry (`http/route.go`) | `currentApiVersion` (no lock), `routes`: method -> slice of routes, `routesLock` | `SetApiVersion`, `AddRoute`/`AddHandler`, `RemoveRoute`/`RemoveHandler`, `Handle`, `ExistRoute`/`ExistHandler` | `Handle` copies a slice header under the lock and scans the shared array outside it; `append` writes in place or moves; the version is read before the lock; panics under the lock | a request is routed by the table of one instant, by order of registration; no duplicates; removing one route leaves the others |
| Request pipeline (`http/context.go`, `http_server.go`, `logger.go`, `recovery.go`) | the index of each context, the status written, the call stack | `ServeHTTP`, `Run`, `Next`, middlewares, handler, `recover` | `Next` nests a `Run` that shares the index with the loop that called it; panics cross several frames | each middleware once and in order, globals before the route, handler at most once, no panic escapes, every request is answered |
| Middleware chains (`http/middleware_chains.go`) | slice of handlers, lock | `Append` (`Use`), `GetHandlers` | `GetHandlers` hands out the slice itself; `Append` writes into its array | a request runs the chain it started with |
| Response writer (`http/response_writer.go`) | `status`, `size` | `WriteHeader`, `Write`, `Flush` | a second `WriteHeader` | records what was sent |
| Pattern filter (`http/route.go:86-118`) | a regular expression | `NewPatternFilter`, `Match` | three rewriting passes | accepts the paths the pattern means |
| Static files (`http/static.go`) | the opened files of a request; the tree belongs to others | middleware, `StaticHandler`, `serveStaticFile` | a file, its fallback or the index of a directory are opened one system call after the other; deferred closes of a variable that changes | every file closed once, only open files served, one redirect, what is not served goes on |
| Embedded files (`http/embed_static.go`) | a cache shared by all requests | middleware, `findEmbedFile` | check, read and store are separate | the content of the file that was asked for |
| Reverse proxy (`http/proxy.go`) | one target URL and one `ReverseProxy` per route, shared | `proxyFun`, `ProxyHTTP`, Director | every request completes the URL with its own header and query and overwrites the error handler | requests and their errors stay apart |
| Upload (`http/upload.go`, `magicCommon/foundation/net/form.go`) | files in the upload directory | `uploadFun`, `MultipartFormFile` | a copy fails in the middle, or overlaps another one of the same name | a file is whole or its request refused |
| Executor (`execute.go`, vendored) | a buffered channel of places, `queueLength`, `activeCount`, mutex | `Run`, `Wait`, `WaitTimeout`, `WaitContext`, `Idle` | place and counters change in separate steps, in different order on the way in and out; tasks that call `Run` | never more than `capacitySize` tasks; a finished wait is true; every `Run` returns |
| TCP server and endpoints (`tcp/server.go`, `endpoint.go`) | `endpointMap`, per connection `observer` and a read buffer, neither locked | accept loop, `OnNewConnect`, `RecvData`, `SendData`, `Close`, three callbacks | callbacks are jobs on the executor the reader runs on, and may send themselves; `Close` and `SendData` run in other goroutines; EOF, reset and local close race | callbacks get their places in order, everything sent is delivered intact, nobody is called back behind a close, places come back |
| TCP client (`tcp/client.go`) | THE endpoint (no lock), an executor of ten places | `Connect`, `Close`, `SendData` | `Connect` from `OnDisConnect`, which blocks inside a reader; several live connections, one known endpoint; partial writes | a reader closes its own connection only, messages arrive whole, places come back |
| SSE server (`sse/server.go`) | `Holder`: `lastActive`, `masterFlag`; registry: id -> holder, one mutex for all | `Run`, `OnRecv`, `EchoSSEID`, `heartbeat`, `OnClose`, `GetHolder` | writers of one response in several goroutines; check-then-set of the master flag | heartbeats while a stream lives, whole frames, a client that is gone is found out and forgotten |
| SSE client (`sse/client.go`) | retry count and wait, last event id, cancel function | `Get`, `Post`, `Close`, `recvVal`, `handleRetry` | `Close` or cancellation between two attempts; retries | bounded retries, events in order over attempts and calls, a cancelled call ends |
| `env.go`, `errors.go`, `redirect.go`, `util.go`, examples | - | thin wrappers | - | - |

They interact by calls: `ServeHTTP` -> `requestContext.Run` -> `routeRegistry.Handle`
-> `routeContext.Run` -> handler, all in one goroutine per request, while other
goroutines change the registry and the chains; what a middleware does not answer goes
on to the next one, and behind the last to its route. Each TCP connection's reader and every
observer callback are jobs of one executor (`example/tcp/server/main.go:41-43`), so a
reader that announces something blocks in `Run` while it occupies a place itself, and so
does a callback whose `SendData` fails (`example/tcp/server/main.go:31`). The accept loop
is no job: it blocks in the same `Run` in the goroutine of its caller.

## 2. Modules

```
Routing  <-- RouteTable (abstract)        TaskPool (abstract)
   ^              ^ implements              ^ implements   ^ runs on
   +--- RouteRegistry                    Execute      EndpointManager
          ^                                 ^                ^
   RouteRegistry_proof               Execute_proof   EndpointManager_proof
   MC_RouteRegistry                  MC_Execute      MC_EndpointManager

RequestPipeline <-- MC_RequestPipeline      SseHolder         SseClient
            ^------ RequestPipeline_proof       ^                 ^
                                           SseHolder_proof   SseClient_proof

MiddlewareChains  StaticFiles  EmbedStatic     TaskPool (abstract)
ProxyRoute  UploadRoute  PatternFilter             ^ runs on
        \        |        /                     TcpClient
           Site  <-- MC_Site                       ^
             ^------ Site_proof             TcpClient_proof
```

A module `X_proof` extends `X` by its theorems, their inductive invariant and the lemmas
they rest on, and adds nothing to the model.

**RouteTable** is what a caller may rely on: a table in order of registration,
`Register` and `Unregister` in one step, and a request that is routed at one instant
(`Decide`) and told later (`Return`).

**RouteRegistry** is `http/route.go` with Go's slices spelled out. `arrays` maps an
address to the contents of a backing array (its length is the capacity, elements
never written are `Blank`), `routes` maps a method to a slice header, and `call` says
what each goroutine is doing. What the code does between `Lock` and `Unlock` is one
action; `Handle` is one step for the header and one step (`Match`) for each element
it compares outside the lock. `NewArray` may round the capacity up by any amount, as
`append` may, and an address is handed out again when nothing refers to it. While a
`SetApiVersion` is under way, an unlocked read of the two-word string may yield
anything, so `VersionRead` is any member of `Versions`. A route is identified by
version and pattern, which is all that `equalRoute`, `equalPattern` and `match` look
at; the compiled pattern is the set of paths it accepts (`Accepts`). A malformed
pattern and a duplicate panic and leave the table alone. `ExistRoute` and
`ExistHandler` change nothing and have no action.

**RequestPipeline** is one request: the stack of frames of its goroutine (`Run` of a
context, a middleware at a position, the handler), `index` shared by all frames of a
context, `status` as the wrapper records it and `wire` as the client gets it. `Run`'s
loop is three places: `loop` (before the test of the index), `called` (a middleware is
running above) and `tail` (the registry or the handler is). A user's middleware or
handler may do up to `MaxActs` things, in any order: call `Next`, write a header,
write a body, panic, return. A *guard* is a user's middleware that recovers panics
itself; the built-in recovery writes a 500. A handler reached through the registry is
one that `RouteRegistry` decided on: here the decision is free (`DispatchRoute` or
`NoRoute`). Middlewares do not call `ctx.Run` directly, and informational (1xx)
statuses are left out.

**TaskPool** is what users of the executor see: a task waits, occupies one of
`Capacity` places, leaves. **Execute** is the code: `Submit` (a call of `Run` reaches
the channel), `Acquire` (the send), `Start` (the counters and the `go` statement),
`Finish`, `Release` (the receive), `CountOut`. A task may submit others and then does
nothing else until `Run` returns. A waiter polls `activeCount`.

**EndpointManager** is the TCP server on a `TaskPool`. Jobs are readers (one per
connection, submitted by the accept loop) and callbacks (`OnConnect`, `OnRecvData` of
the n-th piece, `OnDisConnect` from `RecvData` and from `SendData`). `reader[c]` is
the place of a reader in `RecvData`; the test `s.observer != nil` and the call after it
are two steps, because `Close` may set the field to nil in between (the call then
panics, or goes on with a value kept from the test: both are possible outcomes of the
race). `pulled` is what bufio took from the socket and `taken` what `Read` returned, so
that pieces may arrive singly or in batches. The buffer holds the piece read last, and
a data job looks at it when it runs. A piece is what one `Read` returns; how TCP cuts
the stream is not modelled. Each connection has a key of its own in `endpointMap`.
`Close`'s two assignments are one step; the branches for a nil sink or observer are
left out. `SendData` is called by a goroutine of the user's, for the connections in
`Kept`, and by `OnRecvData` of any piece, as the example's observer does; the other
callbacks do not send. One that fails goes on as the code does (`SendChecks`,
`SendGoodbye`, `SendPanics`): inside a callback it calls `OnDisConnect` and `Run` while
the callback holds its place (`InSend`), and the callback ends behind it. A `SendData`
that succeeds changes nothing here (it does in TcpClient), and its `Write` is assumed to
return. A user's goroutine that calls a nil observer is assumed to recover from the
panic, which otherwise ends the program; in a callback the executor recovers. How often
the end of a connection is announced is as the code has it: once by `RecvData` at EOF,
once more by each failed `SendData` (`endpoint.go:130-132`), and not at all when a read
fails with any other error (`endpoint.go:159`), after which the entry stays in
`endpointMap`.

**TcpClient** is `tcp/client.go` with the same endpoints, whose observer is called
directly. Each `Connect` makes a connection, stores it as `endpoint` (`StoreEndpoint`)
and blocks in `Run` until its reader has a place. A caller of `Connect` is the user's
goroutine or a reader inside `OnDisConnect`, which is how a client reconnects; then the
lost connection keeps its place until the new one has got one. `SendData` loops over
`Write`s that take any part of the rest; one fails on a socket that is closed, or on one
whose peer has gone, which takes nothing more from then on (`Write`, `WriteFails`); what
`Close` does in between is a closed socket and an observer that is nil. A goroutine of the user's
that reads `observer` twice around a `Close` panics and is `over`. `Connect` from
`OnConnect` or `OnRecvData`, and a client without an observer, are left out.

**SseHolder** is one response and its `Holder`: calls of `Run` with their tasks and
heartbeat loops, goroutines that got the holder from the registry, and the registry's
entry. Reading `masterFlag` (`CheckMaster`) and setting it (`BecomeMaster`) are two
critical sections in the code and two actions here, so two loops may run at once. The
flag is never reset: a `Run` after the master's end calls its task without a heartbeat.
`OnRecv` with an event name is two writes, `EchoSSEID`, `heartbeat` and an unnamed
event one; `lastActive` is set before them. A failed write takes the holder out of the
registry (`CloseAfterError`). `tick[r]` is the one-place channel of a ticker, and
`select` may take either case when `done` is closed as well. One `Tick` serves all
loops; `Flush` is left out. `broken` says that the client is gone: a write may still
succeed then, since TCP buffers it, or fail.

**SseClient** is one `Get` or `Post`: the loop of attempts, the reading of lines, and
`Close` and the cancellation of the context by other goroutines. It keeps what the code
does where a reader may expect something else: `handleRetry` and the loop both count a
retry, so that about half of `maxRetries` are made; `recvVal` returns nil when its
context is cancelled; `Close` between two attempts finds no cancel function and does
nothing, and during one it ends that attempt alone. The server is external: it gives
each event an id, goes on behind the `Last-Event-ID` it is told, and may stop anywhere.
An event without an id empties `lastEventID`, so that the next attempt begins with the
first event again (`WithId`); a call that follows another one keeps the id
(`CallAgain`). `retry:` lines and the length of the wait are left out, and so are two
calls on one client at the same time.

**Site** is a server with several requests in flight. `phase[r]` says who has a request:
the middlewares, a component, nobody any more. It composes by `INSTANCE` the components
that answer, which share nothing but `answer`:

- **MiddlewareChains**: slices of `chainsImpl.handlers` over arrays, as in RouteRegistry,
  here with Go's own growth: the array of the beginning ends at the next power of two
  behind the built-in handlers (`Room`), and a full one is replaced by one of twice its
  length. A request keeps the slice of its beginning and calls
  through it, element by element, while `Use` appends.
- **StaticFiles**: `serveStaticFile` in the steps between which the tree may change.
  `handles` are the files it opened with how often each was closed, `open` the one in
  `openFile`, `deferred` what the deferred calls were given. Paths are what `PrefixUri`
  and `ExcludeUri` tell apart; `glued` is text behind the prefix without a slash, which
  the middleware declines and `StaticHandler` does not.
- **EmbedStatic**: the cache of `findEmbedFile`, whose `Load`, `Stat`, `ReadFile` and
  `Store` are steps of their own.
- **ProxyRoute**: the target URL of a route and the `ErrorHandler` of its
  `ReverseProxy`, which all requests share, with the header and the query that each
  brings. `httputil` is external: it calls the Director, then passes an answer
  through, whole or cut, or calls the error handler of the moment (`Handled`): that of
  proxyFun, httputil's own (502) if none was set, or the one that the caller of
  `ProxyHTTP` gave, which may answer what it likes (`custom`) or nothing. A URL that does not parse makes a
  route that writes nothing, and its requests are answered 204. A cut answer ends in a
  panic with `http.ErrAbortHandler`, which the recovery middleware swallows.
- **UploadRoute**: pieces of files by handles with offsets of their own. Whatever fails
  before `os.Create` is one action (`FormFails`). The form is read from the client
  (`parse`), without a timeout. A `Close` that fails (`form.go:57`) is left out.
- **PatternFilter**: what `NewPatternFilter` makes of a pattern, a sequence of tokens,
  and which match a leftmost-first regular expression prefers (`Preferred`, evaluated
  from the back), against `Means`, which compares segments. Letters are abstract; a
  `.` in a pattern, which the expression takes for any letter, is left out, like all
  other characters of regular expressions and segments that mix letters and a parameter.

A middleware of Site calls `Next` when it does not answer and returns otherwise; one that
has written nothing hands the request on, by `Next` or by the loop of `Run` (`Resume`).
What else it might do is RequestPipeline's subject. Likewise the table of routes is given
here and changes in RouteRegistry.

## 3. Runs

| Run | Instance | Shows |
|---|---|---|
| `registry` | 2 callers, methods `GET` and `get` (both requested as GET), versions v0 and v1, a good and a malformed pattern, 2 paths, at most 3 routes per method | `TypeOK`, `ArraysOwned`, `NoDuplicateRoutes`, `SnapshotFrozen`, and that the registry implements `RouteTable` (`RoutedAtOneInstant`) |
| `registry_remove` | 1 caller | **violation** of `RemoveKeepsOthers`: removing a route that is not there removes all routes of its method (`route.go:249-265`) |
| `pipeline` | globals user, guard, user behind logger and recovery; route middlewares guard, user; 2 acts each | each middleware once and in order, globals before the route, handler at most once unless a guard swallowed a panic, no panic escapes, every request answered |
| `executor` | 4 tasks, one of which another submits, 2 places, a waiter | counters exact at every step, a drained wait is true, the executor is a `TaskPool`, every `Run` returns |
| `endpoints` | 2 connections on 4 places, 1 piece in all, sent back by its callback; 1 endpoint that the user keeps (126,042 states) | callbacks get their places in order without gaps; behind a close nobody is called back but by who was past the check; delivery, progress of callbacks, places come back |
| `endpoints_starved` | the same on 3 places | **violation** of `CallbackProgress`: two readers and a callback whose `SendData` failed hold all places and wait for another one (`execute.go:50`) |
| `endpoints_payload` | 1 connection, 2 pieces | **violation** of `PayloadIntact`: the buffer is reused (`endpoint.go:163`) |
| `sse_holder` | 2 calls of `Run`, 1 sender, 1 event each, heartbeat after more than 1 tick (338,076 states) | a client that is there is never left in silence for long; one that went away while a loop ran is found out and its holder forgotten, whoever else is silent; every `Run` whose task is over returns and leaves no loop behind |
| `sse_frames` | 1 call of `Run`, heartbeat after more than 2 ticks | **violation** of `FramesWhole`: a heartbeat gets between the lines of a frame (`sse/server.go:68`) |
| `sse_client` | `maxRetries` 4, 3 events of which the last has no id, 2 calls | events in order over broken attempts and calls, repeated only behind an event without an id; bounded retries; a cancelled call returns; `Close` ends the attempt |
| `site` | 2 requests: for the embedded files, the proxy or uploads both; for static files, a static handler or the route table one; `Use` twice, 1 change of the tree, 9 patterns against all 84 paths of up to 3 segments of 4 kinds, 1 dynamic value and its absence, 2 file names, 2 pieces (258,804 states) | see below |
| `tcp_client` | 3 connections on 2 places, 1 message of 2 pieces | a reader closes its own connection only; messages arrive whole and in order; a `Connect` waits for ever only while every place is taken, one of them by a connection that lives; places come back |

`site` shows that a request runs exactly the middlewares that were there when it began
(`RunsWhatWasUsed`); that each filter accepts the paths its pattern means, segment by
segment, and the first such route is taken (`RoutedAsMeant`), for literals, parameters
and wildcards that compete;
that every opened file is closed exactly once, also behind the index of a directory
and that what is served is open and no directory although the tree changed
(`HandlesClosed`); that a client is redirected at most once (`OneRedirect`);
that who asks for an embedded file gets that one, and who asks for something else is
passed on, whatever the cache holds (`EmbedServesFiles`);
that a request is forwarded with its own header and query (`ForwardedAsMeant`) and an
upstream failure is answered to the request that met it, by the handler that its route or
the caller of `ProxyHTTP` has for it (`OwnError`); that a file is whole when its upload was
answered 200 (`UploadedIsWhole`); and that every request is answered in the end, unless it
waits for an upstream server or for the form of its client for ever (`Arrives`).

What the properties do not say. `StartedInOrder` is about places: goroutines that have
theirs may overtake each other, so that data may be handled before its connect.
`QuietBounded` and `DeadIsForgotten` claim nothing while no heartbeat loop runs, so a later
`Run` on a holder, which has none (against the comment at `sse/server.go:152`), is not
noticed. `RetriesBounded` is an upper bound and does not count that only half of
`maxRetries` are made; the nil that a cancelled `Get` returns and a `Close` between two
attempts are in the model and contradict no property. `ConnectGetsPlace` is about fewer
connections than twice the places; with twice as many, all readers may reconnect at once
and wait for each other for ever, and TLC finds that at once when the precondition is
dropped and two connections share one place. `UploadedIsWhole` excepts uploads that
overlapped, which may mix their pieces and are both answered 200.

`RouteRegistry` and `Execute` state `TypeOK`; for the other modules it is stated and
proved in `X_proof`, where the inductive invariant needs it.

Two things that the documents say and the code does not keep are not among the runs:
`design-http.md:32` lets the chain stop once a response is written, but an explicit
`Next` after a write runs the middleware behind it (`context.go:64-76`); and
`tcp_test.go:178` expects one disconnect per connection, see EndpointManager above.

**Bounds.** Two callers are enough for every race of the registry: one scan against one
writer, or two writers, one of which holds a stale version; 3 routes per method leave
arrays that are full, have room, and are replaced. Five addresses are one more than
two methods and two scans can hold. `HasRoom` keeps a route from being started when
there would be no place for it, so the bound never stops the system. Two acts per
middleware are what the questions need: `Next` and write, write and `Next`, `Next`
twice, either and panic. Four tasks on two places fill the channel, make a sender
wait behind a task that itself submits, and leave the counters behind. In the
endpoint runs two readers and the callback that sends can wait inside their places at
the same time: on four places one is left for what they wait for, and all callbacks
compete for it; on three none is. Two calls of `Run` are needed for two heartbeat loops
and enough for one after the master's end; `LongAgo` is `Timeout + 2`, above which no
guard tells ticks apart. Four retries, counted in twos, give three attempts, which can
break inside the first, the second and the last one of the events, and before or
behind the one that has no id. In `site` two requests are what a shared URL, cache,
array or file needs to go wrong, and one value is enough, since a request that brings it and
one that does not differ already; requests for different things share only the
middlewares, so that pairs of a kind are enough; one request for the tree, whose
components share nothing between requests, meets every change between any two of its
steps. Two appends to three built-in handlers write once in place and once into a new
array. Redirects are counted up to two. In `tcp_client` three connections let a replaced
one end while two live, and let a reader that reconnects wait for a place behind others
that keep theirs.
`registry` uses symmetry of callers and addresses (its properties are safety only) and
a view without the contents of unreachable arrays. The TCP runs and `site` switch deadlock
checking off: when all peers have come and gone, or all requests are over, the system
rests.

**Fairness.** `RequestPipeline` assumes that the goroutine of the request runs on, which
includes that user code returns after its acts. `Execute` assumes weak fairness of each
started task: the Go scheduler runs every goroutine and a channel serves its senders in
order; that a *user* submits is not assumed. `EndpointManager` assumes only that some
goroutine moves while one can, which includes that callbacks end and that the `Write` of
a `SendData` returns (a peer that is there and never reads could hold it up), and
nothing about peers or users; because all its jobs are finite in number this is enough,
and it holds under any scheduling. `SseHolder` assumes weak fairness of the goroutines
of each `Run` and of each writer, not that a task ends, and strong fairness of the
failure of writes to a client that is gone: some may succeed into a buffer, but not one
after the other for ever, since TCP fills its buffer or is answered by a reset. `Tick`
happens only when nothing is being written and no tick or `done` is pending, that is,
the work of a second is finished within it. `SseClient` assumes it of the client's own
steps (`ClientStep`); the server need not answer, and a request or a read whose context
is cancelled ends, as `net/http` promises. `TcpClient` assumes what `EndpointManager`
does, of the program's own steps; its observer's callbacks return. `Site` assumes that
the goroutine of each request runs on and that clients take their answers and follow
redirects, but nothing while it reads from the network (`Waiting`): the answer of an
upstream server, or the form of an upload, both without a timeout (`proxy.go:155`,
`upload.go:76`, `http_server.go:87`). `Arrives` excepts a request that waits so for
ever, and no other one.

## 4. Proofs

Every safety property of a passing run but `RoutedAsMeant` is a theorem, for every value
of the constants that the assumptions of its module allow (any numbers of callers,
requests, connections, middlewares, events, places, names, versions; the bounds that
stop a counter may be any number). The argument is the same everywhere: an invariant
`IInv` holds initially and is kept by every action, one step or lemma of the proof for
each, and implies the property. Each `IInv` was first an invariant of a TLC run of its
module.

| Module | Theorems |
|---|---|
| `RouteRegistry_proof` | `TypeCorrect` (`TypeOK`), `ArraysStayOwned` (`ArraysOwned`), `RoutesStayUnique` (`NoDuplicateRoutes`), `ScansAreFrozen` (`SnapshotFrozen`), `RoutingIsAtomic` (`RoutedAtOneInstant`) |
| `Execute_proof` | `TypeCorrect` (`TypeOK`), `PlacesAccounted` (`Accounted`), `DrainedIsTrue` (`WaitMeansDrained`), `ExecuteImplementsPool` (`ImplementsPool`) |
| `RequestPipeline_proof` | `HandledOnce` (`HandlerAtMostOnce`), `PanicsAreContained` (`PanicContained`), `CalledOnceInOrder` (`OnceInOrder`), `GlobalsFirst` (`GlobalsBeforeRoute`), `ReturnsAnswered` |
| `EndpointManager_proof` | `CallbacksInOrder` (`StartedInOrder`), `CloseSilences` (`ClosedIsSilent`) |
| `SseHolder_proof` | `SilenceEnds` (`QuietBounded`) |
| `SseClient_proof` | `EventsStayInOrder` (`EventsInOrder`), `RetriesStayBounded` (`RetriesBounded`), `TypeCorrect` |
| `TcpClient_proof` | `OwnersClose` (`ClosedByOwner`), `MessagesStayWhole` (`SentWhole`) |
| `Site_proof` | `ChainsRunWhatWasUsed` (`RunsWhatWasUsed`), `FilesAreClosed` (`HandlesClosed`), `RedirectedOnce` (`OneRedirect`), `EmbeddedAreServed` (`EmbedServesFiles`), `ProxiedApart` (`ForwardedAsMeant`), `ErrorsAreOwn` (`OwnError`), `UploadsAreWhole` (`UploadedIsWhole`), `HandedToFirst` |

**Registry.** `IInv == TypeOK /\ ArraysOwned /\ NoDuplicateRoutes`. `ArraysOwned` is what
makes the unlocked scan safe: no two methods share a backing array, and a scan of an
array that a method still appends to has a length not above that method's, so `append`
writes where no scan looks, and removal only ever fills an array nobody refers to.
`NoDuplicateRoutes` needs it, since an append for one method must not show up under
another. There is a lemma for each way a slice is stored (`FreshSlice`, `NilSlice`,
`GrownSlice`). *Refinement*: a request is decided when its slice header is copied; what
it is decided to is the first match of what that slice shows (`Decision`), or the route
it was told. Nobody changes what the slice shows (`FrozenContents`), and nothing that the
scan has passed accepts the path (`Passed`), so the match it stops at is that decision
(`ScanDecided`). Then `Handle` maps to `Decide`, the return to `Return`, an addition or
removal to `Register` or `Unregister`, and every comparison and read of the version to a
stutter.

**Executor.** The invariant counts the tasks at each place: `slots` is the number of tasks
between taking and returning a place, both counters the number between `Start` and
`CountOut`. A task that was started before the waiter began stays counted until it is
done, which is `DrainedIsTrue`; and `slots < Capacity` together with the count gives the
guard of `TaskPool!Occupy`.

**Pipeline.** The invariant describes the call stack: a middleware lies on a `Run` that is
behind its call, the handler on the tail of the route's `Run` (`Shape`), and the first
four frames are `Run`, logger, `Run`, recovery, until the request is answered (`Floor`).
So whatever panics has recovery below it, and a `Run` that goes on after recovery is gone
finds the request written and stops: this is why no panic escapes, and why nobody is
called twice by the two loops that share an index. For the order, nothing behind the
index was entered (`NothingBehind`), nothing before it was left out while nothing is
written (`NothingSkipped`), and frames of the route come after all global ones were
entered (`RouteLast`). Who called the handler answers before any loop goes on
(`HandledOK`), except when a guard swallowed a panic. `ReturnsAnswered` is the safety half
of `EventuallyAnswered`.

**Endpoints.** `StartedInOrder` speaks of what the executor started; the invariant relates
it to what the reader has submitted (`Asked`), which is everything up to where it is
while the observer is there (`NoGap`), and to the end of the file (`AtTheEnd`).
`ClosedIsSilent` speaks of steps: behind a close the observer is nil (`Silenced`), and each
action either leaves alone who is past the check and who was called back (`NobodyMoves`,
`OthersApart`), or takes one of those past the check to the call (`ReaderLeaves`,
`SenderLeaves`).

**Holder.** `lastActive` is set before the write it stands for, so the client has heard
something since, or somebody is writing (`ActiveSince`); and a loop that waits for its
next tick found no silence at the last one, or ended it, or began since
(`LoopsLookedUp`). Without the second part a loop might let one tick too many pass.

**SSE client.** The retry counter pays for attempts, two for each but the first
(`AttemptsCounted`). For the order the invariant says what the client remembers
(`RemembersLast`) and that the server, while it is read, is behind that event or at the
first one again (`ReadsOn`).

**TCP client.** A connection that takes more has whole messages and the beginning of the
one under way (`WholeSoFar`), which `SentWhole` alone does not say. This proof failed at
first for a reason: `WriteFails` left the connection as it was, and a later message
would have begun in the middle of an earlier one, which the run, with its single
message, did not show and the theorem, for any number of them, had to. A write fails on an open socket because the peer is gone, so that nothing is
written behind it; the model says that now.

**Site.** The components share `answer`, and a request wanders through several of them;
`Turn` says that a component works on a request only while it has it, and that one that
is still handed on has no answer. Beside it, each component has its own part.
`ChainsOK`: every slice that a request holds shows what was used first, which an append
in place cannot disturb since it writes behind all of them. `FileOK`: the files opened
are those whose closing is deferred, and none is closed before. `CacheOK`: the cache has
what the file system has. `ProxyOK`: the shared URL is never written, and a request waits
for its answer with a copy that it completed itself. Behind the first
request of a route its `ErrorHandler` is always one that proxyFun set, so that what answers
a failure is the route's, whoever set it last. `Single`: while uploads of a name do not
overlap, one request wrote all of its file. `RoutedAsMeant` rests on an induction over
patterns and paths that the provers cannot do (below). What is proved of it, without any
hypothesis, is `HandedToFirst`: a request gets the first route whose filter matches, and
404 only when none does. That the filters match what the patterns mean is what the run
`site` finds for all its patterns and paths.

**Assumptions** are those at the CONSTANTS of each module, which TLC evaluates for the
runs: sets are finite where tasks or requests are counted, bounds are numbers, markers
such as `Blank` and `Own` are none of the values they are told from. Two deserve a word.
`SiteAssumption` names the middlewares apart, so that `ran` can tell who was called; it
keeps the names of embedded files apart from the other answers, which share a variable.
`PipelineAssumption` allows any middlewares of the server and of a route, behind the
built-in ones that `NewHTTPServer` puts first.

**Only model-checked**, and why: liveness under fairness (`EventuallyAnswered`,
`RunReturns`, `Delivered`, `CallbackProgress`, `PlacesReturned`, `DeadIsForgotten`, `RunsReturn`,
`CancelEnds`, `CloseEndsAttempt`, `ConnectGetsPlace`, `PlaceReturned`, `Arrives`), because
the prover has no rules for fairness and ENABLED; that `Match` and `Means` agree for
every pattern and path, because it is an induction over two recursive functions; and of
course the four violations.

## 5. Plan

1. Registry, executor, pipeline, endpoints, SSE: done.
2. Middleware chains, pattern filter, static and embedded files, proxy, upload and
   their composition, the TCP client: done.
3. Theorems for every safety property of the runs but `RoutedAsMeant`, and for both
   refinements: done (this state).
4. What may follow: lemmas of `PatternFilter` that need no induction (patterns of one
   segment); `TaskPool`'s own invariant, which `EndpointManager` and `TcpClient` use of
   it; the two-call case of the SSE client, which is left out of the model.

## 6. Not modelled

Environment, error values and utilities (read once, or stateless); redirect routes
beyond their answer; logging, the stack traces of recovery, metrics of the response
size; HTTP caching headers and content types; `newReverseProxy`, which nobody calls, and
`rewriteURL`, which chooses between two equal Directors; `ExistRoute`, `ExistHandler`
and the other readers that change nothing; two calls at once on one SSE client; what
the examples print; all other vendored code. The old content of a file is lost when an
upload to its name fails: the model keeps that, and nothing in the repository says it
should not be so.
