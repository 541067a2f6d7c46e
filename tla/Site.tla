---------------------------------- MODULE Site ----------------------------------
(***************************************************************************)
(* Requests in flight at one httpServer: each is served by a goroutine of  *)
(* its own, walks the middlewares it began with, may be answered by one of *)
(* them (static files, embedded files), and reaches its route otherwise.   *)
(* What they share is in the components: the array behind the middlewares, *)
(* the file tree, the cache of embedded files, the target and the proxy of *)
(* a route, the upload directory.                                          *)
(*                                                                         *)
(* RequestPipeline has what one request can do to itself (Next, panics),   *)
(* RouteRegistry how the table of routes changes; here a middleware calls  *)
(* Next when it has not answered, and the table is given.                  *)
(***************************************************************************)
EXTENDS SequencesExt

CONSTANTS
  Requests, Mixes,                     \* Mixes: what the requests are for
  Table,                               \* the routes: what is where, by pattern
  PathsFor,                            \* the paths of requests that are for something
  Builtin, Later, Blank,               \* MiddlewareChains
  Page, Fallback, MaxChanges,          \* StaticFiles
  EmbedNames, EmbedKind,               \* EmbedStatic
  Values, Own,                         \* ProxyRoute
  FileNames, Old, MaxPieces            \* UploadRoute

\* What a request is for: the middleware or the route that would answer it; "none" is
\* a request that nobody sends.
For == {"static", "files", "embed", "proxy", "upload", "redirect", "none"}

Asked == UNION {PathsFor[what] : what \in For}
RoutedTo == {"files", "proxy", "upload", "redirect"}

\* What may be written but the content of embedded files, which are their own content.
Outcomes ==
  {"none", "next", "content", "302", "404", "500", "502", "custom", "303", "204", "proxied",
   "cut", "200", "400"}

VARIABLES
  isFor,      \* what a request is for
  path,       \* its path
  accepting,  \* the routes whose filters accept that path
  routed,     \* history: the route that it was handed to, 0 for none
  phase,      \* "new", "chain", the component that has it, or "over"
  answer,     \* the first thing that was written, "next" on the way, "none" before
  arrays, handlers, used, chain, ran,
  tree, changes, file, asks, hops,
  staticFileInfo, lookup, wants,
  targetURI, errorHandler, brings, proxy, target, sent, failed,
  disk, names, upload, written, overlapped

Chains == INSTANCE MiddlewareChains
Static == INSTANCE StaticFiles
Embed == INSTANCE EmbedStatic
Proxy == INSTANCE ProxyRoute
Upload == INSTANCE UploadRoute
Filter == INSTANCE PatternFilter

ASSUME SiteAssumption ==
  /\ Mixes \subseteq [Requests -> For]
  /\ Table \in Seq([pattern : Seq(Seq(STRING)), to : RoutedTo])
  /\ EmbedNames \cap (Outcomes \cup {"nothing"}) = {}
  /\ Chains!ChainsAssumption /\ Static!StaticAssumption /\ Embed!EmbedAssumption
  /\ Proxy!ProxyAssumption /\ Upload!UploadAssumption

chainVars == <<arrays, handlers, used, chain, ran>>
staticVars == <<tree, changes, file, asks, hops>>
embedVars == <<staticFileInfo, lookup, wants>>
proxyVars == <<targetURI, errorHandler, brings, proxy, target, sent, failed>>
uploadVars == <<disk, names, upload, written, overlapped>>
request == <<isFor, path, accepting>>
vars == <<request, routed, phase, answer, chainVars, staticVars, embedVars, proxyVars, uploadVars>>

-------------------------------------------------------------------------------
\* The routes whose filters accept a path.
Accepting ==
  [p \in Asked |-> {i \in DOMAIN Table : Filter!Match(Table[i].pattern, Filter!Text(p))}]

Needs(what, r) == isFor[r] \in what
NobodyNeeds(what) == \A r \in Requests : ~Needs(what, r)

Init ==
  /\ isFor \in Mixes
  /\ path \in {p \in [Requests -> Asked] :
                 \A r \in Requests : p[r] \in PathsFor[isFor[r]]}
  /\ accepting = [r \in Requests |-> Accepting[path[r]]]
  /\ routed = [r \in Requests |-> 0]
  /\ phase = [r \in Requests |-> IF Needs({"none"}, r) THEN "over" ELSE "new"]
  /\ answer = [r \in Requests |-> "none"]
  /\ Chains!ChainsInit
  /\ Static!StaticInit
  /\ Embed!EmbedInit
  /\ Proxy!ProxyInit
  /\ Upload!UploadInit
  \* A component that nobody needs begins in one state only.
  /\ NobodyNeeds({"static", "files"}) => tree = [n \in Static!Names |-> "absent"]
  /\ NobodyNeeds({"embed"}) => wants = [r \in Requests |-> CHOOSE n \in EmbedNames : TRUE]
  /\ NobodyNeeds({"upload"}) =>
       /\ disk = [n \in FileNames |-> <<>>]
       /\ names = [r \in Requests |-> CHOOSE n \in FileNames : TRUE]

Enters(r, from, to) == phase[r] = from /\ phase' = [phase EXCEPT ![r] = to]

\* ServeHTTP takes the middlewares.
ServeHTTP(r) ==
  /\ Enters(r, "new", "chain")
  /\ Chains!GetHandlers(r)
  /\ UNCHANGED <<request, routed, answer, staticVars, embedVars, proxyVars, uploadVars>>

\* Run calls the next middleware; those that the request is not for call Next.
CallMiddleware(r) ==
  /\ phase[r] = "chain"
  /\ Chains!CallHandler(r)
  /\ LET h == Chains!NextHandler(r) IN
     \/ /\ h = "static" /\ Needs({"static"}, r)
        /\ Enters(r, "chain", "static")
        /\ Static!Begin(r, "middleware")
        /\ UNCHANGED embedVars
     \/ /\ h = "embed" /\ Needs({"embed"}, r)
        /\ Enters(r, "chain", "embed")
        /\ Embed!Serves(r) \/ Embed!PassesOn(r)
        /\ UNCHANGED staticVars
     \/ /\ ~(h \in {"static", "embed"} /\ Needs({h}, r))
        /\ UNCHANGED <<phase, answer, staticVars, embedVars>>
  /\ UNCHANGED <<request, routed, proxyVars, uploadVars>>

\* Nothing was written to the response so far.
Unwritten(r) == answer[r] \in {"none", "next"}

\* A middleware has returned: with nothing written the request goes on to the next one,
\* called by Next or by Run's loop, else it is answered.
Resume(r) ==
  /\ \/ phase[r] = "static" /\ Static!At(r, "done") /\ isFor[r] = "static"
     \/ phase[r] = "embed" /\ lookup[r] \in {"done", "declined"}
  /\ IF Unwritten(r)
     THEN Enters(r, phase[r], "chain") /\ UNCHANGED chainVars
     ELSE Enters(r, phase[r], "over") /\ Chains!Forget(r)
  /\ UNCHANGED <<request, routed, answer, staticVars, embedVars, proxyVars, uploadVars>>

\* routeRegistry.Handle: the first route whose filter accepts the path.
FindRoute(r, i) ==
  /\ i = Min(accepting[r])
  /\ Chains!Forget(r)
  /\ routed' = [routed EXCEPT ![r] = i]
  /\ UNCHANGED request

\* Behind the middlewares: the handler of the route.
CallRoute(r) ==
  /\ phase[r] = "chain" /\ Chains!ChainDone(r)
  /\ \E i \in accepting[r] :
      /\ FindRoute(r, i)
      /\ \/ /\ Table[i].to = "files"
            /\ Enters(r, "chain", "static")
            /\ Static!Begin(r, "handler")
            /\ UNCHANGED <<embedVars, proxyVars, uploadVars>>
         \/ /\ Table[i].to = "proxy"
            /\ Enters(r, "chain", "proxy")
            /\ Proxy!BeginProxy(r)
            /\ UNCHANGED <<staticVars, embedVars, uploadVars>>
         \/ /\ Table[i].to = "upload"
            /\ Enters(r, "chain", "upload")
            /\ Upload!BeginUpload(r)
            /\ UNCHANGED <<staticVars, embedVars, proxyVars>>
         \/ /\ Table[i].to = "redirect"
            /\ Enters(r, "chain", "over")
            /\ answer' = [answer EXCEPT ![r] = "303"]
            /\ UNCHANGED <<staticVars, embedVars, proxyVars, uploadVars>>

\* http.NotFound.
NoRoute(r) ==
  /\ phase[r] = "chain" /\ Chains!ChainDone(r)
  /\ accepting[r] = {}
  /\ Enters(r, "chain", "over")
  /\ Chains!Forget(r)
  /\ answer' = [answer EXCEPT ![r] = "404"]
  /\ UNCHANGED <<request, routed, staticVars, embedVars, proxyVars, uploadVars>>

\* A handler has returned; Run writes 204 when it wrote nothing.
HandlerReturns(r) ==
  /\ \/ phase[r] = "static" /\ Static!At(r, "done") /\ isFor[r] = "files"
     \/ phase[r] = "proxy" /\ proxy[r] = "done"
     \/ phase[r] = "upload" /\ upload[r] = "done"
  /\ Enters(r, phase[r], "over")
  /\ answer' = [answer EXCEPT ![r] = IF Unwritten(r) THEN "204" ELSE @]
  /\ UNCHANGED <<request, routed, chainVars, staticVars, embedVars, proxyVars, uploadVars>>

\* The client of a request that was answered 302 asks for what it was told to.
FollowRedirect(r) ==
  /\ answer[r] = "302"
  /\ Enters(r, "over", "new")
  /\ answer' = [answer EXCEPT ![r] = "none"]
  /\ file' = [file EXCEPT ![r] = Static!Closed("idle")]
  /\ routed' = [routed EXCEPT ![r] = 0]
  /\ UNCHANGED <<request, chainVars, tree, changes, asks, hops, embedVars, proxyVars,
                 uploadVars>>

InComponent(r) ==
  \/ /\ phase[r] = "static" /\ Static!StaticStep(r)
     /\ UNCHANGED <<request, routed, phase, chainVars, embedVars, proxyVars, uploadVars>>
  \/ /\ phase[r] = "embed" /\ Embed!EmbedStep(r)
     /\ UNCHANGED <<request, routed, phase, chainVars, staticVars, proxyVars, uploadVars>>
  \/ /\ phase[r] = "proxy" /\ Proxy!ProxyStep(r)
     /\ UNCHANGED <<request, routed, phase, chainVars, staticVars, embedVars, uploadVars>>
  \/ /\ phase[r] = "upload" /\ Upload!UploadStep(r)
     /\ UNCHANGED <<request, routed, phase, chainVars, staticVars, embedVars, proxyVars>>

\* The goroutine of a request.
Serve(r) ==
  \/ ServeHTTP(r) \/ CallMiddleware(r) \/ Resume(r) \/ CallRoute(r) \/ NoRoute(r)
  \/ HandlerReturns(r) \/ InComponent(r)

\* Once every request has left the middlewares, none can tell.
Use ==
  /\ \E r \in Requests : phase[r] \in {"new", "chain", "static", "embed"}
  /\ Chains!Use
  /\ UNCHANGED <<request, routed, phase, answer, staticVars, embedVars, proxyVars, uploadVars>>

ChangeTree ==
  /\ \E r \in Requests : Needs({"static", "files"}, r) /\ phase[r] # "over"
  /\ \E n \in Static!Names, k \in Static!Kinds : Static!TreeChanges(n, k)
  /\ UNCHANGED <<request, routed, phase, answer, chainVars, embedVars, proxyVars, uploadVars>>

Next == Use \/ ChangeTree \/ \E r \in Requests : Serve(r) \/ FollowRedirect(r)

\* The server reads from the network, without a timeout: what a proxy forwards and what it
\* is answered, or the form of an upload.
Waiting(r) ==
  \/ phase[r] = "proxy" /\ proxy[r] = "sent"
  \/ phase[r] = "upload" /\ upload[r] = "parse"

\* The goroutine of a request runs on, clients take their answers and follow redirects;
\* nothing is assumed of those it reads from, of who calls Use or changes the tree.
Fairness ==
  \A r \in Requests : WF_vars(~Waiting(r) /\ Serve(r)) /\ WF_vars(FollowRedirect(r))

Spec == Init /\ [][Next]_vars /\ Fairness

-------------------------------------------------------------------------------
Meaning == [p \in Asked |-> {i \in DOMAIN Table : Filter!Means(Table[i].pattern, p)}]

\* The filters accept the paths that the patterns mean, segment by segment, although they
\* take the preferred match of a regular expression that is not anchored and ask whether
\* that is the whole path; and a request is handed to the first route whose pattern means
\* its path, and to 404 when none does (route.go:91-118, 283-288).
RoutedAsMeant ==
  \A r \in Requests :
    LET meant == Meaning[path[r]] IN
    /\ accepting[r] = meant
    /\ routed[r] # 0 => routed[r] \in meant /\ \A i \in meant : routed[r] <= i
    /\ routed[r] = 0 /\ answer[r] = "404" => meant = {}

\* Every request is answered in the end, by a middleware, its route or the 404 behind
\* them: one that was declined goes on, one that failed is told so, and one that is
\* redirected arrives, however the tree changes; only an upstream server that is silent
\* for ever, or a client that never sends the rest of its upload, keeps it waiting
\* (http_server.go:70-75, context.go:64-82, static.go:79-88).
Arrives ==
  \A r \in Requests :
    phase[r] = "new" ~>
      \/ phase[r] = "over" /\ ~Unwritten(r) /\ answer[r] # "302"
      \/ []Waiting(r)

\* Properties of the components, which state them.

\* MiddlewareChains: a request runs what was appended before it began.
RunsWhatWasUsed == Chains!RunsWhatWasUsed

\* StaticFiles: what was opened for a request is closed exactly once, behind its use.
HandlesClosed == Static!HandlesClosed

\* StaticFiles: one redirect at most.
OneRedirect == Static!OneRedirect

\* EmbedStatic: the content of the file that was asked for, or the request goes on.
EmbedServesFiles == Embed!EmbedServesFiles

\* ProxyRoute: forwarded with its own dynamic value and query.
ForwardedAsMeant == Proxy!ForwardedAsMeant

\* ProxyRoute: an upstream failure is answered to the request that met it.
OwnError == Proxy!OwnError

\* UploadRoute: a file is whole or answered 400, unless two uploads overlapped.
UploadedIsWhole == Upload!UploadedIsWhole

===============================================================================
