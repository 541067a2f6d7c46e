------------------------------- MODULE ProxyRoute -------------------------------
(***************************************************************************)
(* The reverse proxy (http/proxy.go).  All requests of a route share its   *)
(* target URL, which every request completes with headers and a query of   *)
(* its own, twice, and one httputil.ReverseProxy, whose ErrorHandler every *)
(* request overwrites.  httputil is external.                              *)
(***************************************************************************)
EXTENDS Naturals

CONSTANTS
  Requests,
  Values,   \* dynamic values, and values of the query, that requests bring
  Own       \* what the target URL itself has there; also: no value, no handler

ProxyAssumption == Own \notin Values \cup Requests

VARIABLES
  targetURI,     \* of the route with a host and of the one without
  errorHandler,  \* s.proxy.ErrorHandler: whose closure it is
  brings,        \* the request
  proxy,         \* what it is doing
  target,        \* the URL that a request was given
  sent,          \* the URL that the upstream server was asked for
  failed,        \* history: the upstream did not answer this request
  answer

proxyVars == <<targetURI, errorHandler, brings, proxy, target, sent, failed>>

\* proxyFun on a route with a host, without one, with an URL that does not parse, or
\* ProxyHTTP, whose URL is one of the call's own and may be any of these.
Routes == {"hosted", "hostless", "illegal", "dynamic"}

\* Own stands for no header, no query.
Brings == [route : Routes, tag : Values \cup {Own}, query : Values \cup {Own}]
URL == [path : Values \cup {Own}, query : Values \cup {Own}]
Plain == [path |-> Own, query |-> Own]

ProxyInit ==
  /\ targetURI = [x \in {"hosted", "hostless"} |-> Plain]
  /\ errorHandler = Own
  /\ brings = [r \in Requests |-> [route |-> "illegal", tag |-> Own, query |-> Own]]
  /\ proxy = [r \in Requests |-> "idle"]
  /\ target = [r \in Requests |-> Plain]
  /\ sent = [r \in Requests |-> Plain]
  /\ failed = [r \in Requests |-> FALSE]

Moves(r, from, to) == proxy[r] = from /\ proxy' = [proxy EXCEPT ![r] = to]

Answers(r, what) == answer' = [answer EXCEPT ![r] = what]

\* applyProxyTarget: the tag in the path is replaced, the query of the request wins.
Applied(url, b) ==
  [path |-> IF b.tag # Own /\ url.path = Own THEN b.tag ELSE url.path,
   query |-> IF b.query # Own THEN b.query ELSE url.query]

-------------------------------------------------------------------------------
BeginProxy(r) ==
  /\ Moves(r, "idle", "apply")
  /\ \E b \in Brings : brings' = [brings EXCEPT ![r] = b]
  /\ UNCHANGED <<targetURI, errorHandler, target, sent, failed, answer>>

\* parseErr: a line in the log or an error to the caller, and nothing is written.
ParseFailed(r) ==
  /\ brings[r].route \in {"illegal", "dynamic"}
  /\ Moves(r, "apply", "done")
  /\ UNCHANGED <<targetURI, errorHandler, brings, target, sent, failed, answer>>

\* What the request starts from: the URL of its route, or its own of ProxyHTTP.
Base(b) == IF b.route \in DOMAIN targetURI THEN targetURI[b.route] ELSE Plain

\* Mutant: target := s.targetURI, a pointer to the URL of the route.
ApplyTarget_Alias(r) ==
  /\ brings[r].route # "illegal"
  /\ Moves(r, "apply", "host")
  /\ LET url == Applied(Base(brings[r]), brings[r]) IN
     /\ target' = [target EXCEPT ![r] = url]
     /\ targetURI' = [x \in DOMAIN targetURI |->
                        IF x = brings[r].route THEN url ELSE targetURI[x]]
  /\ UNCHANGED <<errorHandler, brings, sent, failed, answer>>

\* targetUri := s.applyTarget(req), a completed copy.
ApplyTarget(r) ==
  /\ brings[r].route # "illegal"
  /\ Moves(r, "apply", "host")
  /\ target' = [target EXCEPT ![r] = Applied(Base(brings[r]), brings[r])]
  /\ UNCHANGED <<targetURI, errorHandler, brings, sent, failed, answer>>

RedirectToTarget(r) ==
  /\ brings[r].route \in {"hostless", "dynamic"}
  /\ Moves(r, "host", "done")
  /\ Answers(r, "303")
  /\ UNCHANGED <<targetURI, errorHandler, brings, target, sent, failed>>

\* s.proxy.ErrorHandler = errorHandler, without a lock; ProxyHTTP has its own proxy.
SetErrorHandler(r) ==
  /\ brings[r].route \in {"hosted", "dynamic"}
  /\ Moves(r, "host", "serve")
  /\ errorHandler' = IF brings[r].route = "hosted" THEN r ELSE errorHandler
  /\ UNCHANGED <<targetURI, brings, target, sent, failed, answer>>

\* ServeHTTP calls the Director, which applies the target once more, and asks.
Director(r) ==
  /\ Moves(r, "serve", "sent")
  /\ sent' = [sent EXCEPT ![r] = IF brings[r].route = "hosted"
                                 THEN Applied(Base(brings[r]), brings[r]) ELSE target[r]]
  /\ UNCHANGED <<targetURI, errorHandler, brings, target, failed, answer>>

\* The response is passed through, whole or until the upstream server breaks off;
\* then httputil panics with http.ErrAbortHandler, which recovery takes for any other.
UpstreamAnswers(r) ==
  /\ Moves(r, "sent", "done")
  /\ \E what \in {"proxied", "cut"} : Answers(r, what)
  /\ UNCHANGED <<targetURI, errorHandler, brings, target, sent, failed>>

UpstreamFails(r) ==
  /\ Moves(r, "sent", "failing")
  /\ failed' = [failed EXCEPT ![r] = TRUE]
  /\ UNCHANGED <<targetURI, errorHandler, brings, target, sent, answer>>

\* What the ErrorHandler of the moment answers: the one that proxyFun sets, or that of
\* httputil where none is set; the caller's of ProxyHTTP, which may do what it likes and
\* write nothing, or the one that ProxyHTTP has when the caller gives none.
Handled(r) ==
  IF brings[r].route = "dynamic" THEN {"custom", "none", "500"}
  ELSE IF errorHandler = Own THEN {"502"} ELSE {"500"}

\* Mutant: the closure writes to the response of the request that made it.
HandleError_Captured(r) ==
  /\ Moves(r, "failing", "done")
  /\ Answers(IF brings[r].route = "hosted" THEN errorHandler ELSE r, "500")
  /\ UNCHANGED <<targetURI, errorHandler, brings, target, sent, failed>>

\* The ErrorHandler of the moment writes to the response that it is given.
HandleError(r) ==
  /\ Moves(r, "failing", "done")
  /\ \E what \in Handled(r) : Answers(r, what)
  /\ UNCHANGED <<targetURI, errorHandler, brings, target, sent, failed>>

ProxyStep(r) ==
  \/ ParseFailed(r) \/ ApplyTarget(r) \/ RedirectToTarget(r)
  \/ SetErrorHandler(r) \/ Director(r)
  \/ UpstreamAnswers(r) \/ UpstreamFails(r) \/ HandleError(r)

-------------------------------------------------------------------------------
\* With the target URL of the route shared, a request is forwarded, or redirected, to
\* that URL with its OWN dynamic value and query, never with those of a request that
\* came before or runs beside it (proxy.go:69-93, 171-192).
ForwardedAsMeant ==
  \A r \in Requests :
    LET meant == Applied(Plain, brings[r]) IN
    /\ proxy[r] \in {"host", "serve", "sent", "failing"} => target[r] = meant
    /\ proxy[r] \in {"sent", "failing"} => sent[r] = meant

\* A request of a route whose upstream fails is answered 500 by what proxyFun set,
\* never by httputil and never in place of another request, although the requests of
\* the route overwrite each other's ErrorHandler; one that went through ProxyHTTP is
\* answered what its caller's handler answers, by the 204 behind a handler that writes
\* nothing, or 500; and no request whose upstream answered is told of an error
\* (proxy.go:118-123, 145-155).
OwnError ==
  \A r \in Requests : proxy[r] = "done" =>
    IF failed[r]
    THEN answer[r] \in IF brings[r].route = "dynamic"
                       THEN {"custom", "none", "204", "500"} ELSE {"500"}
    ELSE answer[r] \notin {"custom", "500", "502"}

===============================================================================
