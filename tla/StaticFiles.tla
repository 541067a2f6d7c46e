------------------------------ MODULE StaticFiles ------------------------------
(***************************************************************************)
(* Static files (http/static.go): the middleware that passes on what it    *)
(* cannot serve, the handler that answers 404 or 500 instead, and          *)
(* serveStaticFile, which opens a file, its fallback or the index of a     *)
(* directory, one system call after the other, while somebody else changes *)
(* the tree.  A client that is redirected asks again.                      *)
(***************************************************************************)
EXTENDS Sequences, Naturals

CONSTANTS
  Requests,
  Page,        \* the name a request asks for
  Fallback,    \* StaticOptions.Fallback, or Page for none
  MaxChanges   \* bound: changes of the tree

StaticAssumption == MaxChanges \in Nat

VARIABLES
  tree,     \* what is under a name
  changes,  \* how often that changed
  file,     \* what the request is doing in serveStaticFile
  asks,     \* the request
  answer,   \* what was written, or that the request was passed on
  hops      \* history: how often its client was redirected, counted to 2

staticVars == <<tree, changes, file, asks, hops>>

Names == {Page, Fallback}

\* A directory is told apart by what its index file is.
Kinds == {"absent", "file", "bare", "indexed", "nested"}
IndexKind(k) ==
  CASE k = "indexed" -> "file" [] k = "nested" -> "bare" [] OTHER -> "absent"
IsDir(k) == k \in {"bare", "indexed", "nested"}

\* The path of a request, as far as the prefix and ExcludeUri tell it apart: "glued"
\* has more text behind the prefix, but no slash.
Where == {"under", "glued", "excluded", "outside"}
Asks ==
  [via : {"middleware", "handler"}, get : BOOLEAN, where : Where, slash : BOOLEAN]

\* Nothing is open: uri is the name to be opened, handles the opened files with how
\* often each was closed, open the one in the variable openFile, deferred the files
\* that deferred calls will close, info the last FileInfo and whose it is.
Closed(at) ==
  [at |-> at, uri |-> Page, handles |-> <<>>, open |-> 0, deferred |-> <<>>,
   info |-> 0, err |-> FALSE]

StaticInit ==
  /\ tree \in [Names -> Kinds]
  /\ changes = 0
  /\ file = [r \in Requests |-> Closed("idle")]
  /\ asks = [r \in Requests |->
               [via |-> "handler", get |-> TRUE, where |-> "under", slash |-> FALSE]]
  /\ hops = [r \in Requests |-> 0]

At(r, place) == file[r].at = place
Kept == UNCHANGED <<tree, changes, asks, answer, hops>>

\* The result of serveStaticFile is known; the deferred calls come next.
Unwinds(r, err) == file' = [file EXCEPT ![r].at = "unwind", ![r].err = err]

Writes(r, what) == answer' = [answer EXCEPT ![r] = what]

-------------------------------------------------------------------------------
TreeChanges(n, k) ==
  /\ changes < MaxChanges
  /\ tree[n] # k
  /\ tree' = [tree EXCEPT ![n] = k]
  /\ changes' = changes + 1
  /\ UNCHANGED <<file, asks, answer, hops>>

Begin(r, via) ==
  /\ At(r, "idle")
  /\ \E q \in Asks :
       /\ q.via = via /\ (hops[r] > 0 => q = [asks[r] EXCEPT !.via = via])
       /\ asks' = [asks EXCEPT ![r] = q]
  /\ file' = [file EXCEPT ![r].at = "decide"]
  /\ UNCHANGED <<tree, changes, answer, hops>>

\* What the middleware leaves to others at once: another method, ExcludeUri, a path
\* without the prefix, a path that goes on behind it without a slash.
Declines(q) == q.via = "middleware" /\ (~q.get \/ q.where # "under")

Decline(r) ==
  /\ At(r, "decide") /\ Declines(asks[r])
  /\ Writes(r, "next")
  /\ file' = [file EXCEPT ![r].at = "done"]
  /\ UNCHANGED <<tree, changes, asks, hops>>

\* StaticHandler looks at the prefix only, not at what follows it.
Reject(r) ==
  /\ At(r, "decide") /\ asks[r].via = "handler" /\ asks[r].where = "outside"
  /\ Writes(r, "404")
  /\ file' = [file EXCEPT ![r].at = "done"]
  /\ UNCHANGED <<tree, changes, asks, hops>>

Accept(r) ==
  /\ At(r, "decide") /\ ~Declines(asks[r])
  /\ asks[r].via = "handler" => asks[r].where # "outside"
  /\ file' = [file EXCEPT ![r].at = "open"]
  /\ Kept

\* dir.Open of kind k gives a handle, which a deferred call will close.
Opened(f, k, then) ==
  LET h == Len(f.handles) + 1 IN
  [f EXCEPT !.at = then, !.open = h,
            !.handles = Append(@, [dir |-> IsDir(k), closes |-> 0]),
            !.deferred = Append(@, h)]

OpenFile(r) ==
  /\ At(r, "open") /\ tree[Page] # "absent"
  /\ file' = [file EXCEPT ![r] = Opened(@, tree[Page], "stat")]
  /\ Kept

OpenFails(r) ==
  /\ At(r, "open")
  /\ tree[Page] = "absent"
  /\ IF Fallback # Page
     THEN file' = [file EXCEPT ![r].at = "fallback", ![r].uri = Fallback]
     ELSE Unwinds(r, TRUE)
  /\ Kept

OpenFallback(r) ==
  /\ At(r, "fallback")
  /\ IF tree[Fallback] = "absent"
     THEN Unwinds(r, TRUE)
     ELSE file' = [file EXCEPT ![r] = Opened(@, tree[Fallback], "stat")]
  /\ Kept

\* fileInfo.IsDir().
InfoIsDir(r) == file[r].handles[file[r].info].dir

\* Stat of the open file, which may fail.
Stat(r) ==
  /\ At(r, "stat") \/ At(r, "statIndex")
  /\ \/ file' = [file EXCEPT ![r].info = file[r].open,
                             ![r].at = IF At(r, "stat") THEN "look" ELSE "lookIndex"]
     \/ Unwinds(r, TRUE)
  /\ Kept

\* Redirects are counted up to two: more than one is what OneRedirect excludes.
Hopped(r) == hops' = [hops EXCEPT ![r] = IF @ = 2 THEN 2 ELSE @ + 1]

\* Mutant: the redirect goes where the request came from.
Redirect_NoSlash(r) ==
  /\ At(r, "look") /\ InfoIsDir(r) /\ ~asks[r].slash
  /\ Writes(r, "302")
  /\ Hopped(r)
  /\ Unwinds(r, FALSE)
  /\ UNCHANGED <<tree, changes, asks>>

\* A directory without its slash: the client is sent to the same path with one.
Redirect(r) ==
  /\ At(r, "look") /\ InfoIsDir(r) /\ ~asks[r].slash
  /\ Writes(r, "302")
  /\ Hopped(r)
  /\ asks' = [asks EXCEPT ![r].slash = TRUE]
  /\ Unwinds(r, FALSE)
  /\ UNCHANGED <<tree, changes>>

LookForIndex(r) ==
  /\ At(r, "look") /\ InfoIsDir(r) /\ asks[r].slash
  /\ file' = [file EXCEPT ![r].at = "index"]
  /\ Kept

OpenIndex(r) ==
  /\ At(r, "index")
  /\ LET k == IndexKind(tree[file[r].uri]) IN
     IF k = "absent" THEN Unwinds(r, TRUE)
     ELSE file' = [file EXCEPT ![r] = Opened(@, k, "statIndex")]
  /\ Kept

IndexIsDir(r) ==
  /\ At(r, "lookIndex") /\ InfoIsDir(r)
  /\ Unwinds(r, TRUE)
  /\ Kept

Serve(r) ==
  /\ At(r, "look") \/ At(r, "lookIndex")
  /\ ~InfoIsDir(r)
  /\ Writes(r, "content")
  /\ Unwinds(r, FALSE)
  /\ UNCHANGED <<tree, changes, asks, hops>>

\* The deferred calls close the files they were given.
ClosedBy(f) ==
  [h \in 1..Len(f.handles) |->
     IF \E d \in 1..Len(f.deferred) : f.deferred[d] = h
     THEN [f.handles[h] EXCEPT !.closes = @ + 1] ELSE f.handles[h]]

\* Mutant: the deferred closures see the variable, which the index has replaced.
Unwind_Variable(r) ==
  /\ At(r, "unwind")
  /\ file' = [file EXCEPT ![r].at = IF file[r].err THEN "failed" ELSE "done",
                          ![r].handles = [h \in 1..Len(@) |->
                            IF h = file[r].open
                            THEN [@[h] EXCEPT !.closes = Len(file[r].deferred)] ELSE @[h]]]
  /\ Kept

Unwind(r) ==
  /\ At(r, "unwind")
  /\ file' = [file EXCEPT ![r].at = IF file[r].err THEN "failed" ELSE "done",
                          ![r].handles = ClosedBy(file[r])]
  /\ Kept

\* serveStaticFile returned an error.
Fail(r) ==
  /\ At(r, "failed")
  /\ Writes(r, IF asks[r].via = "middleware" THEN "next" ELSE "500")
  /\ file' = [file EXCEPT ![r].at = "done"]
  /\ UNCHANGED <<tree, changes, asks, hops>>

StaticStep(r) ==
  \/ Decline(r) \/ Reject(r) \/ Accept(r)
  \/ OpenFile(r) \/ OpenFails(r) \/ OpenFallback(r) \/ Stat(r)
  \/ Redirect(r) \/ LookForIndex(r) \/ OpenIndex(r) \/ IndexIsDir(r) \/ Serve(r)
  \/ Unwind(r) \/ Fail(r)

-------------------------------------------------------------------------------
\* What is served is a file that is still open, no directory, and described by its own
\* FileInfo.
ServedIsOpen ==
  \A r \in Requests : answer[r] = "content" /\ At(r, "unwind") =>
    LET f == file[r] IN
    /\ f.info = f.open
    /\ ~f.handles[f.open].dir /\ f.handles[f.open].closes = 0

\* Every file that was opened for a request, the directory in front of an index too,
\* is closed exactly once when the request is done, on every way out, and not before
\* it was served, however the tree changes between the system calls
\* (static.go:60-117, design-http.md:63).
HandlesClosed ==
  /\ \A r \in Requests : \A h \in 1..Len(file[r].handles) :
       LET n == file[r].handles[h].closes IN n <= 1 /\ (At(r, "done") => n = 1)
  /\ ServedIsOpen

\* A client that follows redirects is redirected once at most, although the name it
\* asks for may become a directory, a file or nothing meanwhile, or be replaced by a
\* fallback (static.go:79-88).
OneRedirect == \A r \in Requests : hops[r] <= 1

===============================================================================
