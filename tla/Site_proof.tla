------------------------------- MODULE Site_proof -------------------------------
(***************************************************************************)
(* What the components of Site promise, they keep beside each other, for   *)
(* any requests, routes, middlewares, files, values and names, although    *)
(* all of them write the answers and a request wanders through several.    *)
(***************************************************************************)
EXTENDS Site, SequenceTheorems, FiniteSetTheorems, TLAPS

-------------------------------------------------------------------------------
\* The requests: where they are, and what they may have been answered there.

Phases == {"new", "chain", "static", "embed", "proxy", "upload", "over"}

\* What serveStaticFile does until it knows its result.
Busy == {"decide", "open", "fallback", "stat", "look", "index", "statIndex", "lookIndex"}

RequestsOK ==
  /\ phase \in [Requests -> Phases]
  /\ answer \in [Requests -> Outcomes \cup EmbedNames]

\* A request that is still to be handed on has no answer, and a component is at work on
\* it only while it has the request.  Without this, what one component wrote could be
\* taken for what another one did.
Turn(r) ==
  /\ phase[r] \in {"new", "chain"} => Unwritten(r)
  /\ file[r].at \notin {"idle", "done"} => phase[r] = "static"
  /\ file[r].at \in Busy => Unwritten(r)
  /\ lookup[r] \in {"load", "stat", "read", "store"} => phase[r] = "embed"
  /\ proxy[r] \in {"apply", "host", "serve", "sent", "failing"} =>
       phase[r] = "proxy" /\ Unwritten(r)
  /\ proxy[r] = "done" => phase[r] \in {"proxy", "over"} /\ answer[r] # "302"
  /\ upload[r] \in {"parse", "copy", "ok", "failed"} => phase[r] = "upload"
  /\ upload[r] = "done" => phase[r] \in {"upload", "over"}

-------------------------------------------------------------------------------
\* MiddlewareChains: every slice that somebody has lies in its array, and has there what
\* was used first.  It is this that an Append in place must not disturb.

Cells == STRING \cup {Blank}
Slices == [array : Nat, len : Nat]

LiesIn(s) ==
  /\ s.array \in 1..Len(arrays)
  /\ s.len <= Len(arrays[s.array]) /\ s.len <= Len(used)
  /\ \A i \in 1..s.len : arrays[s.array][i] = used[i]

ChainsOK ==
  /\ arrays \in Seq(Seq(Cells)) /\ used \in Seq(STRING)
  /\ handlers \in Slices /\ handlers.len = Len(used) /\ LiesIn(handlers)
  /\ chain \in [Requests -> Slices] /\ \A r \in Requests : LiesIn(chain[r])
  /\ ran \in [Requests -> Seq(Cells)]
  /\ Len(used) >= Len(Builtin)
  /\ \A r \in Requests :
       /\ Len(ran[r]) <= chain[r].len
       /\ \A i \in 1..Len(ran[r]) : ran[r][i] = used[i]

-------------------------------------------------------------------------------
\* StaticFiles: the files that a request has opened are those that it has deferred the
\* closing of.

Handle == [dir : {Static!IsDir(k) : k \in Static!Kinds}, closes : Nat]
Files ==
  [at : Busy \cup {"idle", "unwind", "failed", "done"}, uri : Static!Names,
   handles : Seq(Handle), open : Nat, deferred : Seq(Nat), info : Nat, err : BOOLEAN]

FileOK(f) ==
  /\ f \in Files
  /\ f.at \notin {"failed", "done"} =>
       /\ Len(f.deferred) = Len(f.handles)
       /\ \A h \in 1..Len(f.handles) : f.deferred[h] = h /\ f.handles[h].closes = 0
  /\ f.at \in {"failed", "done"} => \A h \in 1..Len(f.handles) : f.handles[h].closes = 1
  /\ f.at \in {"idle", "decide", "open", "fallback"} => f.handles = <<>>
  /\ f.at \in {"stat", "look", "statIndex", "lookIndex"} => f.open \in 1..Len(f.handles)
  /\ f.at \in {"look", "lookIndex"} => f.info = f.open

\* The second conjunct is ServedIsOpen.
Filed(r) ==
  /\ FileOK(file[r])
  /\ answer[r] = "content" /\ file[r].at = "unwind" =>
       /\ file[r].open \in 1..Len(file[r].handles) /\ file[r].info = file[r].open
       /\ ~file[r].handles[file[r].open].dir
  /\ hops[r] = 0 \/ (hops[r] = 1 /\ asks[r].slash)

StaticOK ==
  /\ tree \in [Static!Names -> Static!Kinds]
  /\ file \in [Requests -> Files]
  /\ asks \in [Requests -> Static!Asks]
  /\ hops \in [Requests -> Nat]
  /\ \A r \in Requests : Filed(r)

-------------------------------------------------------------------------------
\* EmbedStatic: the cache has what the file system has.

\* The last conjunct is EmbedServesFiles.
Embedded(r) ==
  /\ lookup[r] = "read" => EmbedKind[wants[r]] # "absent"
  /\ lookup[r] = "store" => EmbedKind[wants[r]] = "file"
  /\ lookup[r] = "done" =>
       IF EmbedKind[wants[r]] = "file"
       THEN answer[r] = wants[r] /\ phase[r] \in {"embed", "over"}
       ELSE answer[r] \in Outcomes

CacheOK ==
  /\ staticFileInfo \in [EmbedNames -> {"none"} \cup EmbedNames]
  /\ \A n \in EmbedNames : staticFileInfo[n] # "none" =>
       staticFileInfo[n] = n /\ EmbedKind[n] = "file"

EmbedOK ==
  /\ CacheOK
  /\ wants \in [Requests -> EmbedNames]
  /\ lookup \in [Requests -> {"idle", "load", "stat", "read", "store", "declined", "done"}]
  /\ \A r \in Requests : Embedded(r)

-------------------------------------------------------------------------------
\* ProxyRoute: nobody has touched the URL of a route.

Hosts == {"hosted", "hostless"}

\* OwnError.
Told(r) ==
  IF failed[r]
  THEN answer[r] \in IF brings[r].route = "dynamic"
                     THEN {"custom", "none", "204", "500"} ELSE {"500"}
  ELSE answer[r] \notin {"custom", "500", "502"}

\* Requests overwrite each other's ErrorHandler, but behind the first one there always is
\* one.  The last conjuncts are ForwardedAsMeant and OwnError.
Proxied(r) ==
  /\ proxy[r] \in {"serve", "sent", "failing"} =>
       brings[r].route = "dynamic" \/ errorHandler # Own
  /\ failed[r] => proxy[r] \in {"failing", "done"}
  /\ proxy[r] = "failing" => failed[r]
  /\ proxy[r] \in {"host", "serve", "sent", "failing"} =>
       target[r] = Proxy!Applied(Proxy!Plain, brings[r])
  /\ proxy[r] \in {"sent", "failing"} => sent[r] = Proxy!Applied(Proxy!Plain, brings[r])
  /\ proxy[r] = "done" => Told(r)

ProxyOK ==
  /\ targetURI = [x \in Hosts |-> Proxy!Plain]
  /\ brings \in [Requests -> Proxy!Brings]
  /\ proxy \in [Requests -> {"idle", "apply", "host", "serve", "sent", "failing", "done"}]
  /\ target \in [Requests -> Proxy!URL]
  /\ sent \in [Requests -> Proxy!URL]
  /\ failed \in [Requests -> BOOLEAN]
  /\ \A r \in Requests : Proxied(r)

-------------------------------------------------------------------------------
\* UploadRoute: while the uploads of a name do not overlap, one request wrote what the
\* file has, and wrote it from the beginning.

Pieces == Requests \cup {Old, Upload!Hole}

Its(n) == {r \in Requests : names[r] = n}

\* The pieces of r, as many as it wrote.
WrittenBy(n, r) == disk[n] = [i \in 1..written[r] |-> r]

OneWriter(n) ==
  /\ \A r \in Its(n) : upload[r] = "copy" =>
       WrittenBy(n, r) /\ \A s \in Its(n) : upload[s] = "copy" => s = r
  /\ \/ disk[n] \in {<<>>, Upload!Whole(Old)}
     \/ \E r \in Its(n) : WrittenBy(n, r)

Single(n) == (\A r \in Its(n) : ~overlapped[r]) => OneWriter(n)

Uploaded(r) ==
  /\ upload[r] \in {"idle", "parse"} => written[r] = 0
  /\ upload[r] = "ok" => written[r] = MaxPieces
  /\ upload[r] = "failed" => written[r] < MaxPieces
  /\ upload[r] = "done" => answer[r] = IF written[r] = MaxPieces THEN "200" ELSE "400"

UploadOK ==
  /\ disk \in [FileNames -> Seq(Pieces)]
  /\ names \in [Requests -> FileNames]
  /\ upload \in [Requests -> {"idle", "parse", "copy", "ok", "failed", "done"}]
  /\ written \in [Requests -> 0..MaxPieces]
  /\ overlapped \in [Requests -> BOOLEAN]
  /\ \A r \in Requests : Uploaded(r)
  /\ \A n \in FileNames : Single(n)

-------------------------------------------------------------------------------
Turns == \A r \in Requests : Turn(r)

BehindChains == RequestsOK /\ Turns /\ StaticOK /\ EmbedOK /\ ProxyOK /\ UploadOK

IInv == ChainsOK /\ BehindChains

-------------------------------------------------------------------------------
\* MiddlewareChains.

LEMMA Handlers == Builtin \in Seq(STRING) /\ Later \in Seq(STRING)
BY SiteAssumption DEF Chains!ChainsAssumption

LEMMA RoomIs == Chains!Room \subseteq Nat
BY Handlers DEF Chains!Room

LEMMA BlanksAre ==
  ASSUME NEW n \in Nat
  PROVE  Chains!Blanks(n) \in Seq(Cells) /\ Len(Chains!Blanks(n)) = n
BY DEF Chains!Blanks, Cells

\* s and behind it a sequence t: as long as both, and the beginning is s.
LEMMA Behind ==
  ASSUME NEW S, NEW s \in Seq(S), NEW t \in Seq(S)
  PROVE  /\ s \o t \in Seq(S) /\ Len(s \o t) = Len(s) + Len(t)
         /\ \A i \in 1..Len(s) : (s \o t)[i] = s[i]
BY ConcatProperties

LEMMA Appended ==
  ASSUME NEW S, NEW s \in Seq(S), NEW e \in S
  PROVE  /\ Append(s, e) \in Seq(S) /\ Len(Append(s, e)) = Len(s) + 1
         /\ \A i \in 1..Len(s) : Append(s, e)[i] = s[i]
         /\ Append(s, e)[Len(s) + 1] = e
OBVIOUS

LEMMA ChainsBegin == Chains!ChainsInit => ChainsOK
<1>. SUFFICES ASSUME Chains!ChainsInit PROVE ChainsOK
  OBVIOUS
<1>1. PICK room \in Chains!Room : arrays = <<Builtin \o Chains!Blanks(room)>>
  BY DEF Chains!ChainsInit
<1>2. Chains!Blanks(room) \in Seq(Cells) /\ Builtin \in Seq(Cells) /\ Builtin \in Seq(STRING)
  BY Handlers, RoomIs, BlanksAre DEF Cells
<1>. DEFINE first == Builtin \o Chains!Blanks(room)
<1>3. /\ first \in Seq(Cells) /\ Len(first) >= Len(Builtin)
      /\ \A i \in 1..Len(Builtin) : first[i] = Builtin[i]
  BY <1>2, Behind
<1>. HIDE DEF first
<1>4. arrays = <<first>> /\ arrays \in Seq(Seq(Cells)) /\ Len(arrays) = 1 /\ arrays[1] = first
  BY <1>1, <1>3 DEF first
<1>5. used = Builtin /\ handlers = [array |-> 1, len |-> Len(Builtin)]
  BY DEF Chains!ChainsInit, Chains!Slice
<1>6. handlers \in Slices /\ handlers.len = Len(used) /\ LiesIn(handlers)
  BY <1>2, <1>3, <1>4, <1>5 DEF Slices, LiesIn
<1>7. /\ chain = [r \in Requests |-> [array |-> 1, len |-> 0]]
      /\ ran = [r \in Requests |-> <<>>]
  BY DEF Chains!ChainsInit, Chains!Slice
<1>8. chain \in [Requests -> Slices] /\ \A r \in Requests : LiesIn(chain[r])
  BY <1>2, <1>3, <1>4, <1>5, <1>7 DEF Slices, LiesIn
<1>. QED BY <1>2, <1>4, <1>5, <1>6, <1>7, <1>8 DEF ChainsOK

\* What a step of the site is to the middlewares.
LEMMA ChainSteps ==
  ASSUME [Next]_vars
  PROVE  \/ UNCHANGED chainVars \/ Chains!Use
         \/ \E r \in Requests :
              Chains!GetHandlers(r) \/ Chains!CallHandler(r) \/ Chains!Forget(r)
BY DEF Next, vars, Use, ChangeTree, Serve, ServeHTTP, CallMiddleware, Resume, CallRoute, FindRoute,
       NoRoute, HandlerReturns, InComponent, FollowRedirect, chainVars

\* Where the arrays keep what was used, and more is used, slices stay as good as they are.
LEMMA SlicesStay ==
  ASSUME NEW s \in Slices, LiesIn(s), arrays \in Seq(Seq(Cells)), arrays' \in Seq(Seq(Cells)),
         Len(arrays) <= Len(arrays'),
         \A a \in 1..Len(arrays) :
           /\ Len(arrays[a]) <= Len(arrays'[a])
           /\ \A i \in 1..Len(arrays[a]) : i <= Len(used) => arrays'[a][i] = arrays[a][i],
         used \in Seq(STRING), used' \in Seq(STRING), Len(used) <= Len(used'),
         \A i \in 1..Len(used) : used'[i] = used[i]
  PROVE  LiesIn(s)'
<1>1. /\ s.array \in 1..Len(arrays) /\ s.array \in 1..Len(arrays')
      /\ s.array \in Nat /\ s.len \in Nat
      /\ s.len <= Len(arrays[s.array]) /\ s.len <= Len(used)
  BY DEF LiesIn, Slices
<1>2. /\ Len(arrays[s.array]) \in Nat /\ Len(arrays'[s.array]) \in Nat
      /\ Len(used) \in Nat /\ Len(used') \in Nat
  <2>1. arrays[s.array] \in Seq(Cells) /\ arrays'[s.array] \in Seq(Cells)
    BY <1>1, ElementOfSeq
  <2>. QED BY <2>1, LenProperties
<1>3. s.len <= Len(arrays'[s.array]) /\ s.len <= Len(used')
  <2>1. PICK k, l \in Nat : k = Len(arrays[s.array]) /\ l = Len(arrays'[s.array]) /\ k <= l
    BY <1>1, <1>2
  <2>2. PICK m, o \in Nat : m = Len(used) /\ o = Len(used') /\ m <= o
    BY <1>2
  <2>3. s.len <= k /\ s.len <= m /\ s.len \in Nat
    BY <1>1, <2>1, <2>2
  <2>4. s.len <= l /\ s.len <= o
    BY <2>1, <2>2, <2>3
  <2>. QED BY <2>1, <2>2, <2>4, Zenon
<1>4. \A i \in 1..s.len : arrays'[s.array][i] = used'[i]
  <2>. SUFFICES ASSUME NEW i \in 1..s.len PROVE arrays'[s.array][i] = used'[i]
    OBVIOUS
  <2>1. i \in 1..Len(arrays[s.array]) /\ i \in 1..Len(used) /\ i <= Len(used)
    <3>1. PICK k, m \in Nat : k = Len(arrays[s.array]) /\ m = Len(used)
      BY <1>2
    <3>2. s.len <= k /\ s.len <= m /\ s.len \in Nat
      BY <1>1, <3>1
    <3>3. i \in 1..k /\ i \in 1..m /\ i <= m
      BY <3>2
    <3>. QED BY <3>1, <3>3, Zenon
  <2>2. arrays[s.array][i] = used[i]
    BY DEF LiesIn
  <2>. QED BY <1>1, <2>1, <2>2
<1>. QED BY <1>1, <1>3, <1>4 DEF LiesIn

LEMMA UseKeeps ==
  ASSUME ChainsOK, Chains!Use
  PROVE  ChainsOK'
<1>. PICK a, n, h : /\ a \in Nat /\ n \in Nat
                    /\ a = handlers.array /\ n = handlers.len /\ h = Chains!NextUsed
  BY DEF ChainsOK, Slices
<1>1. /\ a \in 1..Len(arrays) /\ n = Len(used) /\ n <= Len(arrays[a])
      /\ \A i \in 1..n : arrays[a][i] = used[i]
  BY DEF ChainsOK, LiesIn
<1>2. h \in STRING
  <2>1. Len(used) - Len(Builtin) + 1 \in 1..Len(Later)
    BY Handlers DEF ChainsOK, Chains!Use
  <2>. QED BY <2>1, Handlers DEF Chains!NextUsed
<1>3. /\ used' \in Seq(STRING) /\ Len(used') = n + 1 /\ used'[n + 1] = h
      /\ \A i \in 1..n : used'[i] = used[i]
  BY <1>1, <1>2, Appended DEF ChainsOK, Chains!Use
<1>4. arrays[a] \in Seq(Cells) /\ h \in Cells /\ Len(arrays[a]) \in Nat
  BY <1>1, <1>2 DEF ChainsOK, Cells
<1>5. /\ arrays' \in Seq(Seq(Cells)) /\ Len(arrays) <= Len(arrays')
      /\ \A b \in 1..Len(arrays) :
           /\ Len(arrays[b]) <= Len(arrays'[b])
           /\ \A i \in 1..Len(arrays[b]) : i <= Len(used) => arrays'[b][i] = arrays[b][i]
      /\ handlers' \in Slices /\ handlers'.len = n + 1 /\ LiesIn(handlers)'
  <2>1. CASE n < Len(arrays[a])
    <3>. PICK row : row = [arrays[a] EXCEPT ![n + 1] = h]
      OBVIOUS
    <3>1. /\ row \in Seq(Cells) /\ Len(row) = Len(arrays[a]) /\ row[n + 1] = h
          /\ \A i \in 1..Len(arrays[a]) : i # n + 1 => row[i] = arrays[a][i]
      BY <1>4, <2>1
    <3>2. arrays' = [arrays EXCEPT ![a] = row] /\ handlers' = [array |-> a, len |-> n + 1]
      BY <2>1 DEF Chains!Use, Chains!AppendTo, Chains!Slice
    <3>3. /\ arrays' \in Seq(Seq(Cells)) /\ Len(arrays') = Len(arrays) /\ arrays'[a] = row
          /\ \A b \in 1..Len(arrays) : b # a => arrays'[b] = arrays[b]
      <4>1. arrays \in Seq(Seq(Cells))
        BY DEF ChainsOK
      <4>2. row \in Seq(Cells) /\ a \in 1..Len(arrays) /\ arrays' = [arrays EXCEPT ![a] = row]
        BY <1>1, <3>1, <3>2
      <4>. QED BY <4>1, <4>2, ExceptSeq
    <3>4. \A b \in 1..Len(arrays) :
            /\ Len(arrays[b]) <= Len(arrays'[b])
            /\ \A i \in 1..Len(arrays[b]) : i <= Len(used) => arrays'[b][i] = arrays[b][i]
      <4>. SUFFICES ASSUME NEW b \in 1..Len(arrays)
                    PROVE  /\ Len(arrays[b]) <= Len(arrays'[b])
                           /\ \A i \in 1..Len(arrays[b]) :
                                i <= Len(used) => arrays'[b][i] = arrays[b][i]
        OBVIOUS
      <4>1. CASE b = a
        <5>1. arrays'[b] = row /\ arrays[b] = arrays[a] /\ Len(row) = Len(arrays[b])
          BY <3>1, <3>3, <4>1
        <5>2. ASSUME NEW i \in 1..Len(arrays[b]), i <= Len(used) PROVE row[i] = arrays[b][i]
          <6>1. i <= n
            BY <1>1, <5>2
          <6>2. i # n + 1
            BY <6>1
          <6>. QED BY <3>1, <4>1, <6>2
        <5>. QED BY <1>4, <4>1, <5>1, <5>2
      <4>2. CASE b # a
        <5>1. arrays'[b] = arrays[b] /\ Len(arrays[b]) \in Nat
          BY <3>3, <4>2, ElementOfSeq, LenProperties DEF ChainsOK
        <5>. QED BY <5>1
      <4>. QED BY <4>1, <4>2
    <3>5. \A i \in 1..(n + 1) : row[i] = used'[i]
      BY <1>1, <1>3, <1>4, <2>1, <3>1
    <3>6. LiesIn(handlers)'
      BY <1>1, <1>3, <2>1, <3>1, <3>2, <3>3, <3>5 DEF LiesIn
    <3>. QED BY <1>1, <3>2, <3>3, <3>4, <3>6 DEF Slices
  <2>2. CASE ~(n < Len(arrays[a]))
    <3>1. Chains!Capacity(n) - n - 1 \in Nat
      BY DEF Chains!Capacity
    <3>2. PICK row : row = Append(arrays[a], h) \o Chains!Blanks(Chains!Capacity(n) - n - 1)
      OBVIOUS
    <3>3. /\ row \in Seq(Cells) /\ Len(row) >= n + 1 /\ row[n + 1] = h
          /\ \A i \in 1..n : row[i] = arrays[a][i]
      <4>1. /\ Append(arrays[a], h) \in Seq(Cells) /\ Len(Append(arrays[a], h)) = n + 1
            /\ Append(arrays[a], h)[n + 1] = h
            /\ \A i \in 1..n : Append(arrays[a], h)[i] = arrays[a][i]
        <5>1. Len(arrays[a]) = n
          BY <1>1, <1>4, <2>2
        <5>. QED BY <1>4, <5>1, Appended
      <4>2. /\ Chains!Blanks(Chains!Capacity(n) - n - 1) \in Seq(Cells)
            /\ Len(Chains!Blanks(Chains!Capacity(n) - n - 1)) \in Nat
        BY <3>1, BlanksAre
      <4>3. PICK s, t : /\ s = Append(arrays[a], h)
                        /\ t = Chains!Blanks(Chains!Capacity(n) - n - 1)
        OBVIOUS
      <4>4. /\ s \in Seq(Cells) /\ Len(s) = n + 1 /\ s[n + 1] = h
            /\ \A i \in 1..n : s[i] = arrays[a][i]
        BY <4>1, <4>3
      <4>5. t \in Seq(Cells) /\ Len(t) \in Nat
        BY <4>2, <4>3
      <4>6. row = s \o t
        BY <3>2, <4>3
      <4>7. /\ row = s \o t /\ s \o t \in Seq(Cells) /\ Len(s \o t) = n + 1 + Len(t)
            /\ \A i \in 1..(n + 1) : (s \o t)[i] = s[i]
        <5>1. /\ s \o t \in Seq(Cells) /\ Len(s \o t) = Len(s) + Len(t)
              /\ \A i \in 1..Len(s) : (s \o t)[i] = s[i]
          BY <4>4, <4>5, Behind
        <5>. QED BY <4>4, <4>6, <5>1
      <4>. QED BY <4>4, <4>5, <4>7
    <3>4. arrays' = Append(arrays, row) /\ handlers' = [array |-> Len(arrays) + 1, len |-> n + 1]
      BY <2>2, <3>2 DEF Chains!Use, Chains!AppendTo, Chains!Slice
    <3>5. /\ arrays' \in Seq(Seq(Cells)) /\ Len(arrays') = Len(arrays) + 1
          /\ arrays'[Len(arrays) + 1] = row /\ \A b \in 1..Len(arrays) : arrays'[b] = arrays[b]
      <4>1. arrays \in Seq(Seq(Cells)) /\ row \in Seq(Cells)
        BY <3>3 DEF ChainsOK
      <4>2. /\ Append(arrays, row) \in Seq(Seq(Cells))
            /\ Len(Append(arrays, row)) = Len(arrays) + 1
            /\ \A b \in 1..Len(arrays) : Append(arrays, row)[b] = arrays[b]
            /\ Append(arrays, row)[Len(arrays) + 1] = row
        BY <4>1, AppendProperties
      <4>. QED BY <3>4, <4>2
    <3>6. \A i \in 1..(n + 1) : row[i] = used'[i]
      <4>. SUFFICES ASSUME NEW i \in 1..(n + 1) PROVE row[i] = used'[i]
        OBVIOUS
      <4>1. i = n + 1 \/ i \in 1..n
        OBVIOUS
      <4>. QED BY <1>1, <1>3, <3>3, <4>1
    <3>7. Len(arrays) \in Nat /\ Len(row) \in Nat
      BY <3>3, LenProperties DEF ChainsOK
    <3>8. LiesIn(handlers)'
      <4>1. handlers'.array = Len(arrays) + 1 /\ handlers'.len = n + 1
        BY <3>4
      <4>2. /\ Len(arrays) + 1 \in 1..Len(arrays') /\ arrays'[handlers'.array] = row
            /\ n + 1 <= Len(row) /\ n + 1 <= Len(used')
        <5>. PICK k \in Nat, m \in Nat : k = Len(arrays) /\ m = Len(row)
          BY <3>7
        <5>1. k + 1 \in 1..(k + 1) /\ n + 1 <= m
          BY <3>3
        <5>. QED BY <1>3, <3>3, <3>5, <4>1, <5>1
      <4>. QED BY <3>6, <4>1, <4>2 DEF LiesIn
    <3>9. \A b \in 1..Len(arrays) : Len(arrays[b]) \in Nat
      BY ElementOfSeq, LenProperties DEF ChainsOK
    <3>. QED BY <3>4, <3>5, <3>7, <3>8, <3>9 DEF Slices
  <2>. QED BY <2>1, <2>2
<1>6. ASSUME NEW r \in Requests PROVE LiesIn(chain[r])'
  <2>. PICK s \in Slices : s = chain[r] /\ LiesIn(s)
    BY DEF ChainsOK
  <2>1. LiesIn(s)'
    <3>1. /\ used \in Seq(STRING) /\ used' \in Seq(STRING) /\ Len(used) <= Len(used')
          /\ \A i \in 1..Len(used) : used'[i] = used[i]
      BY <1>1, <1>3 DEF ChainsOK
    <3>2. arrays \in Seq(Seq(Cells))
      BY DEF ChainsOK
    <3>. QED BY <1>5, <3>1, <3>2, SlicesStay
  <2>2. chain'[r] = s
    BY DEF Chains!Use
  <2>. QED BY <2>1, <2>2 DEF LiesIn
<1>7. /\ ran' = ran
      /\ \A r \in Requests : \A i \in 1..Len(ran[r]) : i \in 1..n /\ ran[r][i] = used'[i]
  <2>1. ASSUME NEW r \in Requests, NEW i \in 1..Len(ran[r])
        PROVE  i \in 1..n /\ ran[r][i] = used'[i]
    <3>1. PICK s \in Slices : s = chain[r] /\ s.len <= Len(used)
      BY DEF ChainsOK, LiesIn
    <3>2. PICK k \in Nat : k = Len(ran[r]) /\ k <= s.len /\ ran[r][i] = used[i]
      BY <3>1 DEF ChainsOK
    <3>3. s.len \in Nat /\ s.len <= n
      BY <1>1, <3>1 DEF Slices
    <3>4. i \in 1..n
      BY <3>2, <3>3
    <3>. QED BY <1>3, <3>2, <3>4
  <2>. QED BY <2>1 DEF Chains!Use
<1>8. arrays' \in Seq(Seq(Cells)) /\ used' \in Seq(STRING) /\ Len(used') >= Len(Builtin)
  <2>1. Len(used) >= Len(Builtin) /\ Len(Builtin) \in Nat
    BY Handlers DEF ChainsOK
  <2>. QED BY <1>1, <1>3, <1>5, <2>1
<1>9. /\ chain' = chain /\ chain \in [Requests -> Slices] /\ ran \in [Requests -> Seq(Cells)]
      /\ \A r \in Requests : Len(ran[r]) <= chain[r].len
  BY DEF ChainsOK, Chains!Use
<1>10. handlers' \in Slices /\ handlers'.len = Len(used') /\ LiesIn(handlers)'
  BY <1>3, <1>5
<1>. QED BY <1>6, <1>7, <1>8, <1>9, <1>10 DEF ChainsOK

LEMMA ChainsKeep ==
  ASSUME ChainsOK, [Next]_vars
  PROVE  ChainsOK'
<1>1. CASE UNCHANGED chainVars
  BY <1>1 DEF chainVars, ChainsOK, LiesIn
<1>2. CASE Chains!Use
  BY <1>2, UseKeeps
<1>3. ASSUME NEW r \in Requests, Chains!GetHandlers(r)
      PROVE  ChainsOK'
  <2>1. /\ arrays' = arrays /\ handlers' = handlers /\ used' = used
        /\ chain' = [chain EXCEPT ![r] = handlers] /\ ran' = [ran EXCEPT ![r] = <<>>]
    BY <1>3 DEF Chains!GetHandlers
  <2>2. \A s \in Requests : LiesIn(chain[s])'
    BY <2>1 DEF ChainsOK, LiesIn
  <2>3. handlers.len \in Nat /\ Len(<<>>) = 0
    BY DEF ChainsOK, Slices
  <2>. QED BY <2>1, <2>2, <2>3 DEF ChainsOK, LiesIn
<1>4. ASSUME NEW r \in Requests, Chains!CallHandler(r)
      PROVE  ChainsOK'
  <2>. PICK n, h : n \in Nat /\ n = Len(ran[r]) /\ h = Chains!NextHandler(r)
    BY DEF ChainsOK
  <2>1. /\ arrays' = arrays /\ handlers' = handlers /\ used' = used /\ chain' = chain
        /\ ran' = [ran EXCEPT ![r] = Append(ran[r], h)]
    BY <1>4 DEF Chains!CallHandler
  <2>2. n + 1 \in 1..chain[r].len /\ n + 1 <= chain[r].len
    BY <1>4 DEF Chains!CallHandler, Chains!ChainDone, ChainsOK, Slices
  <2>3. h = used[n + 1] /\ h \in Cells
    <3>1. h = arrays[chain[r].array][n + 1]
      BY DEF Chains!NextHandler
    <3>2. h = used[n + 1] /\ n + 1 \in 1..Len(used)
      BY <2>2, <3>1 DEF ChainsOK, LiesIn, Slices
    <3>. QED BY <3>2, ElementOfSeq DEF ChainsOK, Cells
  <2>4. /\ Append(ran[r], h) \in Seq(Cells) /\ Len(Append(ran[r], h)) = n + 1
        /\ \A i \in 1..(n + 1) : Append(ran[r], h)[i] = used[i]
    <3>1. ran[r] \in Seq(Cells) /\ \A i \in 1..n : ran[r][i] = used[i]
      BY DEF ChainsOK
    <3>. QED BY <2>3, <3>1, Appended
  <2>5. \A s \in Requests : LiesIn(chain[s])'
    BY <2>1 DEF ChainsOK, LiesIn
  <2>6. LiesIn(handlers)'
    BY <2>1 DEF ChainsOK, LiesIn
  <2>. QED BY <2>1, <2>2, <2>4, <2>5, <2>6 DEF ChainsOK
<1>5. ASSUME NEW r \in Requests, Chains!Forget(r)
      PROVE  ChainsOK'
  <2>1. PICK none \in Slices : none = [array |-> 1, len |-> 0] /\ none.array = 1 /\ none.len = 0
    <3>1. [array |-> 1, len |-> 0] \in Slices
      BY DEF Slices
    <3>. QED BY <3>1
  <2>2. /\ arrays' = arrays /\ handlers' = handlers /\ used' = used
        /\ chain' = [chain EXCEPT ![r] = none] /\ ran' = [ran EXCEPT ![r] = <<>>]
    BY <1>5, <2>1 DEF Chains!Forget, Chains!Slice
  <2>3. LiesIn(none)
    <3>1. Len(arrays) \in Nat /\ Len(used) \in Nat /\ handlers.array \in 1..Len(arrays)
      BY DEF ChainsOK, LiesIn
    <3>2. 1 \in 1..Len(arrays)
      BY <3>1
    <3>3. Len(arrays[1]) \in Nat
      BY <3>2, ElementOfSeq, LenProperties DEF ChainsOK
    <3>. QED BY <2>1, <3>1, <3>2, <3>3 DEF LiesIn
  <2>4. LiesIn(handlers)' /\ \A s \in Requests : LiesIn(chain[s])'
    BY <2>2, <2>3 DEF ChainsOK, LiesIn
  <2>5. /\ chain' \in [Requests -> Slices] /\ ran' \in [Requests -> Seq(Cells)]
        /\ \A s \in Requests : /\ Len(ran'[s]) <= chain'[s].len
                               /\ \A i \in 1..Len(ran'[s]) : ran'[s][i] = used[i]
    BY <2>1, <2>2 DEF ChainsOK
  <2>. QED BY <2>2, <2>4, <2>5 DEF ChainsOK
<1>. QED BY <1>1, <1>2, <1>3, <1>4, <1>5, ChainSteps

LEMMA ChainsPromise == ChainsOK => RunsWhatWasUsed
BY DEF ChainsOK, RunsWhatWasUsed, Chains!RunsWhatWasUsed

-------------------------------------------------------------------------------
\* StaticFiles: what serveStaticFile does to its files.

\* A step that opens and closes nothing: from f to g.
LEMMA GoesOn ==
  ASSUME NEW f, FileOK(f), f.at \notin {"failed", "done"},
         NEW g \in Files, g.at \in Busy \cup {"unwind"},
         g.handles = f.handles, g.deferred = f.deferred, g.open = f.open,
         g.at \in {"decide", "open", "fallback"} => f.at \in {"idle", "decide", "open"},
         g.at \in {"stat", "look", "statIndex", "lookIndex"} =>
           f.at \in {"stat", "statIndex"} /\ g.info = f.open
  PROVE  FileOK(g)
BY DEF FileOK, Busy

\* A file is opened and deferred to be closed.
LEMMA OpensOne ==
  ASSUME NEW f, FileOK(f), f.at \notin {"failed", "done"}, NEW k \in Static!Kinds,
         NEW then \in {"stat", "statIndex"}
  PROVE  FileOK(Static!Opened(f, k, then)) /\ Static!Opened(f, k, then).at = then
<1>1. PICK new \in Handle : new = [dir |-> Static!IsDir(k), closes |-> 0] /\ new.closes = 0
  <2>1. PICK d : d = Static!IsDir(k)
    OBVIOUS
  <2>2. d \in {Static!IsDir(j) : j \in Static!Kinds}
    BY <2>1, Zenon
  <2>3. [dir |-> d, closes |-> 0] \in Handle /\ [dir |-> d, closes |-> 0].closes = 0
    BY <2>2 DEF Handle
  <2>. QED BY <2>1, <2>3, Zenon
<1>2. /\ f \in Files /\ f.handles \in Seq(Handle) /\ f.deferred \in Seq(Nat)
      /\ Len(f.deferred) = Len(f.handles)
      /\ \A h \in 1..Len(f.handles) : f.deferred[h] = h /\ f.handles[h].closes = 0
  BY DEF FileOK, Files
<1>3. PICK n \in Nat : n = Len(f.handles)
  BY <1>2
<1>4. PICK hs, ds : hs = Append(f.handles, new) /\ ds = Append(f.deferred, n + 1)
  OBVIOUS
<1>5. /\ hs \in Seq(Handle) /\ Len(hs) = n + 1 /\ hs[n + 1] = new
      /\ \A h \in 1..n : hs[h] = f.handles[h]
  BY <1>1, <1>2, <1>3, <1>4, AppendProperties
<1>6. /\ ds \in Seq(Nat) /\ Len(ds) = n + 1 /\ ds[n + 1] = n + 1
      /\ \A h \in 1..n : ds[h] = f.deferred[h]
  BY <1>2, <1>3, <1>4, AppendProperties
<1>7. Static!Opened(f, k, then) =
        [f EXCEPT !.at = then, !.open = n + 1, !.handles = hs, !.deferred = ds]
  BY <1>1, <1>2, <1>3, <1>4 DEF Static!Opened, Files
<1>8. PICK g : g = Static!Opened(f, k, then)
  OBVIOUS
<1>9. /\ g \in Files /\ g.at = then /\ g.open = n + 1 /\ g.handles = hs /\ g.deferred = ds
  <2>1. g = [at |-> then, uri |-> f.uri, handles |-> hs, open |-> n + 1, deferred |-> ds,
             info |-> f.info, err |-> f.err]
    BY <1>2, <1>7, <1>8 DEF Files
  <2>2. /\ then \in Busy /\ f.uri \in Static!Names /\ n + 1 \in Nat /\ f.info \in Nat
        /\ f.err \in BOOLEAN
    BY <1>2, <1>3 DEF Files, Busy
  <2>. QED BY <1>5, <1>6, <2>1, <2>2 DEF Files
<1>10. \A h \in 1..(n + 1) : ds[h] = h /\ hs[h].closes = 0
  <2>. SUFFICES ASSUME NEW h \in 1..(n + 1)
                PROVE  ds[h] = h /\ hs[h].closes = 0
    OBVIOUS
  <2>1. h \in 1..n \/ h = n + 1
    BY <1>3
  <2>. QED BY <1>1, <1>2, <1>3, <1>5, <1>6, <2>1
<1>. QED BY <1>3, <1>5, <1>6, <1>8, <1>9, <1>10 DEF FileOK

\* The deferred calls close each file, and no file twice.
LEMMA ClosesAll ==
  ASSUME NEW f, FileOK(f), f.at = "unwind"
  PROVE  FileOK([f EXCEPT !.at = IF f.err THEN "failed" ELSE "done",
                          !.handles = Static!ClosedBy(f)])
<1>1. /\ f \in Files /\ f.handles \in Seq(Handle) /\ Len(f.deferred) = Len(f.handles)
      /\ \A h \in 1..Len(f.handles) : f.deferred[h] = h /\ f.handles[h].closes = 0
  BY DEF FileOK, Files
<1>2. PICK n \in Nat : n = Len(f.handles)
  BY <1>1
<1>3. \A h \in 1..n : \E x \in Handle : x.closes = 1 /\ Static!ClosedBy(f)[h] = x
  <2>. SUFFICES ASSUME NEW h \in 1..n
                PROVE  \E x \in Handle : x.closes = 1 /\ Static!ClosedBy(f)[h] = x
    OBVIOUS
  <2>1. PICK e \in Handle : e = f.handles[h] /\ e.closes = 0
    BY <1>1, <1>2, ElementOfSeq
  <2>2. \E d \in 1..Len(f.deferred) : f.deferred[d] = h
    BY <1>1, <1>2
  <2>3. Static!ClosedBy(f)[h] = [e EXCEPT !.closes = e.closes + 1]
    BY <1>2, <2>1, <2>2 DEF Static!ClosedBy
  <2>4. [e EXCEPT !.closes = e.closes + 1] \in Handle /\ [e EXCEPT !.closes = e.closes + 1].closes = 1
    BY <2>1 DEF Handle
  <2>. QED BY <2>3, <2>4
<1>4. PICK hs : hs = Static!ClosedBy(f)
  OBVIOUS
<1>5. hs \in Seq(Handle) /\ Len(hs) = n /\ \A h \in 1..n : hs[h].closes = 1
  <2>1. hs = [h \in 1..n |-> hs[h]]
    BY <1>2, <1>4 DEF Static!ClosedBy
  <2>2. \A h \in 1..n : hs[h] \in Handle /\ hs[h].closes = 1
    BY <1>3, <1>4
  <2>. QED BY <1>2, <2>1, <2>2
<1>6. PICK g : g = [f EXCEPT !.at = IF f.err THEN "failed" ELSE "done", !.handles = hs]
  OBVIOUS
<1>7. g \in Files /\ g.at \in {"failed", "done"} /\ g.handles = hs
  BY <1>1, <1>5, <1>6 DEF Files
<1>. QED BY <1>2, <1>4, <1>5, <1>6, <1>7 DEF FileOK

\* Where all is closed, or nothing was opened.
LEMMA Leaves ==
  ASSUME NEW f, FileOK(f), f.at = "failed" \/ (f.at = "decide" /\ f.handles = <<>>)
  PROVE  FileOK([f EXCEPT !.at = "done"])
<1>. PICK g : g = [f EXCEPT !.at = "done"]
  OBVIOUS
<1>1. g \in Files /\ g.at = "done" /\ g.handles = f.handles
  BY DEF FileOK, Files
<1>. QED BY <1>1 DEF FileOK

LEMMA NothingOpen ==
  FileOK(Static!Closed("idle")) /\ Static!Closed("idle").at = "idle"
BY DEF FileOK, Files, Static!Closed, Static!Names

\* What a step does to the files of a request, and to no other one.
Aside(r) ==
  /\ file' \in [Requests -> Files] /\ asks' \in [Requests -> Static!Asks]
  /\ hops' \in [Requests -> Nat]
  /\ \A s \in Requests \ {r} : file'[s] = file[s] /\ asks'[s] = asks[s] /\ hops'[s] = hops[s]

Answering(r) ==
  /\ answer' \in [Requests -> Outcomes \cup EmbedNames]
  /\ \A s \in Requests \ {r} : answer'[s] = answer[s]

Acts(r) ==
  /\ Aside(r) /\ Answering(r) /\ Filed(r)' /\ tree' = tree
  /\ file[r].at \notin {"idle", "done"} /\ file'[r].at # "idle"
  /\ file'[r].at \in Busy => file[r].at \in Busy /\ answer'[r] = answer[r]
  /\ answer'[r] = answer[r] \/ answer'[r] \in Outcomes

\* The request goes on to g, and nothing is written.
LEMMA ActsSilently ==
  ASSUME NEW r \in Requests, RequestsOK, StaticOK, Turn(r),
         NEW g \in Files, FileOK(g), file' = [file EXCEPT ![r] = g], Static!Kept,
         file[r].at \notin {"idle", "done"}, g.at # "idle",
         g.at \in Busy => file[r].at \in Busy, g.at = "unwind" => file[r].at \in Busy
  PROVE  Acts(r)
BY DEF Acts, Aside, Answering, Filed, StaticOK, RequestsOK, Static!Kept, Turn, Unwritten

\* The result is known, and a is written.
LEMMA ActsAnswering ==
  ASSUME NEW r \in Requests, RequestsOK, StaticOK,
         NEW g \in Files, FileOK(g), file' = [file EXCEPT ![r] = g],
         NEW a \in Outcomes, answer' = [answer EXCEPT ![r] = a],
         UNCHANGED <<tree, asks, hops>>,
         file[r].at \notin {"idle", "done"}, g.at \in {"unwind", "done"},
         a = "content" /\ g.at = "unwind" =>
           g.open \in 1..Len(g.handles) /\ g.info = g.open /\ ~g.handles[g.open].dir
  PROVE  Acts(r)
BY DEF Acts, Aside, Answering, Filed, StaticOK, RequestsOK, Busy

\* It goes on with the files that it has.
LEMMA ActsGoingOn ==
  ASSUME NEW r \in Requests, RequestsOK, StaticOK, Turn(r), file[r].at \in Busy,
         NEW g \in Files, file' = [file EXCEPT ![r] = g], Static!Kept,
         g.at \in Busy \cup {"unwind"},
         g.handles = file[r].handles, g.deferred = file[r].deferred, g.open = file[r].open,
         g.at \in {"decide", "open", "fallback"} => file[r].at \in {"decide", "open"},
         g.at \in {"stat", "look", "statIndex", "lookIndex"} =>
           file[r].at \in {"stat", "statIndex"} /\ g.info = file[r].open
  PROVE  Acts(r)
<1>1. PICK f : f = file[r]
  OBVIOUS
<1>2. FileOK(f)
  BY <1>1 DEF StaticOK, Filed
<1>3. FileOK(g)
  BY <1>1, <1>2, GoesOn DEF Busy
<1>. QED BY <1>3, ActsSilently DEF Busy

\* serveStaticFile returns an error.
LEMMA ActsFailing ==
  ASSUME NEW r \in Requests, RequestsOK, StaticOK, Turn(r), file[r].at \in Busy,
         Static!Unwinds(r, TRUE), Static!Kept
  PROVE  Acts(r)
<1>1. PICK f : f = file[r] /\ f \in Files
  BY DEF StaticOK
<1>2. PICK g : g = [f EXCEPT !.at = "unwind", !.err = TRUE]
  OBVIOUS
<1>3. file' = [file EXCEPT ![r] = g]
  BY <1>1, <1>2 DEF Static!Unwinds, StaticOK
<1>4. /\ g \in Files /\ g.at = "unwind" /\ g.handles = f.handles /\ g.deferred = f.deferred
      /\ g.open = f.open
  BY <1>1, <1>2 DEF Files
<1>. QED BY <1>1, <1>3, <1>4, ActsGoingOn

\* It opens a file more.
LEMMA ActsOpening ==
  ASSUME NEW r \in Requests, RequestsOK, StaticOK, Turn(r), file[r].at \in Busy,
         NEW k \in Static!Kinds, NEW then \in {"stat", "statIndex"},
         file' = [file EXCEPT ![r] = Static!Opened(file[r], k, then)], Static!Kept
  PROVE  Acts(r)
<1>1. PICK f, g : f = file[r] /\ g = Static!Opened(f, k, then)
  OBVIOUS
<1>2. FileOK(f) /\ f.at \notin {"failed", "done"}
  BY <1>1 DEF StaticOK, Filed, Busy
<1>3. FileOK(g) /\ g.at = then
  BY <1>1, <1>2, OpensOne
<1>4. file' = [file EXCEPT ![r] = g] /\ g \in Files
  BY <1>1, <1>3 DEF FileOK
<1>. QED BY <1>3, <1>4, ActsSilently DEF Busy

\* serveStaticFile writes when it knows its result, or when it has failed.
LEMMA StaticActs ==
  ASSUME NEW r \in Requests, RequestsOK, StaticOK, Turn(r), Static!StaticStep(r)
  PROVE  Acts(r)
<1>1. PICK f : /\ f = file[r] /\ f \in Files /\ FileOK(f)
  BY DEF StaticOK, Filed
<1>2. CASE Static!Accept(r)
  <2>1. PICK g : g = [f EXCEPT !.at = "open"]
    OBVIOUS
  <2>2. f.at = "decide" /\ file' = [file EXCEPT ![r] = g] /\ Static!Kept
    BY <1>1, <1>2, <2>1 DEF Static!Accept, Static!At, StaticOK
  <2>3. /\ g \in Files /\ g.at = "open" /\ g.handles = f.handles /\ g.deferred = f.deferred
        /\ g.open = f.open
    BY <1>1, <2>1 DEF Files, Busy
  <2>. QED BY <1>1, <2>2, <2>3, ActsGoingOn DEF Busy
<1>3. CASE Static!LookForIndex(r)
  <2>1. PICK g : g = [f EXCEPT !.at = "index"]
    OBVIOUS
  <2>2. f.at = "look" /\ file' = [file EXCEPT ![r] = g] /\ Static!Kept
    BY <1>1, <1>3, <2>1 DEF Static!LookForIndex, Static!At, StaticOK
  <2>3. /\ g \in Files /\ g.at = "index" /\ g.handles = f.handles /\ g.deferred = f.deferred
        /\ g.open = f.open
    BY <1>1, <2>1 DEF Files, Busy
  <2>. QED BY <1>1, <2>2, <2>3, ActsGoingOn DEF Busy
<1>4. CASE Static!IndexIsDir(r)
  BY <1>4, ActsFailing DEF Static!IndexIsDir, Static!At, Busy
<1>5. CASE Static!OpenFile(r)
  <2>1. tree[Page] \in Static!Kinds
    BY DEF StaticOK, Static!Names
  <2>2. /\ file[r].at = "open" /\ Static!Kept
        /\ file' = [file EXCEPT ![r] = Static!Opened(file[r], tree[Page], "stat")]
    BY <1>5 DEF Static!OpenFile, Static!At
  <2>. QED BY <2>1, <2>2, ActsOpening DEF Busy
<1>6. CASE Static!OpenFails(r)
  <2>1. f.at = "open" /\ Static!Kept
    BY <1>1, <1>6 DEF Static!OpenFails, Static!At
  <2>2. CASE Fallback # Page
    <3>1. PICK g : g = [f EXCEPT !.at = "fallback", !.uri = Fallback]
      OBVIOUS
    <3>2. file' = [file EXCEPT ![r] = g]
      BY <1>1, <1>6, <2>2, <3>1 DEF Static!OpenFails, StaticOK
    <3>3. /\ g \in Files /\ g.at = "fallback" /\ g.handles = f.handles
          /\ g.deferred = f.deferred /\ g.open = f.open
      BY <1>1, <3>1 DEF Files, Busy, Static!Names
    <3>. QED BY <1>1, <2>1, <3>2, <3>3, ActsGoingOn DEF Busy
  <2>3. CASE Fallback = Page
    BY <1>1, <1>6, <2>1, <2>3, ActsFailing DEF Static!OpenFails, Busy
  <2>. QED BY <2>2, <2>3
<1>7. CASE Static!OpenFallback(r)
  <2>1. file[r].at = "fallback" /\ Static!Kept /\ tree[Fallback] \in Static!Kinds
    BY <1>7 DEF Static!OpenFallback, Static!At, StaticOK, Static!Names
  <2>2. CASE tree[Fallback] = "absent"
    BY <1>7, <2>1, <2>2, ActsFailing DEF Static!OpenFallback, Busy
  <2>3. CASE tree[Fallback] # "absent"
    <3>1. file' = [file EXCEPT ![r] = Static!Opened(file[r], tree[Fallback], "stat")]
      BY <1>7, <2>3 DEF Static!OpenFallback
    <3>. QED BY <2>1, <3>1, ActsOpening DEF Busy
  <2>. QED BY <2>2, <2>3
<1>8. CASE Static!OpenIndex(r)
  <2>1. PICK k : k = Static!IndexKind(tree[f.uri])
    OBVIOUS
  <2>2. file[r].at = "index" /\ Static!Kept /\ k \in Static!Kinds
    BY <1>8, <2>1 DEF Static!OpenIndex, Static!At, Static!Kinds, Static!IndexKind
  <2>3. CASE k = "absent"
    BY <1>1, <1>8, <2>1, <2>2, <2>3, ActsFailing DEF Static!OpenIndex, Busy
  <2>4. CASE k # "absent"
    <3>1. file' = [file EXCEPT ![r] = Static!Opened(file[r], k, "statIndex")]
      BY <1>1, <1>8, <2>1, <2>4 DEF Static!OpenIndex
    <3>. QED BY <2>2, <3>1, ActsOpening DEF Busy
  <2>. QED BY <2>3, <2>4
<1>9. CASE Static!Stat(r)
  <2>1. f.at \in {"stat", "statIndex"} /\ Static!Kept
    BY <1>1, <1>9 DEF Static!Stat, Static!At
  <2>2. CASE Static!Unwinds(r, TRUE)
    BY <1>1, <2>1, <2>2, ActsFailing DEF Busy
  <2>3. CASE ~Static!Unwinds(r, TRUE)
    <3>1. PICK to \in {"look", "lookIndex"} :
            to = IF f.at = "stat" THEN "look" ELSE "lookIndex"
      OBVIOUS
    <3>2. PICK g : g = [f EXCEPT !.info = f.open, !.at = to]
      OBVIOUS
    <3>3. file' = [file EXCEPT ![r] = g]
      BY <1>1, <1>9, <2>3, <3>1, <3>2 DEF Static!Stat, Static!At, StaticOK
    <3>4. /\ g \in Files /\ g.at = to /\ g.handles = f.handles
          /\ g.deferred = f.deferred /\ g.open = f.open /\ g.info = f.open
      BY <1>1, <3>2 DEF Files, Busy
    <3>. QED BY <1>1, <2>1, <3>3, <3>4, ActsGoingOn DEF Busy
  <2>. QED BY <2>2, <2>3
<1>10. CASE Static!Decline(r)
  <2>1. PICK g : g = [f EXCEPT !.at = "done"]
    OBVIOUS
  <2>2. f.at = "decide" /\ file' = [file EXCEPT ![r] = g] /\ UNCHANGED <<tree, asks, hops>>
    BY <1>1, <1>10, <2>1 DEF Static!Decline, Static!At, StaticOK
  <2>3. FileOK(g) /\ g \in Files /\ g.at = "done"
    BY <1>1, <2>1, <2>2, Leaves DEF FileOK, Files
  <2>4. PICK a \in Outcomes : answer' = [answer EXCEPT ![r] = a]
    BY <1>10 DEF Static!Decline, Static!Writes, Outcomes
  <2>. QED BY <1>1, <2>2, <2>3, <2>4, ActsAnswering
<1>11. CASE Static!Reject(r)
  <2>1. PICK g : g = [f EXCEPT !.at = "done"]
    OBVIOUS
  <2>2. f.at = "decide" /\ file' = [file EXCEPT ![r] = g] /\ UNCHANGED <<tree, asks, hops>>
    BY <1>1, <1>11, <2>1 DEF Static!Reject, Static!At, StaticOK
  <2>3. FileOK(g) /\ g \in Files /\ g.at = "done"
    BY <1>1, <2>1, <2>2, Leaves DEF FileOK, Files
  <2>4. PICK a \in Outcomes : answer' = [answer EXCEPT ![r] = a]
    BY <1>11 DEF Static!Reject, Static!Writes, Outcomes
  <2>. QED BY <1>1, <2>2, <2>3, <2>4, ActsAnswering
<1>12. CASE Static!Fail(r)
  <2>1. PICK g : g = [f EXCEPT !.at = "done"]
    OBVIOUS
  <2>2. f.at = "failed" /\ file' = [file EXCEPT ![r] = g] /\ UNCHANGED <<tree, asks, hops>>
    BY <1>1, <1>12, <2>1 DEF Static!Fail, Static!At, StaticOK
  <2>3. FileOK(g) /\ g \in Files /\ g.at = "done"
    BY <1>1, <2>1, <2>2, Leaves DEF FileOK, Files
  <2>4. PICK a \in Outcomes : answer' = [answer EXCEPT ![r] = a]
    BY <1>12 DEF Static!Fail, Static!Writes, Outcomes
  <2>. QED BY <1>1, <2>2, <2>3, <2>4, ActsAnswering
<1>13. CASE Static!Unwind(r)
  <2>1. PICK g : g = [f EXCEPT !.at = IF f.err THEN "failed" ELSE "done",
                               !.handles = Static!ClosedBy(f)]
    OBVIOUS
  <2>2. f.at = "unwind" /\ file' = [file EXCEPT ![r] = g] /\ Static!Kept
    BY <1>1, <1>13, <2>1 DEF Static!Unwind, Static!At, StaticOK
  <2>3. FileOK(g) /\ g \in Files /\ g.at \in {"failed", "done"}
    <3>1. FileOK(g)
      BY <1>1, <2>1, <2>2, ClosesAll
    <3>2. g.at \in {"failed", "done"}
      BY <1>1, <2>1 DEF Files
    <3>. QED BY <3>1, <3>2 DEF FileOK
  <2>. QED BY <1>1, <2>2, <2>3, ActsSilently DEF Busy
<1>14. CASE Static!Serve(r)
  <2>1. PICK g : g = [f EXCEPT !.at = "unwind", !.err = FALSE]
    OBVIOUS
  <2>2. /\ f.at \in {"look", "lookIndex"} /\ file' = [file EXCEPT ![r] = g]
        /\ UNCHANGED <<tree, asks, hops>> /\ answer' = [answer EXCEPT ![r] = "content"]
    BY <1>1, <1>14, <2>1 DEF Static!Serve, Static!At, Static!Unwinds, Static!Writes, StaticOK
  <2>3. /\ g \in Files /\ g.at = "unwind" /\ g.handles = f.handles /\ g.deferred = f.deferred
        /\ g.open = f.open /\ g.info = f.info
    BY <1>1, <2>1 DEF Files
  <2>4. FileOK(g)
    BY <1>1, <2>2, <2>3, GoesOn DEF Busy
  <2>5. g.open \in 1..Len(g.handles) /\ g.info = g.open
    BY <1>1, <2>2, <2>3 DEF FileOK
  <2>6. ~g.handles[g.open].dir
    BY <1>1, <1>14, <2>3, <2>5 DEF Static!Serve, Static!InfoIsDir
  <2>. QED BY <1>1, <2>2, <2>3, <2>4, <2>5, <2>6, ActsAnswering DEF Outcomes
<1>15. CASE Static!Redirect(r)
  <2>1. PICK g : g = [f EXCEPT !.at = "unwind", !.err = FALSE]
    OBVIOUS
  <2>2. /\ f.at = "look" /\ file' = [file EXCEPT ![r] = g] /\ tree' = tree
        /\ answer' = [answer EXCEPT ![r] = "302"]
        /\ hops' = [hops EXCEPT ![r] = IF hops[r] = 2 THEN 2 ELSE hops[r] + 1]
        /\ ~asks[r].slash /\ asks' = [asks EXCEPT ![r] = [asks[r] EXCEPT !.slash = TRUE]]
    BY <1>1, <1>15, <2>1
    DEF Static!Redirect, Static!At, Static!Unwinds, Static!Writes, Static!Hopped, StaticOK
  <2>3. /\ g \in Files /\ g.at = "unwind" /\ g.handles = f.handles /\ g.deferred = f.deferred
        /\ g.open = f.open
    BY <1>1, <2>1 DEF Files
  <2>4. FileOK(g)
    BY <1>1, <2>2, <2>3, GoesOn DEF Busy
  <2>5. hops[r] = 0 /\ hops' = [hops EXCEPT ![r] = 1]
    <3>1. hops[r] = 0
      BY <2>2 DEF StaticOK, Filed
    <3>. QED BY <2>2, <3>1
  <2>6. PICK q : q = [asks[r] EXCEPT !.slash = TRUE]
    OBVIOUS
  <2>7. q \in Static!Asks /\ q.slash
    <3>1. asks[r] \in Static!Asks
      BY DEF StaticOK
    <3>. QED BY <2>6, <3>1 DEF Static!Asks
  <2>8. Aside(r) /\ asks'[r] = q /\ hops'[r] = 1 /\ file'[r] = g
    BY <2>2, <2>3, <2>5, <2>6, <2>7 DEF Aside, StaticOK
  <2>9. Answering(r) /\ answer'[r] = "302"
    BY <2>2 DEF Answering, RequestsOK, Outcomes
  <2>10. Filed(r)'
    BY <2>4, <2>7, <2>8, <2>9 DEF Filed
  <2>. QED BY <1>1, <2>2, <2>3, <2>8, <2>9, <2>10 DEF Acts, Busy, Outcomes
<1>. QED
  BY <1>2, <1>3, <1>4, <1>5, <1>6, <1>7, <1>8, <1>9, <1>10, <1>11, <1>12, <1>13, <1>14, <1>15
  DEF Static!StaticStep

LEMMA StaticBegins ==
  ASSUME NEW r \in Requests, StaticOK, NEW via, Static!Begin(r, via)
  PROVE  /\ Aside(r) /\ tree' = tree /\ answer' = answer
         /\ file[r].at = "idle" /\ file'[r].at = "decide"
         /\ FileOK(file'[r]) /\ (hops'[r] = 0 \/ (hops'[r] = 1 /\ asks'[r].slash))
<1>1. PICK f : /\ f = file[r] /\ f \in Files /\ FileOK(f) /\ f.at = "idle"
  BY DEF StaticOK, Filed, Static!Begin, Static!At
<1>2. PICK g : g = [f EXCEPT !.at = "decide"]
  OBVIOUS
<1>3. file' = [file EXCEPT ![r] = g] /\ UNCHANGED <<tree, answer, hops>>
  BY <1>1, <1>2 DEF Static!Begin, StaticOK
<1>4. /\ g \in Files /\ g.at = "decide" /\ g.handles = f.handles /\ g.deferred = f.deferred
      /\ g.open = f.open
  BY <1>1, <1>2 DEF Files, Busy
<1>5. FileOK(g)
  BY <1>1, <1>4, GoesOn DEF Busy
<1>6. PICK q \in Static!Asks : /\ hops[r] > 0 => q = [asks[r] EXCEPT !.via = via]
                               /\ asks' = [asks EXCEPT ![r] = q]
  BY DEF Static!Begin
<1>7. hops[r] = 1 /\ asks[r].slash => q.slash
  <2>1. asks[r] \in Static!Asks
    BY DEF StaticOK
  <2>. QED BY <1>6, <2>1 DEF Static!Asks
<1>8. /\ hops[r] = 0 \/ (hops[r] = 1 /\ asks[r].slash)
      /\ file \in [Requests -> Files] /\ asks \in [Requests -> Static!Asks]
      /\ hops \in [Requests -> Nat]
  BY DEF StaticOK, Filed
<1>9. Aside(r) /\ file'[r] = g /\ asks'[r] = q /\ hops'[r] = hops[r]
  BY <1>3, <1>4, <1>6, <1>8 DEF Aside
<1>. QED BY <1>1, <1>3, <1>4, <1>5, <1>7, <1>8, <1>9

-------------------------------------------------------------------------------
\* EmbedStatic.

LEMMA NamesApart ==
  \A n \in EmbedNames : n \notin Outcomes /\ n # "nothing"
BY SiteAssumption

LEMMA Kinds ==
  EmbedKind \in [EmbedNames -> {"absent", "file", "dir"}]
BY SiteAssumption DEF Embed!EmbedAssumption

\* What a step does to the lookup of a request, and to no other one.
Looking(r) ==
  /\ CacheOK' /\ wants' = wants
  /\ lookup' \in [Requests -> {"idle", "load", "stat", "read", "store", "declined", "done"}]
  /\ \A s \in Requests \ {r} : lookup'[s] = lookup[s]

LEMMA EmbedBegins ==
  ASSUME NEW r \in Requests, RequestsOK, EmbedOK, Embed!Serves(r) \/ Embed!PassesOn(r)
  PROVE  /\ Looking(r) /\ Answering(r) /\ lookup'[r] \in {"load", "declined"}
         /\ answer'[r] \in {answer[r], "next"}
<1>1. CASE Embed!Serves(r)
  BY <1>1 DEF Embed!Serves, Embed!Goes, Looking, Answering, RequestsOK, EmbedOK, CacheOK
<1>2. CASE Embed!PassesOn(r)
  BY <1>2 DEF Embed!PassesOn, Embed!Goes, Embed!Answers, Looking, Answering, RequestsOK, EmbedOK,
    CacheOK, Outcomes
<1>. QED BY <1>1, <1>2

LEMMA EmbedActs ==
  ASSUME NEW r \in Requests, RequestsOK, EmbedOK, Embed!EmbedStep(r), phase'[r] = "embed"
  PROVE  /\ Looking(r) /\ Answering(r) /\ Embedded(r)'
         /\ lookup[r] \in {"load", "stat", "read", "store"} /\ lookup'[r] # "idle"
<1>1. PICK n \in EmbedNames : n = wants[r]
  BY DEF EmbedOK
<1>2. CASE Embed!Load(r)
  <2>1. CASE staticFileInfo[n] # "none"
    <3>1. /\ lookup[r] = "load" /\ lookup' = [lookup EXCEPT ![r] = "done"]
          /\ answer' = [answer EXCEPT ![r] = n] /\ UNCHANGED <<staticFileInfo, wants>>
          /\ EmbedKind[n] = "file"
      BY <1>1, <1>2, <2>1 DEF Embed!Load, Embed!Goes, Embed!Answers, EmbedOK, CacheOK
    <3>. QED BY <1>1, <3>1 DEF Looking, Answering, Embedded, RequestsOK, EmbedOK, CacheOK
  <2>2. CASE staticFileInfo[n] = "none"
    <3>1. /\ lookup[r] = "load" /\ lookup' = [lookup EXCEPT ![r] = "stat"]
          /\ UNCHANGED <<staticFileInfo, wants, answer>>
      BY <1>1, <1>2, <2>2 DEF Embed!Load, Embed!Goes
    <3>. QED BY <1>1, <3>1 DEF Looking, Answering, Embedded, RequestsOK, EmbedOK, CacheOK
  <2>. QED BY <2>1, <2>2
<1>3. CASE Embed!StatEmbed(r)
  <2>1. CASE EmbedKind[n] = "absent"
    <3>1. /\ lookup[r] = "stat" /\ lookup' = [lookup EXCEPT ![r] = "done"]
          /\ answer' = [answer EXCEPT ![r] = "next"] /\ UNCHANGED <<staticFileInfo, wants>>
      BY <1>1, <1>3, <2>1 DEF Embed!StatEmbed, Embed!Goes, Embed!Answers
    <3>. QED
      BY <1>1, <2>1, <3>1 DEF Looking, Answering, Embedded, RequestsOK, EmbedOK, CacheOK, Outcomes
  <2>2. CASE EmbedKind[n] # "absent"
    <3>1. /\ lookup[r] = "stat" /\ lookup' = [lookup EXCEPT ![r] = "read"]
          /\ UNCHANGED <<staticFileInfo, wants, answer>>
      BY <1>1, <1>3, <2>2 DEF Embed!StatEmbed, Embed!Goes
    <3>. QED BY <1>1, <2>2, <3>1 DEF Looking, Answering, Embedded, RequestsOK, EmbedOK, CacheOK
  <2>. QED BY <2>1, <2>2
<1>4. CASE Embed!ReadEmbed(r)
  <2>1. CASE EmbedKind[n] = "dir"
    <3>1. /\ lookup[r] = "read" /\ lookup' = [lookup EXCEPT ![r] = "done"]
          /\ answer' = [answer EXCEPT ![r] = "next"] /\ UNCHANGED <<staticFileInfo, wants>>
      BY <1>1, <1>4, <2>1 DEF Embed!ReadEmbed, Embed!Goes, Embed!Answers
    <3>. QED
      BY <1>1, <2>1, <3>1 DEF Looking, Answering, Embedded, RequestsOK, EmbedOK, CacheOK, Outcomes
  <2>2. CASE EmbedKind[n] # "dir"
    <3>1. /\ lookup[r] = "read" /\ lookup' = [lookup EXCEPT ![r] = "store"]
          /\ UNCHANGED <<staticFileInfo, wants, answer>>
      BY <1>1, <1>4, <2>2 DEF Embed!ReadEmbed, Embed!Goes
    <3>2. EmbedKind[n] = "file"
      BY <1>1, <2>2, <3>1, Kinds DEF EmbedOK, Embedded
    <3>. QED BY <1>1, <3>1, <3>2 DEF Looking, Answering, Embedded, RequestsOK, EmbedOK, CacheOK
  <2>. QED BY <2>1, <2>2
<1>5. CASE Embed!StoreEmbed(r)
  <2>1. /\ lookup[r] = "store" /\ lookup' = [lookup EXCEPT ![r] = "done"]
        /\ answer' = [answer EXCEPT ![r] = n] /\ UNCHANGED wants
        /\ staticFileInfo' = [staticFileInfo EXCEPT ![n] = n]
    BY <1>1, <1>5 DEF Embed!StoreEmbed, Embed!Goes, Embed!Answers
  <2>2. EmbedKind[n] = "file"
    BY <1>1, <2>1 DEF EmbedOK, Embedded
  <2>3. CacheOK'
    BY <2>1, <2>2 DEF EmbedOK, CacheOK
  <2>. QED BY <1>1, <2>1, <2>2, <2>3 DEF Looking, Answering, Embedded, RequestsOK, EmbedOK
<1>. QED BY <1>2, <1>3, <1>4, <1>5 DEF Embed!EmbedStep

-------------------------------------------------------------------------------
\* ProxyRoute.

\* What a step does to the forwarding of a request, and to no other one.
Forwarding(r) ==
  /\ targetURI' = targetURI
  /\ errorHandler # Own => errorHandler' # Own
  /\ brings' \in [Requests -> Proxy!Brings]
  /\ proxy' \in [Requests -> {"idle", "apply", "host", "serve", "sent", "failing", "done"}]
  /\ target' \in [Requests -> Proxy!URL]
  /\ sent' \in [Requests -> Proxy!URL]
  /\ failed' \in [Requests -> BOOLEAN]
  /\ \A s \in Requests \ {r} :
       /\ brings'[s] = brings[s] /\ proxy'[s] = proxy[s] /\ target'[s] = target[s]
       /\ sent'[s] = sent[s] /\ failed'[s] = failed[s]

LEMMA PlainURL == Proxy!Plain \in Proxy!URL /\ DOMAIN [x \in Hosts |-> Proxy!Plain] = Hosts
BY DEF Proxy!Plain, Proxy!URL

LEMMA AppliedURL ==
  ASSUME NEW b \in Proxy!Brings
  PROVE  Proxy!Applied(Proxy!Plain, b) \in Proxy!URL
BY DEF Proxy!Applied, Proxy!Plain, Proxy!URL, Proxy!Brings

\* Whatever its route is, a request starts from the URL as it was configured.
LEMMA BaseIsPlain ==
  ASSUME ProxyOK, NEW b \in Proxy!Brings
  PROVE  Proxy!Base(b) = Proxy!Plain
BY PlainURL DEF ProxyOK, Proxy!Base, Hosts

LEMMA OwnIsNobody == Own \notin Requests
BY SiteAssumption DEF Proxy!ProxyAssumption

LEMMA ProxyBegins ==
  ASSUME NEW r \in Requests, ProxyOK, Proxy!BeginProxy(r)
  PROVE  /\ Forwarding(r) /\ Proxied(r)' /\ answer' = answer
         /\ proxy[r] = "idle" /\ proxy'[r] = "apply"
<1>1. PICK b \in Proxy!Brings : brings' = [brings EXCEPT ![r] = b]
  BY DEF Proxy!BeginProxy
<1>2. /\ proxy[r] = "idle" /\ proxy' = [proxy EXCEPT ![r] = "apply"]
      /\ UNCHANGED <<targetURI, errorHandler, target, sent, failed, answer>>
  BY DEF Proxy!BeginProxy, Proxy!Moves
<1>3. Forwarding(r)
  BY <1>1, <1>2 DEF ProxyOK, Forwarding
<1>4. proxy'[r] = "apply" /\ ~failed'[r]
  BY <1>2 DEF ProxyOK, Proxied
<1>. QED BY <1>2, <1>3, <1>4 DEF Proxied

LEMMA ProxyActs ==
  ASSUME NEW r \in Requests, RequestsOK, ProxyOK, Turn(r), Proxy!ProxyStep(r)
  PROVE  /\ Forwarding(r) /\ Answering(r) /\ Proxied(r)'
         /\ proxy[r] \in {"apply", "host", "serve", "sent", "failing"} /\ proxy'[r] # "idle"
         /\ proxy'[r] # "done" => answer' = answer
         /\ answer'[r] # "302"
<1>1. PICK b : b = brings[r] /\ b \in Proxy!Brings
  BY DEF ProxyOK
<1>2. PICK url : url = Proxy!Applied(Proxy!Plain, b) /\ url \in Proxy!URL
  BY <1>1, AppliedURL
<1>3. proxy[r] \in {"apply", "host", "serve", "sent", "failing"} => answer[r] \in {"none", "next"}
  BY DEF Turn, Unwritten
<1>4. CASE Proxy!ParseFailed(r)
  <2>1. /\ proxy[r] = "apply" /\ proxy' = [proxy EXCEPT ![r] = "done"]
        /\ UNCHANGED <<targetURI, errorHandler, brings, target, sent, failed, answer>>
    BY <1>4 DEF Proxy!ParseFailed, Proxy!Moves
  <2>2. Forwarding(r) /\ Answering(r)
    BY <2>1 DEF ProxyOK, RequestsOK, Forwarding, Answering
  <2>3. proxy'[r] = "done" /\ ~failed'[r] /\ answer'[r] \in {"none", "next"}
    BY <1>3, <2>1 DEF ProxyOK, Proxied
  <2>. QED BY <2>1, <2>2, <2>3 DEF Proxied, Told
<1>5. CASE Proxy!ApplyTarget(r)
  <2>1. /\ proxy[r] = "apply" /\ proxy' = [proxy EXCEPT ![r] = "host"]
        /\ target' = [target EXCEPT ![r] = url]
        /\ UNCHANGED <<targetURI, errorHandler, brings, sent, failed, answer>>
    BY <1>1, <1>2, <1>5, BaseIsPlain DEF Proxy!ApplyTarget, Proxy!Moves
  <2>2. Forwarding(r) /\ Answering(r)
    BY <1>2, <2>1 DEF ProxyOK, RequestsOK, Forwarding, Answering
  <2>3. /\ proxy'[r] = "host" /\ ~failed'[r] /\ target'[r] = url /\ brings'[r] = b
        /\ answer'[r] \in {"none", "next"}
    BY <1>1, <1>3, <2>1 DEF ProxyOK, Proxied
  <2>. QED BY <1>2, <2>1, <2>2, <2>3 DEF Proxied
<1>6. CASE Proxy!RedirectToTarget(r)
  <2>1. /\ proxy[r] = "host" /\ proxy' = [proxy EXCEPT ![r] = "done"]
        /\ answer' = [answer EXCEPT ![r] = "303"]
        /\ UNCHANGED <<targetURI, errorHandler, brings, target, sent, failed>>
    BY <1>6 DEF Proxy!RedirectToTarget, Proxy!Moves, Proxy!Answers
  <2>2. Forwarding(r) /\ Answering(r)
    BY <2>1 DEF ProxyOK, RequestsOK, Forwarding, Answering, Outcomes
  <2>3. proxy'[r] = "done" /\ ~failed'[r] /\ answer'[r] = "303"
    BY <2>1 DEF ProxyOK, Proxied, RequestsOK
  <2>. QED BY <2>1, <2>2, <2>3 DEF Proxied, Told
<1>7. CASE Proxy!SetErrorHandler(r)
  <2>1. /\ proxy[r] = "host" /\ proxy' = [proxy EXCEPT ![r] = "serve"]
        /\ UNCHANGED <<targetURI, brings, target, sent, failed, answer>>
        /\ b.route \in {"hosted", "dynamic"}
        /\ errorHandler' = IF b.route = "hosted" THEN r ELSE errorHandler
    BY <1>1, <1>7 DEF Proxy!SetErrorHandler, Proxy!Moves
  <2>2. /\ errorHandler # Own => errorHandler' # Own
        /\ b.route = "dynamic" \/ errorHandler' # Own
    BY <2>1, OwnIsNobody
  <2>3. Forwarding(r) /\ Answering(r)
    BY <2>1, <2>2 DEF ProxyOK, RequestsOK, Forwarding, Answering
  <2>4. /\ proxy'[r] = "serve" /\ ~failed'[r] /\ target'[r] = url /\ brings'[r] = b
        /\ answer'[r] \in {"none", "next"}
    BY <1>1, <1>2, <1>3, <2>1 DEF ProxyOK, Proxied
  <2>. QED BY <1>2, <2>1, <2>2, <2>3, <2>4 DEF Proxied
<1>8. CASE Proxy!Director(r)
  <2>1. /\ proxy[r] = "serve" /\ target[r] = url
        /\ proxy' = [proxy EXCEPT ![r] = "sent"] /\ sent' = [sent EXCEPT ![r] = url]
        /\ UNCHANGED <<targetURI, errorHandler, brings, target, failed, answer>>
    BY <1>1, <1>2, <1>8, BaseIsPlain DEF Proxy!Director, Proxy!Moves, ProxyOK, Proxied
  <2>2. Forwarding(r) /\ Answering(r)
    BY <1>2, <2>1 DEF ProxyOK, RequestsOK, Forwarding, Answering
  <2>3. /\ proxy'[r] = "sent" /\ ~failed'[r] /\ target'[r] = url /\ sent'[r] = url
        /\ answer'[r] \in {"none", "next"} /\ brings'[r] = b
        /\ b.route = "dynamic" \/ errorHandler' # Own
    BY <1>1, <1>3, <2>1 DEF ProxyOK, Proxied
  <2>. QED BY <1>2, <2>1, <2>2, <2>3 DEF Proxied
<1>9. CASE Proxy!UpstreamAnswers(r)
  <2>1. PICK what \in {"proxied", "cut"} : answer' = [answer EXCEPT ![r] = what]
    BY <1>9 DEF Proxy!UpstreamAnswers, Proxy!Answers
  <2>2. /\ proxy[r] = "sent" /\ proxy' = [proxy EXCEPT ![r] = "done"]
        /\ UNCHANGED <<targetURI, errorHandler, brings, target, sent, failed>>
    BY <1>9 DEF Proxy!UpstreamAnswers, Proxy!Moves
  <2>3. Forwarding(r) /\ Answering(r)
    BY <2>1, <2>2 DEF ProxyOK, RequestsOK, Forwarding, Answering, Outcomes
  <2>4. proxy'[r] = "done" /\ ~failed'[r] /\ answer'[r] = what
    BY <2>1, <2>2 DEF ProxyOK, Proxied, RequestsOK
  <2>. QED BY <2>2, <2>3, <2>4 DEF Proxied, Told
<1>10. CASE Proxy!UpstreamFails(r)
  <2>1. /\ proxy[r] = "sent" /\ proxy' = [proxy EXCEPT ![r] = "failing"]
        /\ failed' = [failed EXCEPT ![r] = TRUE]
        /\ UNCHANGED <<targetURI, errorHandler, brings, target, sent, answer>>
    BY <1>10 DEF Proxy!UpstreamFails, Proxy!Moves
  <2>2. Forwarding(r) /\ Answering(r)
    BY <2>1 DEF ProxyOK, RequestsOK, Forwarding, Answering
  <2>3. /\ proxy'[r] = "failing" /\ failed'[r] /\ target'[r] = url /\ sent'[r] = url
        /\ answer'[r] \in {"none", "next"} /\ brings'[r] = b
        /\ b.route = "dynamic" \/ errorHandler' # Own
    BY <1>1, <1>2, <1>3, <2>1 DEF ProxyOK, Proxied
  <2>. QED BY <1>2, <2>1, <2>2, <2>3 DEF Proxied
<1>11. CASE Proxy!HandleError(r)
  <2>1. /\ proxy[r] = "failing" /\ proxy' = [proxy EXCEPT ![r] = "done"]
        /\ UNCHANGED <<targetURI, errorHandler, brings, target, sent, failed>>
    BY <1>11 DEF Proxy!HandleError, Proxy!Moves
  <2>2. PICK what \in Proxy!Handled(r) : answer' = [answer EXCEPT ![r] = what]
    BY <1>11 DEF Proxy!HandleError, Proxy!Answers
  <2>3. b.route = "dynamic" \/ errorHandler # Own
    BY <1>1, <2>1 DEF ProxyOK, Proxied
  <2>4. what \in IF b.route = "dynamic" THEN {"custom", "none", "500"} ELSE {"500"}
    BY <1>1, <2>2, <2>3 DEF Proxy!Handled
  <2>5. what \in Outcomes /\ what # "302"
    BY <2>4 DEF Outcomes
  <2>6. Forwarding(r) /\ Answering(r)
    BY <2>1, <2>2, <2>5 DEF ProxyOK, RequestsOK, Forwarding, Answering
  <2>7. /\ proxy'[r] = "done" /\ failed'[r] /\ answer'[r] = what /\ brings'[r] = b
        /\ failed[r]
    BY <1>1, <2>1, <2>2 DEF ProxyOK, Proxied, RequestsOK
  <2>8. Proxied(r)'
    BY <2>1, <2>4, <2>7 DEF Proxied, Told
  <2>. QED BY <2>1, <2>5, <2>6, <2>7, <2>8
<1>. QED
  BY <1>4, <1>5, <1>6, <1>7, <1>8, <1>9, <1>10, <1>11 DEF Proxy!ProxyStep

-------------------------------------------------------------------------------
\* UploadRoute.

LEMMA ManyPieces == MaxPieces \in Nat /\ MaxPieces > 0 /\ Old \notin Requests
BY SiteAssumption DEF Upload!UploadAssumption

LEMMA PutsPieces ==
  ASSUME NEW f \in Seq(Pieces), NEW i \in Nat, NEW r \in Requests
  PROVE  Upload!PutAt(f, i, r) \in Seq(Pieces)
<1>1. PICK n \in Nat : n = IF i > Len(f) THEN i ELSE Len(f)
  OBVIOUS
<1>2. \A k \in 1..n : (IF k = i THEN r ELSE IF k <= Len(f) THEN f[k] ELSE Upload!Hole) \in Pieces
  BY DEF Pieces
<1>3. Upload!PutAt(f, i, r) =
        [k \in 1..n |-> IF k = i THEN r ELSE IF k <= Len(f) THEN f[k] ELSE Upload!Hole]
  BY <1>1 DEF Upload!PutAt
<1>. QED BY <1>2, <1>3

\* A handle that goes on where it is.
LEMMA PutsNext ==
  ASSUME NEW k \in Nat, NEW r
  PROVE  Upload!PutAt([i \in 1..k |-> r], k + 1, r) = [i \in 1..(k + 1) |-> r]
<1>1. PICK f : f = [i \in 1..k |-> r]
  OBVIOUS
<1>2. Len(f) = k
  BY <1>1
<1>3. Upload!PutAt(f, k + 1, r) =
        [j \in 1..(k + 1) |-> IF j = k + 1 THEN r ELSE IF j <= k THEN f[j] ELSE Upload!Hole]
  BY <1>2 DEF Upload!PutAt
<1>4. \A j \in 1..(k + 1) : (IF j = k + 1 THEN r ELSE IF j <= k THEN f[j] ELSE Upload!Hole) = r
  BY <1>1
<1>. QED BY <1>1, <1>3, <1>4

\* What a step does to the upload of a request, and to no other one.
Uploading(r) ==
  /\ disk' \in [FileNames -> Seq(Pieces)]
  /\ names' = names
  /\ upload' \in [Requests -> {"idle", "parse", "copy", "ok", "failed", "done"}]
  /\ written' \in [Requests -> 0..MaxPieces]
  /\ overlapped' \in [Requests -> BOOLEAN]
  /\ \A s \in Requests \ {r} : upload'[s] = upload[s] /\ written'[s] = written[s]
  /\ \A n \in FileNames : Single(n)'

\* A step that writes nothing, and opens nothing.
LEMMA NothingPut ==
  ASSUME UploadOK, UNCHANGED <<disk, names, written, overlapped>>,
         \A s \in Requests : upload'[s] = "copy" => upload[s] = "copy",
         NEW n \in FileNames
  PROVE  Single(n)'
BY DEF UploadOK, Single, OneWriter, WrittenBy, Its

LEMMA UploadBegins ==
  ASSUME NEW r \in Requests, UploadOK, Upload!BeginUpload(r)
  PROVE  /\ Uploading(r) /\ Uploaded(r)' /\ answer' = answer
         /\ upload[r] = "idle" /\ upload'[r] = "parse"
<1>1. /\ upload[r] = "idle" /\ upload' = [upload EXCEPT ![r] = "parse"]
      /\ UNCHANGED <<disk, names, written, overlapped, answer>>
  BY DEF Upload!BeginUpload, Upload!Turns
<1>2. \A n \in FileNames : Single(n)'
  BY <1>1, NothingPut DEF UploadOK
<1>. QED BY <1>1, <1>2 DEF UploadOK, Uploading, Uploaded

\* os.Create empties the file; while nobody else has it open, it is the request's.
LEMMA CreateActs ==
  ASSUME NEW r \in Requests, RequestsOK, UploadOK, Upload!Create(r)
  PROVE  /\ Uploading(r) /\ answer' = answer /\ Uploaded(r)'
         /\ upload[r] = "parse" /\ upload'[r] = "copy"
<1>1. PICK m \in FileNames : m = names[r]
  BY DEF UploadOK
<1>2. /\ upload[r] = "parse" /\ upload' = [upload EXCEPT ![r] = "copy"]
      /\ disk' = [disk EXCEPT ![m] = <<>>] /\ UNCHANGED <<names, written, answer>>
  BY <1>1 DEF Upload!Create, Upload!Turns
<1>3. PICK others : others = {s \in Requests \ {r} : upload[s] = "copy" /\ names[s] = names[r]}
  OBVIOUS
<1>4. overlapped' = [s \in Requests |->
                      overlapped[s] \/ s \in others \/ (s = r /\ others # {})]
  BY <1>3 DEF Upload!Create
<1>5. overlapped' \in [Requests -> BOOLEAN]
  BY <1>4 DEF UploadOK
<1>6. written[r] = 0
  BY <1>2 DEF UploadOK, Uploaded
<1>7. ASSUME NEW n \in FileNames, \A s \in Its(n)' : ~overlapped'[s]
      PROVE  OneWriter(n)'
  <2>1. Its(n)' = Its(n) /\ \A s \in Its(n) : ~overlapped[s]
    BY <1>2, <1>4, <1>7 DEF Its
  <2>2. OneWriter(n)
    BY <2>1 DEF UploadOK, Single
  <2>3. CASE n # m
    BY <1>1, <1>2, <2>1, <2>2, <2>3 DEF UploadOK, OneWriter, WrittenBy, Its
  <2>4. CASE n = m
    <3>1. r \in Its(n) /\ others = {}
      BY <1>1, <1>4, <1>7, <2>1, <2>4 DEF Its
    <3>2. \A s \in Its(n) : upload'[s] = "copy" => s = r
      BY <1>1, <1>2, <1>3, <2>4, <3>1 DEF UploadOK, Its
    <3>3. disk'[n] = <<>> /\ written'[r] = 0
      BY <1>2, <1>6, <2>4 DEF UploadOK
    <3>4. WrittenBy(n, r)'
      BY <3>3 DEF WrittenBy
    <3>. QED BY <2>1, <3>2, <3>3, <3>4 DEF OneWriter
  <2>. QED BY <2>3, <2>4
<1>8. \A n \in FileNames : Single(n)'
  BY <1>7 DEF Single
<1>9. Uploading(r)
  <2>1. disk' \in [FileNames -> Seq(Pieces)]
    <3>1. <<>> \in Seq(Pieces) /\ disk \in [FileNames -> Seq(Pieces)]
      BY DEF UploadOK
    <3>. QED BY <1>2, <3>1
  <2>. QED BY <1>2, <1>5, <1>8, <2>1 DEF UploadOK, Uploading
<1>10. Uploaded(r)'
  BY <1>2, <1>6 DEF UploadOK, Uploaded
<1>. QED BY <1>2, <1>9, <1>10 DEF UploadOK

LEMMA CopyActs ==
  ASSUME NEW r \in Requests, RequestsOK, UploadOK, Upload!CopyPiece(r)
  PROVE  /\ Uploading(r) /\ answer' = answer /\ Uploaded(r)'
         /\ upload[r] = "copy" /\ upload'[r] = "copy"
<1>1. PICK m \in FileNames : m = names[r]
  BY DEF UploadOK
<1>2. PICK k \in 0..MaxPieces : k = written[r] /\ k < MaxPieces
  BY DEF Upload!CopyPiece, UploadOK
<1>3. k \in Nat /\ k + 1 \in 0..MaxPieces
  BY <1>2, ManyPieces
<1>4. PICK f, g : f = disk[m] /\ g = Upload!PutAt(f, k + 1, r)
  OBVIOUS
<1>5. /\ upload[r] = "copy" /\ written' = [written EXCEPT ![r] = k + 1]
      /\ disk' = [disk EXCEPT ![m] = g] /\ UNCHANGED <<names, upload, overlapped, answer>>
  BY <1>1, <1>2, <1>4 DEF Upload!CopyPiece
<1>6. f \in Seq(Pieces) /\ g \in Seq(Pieces)
  BY <1>3, <1>4, PutsPieces DEF UploadOK
<1>7. ASSUME NEW n \in FileNames, \A s \in Its(n)' : ~overlapped'[s]
      PROVE  OneWriter(n)'
  <2>1. Its(n)' = Its(n) /\ OneWriter(n)
    BY <1>5, <1>7 DEF UploadOK, Single, Its
  <2>2. CASE n # m
    <3>1. disk'[n] = disk[n] /\ \A s \in Its(n) : written'[s] = written[s]
      BY <1>1, <1>5, <2>2 DEF UploadOK, Its
    <3>2. \A s \in Its(n) : WrittenBy(n, s)' = WrittenBy(n, s)
      BY <3>1 DEF WrittenBy
    <3>. QED BY <1>5, <2>1, <3>1, <3>2 DEF OneWriter
  <2>3. CASE n = m
    <3>1. r \in Its(n) /\ f = [i \in 1..k |-> r]
      BY <1>1, <1>2, <1>4, <1>5, <2>1, <2>3 DEF OneWriter, WrittenBy, Its
    <3>2. g = [i \in 1..(k + 1) |-> r]
      <4>1. Upload!PutAt([i \in 1..k |-> r], k + 1, r) = [i \in 1..(k + 1) |-> r]
        BY <1>3, PutsNext
      <4>. QED BY <1>4, <3>1, <4>1, Zenon
    <3>3. disk'[n] = g /\ written'[r] = k + 1
      BY <1>5, <2>3 DEF UploadOK
    <3>4. WrittenBy(n, r)'
      BY <3>2, <3>3 DEF WrittenBy
    <3>5. \A s \in Its(n) : upload'[s] = "copy" => s = r
      BY <1>5, <2>1, <3>1 DEF OneWriter
    <3>. QED BY <2>1, <3>1, <3>4, <3>5 DEF OneWriter
  <2>. QED BY <2>2, <2>3
<1>8. \A n \in FileNames : Single(n)'
  BY <1>7 DEF Single
<1>9. Uploading(r)
  BY <1>3, <1>5, <1>6, <1>8 DEF UploadOK, Uploading
<1>10. Uploaded(r)'
  BY <1>5 DEF UploadOK, Uploaded
<1>. QED BY <1>5, <1>9, <1>10

LEMMA UploadActs ==
  ASSUME NEW r \in Requests, RequestsOK, UploadOK, Upload!UploadStep(r)
  PROVE  /\ Uploading(r) /\ Answering(r) /\ Uploaded(r)'
         /\ upload[r] \in {"parse", "copy", "ok", "failed"} /\ upload'[r] # "idle"
<1>1. CASE Upload!Create(r)
  BY <1>1, CreateActs DEF Answering, RequestsOK
<1>2. CASE Upload!CopyPiece(r)
  BY <1>2, CopyActs DEF Answering, RequestsOK
<1>3. CASE Upload!FormFails(r) \/ Upload!CopyFails(r)
  <2>1. /\ upload[r] \in {"parse", "copy"} /\ upload' = [upload EXCEPT ![r] = "failed"]
        /\ UNCHANGED <<disk, names, written, overlapped, answer>>
    BY <1>3 DEF Upload!FormFails, Upload!CopyFails, Upload!Turns
  <2>2. written[r] < MaxPieces
    BY <1>3, ManyPieces DEF Upload!FormFails, Upload!CopyFails, Upload!Turns, UploadOK, Uploaded
  <2>3. \A n \in FileNames : Single(n)'
    BY <2>1, NothingPut DEF UploadOK
  <2>. QED BY <2>1, <2>2, <2>3 DEF UploadOK, Uploading, Uploaded, Answering, RequestsOK
<1>4. CASE Upload!Copied(r)
  <2>1. /\ upload[r] = "copy" /\ upload' = [upload EXCEPT ![r] = "ok"] /\ written[r] = MaxPieces
        /\ UNCHANGED <<disk, names, written, overlapped, answer>>
    BY <1>4 DEF Upload!Copied, Upload!Turns
  <2>2. \A n \in FileNames : Single(n)'
    BY <2>1, NothingPut DEF UploadOK
  <2>. QED BY <2>1, <2>2 DEF UploadOK, Uploading, Uploaded, Answering, RequestsOK
<1>5. CASE Upload!AnswerUpload(r)
  <2>1. PICK a \in {"200", "400"} : answer' = [answer EXCEPT ![r] = a]
    BY <1>5 DEF Upload!AnswerUpload
  <2>2. /\ upload[r] = IF a = "200" THEN "ok" ELSE "failed"
        /\ upload' = [upload EXCEPT ![r] = "done"]
        /\ UNCHANGED <<disk, names, written, overlapped>>
    BY <1>5, <2>1 DEF Upload!AnswerUpload, Upload!Turns, RequestsOK
  <2>3. \A n \in FileNames : Single(n)'
    BY <2>2, NothingPut DEF UploadOK
  <2>4. Uploading(r) /\ Answering(r)
    BY <2>1, <2>2, <2>3 DEF UploadOK, Uploading, Answering, RequestsOK, Outcomes
  <2>5. a = IF written[r] = MaxPieces THEN "200" ELSE "400"
    BY <2>1, <2>2 DEF UploadOK, Uploaded
  <2>6. Uploaded(r)'
    BY <2>1, <2>2, <2>5 DEF UploadOK, Uploaded, RequestsOK
  <2>. QED BY <2>1, <2>2, <2>4, <2>6 DEF UploadOK
<1>. QED BY <1>1, <1>2, <1>3, <1>4, <1>5 DEF Upload!UploadStep

-------------------------------------------------------------------------------
\* The site: one request moves, and what it is to the components has been said.

Moving(r) ==
  /\ phase' \in [Requests -> Phases]
  /\ \A s \in Requests \ {r} : phase'[s] = phase[s]

LEMMA Joined ==
  ASSUME BehindChains, NEW r \in Requests, Moving(r), Answering(r),
         Aside(r), tree' = tree, Looking(r), Forwarding(r), Uploading(r),
         Turn(r)', Filed(r)', Embedded(r)', Proxied(r)', Uploaded(r)'
  PROVE  BehindChains'
<1>1. RequestsOK'
  BY DEF RequestsOK, Moving, Answering
<1>2. Turns'
  <2>1. ASSUME NEW s \in Requests, s # r PROVE Turn(s)'
    <3>1. /\ phase'[s] = phase[s] /\ answer'[s] = answer[s] /\ file'[s] = file[s]
          /\ lookup'[s] = lookup[s] /\ proxy'[s] = proxy[s] /\ upload'[s] = upload[s]
      BY <2>1 DEF Moving, Answering, Aside, Looking, Forwarding, Uploading
    <3>2. Turn(s)
      BY DEF BehindChains, Turns
    <3>. QED BY <3>1, <3>2 DEF Turn, Unwritten
  <2>. QED BY <2>1 DEF Turns
<1>3. StaticOK'
  <2>1. ASSUME NEW s \in Requests, s # r PROVE Filed(s)'
    BY <2>1 DEF BehindChains, StaticOK, Filed, Aside, Answering
  <2>. QED BY <2>1 DEF BehindChains, StaticOK, Aside
<1>4. EmbedOK'
  <2>1. ASSUME NEW s \in Requests, s # r PROVE Embedded(s)'
    BY <2>1 DEF BehindChains, EmbedOK, Embedded, Looking, Answering, Moving
  <2>. QED BY <2>1 DEF BehindChains, EmbedOK, Looking
<1>5. ProxyOK'
  <2>1. ASSUME NEW s \in Requests, s # r PROVE Proxied(s)'
    BY <2>1 DEF BehindChains, ProxyOK, Proxied, Told, Forwarding, Answering
  <2>. QED BY <2>1 DEF BehindChains, ProxyOK, Forwarding
<1>6. UploadOK'
  <2>1. ASSUME NEW s \in Requests, s # r PROVE Uploaded(s)'
    BY <2>1 DEF BehindChains, UploadOK, Uploaded, Uploading, Answering
  <2>. QED BY <2>1 DEF BehindChains, UploadOK, Uploading
<1>. QED BY <1>1, <1>2, <1>3, <1>4, <1>5, <1>6 DEF BehindChains

\* A component that a step leaves alone.
LEMMA AsideKept ==
  ASSUME BehindChains, NEW r
  PROVE  /\ UNCHANGED staticVars => Aside(r) /\ tree' = tree
         /\ UNCHANGED embedVars => Looking(r)
         /\ UNCHANGED proxyVars => Forwarding(r)
         /\ UNCHANGED uploadVars => Uploading(r)
         /\ UNCHANGED phase => Moving(r)
         /\ UNCHANGED answer => Answering(r)
<1>1. UNCHANGED staticVars => Aside(r) /\ tree' = tree
  BY DEF BehindChains, StaticOK, Aside, staticVars
<1>2. UNCHANGED embedVars => Looking(r)
  BY DEF BehindChains, EmbedOK, CacheOK, Looking, embedVars
<1>3. UNCHANGED proxyVars => Forwarding(r)
  BY DEF BehindChains, ProxyOK, Forwarding, proxyVars
<1>4. ASSUME UNCHANGED uploadVars PROVE Uploading(r)
  <2>1. \A n \in FileNames : Single(n)'
    BY <1>4, NothingPut DEF BehindChains, uploadVars
  <2>. QED BY <1>4, <2>1 DEF BehindChains, UploadOK, Uploading, uploadVars
<1>5. /\ UNCHANGED phase => Moving(r)
      /\ UNCHANGED answer => Answering(r)
  BY DEF BehindChains, RequestsOK, Moving, Answering
<1>. QED BY <1>1, <1>2, <1>3, <1>4, <1>5

\* A request that no component is at work on goes from place to place.
LEMMA Wanders ==
  ASSUME BehindChains, NEW r \in Requests, NEW p \in Phases, NEW a \in Outcomes \cup EmbedNames,
         phase' = [phase EXCEPT ![r] = p], answer' = [answer EXCEPT ![r] = a],
         UNCHANGED staticVars, UNCHANGED embedVars, UNCHANGED proxyVars, UNCHANGED uploadVars,
         p \in {"new", "chain"} => a \in {"none", "next"},
         file[r].at \in {"idle", "done"}, lookup[r] \in {"idle", "declined", "done"},
         proxy[r] \in {"idle", "done"}, upload[r] \in {"idle", "done"},
         a = answer[r] \/ (a \in Outcomes /\ answer[r] \in {"none", "next"} /\ 
                           a \notin {"302", "custom", "500", "502"}),
         proxy[r] = "done" => p = "over" /\ a \in {answer[r], "204"},
         upload[r] = "done" => p = "over" /\ a = answer[r],
         lookup[r] = "done" /\ EmbedKind[wants[r]] = "file" => p = "over" /\ a = answer[r]
  PROVE  BehindChains'
<1>1. /\ Aside(r) /\ tree' = tree /\ Looking(r) /\ Forwarding(r) /\ Uploading(r)
  BY AsideKept
<1>2. Moving(r) /\ Answering(r) /\ phase'[r] = p /\ answer'[r] = a
  BY DEF Moving, Answering, BehindChains, RequestsOK
<1>3. Turn(r)'
  BY <1>2 DEF BehindChains, Turns, Turn, Unwritten, Busy, staticVars, embedVars, proxyVars, uploadVars
<1>4. Filed(r)'
  BY <1>2 DEF BehindChains, StaticOK, Filed, staticVars
<1>5. Embedded(r)'
  BY <1>2 DEF BehindChains, EmbedOK, Embedded, embedVars
<1>6. Proxied(r)'
  BY <1>2 DEF BehindChains, ProxyOK, Proxied, Told, proxyVars
<1>7. Uploaded(r)'
  BY <1>2 DEF BehindChains, UploadOK, Uploaded, uploadVars
<1>. QED BY <1>1, <1>2, <1>3, <1>4, <1>5, <1>6, <1>7, Joined

\* Proxies and uploads answer what they mean, never the name of a file.
LEMMA AnswersAreOutcomes ==
  ASSUME RequestsOK, NEW r \in Requests, Proxy!ProxyStep(r) \/ Upload!UploadStep(r)
  PROVE  answer'[r] = answer[r] \/ answer'[r] \in Outcomes
<1>1. \/ answer' = answer
      \/ \E a \in {"303", "proxied", "cut", "custom", "none", "500", "502", "200", "400"} :
           answer' = [answer EXCEPT ![r] = a]
  BY DEF Proxy!ProxyStep, Proxy!ParseFailed, Proxy!ApplyTarget, Proxy!RedirectToTarget,
    Proxy!SetErrorHandler, Proxy!Director, Proxy!UpstreamAnswers, Proxy!UpstreamFails,
    Proxy!HandleError, Proxy!Handled, Proxy!Answers, Upload!UploadStep, Upload!FormFails, Upload!Create,
    Upload!CopyPiece, Upload!CopyFails, Upload!Copied, Upload!AnswerUpload
<1>. QED BY <1>1 DEF RequestsOK, Outcomes

LEMMA StaticWorks ==
  ASSUME BehindChains, NEW r \in Requests, phase[r] = "static", UNCHANGED phase,
         Static!StaticStep(r), UNCHANGED embedVars, UNCHANGED proxyVars, UNCHANGED uploadVars
  PROVE  BehindChains'
<1>1. Acts(r) /\ Turn(r)
  BY StaticActs DEF BehindChains, Turns
<1>2. Looking(r) /\ Forwarding(r) /\ Uploading(r) /\ Moving(r)
  BY AsideKept
<1>3. Turn(r)'
  BY <1>1 DEF Acts, Turn, Unwritten, Busy, embedVars, proxyVars, uploadVars
<1>4. Embedded(r)'
  BY <1>1 DEF BehindChains, EmbedOK, Embedded, embedVars, Acts
<1>5. Proxied(r)'
  BY <1>1 DEF BehindChains, ProxyOK, Proxied, proxyVars, Turn
<1>6. Uploaded(r)'
  BY <1>1 DEF BehindChains, UploadOK, Uploaded, uploadVars, Turn
<1>. QED BY <1>1, <1>2, <1>3, <1>4, <1>5, <1>6, Joined DEF Acts

LEMMA EmbedWorks ==
  ASSUME BehindChains, NEW r \in Requests, phase[r] = "embed", UNCHANGED phase,
         Embed!EmbedStep(r), UNCHANGED staticVars, UNCHANGED proxyVars, UNCHANGED uploadVars
  PROVE  BehindChains'
<1>1. /\ Looking(r) /\ Answering(r) /\ Embedded(r)'
      /\ lookup[r] \in {"load", "stat", "read", "store"} /\ lookup'[r] # "idle" /\ Turn(r)
  BY EmbedActs DEF BehindChains, Turns
<1>2. Aside(r) /\ tree' = tree /\ Forwarding(r) /\ Uploading(r) /\ Moving(r)
  BY AsideKept
<1>3. Turn(r)'
  BY <1>1 DEF Turn, Unwritten, Busy, staticVars, proxyVars, uploadVars
<1>4. Filed(r)'
  BY <1>1 DEF BehindChains, StaticOK, Filed, staticVars, Turn
<1>5. Proxied(r)'
  BY <1>1 DEF BehindChains, ProxyOK, Proxied, proxyVars, Turn
<1>6. Uploaded(r)'
  BY <1>1 DEF BehindChains, UploadOK, Uploaded, uploadVars, Turn
<1>. QED BY <1>1, <1>2, <1>3, <1>4, <1>5, <1>6, Joined

LEMMA ProxyWorks ==
  ASSUME BehindChains, NEW r \in Requests, phase[r] = "proxy", UNCHANGED phase,
         Proxy!ProxyStep(r), UNCHANGED staticVars, UNCHANGED embedVars, UNCHANGED uploadVars
  PROVE  BehindChains'
<1>1. /\ Forwarding(r) /\ Answering(r) /\ Proxied(r)'
      /\ proxy[r] \in {"apply", "host", "serve", "sent", "failing"} /\ proxy'[r] # "idle"
      /\ proxy'[r] # "done" => answer' = answer
      /\ answer'[r] # "302" /\ Turn(r)
  BY ProxyActs DEF BehindChains, Turns
<1>2. Aside(r) /\ tree' = tree /\ Looking(r) /\ Uploading(r) /\ Moving(r)
  BY AsideKept
<1>3. Turn(r)'
  BY <1>1 DEF Turn, Unwritten, Busy, staticVars, embedVars, uploadVars
<1>4. Filed(r)'
  BY <1>1 DEF BehindChains, StaticOK, Filed, staticVars, Turn
<1>5. Embedded(r)'
  BY <1>1, AnswersAreOutcomes DEF BehindChains, EmbedOK, Embedded, embedVars, Turn
<1>6. Uploaded(r)'
  BY <1>1 DEF BehindChains, UploadOK, Uploaded, uploadVars, Turn
<1>. QED BY <1>1, <1>2, <1>3, <1>4, <1>5, <1>6, Joined

LEMMA UploadWorks ==
  ASSUME BehindChains, NEW r \in Requests, phase[r] = "upload", UNCHANGED phase,
         Upload!UploadStep(r), UNCHANGED staticVars, UNCHANGED embedVars, UNCHANGED proxyVars
  PROVE  BehindChains'
<1>1. /\ Uploading(r) /\ Answering(r) /\ Uploaded(r)' /\ upload'[r] # "idle" /\ Turn(r)
      /\ upload[r] \in {"parse", "copy", "ok", "failed"}
  BY UploadActs DEF BehindChains, Turns
<1>2. Aside(r) /\ tree' = tree /\ Looking(r) /\ Forwarding(r) /\ Moving(r)
  BY AsideKept
<1>3. Turn(r)'
  BY <1>1 DEF Turn, Unwritten, Busy, staticVars, embedVars, proxyVars
<1>4. Filed(r)'
  BY <1>1 DEF BehindChains, StaticOK, Filed, staticVars, Turn
<1>5. Embedded(r)'
  BY <1>1, AnswersAreOutcomes DEF BehindChains, EmbedOK, Embedded, embedVars, Turn
<1>6. Proxied(r)'
  BY <1>1 DEF BehindChains, ProxyOK, Proxied, proxyVars, Turn
<1>. QED BY <1>1, <1>2, <1>3, <1>4, <1>5, <1>6, Joined

\* A request enters a component that has not had it yet.
LEMMA StaticEnters ==
  ASSUME BehindChains, NEW r \in Requests, Enters(r, "chain", "static"), NEW via,
         Static!Begin(r, via), UNCHANGED embedVars, UNCHANGED proxyVars, UNCHANGED uploadVars
  PROVE  BehindChains'
<1>1. /\ Aside(r) /\ tree' = tree /\ answer' = answer
      /\ file[r].at = "idle" /\ file'[r].at = "decide" /\ FileOK(file'[r])
      /\ hops'[r] = 0 \/ (hops'[r] = 1 /\ asks'[r].slash)
  BY StaticBegins DEF BehindChains
<1>2. Answering(r) /\ Looking(r) /\ Forwarding(r) /\ Uploading(r)
  BY <1>1, AsideKept
<1>3. Moving(r) /\ phase[r] = "chain" /\ phase'[r] = "static"
  BY DEF Enters, Moving, BehindChains, RequestsOK, Phases
<1>4. Turn(r)'
  BY <1>1, <1>3 DEF BehindChains, Turns, Turn, Unwritten, embedVars, proxyVars, uploadVars
<1>5. Filed(r)'
  BY <1>1 DEF Filed
<1>6. Embedded(r)'
  BY <1>1, <1>3 DEF BehindChains, EmbedOK, Embedded, embedVars
<1>7. Proxied(r)'
  BY <1>1 DEF BehindChains, ProxyOK, Proxied, Told, proxyVars
<1>8. Uploaded(r)'
  BY <1>1 DEF BehindChains, UploadOK, Uploaded, uploadVars
<1>. QED BY <1>1, <1>2, <1>3, <1>4, <1>5, <1>6, <1>7, <1>8, Joined

LEMMA EmbedEnters ==
  ASSUME BehindChains, NEW r \in Requests, Enters(r, "chain", "embed"),
         Embed!Serves(r) \/ Embed!PassesOn(r),
         UNCHANGED staticVars, UNCHANGED proxyVars, UNCHANGED uploadVars
  PROVE  BehindChains'
<1>1. /\ Looking(r) /\ Answering(r) /\ lookup'[r] \in {"load", "declined"}
      /\ answer'[r] \in {answer[r], "next"}
  BY EmbedBegins DEF BehindChains
<1>2. Aside(r) /\ tree' = tree /\ Forwarding(r) /\ Uploading(r)
  BY AsideKept
<1>3. Moving(r) /\ phase[r] = "chain" /\ phase'[r] = "embed"
  BY DEF Enters, Moving, BehindChains, RequestsOK, Phases
<1>4. Turn(r) /\ Unwritten(r)
  BY <1>3 DEF BehindChains, Turns, Turn
<1>5. Turn(r)'
  BY <1>1, <1>3, <1>4 DEF Turn, Unwritten, Busy, staticVars, proxyVars, uploadVars
<1>6. Filed(r)'
  BY <1>1 DEF BehindChains, StaticOK, Filed, staticVars
<1>7. Embedded(r)'
  BY <1>1 DEF Embedded
<1>8. Proxied(r)'
  BY <1>1, <1>3, <1>4 DEF BehindChains, ProxyOK, Proxied, proxyVars, Turn
<1>9. Uploaded(r)'
  BY <1>1, <1>3, <1>4 DEF BehindChains, UploadOK, Uploaded, uploadVars, Turn
<1>. QED BY <1>1, <1>2, <1>3, <1>5, <1>6, <1>7, <1>8, <1>9, Joined

LEMMA ProxyEnters ==
  ASSUME BehindChains, NEW r \in Requests, Enters(r, "chain", "proxy"), Proxy!BeginProxy(r),
         UNCHANGED staticVars, UNCHANGED embedVars, UNCHANGED uploadVars
  PROVE  BehindChains'
<1>1. /\ Forwarding(r) /\ Proxied(r)' /\ answer' = answer
      /\ proxy[r] = "idle" /\ proxy'[r] = "apply"
  BY ProxyBegins DEF BehindChains
<1>2. Answering(r) /\ Aside(r) /\ tree' = tree /\ Looking(r) /\ Uploading(r)
  BY <1>1, AsideKept
<1>3. Moving(r) /\ phase[r] = "chain" /\ phase'[r] = "proxy"
  BY DEF Enters, Moving, BehindChains, RequestsOK, Phases
<1>4. Turn(r)'
  BY <1>1, <1>3 DEF BehindChains, Turns, Turn, Unwritten, Busy, staticVars, embedVars, uploadVars
<1>5. Filed(r)'
  BY <1>1 DEF BehindChains, StaticOK, Filed, staticVars
<1>6. Embedded(r)'
  BY <1>1, <1>3 DEF BehindChains, EmbedOK, Embedded, embedVars
<1>7. Uploaded(r)'
  BY <1>1 DEF BehindChains, UploadOK, Uploaded, uploadVars
<1>. QED BY <1>1, <1>2, <1>3, <1>4, <1>5, <1>6, <1>7, Joined

LEMMA UploadEnters ==
  ASSUME BehindChains, NEW r \in Requests, Enters(r, "chain", "upload"), Upload!BeginUpload(r),
         UNCHANGED staticVars, UNCHANGED embedVars, UNCHANGED proxyVars
  PROVE  BehindChains'
<1>1. /\ Uploading(r) /\ Uploaded(r)' /\ answer' = answer
      /\ upload[r] = "idle" /\ upload'[r] = "parse"
  BY UploadBegins DEF BehindChains
<1>2. Answering(r) /\ Aside(r) /\ tree' = tree /\ Looking(r) /\ Forwarding(r)
  BY <1>1, AsideKept
<1>3. Moving(r) /\ phase[r] = "chain" /\ phase'[r] = "upload"
  BY DEF Enters, Moving, BehindChains, RequestsOK, Phases
<1>4. Turn(r)'
  BY <1>1, <1>3 DEF BehindChains, Turns, Turn, Unwritten, Busy, staticVars, embedVars, proxyVars
<1>5. Filed(r)'
  BY <1>1 DEF BehindChains, StaticOK, Filed, staticVars
<1>6. Embedded(r)'
  BY <1>1, <1>3 DEF BehindChains, EmbedOK, Embedded, embedVars
<1>7. Proxied(r)'
  BY <1>1 DEF BehindChains, ProxyOK, Proxied, Told, proxyVars
<1>. QED BY <1>1, <1>2, <1>3, <1>4, <1>5, <1>6, <1>7, Joined

\* It begins again with nothing open, and may have been nowhere but with the files.
LEMMA ComesBack ==
  ASSUME BehindChains, NEW r \in Requests, FollowRedirect(r)
  PROVE  BehindChains'
<1>1. /\ answer[r] = "302" /\ answer' = [answer EXCEPT ![r] = "none"]
      /\ phase[r] = "over" /\ phase' = [phase EXCEPT ![r] = "new"]
      /\ file' = [file EXCEPT ![r] = Static!Closed("idle")]
      /\ UNCHANGED <<tree, asks, hops>>
      /\ UNCHANGED embedVars /\ UNCHANGED proxyVars /\ UNCHANGED uploadVars
  BY DEF FollowRedirect, Enters
<1>2. Looking(r) /\ Forwarding(r) /\ Uploading(r)
  BY <1>1, AsideKept
<1>3. /\ Moving(r) /\ phase'[r] = "new" /\ Answering(r) /\ answer'[r] = "none"
  BY <1>1 DEF Moving, Answering, BehindChains, RequestsOK, Phases, Outcomes
<1>4. PICK f : f = Static!Closed("idle")
  OBVIOUS
<1>5. FileOK(f) /\ f.at = "idle" /\ f \in Files
  BY <1>4, NothingOpen DEF FileOK
<1>6. Aside(r) /\ tree' = tree /\ file'[r] = f
  BY <1>1, <1>4, <1>5 DEF Aside, BehindChains, StaticOK
<1>7. Filed(r)'
  BY <1>1, <1>5, <1>6 DEF Filed, BehindChains, StaticOK
<1>8. Turn(r) /\ Uploaded(r) /\ Embedded(r) /\ Proxied(r)
  BY DEF BehindChains, Turns, UploadOK, EmbedOK, ProxyOK
<1>9. ~(lookup[r] = "done" /\ EmbedKind[wants[r]] = "file")
  BY <1>1, <1>8, NamesApart DEF Embedded, BehindChains, EmbedOK, Outcomes
<1>10. upload[r] # "done" /\ proxy[r] # "done"
  BY <1>1, <1>8 DEF Uploaded, Turn
<1>11. Turn(r)'
  BY <1>1, <1>3, <1>5, <1>6, <1>8, <1>10
  DEF Turn, Unwritten, Busy, embedVars, proxyVars, uploadVars
<1>12. Embedded(r)'
  BY <1>1, <1>3, <1>8, <1>9 DEF Embedded, embedVars, Outcomes
<1>13. Proxied(r)'
  BY <1>1, <1>3, <1>8, <1>10 DEF Proxied, proxyVars
<1>14. Uploaded(r)'
  BY <1>1, <1>3, <1>8, <1>10 DEF Uploaded, uploadVars
<1>. QED BY <1>2, <1>3, <1>6, <1>7, <1>11, <1>12, <1>13, <1>14, Joined

LEMMA ServeKeeps ==
  ASSUME BehindChains, NEW r \in Requests, Serve(r)
  PROVE  BehindChains'
<1>1. /\ phase \in [Requests -> Phases] /\ answer \in [Requests -> Outcomes \cup EmbedNames]
      /\ answer = [answer EXCEPT ![r] = answer[r]]
  BY DEF BehindChains, RequestsOK
<1>2. Turn(r) /\ Uploaded(r) /\ Embedded(r)
  BY DEF BehindChains, Turns, UploadOK, EmbedOK
<1>3. file[r].at \in Busy \cup {"idle", "unwind", "failed", "done"}
  BY DEF BehindChains, StaticOK, Files
<1>4. /\ lookup[r] \in {"idle", "load", "stat", "read", "store", "declined", "done"}
      /\ proxy[r] \in {"idle", "apply", "host", "serve", "sent", "failing", "done"}
      /\ upload[r] \in {"idle", "parse", "copy", "ok", "failed", "done"}
  BY DEF BehindChains, EmbedOK, ProxyOK, UploadOK
<1>5. ASSUME phase[r] \in {"new", "chain"}
      PROVE  /\ file[r].at \in {"idle", "done"} /\ lookup[r] \in {"idle", "declined", "done"}
             /\ proxy[r] = "idle" /\ upload[r] = "idle" /\ answer[r] \in {"none", "next"}
             /\ ~(lookup[r] = "done" /\ EmbedKind[wants[r]] = "file")
  BY <1>2, <1>3, <1>4, <1>5 DEF Turn, Unwritten, Embedded, Busy
<1>6. CASE ServeHTTP(r)
  <2>1. /\ phase[r] = "new" /\ phase' = [phase EXCEPT ![r] = "chain"] /\ answer' = answer
        /\ UNCHANGED staticVars /\ UNCHANGED embedVars /\ UNCHANGED proxyVars
        /\ UNCHANGED uploadVars
    BY <1>6 DEF ServeHTTP, Enters
  <2>. QED BY <1>1, <1>5, <2>1, Wanders DEF Phases
<1>7. CASE NoRoute(r)
  <2>1. /\ phase[r] = "chain" /\ phase' = [phase EXCEPT ![r] = "over"]
        /\ answer' = [answer EXCEPT ![r] = "404"]
        /\ UNCHANGED staticVars /\ UNCHANGED embedVars /\ UNCHANGED proxyVars
        /\ UNCHANGED uploadVars
    BY <1>7 DEF NoRoute, Enters
  <2>. QED BY <1>5, <2>1, Wanders DEF Phases, Outcomes
<1>8. CASE CallMiddleware(r)
  <2>1. /\ phase[r] = "chain" /\ UNCHANGED proxyVars /\ UNCHANGED uploadVars
        /\ \/ /\ Enters(r, "chain", "static") /\ Static!Begin(r, "middleware")
              /\ UNCHANGED embedVars
           \/ /\ Enters(r, "chain", "embed") /\ (Embed!Serves(r) \/ Embed!PassesOn(r))
              /\ UNCHANGED staticVars
           \/ /\ UNCHANGED phase /\ UNCHANGED answer /\ UNCHANGED staticVars
              /\ UNCHANGED embedVars
    BY <1>8 DEF CallMiddleware
  <2>2. CASE /\ UNCHANGED phase /\ UNCHANGED answer /\ UNCHANGED staticVars
             /\ UNCHANGED embedVars
    <3>1. phase' = [phase EXCEPT ![r] = "chain"]
      BY <1>1, <2>1, <2>2
    <3>2. answer' = [answer EXCEPT ![r] = answer[r]] /\ answer[r] \in Outcomes \cup EmbedNames
      BY <1>1, <2>2
    <3>3. "chain" \in Phases
      BY DEF Phases
    <3>. QED BY <1>5, <2>1, <2>2, <3>1, <3>2, <3>3, Wanders
  <2>3. CASE /\ Enters(r, "chain", "static") /\ Static!Begin(r, "middleware")
             /\ UNCHANGED embedVars
    BY <2>1, <2>3, StaticEnters
  <2>4. CASE /\ Enters(r, "chain", "embed") /\ (Embed!Serves(r) \/ Embed!PassesOn(r))
             /\ UNCHANGED staticVars
    BY <2>1, <2>4, EmbedEnters
  <2>. QED BY <2>1, <2>2, <2>3, <2>4
<1>9. CASE Resume(r)
  <2>1. /\ \/ phase[r] = "static" /\ file[r].at = "done"
           \/ phase[r] = "embed" /\ lookup[r] \in {"done", "declined"}
        /\ answer' = answer /\ UNCHANGED staticVars /\ UNCHANGED embedVars
        /\ UNCHANGED proxyVars /\ UNCHANGED uploadVars
    BY <1>9 DEF Resume, Static!At
  <2>2. PICK p \in {"chain", "over"} : /\ phase' = [phase EXCEPT ![r] = p]
                                       /\ p = "chain" => Unwritten(r)
    BY <1>9 DEF Resume, Enters
  <2>3. /\ file[r].at \in {"idle", "done"} /\ lookup[r] \in {"idle", "declined", "done"}
        /\ proxy[r] = "idle" /\ upload[r] = "idle"
    BY <1>2, <1>3, <1>4, <2>1 DEF Turn, Busy
  <2>4. lookup[r] = "done" /\ EmbedKind[wants[r]] = "file" => p = "over"
    BY <1>2, <2>2, NamesApart DEF Embedded, BehindChains, EmbedOK, Outcomes, Unwritten
  <2>. QED BY <1>1, <2>1, <2>2, <2>3, <2>4, Wanders DEF Phases, Unwritten
<1>10. CASE HandlerReturns(r)
  <2>1. /\ \/ phase[r] = "static" /\ file[r].at = "done"
           \/ phase[r] = "proxy" /\ proxy[r] = "done"
           \/ phase[r] = "upload" /\ upload[r] = "done"
        /\ phase' = [phase EXCEPT ![r] = "over"]
        /\ UNCHANGED staticVars /\ UNCHANGED embedVars
        /\ UNCHANGED proxyVars /\ UNCHANGED uploadVars
    BY <1>10 DEF HandlerReturns, Static!At, Enters
  <2>2. PICK a \in Outcomes \cup EmbedNames :
          /\ answer' = [answer EXCEPT ![r] = a]
          /\ a = IF Unwritten(r) THEN "204" ELSE answer[r]
    BY <1>1, <1>10 DEF HandlerReturns, Outcomes
  <2>3. /\ file[r].at \in {"idle", "done"} /\ lookup[r] \in {"idle", "declined", "done"}
        /\ proxy[r] \in {"idle", "done"} /\ upload[r] \in {"idle", "done"}
        /\ ~(lookup[r] = "done" /\ EmbedKind[wants[r]] = "file")
    BY <1>2, <1>3, <1>4, <2>1 DEF Turn, Busy, Embedded
  <2>4. upload[r] = "done" => a = answer[r]
    BY <1>2, <2>2 DEF Uploaded, Unwritten
  <2>5. a = answer[r] \/ (a = "204" /\ answer[r] \in {"none", "next"})
    BY <2>2 DEF Unwritten
  <2>. QED BY <2>1, <2>2, <2>3, <2>4, <2>5, Wanders DEF Phases, Outcomes
<1>11. CASE CallRoute(r)
  <2>1. phase[r] = "chain"
    BY <1>11 DEF CallRoute
  <2>2. \/ /\ Enters(r, "chain", "static") /\ Static!Begin(r, "handler")
           /\ UNCHANGED embedVars /\ UNCHANGED proxyVars /\ UNCHANGED uploadVars
        \/ /\ Enters(r, "chain", "proxy") /\ Proxy!BeginProxy(r)
           /\ UNCHANGED staticVars /\ UNCHANGED embedVars /\ UNCHANGED uploadVars
        \/ /\ Enters(r, "chain", "upload") /\ Upload!BeginUpload(r)
           /\ UNCHANGED staticVars /\ UNCHANGED embedVars /\ UNCHANGED proxyVars
        \/ /\ phase' = [phase EXCEPT ![r] = "over"]
           /\ answer' = [answer EXCEPT ![r] = "303"]
           /\ UNCHANGED staticVars /\ UNCHANGED embedVars
           /\ UNCHANGED proxyVars /\ UNCHANGED uploadVars
    BY <1>11 DEF CallRoute, Enters
  <2>3. CASE /\ phase' = [phase EXCEPT ![r] = "over"]
             /\ answer' = [answer EXCEPT ![r] = "303"]
             /\ UNCHANGED staticVars /\ UNCHANGED embedVars
             /\ UNCHANGED proxyVars /\ UNCHANGED uploadVars
    BY <1>5, <2>1, <2>3, Wanders DEF Phases, Outcomes
  <2>. QED BY <2>2, <2>3, StaticEnters, ProxyEnters, UploadEnters
<1>12. CASE InComponent(r)
  BY <1>12, StaticWorks, EmbedWorks, ProxyWorks, UploadWorks DEF InComponent
<1>. QED
  BY <1>6, <1>7, <1>8, <1>9, <1>10, <1>11, <1>12 DEF Serve

\* Somebody else changes the tree: names and kinds stay, and nobody's files do.
LEMMA TreeKeeps ==
  ASSUME BehindChains, ChangeTree
  PROVE  BehindChains'
<1>1. PICK page \in Static!Names, k \in Static!Kinds :
        /\ tree' = [tree EXCEPT ![page] = k] /\ UNCHANGED <<file, asks, hops>>
  BY DEF ChangeTree, Static!TreeChanges
<1>2. /\ UNCHANGED <<phase, answer>> /\ UNCHANGED embedVars /\ UNCHANGED proxyVars
      /\ UNCHANGED uploadVars
  BY DEF ChangeTree, Static!TreeChanges
<1>3. RequestsOK' /\ Turns'
  BY <1>1, <1>2
  DEF BehindChains, RequestsOK, Turns, Turn, Unwritten, embedVars, proxyVars, uploadVars
<1>4. StaticOK'
  BY <1>1, <1>2 DEF BehindChains, StaticOK, Filed
<1>5. EmbedOK'
  BY <1>2 DEF BehindChains, EmbedOK, CacheOK, Embedded, embedVars
<1>6. ProxyOK'
  BY <1>2 DEF BehindChains, ProxyOK, Proxied, Told, proxyVars
<1>7. UploadOK'
  <2>1. \A n \in FileNames : Single(n)'
    BY <1>2, NothingPut DEF BehindChains, uploadVars
  <2>. QED BY <1>2, <2>1 DEF BehindChains, UploadOK, Uploaded, uploadVars
<1>. QED BY <1>3, <1>4, <1>5, <1>6, <1>7 DEF BehindChains

\* Who stands still, or appends a middleware, touches nothing of this.
LEMMA NothingMoves ==
  ASSUME BehindChains, UNCHANGED <<phase, answer>>, UNCHANGED staticVars, UNCHANGED embedVars,
         UNCHANGED proxyVars, UNCHANGED uploadVars
  PROVE  BehindChains'
<1>1. RequestsOK' /\ Turns'
  BY DEF BehindChains, RequestsOK, Turns, Turn, Unwritten, staticVars, embedVars, proxyVars,
    uploadVars
<1>2. StaticOK'
  BY DEF BehindChains, StaticOK, Filed, staticVars
<1>3. EmbedOK'
  BY DEF BehindChains, EmbedOK, CacheOK, Embedded, embedVars
<1>4. ProxyOK'
  BY DEF BehindChains, ProxyOK, Proxied, Told, proxyVars
<1>5. UploadOK'
  <2>1. \A n \in FileNames : Single(n)'
    BY NothingPut DEF BehindChains, uploadVars
  <2>. QED BY <2>1 DEF BehindChains, UploadOK, Uploaded, uploadVars
<1>. QED BY <1>1, <1>2, <1>3, <1>4, <1>5 DEF BehindChains

LEMMA StepKeeps ==
  ASSUME IInv, [Next]_vars
  PROVE  IInv'
<1>1. ChainsOK'
  BY ChainsKeep DEF IInv
<1>2. BehindChains
  BY DEF IInv
<1>3. CASE UNCHANGED vars \/ Use
  <2>1. /\ UNCHANGED <<phase, answer>> /\ UNCHANGED staticVars /\ UNCHANGED embedVars
        /\ UNCHANGED proxyVars /\ UNCHANGED uploadVars
    BY <1>3 DEF vars, Use
  <2>. QED BY <1>1, <1>2, <2>1, NothingMoves DEF IInv
<1>4. CASE ChangeTree
  BY <1>1, <1>2, <1>4, TreeKeeps DEF IInv
<1>5. ASSUME NEW r \in Requests, Serve(r) \/ FollowRedirect(r) PROVE BehindChains'
  BY <1>2, <1>5, ServeKeeps, ComesBack
<1>. QED BY <1>1, <1>3, <1>4, <1>5 DEF Next, IInv

LEMMA SiteBegins == Init => IInv
<1>. SUFFICES ASSUME Init PROVE IInv
  OBVIOUS
<1>1. ChainsOK
  BY ChainsBegin DEF Init
<1>2. RequestsOK
  BY DEF Init, RequestsOK, Phases, Outcomes
<1>3. /\ tree \in [Static!Names -> Static!Kinds]
      /\ file = [r \in Requests |-> Static!Closed("idle")]
      /\ asks = [r \in Requests |->
                   [via |-> "handler", get |-> TRUE, where |-> "under", slash |-> FALSE]]
      /\ hops = [r \in Requests |-> 0]
  BY DEF Init, Static!StaticInit
<1>4. StaticOK
  <2>1. PICK f : f = Static!Closed("idle") /\ FileOK(f) /\ f.at = "idle" /\ f \in Files
    BY NothingOpen DEF FileOK
  <2>2. [via |-> "handler", get |-> TRUE, where |-> "under", slash |-> FALSE] \in Static!Asks
    BY DEF Static!Asks, Static!Where
  <2>3. \A r \in Requests : Filed(r)
    BY <1>3, <2>1 DEF Filed
  <2>. QED BY <1>3, <2>1, <2>2, <2>3 DEF StaticOK
<1>5. EmbedOK
  BY DEF Init, Embed!EmbedInit, EmbedOK, CacheOK, Embedded
<1>6. ProxyOK
  <2>1. Proxy!Plain \in Proxy!URL
    BY PlainURL
  <2>2. [route |-> "illegal", tag |-> Own, query |-> Own] \in Proxy!Brings
    BY DEF Proxy!Brings, Proxy!Routes
  <2>. QED BY <2>1, <2>2 DEF Init, Proxy!ProxyInit, ProxyOK, Proxied, Hosts
<1>7. /\ disk \in [FileNames -> {<<>>, Upload!Whole(Old)}]
      /\ names \in [Requests -> FileNames]
      /\ upload = [r \in Requests |-> "idle"]
      /\ written = [r \in Requests |-> 0]
      /\ overlapped = [r \in Requests |-> FALSE]
  BY DEF Init, Upload!UploadInit
<1>8. UploadOK
  <2>1. Upload!Whole(Old) \in Seq(Pieces) /\ <<>> \in Seq(Pieces)
    BY ManyPieces DEF Upload!Whole, Pieces
  <2>2. \A n \in FileNames : Single(n)
    BY <1>7 DEF Single, OneWriter, Its
  <2>3. 0 \in 0..MaxPieces
    BY ManyPieces
  <2>. QED BY <1>7, <2>1, <2>2, <2>3 DEF UploadOK, Uploaded
<1>9. Turns
  <2>1. \A r \in Requests : phase[r] \in {"new", "over"} /\ answer[r] = "none"
    BY DEF Init
  <2>2. Static!Closed("idle").at = "idle"
    BY NothingOpen
  <2>3. \A r \in Requests : file[r].at = "idle" /\ upload[r] = "idle"
    BY <1>3, <1>7, <2>2
  <2>4. \A r \in Requests : lookup[r] = "idle" /\ proxy[r] = "idle"
    BY DEF Init, Embed!EmbedInit, Proxy!ProxyInit
  <2>. QED BY <2>1, <2>3, <2>4 DEF Turns, Turn, Unwritten, Busy
<1>. QED BY <1>1, <1>2, <1>4, <1>5, <1>6, <1>8, <1>9 DEF IInv, BehindChains

LEMMA Invariance == Spec => []IInv
<1>. QED BY SiteBegins, StepKeeps, PTL DEF Spec

-------------------------------------------------------------------------------
\* What the invariant comes to.

LEMMA StaticPromises == StaticOK => HandlesClosed /\ OneRedirect
<1>. SUFFICES ASSUME StaticOK PROVE HandlesClosed /\ OneRedirect
  OBVIOUS
<1>1. ASSUME NEW r \in Requests
      PROVE  FileOK(file[r]) /\ Filed(r)
  BY DEF StaticOK, Filed
<1>2. ASSUME NEW r \in Requests, NEW h \in 1..Len(file[r].handles)
      PROVE  /\ file[r].handles[h].closes <= 1
             /\ file[r].at = "done" => file[r].handles[h].closes = 1
  BY <1>1 DEF FileOK
<1>3. Static!ServedIsOpen
  BY <1>1 DEF Static!ServedIsOpen, Static!At, Filed, FileOK
<1>4. HandlesClosed
  BY <1>2, <1>3 DEF HandlesClosed, Static!HandlesClosed, Static!At
<1>5. OneRedirect
  BY <1>1 DEF OneRedirect, Static!OneRedirect, Filed
<1>. QED BY <1>4, <1>5

LEMMA EmbedPromises == EmbedOK => EmbedServesFiles
BY NamesApart DEF EmbedOK, Embedded, EmbedServesFiles, Embed!EmbedServesFiles, Embed!Nothing, Outcomes

LEMMA ProxyPromises == ProxyOK => ForwardedAsMeant /\ OwnError
BY DEF ProxyOK, Proxied, Told, ForwardedAsMeant, Proxy!ForwardedAsMeant, OwnError,
       Proxy!OwnError

LEMMA UploadPromises == UploadOK => UploadedIsWhole
<1>. SUFFICES ASSUME UploadOK, NEW n \in FileNames,
                     \A r \in Its(n) :
                       upload[r] \in {"idle", "parse", "done"} /\ ~overlapped[r]
              PROVE  \A i \in 1..Len(disk[n]) :
                       /\ disk[n][i] = disk[n][1]
                       /\ disk[n][1] \in Its(n) =>
                            answer[disk[n][1]] =
                              IF Len(disk[n]) = MaxPieces THEN "200" ELSE "400"
  BY DEF UploadedIsWhole, Upload!UploadedIsWhole, Its
<1>1. \/ disk[n] \in {<<>>, Upload!Whole(Old)}
      \/ \E r \in Its(n) : WrittenBy(n, r)
  BY DEF UploadOK, Single, OneWriter
<1>2. CASE disk[n] = <<>>
  BY <1>2
<1>3. CASE disk[n] = Upload!Whole(Old)
  BY <1>3, ManyPieces DEF Upload!Whole, Its
<1>4. ASSUME NEW r \in Its(n), WrittenBy(n, r)
      PROVE  \A i \in 1..Len(disk[n]) :
               /\ disk[n][i] = disk[n][1]
               /\ disk[n][1] \in Its(n) =>
                    answer[disk[n][1]] = IF Len(disk[n]) = MaxPieces THEN "200" ELSE "400"
  <2>1. PICK k \in Nat : k = written[r] /\ disk[n] = [i \in 1..k |-> r] /\ Len(disk[n]) = k
    BY <1>4, ManyPieces DEF UploadOK, WrittenBy, Its
  <2>2. CASE k = 0
    BY <2>1, <2>2
  <2>3. CASE k > 0
    <3>1. answer[r] = IF k = MaxPieces THEN "200" ELSE "400"
      <4>1. r \in Requests /\ Uploaded(r)
        BY DEF UploadOK, Its
      <4>2. upload[r] = "done"
        BY <2>1, <2>3, <4>1 DEF Uploaded
      <4>. QED BY <2>1, <4>1, <4>2 DEF Uploaded
    <3>. QED BY <2>1, <2>3, <3>1
  <2>. QED BY <2>1, <2>2, <2>3
<1>. QED BY <1>1, <1>2, <1>3, <1>4

-------------------------------------------------------------------------------
\* Which route a request is handed to.  One that was handed to none is with the
\* middlewares, whose static files decline where the handler of a route would answer 404.

FirstOf(i, S) == i \in S /\ \A j \in S : i <= j

HandedOn(r) ==
  /\ routed[r] # 0 => FirstOf(routed[r], accepting[r])
  /\ routed[r] = 0 =>
       /\ phase[r] \notin {"proxy", "upload"}
       /\ phase[r] = "static" => asks[r].via = "middleware"
       /\ answer[r] = "404" => accepting[r] = {}

Handed ==
  /\ accepting = [r \in Requests |-> Accepting[path[r]]]
  /\ path \in [Requests -> Asked]
  /\ routed \in [Requests -> Nat]
  /\ \A r \in Requests : HandedOn(r)

LEMMA RoutesAreCounted == DOMAIN Table \subseteq Nat \ {0}
BY SiteAssumption

LEMMA FirstPosition ==
  ASSUME NEW S \in SUBSET Nat, S # {}
  PROVE  FirstOf(Min(S), S)
<1>. DEFINE T == {0..i : i \in S}
            R == StrictSubsetOrdering(Nat)
<1>1. T \subseteq FiniteSubsetsOf(Nat)
  <2>1. ASSUME NEW i \in S PROVE 0..i \in FiniteSubsetsOf(Nat)
    <3>1. IsFiniteSet(0..i)
      BY FS_Interval
    <3>. QED BY <3>1 DEF FiniteSubsetsOf
  <2>. QED BY <2>1
<1>2. PICK least \in T : \A U \in T : ~(<<U, least>> \in R)
  <2>1. IsWellFoundedOn(R, FiniteSubsetsOf(Nat))
    BY FS_StrictSubsetOrderingWellFounded
  <2>2. T # {}
    <3>1. PICK i \in S : TRUE
      OBVIOUS
    <3>2. 0..i \in T
      OBVIOUS
    <3>. QED BY <3>2
  <2>. HIDE DEF T, R
  <2>. QED BY <1>1, <2>1, <2>2, WFMin
<1>3. PICK i \in S : least = 0..i
  OBVIOUS
<1>4. ASSUME NEW j \in S, j < i
      PROVE  FALSE
  <2>1. 0..j \subseteq 0..i /\ 0..j # 0..i
    BY <1>4
  <2>2. <<0..j, 0..i>> \in R
    BY <2>1 DEF StrictSubsetOrdering
  <2>. QED BY <1>2, <1>3, <2>2
<1>5. \A j \in S : i <= j
  BY <1>4
<1>. QED BY <1>5 DEF Min, FirstOf

\* What Match says of a path is said once and for all.
LEMMA AcceptedPositions ==
  ASSUME Handed, NEW r \in Requests
  PROVE  accepting[r] \in SUBSET Nat /\ 0 \notin accepting[r]
BY RoutesAreCounted DEF Handed, Accepting

\* The requests that a step is not about.
LEMMA HandedKept ==
  ASSUME Handed, NEW r \in Requests, UNCHANGED request,
         routed' \in [Requests -> Nat],
         \A s \in Requests \ {r} :
           /\ routed'[s] = routed[s] /\ phase'[s] = phase[s]
           /\ answer'[s] = answer[s] /\ asks'[s] = asks[s],
         HandedOn(r)'
  PROVE  Handed'
<1>1. path' = path /\ accepting' = accepting
  BY DEF request
<1>2. ASSUME NEW s \in Requests, s # r PROVE HandedOn(s)'
  BY <1>1, <1>2 DEF Handed, HandedOn
<1>. QED BY <1>1, <1>2 DEF Handed, Accepting

\* A step within the files keeps what a request asked for, and only a handler's 404.
LEMMA StaticAsks ==
  ASSUME BehindChains, NEW r \in Requests, Static!StaticStep(r)
  PROVE  /\ asks'[r].via = asks[r].via
         /\ answer'[r] = "404" => answer[r] = "404" \/ asks[r].via = "handler"
<1>. asks \in [Requests -> Static!Asks] /\ answer \in [Requests -> Outcomes \cup EmbedNames]
  BY DEF BehindChains, StaticOK, RequestsOK
<1>1. CASE Static!Kept
  BY <1>1 DEF Static!Kept
<1>2. CASE Static!Decline(r)
  BY <1>2 DEF Static!Decline, Static!Writes
<1>3. CASE Static!Reject(r)
  BY <1>3 DEF Static!Reject, Static!Writes
<1>4. CASE Static!Redirect(r)
  BY <1>4 DEF Static!Redirect, Static!Writes, Static!Asks
<1>5. CASE Static!Serve(r)
  BY <1>5 DEF Static!Serve, Static!Writes
<1>6. CASE Static!Fail(r)
  BY <1>6 DEF Static!Fail, Static!Writes
<1>. QED
  BY <1>1, <1>2, <1>3, <1>4, <1>5, <1>6
  DEF Static!StaticStep, Static!Accept, Static!OpenFile, Static!OpenFails, Static!OpenFallback,
    Static!Stat, Static!LookForIndex, Static!OpenIndex, Static!IndexIsDir, Static!Unwind

\* An embedded file is no 404.
LEMMA EmbedAnswers ==
  ASSUME BehindChains, NEW r \in Requests, Embed!EmbedStep(r) \/ Embed!Serves(r) \/ Embed!PassesOn(r)
  PROVE  answer'[r] = "404" => answer[r] = "404"
<1>1. \/ answer' = answer
      \/ \E a \in EmbedNames \cup {"next"} : answer' = [answer EXCEPT ![r] = a]
  BY DEF BehindChains, EmbedOK, CacheOK, Embed!EmbedStep, Embed!Load, Embed!StatEmbed,
    Embed!ReadEmbed, Embed!StoreEmbed, Embed!Serves, Embed!PassesOn, Embed!Answers
<1>2. "404" \notin EmbedNames
  BY NamesApart DEF Outcomes
<1>. QED BY <1>1, <1>2 DEF BehindChains, RequestsOK

LEMMA ServeHands ==
  ASSUME BehindChains, Handed, NEW r \in Requests, Serve(r)
  PROVE  Handed'
<1>1. /\ phase \in [Requests -> Phases] /\ answer \in [Requests -> Outcomes \cup EmbedNames]
      /\ routed \in [Requests -> Nat] /\ HandedOn(r) /\ Turn(r)
  BY DEF BehindChains, RequestsOK, Handed, Turns
<1>2. CASE ServeHTTP(r)
  BY <1>1, <1>2, HandedKept DEF ServeHTTP, Enters, HandedOn, staticVars, request
<1>3. CASE NoRoute(r)
  BY <1>1, <1>3, HandedKept DEF NoRoute, Enters, HandedOn, staticVars, request
<1>4. CASE CallMiddleware(r)
  <2>1. UNCHANGED request /\ UNCHANGED routed /\ phase[r] = "chain"
    BY <1>4 DEF CallMiddleware
  <2>2. CASE /\ Enters(r, "chain", "static") /\ Static!Begin(r, "middleware")
    <3>1. Aside(r) /\ answer' = answer
      BY <2>2, StaticBegins DEF BehindChains
    <3>2. asks'[r].via = "middleware"
      BY <2>2 DEF Static!Begin, BehindChains, StaticOK
    <3>3. /\ phase'[r] = "static" /\ \A s \in Requests \ {r} : phase'[s] = phase[s]
      BY <1>1, <2>2 DEF Enters
    <3>4. HandedOn(r)'
      BY <1>1, <2>1, <3>1, <3>2, <3>3 DEF HandedOn, request
    <3>. QED BY <1>1, <2>1, <3>1, <3>3, <3>4, HandedKept DEF Aside
  <2>3. CASE /\ Enters(r, "chain", "embed") /\ (Embed!Serves(r) \/ Embed!PassesOn(r))
             /\ UNCHANGED staticVars
    <3>1. Answering(r) /\ (answer'[r] = "404" => answer[r] = "404")
      BY <2>3, EmbedBegins, EmbedAnswers DEF BehindChains
    <3>2. /\ phase'[r] = "embed" /\ \A s \in Requests \ {r} : phase'[s] = phase[s]
      BY <1>1, <2>3 DEF Enters
    <3>3. asks' = asks
      BY <2>3 DEF staticVars
    <3>4. HandedOn(r)'
      BY <1>1, <2>1, <3>1, <3>2, <3>3 DEF HandedOn, request
    <3>. QED BY <1>1, <2>1, <3>1, <3>2, <3>3, <3>4, HandedKept DEF Answering
  <2>4. CASE UNCHANGED <<phase, answer, staticVars, embedVars>>
    BY <1>1, <2>1, <2>4, HandedKept DEF HandedOn, request, staticVars
  <2>. QED BY <1>4, <2>2, <2>3, <2>4 DEF CallMiddleware
<1>5. CASE Resume(r)
  <2>1. PICK p \in {"chain", "over"} : phase' = [phase EXCEPT ![r] = p]
    BY <1>5 DEF Resume, Enters
  <2>2. UNCHANGED request /\ UNCHANGED <<routed, answer>> /\ asks' = asks
    BY <1>5 DEF Resume, staticVars
  <2>. QED BY <1>1, <2>1, <2>2, HandedKept DEF HandedOn, request
<1>6. CASE HandlerReturns(r)
  <2>1. /\ phase' = [phase EXCEPT ![r] = "over"]
        /\ answer' = [answer EXCEPT ![r] = IF Unwritten(r) THEN "204" ELSE @]
        /\ UNCHANGED request /\ UNCHANGED routed /\ asks' = asks
    BY <1>6 DEF HandlerReturns, Enters, staticVars
  <2>. QED BY <1>1, <2>1, HandedKept DEF HandedOn, request
<1>7. CASE CallRoute(r)
  <2>1. PICK i \in accepting[r] :
          /\ i = Min(accepting[r]) /\ routed' = [routed EXCEPT ![r] = i] /\ UNCHANGED request
          /\ \/ Enters(r, "chain", "static") /\ Static!Begin(r, "handler")
             \/ Enters(r, "chain", "proxy") /\ Proxy!BeginProxy(r) /\ UNCHANGED staticVars
             \/ Enters(r, "chain", "upload") /\ Upload!BeginUpload(r) /\ UNCHANGED staticVars
             \/ /\ Enters(r, "chain", "over") /\ UNCHANGED staticVars
                /\ answer' = [answer EXCEPT ![r] = "303"]
    BY <1>7 DEF CallRoute, FindRoute
  <2>2. i \in Nat /\ i # 0 /\ FirstOf(i, accepting[r])
    BY <2>1, AcceptedPositions, FirstPosition
  <2>3. PICK p : Enters(r, "chain", p)
    BY <2>1
  <2>4. \A s \in Requests \ {r} : phase'[s] = phase[s]
    BY <1>1, <2>3 DEF Enters
  <2>5. \A s \in Requests \ {r} : asks'[s] = asks[s]
    BY <2>1, StaticBegins DEF BehindChains, Aside, staticVars
  <2>6. \A s \in Requests \ {r} : answer'[s] = answer[s]
    <3>1. Static!Begin(r, "handler") => answer' = answer
      BY DEF Static!Begin
    <3>2. Proxy!BeginProxy(r) => answer' = answer
      BY ProxyBegins DEF BehindChains
    <3>3. Upload!BeginUpload(r) => answer' = answer
      BY UploadBegins DEF BehindChains
    <3>. QED BY <1>1, <2>1, <3>1, <3>2, <3>3
  <2>7. HandedOn(r)'
    BY <1>1, <2>1, <2>2 DEF HandedOn, request
  <2>. QED BY <1>1, <2>1, <2>2, <2>4, <2>5, <2>6, <2>7, HandedKept
<1>8. CASE InComponent(r)
  <2>1. UNCHANGED request /\ UNCHANGED <<routed, phase>>
    BY <1>8 DEF InComponent
  <2>2. CASE phase[r] = "static" /\ Static!StaticStep(r)
    <3>1. Aside(r) /\ Answering(r)
      BY <1>1, <2>2, StaticActs DEF Acts, BehindChains
    <3>2. /\ asks'[r].via = asks[r].via
          /\ answer'[r] = "404" => answer[r] = "404" \/ asks[r].via = "handler"
      BY <2>2, StaticAsks
    <3>3. HandedOn(r)'
      BY <1>1, <2>1, <2>2, <3>2 DEF HandedOn, request
    <3>. QED BY <1>1, <2>1, <3>1, <3>3, HandedKept DEF Aside, Answering
  <2>3. CASE phase[r] = "embed" /\ Embed!EmbedStep(r) /\ UNCHANGED staticVars
    <3>1. Answering(r) /\ (answer'[r] = "404" => answer[r] = "404")
      BY <2>1, <2>3, EmbedActs, EmbedAnswers DEF BehindChains
    <3>2. asks' = asks
      BY <2>3 DEF staticVars
    <3>3. HandedOn(r)'
      BY <1>1, <2>1, <2>3, <3>1, <3>2 DEF HandedOn, request
    <3>. QED BY <1>1, <2>1, <3>1, <3>2, <3>3, HandedKept DEF Answering
  <2>4. CASE phase[r] = "proxy" /\ Proxy!ProxyStep(r) /\ UNCHANGED staticVars
    <3>1. Answering(r)
      BY <1>1, <2>4, ProxyActs DEF BehindChains
    <3>2. asks' = asks
      BY <2>4 DEF staticVars
    <3>3. HandedOn(r)'
      BY <1>1, <2>1, <2>4 DEF HandedOn, request
    <3>. QED BY <1>1, <2>1, <3>1, <3>2, <3>3, HandedKept DEF Answering
  <2>5. CASE phase[r] = "upload" /\ Upload!UploadStep(r) /\ UNCHANGED staticVars
    <3>1. Answering(r)
      BY <2>5, UploadActs DEF BehindChains
    <3>2. asks' = asks
      BY <2>5 DEF staticVars
    <3>3. HandedOn(r)'
      BY <1>1, <2>1, <2>5 DEF HandedOn, request
    <3>. QED BY <1>1, <2>1, <3>1, <3>2, <3>3, HandedKept DEF Answering
  <2>. QED BY <1>8, <2>2, <2>3, <2>4, <2>5 DEF InComponent
<1>. QED BY <1>2, <1>3, <1>4, <1>5, <1>6, <1>7, <1>8 DEF Serve

LEMMA StepHands ==
  ASSUME IInv, Handed, [Next]_vars
  PROVE  Handed'
<1>1. CASE UNCHANGED vars
  BY <1>1 DEF vars, request, staticVars, Handed, HandedOn, Accepting
<1>2. CASE Use
  BY <1>2 DEF Use, request, staticVars, Handed, HandedOn, Accepting
<1>3. CASE ChangeTree
  BY <1>3 DEF ChangeTree, Static!TreeChanges, request, Handed, HandedOn, Accepting
<1>4. ASSUME NEW r \in Requests, FollowRedirect(r) PROVE Handed'
  <2>1. /\ UNCHANGED request /\ asks' = asks
        /\ routed' = [routed EXCEPT ![r] = 0]
        /\ answer' = [answer EXCEPT ![r] = "none"]
        /\ phase' = [phase EXCEPT ![r] = "new"]
    BY <1>4 DEF FollowRedirect, Enters
  <2>2. /\ routed \in [Requests -> Nat] /\ phase \in [Requests -> Phases]
        /\ answer \in [Requests -> Outcomes \cup EmbedNames]
    BY DEF Handed, IInv, BehindChains, RequestsOK
  <2>3. HandedOn(r)'
    BY <2>1, <2>2 DEF HandedOn, request
  <2>. QED BY <2>1, <2>2, <2>3, HandedKept
<1>5. ASSUME NEW r \in Requests, Serve(r) PROVE Handed'
  BY <1>5, ServeHands DEF IInv
<1>. QED BY <1>1, <1>2, <1>3, <1>4, <1>5 DEF Next

LEMMA SiteHands == Init => Handed
<1>. SUFFICES ASSUME Init PROVE Handed
  OBVIOUS
<1>1. /\ accepting = [r \in Requests |-> Accepting[path[r]]] /\ path \in [Requests -> Asked]
      /\ routed = [r \in Requests |-> 0] /\ answer = [r \in Requests |-> "none"]
      /\ \A r \in Requests : phase[r] \in {"new", "over"}
  BY DEF Init
<1>. QED BY <1>1 DEF Handed, HandedOn

-------------------------------------------------------------------------------
\* However Use interleaves with the requests in flight, each runs the middlewares that
\* were appended before it began, in that order (middleware_chains.go:42-54).
THEOREM ChainsRunWhatWasUsed == Spec => []RunsWhatWasUsed
BY Invariance, ChainsPromise, PTL DEF IInv

\* Whatever the tree becomes between two system calls, what was opened for a request is
\* closed once, behind its use (static.go:60-117).
THEOREM FilesAreClosed == Spec => []HandlesClosed
BY Invariance, StaticPromises, PTL DEF IInv, BehindChains

\* A client that follows redirects is redirected once at most, whatever its name has
\* become when it asks again (static.go:79-88).
THEOREM RedirectedOnce == Spec => []OneRedirect
BY Invariance, StaticPromises, PTL DEF IInv, BehindChains

\* Whichever request filled the cache, each gets the file that it asked for, or is
\* passed on (embed_static.go:65-138).
THEOREM EmbeddedAreServed == Spec => []EmbedServesFiles
BY Invariance, EmbedPromises, PTL DEF IInv, BehindChains

\* With one target URL for all requests of a route, each is forwarded with its own
\* values (proxy.go:69-93, 136-140).
THEOREM ProxiedApart == Spec => []ForwardedAsMeant
BY Invariance, ProxyPromises, PTL DEF IInv, BehindChains

\* With one error handler, which every request of a route overwrites, each is told of
\* its own failure and of no other one, and never by httputil, since behind the first
\* request there always is a handler; one that goes through ProxyHTTP is told what its
\* caller's handler says, if that says anything (proxy.go:118-123, 145-155).
THEOREM ErrorsAreOwn == Spec => []OwnError
BY Invariance, ProxyPromises, PTL DEF IInv, BehindChains

\* A file that no upload has open is in the state that its upload was told of, unless
\* two uploads of that name overlapped (upload.go:59-88, form.go:51-68).
THEOREM UploadsAreWhole == Spec => []UploadedIsWhole
BY Invariance, UploadPromises, PTL DEF IInv, BehindChains

\* A request is handed to the first route whose filter matches its path, and to 404 when
\* there is none, whichever middlewares it passes, whatever they answer and however often
\* its client is redirected (http_server.go:70-75, route.go:268-297).
THEOREM HandedToFirst ==
  Spec => [](\A r \in Requests :
               /\ routed[r] # 0 => FirstOf(routed[r], Accepting[path[r]])
               /\ routed[r] = 0 /\ answer[r] = "404" => Accepting[path[r]] = {})
<1>1. Handed => \A r \in Requests :
                  /\ routed[r] # 0 => FirstOf(routed[r], Accepting[path[r]])
                  /\ routed[r] = 0 /\ answer[r] = "404" => Accepting[path[r]] = {}
  BY DEF Handed, HandedOn
<1>. QED BY <1>1, SiteHands, StepHands, Invariance, PTL DEF Spec

================================================================================
