------------------------------ MODULE EmbedStatic ------------------------------
(***************************************************************************)
(* Files that are built into the program (http/embed_static.go): a         *)
(* middleware that serves them from a cache, which requests fill as they   *)
(* come, and passes on what it does not have.                              *)
(***************************************************************************)
EXTENDS Naturals

CONSTANTS
  Requests,
  EmbedNames,   \* paths below prefixPath
  EmbedKind     \* what the embed.FS, which never changes, has under a path

EmbedAssumption == EmbedKind \in [EmbedNames -> {"absent", "file", "dir"}]

VARIABLES
  staticFileInfo,  \* the cache: the paths it has content for, and what of it
  lookup,          \* what the request is doing
  wants,           \* the path of the request, behind validatePath
  answer

embedVars == <<staticFileInfo, lookup, wants>>

Nothing == "nothing"   \* content that was never read

EmbedInit ==
  /\ staticFileInfo = [n \in EmbedNames |-> "none"]
  /\ lookup = [r \in Requests |-> "idle"]
  /\ wants \in [Requests -> EmbedNames]

Goes(r, from, to) == lookup[r] = from /\ lookup' = [lookup EXCEPT ![r] = to]

Answers(r, what) == answer' = [answer EXCEPT ![r] = what]

-------------------------------------------------------------------------------
\* The prefix matches and the method is GET or HEAD, or the request is passed on.
Serves(r) ==
  /\ Goes(r, "idle", "load")
  /\ UNCHANGED <<staticFileInfo, wants, answer>>

PassesOn(r) ==
  /\ Goes(r, "idle", "declined")
  /\ Answers(r, "next")
  /\ UNCHANGED <<staticFileInfo, wants>>

\* findEmbedFile: staticFileInfo.Load.
Load(r) ==
  LET cached == staticFileInfo[wants[r]] IN
  /\ \/ /\ cached # "none"
        /\ Goes(r, "load", "done")
        /\ Answers(r, cached)
     \/ /\ cached = "none"
        /\ Goes(r, "load", "stat")
        /\ UNCHANGED answer
  /\ UNCHANGED <<staticFileInfo, wants>>

\* Mutant: what was found is cached at once, its content later.
StatEmbed_Caches(r) ==
  /\ IF EmbedKind[wants[r]] = "absent"
     THEN /\ Goes(r, "stat", "done")
          /\ Answers(r, "next")
          /\ UNCHANGED staticFileInfo
     ELSE /\ Goes(r, "stat", "read")
          /\ staticFileInfo' = [staticFileInfo EXCEPT ![wants[r]] = Nothing]
          /\ UNCHANGED answer
  /\ UNCHANGED wants

\* fs.Stat finds files and directories alike.
StatEmbed(r) ==
  /\ IF EmbedKind[wants[r]] = "absent"
     THEN Goes(r, "stat", "done") /\ Answers(r, "next")
     ELSE Goes(r, "stat", "read") /\ UNCHANGED answer
  /\ UNCHANGED <<staticFileInfo, wants>>

\* fs.ReadFile, which refuses a directory.
ReadEmbed(r) ==
  /\ IF EmbedKind[wants[r]] = "dir"
     THEN Goes(r, "read", "done") /\ Answers(r, "next")
     ELSE Goes(r, "read", "store") /\ UNCHANGED answer
  /\ UNCHANGED <<staticFileInfo, wants>>

\* staticFileInfo.Store, and http.ServeContent.
StoreEmbed(r) ==
  /\ Goes(r, "store", "done")
  /\ staticFileInfo' = [staticFileInfo EXCEPT ![wants[r]] = wants[r]]
  /\ Answers(r, wants[r])
  /\ UNCHANGED wants

EmbedStep(r) == Load(r) \/ StatEmbed(r) \/ ReadEmbed(r) \/ StoreEmbed(r)

-------------------------------------------------------------------------------
\* Whichever of the requests fills the cache, one that is answered gets the content
\* of the file it asked for, and one that asked for no file is passed on, and gets none
\* and nothing from here (embed_static.go:65-138).
EmbedServesFiles ==
  \A r \in Requests : lookup[r] = "done" =>
    IF EmbedKind[wants[r]] = "file"
    THEN answer[r] = wants[r]
    ELSE answer[r] \notin EmbedNames \cup {Nothing}

===============================================================================
