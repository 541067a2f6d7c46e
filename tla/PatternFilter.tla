----------------------------- MODULE PatternFilter -----------------------------
(***************************************************************************)
(* The filter of a route (http/route.go): a pattern such as /a/:id/** is   *)
(* turned into a regular expression, and a path is accepted when the       *)
(* LEFTMOST match of the expression, greedy and not anchored, happens to   *)
(* be the whole path.  Means says what a pattern is for.                   *)
(*                                                                         *)
(* Patterns and paths are sequences of segments, a segment is a sequence   *)
(* of letters.  "?" stands for the letters # and ? that nothing matches;   *)
(* ":" is a parameter and "**" a wildcard, alone in their segments.        *)
(***************************************************************************)
EXTENDS SequencesExt

Text(segs) == FlattenSeq([k \in 1..Len(segs) |-> <<"/">> \o segs[k]])

\* NewPatternFilter: :id is [^/#?]+, ** is [^#?]*, and /? comes behind the pattern.
Regex(pattern) == Append(Text(pattern), "/?")

Takes(token, ch) ==
  CASE token = ":" -> ch \notin {"/", "?"}
    [] token = "**" -> ch # "?"
    [] token = "/?" -> ch = "/"
    [] OTHER -> ch = token

Least(token) == IF token \in {"**", "/?"} THEN 0 ELSE 1

\* Where token may end when it begins at i.
Ends(token, path, i) ==
  {j \in i..(Len(path) + 1) :
     /\ \A x \in i..(j - 1) : Takes(token, path[x])
     /\ j - i >= Least(token)
     /\ token \notin {":", "**"} => j - i <= 1}

\* The end of the match that the regular expression prefers, 0 for none, from its
\* k-th token and the i-th letter on: each token takes as much as lets the rest match.
Preferred(regex, path) ==
  LET end[k \in 1..(Len(regex) + 1), i \in 1..(Len(path) + 1)] ==
        IF k > Len(regex) THEN i
        ELSE LET hits == {j \in Ends(regex[k], path, i) : end[k + 1, j] # 0}
             IN IF hits = {} THEN 0 ELSE end[k + 1, Max(hits)]
  IN end[1, 1]

\* Mutant: any match will do.
Match_Anywhere(pattern, path) == Preferred(Regex(pattern), path) # 0

\* PatternFilter.Match: matches[0] == uriPath.  A match that begins further on is not.
Match(pattern, path) == Preferred(Regex(pattern), path) = Len(path) + 1

-------------------------------------------------------------------------------
\* Segment by segment: a parameter is one segment that is not empty, a wildcard one or
\* more segments of any kind.
Fits(pattern, segs) ==
  LET fit[k \in 1..(Len(pattern) + 1), i \in 1..(Len(segs) + 1)] ==
        IF k > Len(pattern) THEN i > Len(segs)
        ELSE \E j \in i..Len(segs) :
               /\ CASE pattern[k] = <<"**">> -> \A x \in i..j : ~Contains(segs[x], "?")
                    [] pattern[k] = <<":">> -> j = i /\ segs[i] # <<>> /\ ~Contains(segs[i], "?")
                    [] OTHER -> j = i /\ segs[i] = pattern[k]
               /\ fit[k + 1, j + 1]
  IN fit[1, 1]

\* A slash at the end of the path does not matter.
Means(pattern, segs) ==
  Fits(pattern, segs) \/ (segs # <<>> /\ Last(segs) = <<>> /\ Fits(pattern, Front(segs)))

===============================================================================
