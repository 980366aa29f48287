-------------------------------- MODULE Search --------------------------------
(***************************************************************************)
(* internal/tools/glob.go and grep.go: a search walks the tree below its   *)
(* roots while other requests create entries in it.  glob lists files,     *)
(* grep runs rg or its own engine, whose collector renders what matches.   *)
(*                                                                         *)
(* A walk takes one step per entry: filepath.WalkDir reads a directory     *)
(* when it visits it and does not follow links.  What a file holds is      *)
(* fixed by its path: the lines that match (TRUE) and those that do not,   *)
(* and how reading it ends.  The text of a line is named by the file and   *)
(* the number it has there.                                                *)
(***************************************************************************)
EXTENDS PathGuard

CONSTANTS
  Letters,         \* the letters and the slash in byte order
  FileText,        \* of each path: head (text, binary or unreadable), lines,
                   \* and whether the scanner reaches the end
  MtimeOf,         \* of each path
  Unreadable,      \* directories that cannot be read
  Searches,        \* calls of glob and grep
  SearchPaths,     \* their path arguments
  NoPath,          \* the empty path argument
  GlobScanLimit,
  GlobMaxResults,
  Meanwhile        \* bound: the requests served while a search runs

ASSUME SearchAssumption ==
  /\ NoPath \notin RawPaths /\ SearchPaths \subseteq RawPaths \cup {NoPath}
  /\ FileText \in [Paths -> [head: {"text", "binary", "unreadable"},
                             lines: Seq(BOOLEAN), whole: BOOLEAN]]
  /\ MtimeOf \in [Paths -> Nat]
  /\ {GlobScanLimit, GlobMaxResults} \subseteq Nat \ {0}
  /\ Letters \in Seq(ToSet(Letters)) /\ IsInjective(Letters)
  /\ {Slash} \cup UNION {ToSet(n) : n \in Names} \subseteq ToSet(Letters)
  /\ \A t \in Trees : IsFiniteSet({p \in Paths : t[p].kind # "absent"})

VARIABLE search  \* the call: where it is, its walk, its collector, its answer

vars == <<guardVars, search>>

NoCol == [lines |-> <<>>, cur |-> <<>>, texts |-> <<>>, matches |-> {},
          emitted |-> FALSE]
NoSearch == [at |-> "idle", call |-> <<>>, was |-> <<>>, roots |-> <<>>,
             left |-> <<>>, root |-> <<>>, todo |-> <<>>, scanned |-> 0,
             stopped |-> FALSE, found |-> <<>>, col |-> NoCol,
             results |-> <<>>, notes |-> {}, err |-> "none"]

-----------------------------------------------------------------------------
(* Orders: of strings, of names in a directory, of a walk.                 *)

LexBefore(s, t, before(_, _)) ==
  \/ IsStrictPrefix(s, t)
  \/ \E k \in DOMAIN s \cap DOMAIN t :
       /\ SubSeq(s, 1, k - 1) = SubSeq(t, 1, k - 1)
       /\ before(s[k], t[k])
LetterBefore(x, y) ==
  \E j, k \in DOMAIN Letters : j < k /\ Letters[j] = x /\ Letters[k] = y
StringBefore(s, t) == LexBefore(s, t, LetterBefore)
WalkBefore(p, q) == LexBefore(p, q, StringBefore)

\* The members of a finite set, each behind those that come before it.
Sorted(S, before(_, _)) ==
  [k \in 1..Cardinality(S) |->
     CHOOSE x \in S : Cardinality({y \in S : before(y, x)}) = k - 1]

\* os.ReadDir: the entries of a directory by name.
Entered(dir) ==
  Sorted({q \in Paths : q # <<>> /\ Front(q) = dir /\ Kind(q) # "absent"},
         WalkBefore)

\* filepath.Rel of a path below the root.
Rel(root, path) == SubSeq(path, Len(root) + 1, Len(path))

-----------------------------------------------------------------------------
(* grepCollector: lines of files, of counts, or of matches with context.   *)

line(col, call, path, n) ==
  LET matched == FileText[EvalSymlinks(path).path].lines[n]
      fresh == col.texts = <<>>
      text == [path |-> path, n |-> n]
      last == Last(col.lines)
  IN  CASE call.mode = "content" ->
             [col EXCEPT !.cur = IF fresh THEN path ELSE @,
                         !.matches = (IF fresh THEN {} ELSE @)
                                     \cup (IF matched THEN {n} ELSE {}),
                         !.texts = Append(@, text)]
        [] call.mode = "count" /\ matched ->
             IF col.lines # <<>> /\ last.path = path
             THEN [col EXCEPT !.lines[Len(col.lines)].n = @ + 1]
             ELSE [col EXCEPT !.lines =
                     Append(@, [kind |-> "count", path |-> path, n |-> 1])]
        [] call.mode = "files" /\ matched
              /\ (col.lines = <<>> \/ last.path # path) ->
             [col EXCEPT !.lines = Append(@, [kind |-> "file", path |-> path])]
        [] OTHER -> col

\* The ranges around the matches, merged where they overlap or touch.
Spans(col, context) ==
  FoldLeft(LAMBDA spans, n :
             LET lo == Max({1, n - context})
                 hi == Min({Len(col.texts), n + context})
             IN  IF spans # <<>> /\ lo <= Last(spans).hi + 1
                 THEN Append(Front(spans), [lo |-> Last(spans).lo, hi |-> hi])
                 ELSE Append(spans, [lo |-> lo, hi |-> hi]),
           <<>>, SetToSortSeq(col.matches \cap DOMAIN col.texts, <))

Separator == [kind |-> "--", path |-> <<>>, n |-> 0, text |-> <<>>]
Emit(col, span, context) ==
  [col EXCEPT
     !.lines = @ \o (IF col.emitted /\ context > 0 THEN <<Separator>> ELSE <<>>)
       \o [k \in 1..(span.hi - span.lo + 1) |->
             LET n == span.lo + k - 1
             IN  [kind |-> IF n \in col.matches THEN "match" ELSE "context",
                  path |-> col.cur, n |-> n, text |-> col.texts[n]]],
     !.emitted = TRUE]

\* Mutant: the lines of the file are kept when they have been rendered.
endFileKeeps(col, call) ==
  IF call.mode # "content" \/ col.texts = <<>> THEN col
  ELSE FoldLeft(LAMBDA c, span : Emit(c, span, call.context), col,
                Spans(col, call.context))

endFile(col, call) ==
  IF call.mode # "content" \/ col.texts = <<>> THEN col
  ELSE [FoldLeft(LAMBDA c, span : Emit(c, span, call.context), col,
                 Spans(col, call.context))
        EXCEPT !.texts = <<>>, !.matches = {}, !.cur = <<>>]

\* os.Open follows links; a read error or a NUL byte in the head skips the
\* file; a line longer than the buffer ends the scan without endFile.
grepFallbackFile(col, call, path) ==
  LET real == EvalSymlinks(path)
      file == FileText[real.path]
      scanned == FoldLeft(LAMBDA c, n : line(c, call, path, n), col,
                          [n \in DOMAIN file.lines |-> n])
  IN  IF real.err # "none" \/ Kind(real.path) # "file" \/ file.head # "text"
      THEN col
      ELSE IF file.whole THEN endFile(scanned, call) ELSE scanned

\* A glob with a slash is matched against the whole path, one without
\* against the base name; ! turns it around.
grepGlobIncludes(glob, path) ==
  ((IF glob.slash THEN path ELSE <<Last(path)>>) \in glob.match) = ~glob.neg

-----------------------------------------------------------------------------
(* A call: its roots, its walk, its answer.                                *)

searchRoots(raw) ==
  IF raw = NoPath THEN [err |-> "none", roots |-> dirs]
  ELSE LET verdict == Validate(raw)
       IN  IF verdict.err # "none" THEN [err |-> verdict.err, roots |-> <<>>]
           ELSE IF EvalSymlinks(verdict.path).err # "none"
                THEN [err |-> "ENotExist", roots |-> <<>>]
           ELSE IF Kind(verdict.path) # "dir"
                THEN [err |-> "EIsFile", roots |-> <<>>]
           ELSE [err |-> "none", roots |-> <<verdict.path>>]

StartSearch(call, raw) ==
  /\ search.at = "idle"
  /\ Cardinality({r \in Reqs : req[r] # NoReq}) <= Meanwhile
  /\ LET start == searchRoots(raw)
     IN  search' = [NoSearch EXCEPT
                      !.at = IF start.err # "none" THEN "done"
                             ELSE IF call.tool = "grep" /\ call.rg THEN "rg"
                             ELSE "walk",
                      !.call = call, !.was = tree, !.roots = start.roots,
                      !.left = start.roots, !.err = start.err]
  /\ UNCHANGED guardVars

NextRoot ==
  /\ search.at = "walk" /\ search.todo = <<>> /\ search.left # <<>>
  /\ ~search.stopped
  /\ search' = [search EXCEPT !.root = Head(search.left),
                              !.left = Tail(search.left),
                              !.todo = <<Head(search.left)>>]
  /\ UNCHANGED guardVars

\* A directory that cannot be read is skipped.
Deeper(path) ==
  (IF Kind(path) = "dir" /\ path \notin Unreadable THEN Entered(path) ELSE <<>>)
  \o Tail(search.todo)

GlobVisit ==
  LET path == Head(search.todo)
      matches == Kind(path) # "dir" /\ Rel(search.root, path) \in search.call.pattern
      stop == search.scanned + 1 >= GlobScanLimit
  IN  [search EXCEPT !.scanned = @ + 1, !.stopped = stop,
                     !.found = IF matches THEN Append(@, path) ELSE @,
                     !.todo = IF stop THEN <<>> ELSE Deeper(path)]

GrepVisit ==
  LET path == Head(search.todo)
      skip == Kind(path) = "dir" \/ ~grepGlobIncludes(search.call.glob, path)
  IN  [search EXCEPT !.todo = Deeper(path),
                     !.col = IF skip THEN @
                             ELSE grepFallbackFile(@, search.call, path)]

Visit ==
  /\ search.at = "walk" /\ search.todo # <<>>
  /\ search' = IF search.call.tool = "glob" THEN GlobVisit ELSE GrepVisit
  /\ UNCHANGED guardVars

\* The deadline, or the end of the caller's context, found at an entry.
TimeOut ==
  /\ search.at = "walk" /\ search.todo # <<>> /\ search.call.tool = "grep"
  /\ search' = [search EXCEPT !.stopped = TRUE, !.todo = <<>>]
  /\ UNCHANGED guardVars

WalkEnded == /\ search.at = "walk" /\ search.todo = <<>>
             /\ search.left = <<>> \/ search.stopped

Newer(p, q) == \/ MtimeOf[p] > MtimeOf[q]
               \/ MtimeOf[p] = MtimeOf[q] /\ StringBefore(String(p), String(q))

\* sort.Slice of the matches; a path that two roots reach is there twice.
Newest(found) ==
  LET Earlier(i, j) == \/ Newer(found[i], found[j])
                       \/ ~Newer(found[j], found[i]) /\ i < j
      order == Sorted(DOMAIN found, Earlier)
  IN  [k \in DOMAIN found |-> found[order[k]]]

\* Mutant: the results are capped before they are sorted.
CappedUnsorted(found) ==
  Newest(SubSeq(found, 1, Min({Len(found), GlobMaxResults})))

Capped(found) ==
  SubSeq(Newest(found), 1, Min({Len(found), GlobMaxResults}))

AnswerGlob ==
  /\ WalkEnded /\ search.call.tool = "glob"
  /\ search' = [search EXCEPT
                  !.at = "done",
                  !.results = Capped(search.found),
                  !.notes = {note \in {"limit", "scan"} :
                               \/ note = "limit" /\ Len(search.found) > GlobMaxResults
                               \/ note = "scan" /\ search.stopped}]
  /\ UNCHANGED guardVars

\* head_limit and the notes, for both engines.
GrepAnswer(lines, timedOut, engineNotes) ==
  LET over == search.call.limit > 0 /\ Len(lines) > search.call.limit
  IN  [search EXCEPT
         !.at = "done", !.stopped = timedOut, !.col.lines = lines,
         !.results = IF over THEN SubSeq(lines, 1, search.call.limit) ELSE lines,
         !.notes = engineNotes \cup (IF timedOut THEN {"timeout"} ELSE {})
                               \cup (IF over THEN {"limit"} ELSE {})]

AnswerGrep ==
  /\ WalkEnded /\ search.call.tool = "grep"
  /\ search' = GrepAnswer(endFile(search.col, search.call).lines, search.stopped,
                          {"fallback"})
  /\ UNCHANGED guardVars

\* A line without its end: of a path, of a number or of a text.
Part(printed) == [kind |-> "part", of |-> printed]

\* The rg process: what it prints and how it ends.  Killed at the deadline,
\* the bytes that have come by then are the answer, split at the newlines.
GrepRG ==
  /\ search.at = "rg"
  /\ \/ \E exit \in {"not started", "usage", "signal"} :
          search' = [search EXCEPT !.at = "done", !.err = exit]
     \/ search.call.prints = <<>> /\ search' = GrepAnswer(<<>>, FALSE, {})
     \/ search.call.prints # <<>> /\ search' = GrepAnswer(search.call.prints, FALSE, {})
     \/ \E n \in 0..Len(search.call.prints) :
          search' = GrepAnswer(SubSeq(search.call.prints, 1, n), TRUE, {})
     \/ \E n \in DOMAIN search.call.prints :
          search' = GrepAnswer(Append(SubSeq(search.call.prints, 1, n - 1),
                                      Part(search.call.prints[n])), TRUE, {})
  /\ UNCHANGED guardVars

EndSearch ==
  /\ search.at = "done"
  /\ search' = NoSearch
  /\ UNCHANGED guardVars

-----------------------------------------------------------------------------
Init == GuardInit /\ search = NoSearch

\* While a search runs the requests that are there go on; later ones are
\* left out.
Request(r) ==
  /\ \/ search.at = "idle" /\ \E raw \in RawPaths : Receive(r, raw)
     \/ \E kind \in {"file", "dir"} : Create(r, kind)
     \/ Return(r)
  /\ UNCHANGED search

Next == \/ \E r \in Reqs : Request(r)
        \/ \E call \in Searches, raw \in SearchPaths : StartSearch(call, raw)
        \/ NextRoot \/ Visit \/ TimeOut
        \/ AnswerGlob \/ AnswerGrep \/ GrepRG \/ EndSearch

Spec == Init /\ [][Next]_vars

-----------------------------------------------------------------------------
(* What a walk must have seen: the entries that were there when it began,  *)
(* at the latest those that are there when it ends.                        *)

WalkedTo(root, p) ==
  /\ Below(root, p) /\ p # root
  /\ \A n \in Len(root)..(Len(p) - 1) : SubSeq(p, 1, n) \notin Unreadable

Within(t, roots) ==
  {p \in Paths : /\ t[p].kind \notin {"absent", "dir"}
                 /\ \E k \in DOMAIN roots : WalkedTo(roots[k], p)}

Listed == ToSet(search.results)

(* What glob lists matches and is there, newest first, a list cut by the   *)
(* cap holds the newest, and without a note no match that was there when   *)
(* the walk began is missing; what it lists is a path that a read may name *)
(* unless it is a link (glob.go, Glob).                                    *)
GlobCompleteUnlessNoted ==
  search.at = "done" /\ search.err = "none" /\ search.call.tool = "glob" =>
    LET Matching(t) == {p \in Within(t, search.roots) :
                          \E k \in DOMAIN search.roots :
                            /\ WalkedTo(search.roots[k], p)
                            /\ Rel(search.roots[k], p) \in search.call.pattern}
    IN  /\ Listed \subseteq Matching(tree)
        /\ \A j, k \in DOMAIN search.results :
             j < k => ~Newer(search.results[k], search.results[j])
        /\ search.notes = {} => Matching(search.was) \subseteq Listed
        /\ "scan" \notin search.notes =>
             \A p \in Matching(search.was) \ Listed :
               \A q \in Listed : ~Newer(p, q)
        /\ \A p \in Listed : Kind(p) # "link" =>
             Validate([form |-> "absolute", parts |-> p]) = Accepted(p)

-----------------------------------------------------------------------------
(* What the fallback must answer.                                          *)

Scannable(t, p) == LET real == EvalSymlinks(p)
                   IN  /\ real.err = "none" /\ t[real.path].kind = "file"
                       /\ FileText[real.path].head = "text"

Matched(p) == LET text == FileText[EvalSymlinks(p).path].lines
              IN  {n \in DOMAIN text : text[n]}

\* The lines of one file: numbers in order.
Numbers(p) ==
  LET near == {n \in DOMAIN FileText[EvalSymlinks(p).path].lines :
                 \E m \in Matched(p) : m - n \in (-search.call.context)..search.call.context}
  IN  SetToSortSeq(near, <)

RenderedFile(p) ==
  CASE search.call.mode = "files" -> <<[kind |-> "file", path |-> p]>>
    [] search.call.mode = "count" ->
         <<[kind |-> "count", path |-> p, n |-> Cardinality(Matched(p))]>>
    [] OTHER -> LET numbers == Numbers(p)
                IN  [k \in DOMAIN numbers |->
                       [kind |-> IF numbers[k] \in Matched(p) THEN "match" ELSE "context",
                        path |-> p, n |-> numbers[k],
                        text |-> [path |-> p, n |-> numbers[k]]]]

Disjoint(roots) == \A j, k \in DOMAIN roots : j # k => ~Below(roots[j], roots[k])
RootOf(p) == CHOOSE k \in DOMAIN search.roots : Below(search.roots[k], p)
VisitedBefore(p, q) == \/ RootOf(p) < RootOf(q)
                       \/ RootOf(p) = RootOf(q) /\ WalkBefore(p, q)

FallbackExact ==
  LET Hits(t) == {p \in Within(t, search.roots) :
                    /\ Scannable(t, p) /\ Matched(p) # {}
                    /\ grepGlobIncludes(search.call.glob, p)}
      lines == search.col.lines
      texts == SelectSeq(lines, LAMBDA l : l # Separator)
      files == {texts[k].path : k \in DOMAIN texts}
      Follows(j, k) == /\ lines[j].path = lines[k].path
                       /\ lines[j].n + 1 = lines[k].n
  IN  /\ files \subseteq Hits(tree)
      /\ "timeout" \notin search.notes => Hits(search.was) \subseteq files
      /\ texts = FlattenSeq([k \in 1..Cardinality(files) |->
                               RenderedFile(SetToSortSeq(files, VisitedBefore)[k])])
      /\ search.call.mode = "content" /\ search.call.context > 0 =>
           \A k \in 1..(Len(lines) - 1) :
             Separator \in {lines[k], lines[k + 1]} \/ Follows(k, k + 1)
      /\ \A k \in DOMAIN lines : lines[k] = Separator =>
           /\ k \notin {1, Len(lines)} /\ search.call.context > 0
           /\ Separator \notin {lines[k - 1], lines[k + 1]}
           /\ ~Follows(k - 1, k + 1)

(* The fallback answers file by file in the order of the walk: every file  *)
(* with a match, and of it exactly its matches, their number or their      *)
(* surroundings, each line under its own path and number; "--" stands      *)
(* between two lines of a context answer that do not follow each other,    *)
(* and nowhere else.  Roots do not overlap.  With rg the lines are those   *)
(* that it printed, but the last one before the deadline may be a part of  *)
(* one.  Only head_limit and the deadline cut an answer, and both are      *)
(* noted (grep.go, Grep, grepRG, grepFallback and grepCollector).          *)
GrepExact ==
  search.at = "done" /\ search.err = "none" /\ search.call.tool = "grep" =>
    LET lines == search.col.lines
        prints == search.call.prints
    IN  /\ IsPrefix(search.results, lines)
        /\ search.results # lines => "limit" \in search.notes
        /\ IF search.call.rg
           THEN /\ DOMAIN lines \subseteq DOMAIN prints
                /\ \A k \in DOMAIN lines :
                     lines[k] # prints[k] => k = Len(lines) /\ lines[k] = Part(prints[k])
                /\ lines # prints => "timeout" \in search.notes
           ELSE Disjoint(search.roots) => FallbackExact

(* A line of content stands under the path and the number it has in its    *)
(* file (grep.go, grepCollector: "path:line:text" for matching lines).     *)
LinesKeepTheirFile ==
  search.at = "done" /\ search.err = "none" /\ search.call.tool = "grep" =>
    \A k \in DOMAIN search.results :
      LET l == search.results[k]
      IN  l.kind \in {"match", "context"} => l.text = [path |-> l.path, n |-> l.n]
=============================================================================
