------------------------------- MODULE MCSearch -------------------------------
(* Instances of Search for TLC.  The names are "a" and "ab", one a prefix  *)
(* of the other.                                                           *)
EXTENDS Search

MCLetters == <<"/", "a", "b">>
a == <<"a">>
ab == <<"a", "b">>
MCNames == {a, ab}
MCHome == <<a>>

Entry(kind, to) == [kind |-> kind, to |-> to]
TreeOf(dirPaths, files, links) ==
  [p \in Paths |-> CASE p \in dirPaths -> Entry("dir", <<>>)
                     [] p \in files -> Entry("file", <<>>)
                     [] p \in DOMAIN links -> Entry("link", links[p])
                     [] OTHER -> Entry("absent", <<>>)]

\* Links between directories, an alias of a directory with a link that leads
\* nowhere, a loop, files all over, and a directory that cannot be read.
MCTrees ==
  {TreeOf({<<>>, <<a>>, <<ab>>}, {<<a, a>>}, (<<a, ab>> :> <<ab>>)),
   TreeOf({<<>>, <<a>>, <<a, a>>}, {}, (<<ab>> :> <<a>>) @@ (<<a, ab>> :> <<ab, a>>)),
   TreeOf({<<>>, <<a>>, <<ab>>}, {},
          (<<ab, ab>> :> <<a, a>>) @@ (<<ab, a>> :> <<ab, a>>)),
   TreeOf({<<>>, <<a>>, <<ab>>}, {<<a, a>>, <<a, ab>>, <<ab, a>>},
          (<<ab, ab>> :> <<a, a>>)),
   TreeOf({<<>>, <<a>>, <<a, ab>>}, {<<a, a>>, <<a, ab, a>>, <<ab>>}, <<>>),
   TreeOf({<<>>, <<a>>, <<a, a>>, <<ab>>}, {<<a, a, ab>>, <<ab, a>>, <<ab, ab>>},
          (<<a, ab>> :> <<ab, ab>>))}

\* One directory, one named like the first with a letter more, nested ones,
\* and a list with a double.
MCAllowedLists == {<< <<a>> >>, << <<ab>> >>, << <<>>, <<a>> >>, << <<ab>>, <<a>>, <<ab>> >>}

Raw(form, parts) == [form |-> form, parts |-> parts]
MCRawPaths ==
  {Raw("absolute", p) : p \in {q \in Paths : Len(q) <= 2}}
  \cup {Raw("absolute", <<a, Up, ab>>), Raw("absolute", <<a, Dot, a>>),
        Raw("absolute", <<Up, Up, ab, ab, Up>>), Raw("absolute", <<a, ab, a>>),
        Raw("home", <<>>), Raw("home", <<ab>>), Raw("nul", <<a>>),
        Raw("relative", <<a>>), Raw("drive", <<a>>)}

MCNoPath == Raw("none", <<>>)
MCSearchPaths == {MCNoPath, Raw("absolute", <<>>), Raw("absolute", <<ab>>),
                  Raw("absolute", <<a, a>>)}

\* The file <<a, a>> has two matches that are apart, <<a, ab>> two that touch.
Text(lines) == [head |-> "text", lines |-> lines, whole |-> TRUE]
MCFileText ==
  [p \in Paths |->
     CASE p = <<a, a>> -> Text(<<TRUE, FALSE, FALSE, FALSE, TRUE>>)
       [] p = <<a, ab>> -> Text(<<TRUE, TRUE, FALSE>>)
       [] p = <<ab, ab>> -> [Text(<<TRUE>>) EXCEPT !.head = "binary"]
       [] p = <<ab>> -> [Text(<<TRUE>>) EXCEPT !.head = "unreadable"]
       [] OTHER -> Text(<<FALSE, TRUE>>)]
\* The scanner gives up <<a, a>> behind its fifth line.
MCLongLines == [MCFileText EXCEPT ![<<a, a>>].whole = FALSE]

MCMtimeOf == [p \in Paths |-> IF p \in {<<a, a>>, <<ab, ab>>} THEN 1
                              ELSE IF p = <<ab, a>> THEN 2 ELSE 0]
MCUnreadable == {<<a, ab>>}

Grep(rg, mode, context, glob, limit, prints) ==
  [tool |-> "grep", rg |-> rg, mode |-> mode, context |-> context,
   glob |-> glob, limit |-> limit, prints |-> prints]
Glob(slash, match, neg) == [slash |-> slash, match |-> match, neg |-> neg]
AnyFile == Glob(FALSE, {<<a>>, <<ab>>}, FALSE)
Printed == <<[kind |-> "file", path |-> <<a, a>>], [kind |-> "file", path |-> <<a, ab>>]>>

GlobCalls == {[tool |-> "glob", pattern |-> Paths], [tool |-> "glob", pattern |-> {<<a>>, <<ab>>}]}
GrepCalls == {Grep(FALSE, "files", 0, AnyFile, 1, <<>>),
              Grep(FALSE, "count", 0, Glob(FALSE, {<<a>>}, TRUE), 0, <<>>),
              Grep(FALSE, "count", 0, AnyFile, 0, <<>>),
              Grep(FALSE, "content", 0, AnyFile, 0, <<>>),
              Grep(FALSE, "content", 1, AnyFile, 0, <<>>),
              Grep(FALSE, "content", 1, Glob(TRUE, {<<a, a>>}, FALSE), 2, <<>>)}
RgCalls == {Grep(TRUE, "files", 0, AnyFile, 1, Printed),
            Grep(TRUE, "files", 0, AnyFile, 0, <<>>)}
MCSearches == GlobCalls \cup GrepCalls \cup RgCalls
=============================================================================
