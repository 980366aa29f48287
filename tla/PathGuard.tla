------------------------------- MODULE PathGuard -------------------------------
(***************************************************************************)
(* internal/pathguard/pathguard.go and the routing half of                 *)
(* internal/cifsops/rootpool.go (owner, relName): from the path a client   *)
(* names to the resolved path that every tool locks, marks and works on,   *)
(* and to the Root and the relative name it is reached through.            *)
(*                                                                         *)
(* The file system is a tree of names with absolute symbolic links.  A     *)
(* path is a sequence of names and a name a sequence of letters, so that   *)
(* the prefix tests of the code are tests on strings.  The tree only grows *)
(* while the server runs: requests create files and directories.           *)
(***************************************************************************)
EXTENDS Integers, FiniteSets, Sequences, SequencesExt

CONSTANTS
  Names,         \* sequences of letters
  Depth,         \* the depth of the tree
  MaxLinks,      \* the links EvalSymlinks follows before it gives up
  MaxEntries,    \* bound: the entries the tree grows to
  Trees,         \* the file systems the server may start on
  AllowedLists,  \* the directories it may be started with
  RawPaths,      \* what clients name: form and components
  Home,          \* what a leading ~ stands for
  Reqs           \* concurrent requests

Slash == "/"
Dot == <<".">>
Up == <<".", ".">>

Paths == BoundedSeq(Names, Depth)
Entries == [kind: {"absent", "file", "dir"}, to: {<<>>}]
           \cup [kind: {"link"}, to: Paths]

ASSUME GuardAssumption ==
  /\ {Depth, MaxLinks, MaxEntries} \subseteq Nat
  /\ \A n \in Names : /\ n \in Seq(ToSet(n)) /\ Slash \notin ToSet(n)
                       /\ n \notin {<<>>, Dot, Up}
  /\ Home \in Paths
  /\ \A t \in Trees :
       /\ t \in [Paths -> Entries] /\ t[<<>>].kind = "dir"
       /\ \A p \in Paths \ {<<>>} :
            t[p].kind # "absent" => t[Front(p)].kind = "dir"
  /\ \A list \in AllowedLists : list \in Seq(Seq(Names))
  /\ \A raw \in RawPaths :
       /\ raw.form \in {"nul", "drive", "relative", "home", "absolute"}
       /\ raw.parts \in Seq(Names \cup {Dot, Up})

VARIABLES
  tree,  \* the file system
  dirs,  \* Guard.dirs and RootPool.dirs
  req    \* each request: the place it is at, the path it resolved, its error

guardVars == <<tree, dirs, req>>

Kind(p) == IF p \in Paths THEN tree[p].kind ELSE "absent"

-----------------------------------------------------------------------------
(* Strings.                                                                *)

String(p) == IF p = <<>> THEN <<Slash>>
             ELSE FlattenSeq([k \in DOMAIN p |-> <<Slash>> \o p[k]])

\* Mutant: the prefix test does not end at a separator.
withinUnseparated(dir, path) == IsPrefix(String(dir), String(path))

\* The root directory is special: "/" + "/" is no prefix of anything.
within(dir, path) ==
  \/ dir = <<>>
  \/ String(path) = String(dir)
  \/ IsPrefix(String(dir) \o <<Slash>>, String(path))

anyWithin(path) == \E k \in DOMAIN dirs : within(dirs[k], path)

\* filepath.Clean of an absolute path: . goes, .. takes the name before it.
Clean(parts) ==
  LET done[k \in 0..Len(parts)] ==
        IF k = 0 THEN <<>>
        ELSE LET before == done[k - 1]
             IN  IF parts[k] = Dot THEN before
                 ELSE IF parts[k] # Up THEN Append(before, parts[k])
                 ELSE IF before = <<>> THEN <<>> ELSE Front(before)
  IN  done[Len(parts)]

-----------------------------------------------------------------------------
(* filepath.EvalSymlinks: name by name from the root; a link starts over   *)
(* at its target.                                                          *)

\* Where it is, the names left, the links followed.
Walks == [at: Seq(Names), rest: Seq(Names), links: 0..MaxLinks]
Ahead(walk) == Append(walk.at, Head(walk.rest))

\* What ends it here: that it has arrived, or an error.
Halt(walk) ==
  IF walk.rest = <<>> THEN "none"
  ELSE IF Kind(walk.at) # "dir" THEN "ENOTDIR"
  ELSE IF Kind(Ahead(walk)) = "absent" THEN "ENOENT"
  ELSE IF Kind(Ahead(walk)) = "link" /\ walk.links = MaxLinks THEN "ELOOP"
  ELSE "onward"

Onward(walk) ==
  IF Kind(Ahead(walk)) = "link"
  THEN [at |-> <<>>, rest |-> tree[Ahead(walk)].to \o Tail(walk.rest),
        links |-> walk.links + 1]
  ELSE [at |-> Ahead(walk), rest |-> Tail(walk.rest), links |-> walk.links]

Answer(walk) ==
  [err |-> Halt(walk),
   path |-> IF Halt(walk) \in {"none", "ENOTDIR"} THEN walk.at ELSE Ahead(walk)]

EvalSymlinks(path) ==
  LET eval[walk \in Walks] ==
        IF Halt(walk) = "onward" THEN eval[Onward(walk)] ELSE Answer(walk)
  IN  eval[[at |-> <<>>, rest |-> path, links |-> 0]]

Accepted(path) == [err |-> "none", path |-> path]
Refused(err) == [err |-> err, path |-> <<>>]

\* Mutant: the parent is checked where it resolves, but the path goes on as
\* it was named.
validateNewPathUnresolved(path) ==
  LET parent == EvalSymlinks(Front(path))
  IN  IF parent.err # "none" THEN Refused("EParentMissing")
      ELSE IF ~anyWithin(parent.path) THEN Refused("EOutside")
      ELSE Accepted(path)

\* Only the last name is missing: the parent decides.
validateNewPath(path) ==
  LET parent == EvalSymlinks(Front(path))
  IN  IF parent.err # "none" THEN Refused("EParentMissing")
      ELSE IF ~anyWithin(parent.path) THEN Refused("EOutside")
      ELSE Accepted(Append(parent.path, Last(path)))

\* Steps 1 to 4: NUL bytes, the tilde, drive letters, relative paths.
Expanded(raw) == IF raw.form = "home" THEN Home \o raw.parts ELSE raw.parts

Validate(raw) ==
  LET path == Clean(Expanded(raw))
      real == EvalSymlinks(path)
  IN  CASE raw.form = "nul" -> Refused("ENulByte")
        [] raw.form = "drive" -> Refused("EWindowsPath")
        [] raw.form = "relative" -> Refused("ERelative")
        [] OTHER ->
             IF real.err = "ENOENT" THEN validateNewPath(path)
             ELSE IF real.err # "none" THEN Refused("ENotExist")
             ELSE IF ~anyWithin(real.path) THEN Refused("EOutside")
             ELSE Accepted(real.path)

-----------------------------------------------------------------------------
(* RootPool: which Root a path is reached through, and by which name.      *)

\* Mutant: the first directory that matches.
ownerFirst(path) ==
  dirs[Min({k \in DOMAIN dirs : within(dirs[k], path)})]

\* The longest prefix.
owner(path) ==
  LET over == {k \in DOMAIN dirs : within(dirs[k], path)}
  IN  dirs[CHOOSE k \in over :
             \A j \in over : Len(String(dirs[j])) <= Len(String(dirs[k]))]

\* The string that is left of path behind dir and its separator.
relName(dir, path) ==
  IF path = dir THEN Dot
  ELSE LET prefix == IF dir = <<>> THEN <<Slash>> ELSE String(dir) \o <<Slash>>
       IN  SubSeq(String(path), Len(prefix) + 1, Len(String(path)))

-----------------------------------------------------------------------------
(* Requests: validate, then create the file or directory if it is missing. *)

NoReq == [at |-> "idle", path |-> <<>>, err |-> "none"]

Receive(r, raw) ==
  /\ req[r] = NoReq
  /\ LET verdict == Validate(raw)
     IN  req' = [req EXCEPT ![r] =
                   [at |-> IF verdict.err = "none" THEN "resolved" ELSE "refused",
                    path |-> verdict.path, err |-> verdict.err]]
  /\ UNCHANGED <<tree, dirs>>

\* The exclusive create of write, or the mkdir: os.Root takes the name
\* relative to the owner.  An existing entry, a link included, is left alone.
Create(r, kind) ==
  /\ req[r].at = "resolved"
  /\ LET path == req[r].path
     IN  tree' = IF path \in Paths /\ Kind(path) = "absent"
                    /\ Kind(Front(path)) = "dir"
                    /\ Cardinality({p \in Paths : Kind(p) # "absent"}) < MaxEntries
                 THEN [tree EXCEPT ![path] = [kind |-> kind, to |-> <<>>]]
                 ELSE tree
  /\ req' = [req EXCEPT ![r] = NoReq]
  /\ UNCHANGED dirs

\* A refusal is answered; a request that only looks ends as well.
Return(r) ==
  /\ req[r] # NoReq
  /\ req' = [req EXCEPT ![r] = NoReq]
  /\ UNCHANGED <<tree, dirs>>

\* New: every directory resolves to a directory; doubles are dropped.
New(list) ==
  LET real == [k \in DOMAIN list |-> EvalSymlinks(list[k])]
      kept[k \in 0..Len(list)] ==
        IF k = 0 THEN <<>>
        ELSE LET before == kept[k - 1]
             IN  IF real[k].path \in ToSet(before) THEN before
                 ELSE Append(before, real[k].path)
  IN  /\ list # <<>>
      /\ \A k \in DOMAIN list : real[k].err = "none" /\ Kind(real[k].path) = "dir"
      /\ dirs = kept[Len(list)]

GuardInit ==
  /\ tree \in Trees
  /\ \E list \in AllowedLists : New(list)
  /\ req = [r \in Reqs |-> NoReq]

-----------------------------------------------------------------------------
Below(dir, path) == Len(dir) <= Len(path) /\ SubSeq(path, 1, Len(dir)) = dir

(* A path that was accepted lies below an allowed directory, name by name, *)
(* in a directory that is there, and what it leads to lies below an        *)
(* allowed directory as well: also when other requests have created        *)
(* entries since, and through a link that led nowhere when it was          *)
(* validated (pathguard.go, Validate and within).                          *)
AcceptedInside ==
  \A r \in Reqs : req[r].at = "resolved" =>
    LET path == req[r].path
        real == EvalSymlinks(path)
    IN  /\ \E k \in DOMAIN dirs : Below(dirs[k], path)
        /\ path # <<>> => EvalSymlinks(Front(path)).err = "none"
        /\ real.err = "none" => \E k \in DOMAIN dirs : Below(dirs[k], real.path)

(* Two requests that mean the same file have the same resolved path, which *)
(* is the key of its locks and markers, also when one of them was          *)
(* validated before the other created the file.  The exception is a link   *)
(* that led nowhere when it was validated: it is its own key               *)
(* (pathguard.go, Validate and validateNewPath).                           *)
SameFileSameKey ==
  \A r, s \in Reqs :
    LET p == req[r].path
        q == req[s].path
    IN  /\ req[r].at = "resolved" /\ req[s].at = "resolved"
        /\ Kind(p) # "link" /\ Kind(q) # "link"
        /\ EvalSymlinks(p).path = EvalSymlinks(q).path
        => p = q

(* The Root of a path is that of the innermost allowed directory over it,  *)
(* and the relative name leads from there back to the path without leaving *)
(* the Root (rootpool.go, owner and relName).                              *)
RoutedExactly ==
  \A r \in Reqs : req[r].at = "resolved" =>
    LET path == req[r].path
        dir == owner(path)
        rel == relName(dir, path)
    IN  /\ Below(dir, path)
        /\ \A k \in DOMAIN dirs : Below(dirs[k], path) => Len(dirs[k]) <= Len(dir)
        /\ IF rel = Dot THEN path = dir
           ELSE /\ String(path) = (IF dir = <<>> THEN <<>> ELSE String(dir))
                                  \o <<Slash>> \o rel
                /\ Head(rel) # Slash
=============================================================================
