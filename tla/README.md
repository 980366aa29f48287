# A TLA+ verification of file-edit-mcp

`file-edit-mcp` is an MCP server that lets clients read, write, edit and search
files below a few allowed directories, and upload images into them. It is meant
to run in front of CIFS shares: other programs change the same files, mounts
come and go, and filesystem calls fail after having done their work. This
directory models the parts of the server that decide whether somebody's bytes
get lost, checks them with TLC and proves most of what TLC checks with TLAPS, for
every value of the constants.

## 1. The system

| component | state | operations | interacts through | correct when |
|---|---|---|---|---|
| text tools (`internal/tools/read.go`, `write.go`, `edit.go`, `mkdir.go`) | locals of each request, temp files | read, write, edit/multi_edit, mkdir | path locks, markers, retrier, disk | no bytes overwritten unseen; a failed call changes nothing; every call returns |
| session (`internal/session/session.go`) | marker table and lock table per token, one process-wide lock table | Lock, LockContext, LockFile, MarkRead, Compare, Forget | called by every tool | one request per path at a time; a matching marker was earned |
| retrier (`internal/cifsops/cifsops.go`) | `succeeded` flag | Do, DoContext, the cold and warm schedule, OnRetry hook | wraps every filesystem operation | bounded retries, each on a new Root; no attempt after expiry |
| root pool (`internal/cifsops/rootpool.go`) | `os.Root` cache, reader/writer lease | WithRoot, resolve, ReopenAll | hook of the retrier; keepalive probe | no operation on a closed Root, no leaked Root, no deadlock |
| upload item (`upload.go` `uploadItem`, `publish.go`) | temp file, downloaded image | stream, compare, link, degraded copy, cleanup | path lock, retrier, markers | never overwrites; skipped means equal bytes; no leftovers; returns |
| upload call (`upload.go` `Upload`) | results, jobs channel, `batchSem`, `downloadSem` | gate, feed, workers, answer | the process-wide semaphores | every row answered once; limits hold; always answers |
| edit engine (`internal/editengine`) | none | ApplyOnce, ApplyMany | called by edit, multi_edit under the path lock | matches are disjoint and complete; what is counted is what is replaced |
| line rendering (`internal/lineio`) | none | Render: lines, footer | called by read | following the footers shows every line once, and then ends (but see section 3) |
| content warnings (`internal/contentwarn`) | none | Check, Render | called by write, edit | a place named is where a reader finds the character |
| path guard (`internal/pathguard`) | allowed directories | New, Validate | first step of every tool; its result is the key of locks and markers | accepted paths lead below an allowed directory; one file, one key |
| glob, grep (`internal/tools/glob.go`, `grep.go`) | matches, scan count, output collector | walk, collect, cap, answer | path guard, the tree under the feet of the walk, the `rg` subprocess | complete and exact, or noted; each line under its file |
| image download (`internal/imagedownload`) | shared transport and its idle connections, redirect count, capped reader | Get, dialTLS, ConsumeBody, address policy | called by upload workers | policy on every hop; accepted means whole; refusals are true; the count is that of the bytes stored |
| entry, HTTP, schemas, error texts (`cmd`, `stub.go`, `errmsg`) | one `Conn` per token | start, routing | — | — |

The hard behaviours: requests of several tokens interleave at every filesystem
call; programs outside the server take part without any lock; a call may fail
after it took effect and is then retried; a crash loses locks and markers but
not the disk; `ReopenAll` replaces handles under running operations; deadlines
race answers. `PROJECT.json` lists each as a hazard, at its line, with the
properties that would catch it.

## 2. The modules

| module | models |
|---|---|
| `FileTools` | the text tools over disk, locks and markers, one action per step |
| `FreshGate` | the abstract specification: registers a token may replace only if it knows their content |
| `RootPool` | the root pool and its lease |
| `Retrier` | the retry loop; extends and drives `RootPool` |
| `Publish` | one upload item, with competing items, tools and outsiders |
| `UploadBatch` | the upload call; the inside of a download slot is `Publish` |
| `LineIO` | rendering of a file in pages, a client that follows the footers |
| `ContentWarn` | places of control characters and the limit on those listed |
| `EditEngine` | one edit or a list of them on a text, the counting loop step by step |
| `EditText` | composes the three: read, edit and write the text of one file |
| `PathGuard` | path validation and routing to a Root, over a tree with links |
| `Search` | glob and grep over the tree of `PathGuard` while it changes |
| `ImageFetch` | the download: redirects, connections, body |
| `MC*` | instances for TLC |
| `FileToolsProofs`, `FreshnessProofs` | theorems about `FileTools`; the second also that it implements `FreshGate` |
| `RetrierProofs`, `UploadBatchProofs`, `PublishProofs`, `ImageFetchProofs` | theorems about the module of that name |
| `EditTextProofs` | theorems about the edit engine, the pages of read and the warnings, as `EditText` runs them |
| `PathGuardProofs` | theorems about the guard, the routing and glob, as `Search` runs them |

**FileTools.** A request is a goroutine with a program counter. `Begin` is the
arrival; `LockContext`, `LockFile`, `Unlock`, `Release` are the two locks taken
and released as every handler does; `StatTarget`, `ReadFile`, `Gate`, `Restat`,
`ClaimName`, `WriteTemp`, `Rename`, `Unclaim`, `MarkSample`, `MarkKnown`,
`MkdirOnce` are the filesystem calls and marker updates in the order of the
code (`Advance` is whichever of them a handler has come to). `Fails` is a failed call: retried from where the `Retrier.Do` closure
starts, or final. A file is its content (one value) and its mtime; a stat shows
size and mtime. `known` and `before` are history variables: what a token last
saw or put at a path, and what the path would hold without the call. Three
constants choose the world: `FineMtime` (no two writes share an mtime),
`ExposedWindows` (outsiders may act between a tool's last look at a file and
the change that look justifies), `AmbiguousReplies` (a call that reports a
backend error may have run). Collapsed into one step: the write, sync, close
and chmod of a temp file, and the second stat of mkdir. Parents exist and paths
are resolved; the bytes an edit produces are any content.

**RootPool, Retrier.** The lease is a Go `RWMutex`: a writer that has announced
itself keeps new readers out, and its unlock admits those who waited. `Retrier`
runs `Do`, `DoContext` and the keepalive probe on top, with the schedule chosen
at the first failure, the hook, the sleep and the select race of
`sleepContext`. `failed` is a history variable: the Root of the last attempt.

**Publish.** `Get` to `CheckType` are the download with its re-download loop;
`TakeLocks` and what follows up to `RemoveTemp` is `publishItem`; `Attempt` is
the context check of `DoContext`. Instead of mtimes the model keeps the set of
items whose target moved since they sampled it, so mtimes are fine here. The
session lock is always free when the path lock is held (theorem
`LocksCorrect`) and is left out. `ToolRead` and `ToolWrite` are the text tools,
atomic because they hold the same path lock.

**UploadBatch.** A handler, its workers and the two semaphores. The unbuffered
channel is a rendezvous (`Send`); a select with two ready cases takes either.

**LineIO, ContentWarn, EditEngine, EditText.** Content is a sequence of
characters; a newline, an invalid byte and two control characters are among
them. `Render` works on lines and their sizes in bytes and returns the lines
shown, the numbers, the reasons and the offset of the footer, not its words.
`ReadPage` is a client that continues where the footer says, also where it says
"continue with offset=1" past the end. `EditEngine` keeps
the loop of `countMatches` (`CountMatches`, one match per step) between the
checks before it (`Apply`) and the verdict after it (`Decide`); `NextEdit` is
the loop of `ApplyMany`, with the array of edits chosen as it is read.
`AllReplaced` and `FirstReplaced` are the two library calls it ends with.
`EditText` is the tools' side of it: what a call starts from and what it leaves
in the file. `FileTools` is the concurrency around the same calls, with
contents as opaque values.

**PathGuard, Search.** Names are sequences of letters and paths sequences of
names, so the prefix tests are tests on strings as in the code: the names `a`
and `ab` are prefixes of one another, and `/` is an allowed directory.
`Receive` is `Validate`; `Create` is the create or mkdir through the owning
Root, so that a request may find what another one resolved as missing.
`EvalSymlinks` is a walk over one name at a time: it is halted (`Halt`), with an
`Answer`, or goes `Onward`, over a link from the root again.
`Search` takes one step per directory entry (`Visit`), reads a directory when
it enters it, and follows no link, but the fallback opens one (`os.Open`).
`line`, `endFile` and `Spans` are the collector. `GrepRG` is the `rg` process: at
the deadline it has printed any number of lines and perhaps a `Part` of the next. `MtimeOf` and `FileText` give a
path its mtime and its lines. `was` is a history variable: the tree when the
search began.

**ImageFetch.** Sizes are in units: a head of two, a prolog of three, a cap of
five. A worker takes an address through `StartGet`, `ReadTransport`,
`BuildTransport`, `Resolve`, `Dial` or `Reuse`, `Reply`, `Classify` and
`Consume`; `Close` ends the item or starts it again after a storage failure, as
the loop of `uploadItem` does. `f.transport` is read and written without a
lock: the read, the write and the read for the result are three actions.
A body that ends early fails at every read from there on (`ReadError`); the end
of a body comes with its last bytes or at the next read (`ReadTail`).

## 3. The runs

| run | instance | shows |
|---|---|---|
| `tools_safety` | 2 tokens, 3 requests, 1 path, 2 contents of equal size, 4 calls, 1 outside change, 1 failed call that may have run | types, lock exclusion, `MarkerSound`, `NoSilentOverwrite`, `ImplementsFreshGate` |
| `tools_faults` | 2 tokens, 2 requests, 2 calls, 2 failed calls, 1 crash, 1 outside change, coarse mtimes, fair scheduling | `FailedCallUntouched`, `EveryCallReturns` |
| `retry` | 2 workers, 1 directory, 4 Roots, fair scheduling | `NoClosedRootInUse`, `NoRootLost`, `RetryUsesNewRoot`, retry bounds, `EveryCallEnds` |
| `publish_safety` | 2 items, 1 path, 2 images, links refused at will, crashes, ambiguous replies | never overwrite, skipped = same, no unfinished file, markers forgotten, temp files removed |
| `publish_liveness` | 2 items, 1 image | `EveryItemReturns` |
| `upload_batch` | 3 calls at a gate for 2, 2 slots; one call with any list of up to 3 items (limit 2) and 2 workers, two with one item each; fair scheduling | every row answered, one worker per target, limits, semaphores balanced, `EveryCallAnswered` |
| `edit_text` | every content of up to 4 of 5 characters, 24 edits, up to 2 per call, 2 lines of 2 characters and 10 bytes per page | `MatchesMaximal`, `ReplacedAsCounted`, `AmbiguousLinesReadable`, `WarningsPointAtCharacters`, `FooterHonest`, `PagesConsecutive` |
| `search_paths` | 6 trees, 4 lists of allowed directories, 2 requests, 1 search with 1 request meanwhile, up to 9 entries, 3 deep | `AcceptedInside`, `SameFileSameKey`, `RoutedExactly`, `GlobCompleteUnlessNoted`, `GrepExact` |
| `image_fetch` | 2 workers, 2 redirects, 1 idle connection, 2 hosts, 57 responses | `RequestsInPolicy`, `AcceptedWhole`, `RefusalsAreTrue` |

Three runs document disagreements between the code and what its comments and
docs say; TLC finds the counterexample (`findings` in `PROJECT.json` quotes
them):

| run | what happens |
|---|---|
| `temp_residue` | a skipped upload leaves its temp file |
| `grep_abort` | the fallback gives up a file at an over-long line without `endFile`: the lines of the next file are answered under the path and numbers of the first |
| `svg_count` | an SVG is accepted with a count smaller than the bytes stored |

Other disagreements and limits of the promises follow from the models without a
run of their own. They are reached by changing a constant of a run:

* `tools_safety` with `ExposedWindows = TRUE` violates `NoSilentOverwrite`: an
  outsider that writes between re-stat and rename is overwritten, where
  `README.md:8` promises a rejected write. `MarkerSound` fails too: an
  outsider's change between a rename and the stat after it is marked as known.
* `tools_safety` with `FineMtime = FALSE` violates `MarkerSound`, and
  `NoSilentOverwrite` when it is checked alone: two writes of equal size in one
  mtime tick, and a token overwrites what it never read.
* `tools_faults` with `AmbiguousReplies = TRUE` violates `FailedCallUntouched`:
  a create that ran but reported an error leaves an empty file
  (`write.go:148`, against the comment at 155).
* `publish_safety` with `ExposedWindows = TRUE` violates `NeverOverwrite`: the
  rollback of a degraded copy removes the target by name, also a file that has
  replaced the copy.

And these are visible in the definitions:

* `Sleep` in `Retrier` may start an attempt after the context is done, which the
  comment on `DoContext` excludes.
* `SvgRootCheck`: what the XML decoder reads beyond the head is stored but not
  counted (`image.go:138`, run `svg_count`). For an SVG whose root element ends
  after the first 512 bytes this means: with a declared length it is refused as
  truncated (`RefusalsAreTrue` excepts this case, `LongProlog`, and nothing
  else is called truncated: any other early end is an error of the read);
  without one `ConsumeBody` accepts it, and `publishNoReplace` refuses the temp
  file as changed, because its size is not the count (`publish.go:308`); and a
  body one byte beyond the cap is accepted if its end comes with its last bytes,
  because `image.go:155` compares the count (`AcceptedWhole` excepts exactly
  this one byte).
* `PagesConsecutive`: a last page that cut a line has a footer with the offset
  behind the last line (`lineio.go:183`). The page there is empty and says
  "continue with offset=1" (`lineio.go:119-124`), so a client that follows the
  footers reads the file again and again and never meets an end. The property
  says that this is the only way past the end, and the only way to see a line
  twice.
* `Rollback`, `Unclaim`: both remove by name what is at the target, an empty
  directory included.
* `BuildTransport`: two workers may build the transport at once. The doc says
  "A Fetcher is safe for concurrent use"; by Go's memory model this is a race.
  The model gives each worker a transport, of which the last one stored serves
  all, and shows that requests keep to the policy all the same.
* `FallbackExact` asks for roots that do not overlap: with nested allowed
  directories and no path argument a file is walked twice and listed or counted
  twice.
* `SameFileSameKey` excepts a link that led nowhere when it was validated: it is
  a key of its own, and the file later created at its target another.
* `GrepExact` is about whole lines of `rg`, the last one before the deadline
  excepted: what has come of it is answered as a result, half a path or half a
  number too (`Part`; `grep.go:198`), where `stub.go:107` promises lines of a
  path, a path with its line, or a path with its count.
* `TimeOut`: the end of the caller's context is answered as a timeout of the
  fallback, too. `Deeper`: a directory that cannot be read is skipped without a
  note. The fallback opens links, `rg` by default does not.
* `lineNumbers` counts in the content an edit met: in multi_edit that is the
  result of the edits before it, not the file. Occurrences that overlap count
  once. `sanitize` collapses invalid bytes that `Position` counts one by one.

**Bounds.** Locks, markers and targets of different paths are independent, so
one path suffices where a request has one path. The directories of the pool
meet only in the lease, which a reopen pass holds for all of them, so `retry`
has one; the theorems about it are for any number. Three requests of two tokens
give every pairing (same token, other token) with a bystander; four calls allow
read, write, someone else's write, and the write that must be refused
(`tools_faults` trades calls for failures; a crash is in `tools_faults` only,
and in the theorems about `FileTools`). Two contents of equal size are the hard
case: only mtimes tell them apart. Retries are bounded by the code itself
(three cold, one warm); `Publish` runs the warm schedule (`Retries = 1`), and
`tools_faults` has two failures, so a call that fails for good there does so by
a definitive error or a failed reopen; `retry` goes through both schedules.
`MaxRequests`, `MaxOutside`, `MaxFaults`, `MaxCrashes` and `MaxClock` cap the
rest of `FileTools`; with all calls returned and none to come, `Quiescent`
stutters, so deadlock checking stays on. `MCRetrier` asserts that there are
enough Roots for `os.OpenRoot` never to run out.
In `upload_batch` the calls meet only at the two semaphores, so one call with
every list and two small ones, together more workers than slots, suffice.
In `edit_text` four characters give a line that is too long, three lines, a
page cut by each of the three limits, overlapping occurrences and a match at
every place of a text; edits keep the result within the same bound (`FinishEdit`).
In `search_paths` the trees are chosen by hand for the hard cases (a link to a
directory, to nowhere, in a loop; a directory that cannot be read; names that
are prefixes), and `Depth`, `MaxEntries` and `Meanwhile` cap their growth; the
valve of glob (7 entries) and its cap (2 results) are both below what the trees
hold, and the largest of them meets the valve. In `image_fetch` bodies end
before, at and behind the head, the prolog and the cap, and SVGs with a short and
a long prolog end one and two units behind the cap; the second worker meets
one response only and is there for the shared transport. Nothing bounds the
number of fetches: the states repeat. Symmetry is
used for contents, items, images, calls and targets, which the modules
only compare, and only in runs without liveness.

**Fairness.** Go schedules every runnable goroutine, filesystem calls return
(the kernel times them out), and deadlines pass: weak fairness of the steps of
a request, worker or item, and of `Expire`. A blocked channel send and a
blocked `RWMutex` are served in arrival order: strong fairness of
`LockContext` and of `StartReopen`. No fairness is assumed for the publish lock
or for download slots: there the deadline must do, and does.

## 4. The theorems

Each theorem holds for every value of the constants that satisfies the named
assumptions of its module, and `PROJECT.json` lists each with the property it
states. Every proof has the same shape: an inductive invariant, a lemma for each
action or group of actions that keeps it, and a last step that reads the
property off it. Few of the properties are inductive by themselves; what the
invariant adds to them is the reason why the code is right.

**FileTools** (`ConstantsAssumption`: the special values are distinct, `TokenOf`
and `SizeOf` are functions). Failures, retries and crashes are allowed in all
of it, ambiguous replies wherever they are not excluded.

* `TypeCorrect`: `TypeOK`.
* `LocksCorrect`: `SessionLockFree` and `PathExclusion`. Neither is inductive;
  `LockInv` says that a request in its critical section is the one the path
  lock names, and that a session lock is held only by a request of that token
  and path inside its body.
* `MarkersCorrect`: `MarkerSound`, assuming `FineMtime` and `~ExposedWindows`.
  `MarkerSound` says nothing of what a request carries from one step to the
  next, so `FreshInv` adds: every mtime on disk, in a marker or in a sample is
  not after the clock (a change made now is therefore newer than all of them);
  a temp file is newer than every marker of its target; bytes read belong to
  the sample as long as the sample matches; a request inside a window works on
  bytes its token knows, or on a placeholder whose removal may have run already
  (`UnclaimEffect` under an ambiguous reply). The path lock (`PathExclusion`) keeps the steps of
  other requests away from a request's path.
* `NoOverwriteCorrect`: `NoSilentOverwrite`, from `FreshInv`.
* `Refinement`: `ImplementsFreshGate`, by the map that forgets mtimes, locks
  and markers, and reads `seen` off `known`.
* `FailedCallsCorrect`: `FailedCallUntouched`, assuming `~AmbiguousReplies` and
  `~ExposedWindows`. `CallsInv` says of each request that its path holds what
  it would hold without the call until the call has succeeded, except between
  the claim of a new name and its removal; that a claim is made of an absent
  name only; and that a claim not yet removed is on its way to be.

**RootPool and Retrier** (`PoolAssumption`). `IInv` has the lease (who is in an
operation holds the read side, and a reopen pass runs with no reader), the
Roots (none is cached twice, or cached and waiting to be replaced), the failed
Root (out of the cache from the beginning of the reopen pass on) and the retry
budget. From it: `InUseCorrect`, `RootsCorrect`, `RetryCorrect`, and
`TypeCorrect`, which carries the bound on retries.

**Publish** (`PublishAssumption`). `IInv` adds to the types that a downloaded
image stays one; that a published and not yet forgotten file is pending at its
item; that the temp file is swept when an item unlocks; that what
`compareExisting` hashed is still there unless the target moved; and, without
outsiders in the windows, that the target of a copy is that copy. From it:
`PartialCorrect`, `ForgetCorrect`, `TempCorrect`, `SkippedCorrect`, with crashes
and ambiguous replies; and `NoReplaceCorrect`, that an upload never overwrites,
assuming `~ExposedWindows`.

**UploadBatch** (`LimitsAssumption`, `ListsAssumption`). `IInv` identifies the
permits of each semaphore with their holders, and says of each call that a row
not yet written is still to be fed or has a worker, and that no two workers
hold the same row. From it: `BoundsCorrect`, `AnswersCorrect`,
`TargetsCorrect`, for any number of calls, workers and items.

**ImageFetch** (`FetchAssumption`, `AddressAssumption`: bodies and declared
lengths fit together, and the resolver has answers for every host that the URL
check lets pass). `IInv` says that every connection, idle or in use, was made for its
host to an address of a list that was public as a whole (`Good`, `Vetted`), that
the address requested passed the policy at every hop, how far each stage of the
body has read, and that less is counted than read only of an SVG with a long
prolog. From it: `PolicyCorrect`, `WholeCorrect`,
`RefusalsCorrect`. The proof of the last one corrected the property: an SVG is
refused for its type also when the body ends before its root element.

**Edit engine** (`LineAssumption`, `EditAssumption`, `LengthAssumption`).
`EngineTypeCorrect`, `MatchesCorrect` and `ReplacedCorrect`. The last one
relates three ways to find the matches: the loop of `countMatches`, the
recursion of `bytes.ReplaceAll`, and the first occurrence that `bytes.Replace`
takes. `ScanInv` says that the loop's offsets are leftmost: each is an
occurrence and there is none between the end of the one before and its start.
`GapCopied` and `SplicedAll` follow the recursion along these offsets. What a
recursive function computes is shown without the induction theorems of the
library, which take a predicate: `LeastNat` (a nonempty set of numbers has a
least element) gives `UpTo`, induction on a set, and the function is built up
value by value to show that its equations have a solution
(`AllReplacedEquations`, `FlattenEquations`).

**Lines** (the same assumptions, and `WarnAssumption`). `splitLines`, the line
numbers of the engine, the positions of the warnings and the pages of read must
mean the same lines. `InOrder` lists the numbers of a set by their rank
(`InOrderFacts`), so `splitLines` cuts at 0, at the newlines in order, and
behind the body (`CutsFacts`); the lines are what stands between two cuts
(`LinesFacts`), and a place belongs to the line whose number is one more than
the newlines before it (`LineAtFacts`, `NumberIsLine`).

* `AmbiguousLinesCorrect`: `NamedLines` says that the numbers of a refusal are
  those of the first matches in the text that is still there; the sum of the
  lengths of the lines before one leads to its cut (`StartsAreCuts`).
* `PagesConsecutiveCorrect` and `FooterHonestCorrect`: a single line
  always fits (`SizeFits`, from `LineAssumption`: a line cut to its limit is
  within the byte budget), so a page is never empty (`WindowIsPage`), starts where it was
  asked to and has no footer exactly if the rest of the file was shown in full
  (`PageFacts`). `Following` says that the client's offset
  is one past the last line shown, and past the end of the file only when the
  page before cut a line: a cut line is what `PageFacts` asks of a page that
  shows the last line and has a footer.
* `WarningsPointCorrect`: `Position` is the place in the cut lines
  (`PositionFacts`), different for different characters (`CheckFacts`); grouping
  by character loses no finding and repeats none (`FlattenDistinct`,
  `WarningLists`).

**PathGuard** (`GuardAssumption`: no name is empty, `.` or `..` or has a slash,
an entry of a tree lies in a directory, links are absolute; nothing bounds the
names, the links or the number of requests). The theorems are about the
specification of `Search`, whose steps leave the guard's variables alone.
`AcceptedInside` is not inductive: `GuardInv` adds that the tree is one, and
`Settled` of every accepted path, that its parent is a directory, not only that
it resolves. The argument has three parts.

* Walks. A step of a walk either spends a link or a name, so what `EvalSymlinks`
  computes has its equation and can be reasoned about by induction
  (`StepLighter`, `WalkInduction`, `EvalEquation`). A path whose entry is a file
  or a directory resolves to itself (`Along`, `ResolvesToItself`); a walk that
  succeeds goes on from where it arrived (`Continued`), and with fewer links
  behind it ends no differently (`FewerLinks`); so a missing name joined to its
  resolved parent does not resolve yet (`MissingInParent`), through a link or
  not: this is what `validateNewPath` relies on.
* Growth. When an entry is created at `c`, a walk ends as before, or it ended
  with an error and now ends with one or at `c` itself (`EvalGrown`). `c` was
  accepted, so it is inside (`SettledGrown`).
* Strings. A string that ends with a slash is a prefix of another one exactly if
  the names are (`ClosedPrefix`), because a name has no slash (`NameEnds`). So
  `within` is `Below` (`WithinIsBelow`), what `relName` cuts off leads back, and
  of two directories over a path the one with the longer string is the inner one
  (`LongerBelow`, `OverOnePath`).

From it: `AcceptedCorrect`, `SameKeyCorrect`, `RoutedCorrect`.

**Search, the glob half** (`SearchAssumption`: the letters of the names are
listed once each, in the order of bytes, and a file system has finitely many
entries). `GlobCorrect` is `GlobCompleteUnlessNoted`, from `SearchInv` and
`GuardInv`.

* The walk. `WalkOK` says that the walk has done the roots before the one it is
  at (`LeftOK`), that what it has to visit is there and can be reached from that
  root (`TodoOK`), and that every match that was there when the search began is
  found or below an entry still to be visited, unless its root is still to come
  (`SeenOK`). A visit keeps this because what lies below a directory lies below
  one of its children, and a directory over a file that can be reached can be
  read (`NextOnWay`, `ReadableOnWay`, `VisitedOK`). Requests that create entries
  meanwhile keep it because no entry goes and none changes its kind
  (`GrownKept`, `WalkKept`).
* The answer. `Sorted` lists a finite set by rank, which is a list of all its
  members in order (`LinedUp`), provided the order is one: of letters, of names,
  of paths (`LexOrders`, twice), and of mtimes with names for ties
  (`NewerOrder`). So the cap cuts the oldest (`CappedFacts`).
* The listed path names the entry: it lies below an allowed directory because its
  root does (`BelowTwice`), and an entry there that is no link is accepted as it
  is (`AcceptedAsIs`).

**The assumptions that exclude something** are needed, and section 3 says how
to see it: `FineMtime` and `~ExposedWindows` for the markers, `~ExposedWindows`
for the uploads, `~AmbiguousReplies` for failed calls.

**Only model-checked.** `GrepExact`, the answer of grep, which is computed by
folds over the lines of a file and the ranges around its matches; and all
liveness: fairness and ENABLED are out of the prover's reach.

## 5. Plan

Done: the modules and theorems above. What is left is a proof of `GrepExact`, on
the walk lemmas of `PathGuardProofs` and under the assumption that no scan ends
early (`whole`), without which `grep_abort` refutes it.

## 6. Not modelled

* Process start, flag and environment parsing, HTTP routing and shutdown
  (`cmd/`). The shutdown grace is 10 s, shorter than an upload item or a grep:
  a request cut off by it is a crash of `FileTools` and `Publish`.
* JSON schemas, error texts, warning texts and log lines: no state.
* The inside of `rg`, of `net/http`, of TLS and of the resolver: external, by
  the outcomes the code distinguishes. The argument list for `rg` is not
  checked against its manual.
* The tables of special addresses (`policy.go`) and the magic numbers
  (`image.go`): data, given by the constants `Public` and `magic`. The patterns
  of glob and the regular expressions of grep: sets of the paths and lines they
  match.
* Entries that vanish during a walk (`d.Info` failing) and files that change
  while they are searched, or between two pages of a read: the tree only grows
  and files keep their text while a search runs.
* How long others wait while `streamOnce` holds the read lease over the network
  (`publish.go:106`): a matter of time.
