------------------------------- MODULE RootPool -------------------------------
(***************************************************************************)
(* internal/cifsops/rootpool.go: the cached os.Root of every allowed       *)
(* directory, used under a read lease (WithRoot) and replaced under the    *)
(* write lease (ReopenAll).  A worker is a goroutine; a Root is a value of *)
(* Roots, open from os.OpenRoot to Close.  The routing of a path to its    *)
(* directory (owner, relName) is not modelled here: a call names the       *)
(* directory.  Module Retrier drives these steps.                          *)
(***************************************************************************)
EXTENDS FiniteSets

CONSTANTS Workers, Dirs, Roots, NoWorker, NoRoot

ASSUME PoolAssumption == /\ NoWorker \notin Workers
                         /\ NoRoot \notin Roots
                         /\ Dirs # {}

VARIABLES
  readers,    \* lease: the workers holding the read side
  queued,     \* lease: readers waiting behind an announced writer
  announced,  \* lease: the writer that holds or waits for the write side
  cache,      \* p.roots: the Root of every directory, NoRoot when not cached
  live,       \* the Roots that are open
  at,         \* where each worker is in the pool's code
  root,       \* the Root its operation uses
  failed,     \* history, kept by the retry loop: the Root its last attempt
              \* failed on
  opened      \* ReopenAll's snapshot: the Roots still to be replaced

poolVars == <<readers, queued, announced, cache, live, at, root, opened>>
leaseVars == <<readers, queued, announced>>

At(w, l) == at' = [at EXCEPT ![w] = l]
CachedRoots == {cache[d] : d \in Dirs} \ {NoRoot}
OpenedRoots == {opened[d] : d \in Dirs} \ {NoRoot}
\* os.OpenRoot returns a Root nobody refers to.
Unused == Roots \ (live \cup CachedRoots \cup OpenedRoots
                   \cup {root[w] : w \in Workers}
                   \cup {failed[w] : w \in Workers})
NoRoots == [d \in Dirs |-> NoRoot]

-----------------------------------------------------------------------------
(* The lease is a sync.RWMutex: a reader that arrives after a writer has   *)
(* announced itself waits, and the writer's Unlock admits all of them.     *)

RLock(w) ==
  /\ at[w] = "out"
  /\ At(w, "resolve")
  /\ \/ announced = NoWorker /\ readers' = readers \cup {w} /\ UNCHANGED queued
     \/ announced # NoWorker /\ queued' = queued \cup {w} /\ UNCHANGED readers
  /\ UNCHANGED <<announced, cache, live, root, opened>>

\* resolve: the cached Root, or a lazily opened one.
Resolve(w, d) ==
  /\ at[w] = "resolve" /\ w \in readers
  /\ \/ /\ cache[d] # NoRoot
        /\ root' = [root EXCEPT ![w] = cache[d]]
        /\ UNCHANGED <<cache, live>>
     \/ /\ cache[d] = NoRoot
        /\ \E h \in Unused : /\ root' = [root EXCEPT ![w] = h]
                             /\ cache' = [cache EXCEPT ![d] = h]
                             /\ live' = live \cup {h}
  /\ At(w, "op")
  /\ UNCHANGED <<leaseVars, opened>>

\* os.OpenRoot fails inside resolve: op never runs.
ResolveFails(w, d) ==
  /\ at[w] = "resolve" /\ w \in readers
  /\ cache[d] = NoRoot
  /\ readers' = readers \ {w}
  /\ At(w, "out")
  /\ UNCHANGED <<queued, announced, cache, live, root, opened>>

\* op returns and the deferred RUnlock runs.
OpReturns(w) ==
  /\ at[w] = "op"
  /\ readers' = readers \ {w}
  /\ root' = [root EXCEPT ![w] = NoRoot]
  /\ At(w, "out")
  /\ UNCHANGED <<queued, announced, cache, live, opened>>

-----------------------------------------------------------------------------
(* ReopenAll: announce, wait for the readers, take the cache, then close   *)
(* and reopen each Root that was in it.                                    *)

Lock(w) ==
  /\ at[w] = "out"
  /\ announced = NoWorker
  /\ announced' = w
  /\ At(w, "drain")
  /\ UNCHANGED <<readers, queued, cache, live, root, opened>>

\* Mutant: the snapshot does not wait for the readers.
SnapshotAtOnce(w) ==
  /\ at[w] = "drain"
  /\ opened' = cache
  /\ cache' = NoRoots
  /\ At(w, "reopen")
  /\ UNCHANGED <<leaseVars, live, root>>

Snapshot(w) ==
  /\ at[w] = "drain" /\ readers = {}
  /\ opened' = cache
  /\ cache' = NoRoots
  /\ At(w, "reopen")
  /\ UNCHANGED <<leaseVars, live, root>>

\* Mutant: the replaced Root is not closed.
ReopenDirLeaks(w, d) ==
  /\ at[w] = "reopen" /\ opened[d] # NoRoot
  /\ \E h \in Unused : /\ live' = live \cup {h}
                       /\ cache' = [cache EXCEPT ![d] = h]
  /\ opened' = [opened EXCEPT ![d] = NoRoot]
  /\ UNCHANGED <<leaseVars, at, root>>

\* Mutant: a live Root is kept in the cache as it is.
ReopenDirKeeps(w, d) ==
  /\ at[w] = "reopen" /\ opened[d] # NoRoot
  /\ cache' = [cache EXCEPT ![d] = opened[d]]
  /\ opened' = [opened EXCEPT ![d] = NoRoot]
  /\ UNCHANGED <<leaseVars, live, at, root>>

ReopenDir(w, d) ==
  /\ at[w] = "reopen" /\ opened[d] # NoRoot
  /\ \E h \in Unused : /\ live' = (live \ {opened[d]}) \cup {h}
                       /\ cache' = [cache EXCEPT ![d] = h]
  /\ opened' = [opened EXCEPT ![d] = NoRoot]
  /\ UNCHANGED <<leaseVars, at, root>>

\* A directory that does not reopen stays uncached.
ReopenDirFails(w, d) ==
  /\ at[w] = "reopen" /\ opened[d] # NoRoot
  /\ live' = live \ {opened[d]}
  /\ opened' = [opened EXCEPT ![d] = NoRoot]
  /\ UNCHANGED <<leaseVars, cache, at, root>>

Unlock(w) ==
  /\ at[w] = "reopen" /\ opened = NoRoots
  /\ announced' = NoWorker
  /\ readers' = queued
  /\ queued' = {}
  /\ At(w, "out")
  /\ UNCHANGED <<cache, live, root, opened>>

-----------------------------------------------------------------------------
PoolInit ==
  /\ readers = {} /\ queued = {} /\ announced = NoWorker
  /\ cache = NoRoots /\ live = {} /\ opened = NoRoots
  /\ at = [w \in Workers |-> "out"]
  /\ root = [w \in Workers |-> NoRoot]
  /\ failed = [w \in Workers |-> NoRoot]

PoolTypeOK ==
  /\ readers \subseteq Workers /\ queued \subseteq Workers
  /\ announced \in Workers \cup {NoWorker}
  /\ cache \in [Dirs -> Roots \cup {NoRoot}]
  /\ opened \in [Dirs -> Roots \cup {NoRoot}]
  /\ live \subseteq Roots
  /\ at \in [Workers -> {"out", "resolve", "op", "drain", "reopen"}]
  /\ root \in [Workers -> Roots \cup {NoRoot}]
  /\ failed \in [Workers -> Roots \cup {NoRoot}]

(* An operation never runs on a closed Root: ReopenAll waits for every     *)
(* WithRoot in flight (rootpool.go, WithRoot).                             *)
NoClosedRootInUse == \A w \in Workers : at[w] = "op" => root[w] \in live

(* No Root is lost: every open Root is cached or waits to be replaced by   *)
(* the reopen pass in progress, and every cached Root is open              *)
(* (rootpool.go, resolve and ReopenAll).                                   *)
NoRootLost == live = CachedRoots \cup OpenedRoots
=============================================================================
