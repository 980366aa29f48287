-------------------------------- MODULE Publish --------------------------------
(***************************************************************************)
(* One item of an upload (internal/tools/upload.go, uploadItem, and        *)
(* publish.go): download into a temp file, check the type, take the locks, *)
(* then compare with an existing target or publish without replacing.      *)
(*                                                                         *)
(* Items run concurrently with each other, with the text tools (which take *)
(* the same path lock) and with programs outside the server.  An image is  *)
(* one value; a target that is being copied in the degraded mode holds     *)
(* Partial.  Instead of mtimes the model records whether a target has      *)
(* changed since it was sampled, so mtimes are taken to be fine.  The      *)
(* session lock is taken and released together with the path lock: module  *)
(* FileTools shows that it is always free by then.                         *)
(***************************************************************************)
EXTENDS Naturals, FiniteSets

CONSTANTS
  Items,            \* upload goroutines
  Tokens, TokenOf,  \* the token each of them works for
  Paths, Images,
  Partial,          \* the content of an unfinished degraded copy
  Empty,            \* a temp file before the download
  Absent, Dir, Special,  \* a target that is no regular file
  Elsewhere,        \* the author of a file no item published
  Nothing, NoItem,
  Retries,          \* of one DoContext: 1 in a warm process, 3 in a cold one
  LinkRefused,      \* TRUE: the share may refuse hard links
  AmbiguousReplies, \* TRUE: a call that reports a backend error may have run
  ExposedWindows,   \* TRUE: outsiders may act during a degraded copy
  Crashes           \* TRUE: the process may crash and restart

Files == [data: Images \cup {Partial}, by: Items \cup {Elsewhere}]
Kinds == {Absent, Dir, Special}

ASSUME PublishAssumption ==
  /\ TokenOf \in [Items -> Tokens]
  /\ Partial \notin Images /\ Empty \notin Images
  /\ Elsewhere \notin Items /\ NoItem \notin Items
  /\ Kinds \cap Files = {} /\ Absent # Empty /\ Absent \notin Images
  /\ Absent # Dir /\ Absent # Special /\ Dir # Special
  /\ Nothing \notin Images /\ Retries \in {1, 3}
  /\ {LinkRefused, AmbiguousReplies, ExposedWindows, Crashes} \subseteq BOOLEAN

VARIABLES
  disk,     \* what every target path holds
  plock,    \* Shared.plocks
  marker,   \* each token's marker for a path: none, match or stale
  pc, path, \* each item's step and target
  img,      \* dl: the image it has downloaded
  temp,     \* its temp file: Absent, Empty or an image
  lost,     \* items one of whose temp removals failed
  unsure,   \* items that have, ever, left a target in doubt: a link or a
            \* create that ran but reported an error, a failed rollback, a
            \* crash during a copy
  moved,    \* items whose target changed since they sampled it
  seen,     \* the content compareExisting has hashed
  tries,    \* retries used by the DoContext it is in
  expired,  \* items whose context is done
  out       \* created, skipped, failed

left == <<lost, unsure>>
local == <<path, img, seen>>
vars == <<disk, plock, marker, pc, path, img, temp, left, moved, seen,
          tries, expired, out>>

Held(i) == disk[path[i]]
IsFile(f) == f \notin Kinds

Goto(i, l) == pc' = [pc EXCEPT ![i] = l]
Step(i, l) == Goto(i, l) /\ UNCHANGED <<tries, out>>
\* The next step is inside another DoContext, or outside of all.
Enter(i, l) == Goto(i, l) /\ tries' = [tries EXCEPT ![i] = 0] /\ UNCHANGED out
End(i, l, o) == /\ Goto(i, l)
                /\ tries' = [tries EXCEPT ![i] = 0]
                /\ out' = [out EXCEPT ![i] = o]
\* The item fails and removes its temp file.
Fail(i) == End(i, "cleanup", "failed")

\* A filesystem call fails inside a DoContext: the attempt starts again at
\* the given step, unless the context is done, the error is not of the
\* backend class, the reopen fails or the schedule is exhausted.
Fails(i, restart) ==
  \/ /\ tries[i] < Retries /\ i \notin expired
     /\ tries' = [tries EXCEPT ![i] = @ + 1]
     /\ Goto(i, restart)
     /\ UNCHANGED out
  \/ Fail(i)

\* Items that have sampled a target and not yet checked the sample.
Sampled(p) == {i \in Items : path[i] = p /\ pc[i] \in {"hash", "poststat"}}

\* A target changes: samples and markers of it are out of date.
Put(p, f) ==
  /\ disk' = [disk EXCEPT ![p] = f]
  /\ moved' = moved \cup Sampled(p)
  /\ marker' = [t \in Tokens |-> [q \in Paths |->
                  IF q = p /\ marker[t][q] = "match" THEN "stale"
                  ELSE marker[t][q]]]
Kept == UNCHANGED <<disk, moved, marker>>

-----------------------------------------------------------------------------
(* Download: Fetch.Get, createTempIn and the streaming, which a storage    *)
(* error sends back to Get for as long as the item's budget lasts.         *)

Start(i, p) ==
  /\ pc[i] = "idle"
  /\ path' = [path EXCEPT ![i] = p]
  /\ Step(i, "get")
  /\ UNCHANGED <<disk, plock, marker, img, temp, left, moved, seen, expired>>

Get(i) ==
  /\ pc[i] = "get"
  /\ \/ i \notin expired /\ Enter(i, "newtemp")
     \/ Fail(i)
  /\ UNCHANGED <<disk, plock, marker, local, temp, left, moved, expired>>

\* DoContext runs no first attempt once the context is done; a retry may
\* slip through (module Retrier).
Attempt(i, from, to) ==
  /\ pc[i] = from
  /\ \/ i \in expired /\ Fail(i)
     \/ (i \notin expired \/ tries[i] > 0) /\ Step(i, to)
  /\ UNCHANGED <<disk, plock, marker, local, temp, left, moved, expired>>

\* Its own DoContext; a definitive error is a storage error like those of
\* the stream, a backend error that survived the retries is not.
MakeTemp(i) ==
  /\ pc[i] = "mktemp"
  /\ \/ /\ temp' = [temp EXCEPT ![i] = Empty]
        /\ Enter(i, "stream")
        /\ UNCHANGED lost
     \/ /\ \/ Fails(i, "newtemp")
           \/ i \notin expired /\ Enter(i, "get")
        /\ lost' \in {lost} \cup (IF AmbiguousReplies THEN {lost \cup {i}}
                                  ELSE {})
        /\ UNCHANGED temp
  /\ UNCHANGED <<disk, plock, marker, local, unsure, moved, expired>>

\* The body is written to the temp file; every failure removes it.
Stream(i, d) ==
  /\ pc[i] = "stream"
  /\ \/ /\ temp' = [temp EXCEPT ![i] = d]
        /\ img' = [img EXCEPT ![i] = d]
        /\ Enter(i, "type")
        /\ UNCHANGED lost
     \/ /\ temp' = [temp EXCEPT ![i] = Absent]
        /\ lost' \in {lost, lost \cup {i}}
        /\ \/ i \notin expired /\ Enter(i, "get")   \* storage: from zero
           \/ Fail(i)                               \* network, content, time
        /\ UNCHANGED img
  /\ UNCHANGED <<disk, plock, marker, path, unsure, moved, seen, expired>>

CheckType(i) ==
  /\ pc[i] = "type"
  /\ Enter(i, "lock") \/ Fail(i)
  /\ UNCHANGED <<disk, plock, marker, local, temp, left, moved, expired>>

\* Mutant: the path lock is not exclusive.
TakeLocksShared(i) ==
  /\ pc[i] = "lock"
  /\ plock' = [plock EXCEPT ![path[i]] = i]
  /\ Enter(i, "publish")
  /\ UNCHANGED <<disk, marker, local, temp, left, moved, expired>>

TakeLocks(i) ==
  /\ pc[i] = "lock"
  /\ plock[path[i]] = NoItem
  /\ plock' = [plock EXCEPT ![path[i]] = i]
  /\ Enter(i, "publish")
  /\ UNCHANGED <<disk, marker, local, temp, left, moved, expired>>

\* Mutant: the wait for the lock ignores the deadline.
LockTimeoutIgnored(i) ==
  /\ pc[i] = "lock" /\ i \in expired
  /\ UNCHANGED vars

LockTimeout(i) ==
  /\ pc[i] = "lock" /\ i \in expired
  /\ Fail(i)
  /\ UNCHANGED <<disk, plock, marker, local, temp, left, moved, expired>>

-----------------------------------------------------------------------------
(* publishItem, one DoContext: Lstat, then compare or publish.             *)

LstatTarget(i) ==
  /\ pc[i] \in {"lstat", "relstat"}
  /\ \/ /\ Held(i) = Absent /\ pc[i] = "lstat"
        /\ Step(i, "tempstat") /\ UNCHANGED moved
     \/ /\ Held(i) = Absent /\ pc[i] = "relstat"
        /\ Fail(i) /\ UNCHANGED moved
     \/ /\ Held(i) \in {Dir, Special}
        /\ Fail(i) /\ UNCHANGED moved
     \/ /\ IsFile(Held(i))
        /\ Step(i, "hash") /\ moved' = moved \ {i}
     \/ Fails(i, "publish") /\ UNCHANGED moved
  /\ UNCHANGED <<disk, plock, marker, local, temp, left, expired>>

HashTarget(i) ==
  /\ pc[i] = "hash"
  /\ \/ /\ IsFile(Held(i))
        /\ seen' = [seen EXCEPT ![i] = Held(i).data]
        /\ Step(i, "poststat")
     \/ ~IsFile(Held(i)) /\ Fail(i) /\ UNCHANGED seen
     \/ Fails(i, "publish") /\ UNCHANGED seen
  /\ UNCHANGED <<disk, plock, marker, path, img, temp, left, moved, expired>>

\* The sample has served.
Unsample(i) == /\ seen' = [seen EXCEPT ![i] = Nothing]
               /\ moved' = moved \ {i}

\* Mutant: the hash decides alone.
CompareUnfenced(i) ==
  /\ pc[i] = "poststat"
  /\ \/ seen[i] = img[i] /\ End(i, "finish", "skipped")
     \/ seen[i] # img[i] /\ Fail(i)
  /\ Unsample(i)
  /\ UNCHANGED <<disk, plock, marker, path, img, temp, left, expired>>

\* Unstable: ETargetChanged; different: EExistsConflict.
CompareTarget(i) ==
  /\ pc[i] = "poststat"
  /\ \/ /\ i \notin moved /\ seen[i] = img[i]
        /\ End(i, "finish", "skipped")
     \/ (i \in moved \/ seen[i] # img[i]) /\ Fail(i)
     \/ Fails(i, "publish")
  /\ Unsample(i)
  /\ UNCHANGED <<disk, plock, marker, path, img, temp, left, expired>>

\* publishNoReplace looks at its temp file; any error there is final.
LstatTemp(i) ==
  /\ pc[i] = "tempstat"
  /\ Step(i, "link") \/ Fail(i)
  /\ UNCHANGED <<disk, plock, marker, local, temp, left, moved, expired>>

\* Mutant: the link replaces what is there.
LinkEffectReplaces(i) ==
  /\ Held(i) # Dir
  /\ Put(path[i], [data |-> img[i], by |-> i])

LinkEffect(i) ==
  /\ Held(i) = Absent
  /\ Put(path[i], [data |-> img[i], by |-> i])

Link(i) ==
  /\ pc[i] = "link"
  /\ \/ LinkEffect(i) /\ Step(i, "rmtemp") /\ UNCHANGED unsure
     \/ Held(i) # Absent /\ Step(i, "relstat") /\ Kept /\ UNCHANGED unsure
     \/ LinkRefused /\ Step(i, "create") /\ Kept /\ UNCHANGED unsure
     \/ Fails(i, "publish") /\ Kept /\ UNCHANGED unsure
     \/ /\ AmbiguousReplies /\ LinkEffect(i)
        /\ Fails(i, "publish") /\ unsure' = unsure \cup {i}
  /\ UNCHANGED <<plock, local, temp, lost, expired>>

\* degradedPublish: exclusive create, copy, and on error remove.
CreateEffect(i) ==
  /\ Held(i) = Absent
  /\ Put(path[i], [data |-> Partial, by |-> i])

DegradedCreate(i) ==
  /\ pc[i] = "create"
  /\ \/ CreateEffect(i) /\ Step(i, "copy") /\ UNCHANGED unsure
     \/ Held(i) # Absent /\ Step(i, "relstat") /\ Kept /\ UNCHANGED unsure
     \/ Fails(i, "publish") /\ Kept /\ UNCHANGED unsure
     \/ /\ AmbiguousReplies /\ CreateEffect(i)
        /\ Fails(i, "publish") /\ unsure' = unsure \cup {i}
  /\ UNCHANGED <<plock, local, temp, lost, expired>>

\* The open descriptor no longer names the target once an outsider has
\* replaced it.
DegradedCopy(i) ==
  /\ pc[i] = "copy"
  /\ \/ /\ Held(i) = [data |-> Partial, by |-> i]
        /\ Put(path[i], [data |-> img[i], by |-> i])
        /\ Step(i, "rmtemp")
     \/ /\ Held(i) # [data |-> Partial, by |-> i]
        /\ Step(i, "rmtemp") /\ Kept
     \/ Step(i, "rollback") /\ Kept
  /\ UNCHANGED <<plock, local, temp, left, expired>>

\* Mutant: the failed copy is not removed.
RollbackForgotten(i) ==
  /\ pc[i] = "rollback"
  /\ Kept
  /\ Fails(i, "publish")
  /\ UNCHANGED <<plock, local, temp, left, expired>>

\* The removal is best effort and takes whatever is there; a directory stays
\* unless it is empty.
Rollback(i) ==
  /\ pc[i] = "rollback"
  /\ \/ Held(i) # Absent /\ Put(path[i], Absent)
     \/ Held(i) \in {Absent, Dir} /\ Kept
  /\ Fails(i, "publish")
  /\ UNCHANGED <<plock, local, temp, left, expired>>

\* A removal that fails leaves an unfinished copy behind.
RollbackFails(i) ==
  /\ pc[i] = "rollback"
  /\ Kept
  /\ unsure' = unsure \cup {i}
  /\ Fails(i, "publish")
  /\ UNCHANGED <<plock, local, temp, lost, expired>>

\* The item is committed; a temp file that stays is a warning.
RemoveTemp(i) ==
  /\ pc[i] = "rmtemp"
  /\ \/ temp' = [temp EXCEPT ![i] = Absent] /\ UNCHANGED lost
     \/ lost' = lost \cup {i} /\ UNCHANGED temp
  /\ End(i, "finish", "created")
  /\ UNCHANGED <<disk, plock, marker, local, unsure, moved, expired>>

-----------------------------------------------------------------------------
(* The end of uploadItem.                                                  *)

\* Mutant: the token keeps its old marker.
FinishKeepsMarker(i) ==
  /\ pc[i] = "finish"
  /\ Step(i, "unlock")
  /\ UNCHANGED <<disk, plock, local, temp, left, moved, expired, marker>>

\* A created file is unknown to the token: Session.Forget.
Finish(i) ==
  /\ pc[i] = "finish"
  /\ marker' = IF out[i] = "created"
               THEN [marker EXCEPT ![TokenOf[i]][path[i]] = "none"] ELSE marker
  /\ Step(i, "unlock")
  /\ UNCHANGED <<disk, plock, local, temp, left, moved, expired>>

HoldsLock(i) == plock[path[i]] = i

\* Mutant: a failed item does not remove its temp file.
CleanupForgotten(i) ==
  /\ pc[i] = "cleanup"
  /\ Step(i, IF HoldsLock(i) THEN "unlock" ELSE "done")
  /\ UNCHANGED <<disk, plock, marker, local, temp, left, moved, expired>>

Cleanup(i) ==
  /\ pc[i] = "cleanup"
  /\ \/ temp' = [temp EXCEPT ![i] = Absent] /\ UNCHANGED lost
     \/ temp[i] # Absent /\ lost' = lost \cup {i} /\ UNCHANGED temp
  /\ Step(i, IF HoldsLock(i) THEN "unlock" ELSE "done")
  /\ UNCHANGED <<disk, plock, marker, local, unsure, moved, expired>>

Unlock(i) ==
  /\ pc[i] = "unlock"
  /\ plock' = [plock EXCEPT ![path[i]] = NoItem]
  /\ Step(i, "done")
  /\ UNCHANGED <<disk, marker, local, temp, left, moved, expired>>

Return(i) ==
  /\ pc[i] = "done"
  /\ End(i, "idle", "none")
  /\ img' = [img EXCEPT ![i] = Nothing]
  /\ seen' = [seen EXCEPT ![i] = Nothing]
  /\ temp' = [temp EXCEPT ![i] = Absent]
  /\ lost' = lost \ {i}
  /\ moved' = moved \ {i}
  /\ expired' = expired \ {i}
  /\ UNCHANGED <<disk, plock, marker, path, unsure>>

-----------------------------------------------------------------------------
(* The environment: the item's deadline, the text tools under the path     *)
(* lock, programs outside the server, and a crash.                         *)

Expire(i) ==
  /\ pc[i] # "idle" /\ i \notin expired
  /\ expired' = expired \cup {i}
  /\ UNCHANGED <<disk, plock, marker, pc, local, temp, left, moved, tries, out>>

Foreign(d) == [data |-> d, by |-> Elsewhere]

ToolRead(t, p) ==
  /\ plock[p] = NoItem /\ IsFile(disk[p])
  /\ marker' = [marker EXCEPT ![t][p] = "match"]
  /\ UNCHANGED <<disk, plock, pc, local, temp, left, moved, tries, expired, out>>

ToolWrite(t, p, d) ==
  /\ plock[p] = NoItem
  /\ disk[p] = Absent \/ (IsFile(disk[p]) /\ marker[t][p] = "match")
  /\ disk' = [disk EXCEPT ![p] = Foreign(d)]
  /\ moved' = moved \cup Sampled(p)
  /\ marker' = [u \in Tokens |-> [q \in Paths |->
                  IF q # p THEN marker[u][q]
                  ELSE IF u = t THEN "match"
                  ELSE IF marker[u][q] = "match" THEN "stale"
                  ELSE marker[u][q]]]
  /\ UNCHANGED <<plock, pc, local, temp, left, tries, expired, out>>

OutsideChange(p, f) ==
  /\ disk[p] # f
  /\ \/ ExposedWindows
     \/ \A i \in Items : pc[i] \in {"copy", "rollback"} => path[i] # p
  /\ Put(p, f)
  /\ UNCHANGED <<plock, pc, local, temp, left, tries, expired, out>>

Crash ==
  /\ Crashes
  /\ \E i \in Items : pc[i] # "idle"
  /\ pc' = [i \in Items |-> "idle"]
  /\ plock' = [p \in Paths |-> NoItem]
  /\ marker' = [t \in Tokens |-> [p \in Paths |-> "none"]]
  /\ img' = [i \in Items |-> Nothing]
  /\ seen' = [i \in Items |-> Nothing]
  /\ temp' = [i \in Items |-> Absent]
  /\ lost' = {} /\ moved' = {} /\ expired' = {}
  /\ tries' = [i \in Items |-> 0]
  /\ out' = [i \in Items |-> "none"]
  /\ unsure' = unsure \cup {i \in Items : pc[i] \in {"copy", "rollback"}}
  /\ UNCHANGED <<disk, path>>

-----------------------------------------------------------------------------
Init ==
  /\ disk \in [Paths -> Kinds \cup [data: Images, by: {Elsewhere}]]
  /\ plock = [p \in Paths |-> NoItem]
  /\ marker = [t \in Tokens |-> [p \in Paths |-> "none"]]
  /\ pc = [i \in Items |-> "idle"]
  /\ path \in [Items -> Paths]
  /\ img = [i \in Items |-> Nothing]
  /\ seen = [i \in Items |-> Nothing]
  /\ temp = [i \in Items |-> Absent]
  /\ lost = {} /\ unsure = {} /\ moved = {} /\ expired = {}
  /\ tries = [i \in Items |-> 0]
  /\ out = [i \in Items |-> "none"]

Run(i) ==
  \/ Get(i) \/ Attempt(i, "newtemp", "mktemp") \/ MakeTemp(i)
  \/ (\E d \in Images : Stream(i, d))
  \/ CheckType(i) \/ LockTimeout(i) \/ Attempt(i, "publish", "lstat")
  \/ LstatTarget(i) \/ HashTarget(i)
  \/ CompareTarget(i) \/ LstatTemp(i) \/ Link(i) \/ DegradedCreate(i)
  \/ DegradedCopy(i) \/ Rollback(i) \/ RollbackFails(i) \/ RemoveTemp(i)
  \/ Finish(i) \/ Cleanup(i) \/ Unlock(i) \/ Return(i)

Outsider ==
  \/ \E t \in Tokens, p \in Paths : ToolRead(t, p)
  \/ \E t \in Tokens, p \in Paths, d \in Images : ToolWrite(t, p, d)
  \/ \E p \in Paths, f \in Kinds \cup [data: Images, by: {Elsewhere}] :
       OutsideChange(p, f)

Next == \/ \E i \in Items : \/ \E p \in Paths : Start(i, p)
                            \/ Run(i) \/ TakeLocks(i) \/ Expire(i)
        \/ Outsider
        \/ Crash

Spec == Init /\ [][Next]_vars

\* Goroutines are scheduled, calls return, and deadlines pass.
FairSpec == Spec /\ \A i \in Items : WF_vars(Run(i)) /\ WF_vars(Expire(i))

-----------------------------------------------------------------------------
Locked == {"publish", "lstat", "relstat", "hash", "poststat", "tempstat",
           "link", "create", "copy", "rollback", "rmtemp", "finish", "unlock"}
Labels == Locked \cup {"idle", "get", "newtemp", "mktemp", "stream", "type",
                       "lock", "cleanup", "done"}

(* Every variable has its type, and an item is inside publishItem exactly  *)
(* while it holds the path lock of its target.                             *)
TypeOK ==
  /\ disk \in [Paths -> Kinds \cup Files]
  /\ plock \in [Paths -> Items \cup {NoItem}]
  /\ marker \in [Tokens -> [Paths -> {"none", "match", "stale"}]]
  /\ pc \in [Items -> Labels] /\ path \in [Items -> Paths]
  /\ img \in [Items -> Images \cup {Nothing}]
  /\ temp \in [Items -> Images \cup {Absent, Empty}]
  /\ seen \in [Items -> Images \cup {Partial, Nothing}]
  /\ lost \subseteq Items /\ unsure \subseteq Items
  /\ moved \subseteq Items /\ expired \subseteq Items
  /\ tries \in [Items -> 0..Retries]
  /\ out \in [Items -> {"none", "created", "skipped", "failed"}]
  /\ \A i \in Items : pc[i] \in Locked => HoldsLock(i)

(* Upload never overwrites: a step of an item changes a target only if     *)
(* nothing is there, or what is there is its own unfinished copy           *)
(* (publish.go, publishNoReplace and degradedPublish).                     *)
NeverOverwrite ==
  [][\A p \in Paths :
       pc' # pc /\ disk'[p] # disk[p] /\ disk[p] # Absent =>
         \E i \in Items : plock[p] = i /\ disk[p] = [data |-> Partial, by |-> i]
    ]_vars

(* An item answers skipped only when the target holds exactly the bytes it *)
(* has downloaded, at that moment and not only when they were hashed       *)
(* (publish.go, compareExisting).                                          *)
SkippedIsSame ==
  [][\A i \in Items : out[i] # "skipped" /\ out'[i] = "skipped" =>
       IsFile(Held(i)) /\ Held(i).data = img[i]]_vars

(* An unfinished copy is seen only while its author works on it, unless a  *)
(* crash, an ambiguous create or a failed removal has left it behind       *)
(* (publish.go, degradedPublish).                                          *)
PartialOnlyDuringCopy ==
  \A p \in Paths :
    IsFile(disk[p]) /\ disk[p].data = Partial =>
      LET i == disk[p].by
      IN  i \in unsure \/ (path[i] = p /\ pc[i] \in {"copy", "rollback"})

(* The token that uploaded a file holds no outdated marker for it, so its  *)
(* next edit is told to read the file first (upload.go, Sess.Forget); not  *)
(* so after an ambiguous link, which the retry reports as skipped.         *)
UploaderForgets ==
  \A p \in Paths, i \in Items :
    plock[p] = NoItem /\ IsFile(disk[p]) /\ disk[p].by = i
      /\ i \notin unsure =>
      marker[TokenOf[i]][p] # "stale"

(* An item that returns, neither skipped nor with a failed removal, leaves *)
(* no temp file (publish.go, cleanupTemp; streamOnce, cleanup).            *)
TempRemoved ==
  \A i \in Items : pc[i] = "done" /\ i \notin lost /\ out[i] # "skipped" =>
                     temp[i] = Absent

(* No item at all leaves a temp file unless a removal failed               *)
(* (ARCHITECTURE.md, test plan item 17).                                   *)
NoTempResidue ==
  \A i \in Items : pc[i] = "done" /\ i \notin lost => temp[i] = Absent

(* Every item returns, whatever the storage does: the re-download loop     *)
(* ends with the item's budget (upload.go, uploadItem).                    *)
EveryItemReturns == \A i \in Items : pc[i] # "idle" ~> pc[i] = "idle"
=============================================================================
