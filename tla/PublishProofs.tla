------------------------------ MODULE PublishProofs ------------------------------
(***************************************************************************)
(* Proofs about Publish, for any items, tokens, paths and images: the path *)
(* lock is held through publishItem, an unfinished copy has an author who  *)
(* works on it, the uploader forgets what it published, temp files are     *)
(* removed, an upload never overwrites and a skipped one has the bytes     *)
(* that are there (internal/tools, upload.go and publish.go).              *)
(***************************************************************************)
EXTENDS Publish, TLAPS

-----------------------------------------------------------------------------
(* The inductive invariant.                                                *)

\* The steps with a downloaded image.
Downloaded == {"type", "lock", "publish", "lstat", "relstat", "hash", "poststat",
               "tempstat", "link", "create", "copy", "rollback", "rmtemp"}
ImageInv == \A i \in Items : pc[i] \in Downloaded => img[i] \in Images

\* An item that has published a file and not yet forgotten it.
Pending(i, p) ==
  /\ path[i] = p
  /\ \/ pc[i] \in {"copy", "rollback", "rmtemp"}
     \/ (pc[i] = "finish" /\ out[i] = "created")

PartialInv ==
  \A p \in Paths :
    IsFile(disk[p]) /\ disk[p].data = Partial =>
      /\ disk[p].by \in Items
      /\ \/ disk[p].by \in unsure
         \/ path[disk[p].by] = p /\ pc[disk[p].by] \in {"copy", "rollback"}

ForgetInv ==
  \A p \in Paths, i \in Items :
    IsFile(disk[p]) /\ disk[p].by = i /\ i \notin unsure /\ ~Pending(i, p) =>
      marker[TokenOf[i]][p] # "stale"

\* The temp file is gone, or its removal is known to have failed.
Swept(i) == temp[i] = Absent \/ i \in lost
TempInv ==
  \A i \in Items :
    /\ pc[i] = "finish" => out[i] = "skipped" \/ (out[i] = "created" /\ Swept(i))
    /\ pc[i] \in {"unlock", "done"} => out[i] = "skipped" \/ Swept(i)

\* What compareExisting has hashed is still there unless the target moved.
SampleInv ==
  \A i \in Items : pc[i] = "poststat" /\ i \notin moved =>
    IsFile(Held(i)) /\ seen[i] = Held(i).data

\* Without outsiders in the windows the target of a copy is that copy.
CopyInv ==
  ~ExposedWindows =>
    \A i \in Items : pc[i] \in {"copy", "rollback"} =>
      Held(i) = [data |-> Partial, by |-> i]

IInv == /\ TypeOK /\ ImageInv /\ PartialInv /\ ForgetInv /\ TempInv
        /\ SampleInv /\ CopyInv

-----------------------------------------------------------------------------
(* Steps of one item.                                                      *)

Outcomes == {"none", "created", "skipped", "failed"}

\* A step of item i leaves the other items alone, but for the sample of a
\* target that it changes.
Alone(i) ==
  /\ pc' \in [Items -> Labels] /\ path' = path
  /\ img' \in [Items -> Images \cup {Nothing}]
  /\ temp' \in [Items -> Images \cup {Absent, Empty}]
  /\ seen' \in [Items -> Images \cup {Partial, Nothing}]
  /\ tries' \in [Items -> 0..Retries] /\ out' \in [Items -> Outcomes]
  /\ lost' \subseteq Items /\ unsure' \subseteq Items /\ unsure \subseteq unsure'
  /\ moved' \subseteq Items /\ expired' \subseteq Items
  /\ \A j \in Items \ {i} :
       /\ pc'[j] = pc[j] /\ img'[j] = img[j] /\ temp'[j] = temp[j]
       /\ seen'[j] = seen[j] /\ out'[j] = out[j]
       /\ j \in lost' <=> j \in lost
       /\ j \in unsure' <=> j \in unsure
       /\ j \in moved => j \in moved'

\* What the invariant says of item i alone, and of the file at path p.
ItemOK(i) ==
  /\ pc[i] \in Locked => HoldsLock(i)
  /\ pc[i] \in Downloaded => img[i] \in Images
  /\ pc[i] = "finish" => out[i] = "skipped" \/ (out[i] = "created" /\ Swept(i))
  /\ pc[i] \in {"unlock", "done"} => out[i] = "skipped" \/ Swept(i)
  /\ pc[i] = "poststat" /\ i \notin moved =>
       IsFile(Held(i)) /\ seen[i] = Held(i).data
  /\ ~ExposedWindows /\ pc[i] \in {"copy", "rollback"} =>
       Held(i) = [data |-> Partial, by |-> i]
PathOK(p) ==
  /\ IsFile(disk[p]) /\ disk[p].data = Partial =>
       /\ disk[p].by \in Items
       /\ \/ disk[p].by \in unsure
          \/ path[disk[p].by] = p /\ pc[disk[p].by] \in {"copy", "rollback"}
  /\ \A i \in Items :
       IsFile(disk[p]) /\ disk[p].by = i /\ i \notin unsure /\ ~Pending(i, p) =>
         marker[TokenOf[i]][p] # "stale"

Typed ==
  /\ disk \in [Paths -> Kinds \cup Files]
  /\ plock \in [Paths -> Items \cup {NoItem}]
  /\ marker \in [Tokens -> [Paths -> {"none", "match", "stale"}]]
  /\ pc \in [Items -> Labels] /\ path \in [Items -> Paths]
  /\ img \in [Items -> Images \cup {Nothing}]
  /\ temp \in [Items -> Images \cup {Absent, Empty}]
  /\ seen \in [Items -> Images \cup {Partial, Nothing}]
  /\ lost \subseteq Items /\ unsure \subseteq Items
  /\ moved \subseteq Items /\ expired \subseteq Items
  /\ tries \in [Items -> 0..Retries] /\ out \in [Items -> Outcomes]

(* The invariant is its types and its parts.                               *)
LEMMA Parts ==
  IInv <=> Typed /\ (\A i \in Items : ItemOK(i)) /\ (\A p \in Paths : PathOK(p))
<1>1. TypeOK <=> Typed /\ \A i \in Items : pc[i] \in Locked => HoldsLock(i)
  BY DEF TypeOK, Typed, Outcomes
<1>2. PartialInv /\ ForgetInv <=> \A p \in Paths : PathOK(p)
  BY DEF PartialInv, ForgetInv, PathOK
<1>3. TypeOK /\ ImageInv /\ TempInv /\ SampleInv /\ CopyInv
        <=> Typed /\ \A i \in Items : ItemOK(i)
  BY <1>1 DEF ImageInv, TempInv, SampleInv, CopyInv, ItemOK
<1> QED
  BY <1>2, <1>3 DEF IInv

(* In the next state, too.                                                 *)
LEMMA PartsPrime ==
  IInv' <=> /\ Typed' /\ (\A i \in Items : ItemOK(i)')
            /\ (\A p \in Paths : PathOK(p)')
<1>1. IInv' <=> (/\ Typed
                 /\ \A i \in Items : ItemOK(i)
                 /\ \A p \in Paths : PathOK(p))'
  BY Parts, PTL
<1> QED
  BY <1>1

(* A step of an item that changes no target but its own, that one under    *)
(* the lock, and no lock but its own or a free one, keeps the invariant    *)
(* when it does so for that item and that target.                          *)
LEMMA ItemKeeps ==
  ASSUME IInv, NEW i \in Items, NEW p \in Paths, p = path[i], Alone(i),
         plock' \in [Paths -> Items \cup {NoItem}],
         plock' = plock \/ plock[p] \in {NoItem, i},
         \A q \in Paths \ {p} : plock'[q] = plock[q],
         disk' \in [Paths -> Kinds \cup Files],
         marker' \in [Tokens -> [Paths -> {"none", "match", "stale"}]],
         \A q \in Paths \ {p} :
           disk'[q] = disk[q] /\ \A t \in Tokens : marker'[t][q] = marker[t][q],
         disk' = disk \/ pc[i] \in Locked,
         ItemOK(i)', PathOK(p)'
  PROVE  IInv'
<1>1. Typed /\ (\A j \in Items : ItemOK(j)) /\ (\A q \in Paths : PathOK(q))
  BY Parts
<1>2. Typed'
  BY <1>1 DEF Typed, Alone
<1>3. ASSUME NEW j \in Items PROVE ItemOK(j)'
  <2>1. CASE j = i
    BY <2>1
  <2>2. CASE j # i
    <3>1. /\ pc'[j] = pc[j] /\ img'[j] = img[j] /\ temp'[j] = temp[j]
          /\ seen'[j] = seen[j] /\ out'[j] = out[j] /\ path'[j] = path[j]
          /\ j \in lost' <=> j \in lost
          /\ j \in moved => j \in moved'
      BY <2>2 DEF Alone
    <3>2. ItemOK(j) /\ ItemOK(i) /\ path[i] \in Paths /\ path[j] \in Paths
      BY <1>1 DEF Typed
    <3>3. pc[j] \in Locked => disk'[path[j]] = disk[path[j]]
      BY <2>2, <3>2 DEF ItemOK, HoldsLock
    <3>4. {"poststat", "copy", "rollback"} \subseteq Locked
      BY DEF Locked
    <3>5. pc[j] \in Locked => plock'[path[j]] = j
      BY <2>2, <3>2, PublishAssumption DEF ItemOK, HoldsLock
    <3> QED
      BY <3>1, <3>2, <3>3, <3>4, <3>5 DEF ItemOK, HoldsLock, Swept, Held
  <2> QED
    BY <2>1, <2>2
<1>4. ASSUME NEW q \in Paths PROVE PathOK(q)'
  <2>1. CASE q = p
    BY <2>1
  <2>2. CASE q # p
    <3>1. PathOK(q) /\ disk'[q] = disk[q] /\ path' = path
          /\ \A t \in Tokens : marker'[t][q] = marker[t][q]
      BY <1>1, <2>2 DEF Alone
    <3>2. TokenOf \in [Items -> Tokens]
      BY PublishAssumption
    <3>3. \A j \in Items : Pending(j, q)' <=> Pending(j, q)
      BY <2>2, <3>1 DEF Pending, Alone
    <3> QED
      BY <2>2, <3>1, <3>2, <3>3 DEF PathOK, Alone
  <2> QED
    BY <2>1, <2>2
<1> QED
  BY <1>2, <1>3, <1>4, PartsPrime

(* A step that changes no target, outside the windows in which the item    *)
(* has a target that is unfinished or to be forgotten.                     *)
LEMMA QuietKeeps ==
  ASSUME IInv, NEW i \in Items, Alone(i), UNCHANGED <<disk, plock, marker>>,
         pc[i] \notin {"copy", "rollback", "rmtemp", "finish"},
         pc'[i] \in Locked => HoldsLock(i),
         pc'[i] \in Downloaded => img'[i] \in Images,
         pc'[i] \notin {"copy", "rollback"},
         pc'[i] = "finish" => out'[i] = "skipped",
         pc'[i] \in {"unlock", "done"} => out'[i] = "skipped" \/ Swept(i)',
         pc'[i] = "poststat" => IsFile(Held(i)) /\ seen'[i] = Held(i).data
  PROVE  IInv'
<1> DEFINE p == path[i]
<1>1. Typed /\ ItemOK(i) /\ p \in Paths /\ PathOK(p)
  BY Parts DEF Typed
<1>2. ItemOK(i)'
  BY DEF ItemOK, Alone, HoldsLock, Held
<1>3. ASSUME NEW q \in Paths, q = p PROVE PathOK(q)'
  <2>1. path' = path /\ disk' = disk /\ marker' = marker /\ unsure \subseteq unsure'
    BY DEF Alone
  <2>2. \A j \in Items \ {i} : pc'[j] = pc[j] /\ out'[j] = out[j]
    BY DEF Alone
  <2>3. ~Pending(i, q)
    BY DEF Pending
  <2>4. \A j \in Items : Pending(j, q) => Pending(j, q)'
    BY <2>1, <2>2, <2>3 DEF Pending
  <2>5. PathOK(q)
    BY <1>1, <1>3
  <2> QED
    BY <2>1, <2>2, <2>4, <2>5 DEF PathOK
<1>4. /\ disk' \in [Paths -> Kinds \cup Files]
      /\ plock' \in [Paths -> Items \cup {NoItem}]
      /\ marker' \in [Tokens -> [Paths -> {"none", "match", "stale"}]]
  BY <1>1 DEF Typed
<1> HIDE DEF p
<1>5. p = path[i]
  BY DEF p
<1> QED
  BY <1>1, <1>2, <1>3, <1>4, <1>5, ItemKeeps

-----------------------------------------------------------------------------
(* The control of an item.                                                 *)

\* The item goes to a step with an outcome.
Moves(i, l, o) ==
  /\ pc' = [pc EXCEPT ![i] = l] /\ out' = [out EXCEPT ![i] = o]
  /\ tries' \in [Items -> 0..Retries]

(* What the control operators do.                                          *)
LEMMA Control ==
  ASSUME IInv, NEW i \in Items, NEW l \in Labels
  PROVE  /\ Step(i, l) => Moves(i, l, out[i])
         /\ Enter(i, l) => Moves(i, l, out[i])
         /\ \A o \in Outcomes : End(i, l, o) => Moves(i, l, o)
         /\ Fail(i) => Moves(i, "cleanup", "failed")
         /\ Fails(i, l) => Moves(i, l, out[i]) \/ Moves(i, "cleanup", "failed")
<1>1. Typed /\ Retries \in Nat
  BY Parts, PublishAssumption
<1>2. /\ tries \in [Items -> 0..Retries] /\ 0 \in 0..Retries
      /\ out = [out EXCEPT ![i] = out[i]]
  BY <1>1 DEF Typed
<1>3. tries[i] < Retries => tries[i] + 1 \in 0..Retries
  BY <1>1, <1>2
<1>4. Fail(i) => Moves(i, "cleanup", "failed")
  BY <1>2 DEF Fail, End, Goto, Moves
<1>5. Fails(i, l) => Moves(i, l, out[i]) \/ Moves(i, "cleanup", "failed")
  BY <1>2, <1>3, <1>4 DEF Fails, Goto, Moves
<1> QED
  BY <1>2, <1>4, <1>5 DEF Step, Enter, End, Goto, Moves

(* A move of an item that changes what it alone has is such a step.        *)
LEMMA MovesAlone ==
  ASSUME IInv, NEW i \in Items, NEW l \in Labels, NEW o \in Outcomes,
         Moves(i, l, o), path' = path,
         img' = img \/ \E d \in Images : img' = [img EXCEPT ![i] = d],
         temp' = temp \/ \E d \in Images \cup {Absent, Empty} :
                           temp' = [temp EXCEPT ![i] = d],
         seen' = seen \/ \E d \in Images \cup {Partial, Nothing} :
                           seen' = [seen EXCEPT ![i] = d],
         lost' \in {lost, lost \cup {i}}, unsure' \in {unsure, unsure \cup {i}},
         moved' \subseteq Items, moved \ {i} \subseteq moved', expired' = expired
  PROVE  Alone(i) /\ pc'[i] = l /\ out'[i] = o
<1>1. Typed
  BY Parts
<1>2. /\ pc' \in [Items -> Labels] /\ out' \in [Items -> Outcomes]
      /\ tries' \in [Items -> 0..Retries]
      /\ pc'[i] = l /\ out'[i] = o
      /\ \A j \in Items \ {i} : pc'[j] = pc[j] /\ out'[j] = out[j]
  BY <1>1 DEF Typed, Moves
<1>3. /\ img' \in [Items -> Images \cup {Nothing}]
      /\ \A j \in Items \ {i} : img'[j] = img[j]
  BY <1>1 DEF Typed
<1>4. /\ temp' \in [Items -> Images \cup {Absent, Empty}]
      /\ \A j \in Items \ {i} : temp'[j] = temp[j]
  BY <1>1 DEF Typed
<1>5. /\ seen' \in [Items -> Images \cup {Partial, Nothing}]
      /\ \A j \in Items \ {i} : seen'[j] = seen[j]
  BY <1>1 DEF Typed
<1>6. /\ lost' \subseteq Items /\ unsure' \subseteq Items /\ unsure \subseteq unsure'
      /\ moved' \subseteq Items /\ expired' \subseteq Items
      /\ \A j \in Items \ {i} :
           /\ j \in lost' <=> j \in lost
           /\ j \in unsure' <=> j \in unsure
           /\ j \in moved => j \in moved'
  BY <1>1 DEF Typed
<1> QED
  BY <1>2, <1>3, <1>4, <1>5, <1>6 DEF Alone

(* The labels.                                                             *)
LEMMA KnownLabels ==
  /\ Locked \subseteq Labels
  /\ {"idle", "get", "newtemp", "mktemp", "stream", "type", "lock", "cleanup",
      "done"} \subseteq Labels \ Locked
  /\ {"publish", "lstat", "relstat", "hash", "poststat", "tempstat", "link",
      "create",
      "copy", "rollback", "rmtemp", "finish", "unlock"} \subseteq Locked
  BY DEF Locked, Labels

-----------------------------------------------------------------------------
(* The download.                                                           *)

(* What is known of an item.                                               *)
LEMMA Here ==
  ASSUME IInv, NEW i \in Items
  PROVE  /\ out[i] \in Outcomes
         /\ Outcomes = {"none", "created", "skipped", "failed"}
         /\ path[i] \in Paths /\ ItemOK(i) /\ pc[i] \in Labels
         /\ moved \subseteq Items /\ lost \subseteq Items
         /\ Held(i) \in Kinds \cup Files /\ img[i] \in Images \cup {Nothing}
  BY Parts DEF Typed, Outcomes, Held

(* Get.                                                                    *)
LEMMA GetKeeps ==
  ASSUME IInv, NEW i \in Items, Get(i)
  PROVE  IInv'
<1>1. PICK l \in {"newtemp", "cleanup"}, o \in Outcomes : Moves(i, l, o)
  BY Here, Control, KnownLabels DEF Get
<1>2. Alone(i) /\ pc'[i] = l /\ out'[i] = o
  BY <1>1, MovesAlone, KnownLabels, Here DEF Get, left, local
<1> QED
  BY <1>1, <1>2, QuietKeeps, KnownLabels, Here DEF Get, ItemOK, Swept, Downloaded

(* An attempt of createTempIn.                                             *)
LEMMA TempAttemptKeeps ==
  ASSUME IInv, NEW i \in Items, Attempt(i, "newtemp", "mktemp")
  PROVE  IInv'
<1>1. PICK l \in {"mktemp", "cleanup"}, o \in Outcomes : Moves(i, l, o)
  BY Here, Control, KnownLabels DEF Attempt
<1>2. Alone(i) /\ pc'[i] = l /\ out'[i] = o
  BY <1>1, MovesAlone, KnownLabels, Here DEF Attempt, left, local
<1> QED
  BY <1>1, <1>2, QuietKeeps, KnownLabels, Here
     DEF Attempt, ItemOK, Swept, Downloaded

(* An attempt of publishItem.                                              *)
LEMMA PublishAttemptKeeps ==
  ASSUME IInv, NEW i \in Items, Attempt(i, "publish", "lstat")
  PROVE  IInv'
<1>1. PICK l \in {"lstat", "cleanup"}, o \in Outcomes : Moves(i, l, o)
  BY Here, Control, KnownLabels DEF Attempt, local
<1>2. Alone(i) /\ pc'[i] = l /\ out'[i] = o
  BY <1>1, MovesAlone, KnownLabels, Here DEF Attempt, local, left
<1> QED
  BY <1>1, <1>2, QuietKeeps, KnownLabels, Here
     DEF Attempt, local, ItemOK, Swept, Downloaded

(* createTempIn.                                                           *)
LEMMA MakeTempKeeps ==
  ASSUME IInv, NEW i \in Items, MakeTemp(i)
  PROVE  IInv'
<1>1. PICK l \in {"stream", "newtemp", "get", "cleanup"},
               o \in Outcomes : Moves(i, l, o)
  BY Here, Control, KnownLabels DEF MakeTemp
<1>2. Alone(i) /\ pc'[i] = l /\ out'[i] = o
  BY <1>1, MovesAlone, KnownLabels, Here DEF MakeTemp, left, local
<1> QED
  BY <1>1, <1>2, QuietKeeps, KnownLabels, Here
     DEF MakeTemp, ItemOK, Swept, Downloaded

(* streamOnce.                                                             *)
LEMMA StreamKeeps ==
  ASSUME IInv, NEW i \in Items, NEW d \in Images, Stream(i, d)
  PROVE  IInv'
<1>1. PICK l \in {"type", "get", "cleanup"}, o \in Outcomes : Moves(i, l, o)
  BY Here, Control, KnownLabels DEF Stream
<1>2. Alone(i) /\ pc'[i] = l /\ out'[i] = o
  BY <1>1, MovesAlone, KnownLabels, Here DEF Stream
<1>3. pc'[i] = "type" => img'[i] \in Images
  <2>1. pc \in [Items -> Labels] /\ img \in [Items -> Images \cup {Nothing}]
    BY Parts DEF Typed
  <2>2. ASSUME Enter(i, "get") \/ Fail(i) PROVE pc'[i] # "type"
    BY <2>1, <2>2 DEF Enter, Fail, End, Goto
  <2> QED
    BY <2>1, <2>2 DEF Stream
<1> QED
  BY <1>1, <1>2, <1>3, QuietKeeps, KnownLabels DEF Stream, Downloaded

(* The type.                                                               *)
LEMMA CheckTypeKeeps ==
  ASSUME IInv, NEW i \in Items, CheckType(i)
  PROVE  IInv'
<1>1. PICK l \in {"lock", "cleanup"}, o \in Outcomes : Moves(i, l, o)
  BY Here, Control, KnownLabels DEF CheckType, local
<1>2. Alone(i) /\ pc'[i] = l /\ out'[i] = o
  BY <1>1, MovesAlone, KnownLabels, Here DEF CheckType, local, left
<1> QED
  BY <1>1, <1>2, QuietKeeps, KnownLabels, Here
     DEF CheckType, local, ItemOK, Swept, Downloaded

(* The deadline while it waits for the locks.                              *)
LEMMA LockTimeoutKeeps ==
  ASSUME IInv, NEW i \in Items, LockTimeout(i)
  PROVE  IInv'
<1>1. PICK l \in {"cleanup"}, o \in Outcomes : Moves(i, l, o)
  BY Here, Control, KnownLabels DEF LockTimeout
<1>2. Alone(i) /\ pc'[i] = l /\ out'[i] = o
  BY <1>1, MovesAlone, KnownLabels, Here DEF LockTimeout, left, local
<1> QED
  BY <1>1, <1>2, QuietKeeps, KnownLabels, Here
     DEF LockTimeout, ItemOK, Swept, Downloaded

(* publishItem: what is at the target.                                     *)
LEMMA LstatTargetKeeps ==
  ASSUME IInv, NEW i \in Items, LstatTarget(i)
  PROVE  IInv'
<1>1. PICK l \in {"tempstat", "hash", "publish", "cleanup"},
               o \in Outcomes : Moves(i, l, o)
  BY Here, Control, KnownLabels DEF LstatTarget, local
<1>2. Alone(i) /\ pc'[i] = l /\ out'[i] = o
  BY <1>1, MovesAlone, KnownLabels, Here DEF LstatTarget, local, left
<1> QED
  BY <1>1, <1>2, QuietKeeps, KnownLabels, Here
     DEF LstatTarget, local, ItemOK, Swept, Downloaded

(* compareExisting: the hash.                                              *)
LEMMA HashTargetKeeps ==
  ASSUME IInv, NEW i \in Items, HashTarget(i)
  PROVE  IInv'
<1>1. PICK l \in {"poststat", "publish", "cleanup"}, o \in Outcomes : Moves(i, l, o)
  BY Here, Control, KnownLabels DEF HashTarget
<1>2. /\ pc[i] = "hash" /\ HoldsLock(i) /\ img[i] \in Images
      /\ UNCHANGED <<disk, plock, marker, path, img, temp, lost, unsure, moved,
                     expired>>
  BY Here, KnownLabels DEF HashTarget, ItemOK, Downloaded, left
<1>3. seen' = seen \/ \E d \in Images \cup {Partial, Nothing} :
                         seen' = [seen EXCEPT ![i] = d]
  <2>1. IsFile(Held(i)) => Held(i).data \in Images \cup {Partial, Nothing}
    BY Here DEF IsFile, Files
  <2> QED
    BY <2>1 DEF HashTarget
<1>4. Alone(i) /\ pc'[i] = l /\ out'[i] = o
  BY <1>1, <1>2, <1>3, MovesAlone, KnownLabels, Here
<1>5. pc'[i] = "poststat" => IsFile(Held(i)) /\ seen'[i] = Held(i).data
  <2>1. pc \in [Items -> Labels]
        /\ seen \in [Items -> Images \cup {Partial, Nothing}]
    BY Parts DEF Typed
  <2>2. ASSUME Fails(i, "publish") \/ Fail(i) PROVE pc'[i] # "poststat"
    BY <2>1, <2>2 DEF Fails, Fail, End, Goto
  <2> QED
    BY <2>1, <2>2 DEF HashTarget
<1> QED
  BY <1>2, <1>4, <1>5, QuietKeeps, KnownLabels DEF Downloaded

(* compareExisting: the verdict.                                           *)
LEMMA CompareTargetKeeps ==
  ASSUME IInv, NEW i \in Items, CompareTarget(i)
  PROVE  IInv'
<1>1. PICK l \in {"finish", "publish", "cleanup"}, o \in Outcomes :
        Moves(i, l, o) /\ (l = "finish" => o = "skipped")
  BY Here, Control, KnownLabels DEF CompareTarget
<1>2. Alone(i) /\ pc'[i] = l /\ out'[i] = o
  <2>1. /\ seen' = [seen EXCEPT ![i] = Nothing] /\ moved' = moved \ {i}
        /\ UNCHANGED <<path, img, temp, lost, unsure, expired>>
    BY DEF CompareTarget, Unsample, left
  <2>2. \E d \in Images \cup {Partial, Nothing} : seen' = [seen EXCEPT ![i] = d]
    BY <2>1
  <2>3. moved' \subseteq Items /\ moved \ {i} \subseteq moved'
    BY <2>1, Here
  <2>4. lost' \in {lost, lost \cup {i}} /\ unsure' \in {unsure, unsure \cup {i}}
    BY <2>1
  <2>5. l \in Labels
    BY <1>1, KnownLabels
  <2> QED
    BY <1>1, <2>1, <2>2, <2>3, <2>4, <2>5, MovesAlone
<1>3. /\ pc[i] = "poststat" /\ UNCHANGED <<disk, plock, marker, img>>
      /\ HoldsLock(i) /\ img[i] \in Images
  BY Here, KnownLabels DEF CompareTarget, ItemOK, Downloaded
<1> QED
  BY <1>1, <1>2, <1>3, QuietKeeps, KnownLabels

(* publishNoReplace: the temp file.                                        *)
LEMMA LstatTempKeeps ==
  ASSUME IInv, NEW i \in Items, LstatTemp(i)
  PROVE  IInv'
<1>1. PICK l \in {"link", "cleanup"}, o \in Outcomes : Moves(i, l, o)
  BY Here, Control, KnownLabels DEF LstatTemp, local
<1>2. Alone(i) /\ pc'[i] = l /\ out'[i] = o
  BY <1>1, MovesAlone, KnownLabels, Here DEF LstatTemp, local, left
<1> QED
  BY <1>1, <1>2, QuietKeeps, KnownLabels, Here
     DEF LstatTemp, local, ItemOK, Swept, Downloaded

(* cleanupTemp.                                                            *)
LEMMA CleanupKeeps ==
  ASSUME IInv, NEW i \in Items, Cleanup(i)
  PROVE  IInv'
<1>1. PICK l \in {"unlock", "done"} :
        /\ Moves(i, l, out[i])
        /\ l = "unlock" => HoldsLock(i)
  <2>1. PICK l \in {"unlock", "done"} : Step(i, l) /\ (l = "unlock" => HoldsLock(i))
    BY DEF Cleanup
  <2> QED
    BY <2>1, Control, KnownLabels
<1>2. Alone(i) /\ pc'[i] = l /\ out'[i] = out[i]
  BY <1>1, MovesAlone, KnownLabels, Here DEF Cleanup, left, local
<1>3. Swept(i)'
  BY Parts DEF Typed, Cleanup, Swept
<1> QED
  BY <1>1, <1>2, <1>3, QuietKeeps, KnownLabels DEF Cleanup, Downloaded

-----------------------------------------------------------------------------
(* The target.                                                             *)

(* Put changes one target, and no marker of it is stale but by that.       *)
LEMMA PutDoes ==
  ASSUME IInv, NEW p \in Paths, NEW f \in Kinds \cup Files, Put(p, f)
  PROVE  /\ disk' \in [Paths -> Kinds \cup Files] /\ disk'[p] = f
         /\ marker' \in [Tokens -> [Paths -> {"none", "match", "stale"}]]
         /\ \A q \in Paths \ {p} :
              disk'[q] = disk[q] /\ \A t \in Tokens : marker'[t][q] = marker[t][q]
         /\ moved \subseteq moved' /\ Sampled(p) \subseteq moved'
         /\ moved' \subseteq Items
<1>1. Typed
  BY Parts
<1> QED
  BY <1>1 DEF Typed, Put, Sampled

\* A step under the lock changes the target of item i to f and goes to l.
Replaces(i, f, l, o) ==
  /\ pc[i] \in Locked /\ img[i] \in Images /\ Put(path[i], f) /\ Moves(i, l, o)
  /\ l \in {"copy", "rmtemp", "publish", "cleanup"}
  /\ UNCHANGED <<plock, path, img, temp, seen, lost, expired>>
  /\ unsure' \in {unsure, unsure \cup {i}}

(* A target that is left absent, or with the item's own file: a copy in    *)
(* progress or an image that it will forget, unless it is in doubt.        *)
LEMMA ReplacesKeeps ==
  ASSUME IInv, NEW i \in Items, NEW f \in Kinds \cup Files,
         NEW l \in Labels, NEW o \in Outcomes, Replaces(i, f, l, o),
         IsFile(f) => f.by = i /\ (l \in {"copy", "rmtemp"} \/ i \in unsure'),
         l = "copy" => f = [data |-> Partial, by |-> i],
         IsFile(f) /\ f.data = Partial => l = "copy" \/ i \in unsure'
  PROVE  IInv'
<1>1. PICK p \in Paths : p = path[i]
  BY Here
<1>2. Typed /\ ItemOK(i) /\ HoldsLock(i)
  BY Parts DEF ItemOK, Replaces
<1>3. /\ disk' \in [Paths -> Kinds \cup Files] /\ disk'[p] = f
      /\ marker' \in [Tokens -> [Paths -> {"none", "match", "stale"}]]
      /\ \A q \in Paths \ {p} :
           disk'[q] = disk[q] /\ \A t \in Tokens : marker'[t][q] = marker[t][q]
      /\ moved \subseteq moved' /\ moved' \subseteq Items
  BY <1>1, PutDoes DEF Replaces
<1>4. Alone(i) /\ pc'[i] = l /\ out'[i] = o
  BY <1>3, MovesAlone DEF Replaces
<1>5. ItemOK(i)'
  <2>1. pc'[i] \in {"copy", "rmtemp", "publish", "cleanup"} /\ img' = img
        /\ plock' = plock /\ path' = path /\ img[i] \in Images
    BY <1>4 DEF Replaces
  <2>2. pc'[i] = "copy" => disk'[path'[i]] = [data |-> Partial, by |-> i]
    BY <1>1, <1>3, <1>4, <2>1
  <2> QED
    BY <1>2, <2>1, <2>2 DEF ItemOK, HoldsLock, Held
<1>6. PathOK(p)'
  <2>1. path' = path
    BY DEF Replaces
  <2>2. IsFile(f) => Pending(i, p)' \/ i \in unsure'
    BY <1>1, <1>4, <2>1 DEF Pending
  <2>3. IsFile(f) /\ f.data = Partial =>
          /\ f.by \in Items
          /\ \/ f.by \in unsure'
             \/ path'[f.by] = p /\ pc'[f.by] \in {"copy", "rollback"}
    BY <1>1, <1>4, <2>1
  <2> QED
    BY <1>3, <2>2, <2>3 DEF PathOK
<1>7. plock' = plock /\ plock \in [Paths -> Items \cup {NoItem}]
  BY <1>2 DEF Replaces, Typed
<1> QED
  BY <1>1, <1>3, <1>4, <1>5, <1>6, <1>7, ItemKeeps DEF Replaces

(* Link: the target that was absent is the image, in one step.             *)
LEMMA LinkKeeps ==
  ASSUME IInv, NEW i \in Items, Link(i)
  PROVE  IInv'
<1> DEFINE f == [data |-> img[i], by |-> i]
<1>1. /\ path[i] \in Paths /\ pc[i] = "link" /\ HoldsLock(i) /\ img[i] \in Images
      /\ UNCHANGED <<plock, path, img, temp, seen, lost, expired>>
  BY Here, KnownLabels DEF Link, ItemOK, Downloaded, local
<1>2. f \in Kinds \cup Files /\ IsFile(f) /\ f.data # Partial
  BY <1>1, PublishAssumption DEF Files, IsFile
<1>3. CASE /\ Kept /\ UNCHANGED unsure
           /\ Step(i, "relstat") \/ Step(i, "create") \/ Fails(i, "publish")
  <2>1. PICK l \in {"relstat", "create", "publish", "cleanup"}, o \in Outcomes :
          Moves(i, l, o)
    BY <1>3, Here, Control, KnownLabels
  <2>2. Alone(i) /\ pc'[i] = l /\ out'[i] = o
    BY <1>1, <1>3, <2>1, MovesAlone, KnownLabels, Here DEF Kept
  <2> QED
    BY <1>1, <1>3, <2>1, <2>2, QuietKeeps, KnownLabels DEF Kept
<1>4. CASE LinkEffect(i) /\ Step(i, "rmtemp") /\ UNCHANGED unsure
  <2>1. Moves(i, "rmtemp", out[i])
    BY <1>4, Control, KnownLabels
  <2>2. Replaces(i, f, "rmtemp", out[i])
    BY <1>1, <1>4, <2>1, KnownLabels DEF Replaces, LinkEffect
  <2> QED
    BY <1>2, <2>2, ReplacesKeeps, KnownLabels, Here
<1>5. CASE LinkEffect(i) /\ Fails(i, "publish") /\ unsure' = unsure \cup {i}
  <2>1. PICK l \in {"publish", "cleanup"}, o \in Outcomes : Moves(i, l, o)
    BY <1>5, Here, Control, KnownLabels
  <2>2. Replaces(i, f, l, o)
    BY <1>1, <1>5, <2>1, KnownLabels DEF Replaces, LinkEffect
  <2>3. i \in unsure'
    BY <1>5
  <2> QED
    BY <1>2, <2>1, <2>2, <2>3, ReplacesKeeps, KnownLabels, Here
<1> QED
  BY <1>3, <1>4, <1>5 DEF Link

(* degradedPublish: the target that was absent is an unfinished copy.      *)
LEMMA DegradedCreateKeeps ==
  ASSUME IInv, NEW i \in Items, DegradedCreate(i)
  PROVE  IInv'
<1> DEFINE f == [data |-> Partial, by |-> i]
<1>1. /\ path[i] \in Paths /\ pc[i] = "create" /\ HoldsLock(i) /\ img[i] \in Images
      /\ UNCHANGED <<plock, path, img, temp, seen, lost, expired>>
  BY Here, KnownLabels DEF DegradedCreate, ItemOK, Downloaded, local
<1>2. f \in Kinds \cup Files /\ IsFile(f)
  BY PublishAssumption DEF Files, IsFile
<1>3. CASE /\ Kept /\ UNCHANGED unsure
           /\ Step(i, "relstat") \/ Fails(i, "publish")
  <2>1. PICK l \in {"relstat", "publish", "cleanup"}, o \in Outcomes :
          Moves(i, l, o)
    BY <1>3, Here, Control, KnownLabels
  <2>2. Alone(i) /\ pc'[i] = l /\ out'[i] = o
    BY <1>1, <1>3, <2>1, MovesAlone, KnownLabels, Here DEF Kept
  <2> QED
    BY <1>1, <1>3, <2>1, <2>2, QuietKeeps, KnownLabels DEF Kept
<1>4. CASE CreateEffect(i) /\ Step(i, "copy") /\ UNCHANGED unsure
  <2>1. Moves(i, "copy", out[i])
    BY <1>4, Control, KnownLabels
  <2>2. Replaces(i, f, "copy", out[i])
    BY <1>1, <1>4, <2>1, KnownLabels DEF Replaces, CreateEffect
  <2> QED
    BY <1>2, <2>2, ReplacesKeeps, KnownLabels, Here
<1>5. CASE CreateEffect(i) /\ Fails(i, "publish") /\ unsure' = unsure \cup {i}
  <2>1. PICK l \in {"publish", "cleanup"}, o \in Outcomes : Moves(i, l, o)
    BY <1>5, Here, Control, KnownLabels
  <2>2. Replaces(i, f, l, o)
    BY <1>1, <1>5, <2>1, KnownLabels DEF Replaces, CreateEffect
  <2>3. i \in unsure'
    BY <1>5
  <2> QED
    BY <1>2, <2>1, <2>2, <2>3, ReplacesKeeps, KnownLabels, Here
<1> QED
  BY <1>3, <1>4, <1>5 DEF DegradedCreate

(* A step under the lock that changes nothing but where the item is: it    *)
(* keeps the invariant when its target is in order at the new step.        *)
LEMMA SettledKeeps ==
  ASSUME IInv, NEW i \in Items,
         NEW l \in {"rollback", "publish", "rmtemp", "cleanup"},
         NEW o \in Outcomes, Moves(i, l, o), pc[i] \in {"copy", "rollback"},
         UNCHANGED <<disk, plock, marker, path, img, temp, seen, lost, moved,
                     expired>>,
         unsure' \in {unsure, unsure \cup {i}},
         l = "rollback" => pc[i] = "copy",
         l = "rmtemp" => Held(i) # [data |-> Partial, by |-> i],
         l \in {"publish", "cleanup"} => i \in unsure' \/ ~IsFile(Held(i))
  PROVE  IInv'
<1>1. PICK p \in Paths : p = path[i]
  BY Here
<1>2. Typed /\ ItemOK(i) /\ HoldsLock(i) /\ img[i] \in Images /\ PathOK(p)
  BY Parts, KnownLabels DEF ItemOK, Downloaded
<1>3. Alone(i) /\ pc'[i] = l /\ out'[i] = o
  BY <1>2, MovesAlone, KnownLabels DEF Typed
<1>4. ItemOK(i)'
  BY <1>2, <1>3 DEF ItemOK, HoldsLock, Held
<1>5. PathOK(p)'
  <2>1. \A j \in Items \ {i} : Pending(j, p) <=> Pending(j, p)'
    BY <1>3 DEF Pending, Alone
  <2>2. CASE l \in {"rollback", "rmtemp"}
    <3>1. Pending(i, p)'
      BY <1>1, <1>3, <2>2 DEF Pending
    <3>2. disk[p] \in Kinds \cup Files
      BY <1>2 DEF Typed
    <3>3. IsFile(disk[p]) /\ disk[p].data = Partial /\ disk[p].by = i =>
            l = "rollback"
      BY <1>1, <2>2, <3>2 DEF IsFile, Files, Held
    <3> QED
      BY <1>1, <1>2, <1>3, <2>1, <3>1, <3>3 DEF PathOK, Alone
  <2>3. CASE l \in {"publish", "cleanup"}
    BY <1>1, <1>2, <1>3, <2>1, <2>3 DEF PathOK, Alone, Held
  <2> QED
    BY <2>2, <2>3
<1>6. /\ disk' \in [Paths -> Kinds \cup Files]
      /\ plock' \in [Paths -> Items \cup {NoItem}]
      /\ marker' \in [Tokens -> [Paths -> {"none", "match", "stale"}]]
  BY <1>2 DEF Typed
<1> QED
  BY <1>1, <1>3, <1>4, <1>5, <1>6, ItemKeeps

(* degradedPublish: the copy.                                              *)
LEMMA DegradedCopyKeeps ==
  ASSUME IInv, NEW i \in Items, DegradedCopy(i)
  PROVE  IInv'
<1> DEFINE f == [data |-> img[i], by |-> i]
<1>1. /\ path[i] \in Paths /\ pc[i] = "copy" /\ HoldsLock(i) /\ img[i] \in Images
      /\ UNCHANGED <<plock, path, img, temp, seen, lost, unsure, expired>>
  BY Here, KnownLabels DEF DegradedCopy, ItemOK, Downloaded, local, left
<1>2. f \in Kinds \cup Files /\ IsFile(f) /\ f.data # Partial
  BY <1>1, PublishAssumption DEF Files, IsFile
<1>3. CASE Put(path[i], f) /\ Step(i, "rmtemp")
  <2>1. Moves(i, "rmtemp", out[i])
    BY <1>3, Control, KnownLabels
  <2>2. Replaces(i, f, "rmtemp", out[i])
    BY <1>1, <1>3, <2>1, KnownLabels DEF Replaces
  <2> QED
    BY <1>2, <2>2, ReplacesKeeps, KnownLabels, Here
<1>4. CASE Held(i) # [data |-> Partial, by |-> i] /\ Step(i, "rmtemp") /\ Kept
  <2>1. Moves(i, "rmtemp", out[i])
    BY <1>4, Control, KnownLabels
  <2> QED
    BY <1>1, <1>4, <2>1, SettledKeeps, Here DEF Kept
<1>5. CASE Step(i, "rollback") /\ Kept
  <2>1. Moves(i, "rollback", out[i])
    BY <1>5, Control, KnownLabels
  <2> QED
    BY <1>1, <1>5, <2>1, SettledKeeps, Here DEF Kept
<1> QED
  BY <1>3, <1>4, <1>5 DEF DegradedCopy

(* The failed copy is removed, or stays and is in doubt.                   *)
LEMMA RollbackKeeps ==
  ASSUME IInv, NEW i \in Items, Rollback(i) \/ RollbackFails(i)
  PROVE  IInv'
<1>1. /\ path[i] \in Paths /\ pc[i] = "rollback"
      /\ HoldsLock(i) /\ img[i] \in Images
      /\ UNCHANGED <<plock, path, img, temp, seen, lost, expired>>
      /\ unsure' \in {unsure, unsure \cup {i}}
  BY Here, KnownLabels DEF Rollback, RollbackFails, ItemOK, Downloaded, local, left
<1>2. PICK l \in {"publish", "cleanup"}, o \in Outcomes : Moves(i, l, o)
  BY Here, Control, KnownLabels DEF Rollback, RollbackFails
<1>3. CASE Put(path[i], Absent)
  <2>1. Absent \in Kinds \cup Files /\ ~IsFile(Absent)
    BY DEF Kinds, IsFile
  <2>2. Replaces(i, Absent, l, o)
    BY <1>1, <1>2, <1>3, KnownLabels DEF Replaces
  <2> QED
    BY <1>2, <2>1, <2>2, ReplacesKeeps, KnownLabels
<1>4. CASE Kept /\ Held(i) \in {Absent, Dir}
  BY <1>1, <1>2, <1>4, SettledKeeps DEF Kept, IsFile, Kinds
<1>5. CASE RollbackFails(i)
  BY <1>1, <1>2, <1>5, SettledKeeps DEF Kept, RollbackFails
<1> QED
  BY <1>3, <1>4, <1>5 DEF Rollback

-----------------------------------------------------------------------------
(* The end of an item, and its locks.                                      *)

(* cleanupTemp of a created item.                                          *)
LEMMA RemoveTempKeeps ==
  ASSUME IInv, NEW i \in Items, RemoveTemp(i)
  PROVE  IInv'
<1>1. PICK p \in Paths : p = path[i]
  BY Here
<1>2. Typed /\ ItemOK(i) /\ PathOK(p) /\ pc[i] = "rmtemp" /\ HoldsLock(i)
  BY Parts, KnownLabels DEF RemoveTemp, ItemOK
<1>3. Moves(i, "finish", "created")
  BY Here, Control, KnownLabels DEF RemoveTemp
<1>4. Alone(i) /\ pc'[i] = "finish" /\ out'[i] = "created"
  BY <1>3, MovesAlone, KnownLabels, Here DEF RemoveTemp, local
<1>5. Swept(i)'
  BY <1>2 DEF Typed, RemoveTemp, Swept
<1>6. ItemOK(i)'
  BY <1>2, <1>4, <1>5 DEF ItemOK, RemoveTemp, HoldsLock, local, Downloaded
<1>7. PathOK(p)'
  <2>1. \A j \in Items : Pending(j, p) => Pending(j, p)'
    BY <1>4 DEF Pending, Alone
  <2>2. UNCHANGED <<disk, marker, path, unsure>>
    BY DEF RemoveTemp, local
  <2>3. \A j \in Items : pc[j] \in {"copy", "rollback"} => pc'[j] = pc[j]
    BY <1>2, <1>4 DEF Alone
  <2> QED
    BY <1>2, <2>1, <2>2, <2>3 DEF PathOK
<1>8. UNCHANGED <<disk, plock, marker>>
  BY DEF RemoveTemp
<1> QED
  BY <1>1, <1>2, <1>4, <1>6, <1>7, <1>8, ItemKeeps DEF Typed

(* Session.Forget.                                                         *)
LEMMA FinishKeeps ==
  ASSUME IInv, NEW i \in Items, Finish(i)
  PROVE  IInv'
<1>1. PICK p \in Paths : p = path[i]
  BY Here
<1>2. Typed /\ ItemOK(i) /\ PathOK(p) /\ pc[i] = "finish" /\ HoldsLock(i)
      /\ TokenOf \in [Items -> Tokens]
  BY Parts, KnownLabels, PublishAssumption DEF Finish, ItemOK
<1>3. Moves(i, "unlock", out[i])
  BY Here, Control, KnownLabels DEF Finish
<1>4. Alone(i) /\ pc'[i] = "unlock" /\ out'[i] = out[i]
  BY <1>3, MovesAlone, KnownLabels, Here DEF Finish, local, left
<1>5. ItemOK(i)'
  BY <1>2, <1>4 DEF ItemOK, Finish, HoldsLock, Swept, local, left, Downloaded
<1>6. /\ marker' \in [Tokens -> [Paths -> {"none", "match", "stale"}]]
      /\ \A q \in Paths \ {p} : \A t \in Tokens : marker'[t][q] = marker[t][q]
      /\ \A t \in Tokens : marker'[t][p] \in {"none", marker[t][p]}
      /\ out[i] = "created" => marker'[TokenOf[i]][p] = "none"
  BY <1>1, <1>2 DEF Finish, Typed
<1>7. PathOK(p)'
  <2>1. \A j \in Items \ {i} : Pending(j, p) <=> Pending(j, p)'
    BY <1>4 DEF Pending, Alone
  <2>2. UNCHANGED <<disk, path, unsure>>
    BY DEF Finish, local, left
  <2>3. \A j \in Items : pc[j] \in {"copy", "rollback"} => pc'[j] = pc[j]
    BY <1>2, <1>4 DEF Alone
  <2>4. Pending(i, p) => out[i] = "created"
    BY <1>2 DEF Pending
  <2>5. ASSUME NEW j \in Items, IsFile(disk[p]), disk[p].by = j, j \notin unsure,
               ~Pending(j, p)'
        PROVE  marker'[TokenOf[j]][p] # "stale"
    <3>1. TokenOf[j] \in Tokens
      BY <1>2
    <3>2. CASE Pending(j, p)
      <4>1. j = i /\ out[i] = "created"
        BY <2>1, <2>4, <2>5, <3>2
      <4>2. marker'[TokenOf[j]][p] = "none"
        BY <1>6, <4>1
      <4> QED
        BY <4>2
    <3>3. CASE ~Pending(j, p)
      <4>1. marker[TokenOf[j]][p] # "stale"
        BY <1>2, <2>5, <3>3 DEF PathOK
      <4>2. marker'[TokenOf[j]][p] \in {"none", marker[TokenOf[j]][p]}
        BY <1>6, <3>1
      <4> QED
        BY <4>1, <4>2
    <3> QED
      BY <3>2, <3>3
  <2> QED
    BY <1>2, <2>2, <2>3, <2>5 DEF PathOK
<1>8. UNCHANGED <<disk, plock>>
  BY DEF Finish
<1> QED
  BY <1>1, <1>2, <1>4, <1>5, <1>6, <1>7, <1>8, ItemKeeps DEF Typed

(* A file that the steps of item i neither write nor forget.               *)
LEMMA PathKept ==
  ASSUME IInv, NEW i \in Items, NEW p \in Paths, Alone(i),
         UNCHANGED <<disk, marker>>, ~Pending(i, p)
  PROVE  PathOK(p)'
<1>1. PathOK(p)
  BY Parts
<1>2. \A j \in Items : Pending(j, p) => Pending(j, p)'
  BY DEF Pending, Alone
<1>3. \A j \in Items : path[j] = p /\ pc[j] \in {"copy", "rollback"} =>
                        path'[j] = p /\ pc'[j] \in {"copy", "rollback"}
  BY DEF Pending, Alone
<1> QED
  BY <1>1, <1>2, <1>3 DEF PathOK, Alone

(* The path lock is taken when it is free and released by its holder.      *)
LEMMA TakeLocksKeeps ==
  ASSUME IInv, NEW i \in Items, TakeLocks(i)
  PROVE  IInv'
<1>1. PICK p \in Paths : p = path[i]
  BY Here
<1>2. Typed /\ ItemOK(i) /\ PathOK(p) /\ pc[i] = "lock" /\ plock[p] = NoItem
  BY <1>1, Parts DEF TakeLocks
<1>3. Moves(i, "publish", out[i])
  BY Here, Control, KnownLabels DEF TakeLocks
<1>4. Alone(i) /\ pc'[i] = "publish" /\ out'[i] = out[i]
  BY <1>3, MovesAlone, KnownLabels, Here DEF TakeLocks, local, left
<1>5. plock' = [plock EXCEPT ![p] = i] /\ UNCHANGED <<disk, marker, path, img>>
  BY <1>1 DEF TakeLocks, local
<1>6. ItemOK(i)'
  BY <1>1, <1>2, <1>4, <1>5 DEF ItemOK, HoldsLock, Downloaded, Typed
<1>7. PathOK(p)'
  BY <1>2, <1>5, <1>4, PathKept DEF Pending
<1>8. /\ plock' \in [Paths -> Items \cup {NoItem}]
      /\ \A q \in Paths \ {p} : plock'[q] = plock[q]
  BY <1>2, <1>5 DEF Typed
<1> QED
  BY <1>1, <1>2, <1>4, <1>5, <1>6, <1>7, <1>8, ItemKeeps DEF Typed

(* The locks are released.                                                 *)
LEMMA UnlockKeeps ==
  ASSUME IInv, NEW i \in Items, Unlock(i)
  PROVE  IInv'
<1>1. PICK p \in Paths : p = path[i]
  BY Here
<1>2. Typed /\ ItemOK(i) /\ PathOK(p) /\ pc[i] = "unlock" /\ plock[p] = i
  BY <1>1, Parts, KnownLabels DEF Unlock, ItemOK, HoldsLock
<1>3. Moves(i, "done", out[i])
  BY Here, Control, KnownLabels DEF Unlock
<1>4. Alone(i) /\ pc'[i] = "done" /\ out'[i] = out[i]
  BY <1>3, MovesAlone, KnownLabels, Here DEF Unlock, local, left
<1>5. /\ plock' = [plock EXCEPT ![p] = NoItem]
      /\ UNCHANGED <<disk, marker, path, img, temp, lost>>
  BY <1>1 DEF Unlock, local, left
<1>6. ItemOK(i)'
  BY <1>1, <1>2, <1>4, <1>5, KnownLabels DEF ItemOK, HoldsLock, Downloaded, Swept
<1>7. PathOK(p)'
  BY <1>2, <1>5, <1>4, PathKept DEF Pending
<1>8. /\ plock' \in [Paths -> Items \cup {NoItem}]
      /\ \A q \in Paths \ {p} : plock'[q] = plock[q]
  BY <1>2, <1>5 DEF Typed
<1> QED
  BY <1>1, <1>2, <1>4, <1>5, <1>6, <1>7, <1>8, ItemKeeps DEF Typed

(* The goroutine ends.                                                     *)
LEMMA ReturnKeeps ==
  ASSUME IInv, NEW i \in Items, Return(i)
  PROVE  IInv'
<1>1. PICK p \in Paths : p = path[i]
  BY Here
<1>2. Typed /\ PathOK(p) /\ pc[i] = "done"
  BY Parts DEF Return
<1>3. Moves(i, "idle", "none") /\ UNCHANGED <<disk, plock, marker, path, unsure>>
  BY Here, Control, KnownLabels DEF Return
<1>4. Alone(i) /\ pc'[i] = "idle"
  BY <1>2, <1>3, KnownLabels DEF Return, Alone, Moves, Typed, Outcomes
<1>5. ItemOK(i)'
  BY <1>4, KnownLabels DEF ItemOK, Downloaded
<1>6. PathOK(p)'
  BY <1>2, <1>3, <1>4, PathKept DEF Pending
<1> QED
  BY <1>1, <1>2, <1>3, <1>4, <1>5, <1>6, ItemKeeps DEF Typed

-----------------------------------------------------------------------------
(* What is outside of the items.                                           *)

(* The next item of a worker.                                              *)
LEMMA StartKeeps ==
  ASSUME IInv, NEW i \in Items, NEW p \in Paths, Start(i, p)
  PROVE  IInv'
<1>1. Typed /\ (\A j \in Items : ItemOK(j)) /\ (\A q \in Paths : PathOK(q))
  BY Parts
<1>2. /\ pc[i] = "idle" /\ pc' = [pc EXCEPT ![i] = "get"]
      /\ path' = [path EXCEPT ![i] = p]
      /\ UNCHANGED <<disk, plock, marker, img, temp, seen, tries, out, lost, unsure,
                     moved, expired>>
  BY DEF Start, Step, Goto, left
<1>3. Typed'
  BY <1>1, <1>2, KnownLabels DEF Typed
<1>4. pc'[i] = "get" /\ \A j \in Items \ {i} : pc'[j] = pc[j] /\ path'[j] = path[j]
  BY <1>1, <1>2 DEF Typed
<1>5. ASSUME NEW j \in Items PROVE ItemOK(j)'
  <2>1. CASE j = i
    BY <1>4, <2>1, KnownLabels DEF ItemOK, Downloaded
  <2>2. CASE j # i
    BY <1>1, <1>2, <1>4, <2>2 DEF ItemOK, HoldsLock, Held, Swept
  <2> QED
    BY <2>1, <2>2
<1>6. ASSUME NEW q \in Paths PROVE PathOK(q)'
  <2>1. \A j \in Items : Pending(j, q) <=> Pending(j, q)'
    BY <1>2, <1>4 DEF Pending
  <2>2. \A j \in Items : path[j] = q /\ pc[j] \in {"copy", "rollback"} =>
                          path'[j] = q /\ pc'[j] \in {"copy", "rollback"}
    BY <1>2, <1>4
  <2> QED
    BY <1>1, <1>2, <2>1, <2>2 DEF PathOK
<1> QED
  BY <1>3, <1>5, <1>6, PartsPrime

(* The deadline of an item.                                                *)
LEMMA ExpireKeeps ==
  ASSUME IInv, NEW i \in Items, Expire(i)
  PROVE  IInv'
<1>1. UNCHANGED <<disk, plock, marker, pc, path, img, seen, temp, lost, unsure,
                  moved,
                  tries, out>>
      /\ expired' = expired \cup {i}
  BY DEF Expire, local, left
<1> QED
  BY <1>1 DEF IInv, TypeOK, ImageInv, PartialInv, ForgetInv, TempInv, SampleInv,
              CopyInv,
              Pending, Swept, Held, HoldsLock

\* Somebody who is no item puts f at p, or marks what is there as read.
Disturbs(p, f) ==
  /\ UNCHANGED <<plock, pc, path, img, seen, temp, lost, unsure, tries, expired,
                 out>>
  /\ disk' = [disk EXCEPT ![p] = f]
  /\ marker' \in [Tokens -> [Paths -> {"none", "match", "stale"}]]
  /\ \A t \in Tokens, q \in Paths :
       marker'[t][q] = "stale" => marker[t][q] = "stale" \/ q = p
  /\ moved' = moved \cup Sampled(p)

(* What comes from outside is no item's and no unfinished copy.            *)
LEMMA DisturbsKeeps ==
  ASSUME IInv, NEW p \in Paths,
         NEW f \in Kinds \cup [data : Images, by : {Elsewhere}],
         Disturbs(p, f),
         ~ExposedWindows =>
           \A i \in Items : pc[i] \in {"copy", "rollback"} => path[i] # p
  PROVE  IInv'
<1>1. Typed /\ (\A j \in Items : ItemOK(j)) /\ (\A q \in Paths : PathOK(q))
  BY Parts
<1>2. f \in Kinds \cup Files /\ (IsFile(f) => f.data # Partial /\ f.by \notin Items)
  BY PublishAssumption DEF Files, IsFile
<1>3. Typed'
  BY <1>1, <1>2 DEF Typed, Disturbs, Sampled
<1>4. disk'[p] = f /\ \A q \in Paths \ {p} : disk'[q] = disk[q]
  BY <1>1 DEF Disturbs, Typed
<1>5. ASSUME NEW j \in Items PROVE ItemOK(j)'
  <2>1. ItemOK(j) /\ path[j] \in Paths
    BY <1>1 DEF Typed
  <2>2. CASE path[j] = p
    <3>1. pc[j] = "poststat" => j \in moved'
      BY <2>2 DEF Disturbs, Sampled
    <3> QED
      BY <2>1, <2>2, <3>1 DEF ItemOK, Disturbs, HoldsLock, Held, Swept
  <2>3. CASE path[j] # p
    BY <1>4, <2>1, <2>3 DEF ItemOK, Disturbs, HoldsLock, Held, Swept
  <2> QED
    BY <2>2, <2>3
<1>6. ASSUME NEW q \in Paths PROVE PathOK(q)'
  <2>1. CASE q = p
    BY <1>2, <1>4, <2>1 DEF PathOK
  <2>2. CASE q # p
    <3>1. PathOK(q) /\ disk'[q] = disk[q] /\ TokenOf \in [Items -> Tokens]
      BY <1>1, <1>4, <2>2, PublishAssumption
    <3>2. \A j \in Items : Pending(j, q) <=> Pending(j, q)'
      BY DEF Pending, Disturbs
    <3>3. \A j \in Items : marker'[TokenOf[j]][q] = "stale" =>
                            marker[TokenOf[j]][q] = "stale"
      BY <2>2, <3>1 DEF Disturbs
    <3> QED
      BY <3>1, <3>2, <3>3 DEF PathOK, Disturbs
  <2> QED
    BY <2>1, <2>2
<1> QED
  BY <1>3, <1>5, <1>6, PartsPrime

(* A text tool reads or writes a path under its lock.                      *)
LEMMA ToolWriteKeeps ==
  ASSUME IInv, NEW t \in Tokens, NEW p \in Paths, NEW d \in Images,
         ToolWrite(t, p, d)
  PROVE  IInv'
<1>1. Typed /\ \A j \in Items : ItemOK(j)
  BY Parts
<1>2. Disturbs(p, Foreign(d))
  BY <1>1 DEF ToolWrite, Disturbs, Typed, Foreign, local, left
<1>3. Foreign(d) \in [data : Images, by : {Elsewhere}]
  BY DEF Foreign
<1>4. \A i \in Items : pc[i] \in {"copy", "rollback"} => path[i] # p
  BY <1>1, KnownLabels, PublishAssumption DEF ToolWrite, ItemOK, HoldsLock
<1> QED
  BY <1>2, <1>3, <1>4, DisturbsKeeps

(* A read changes markers only.                                            *)
LEMMA ToolReadKeeps ==
  ASSUME IInv, NEW t \in Tokens, NEW p \in Paths, ToolRead(t, p)
  PROVE  IInv'
<1>1. Typed /\ (\A j \in Items : ItemOK(j)) /\ (\A q \in Paths : PathOK(q))
  BY Parts
<1>2. UNCHANGED <<disk, plock, pc, path, img, seen, temp, lost, unsure, moved,
                  tries,
                  expired, out>>
  BY DEF ToolRead, local, left
<1>3. /\ marker' \in [Tokens -> [Paths -> {"none", "match", "stale"}]]
      /\ \A u \in Tokens, q \in Paths :
           marker'[u][q] = "stale" => marker[u][q] = "stale"
  BY <1>1 DEF ToolRead, Typed
<1>4. Typed' /\ \A j \in Items : ItemOK(j)'
  BY <1>1, <1>2, <1>3 DEF Typed, ItemOK, HoldsLock, Held, Swept
<1>5. ASSUME NEW q \in Paths PROVE PathOK(q)'
  <2>1. PathOK(q) /\ TokenOf \in [Items -> Tokens]
    BY <1>1, PublishAssumption
  <2>2. \A j \in Items : Pending(j, q) <=> Pending(j, q)'
    BY <1>2 DEF Pending
  <2> QED
    BY <1>2, <1>3, <2>1, <2>2 DEF PathOK
<1> QED
  BY <1>4, <1>5, PartsPrime

(* A program outside the server changes a target.                          *)
LEMMA OutsideKeeps ==
  ASSUME IInv, NEW p \in Paths,
         NEW f \in Kinds \cup [data : Images, by : {Elsewhere}],
         OutsideChange(p, f)
  PROVE  IInv'
<1>1. Typed
  BY Parts
<1>2. Disturbs(p, f)
  BY <1>1 DEF OutsideChange, Put, Disturbs, Typed, local, left
<1> QED
  BY <1>2, DisturbsKeeps DEF OutsideChange

(* A crash: no item, no lock, no marker; a copy that was on its way is in  *)
(* doubt.                                                                  *)
LEMMA CrashKeeps ==
  ASSUME IInv, Crash
  PROVE  IInv'
<1>1. Typed /\ (\A q \in Paths : PathOK(q))
  BY Parts
<1>2. Typed'
  <2>1. Retries \in Nat /\ NoItem \in Items \cup {NoItem}
    BY PublishAssumption
  <2> QED
    BY <1>1, <2>1, KnownLabels DEF Typed, Crash, Outcomes
<1>3. ASSUME NEW j \in Items PROVE ItemOK(j)'
  BY <1>3, KnownLabels DEF ItemOK, Crash, Downloaded
<1>4. ASSUME NEW q \in Paths PROVE PathOK(q)'
  <2>1. PathOK(q) /\ TokenOf \in [Items -> Tokens]
    BY <1>1, PublishAssumption
  <2>2. \A j \in Items : marker'[TokenOf[j]][q] = "none"
    BY <2>1 DEF Crash
  <2>3. /\ disk' = disk
        /\ unsure' = unsure \cup {i \in Items : pc[i] \in {"copy", "rollback"}}
    BY DEF Crash
  <2> QED
    BY <2>1, <2>2, <2>3 DEF PathOK
<1> QED
  BY <1>2, <1>3, <1>4, PartsPrime

-----------------------------------------------------------------------------
(* The specification.                                                      *)

(* Any files that no item published, no item at work.                      *)
LEMMA InitInv == Init => IInv
<1> SUFFICES ASSUME Init PROVE IInv
  OBVIOUS
<1>1. Typed
  BY PublishAssumption, KnownLabels DEF Init, Typed, Outcomes, Files
<1>2. ASSUME NEW j \in Items PROVE ItemOK(j)
  BY KnownLabels DEF Init, ItemOK, Downloaded
<1>3. ASSUME NEW q \in Paths PROVE PathOK(q)
  BY PublishAssumption DEF Init, PathOK, IsFile, Files
<1> QED
  BY <1>1, <1>2, <1>3, Parts

(* Every step of a scheduled item.                                         *)
LEMMA RunKeeps ==
  ASSUME IInv, NEW i \in Items, Run(i)
  PROVE  IInv'
<1>1. CASE Get(i) \/ Attempt(i, "newtemp", "mktemp") \/ MakeTemp(i)
  BY <1>1, GetKeeps, TempAttemptKeeps, MakeTempKeeps
<1>2. CASE (\E d \in Images : Stream(i, d)) \/ CheckType(i) \/ LockTimeout(i)
  BY <1>2, StreamKeeps, CheckTypeKeeps, LockTimeoutKeeps
<1>3. CASE Attempt(i, "publish", "lstat") \/ LstatTarget(i) \/ HashTarget(i)
  BY <1>3, PublishAttemptKeeps, LstatTargetKeeps, HashTargetKeeps
<1>4. CASE CompareTarget(i) \/ LstatTemp(i) \/ Link(i) \/ DegradedCreate(i)
  BY <1>4, CompareTargetKeeps, LstatTempKeeps, LinkKeeps, DegradedCreateKeeps
<1>5. CASE DegradedCopy(i) \/ Rollback(i) \/ RollbackFails(i) \/ RemoveTemp(i)
  BY <1>5, DegradedCopyKeeps, RollbackKeeps, RemoveTempKeeps
<1>6. CASE Finish(i) \/ Cleanup(i) \/ Unlock(i) \/ Return(i)
  BY <1>6, FinishKeeps, CleanupKeeps, UnlockKeeps, ReturnKeeps
<1> QED
  BY <1>1, <1>2, <1>3, <1>4, <1>5, <1>6 DEF Run

(* Every step of the text tools and of other programs.                     *)
LEMMA OutsiderKeeps ==
  ASSUME IInv, Outsider
  PROVE  IInv'
  BY ToolReadKeeps, ToolWriteKeeps, OutsideKeeps DEF Outsider

(* Every step.                                                             *)
LEMMA NextInv == IInv /\ [Next]_vars => IInv'
<1> SUFFICES ASSUME IInv, [Next]_vars PROVE IInv'
  OBVIOUS
<1>1. ASSUME NEW i \in Items, NEW p \in Paths, Start(i, p) PROVE IInv'
  BY <1>1, StartKeeps
<1>2. ASSUME NEW i \in Items, Run(i) PROVE IInv'
  BY <1>2, RunKeeps
<1>3. ASSUME NEW i \in Items, TakeLocks(i) PROVE IInv'
  BY <1>3, TakeLocksKeeps
<1>4. ASSUME NEW i \in Items, Expire(i) PROVE IInv'
  BY <1>4, ExpireKeeps
<1>5. CASE UNCHANGED vars
  BY <1>5 DEF vars, left, IInv, TypeOK, ImageInv, PartialInv, ForgetInv,
              TempInv, SampleInv,
              CopyInv, Pending, Swept, Held, HoldsLock
<1> QED
  BY <1>1, <1>2, <1>3, <1>4, <1>5, OutsiderKeeps, CrashKeeps DEF Next

(* The invariant holds in every state.                                     *)
THEOREM Invariant == Spec => []IInv
  BY InitInv, NextInv, PTL DEF Spec

(* Every variable has its type, and an item is inside publishItem exactly  *)
(* while it holds the path lock of its target (upload.go, uploadItem).     *)
THEOREM TypeCorrect == Spec => []TypeOK
<1>1. IInv => TypeOK
  BY DEF IInv
<1> QED
  BY <1>1, Invariant, PTL

(* An unfinished copy has an author who works on it, or is in doubt        *)
(* (publish.go, degradedPublish).                                          *)
THEOREM PartialCorrect == Spec => []PartialOnlyDuringCopy
<1>1. IInv => PartialOnlyDuringCopy
  BY DEF IInv, PartialInv, PartialOnlyDuringCopy
<1> QED
  BY <1>1, Invariant, PTL

(* The token that uploaded a file holds no outdated marker for it          *)
(* (upload.go, Sess.Forget).                                               *)
THEOREM ForgetCorrect == Spec => []UploaderForgets
<1>1. ASSUME IInv, NEW p \in Paths, NEW i \in Items, plock[p] = NoItem,
             Pending(i, p)
      PROVE  FALSE
  <2>1. pc[i] \in Locked /\ path[i] = p
    BY <1>1, KnownLabels DEF Pending
  <2> QED
    BY <1>1, <2>1, PublishAssumption DEF IInv, TypeOK, HoldsLock
<1>2. IInv => UploaderForgets
  BY <1>1 DEF IInv, ForgetInv, UploaderForgets
<1> QED
  BY <1>2, Invariant, PTL

(* An item that returns leaves no temp file, but for a failed removal or a *)
(* skipped target (publish.go, cleanupTemp; streamOnce, cleanup).          *)
THEOREM TempCorrect == Spec => []TempRemoved
<1>1. IInv => TempRemoved
  BY DEF IInv, TempInv, TempRemoved, Swept
<1> QED
  BY <1>1, Invariant, PTL

-----------------------------------------------------------------------------
(* The action properties.                                                  *)

\* No outcome is skipped that was not.
SkipsNone(i) == \/ out' = out
                \/ \E o \in {"none", "created", "failed"} :
                       out' = [out EXCEPT ![i] = o]

(* Only compareExisting answers skipped.                                   *)
LEMMA SkippedSteps ==
  ASSUME NEW i \in Items, Run(i), ~CompareTarget(i)
  PROVE  SkipsNone(i)
<1>1. ASSUME NEW l, Step(i, l) \/ Enter(i, l) \/ Fail(i) \/ Fails(i, l)
      PROVE  SkipsNone(i)
  BY <1>1 DEF Step, Enter, Fail, Fails, End, SkipsNone
<1>2. CASE Get(i) \/ Attempt(i, "newtemp", "mktemp") \/ MakeTemp(i)
  BY <1>1, <1>2 DEF Get, Attempt, MakeTemp
<1>3. CASE (\E d \in Images : Stream(i, d)) \/ CheckType(i) \/ LockTimeout(i)
  BY <1>1, <1>3 DEF Stream, CheckType, LockTimeout
<1>4. CASE Attempt(i, "publish", "lstat") \/ LstatTarget(i) \/ HashTarget(i)
  BY <1>1, <1>4 DEF Attempt, LstatTarget, HashTarget
<1>5. CASE LstatTemp(i) \/ Link(i) \/ DegradedCreate(i) \/ DegradedCopy(i)
  BY <1>1, <1>5 DEF LstatTemp, Link, DegradedCreate, DegradedCopy
<1>6. CASE Rollback(i) \/ RollbackFails(i) \/ Finish(i) \/ Cleanup(i) \/ Unlock(i)
  BY <1>1, <1>6 DEF Rollback, RollbackFails, Finish, Cleanup, Unlock
<1>7. CASE RemoveTemp(i) \/ Return(i)
  BY <1>7 DEF RemoveTemp, Return, End, SkipsNone
<1> QED
  BY <1>2, <1>3, <1>4, <1>5, <1>6, <1>7 DEF Run

(* It answers so while the target holds the image.                         *)
LEMMA SkipsSame ==
  ASSUME IInv, [Next]_vars, NEW j \in Items, out[j] # "skipped", out'[j] = "skipped"
  PROVE  IsFile(Held(j)) /\ Held(j).data = img[j]
<1>1. out \in [Items -> Outcomes]
  BY Parts DEF Typed
<1>2. ASSUME NEW i \in Items, SkipsNone(i) PROVE FALSE
  BY <1>1, <1>2 DEF SkipsNone
<1>3. ASSUME out' = out PROVE FALSE
  BY <1>3
<1>4. ASSUME NEW i \in Items, NEW p \in Paths, Start(i, p) PROVE FALSE
  BY <1>3, <1>4 DEF Start, Step
<1>5. ASSUME NEW i \in Items, TakeLocks(i) \/ Expire(i) PROVE FALSE
  BY <1>3, <1>5 DEF TakeLocks, Enter, Expire
<1>6. ~Outsider
  BY <1>3 DEF Outsider, ToolRead, ToolWrite, OutsideChange
<1>7. ~Crash
  BY DEF Crash
<1>8. ~UNCHANGED vars
  BY <1>3 DEF vars
<1>9. PICK i \in Items : CompareTarget(i)
  BY <1>2, <1>4, <1>5, <1>6, <1>7, <1>8, SkippedSteps DEF Next
<1>10. CASE i \notin moved /\ seen[i] = img[i] /\ End(i, "finish", "skipped")
  <2>1. i = j
    BY <1>1, <1>10 DEF End
  <2> QED
    BY <1>9, <1>10, <2>1, Here DEF CompareTarget, ItemOK
<1>11. CASE Fail(i) \/ Fails(i, "publish")
  BY <1>2, <1>11 DEF Fail, Fails, End, SkipsNone
<1> QED
  BY <1>9, <1>10, <1>11 DEF CompareTarget

(* An item answers skipped only when the target holds exactly the bytes it *)
(* has downloaded, at that moment (publish.go, compareExisting).           *)
THEOREM SkippedCorrect == Spec => SkippedIsSame
<1>1. IInv /\ [Next]_vars =>
        [\A i \in Items : out[i] # "skipped" /\ out'[i] = "skipped" =>
           IsFile(Held(i)) /\ Held(i).data = img[i]]_vars
  BY SkipsSame
<1> QED
  BY <1>1, Invariant, PTL DEF Spec, SkippedIsSame

(* Only the steps of publishNoReplace and degradedPublish change a target. *)
LEMMA PublishSteps ==
  ASSUME NEW i \in Items, Run(i), disk' # disk
  PROVE  Link(i) \/ DegradedCreate(i) \/ DegradedCopy(i) \/ Rollback(i)
<1>1. ~Get(i) /\ ~Attempt(i, "newtemp", "mktemp") /\ ~MakeTemp(i)
  BY DEF Get, Attempt, MakeTemp
<1>2. (\A d \in Images : ~Stream(i, d)) /\ ~CheckType(i) /\ ~LockTimeout(i)
  BY DEF Stream, CheckType, LockTimeout
<1>3. ~Attempt(i, "publish", "lstat") /\ ~LstatTarget(i) /\ ~HashTarget(i)
  BY DEF Attempt, LstatTarget, HashTarget
<1>4. ~CompareTarget(i) /\ ~LstatTemp(i) /\ ~RollbackFails(i) /\ ~RemoveTemp(i)
  BY DEF CompareTarget, LstatTemp, RollbackFails, RemoveTemp, Kept
<1>5. ~Finish(i) /\ ~Cleanup(i) /\ ~Unlock(i) /\ ~Return(i)
  BY DEF Finish, Cleanup, Unlock, Return
<1> QED
  BY <1>1, <1>2, <1>3, <1>4, <1>5 DEF Run

(* They replace nothing but the unfinished copy of the item itself.        *)
LEMMA ReplacesOwn ==
  ASSUME ~ExposedWindows, IInv, [Next]_vars, NEW p \in Paths,
         pc' # pc, disk'[p] # disk[p], disk[p] # Absent
  PROVE  \E i \in Items : plock[p] = i /\ disk[p] = [data |-> Partial, by |-> i]
<1>1. Typed
  BY Parts
<1>2. ~Outsider
  BY DEF Outsider, ToolRead, ToolWrite, OutsideChange
<1>3. ASSUME NEW i \in Items, NEW q \in Paths,
             Start(i, q) \/ TakeLocks(i) \/ Expire(i)
      PROVE  FALSE
  BY <1>3 DEF Start, TakeLocks, Expire
<1>4. ~Crash /\ ~UNCHANGED vars
  BY DEF Crash, vars
<1>5. PICK i \in Items : Run(i)
  BY <1>2, <1>3, <1>4 DEF Next
<1>6. Link(i) \/ DegradedCreate(i) \/ DegradedCopy(i) \/ Rollback(i)
  BY <1>5, PublishSteps
<1>7. HoldsLock(i) /\ path[i] \in Paths /\ ItemOK(i)
  BY <1>6, Here, KnownLabels DEF Link, DegradedCreate, DegradedCopy, Rollback,
                                 ItemOK
<1>8. ASSUME NEW f, Put(path[i], f) PROVE p = path[i]
  BY <1>1, <1>7, <1>8 DEF Put, Typed
<1>9. p = path[i]
  BY <1>6, <1>8 DEF Link, DegradedCreate, DegradedCopy, Rollback, LinkEffect,
                    CreateEffect,
                    Kept
<1>10. DegradedCopy(i) \/ Rollback(i)
  BY <1>6, <1>9 DEF Link, DegradedCreate, LinkEffect, CreateEffect, Kept, Held
<1>11. disk[p] = [data |-> Partial, by |-> i]
  BY <1>7, <1>9, <1>10 DEF DegradedCopy, Rollback, ItemOK, Held
<1> QED
  BY <1>7, <1>9, <1>11 DEF HoldsLock

(* Upload never overwrites: when programs outside the server leave a       *)
(* degraded copy alone, a step of an item changes a target only if nothing *)
(* is there, or what is there is its own unfinished copy (publish.go,      *)
(* publishNoReplace and degradedPublish).                                  *)
THEOREM NoReplaceCorrect == ASSUME ~ExposedWindows PROVE Spec => NeverOverwrite
<1>1. IInv /\ [Next]_vars =>
        [\A p \in Paths :
           pc' # pc /\ disk'[p] # disk[p] /\ disk[p] # Absent =>
             \E i \in Items : plock[p] = i /\
               disk[p] = [data |-> Partial, by |-> i]]_vars
  BY ReplacesOwn
<1> QED
  BY <1>1, Invariant, PTL DEF Spec, NeverOverwrite
=============================================================================
