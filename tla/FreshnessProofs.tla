--------------------------- MODULE FreshnessProofs ---------------------------
(***************************************************************************)
(* The proof that a marker which matches the disk was earned, when mtimes  *)
(* are fine and outsiders stay out of the unfenced windows.  MarkerSound   *)
(* is not inductive: FreshInv adds that every recorded mtime is in the     *)
(* past, what a request has sampled and read, and that a request inside a  *)
(* window works on bytes its token knows.  From it follow that no tool     *)
(* overwrites silently and that FileTools implements FreshGate.            *)
(***************************************************************************)
EXTENDS FileToolsProofs

USE DEF Tok, Path, Op, Held, Goto, NewTries, NoFault, ColdMaxRetries

(* Freshness.  Every mtime in the system is in the past, so a change made  *)
(* now is newer than every marker and every sample; a request inside an    *)
(* unfenced window is working on bytes its token knows.                    *)

DiskPast(p) == IsFile(disk[p]) => disk[p].mtime \in 1..clock
MarkerPast(t, p) == marker[t][p] # Nothing => marker[t][p].mtime <= clock
Sound(t, p) == Matches(marker[t][p], disk[p]) => known[t][p] = disk[p].data
PathInv(p) == /\ DiskPast(p)
              /\ \A t \in Tokens : MarkerPast(t, p) /\ Sound(t, p)

SnapPast(r) == snap[r] # Nothing => snap[r].mtime <= clock
TempInv(r) ==
  pc[r] = "rename" =>
    /\ temp[r] \in File
    /\ temp[r].data = call[r].data
    /\ temp[r].mtime \in 1..clock
    /\ \A t \in Tokens : marker[t][Path(r)] # Nothing =>
                           marker[t][Path(r)].mtime < temp[r].mtime
WindowInv(r) ==
  InWindow(r) => \/ IsFile(Held(r)) /\ known[Tok(r)][Path(r)] = Held(r).data
                 \/ pc[r] = "unclaim" /\ Held(r) = Absent
SampleInv(r) ==
  /\ pc[r] \in {"readfile", "gate", "restat"} => snap[r] # Nothing
  /\ pc[r] = "restat" => snap[r] = marker[Tok(r)][Path(r)]
  /\ pc[r] = "mark" /\ Op(r) = "read" =>
       /\ snap[r] # Nothing /\ base[r] # Nothing
       /\ Matches(snap[r], Held(r)) => base[r] = Held(r).data
       /\ outside = 0 => IsFile(Held(r)) /\ base[r] = Held(r).data
ReqInv(r) == SnapPast(r) /\ TempInv(r) /\ WindowInv(r) /\ SampleInv(r)
             /\ ClaimedLate(r)

FreshInv == /\ \A p \in Paths : PathInv(p)
            /\ \A r \in Reqs : ReqInv(r)

-----------------------------------------------------------------------------
\* A step of r that changes nothing another request or another path sees.
Local(r) ==
  /\ \A p \in Paths : p # Path(r) => disk'[p] = disk[p]
  /\ \A t \in Tokens, p \in Paths :
       p # Path(r) => marker'[t][p] = marker[t][p] /\ known'[t][p] = known[t][p]
  /\ \A q \in Reqs : q # r => /\ pc'[q] = pc[q]
                              /\ snap'[q] = snap[q]
                              /\ base'[q] = base[q]
                              /\ temp'[q] = temp[q]
                              /\ (q \in claimed') = (q \in claimed)
  /\ UNCHANGED <<call, outside>>
  /\ clock' \in Nat /\ clock <= clock'

(* A step that only touches its own request and path keeps the invariant   *)
(* of every other request and path; the path lock keeps two writers of one *)
(* path apart.                                                             *)
LEMMA OthersKept ==
  ASSUME TypeOK, LockInv, FreshInv, NEW r \in Reqs, pc[r] \in Critical, Local(r)
  PROVE  /\ \A p \in Paths : p # Path(r) => PathInv(p)'
         /\ \A q \in Reqs : q # r => ReqInv(q)'
<1>1. ASSUME NEW p \in Paths, p # Path(r) PROVE PathInv(p)'
  <2>1. DiskPast(p)'
    BY <1>1
       DEF FreshInv, PathInv, DiskPast, Local, TypeOK, DiskTypes, File,
           IsFile
  <2>2. ASSUME NEW t \in Tokens PROVE MarkerPast(t, p)' /\ Sound(t, p)'
    BY <1>1
       DEF FreshInv, PathInv, MarkerPast, Sound, Matches, Local, TypeOK,
           DiskTypes, MarkerTypes, StatInfo
  <2> QED
    BY <2>1, <2>2 DEF PathInv
<1>2. ASSUME NEW q \in Reqs, q # r PROVE ReqInv(q)'
  <2>1. pc[q] \in Critical => Path(q) # Path(r)
    BY <1>2 DEF LockInv, HoldsPath
  <2>2. pc[q] \in Critical => Path(q) \in Paths /\ Tok(q) \in Tokens
    BY ReqArgs DEF Critical
  <2>3. /\ pc'[q] = pc[q] /\ snap'[q] = snap[q] /\ base'[q] = base[q]
        /\ temp'[q] = temp[q] /\ call' = call /\ outside' = outside
        /\ clock \in Nat /\ clock' \in Nat /\ clock <= clock'
    BY <1>2 DEF Local, TypeOK, DiskTypes
  <2>4. pc[q] \in Critical =>
          /\ disk'[Path(q)] = disk[Path(q)]
          /\ \A t \in Tokens : /\ marker'[t][Path(q)] = marker[t][Path(q)]
                               /\ known'[t][Path(q)] = known[t][Path(q)]
    BY <2>1, <2>2 DEF Local
  <2>5. ReqInv(q)
    BY DEF FreshInv
  <2>6. SnapPast(q)'
    <3>1. snap[q] = Nothing \/ snap[q].mtime \in Nat
      BY DEF TypeOK, LocalTypes, StatInfo
    <3> QED
      BY <2>3, <2>5, <3>1 DEF ReqInv, SnapPast
  <2>7. TempInv(q)'
    <3> SUFFICES ASSUME pc[q] = "rename" PROVE TempInv(q)'
      BY <2>3 DEF TempInv
    <3>1. pc[q] \in Critical
      BY DEF Critical, Labels
    <3>2. TempInv(q)
      BY <2>5 DEF ReqInv
    <3> QED
      BY <2>3, <2>4, <3>1, <3>2 DEF TempInv
  <2>8. WindowInv(q)'
    <3>1. InWindow(q)' = InWindow(q) /\ (InWindow(q) => pc[q] \in Critical)
      BY <2>3 DEF InWindow, Critical, Labels
    <3>2. WindowInv(q)
      BY <2>5 DEF ReqInv
    <3> QED
      BY <2>2, <2>3, <2>4, <3>1, <3>2 DEF WindowInv
  <2>9. SampleInv(q)'
    <3>1. SampleInv(q)
      BY <2>5 DEF ReqInv
    <3>2. CASE pc[q] \in Critical
      BY <2>2, <2>3, <2>4, <3>1, <3>2 DEF SampleInv, Matches
    <3>3. CASE pc[q] \notin Critical
      BY <2>3, <3>3 DEF SampleInv, Critical, Labels
    <3> QED
      BY <3>2, <3>3
  <2>10. ClaimedLate(q)'
    BY <1>2, <2>3, <2>5 DEF ReqInv, ClaimedLate, Local
  <2> QED
    BY <2>6, <2>7, <2>8, <2>9, <2>10 DEF ReqInv
<1> QED
  BY <1>1, <1>2

-----------------------------------------------------------------------------
(* Knows changes one entry of the history.                                 *)
LEMMA KnowsEffect ==
  ASSUME TypeOK, NEW r \in Reqs, pc[r] # "idle", NEW d, Knows(r, d)
  PROVE  /\ known'[Tok(r)][Path(r)] = d
         /\ \A t \in Tokens, p \in Paths :
              p # Path(r) \/ t # Tok(r) => known'[t][p] = known[t][p]
<1>1. Tok(r) \in Tokens /\ Path(r) \in Paths
  BY ReqArgs
<1>2. known \in [Tokens -> [Paths -> Data \cup {Nothing}]]
  BY DEF TypeOK, MarkerTypes
<1> QED
  BY <1>1, <1>2 DEF Knows

(* MarkRead changes one marker.                                            *)
LEMMA MarkReadEffect ==
  ASSUME TypeOK, NEW r \in Reqs, pc[r] # "idle", NEW s, MarkRead(r, s)
  PROVE  /\ marker'[Tok(r)][Path(r)] = s
         /\ \A t \in Tokens, p \in Paths :
              p # Path(r) \/ t # Tok(r) => marker'[t][p] = marker[t][p]
<1>1. Tok(r) \in Tokens /\ Path(r) \in Paths
  BY ReqArgs
<1>2. marker \in [Tokens -> [Paths -> StatInfo \cup {Nothing}]]
  BY DEF TypeOK, MarkerTypes
<1> QED
  BY <1>1, <1>2 DEF MarkRead

(* The types of the values a request works with.                           *)
LEMMA OwnTypes ==
  ASSUME TypeOK, NEW r \in Reqs, pc[r] # "idle"
  PROVE  /\ Tok(r) \in Tokens /\ Path(r) \in Paths
         /\ Held(r) \in File \cup {Absent, Dir}
         /\ \A t \in Tokens : marker[t][Path(r)] \in StatInfo \cup {Nothing}
         /\ snap[r] \in StatInfo \cup {Nothing}
         /\ clock \in Nat
  BY ReqArgs DEF TypeOK, DiskTypes, MarkerTypes, LocalTypes

(* The parts of the invariant about a request and its own path.            *)
LEMMA OwnInv ==
  ASSUME TypeOK, FreshInv, NEW r \in Reqs, pc[r] # "idle"
  PROVE  PathInv(Path(r)) /\ ReqInv(r)
  BY ReqArgs DEF FreshInv

\* A step that leaves the disk, the markers and the clock alone.
Still == UNCHANGED <<disk, marker, known, clock, outside, call>>

(* A step that leaves disk, markers and clock alone keeps the invariant of *)
(* every path.                                                             *)
LEMMA StillPath ==
  ASSUME TypeOK, FreshInv, NEW r \in Reqs, pc[r] # "idle", Still
  PROVE  PathInv(Path(r))'
<1>1. PathInv(Path(r))
  BY OwnInv
<1> QED
  BY <1>1 DEF Still, PathInv, DiskPast, MarkerPast, Sound, Matches

(* The first stat of the target keeps the invariant of its request.        *)
LEMMA StatFresh ==
  ASSUME TypeOK, FreshInv, LockInv, NEW r \in Reqs, StatTarget(r)
  PROVE  Local(r) /\ PathInv(Path(r))' /\ ReqInv(r)'
<1> USE DEF fsVars, lockVars
<1>1. pc[r] # "idle" /\ pc[r] = "stat"
  BY DEF StatTarget
<1>2. Still /\ temp' = temp /\ base' = base /\ claimed' = claimed
  BY DEF StatTarget, Still
<1>3. r \notin claimed
  BY <1>1, OwnInv DEF ReqInv, ClaimedLate
<1>4. /\ pc'[r] \in {"stat", "gate", "readfile", "claim", "mkdir", "unlock"}
      /\ \A q \in Reqs : q # r => pc'[q] = pc[q] /\ snap'[q] = snap[q]
      /\ (pc'[r] \in {"gate", "readfile"}) =>
           IsFile(Held(r)) /\ snap'[r] = Stat(Held(r))
      /\ snap'[r] # snap[r] => IsFile(Held(r)) /\ snap'[r] = Stat(Held(r))
  <2>1. pc \in [Reqs -> Labels] /\ snap \in [Reqs -> StatInfo \cup {Nothing}]
    BY DEF TypeOK, ControlTypes, LocalTypes
  <2>2. CASE StatFound(r)
    BY <1>1, <2>1, <2>2 DEF StatFound, Done, Continue
  <2>3. CASE UNCHANGED snap /\ (StatDir(r) \/ StatMissing(r) \/ Fails(r, "stat"))
    BY <1>1, <1>3, <2>1, <2>3 DEF StatDir, StatMissing, Fails, Abort, Done,
                                  Continue
  <2> QED
    BY <2>2, <2>3 DEF StatTarget, StatDir, StatMissing
<1>5. Local(r)
  BY <1>2, <1>4, OwnTypes, <1>1 DEF Local, Still
<1>6. PathInv(Path(r))'
  BY <1>1, <1>2, StillPath
<1>7. IsFile(Held(r)) => Stat(Held(r)) # Nothing /\ Stat(Held(r)).mtime <= clock
  BY <1>1, OwnInv, OwnTypes, StatIsInfo, ConstantsAssumption
     DEF PathInv, DiskPast, IsFile, Stat
<1>8. SnapPast(r)'
  BY <1>1, <1>2, <1>4, <1>7, OwnInv DEF ReqInv, SnapPast, Still
<1>9. TempInv(r)' /\ WindowInv(r)' /\ SampleInv(r)' /\ ClaimedLate(r)'
  BY <1>2, <1>3, <1>4, <1>7
     DEF TempInv, WindowInv, InWindow, SampleInv, ClaimedLate
<1> QED
  BY <1>5, <1>6, <1>8, <1>9 DEF ReqInv

(* Reading the target keeps it: a sample that still matches describes the  *)
(* bytes that were read (read.go, stat before read).                       *)
LEMMA ReadFileFresh ==
  ASSUME TypeOK, FreshInv, LockInv, NEW r \in Reqs, ReadFile(r)
  PROVE  Local(r) /\ PathInv(Path(r))' /\ ReqInv(r)'
<1> USE DEF fsVars, lockVars
<1>1. pc[r] # "idle" /\ pc[r] = "readfile"
  BY DEF ReadFile
<1>2. Still /\ temp' = temp /\ snap' = snap /\ claimed' = claimed
  BY DEF ReadFile, Still
<1>3. r \notin claimed
  BY <1>1, OwnInv DEF ReqInv, ClaimedLate
<1>4. /\ pc'[r] \in {"stat", "gate", "mark", "unlock"}
      /\ \A q \in Reqs : q # r => pc'[q] = pc[q] /\ base'[q] = base[q]
      /\ (pc'[r] = "mark") =>
           Op(r) = "read" /\ IsFile(Held(r)) /\ base'[r] = Held(r).data
  BY <1>1, <1>3 DEF ReadFile, Fails, Abort, Done, Continue, TypeOK,
                    ControlTypes, LocalTypes
<1>5. Local(r)
  BY <1>2, <1>4, OwnTypes, <1>1 DEF Local, Still
<1>6. PathInv(Path(r))'
  BY <1>1, <1>2, StillPath
<1>7. IsFile(Held(r)) => Held(r).data # Nothing
  BY <1>1, OwnTypes, ConstantsAssumption DEF IsFile, File
<1>8. SnapPast(r)'
  BY <1>1, <1>2, OwnInv DEF ReqInv, SnapPast, Still
<1>9. snap[r] # Nothing
  BY <1>1, OwnInv DEF ReqInv, SampleInv
<1>10. TempInv(r)' /\ WindowInv(r)' /\ ClaimedLate(r)'
  BY <1>2, <1>3, <1>4 DEF TempInv, WindowInv, InWindow, ClaimedLate, Still
<1>11. SampleInv(r)'
  BY <1>2, <1>4, <1>7, <1>9 DEF SampleInv, Still
<1> QED
  BY <1>5, <1>6, <1>8, <1>10, <1>11 DEF ReqInv

(* The freshness gate keeps it: a marker equal to a matching sample means  *)
(* that the token knows the bytes.                                         *)
LEMMA GateFresh ==
  ASSUME TypeOK, FreshInv, LockInv, NEW r \in Reqs, Gate(r)
  PROVE  Local(r) /\ PathInv(Path(r))' /\ ReqInv(r)'
<1> USE DEF fsVars, lockVars, reqVars, counters
<1>1. pc[r] # "idle" /\ pc[r] = "gate"
  BY DEF Gate
<1>2. Still /\ temp' = temp /\ snap' = snap /\ base' = base /\ claimed' = claimed
  BY DEF Gate, Still
<1>3. r \notin claimed /\ snap[r] # Nothing /\ SnapPast(r)
  BY <1>1, OwnInv DEF ReqInv, ClaimedLate, SampleInv
<1>4. /\ pc'[r] \in {"restat", "unlock"}
      /\ \A q \in Reqs : q # r => pc'[q] = pc[q]
      /\ (pc'[r] = "restat") => snap[r] = marker[Tok(r)][Path(r)]
  BY <1>1 DEF Gate, Compare, Done, Continue, TypeOK, ControlTypes
<1>5. Local(r)
  BY <1>2, <1>4, OwnTypes, <1>1 DEF Local, Still
<1>6. PathInv(Path(r))'
  BY <1>1, <1>2, StillPath
<1>7. SnapPast(r)'
  BY <1>2, <1>3 DEF SnapPast, Still
<1>8. TempInv(r)' /\ WindowInv(r)' /\ ClaimedLate(r)'
  BY <1>2, <1>3, <1>4 DEF TempInv, WindowInv, InWindow, ClaimedLate
<1>9. SampleInv(r)'
  BY <1>2, <1>3, <1>4 DEF SampleInv, Still
<1> QED
  BY <1>5, <1>6, <1>7, <1>8, <1>9 DEF ReqInv

(* The second stat keeps it, and opens the window only on bytes the token  *)
(* knows (write.go and edit.go, the re-stat).                              *)
LEMMA RestatFresh ==
  ASSUME TypeOK, FreshInv, LockInv, NEW r \in Reqs, Restat(r)
  PROVE  Local(r) /\ PathInv(Path(r))' /\ ReqInv(r)'
<1> USE DEF fsVars, lockVars, reqVars, counters
<1>1. pc[r] # "idle" /\ pc[r] = "restat"
  BY DEF Restat
<1>2. Still /\ temp' = temp /\ snap' = snap /\ base' = base /\ claimed' = claimed
  BY DEF Restat, Still
<1>3. /\ r \notin claimed /\ SnapPast(r)
      /\ snap[r] # Nothing /\ snap[r] = marker[Tok(r)][Path(r)]
  BY <1>1, OwnInv DEF ReqInv, ClaimedLate, SampleInv
<1>4. /\ pc'[r] \in {"restat", "temp", "unlock"}
      /\ \A q \in Reqs : q # r => pc'[q] = pc[q]
      /\ (pc'[r] = "temp") => Matches(snap[r], Held(r))
  BY <1>1, <1>3 DEF Restat, Fails, Abort, Done, Continue, TypeOK, ControlTypes
<1>5. Local(r)
  BY <1>2, <1>4, OwnTypes, <1>1 DEF Local, Still
<1>6. PathInv(Path(r))'
  BY <1>1, <1>2, StillPath
<1>7. SnapPast(r)'
  BY <1>2, <1>3 DEF SnapPast, Still
<1>8. Sound(Tok(r), Path(r))
  BY <1>1, OwnInv, OwnTypes DEF PathInv
<1>9. TempInv(r)' /\ ClaimedLate(r)' /\ SampleInv(r)'
  BY <1>2, <1>3, <1>4 DEF TempInv, ClaimedLate, SampleInv, Still
<1>10. WindowInv(r)'
  BY <1>2, <1>3, <1>4, <1>8 DEF WindowInv, InWindow, Sound, Matches, Still
<1> QED
  BY <1>5, <1>6, <1>7, <1>9, <1>10 DEF ReqInv

(* read's marker keeps it: the sample is older than the bytes.             *)
LEMMA MarkSampleFresh ==
  ASSUME TypeOK, FreshInv, LockInv, NEW r \in Reqs, MarkSample(r)
  PROVE  Local(r) /\ PathInv(Path(r))' /\ ReqInv(r)'
<1> USE DEF fsVars, lockVars, reqVars, counters
<1>1. pc[r] # "idle" /\ pc[r] = "mark" /\ Op(r) = "read"
  BY DEF MarkSample
<1>2. UNCHANGED <<disk, clock, outside, call, temp, snap, base, claimed>>
  BY DEF MarkSample
<1>3. /\ SnapPast(r) /\ snap[r] # Nothing
      /\ Matches(snap[r], Held(r)) => base[r] = Held(r).data
  BY <1>1, OwnInv DEF ReqInv, SampleInv
<1>4. pc'[r] = "unlock" /\ \A q \in Reqs : q # r => pc'[q] = pc[q]
  BY DEF MarkSample, Done, TypeOK, ControlTypes
<1>5. UNCHANGED <<marker, known>> \/ (MarkRead(r, snap[r]) /\ Knows(r, base[r]))
  BY DEF MarkSample
<1>6. \A t \in Tokens, p \in Paths : p # Path(r) \/ t # Tok(r) =>
        marker'[t][p] = marker[t][p] /\ known'[t][p] = known[t][p]
  BY <1>1, <1>5, KnowsEffect, MarkReadEffect
<1>7. Local(r)
  BY <1>1, <1>2, <1>4, <1>6, OwnTypes DEF Local
<1>8. DiskPast(Path(r))'
  BY <1>1, <1>2, OwnInv DEF PathInv, DiskPast
<1>9. ASSUME NEW t \in Tokens PROVE MarkerPast(t, Path(r))' /\ Sound(t, Path(r))'
  <2>1. MarkerPast(t, Path(r)) /\ Sound(t, Path(r)) /\ Path(r) \in Paths
    BY <1>1, OwnInv, OwnTypes DEF PathInv
  <2>2. CASE t # Tok(r) \/ UNCHANGED <<marker, known>>
    BY <1>2, <1>6, <2>1, <2>2 DEF MarkerPast, Sound, Matches
  <2>3. CASE t = Tok(r) /\ MarkRead(r, snap[r]) /\ Knows(r, base[r])
    <3>1. marker'[t][Path(r)] = snap[r] /\ known'[t][Path(r)] = base[r]
      BY <1>1, <2>3, KnowsEffect, MarkReadEffect
    <3> QED
      BY <1>2, <1>3, <2>1, <3>1 DEF MarkerPast, SnapPast, Sound, Matches
  <2> QED
    BY <1>5, <2>2, <2>3
<1>10. PathInv(Path(r))'
  BY <1>2, <1>8, <1>9 DEF PathInv
<1>11. ReqInv(r)'
  BY <1>2, <1>3, <1>4
     DEF ReqInv, SnapPast, TempInv, WindowInv, InWindow, SampleInv,
         ClaimedLate
<1> QED
  BY <1>7, <1>10, <1>11

(* write's and edit's marker keeps it: the file is still the one they      *)
(* renamed; a marker with the zero time matches nothing.                   *)
LEMMA MarkKnownFresh ==
  ASSUME TypeOK, FreshInv, LockInv, NEW r \in Reqs, MarkKnown(r)
  PROVE  Local(r) /\ PathInv(Path(r))' /\ ReqInv(r)'
<1> USE DEF fsVars, lockVars, reqVars, counters
<1>1. pc[r] # "idle" /\ pc[r] = "mark" /\ Op(r) # "read"
  BY DEF MarkKnown
<1>2. UNCHANGED <<disk, known, clock, outside, call, temp, snap, base, claimed>>
  BY DEF MarkKnown
<1>3. /\ SnapPast(r) /\ IsFile(Held(r))
      /\ known[Tok(r)][Path(r)] = Held(r).data
  BY <1>1, OwnInv DEF ReqInv, WindowInv, InWindow
<1>4. pc'[r] = "unlock" /\ \A q \in Reqs : q # r => pc'[q] = pc[q]
  BY DEF MarkKnown, Done, TypeOK, ControlTypes
<1>5. PICK s : MarkRead(r, s) /\ (s = Stat(Held(r)) \/ s.mtime = 0)
  BY DEF MarkKnown, ZeroTime
<1>6. /\ marker'[Tok(r)][Path(r)] = s
      /\ \A t \in Tokens, p \in Paths : p # Path(r) \/ t # Tok(r) =>
           marker'[t][p] = marker[t][p]
  BY <1>1, <1>5, MarkReadEffect
<1>7. Local(r)
  BY <1>1, <1>2, <1>4, <1>6, OwnTypes DEF Local
<1>8. PathInv(Path(r)) /\ Path(r) \in Paths /\ clock \in Nat
  BY <1>1, OwnInv, OwnTypes
<1>9. DiskPast(Path(r))'
  BY <1>2, <1>8 DEF PathInv, DiskPast
<1>10. Held(r).mtime \in 1..clock
  BY <1>3, <1>8 DEF PathInv, DiskPast
<1>11. ASSUME NEW t \in Tokens PROVE MarkerPast(t, Path(r))' /\ Sound(t, Path(r))'
  <2>1. MarkerPast(t, Path(r)) /\ Sound(t, Path(r)) /\ Path(r) \in Paths
    BY <1>8 DEF PathInv
  <2>2. CASE t # Tok(r)
    BY <1>2, <1>6, <2>1, <2>2 DEF MarkerPast, Sound, Matches
  <2>3. CASE t = Tok(r)
    BY <1>2, <1>3, <1>5, <1>6, <1>8, <1>10, <2>3
       DEF MarkerPast, Sound, Matches, Stat
  <2> QED
    BY <2>2, <2>3
<1>12. PathInv(Path(r))'
  BY <1>2, <1>9, <1>11 DEF PathInv
<1>13. ReqInv(r)'
  BY <1>2, <1>3, <1>4
     DEF ReqInv, SnapPast, TempInv, WindowInv, InWindow, SampleInv,
         ClaimedLate
<1> QED
  BY <1>7, <1>12, <1>13

(* A path whose file is replaced by a newer one, or removed, keeps its     *)
(* invariant: no marker matches.                                           *)
LEMMA Replaced ==
  ASSUME TypeOK, TypeOK', NEW p \in Paths, PathInv(p), marker' = marker,
         clock <= clock',
         IsFile(disk'[p]) =>
           /\ disk'[p].mtime \in 1..clock'
           /\ \A t \in Tokens : marker[t][p] # Nothing =>
                                 marker[t][p].mtime < disk'[p].mtime
  PROVE  PathInv(p)'
<1>1. DiskPast(p)'
  BY DEF DiskPast
<1>2. clock \in Nat /\ clock' \in Nat
  BY DEF TypeOK, DiskTypes
<1>3. ASSUME NEW t \in Tokens PROVE MarkerPast(t, p)'
  <2>1. MarkerPast(t, p) /\ (marker[t][p] = Nothing \/ marker[t][p].mtime \in Nat)
    BY DEF PathInv, TypeOK, MarkerTypes, StatInfo
  <2> QED
    BY <1>2, <2>1 DEF MarkerPast
<1>4. ASSUME NEW t \in Tokens PROVE Sound(t, p)'
  <2> SUFFICES ASSUME IsFile(disk'[p]), marker[t][p] = Stat(disk'[p])
               PROVE FALSE
    BY DEF Sound, Matches
  <2>1. disk'[p] \in File
    BY DEF TypeOK, DiskTypes, IsFile
  <2>2. marker[t][p] # Nothing
    BY <2>1, StatIsInfo, ConstantsAssumption
  <2>3. marker[t][p].mtime = disk'[p].mtime /\ disk'[p].mtime \in Nat
    BY <2>1 DEF Stat, File
  <2> QED
    BY <2>2, <2>3
<1> QED
  BY <1>1, <1>3, <1>4 DEF PathInv

(* Removing a claim keeps the invariant.                                   *)
LEMMA UnclaimFresh ==
  ASSUME TypeOK, TypeOK', FreshInv, LockInv, NEW r \in Reqs, Unclaim(r)
  PROVE  Local(r) /\ PathInv(Path(r))' /\ ReqInv(r)'
<1> USE DEF fsVars, lockVars, reqVars, counters
<1>1. pc[r] # "idle" /\ pc[r] = "unclaim"
  BY DEF Unclaim
<1>2. UNCHANGED <<marker, known, clock, outside, call, temp, snap, base, claimed>>
  BY DEF Unclaim
<1>3. ReqInv(r) /\ PathInv(Path(r)) /\ Path(r) \in Paths /\ clock \in Nat
  BY <1>1, OwnInv, OwnTypes
<1>4. /\ \A q \in Reqs : q # r => pc'[q] = pc[q]
      /\ \/ pc'[r] = "unlock" /\ disk'[Path(r)] = Absent
         \/ pc'[r] = "unlock" /\ disk' = disk
         \/ pc'[r] = "unclaim" /\ (disk' = disk \/ disk'[Path(r)] = Absent)
  BY <1>1, <1>3 DEF Unclaim, UnclaimEffect, Done, TypeOK, ControlTypes, DiskTypes
<1>5. \A p \in Paths : p # Path(r) => disk'[p] = disk[p]
  BY <1>3 DEF Unclaim, UnclaimEffect, TypeOK, DiskTypes
<1>6. Local(r)
  BY <1>2, <1>3, <1>4, <1>5 DEF Local
<1>7. PathInv(Path(r))'
  <2>1. CASE disk' = disk
    BY <1>2, <1>3, <2>1 DEF PathInv, DiskPast, MarkerPast, Sound, Matches
  <2>2. CASE disk'[Path(r)] = Absent
    BY <1>2, <1>3, <2>2, Replaced DEF IsFile
  <2> QED
    BY <1>4, <2>1, <2>2
<1>8. TempInv(r)' /\ SnapPast(r)' /\ SampleInv(r)' /\ ClaimedLate(r)'
  BY <1>2, <1>3, <1>4 DEF ReqInv, SnapPast, TempInv, SampleInv, ClaimedLate
<1>9. WindowInv(r)'
  BY <1>1, <1>2, <1>3, <1>4 DEF ReqInv, WindowInv, InWindow
<1> QED
  BY <1>6, <1>7, <1>8, <1>9 DEF ReqInv

(* Creating a directory keeps the invariant.                               *)
LEMMA MkdirFresh ==
  ASSUME TypeOK, TypeOK', FreshInv, LockInv, NEW r \in Reqs, MkdirOnce(r)
  PROVE  Local(r) /\ PathInv(Path(r))' /\ ReqInv(r)'
<1> USE DEF fsVars, lockVars, reqVars, counters
<1>1. pc[r] # "idle" /\ pc[r] = "mkdir"
  BY DEF MkdirOnce
<1>2. UNCHANGED <<marker, known, clock, outside, call, temp, snap, base, claimed>>
  BY DEF MkdirOnce
<1>3. ReqInv(r) /\ PathInv(Path(r)) /\ Path(r) \in Paths /\ clock \in Nat
  BY <1>1, OwnInv, OwnTypes
<1>4. r \notin claimed
  BY <1>1, <1>3 DEF ReqInv, ClaimedLate
<1>5. /\ \A q \in Reqs : q # r => pc'[q] = pc[q]
      /\ pc'[r] \in {"stat", "unlock"}
  BY <1>1, <1>4 DEF MkdirOnce, Fails, Abort, Done, TypeOK, ControlTypes
<1>6. /\ \A p \in Paths : p # Path(r) => disk'[p] = disk[p]
      /\ disk' = disk \/ disk'[Path(r)] = Dir
  BY <1>3 DEF MkdirOnce, MkdirEffect, TypeOK, DiskTypes
<1>7. Local(r)
  BY <1>2, <1>3, <1>5, <1>6 DEF Local
<1>8. PathInv(Path(r))'
  <2>1. CASE disk' = disk
    BY <1>2, <1>3, <2>1 DEF PathInv, DiskPast, MarkerPast, Sound, Matches
  <2>2. CASE disk'[Path(r)] = Dir
    BY <1>2, <1>3, <2>2, Replaced DEF IsFile
  <2> QED
    BY <1>6, <2>1, <2>2
<1>9. ReqInv(r)'
  BY <1>2, <1>3, <1>4, <1>5 DEF ReqInv, SnapPast, TempInv, WindowInv, InWindow,
                              SampleInv, ClaimedLate
<1> QED
  BY <1>7, <1>8, <1>9

(* With fine mtimes the next timestamp is newer than every marker of a     *)
(* path.                                                                   *)
LEMMA FreshStamp ==
  ASSUME FineMtime, TypeOK, NEW p \in Paths, PathInv(p)
  PROVE  /\ Now = clock + 1 /\ Now \in 1..Now /\ clock <= Now
         /\ \A t \in Tokens : marker[t][p] # Nothing => marker[t][p].mtime < Now
<1>1. clock \in Nat
  BY DEF TypeOK, DiskTypes
<1>2. \A t \in Tokens : marker[t][p] = Nothing \/ marker[t][p].mtime \in Nat
  BY DEF TypeOK, MarkerTypes, StatInfo
<1> QED
  BY <1>1, <1>2 DEF Now, PathInv, MarkerPast

(* A sample of the past stays one when the clock advances.                 *)
LEMMA SnapLater ==
  ASSUME TypeOK, TypeOK', NEW r \in Reqs, SnapPast(r), snap'[r] = snap[r],
         clock <= clock'
  PROVE  SnapPast(r)'
<1>1. snap[r] = Nothing \/ snap[r].mtime \in Nat
  BY DEF TypeOK, LocalTypes, StatInfo
<1>2. clock \in Nat /\ clock' \in Nat
  BY DEF TypeOK, DiskTypes
<1> QED
  BY <1>1, <1>2 DEF SnapPast

(* Creating the placeholder keeps the invariant.                           *)
LEMMA ClaimFresh ==
  ASSUME FineMtime, TypeOK, TypeOK', FreshInv, LockInv,
         NEW r \in Reqs, ClaimName(r)
  PROVE  Local(r) /\ PathInv(Path(r))' /\ ReqInv(r)'
<1> USE DEF fsVars, lockVars, reqVars, counters
<1>1. pc[r] # "idle" /\ pc[r] = "claim"
  BY DEF ClaimName
<1>2. UNCHANGED <<marker, outside, call, temp, snap, base>>
  BY DEF ClaimName
<1>3. ReqInv(r) /\ PathInv(Path(r)) /\ Path(r) \in Paths /\ clock \in Nat
  BY <1>1, OwnInv, OwnTypes
<1>4. r \notin claimed
  BY <1>1, <1>3 DEF ReqInv, ClaimedLate
<1>5. /\ \A q \in Reqs : q # r => /\ pc'[q] = pc[q]
                                  /\ (q \in claimed') = (q \in claimed)
      /\ pc'[r] \in {"claim", "temp", "unlock"}
      /\ (pc'[r] = "temp") => ClaimEffect(r)
      /\ (r \in claimed') => (pc'[r] = "temp")
  BY <1>1, <1>4
     DEF ClaimName, Fails, Abort, Done, Continue, TypeOK, ControlTypes
<1>6. ClaimEffect(r) \/ UNCHANGED <<disk, clock, known>>
  BY DEF ClaimName
<1>7. ClaimEffect(r) => /\ disk'[Path(r)] = [data |-> Claim, mtime |-> Now]
                        /\ clock' = Now
                        /\ known'[Tok(r)][Path(r)] = Claim
  BY <1>1, <1>3, KnowsEffect DEF ClaimEffect, Stamped, TypeOK, DiskTypes
<1>8. /\ \A p \in Paths : p # Path(r) => disk'[p] = disk[p]
      /\ \A t \in Tokens, p \in Paths : p # Path(r) => known'[t][p] = known[t][p]
  BY <1>1, <1>3, <1>6, KnowsEffect DEF ClaimEffect, TypeOK, DiskTypes
<1>9. clock' \in Nat /\ clock <= clock'
  BY <1>3, <1>6, <1>7, FreshStamp
<1>10. Local(r)
  BY <1>2, <1>5, <1>8, <1>9 DEF Local
<1>11. PathInv(Path(r))'
  <2>1. CASE ClaimEffect(r)
    BY <1>2, <1>3, <1>7, <1>9, <2>1, Replaced, FreshStamp
  <2>2. CASE UNCHANGED <<disk, clock, known>>
    BY <1>2, <1>3, <2>2 DEF PathInv, DiskPast, MarkerPast, Sound, Matches
  <2> QED
    BY <1>6, <2>1, <2>2
<1>12. WindowInv(r)'
  <2> SUFFICES ASSUME ClaimEffect(r) PROVE WindowInv(r)'
    BY <1>5 DEF WindowInv, InWindow
  <2>1. disk'[Path(r)] \in File
    BY <1>3, <1>7, StampedIsFile DEF Stamped, Data
  <2> QED
    BY <1>2, <1>7, <2>1, ConstantsAssumption DEF WindowInv, IsFile
<1>13. TempInv(r)' /\ SampleInv(r)' /\ ClaimedLate(r)'
  BY <1>5 DEF TempInv, SampleInv, ClaimedLate
<1>14. SnapPast(r)'
  BY <1>2, <1>3, <1>9, SnapLater DEF ReqInv
<1> QED
  BY <1>10, <1>11, <1>12, <1>13, <1>14 DEF ReqInv

(* Writing the temp file keeps it, and stamps the temp file later than     *)
(* every marker of the target.                                             *)
LEMMA WriteTempFresh ==
  ASSUME FineMtime, TypeOK, TypeOK', FreshInv, LockInv,
         NEW r \in Reqs, WriteTemp(r)
  PROVE  Local(r) /\ PathInv(Path(r))' /\ ReqInv(r)'
<1> USE DEF fsVars, lockVars, reqVars, counters
<1>1. pc[r] # "idle" /\ pc[r] = "temp"
  BY DEF WriteTemp
<1>2. UNCHANGED <<disk, marker, known, outside, call, snap, base, claimed>>
  BY DEF WriteTemp
<1>3. ReqInv(r) /\ PathInv(Path(r)) /\ Path(r) \in Paths /\ clock \in Nat
  BY <1>1, OwnInv, OwnTypes
<1>4. /\ \A q \in Reqs : q # r => pc'[q] = pc[q] /\ temp'[q] = temp[q]
      /\ pc'[r] \in {"temp", "rename", "unclaim", "unlock"}
      /\ (pc'[r] = "rename") => temp'[r] = [data |-> call[r].data, mtime |-> Now]
                                /\ clock' = Now
      /\ clock' = Now \/ clock' = clock
  BY <1>1
     DEF WriteTemp, Stamped, Fails, Abort, Done, TypeOK, ControlTypes,
         DiskTypes
<1>5. clock' \in Nat /\ clock <= clock'
  BY <1>3, <1>4, FreshStamp
<1>6. Local(r)
  BY <1>2, <1>4, <1>5 DEF Local
<1>7. DiskPast(Path(r))'
  BY <1>2, <1>3, <1>5 DEF PathInv, DiskPast
<1>8. ASSUME NEW t \in Tokens PROVE MarkerPast(t, Path(r))' /\ Sound(t, Path(r))'
  <2>1. MarkerPast(t, Path(r)) /\ Sound(t, Path(r))
    BY <1>3 DEF PathInv
  <2>2. marker[t][Path(r)] = Nothing \/ marker[t][Path(r)].mtime \in Nat
    BY <1>3 DEF TypeOK, MarkerTypes, StatInfo
  <2> QED
    BY <1>2, <1>3, <1>5, <2>1, <2>2 DEF MarkerPast, Sound, Matches
<1>9. PathInv(Path(r))'
  BY <1>2, <1>7, <1>8 DEF PathInv
<1>10. SnapPast(r)'
  BY <1>2, <1>3, <1>5, SnapLater DEF ReqInv
<1>11. TempInv(r)'
  <2> SUFFICES ASSUME pc'[r] = "rename" PROVE TempInv(r)'
    BY DEF TempInv
  <2>1. temp'[r] \in File
    BY <1>4, ConstantsAssumption, <1>1
       DEF TypeOK, DiskTypes, ArgsOK, Writing, Calls, File, Data, Now
  <2> QED
    BY <1>2, <1>3, <1>4, <2>1, FreshStamp DEF TempInv
<1>12. WindowInv(r)'
  BY <1>1, <1>2, <1>3 DEF ReqInv, WindowInv, InWindow
<1>13. SampleInv(r)' /\ ClaimedLate(r)'
  BY <1>2, <1>3, <1>4 DEF SampleInv, ClaimedLate
<1> QED
  BY <1>6, <1>9, <1>10, <1>11, <1>12, <1>13 DEF ReqInv

(* The rename keeps it: the temp file's mtime is newer than every marker   *)
(* of the target.                                                          *)
LEMMA RenameFresh ==
  ASSUME TypeOK, TypeOK', FreshInv, LockInv, NEW r \in Reqs, Rename(r)
  PROVE  Local(r) /\ PathInv(Path(r))' /\ ReqInv(r)'
<1> USE DEF fsVars, lockVars, reqVars, counters
<1>1. pc[r] # "idle" /\ pc[r] = "rename"
  BY DEF Rename
<1>2. UNCHANGED <<clock, marker, outside, call, snap, base, claimed>>
  BY DEF Rename
<1>3. ReqInv(r) /\ PathInv(Path(r)) /\ Path(r) \in Paths /\ clock \in Nat
  BY <1>1, OwnInv, OwnTypes
<1>4. /\ \A q \in Reqs : q # r => pc'[q] = pc[q] /\ temp'[q] = temp[q]
      /\ pc'[r] \in {"temp", "mark", "unclaim", "unlock"}
  BY <1>1
     DEF Rename, Fails, Abort, Done, Continue, TypeOK, ControlTypes,
         DiskTypes
<1>5. RenameEffect(r) \/ UNCHANGED <<disk, known>>
  BY DEF Rename
<1>6. RenameEffect(r) => /\ disk'[Path(r)] = temp[r]
                         /\ known'[Tok(r)][Path(r)] = call[r].data
  BY <1>1, <1>3, KnowsEffect DEF RenameEffect, TypeOK, DiskTypes
<1>7. /\ \A p \in Paths : p # Path(r) => disk'[p] = disk[p]
      /\ \A t \in Tokens, p \in Paths : p # Path(r) => known'[t][p] = known[t][p]
  BY <1>1, <1>3, <1>5, KnowsEffect DEF RenameEffect, TypeOK, DiskTypes
<1>8. Local(r)
  BY <1>2, <1>3, <1>4, <1>7 DEF Local
<1>9. /\ temp[r] \in File /\ temp[r].data = call[r].data
      /\ temp[r].mtime \in 1..clock
      /\ \A t \in Tokens : marker[t][Path(r)] # Nothing =>
                            marker[t][Path(r)].mtime < temp[r].mtime
  BY <1>1, <1>3 DEF ReqInv, TempInv
<1>10. PathInv(Path(r))'
  <2>1. CASE RenameEffect(r)
    BY <1>2, <1>3, <1>6, <1>9, <2>1, Replaced
  <2>2. CASE UNCHANGED <<disk, known>>
    BY <1>2, <1>3, <2>2 DEF PathInv, DiskPast, MarkerPast, Sound, Matches
  <2> QED
    BY <1>5, <2>1, <2>2
<1>11. IsFile(Held(r)') /\ known'[Tok(r)][Path(r)] = (Held(r)').data
  <2>1. CASE RenameEffect(r)
    BY <1>2, <1>6, <1>9, <2>1, ConstantsAssumption DEF IsFile
  <2>2. CASE UNCHANGED <<disk, known>>
    BY <1>1, <1>2, <1>3, <2>2 DEF ReqInv, WindowInv, InWindow
  <2> QED
    BY <1>5, <2>1, <2>2
<1>12. WindowInv(r)'
  BY <1>2, <1>11 DEF WindowInv
<1>13. Op(r) # "read"
  BY <1>1 DEF TypeOK, ArgsOK, Writing
<1>14. TempInv(r)' /\ SampleInv(r)' /\ ClaimedLate(r)' /\ SnapPast(r)'
  BY <1>2, <1>3, <1>4, <1>13
     DEF ReqInv, TempInv, SampleInv, ClaimedLate, SnapPast
<1> QED
  BY <1>8, <1>10, <1>12, <1>14 DEF ReqInv

(* Every step of a handler's body keeps the invariant.                     *)
LEMMA BodyFresh ==
  ASSUME FineMtime, TypeOK, TypeOK', FreshInv, LockInv, NEW r \in Reqs, Body(r)
  PROVE  FreshInv'
<1>1. Local(r) /\ PathInv(Path(r))' /\ ReqInv(r)'
  BY StatFresh, ReadFileFresh, GateFresh, RestatFresh, ClaimFresh,
     WriteTempFresh, RenameFresh, UnclaimFresh, MarkSampleFresh,
     MarkKnownFresh, MkdirFresh DEF Body
<1>2. pc[r] \in Critical
  BY BodyIsBodyStep DEF BodyStep, Inner
<1>3. /\ \A p \in Paths : p # Path(r) => PathInv(p)'
      /\ \A q \in Reqs : q # r => ReqInv(q)'
  BY <1>1, <1>2, OthersKept
<1>4. ASSUME NEW p \in Paths PROVE PathInv(p)'
  <2>1. CASE p = Path(r)
    <3>1. call' = call
      BY <1>1 DEF Local
    <3> QED
      BY <1>1, <2>1, <3>1
  <2> QED
    BY <1>3, <2>1
<1> QED
  BY <1>1, <1>3, <1>4 DEF FreshInv

\* A request entering or leaving: nothing but its own control changes.
Outer == {"idle", "plock", "slock", "stat", "release"}

(* So does every step that only moves a request in or out of its body.     *)
LEMMA OuterFresh ==
  ASSUME FreshInv, NEW r \in Reqs,
         UNCHANGED <<disk, marker, known, clock, outside>>,
         \A q \in Reqs : q # r =>
           /\ pc'[q] = pc[q] /\ call'[q] = call[q] /\ snap'[q] = snap[q]
           /\ base'[q] = base[q] /\ temp'[q] = temp[q]
           /\ (q \in claimed') = (q \in claimed),
         pc'[r] \in Outer,
         snap'[r] = snap[r] \/ snap'[r] = Nothing,
         (r \in claimed') => (pc'[r] = "release")
  PROVE  FreshInv'
<1>1. ASSUME NEW p \in Paths PROVE PathInv(p)'
  BY DEF FreshInv, PathInv, DiskPast, MarkerPast, Sound, Matches
<1>2. ReqInv(r)'
  BY DEF FreshInv, Outer, ReqInv, SnapPast, TempInv, WindowInv, InWindow,
         SampleInv, ClaimedLate
<1>3. ASSUME NEW q \in Reqs, q # r PROVE ReqInv(q)'
  <2>1. ReqInv(q)
    BY DEF FreshInv
  <2>2. SnapPast(q)' /\ ClaimedLate(q)'
    BY <1>3, <2>1 DEF ReqInv, SnapPast, ClaimedLate
  <2>3. TempInv(q)'
    BY <1>3, <2>1 DEF ReqInv, TempInv
  <2>4. WindowInv(q)'
    BY <1>3, <2>1 DEF ReqInv, WindowInv, InWindow
  <2>5. SampleInv(q)'
    BY <1>3, <2>1 DEF ReqInv, SampleInv, Matches
  <2> QED
    BY <2>2, <2>3, <2>4, <2>5 DEF ReqInv
<1> QED
  BY <1>1, <1>2, <1>3 DEF FreshInv

(* The locking steps, arrival and return are of that kind.                 *)
LEMMA EnterLeaveFresh ==
  ASSUME TypeOK, FreshInv, NEW r \in Reqs,
         \/ \E c \in Calls : Begin(r, c)
         \/ LockContext(r) \/ LockTimeout(r) \/ LockFile(r)
         \/ Unlock(r) \/ Release(r)
  PROVE  FreshInv'
<1> USE DEF fsVars, lockVars, reqVars, counters, Outer
<1>1. /\ pc \in [Reqs -> Labels] /\ call \in [Reqs -> Calls \cup {Nothing}]
      /\ snap \in [Reqs -> StatInfo \cup {Nothing}]
      /\ base \in [Reqs -> Data \cup {Nothing}]
      /\ temp \in [Reqs -> File \cup {Absent}]
  BY DEF TypeOK, ControlTypes, LocalTypes, DiskTypes
<1>2. (r \in claimed) => pc[r] \notin {"idle", "plock", "slock"}
  BY DEF FreshInv, ReqInv, ClaimedLate
<1>3. ASSUME NEW c \in Calls, Begin(r, c) PROVE FreshInv'
  BY <1>1, <1>2, <1>3, OuterFresh DEF Begin
<1>4. CASE LockContext(r)
  BY <1>1, <1>2, <1>4, OuterFresh DEF LockContext
<1>5. CASE LockTimeout(r)
  BY <1>1, <1>2, <1>5, OuterFresh DEF LockTimeout
<1>6. CASE LockFile(r)
  BY <1>1, <1>2, <1>6, OuterFresh DEF LockFile
<1>7. CASE Unlock(r)
  BY <1>1, <1>2, <1>7, OuterFresh DEF Unlock
<1>8. CASE Release(r)
  BY <1>1, <1>2, <1>8, OuterFresh DEF Release
<1> QED
  BY <1>3, <1>4, <1>5, <1>6, <1>7, <1>8

(* A change made outside the server keeps the invariant, as long as it     *)
(* stays out of the windows of the path.                                   *)
LEMMA OutsideFresh ==
  ASSUME FineMtime, ~ExposedWindows, TypeOK, TypeOK', FreshInv,
         NEW p \in Paths, NEW f \in File \cup {Absent}, OutsideChange(p, f),
         \/ f = Absent /\ clock' = clock
         \/ f \in File /\ f.mtime = Now /\ clock' = Now
  PROVE  FreshInv'
<1>1. UNCHANGED <<marker, known, pc, call, snap, base, temp, claimed>>
  BY DEF OutsideChange
<1>2. /\ disk'[p] = f
      /\ \A x \in Paths : x # p => disk'[x] = disk[x]
      /\ outside' # 0
  BY DEF OutsideChange, TypeOK, DiskTypes, CounterTypes
<1>3. clock \in Nat /\ clock' \in Nat /\ clock <= clock'
  BY DEF TypeOK, DiskTypes, Now
<1>4. PathInv(p)'
  <2>1. PathInv(p)
    BY DEF FreshInv
  <2> QED
    BY <1>1, <1>2, <1>3, <2>1, Replaced, FreshStamp DEF IsFile
<1>5. ASSUME NEW x \in Paths, x # p PROVE PathInv(x)'
  <2>1. DiskPast(x)'
    BY <1>2, <1>3, <1>5 DEF FreshInv, PathInv, DiskPast
  <2>2. ASSUME NEW t \in Tokens PROVE MarkerPast(t, x)' /\ Sound(t, x)'
    <3>1. marker[t][x] = Nothing \/ marker[t][x].mtime \in Nat
      BY DEF TypeOK, MarkerTypes, StatInfo
    <3> QED
      BY <1>1, <1>2, <1>3, <1>5, <3>1
         DEF FreshInv, PathInv, MarkerPast, Sound, Matches
  <2> QED
    BY <2>1, <2>2 DEF PathInv
<1>6. ASSUME NEW r \in Reqs PROVE ReqInv(r)'
  <2>1. ReqInv(r)
    BY DEF FreshInv
  <2>2. SnapPast(r)' /\ ClaimedLate(r)'
    BY <1>1, <1>3, <2>1, SnapLater DEF ReqInv, ClaimedLate
  <2>3. TempInv(r)'
    BY <1>1, <1>3, <2>1 DEF ReqInv, TempInv
  <2>4. WindowInv(r)'
    <3> SUFFICES ASSUME InWindow(r) PROVE WindowInv(r)'
      BY <1>1 DEF WindowInv, InWindow
    <3>1. Path(r) # p
      BY DEF OutsideChange
    <3>2. Path(r) \in Paths
      BY ReqArgs DEF InWindow
    <3> QED
      BY <1>1, <1>2, <2>1, <3>1, <3>2 DEF ReqInv, WindowInv
  <2>5. ASSUME pc[r] = "mark", Op(r) = "read", Matches(snap[r], Held(r)')
        PROVE  base[r] = (Held(r)').data
    <3>1. Path(r) \in Paths /\ snap[r] # Nothing
      BY <2>1, <2>5, ReqArgs DEF ReqInv, SampleInv
    <3>2. CASE Path(r) # p
      BY <1>1, <1>2, <2>1, <2>5, <3>1, <3>2 DEF ReqInv, SampleInv
    <3>3. CASE Path(r) = p
      <4>1. f \in File /\ snap[r] = Stat(f)
        BY <1>1, <1>2, <2>5, <3>3 DEF Matches, IsFile
      <4>2. snap[r].mtime = clock + 1
        BY <4>1, ConstantsAssumption DEF Stat, Now
      <4>3. snap[r].mtime <= clock
        BY <2>1, <3>1 DEF ReqInv, SnapPast
      <4> QED
        BY <1>3, <4>2, <4>3
    <3> QED
      BY <3>2, <3>3
  <2>6. SampleInv(r)'
    BY <1>1, <1>2, <2>1, <2>5 DEF ReqInv, SampleInv
  <2> QED
    BY <2>2, <2>3, <2>4, <2>6 DEF ReqInv
<1> QED
  BY <1>4, <1>5, <1>6 DEF FreshInv

(* The invariant holds initially.                                          *)
LEMMA FreshInit == Init => FreshInv
<1> SUFFICES ASSUME Init PROVE FreshInv
  OBVIOUS
<1>1. ASSUME NEW p \in Paths PROVE PathInv(p)
  <2>1. DiskPast(p)
    BY DEF Init, DiskPast, IsFile
  <2>2. ASSUME NEW t \in Tokens PROVE MarkerPast(t, p) /\ Sound(t, p)
    <3>1. marker[t][p] = Nothing
      BY DEF Init
    <3>2. IsFile(disk[p]) => disk[p] \in File
      BY DEF Init, IsFile, File, Data
    <3> QED
      BY <3>1, <3>2, StatIsInfo, ConstantsAssumption
         DEF MarkerPast, Sound, Matches
  <2> QED
    BY <2>1, <2>2 DEF PathInv
<1>2. ASSUME NEW r \in Reqs PROVE ReqInv(r)
  BY DEF Init, ReqInv, SnapPast, TempInv, WindowInv, InWindow, SampleInv,
         ClaimedLate
<1> QED
  BY <1>1, <1>2 DEF FreshInv

(* Every step keeps the invariant.                                         *)
LEMMA FreshNext ==
  ASSUME FineMtime, ~ExposedWindows, TypeOK, TypeOK', LockInv, FreshInv,
         [Next]_vars
  PROVE  FreshInv'
<1>1. ASSUME NEW p \in Paths, NEW d \in Contents, OutsideWrite(p, d)
      PROVE  FreshInv'
  <2>1. Stamped(d) \in File /\ Stamped(d).mtime = Now
    BY StampedIsFile DEF TypeOK, DiskTypes, Data, Stamped
  <2> QED
    BY <1>1, <2>1, OutsideFresh DEF OutsideWrite
<1>2. ASSUME NEW p \in Paths, OutsideRemove(p) PROVE FreshInv'
  BY <1>2, OutsideFresh DEF OutsideRemove
<1>3. CASE Crash
  <2>1. UNCHANGED <<disk, clock, known, outside>>
    BY <1>3 DEF Crash, fsVars
  <2>2. \A t \in Tokens, p \in Paths : marker'[t][p] = Nothing
    BY <1>3 DEF Crash
  <2>3. ASSUME NEW p \in Paths PROVE PathInv(p)'
    <3>1. DiskPast(p)'
      BY <2>1 DEF FreshInv, PathInv, DiskPast
    <3>2. IsFile(disk[p]) => Stat(disk[p]) # Nothing
      BY StatIsInfo, ConstantsAssumption DEF TypeOK, DiskTypes, IsFile
    <3> QED
      BY <2>1, <2>2, <3>1, <3>2 DEF PathInv, MarkerPast, Sound, Matches
  <2>4. ASSUME NEW r \in Reqs PROVE ReqInv(r)'
    BY <1>3 DEF Crash, ReqInv, SnapPast, TempInv, WindowInv, InWindow,
                SampleInv, ClaimedLate
  <2> QED
    BY <2>3, <2>4 DEF FreshInv
<1>4. CASE UNCHANGED vars
  <2>1. ASSUME NEW p \in Paths PROVE PathInv(p)'
    BY <1>4 DEF vars, FreshInv, PathInv, DiskPast, MarkerPast, Sound, Matches
  <2>2. ASSUME NEW r \in Reqs PROVE ReqInv(r)'
    BY <1>4 DEF vars, FreshInv, ReqInv, SnapPast, TempInv, WindowInv,
                InWindow, SampleInv, ClaimedLate, Matches
  <2> QED
    BY <2>1, <2>2 DEF FreshInv
<1> QED
  BY <1>1, <1>2, <1>3, <1>4, BodyFresh, EnterLeaveFresh
     DEF Next, Advance, Tick, Quiescent

(* The invariant implies MarkerSound.                                      *)
LEMMA FreshImplies == FreshInv => MarkerSound
  BY DEF FreshInv, PathInv, Sound, MarkerSound

(* With fine mtimes and outsiders kept out of the unfenced windows, a      *)
(* marker that matches the disk always stands for bytes its token has seen *)
(* or written, whatever the failures, retries, ambiguous replies and       *)
(* crashes (session.go, Compare; read.go; write.go, markKnown).            *)
THEOREM MarkersCorrect ==
  ASSUME FineMtime, ~ExposedWindows
  PROVE  Spec => []MarkerSound
<1>1. Init => TypeOK /\ LockInv /\ FreshInv
  BY TypeInit, LockInvInit, FreshInit
<1>2. TypeOK /\ LockInv /\ FreshInv /\ [Next]_vars
        => (TypeOK /\ LockInv /\ FreshInv)'
  BY TypeNext, LockInvNext, FreshNext
<1> QED
  BY <1>1, <1>2, FreshImplies, PTL DEF Spec

-----------------------------------------------------------------------------
(* From the freshness invariant: no silent overwrite, and FileTools        *)
(* implements the abstract register of FreshGate.                          *)

(* An update of one path changes no other path.                            *)
LEMMA DiskKept ==
  ASSUME TypeOK, NEW r \in Reqs, NEW p \in Paths, Path(r) \in Paths, NEW f,
         disk' = [disk EXCEPT ![Path(r)] = f], disk'[p] # disk[p]
  PROVE  p = Path(r)
  BY DEF TypeOK, DiskTypes

(* The steps of a body that change the disk or the history are a read's    *)
(* mark, a claim, a rename, the removal of a claim and a mkdir.            *)
LEMMA BodyChanges ==
  ASSUME TypeOK, NEW r \in Reqs, Body(r)
  PROVE  \/ pc[r] = "claim" /\ ClaimEffect(r)
         \/ pc[r] = "rename" /\ RenameEffect(r)
         \/ pc[r] = "mkdir" /\ MkdirEffect(r) /\ UNCHANGED known
         \/ pc[r] = "unclaim" /\ UNCHANGED known
            /\ disk' = [disk EXCEPT ![Path(r)] = Absent]
         \/ pc[r] = "mark" /\ Op(r) = "read" /\ UNCHANGED disk
            /\ Knows(r, base[r])
         \/ UNCHANGED <<disk, known>>
<1> USE DEF fsVars, reqVars, counters
<1>1. CASE StatTarget(r) \/ ReadFile(r) \/ Gate(r) \/ Restat(r)
  BY <1>1 DEF StatTarget, ReadFile, Gate, Restat
<1>2. CASE ClaimName(r)
  BY <1>2 DEF ClaimName
<1>3. CASE WriteTemp(r)
  BY <1>3 DEF WriteTemp
<1>4. CASE Rename(r)
  BY <1>4 DEF Rename
<1>5. CASE Unclaim(r)
  BY <1>5 DEF Unclaim, UnclaimEffect
<1>6. CASE MarkSample(r) \/ MarkKnown(r)
  BY <1>6 DEF MarkSample, MarkKnown
<1>7. CASE MkdirOnce(r)
  BY <1>7 DEF MkdirOnce
<1> QED
  BY <1>1, <1>2, <1>3, <1>4, <1>5, <1>6, <1>7 DEF Body

Unobserved == UNCHANGED <<disk, known, outside>>

(* Every other step of the system is a change from outside, a crash or one *)
(* that touches neither disk nor history.                                  *)
LEMMA OtherSteps ==
  ASSUME [Next]_vars
  PROVE  \/ \E r \in Reqs : Body(r) /\ UNCHANGED outside
         \/ \E p \in Paths, d \in Contents : OutsideWrite(p, d)
         \/ \E p \in Paths : OutsideRemove(p)
         \/ Unobserved
<1> USE DEF fsVars, reqVars, counters, Unobserved
<1>1. ASSUME NEW r \in Reqs, Body(r) PROVE UNCHANGED outside
  BY <1>1 DEF Body, StatTarget, ReadFile, Gate, Restat, ClaimName, WriteTemp,
              Rename, Unclaim, MarkSample, MarkKnown, MkdirOnce
<1>2. ASSUME NEW r \in Reqs,
             \/ \E c \in Calls : Begin(r, c)
             \/ LockContext(r) \/ LockTimeout(r) \/ LockFile(r)
             \/ Unlock(r) \/ Release(r)
      PROVE  Unobserved
  BY <1>2 DEF Begin, LockContext, LockTimeout, LockFile, Unlock, Release
<1>3. CASE Tick \/ Crash \/ UNCHANGED vars
  BY <1>3 DEF Tick, Crash, vars
<1> QED
  BY <1>1, <1>2, <1>3 DEF Next, Advance, Quiescent

(* A step of the server that changes an existing file is made by the       *)
(* holder of its path lock, whose token knows the bytes that go.           *)
LEMMA OverwriteStep ==
  ASSUME TypeOK, LockInv, FreshInv, [Next]_vars, NEW p \in Paths,
         disk'[p] # disk[p], outside' = outside, IsFile(disk[p])
  PROVE  \E r \in Reqs : plock[p] = r /\ known[Tok(r)][p] = disk[p].data
<1>1. ASSUME NEW x \in Paths, NEW f, OutsideChange(x, f) PROVE FALSE
  BY <1>1 DEF OutsideChange, TypeOK, CounterTypes
<1>2. PICK r \in Reqs : Body(r)
  BY <1>1, OtherSteps DEF OutsideWrite, OutsideRemove, Unobserved
<1>3. pc[r] \in Critical /\ pc[r] # "idle"
  BY <1>2, BodyIsBodyStep DEF BodyStep, Inner, Critical
<1>4. Path(r) \in Paths
  BY <1>3, ReqArgs
<1>5. p = Path(r) /\ pc[r] \in {"rename", "unclaim"}
  <2>1. \E f : disk' = [disk EXCEPT ![Path(r)] = f]
    BY <1>2, BodyChanges DEF ClaimEffect, RenameEffect, MkdirEffect
  <2>2. p = Path(r)
    BY <1>4, <2>1, DiskKept
  <2> QED
    BY <1>2, <2>2, BodyChanges DEF ClaimEffect, MkdirEffect, IsFile
<1>6. WindowInv(r)
  BY DEF FreshInv, ReqInv
<1>7. known[Tok(r)][p] = disk[p].data
  BY <1>5, <1>6 DEF WindowInv, InWindow, IsFile
<1>8. plock[p] = r
  BY <1>3, <1>5 DEF LockInv, HoldsPath
<1> QED
  BY <1>7, <1>8

(* With fine mtimes and outsiders kept out of the unfenced windows, no     *)
(* tool replaces or removes bytes its token did not see or write last      *)
(* (README, read-before-write; write.go and edit.go, gate and re-stat).    *)
THEOREM NoOverwriteCorrect ==
  ASSUME FineMtime, ~ExposedWindows
  PROVE  Spec => NoSilentOverwrite
<1>1. Init => TypeOK /\ LockInv /\ FreshInv
  BY TypeInit, LockInvInit, FreshInit
<1>2. TypeOK /\ LockInv /\ FreshInv /\ [Next]_vars
        => (TypeOK /\ LockInv /\ FreshInv)'
  BY TypeNext, LockInvNext, FreshNext
<1>3. TypeOK /\ LockInv /\ FreshInv /\ [Next]_vars
        => [\A p \in Paths :
              disk'[p] # disk[p] /\ outside' = outside /\ IsFile(disk[p]) =>
                \E r \in Reqs : /\ plock[p] = r
                                /\ known[Tok(r)][p] = disk[p].data]_vars
  BY OverwriteStep
<1> QED
  BY <1>1, <1>2, <1>3, PTL DEF Spec, NoSilentOverwrite

-----------------------------------------------------------------------------
AbsFile == [p \in Paths |-> Register(disk[p])]

(* The abstract content of a file is data, and what is no file is itself.  *)
LEMMA RegisterData ==
  /\ \A f \in File : Register(f) = f.data /\ Register(f) \in Data
  /\ \A f \in File \cup {Absent, Dir} : IsFile(f) => f \in File
  BY ConstantsAssumption DEF Register, File, IsFile

(* An update of one path of the disk is an update of that register.        *)
LEMMA AbsHolds ==
  ASSUME TypeOK, NEW p \in Paths, NEW f, disk' = [disk EXCEPT ![p] = f]
  PROVE  AbsFile' = [AbsFile EXCEPT ![p] = Register(f)]
  BY DEF TypeOK, DiskTypes, AbsFile

(* Initial states map to initial states.                                   *)
LEMMA AbsInit == Init => FG!Init
<1> SUFFICES ASSUME Init PROVE FG!Init
  OBVIOUS
<1>1. ASSUME NEW p \in Paths PROVE Register(disk[p]) \in Data \cup {Absent, Dir}
  BY TypeInit, RegisterData DEF TypeOK, DiskTypes, Register
<1> QED
  BY <1>1 DEF FG!Init, Init

(* Every step maps to a step of FreshGate or to a stutter.                 *)
LEMMA AbsNext ==
  ASSUME TypeOK, LockInv, FreshInv, [Next]_vars
  PROVE  [FG!Next]_(FG!vars)
<1>1. ASSUME Unobserved PROVE UNCHANGED FG!vars
  BY <1>1 DEF Unobserved, FG!vars
<1>2. ASSUME NEW p \in Paths, NEW f \in File \cup {Absent}, OutsideChange(p, f)
      PROVE  FG!Next
  <2>1. disk[p] # Dir /\ outside' = outside + 1 /\ known' = known
        /\ disk' = [disk EXCEPT ![p] = f]
    BY <1>2 DEF OutsideChange
  <2>2. AbsFile[p] # Dir
    BY <2>1, RegisterData, ConstantsAssumption
       DEF TypeOK, DiskTypes, AbsFile, Register
  <2>3. Register(f) \in Data \cup {Absent}
    BY RegisterData DEF Register
  <2>4. AbsFile' = [AbsFile EXCEPT ![p] = Register(f)]
    BY <2>1, AbsHolds
  <2>5. FG!Outside(p, Register(f))
    BY <2>1, <2>2, <2>4 DEF FG!Outside, FG!Holds, AbsFile
  <2> QED
    BY <2>3, <2>5 DEF FG!Next
<1>3. ASSUME NEW r \in Reqs, Body(r), UNCHANGED outside
      PROVE  FG!Next \/ UNCHANGED FG!vars
  <2> DEFINE p == Path(r)
             t == Tok(r)
  <2>1. pc[r] # "idle" /\ p \in Paths /\ t \in Tokens
    BY <1>3, BodyIsBodyStep, ReqArgs DEF BodyStep, Inner, Critical
  <2>2. Held(r) \in File \cup {Absent, Dir} /\ WindowInv(r) /\ SampleInv(r)
    BY <2>1 DEF TypeOK, DiskTypes, FreshInv, ReqInv
  <2>3. AbsFile[p] = Register(Held(r))
    BY <2>1 DEF AbsFile
  <2>4. CASE ClaimEffect(r)
    <3>1. AbsFile[p] = Absent /\ Claim \in Data
      BY <2>3, <2>4 DEF ClaimEffect, Register, Data
    <3>2. Register(Stamped(Claim)) = Claim
      BY <3>1, RegisterData, StampedIsFile DEF Stamped, TypeOK, DiskTypes
    <3>3. AbsFile' = [AbsFile EXCEPT ![p] = Claim]
      BY <2>1, <2>4, <3>2, AbsHolds DEF ClaimEffect
    <3>4. FG!Create(t, p, Claim)
      BY <1>3, <2>4, <3>1, <3>3
         DEF FG!Create, FG!Holds, FG!Sees, AbsFile, ClaimEffect, Knows
    <3> QED
      BY <2>1, <3>1, <3>4 DEF FG!Next
  <2>5. CASE pc[r] = "rename" /\ RenameEffect(r)
    <3>1. AbsFile[p] \in Data /\ known[t][p] = AbsFile[p]
      BY <2>2, <2>3, <2>5, RegisterData DEF WindowInv, InWindow
    <3>2. call[r].data \in Data
      BY <2>5 DEF TypeOK, ArgsOK, Writing, Calls, Data
    <3>3. Register(temp[r]) = call[r].data
      BY <2>5, RegisterData DEF FreshInv, ReqInv, TempInv
    <3>4. AbsFile' = [AbsFile EXCEPT ![p] = call[r].data]
      BY <2>1, <2>5, <3>3, AbsHolds DEF RenameEffect
    <3>5. FG!Replace(t, p, call[r].data)
      BY <1>3, <2>5, <3>1, <3>4
         DEF FG!Replace, FG!Holds, FG!Sees, AbsFile, RenameEffect, Knows
    <3> QED
      BY <2>1, <3>2, <3>5 DEF FG!Next
  <2>6. CASE MkdirEffect(r) /\ UNCHANGED known
    <3>1. AbsFile[p] = Absent /\ Register(Dir) = Dir
      BY <2>3, <2>6 DEF MkdirEffect, Register
    <3>2. AbsFile' = [AbsFile EXCEPT ![p] = Dir]
      BY <2>1, <2>6, <3>1, AbsHolds DEF MkdirEffect
    <3>3. FG!MakeDir(p)
      BY <1>3, <2>6, <3>1, <3>2 DEF FG!MakeDir, FG!Holds, AbsFile
    <3> QED
      BY <2>1, <3>3 DEF FG!Next
  <2>7. CASE pc[r] = "unclaim" /\ UNCHANGED known
             /\ disk' = [disk EXCEPT ![Path(r)] = Absent]
    <3>1. CASE Held(r) = Absent
      <4>1. disk' = disk
        BY <2>1, <2>7, <3>1 DEF TypeOK, DiskTypes
      <4> QED
        BY <1>1, <1>3, <2>7, <4>1 DEF Unobserved
    <3>2. CASE Held(r) # Absent
      <4>1. AbsFile[p] \in Data /\ known[t][p] = AbsFile[p]
        BY <2>2, <2>3, <2>7, <3>2, RegisterData DEF WindowInv, InWindow
      <4>2. AbsFile' = [AbsFile EXCEPT ![p] = Absent]
        BY <2>1, <2>7, AbsHolds DEF Register
      <4>3. FG!Remove(t, p)
        BY <1>3, <2>7, <4>1, <4>2 DEF FG!Remove, FG!Holds, AbsFile
      <4> QED
        BY <2>1, <4>3 DEF FG!Next
    <3> QED
      BY <3>1, <3>2
  <2>8. CASE pc[r] = "mark" /\ Op(r) = "read" /\ UNCHANGED disk
             /\ Knows(r, base[r])
    <3>1. base[r] \in Data
      BY <2>2, <2>8 DEF SampleInv, TypeOK, LocalTypes
    <3>2. base[r] = AbsFile[p] \/ outside > 0
      BY <2>2, <2>3, <2>8, RegisterData DEF SampleInv, TypeOK, CounterTypes
    <3>3. AbsFile' = AbsFile
      BY <2>8 DEF AbsFile
    <3>4. FG!Observe(t, p, base[r])
      BY <1>3, <2>8, <3>2, <3>3 DEF FG!Observe, FG!Sees, AbsFile, Knows
    <3> QED
      BY <2>1, <3>1, <3>4 DEF FG!Next
  <2> QED
    BY <1>1, <1>3, <2>4, <2>5, <2>6, <2>7, <2>8, BodyChanges DEF Unobserved
<1>4. ASSUME NEW p \in Paths, NEW d \in Contents, OutsideWrite(p, d)
      PROVE  FG!Next
  BY <1>2, <1>4, StampedIsFile DEF OutsideWrite, TypeOK, DiskTypes, Data
<1>5. ASSUME NEW p \in Paths, OutsideRemove(p) PROVE FG!Next
  BY <1>2, <1>5 DEF OutsideRemove
<1> QED
  BY <1>1, <1>3, <1>4, <1>5, OtherSteps

(* Under the same assumptions the tools implement FreshGate: locks, stats, *)
(* temp files, retries and crashes are invisible, and what remains is a    *)
(* register a token can replace only if it knows its content (write.go,    *)
(* edit.go, read.go, mkdir.go).                                            *)
THEOREM Refinement ==
  ASSUME FineMtime, ~ExposedWindows
  PROVE  Spec => ImplementsFreshGate
<1>1. Init => TypeOK /\ LockInv /\ FreshInv
  BY TypeInit, LockInvInit, FreshInit
<1>2. TypeOK /\ LockInv /\ FreshInv /\ [Next]_vars
        => (TypeOK /\ LockInv /\ FreshInv)'
  BY TypeNext, LockInvNext, FreshNext
<1>3. TypeOK /\ LockInv /\ FreshInv /\ [Next]_vars => [FG!Next]_(FG!vars)
  BY AbsNext
<1> QED
  BY <1>1, <1>2, <1>3, AbsInit, PTL DEF Spec, ImplementsFreshGate, FG!Spec
=============================================================================
