--------------------------- MODULE FileToolsProofs ---------------------------
(***************************************************************************)
(* Proofs about FileTools, for every value of its constants: type          *)
(* correctness, and the exclusion that the two lock tables give            *)
(* (internal/session/session.go).                                          *)
(***************************************************************************)
EXTENDS FileTools, TLAPS

USE DEF Tok, Path, Op, Held, Goto, NewTries, NoFault, ColdMaxRetries

(* The size of every content, a placeholder's included, is a natural       *)
(* number.                                                                 *)
LEMMA SizeIsNat == \A d \in Data : Size(d) \in Nat
  BY ConstantsAssumption DEF Data, Size

(* What Stat returns of a file is a size and an mtime.                     *)
LEMMA StatIsInfo == \A f \in File : Stat(f) \in StatInfo
  BY SizeIsNat DEF File, Stat, StatInfo

(* The next timestamp is a natural number.                                 *)
LEMMA NowIsNat == clock \in Nat => Now \in Nat
  BY DEF Now

(* A file written now is a file.                                           *)
LEMMA StampedIsFile == clock \in Nat => \A d \in Data : Stamped(d) \in File
  BY NowIsNat DEF Stamped, File

(* A request that has begun carries a token and a path.                    *)
LEMMA ReqArgs ==
  ASSUME TypeOK, NEW r \in Reqs, pc[r] # "idle"
  PROVE  Tok(r) \in Tokens /\ Path(r) \in Paths
  BY ConstantsAssumption DEF TypeOK, ArgsOK, Calls

(* Recording what a token knows keeps the types of the markers and of the  *)
(* history.                                                                *)
LEMMA KnowsTyped ==
  ASSUME TypeOK, NEW r \in Reqs, NEW d \in Data \cup {Nothing},
         pc[r] # "idle", Knows(r, d)
  PROVE  known' \in [Tokens -> [Paths -> Data \cup {Nothing}]]
<1>1. Tok(r) \in Tokens /\ Path(r) \in Paths
  BY ReqArgs
<1>2. known \in [Tokens -> [Paths -> Data \cup {Nothing}]]
  BY DEF TypeOK, MarkerTypes
<1> QED
  BY <1>1, <1>2 DEF Knows

(* Session.MarkRead keeps the types of the markers and of the history.     *)
LEMMA MarkReadTyped ==
  ASSUME TypeOK, NEW r \in Reqs, NEW s \in StatInfo \cup {Nothing},
         pc[r] # "idle", MarkRead(r, s)
  PROVE  marker' \in [Tokens -> [Paths -> StatInfo \cup {Nothing}]]
<1>1. Tok(r) \in Tokens /\ Path(r) \in Paths
  BY ReqArgs
<1>2. marker \in [Tokens -> [Paths -> StatInfo \cup {Nothing}]]
  BY DEF TypeOK, MarkerTypes
<1> QED
  BY <1>1, <1>2 DEF MarkRead

(* The initial states are well typed.                                      *)
LEMMA TypeInit == Init => TypeOK
<1> SUFFICES ASSUME Init PROVE TypeOK
  OBVIOUS
<1> USE ConstantsAssumption DEF Init
<1>1. DiskTypes
  BY DEF DiskTypes, File, Data
<1>2. LockTypes /\ MarkerTypes
  BY DEF LockTypes, MarkerTypes
<1>3. ControlTypes /\ LocalTypes /\ CounterTypes
  BY DEF ControlTypes, LocalTypes, CounterTypes, Labels, Outcomes
<1>4. ArgsOK
  BY DEF ArgsOK, Writing
<1> QED
  BY <1>1, <1>2, <1>3, <1>4 DEF TypeOK

(* Every way a step can end (Continue, Done, Abort, Fails) moves one       *)
(* request to a known label, with a known outcome and a bounded number of  *)
(* retries.                                                                *)
LEMMA ControlStep ==
  ASSUME ControlTypes, NEW r \in Reqs, pc[r] # "idle",
         \/ \E o \in Outcomes : Done(r, o)
         \/ \E l \in Labels : Continue(r, l)
         \/ Abort(r)
         \/ \E l \in Labels : Fails(r, l)
         \/ \E l \in Labels : Goto(r, l) /\ UNCHANGED <<tries, out>>
  PROVE  ControlTypes'
<1>1. CASE \E o \in Outcomes : Done(r, o)
  BY <1>1 DEF ControlTypes, Done, Labels
<1>2. CASE \E l \in Labels : Continue(r, l)
  BY <1>2 DEF ControlTypes, Continue
<1>3. CASE Abort(r)
  BY <1>3 DEF ControlTypes, Abort, Done, Labels, Outcomes
<1>4. CASE \E l \in Labels : Fails(r, l)
  <2> PICK l \in Labels : Fails(r, l)
    BY <1>4
  <2> QED
    BY <1>3 DEF ControlTypes, Fails
<1>5. CASE \E l \in Labels : Goto(r, l) /\ UNCHANGED <<tries, out>>
  BY <1>5 DEF ControlTypes
<1> QED
  BY <1>1, <1>2, <1>3, <1>4, <1>5

(* Every step keeps the types: one case per action of Next.                *)
LEMMA TypeNext == TypeOK /\ [Next]_vars => TypeOK'
<1> SUFFICES ASSUME TypeOK, [Next]_vars PROVE TypeOK'
  OBVIOUS
<1> USE DEF fsVars, lockVars, reqVars, counters
<1>1. ASSUME NEW r \in Reqs, NEW c \in Calls, Begin(r, c) PROVE TypeOK'
  <2>1. ControlTypes' /\ LocalTypes' /\ CounterTypes'
    BY <1>1 DEF TypeOK, ControlTypes, LocalTypes, CounterTypes, Begin, Labels
  <2>2. DiskTypes' /\ LockTypes' /\ MarkerTypes'
    BY <1>1 DEF TypeOK, DiskTypes, LockTypes, MarkerTypes, Begin
  <2>3. ArgsOK'
    BY <1>1 DEF TypeOK, ControlTypes, LocalTypes, ArgsOK, Begin, Writing
  <2> QED
    BY <2>1, <2>2, <2>3 DEF TypeOK
<1>2. ASSUME NEW r \in Reqs, LockContext(r) PROVE TypeOK'
  <2>1. ControlTypes' /\ LocalTypes' /\ CounterTypes'
    BY <1>2 DEF TypeOK, ControlTypes, LocalTypes, CounterTypes, LockContext,
                Labels
  <2>2. DiskTypes' /\ LockTypes' /\ MarkerTypes'
    BY <1>2 DEF TypeOK, DiskTypes, LockTypes, MarkerTypes, LockContext
  <2>3. ArgsOK'
    BY <1>2 DEF TypeOK, ControlTypes, ArgsOK, LockContext, Writing
  <2> QED
    BY <2>1, <2>2, <2>3 DEF TypeOK
<1>3. ASSUME NEW r \in Reqs, LockTimeout(r) PROVE TypeOK'
  <2>1. ControlTypes' /\ LocalTypes' /\ CounterTypes'
    BY <1>3 DEF TypeOK, ControlTypes, LocalTypes, CounterTypes, LockTimeout,
                Labels
  <2>2. DiskTypes' /\ LockTypes' /\ MarkerTypes'
    BY <1>3 DEF TypeOK, DiskTypes, LockTypes, MarkerTypes, LockTimeout
  <2>3. ArgsOK'
    BY <1>3 DEF TypeOK, ControlTypes, LocalTypes, ArgsOK, LockTimeout, Writing
  <2> QED
    BY <2>1, <2>2, <2>3 DEF TypeOK
<1>4. ASSUME NEW r \in Reqs, LockFile(r) PROVE TypeOK'
  <2>1. ControlTypes' /\ CounterTypes' /\ MarkerTypes'
    BY <1>4 DEF TypeOK, ControlTypes, CounterTypes, MarkerTypes, LockFile,
                Labels
  <2>2. DiskTypes' /\ LockTypes'
    BY <1>4 DEF TypeOK, DiskTypes, LockTypes, LockFile
  <2>3. LocalTypes'
    BY <1>4 DEF TypeOK, LocalTypes, DiskTypes, ArgsOK, Calls, LockFile
  <2>4. ArgsOK'
    BY <1>4 DEF TypeOK, ControlTypes, ArgsOK, LockFile, Writing
  <2> QED
    BY <2>1, <2>2, <2>3, <2>4 DEF TypeOK
<1>5. ASSUME NEW r \in Reqs, Unlock(r) PROVE TypeOK'
  <2>1. ControlTypes' /\ LocalTypes' /\ CounterTypes'
    BY <1>5 DEF TypeOK, ControlTypes, LocalTypes, CounterTypes, Unlock, Labels
  <2>2. DiskTypes' /\ LockTypes' /\ MarkerTypes'
    BY <1>5 DEF TypeOK, DiskTypes, LockTypes, MarkerTypes, Unlock
  <2>3. ArgsOK'
    BY <1>5 DEF TypeOK, ControlTypes, ArgsOK, Unlock, Writing
  <2> QED
    BY <2>1, <2>2, <2>3 DEF TypeOK
<1>6. ASSUME NEW r \in Reqs, Release(r) PROVE TypeOK'
  <2>1. ControlTypes' /\ CounterTypes' /\ MarkerTypes'
    BY <1>6 DEF TypeOK, ControlTypes, CounterTypes, MarkerTypes, Release,
                Labels, Outcomes
  <2>2. DiskTypes' /\ LockTypes'
    BY <1>6 DEF TypeOK, DiskTypes, LockTypes, Release
  <2>3. LocalTypes'
    BY <1>6 DEF TypeOK, LocalTypes, Release
  <2>4. ArgsOK'
    BY <1>6 DEF TypeOK, ControlTypes, LocalTypes, ArgsOK, Release, Writing
  <2> QED
    BY <2>1, <2>2, <2>3, <2>4 DEF TypeOK
<1>7. ASSUME NEW r \in Reqs, StatTarget(r) PROVE TypeOK'
  <2> USE <1>7 DEF StatTarget, StatFound, StatDir, StatMissing
  <2>1. ControlTypes'
    BY ControlStep DEF TypeOK, Labels, Outcomes
  <2>2. LocalTypes'
    BY StatIsInfo DEF TypeOK, LocalTypes, DiskTypes, ArgsOK, IsFile, Calls
  <2>3. CounterTypes'
    BY DEF TypeOK, CounterTypes, Fails
  <2>4. DiskTypes' /\ LockTypes' /\ MarkerTypes'
    BY DEF TypeOK, DiskTypes, LockTypes, MarkerTypes
  <2>5. ArgsOK'
    BY DEF TypeOK, ControlTypes, LocalTypes, ArgsOK, Fails, Done, Abort,
           Continue, Writing
  <2> QED
    BY <2>1, <2>2, <2>3, <2>4, <2>5 DEF TypeOK
<1>8. ASSUME NEW r \in Reqs, ReadFile(r) PROVE TypeOK'
  <2> USE <1>8 DEF ReadFile
  <2>1. ControlTypes'
    BY ControlStep DEF TypeOK, Labels, Outcomes
  <2>2. LocalTypes'
    BY DEF TypeOK, LocalTypes, DiskTypes, ArgsOK, IsFile, Calls, File
  <2>3. CounterTypes'
    BY DEF TypeOK, CounterTypes, Fails
  <2>4. DiskTypes' /\ LockTypes' /\ MarkerTypes'
    BY DEF TypeOK, DiskTypes, LockTypes, MarkerTypes
  <2>5. ArgsOK'
    BY DEF TypeOK, ControlTypes, LocalTypes, ArgsOK, Fails, Done, Abort,
           Continue, Writing, Calls
  <2> QED
    BY <2>1, <2>2, <2>3, <2>4, <2>5 DEF TypeOK
<1>9. ASSUME NEW r \in Reqs, Gate(r) PROVE TypeOK'
  <2> USE <1>9 DEF Gate
  <2>1. ControlTypes'
    BY ControlStep DEF TypeOK, Labels, Outcomes
  <2>2. LocalTypes' /\ CounterTypes'
    BY DEF TypeOK, LocalTypes, CounterTypes
  <2>3. DiskTypes' /\ LockTypes' /\ MarkerTypes'
    BY DEF TypeOK, DiskTypes, LockTypes, MarkerTypes
  <2>4. ArgsOK'
    BY DEF TypeOK, ControlTypes, LocalTypes, ArgsOK, Done, Continue, Writing
  <2> QED
    BY <2>1, <2>2, <2>3, <2>4 DEF TypeOK
<1>10. ASSUME NEW r \in Reqs, Restat(r) PROVE TypeOK'
  <2> USE <1>10 DEF Restat
  <2>1. ControlTypes'
    BY ControlStep DEF TypeOK, Labels, Outcomes
  <2>2. LocalTypes' /\ CounterTypes'
    BY DEF TypeOK, LocalTypes, CounterTypes, Fails
  <2>3. DiskTypes' /\ LockTypes' /\ MarkerTypes'
    BY DEF TypeOK, DiskTypes, LockTypes, MarkerTypes
  <2>4. ArgsOK'
    BY DEF TypeOK, ControlTypes, LocalTypes, ArgsOK, Fails, Done, Abort,
           Continue, Writing
  <2> QED
    BY <2>1, <2>2, <2>3, <2>4 DEF TypeOK
<1>11. ASSUME NEW r \in Reqs, ClaimName(r) PROVE TypeOK'
  <2> USE <1>11 DEF ClaimName, ClaimEffect
  <2>1. ControlTypes'
    BY ControlStep DEF TypeOK, Labels, Outcomes
  <2>2. LocalTypes' /\ CounterTypes' /\ LockTypes'
    BY DEF TypeOK, LocalTypes, CounterTypes, LockTypes, Fails
  <2>3. DiskTypes'
    BY StampedIsFile, NowIsNat DEF TypeOK, DiskTypes, Data
  <2>4. MarkerTypes'
    BY KnowsTyped DEF TypeOK, MarkerTypes, Data
  <2>5. ArgsOK'
    BY DEF TypeOK, ControlTypes, LocalTypes, ArgsOK, Fails, Done, Abort,
           Continue, Writing
  <2> QED
    BY <2>1, <2>2, <2>3, <2>4, <2>5 DEF TypeOK
<1>12. ASSUME NEW r \in Reqs, WriteTemp(r) PROVE TypeOK'
  <2> USE <1>12 DEF WriteTemp
  <2>1. ControlTypes'
    BY ControlStep DEF TypeOK, Labels, Outcomes
  <2>2. LocalTypes' /\ CounterTypes' /\ LockTypes' /\ MarkerTypes'
    BY DEF TypeOK, LocalTypes, CounterTypes, LockTypes, MarkerTypes, Fails
  <2>3. call[r].data \in Data
    BY DEF TypeOK, ArgsOK, Writing, Calls, Data
  <2>4. DiskTypes'
    BY <2>3, StampedIsFile, NowIsNat DEF TypeOK, DiskTypes
  <2>5. ArgsOK'
    BY DEF TypeOK, ControlTypes, LocalTypes, ArgsOK, Fails, Done, Abort,
           Writing
  <2> QED
    BY <2>1, <2>2, <2>4, <2>5 DEF TypeOK
<1>13. ASSUME NEW r \in Reqs, Rename(r) PROVE TypeOK'
  <2> USE <1>13 DEF Rename, RenameEffect
  <2>1. ControlTypes'
    BY ControlStep DEF TypeOK, Labels, Outcomes
  <2>2. LocalTypes' /\ CounterTypes' /\ LockTypes'
    BY DEF TypeOK, LocalTypes, CounterTypes, LockTypes, Fails
  <2>3. DiskTypes'
    BY DEF TypeOK, DiskTypes
  <2>4. MarkerTypes'
    <3>1. call[r].data \in Data
      BY DEF TypeOK, ArgsOK, Writing, Calls, Data
    <3> QED
      BY <3>1, KnowsTyped DEF TypeOK, MarkerTypes
  <2>5. ArgsOK'
    BY DEF TypeOK, ControlTypes, LocalTypes, ArgsOK, Fails, Done, Abort,
           Continue, Writing
  <2> QED
    BY <2>1, <2>2, <2>3, <2>4, <2>5 DEF TypeOK
<1>14. ASSUME NEW r \in Reqs, Unclaim(r) PROVE TypeOK'
  <2> USE <1>14 DEF Unclaim, UnclaimEffect
  <2>1. ControlTypes'
    BY DEF TypeOK, ControlTypes, Labels, Outcomes, Done
  <2>2. LocalTypes' /\ CounterTypes' /\ LockTypes' /\ MarkerTypes'
    BY DEF TypeOK, LocalTypes, CounterTypes, LockTypes, MarkerTypes
  <2>3. DiskTypes'
    BY DEF TypeOK, DiskTypes
  <2>4. ArgsOK'
    BY DEF TypeOK, ControlTypes, LocalTypes, ArgsOK, Done, Writing
  <2> QED
    BY <2>1, <2>2, <2>3, <2>4 DEF TypeOK
<1>15. ASSUME NEW r \in Reqs, MarkSample(r) PROVE TypeOK'
  <2> USE <1>15 DEF MarkSample
  <2>1. ControlTypes'
    BY ControlStep DEF TypeOK, Labels, Outcomes
  <2>2. LocalTypes' /\ CounterTypes' /\ LockTypes' /\ DiskTypes'
    BY DEF TypeOK, LocalTypes, CounterTypes, LockTypes, DiskTypes
  <2>3. MarkerTypes'
    BY KnowsTyped, MarkReadTyped DEF TypeOK, MarkerTypes, LocalTypes
  <2>4. ArgsOK'
    BY DEF TypeOK, ControlTypes, LocalTypes, ArgsOK, Done, Writing
  <2> QED
    BY <2>1, <2>2, <2>3, <2>4 DEF TypeOK
<1>16. ASSUME NEW r \in Reqs, MarkKnown(r) PROVE TypeOK'
  <2> USE <1>16 DEF MarkKnown
  <2>1. ControlTypes'
    BY ControlStep DEF TypeOK, Labels, Outcomes
  <2>2. LocalTypes' /\ CounterTypes' /\ LockTypes' /\ DiskTypes'
    BY DEF TypeOK, LocalTypes, CounterTypes, LockTypes, DiskTypes
  <2>3. Size(call[r].data) \in Nat
    BY SizeIsNat DEF TypeOK, ArgsOK, Calls, Data
  <2>4. [size |-> Size(call[r].data), mtime |-> ZeroTime] \in StatInfo
    BY <2>3 DEF StatInfo, ZeroTime
  <2>5. IsFile(Held(r)) => Stat(Held(r)) \in StatInfo
    BY StatIsInfo DEF TypeOK, DiskTypes, ArgsOK, Calls, IsFile
  <2>6. MarkerTypes'
    BY <2>4, <2>5, MarkReadTyped DEF TypeOK, MarkerTypes
  <2>7. ArgsOK'
    BY DEF TypeOK, ControlTypes, LocalTypes, ArgsOK, Done, Writing
  <2> QED
    BY <2>1, <2>2, <2>6, <2>7 DEF TypeOK
<1>17. ASSUME NEW r \in Reqs, MkdirOnce(r) PROVE TypeOK'
  <2> USE <1>17 DEF MkdirOnce, MkdirEffect
  <2>1. ControlTypes'
    BY ControlStep DEF TypeOK, Labels, Outcomes
  <2>2. LocalTypes' /\ CounterTypes' /\ LockTypes' /\ MarkerTypes'
    BY DEF TypeOK, LocalTypes, CounterTypes, LockTypes, MarkerTypes, Fails
  <2>3. DiskTypes'
    BY DEF TypeOK, DiskTypes
  <2>4. ArgsOK'
    BY DEF TypeOK, ControlTypes, LocalTypes, ArgsOK, Fails, Done, Abort,
           Writing
  <2> QED
    BY <2>1, <2>2, <2>3, <2>4 DEF TypeOK
<1>18. ASSUME NEW p \in Paths, NEW f \in File \cup {Absent},
              OutsideChange(p, f), clock' \in Nat
       PROVE TypeOK'
  <2> USE <1>18 DEF OutsideChange
  <2>1. ControlTypes' /\ CounterTypes' /\ LockTypes' /\ MarkerTypes'
    BY DEF TypeOK, ControlTypes, CounterTypes, LockTypes, MarkerTypes
  <2>2. DiskTypes'
    BY DEF TypeOK, DiskTypes
  <2>3. LocalTypes'
    BY DEF TypeOK, LocalTypes
  <2>4. ArgsOK'
    BY DEF TypeOK, ArgsOK
  <2> QED
    BY <2>1, <2>2, <2>3, <2>4 DEF TypeOK
<1>19. CASE Tick
  <2> USE <1>19 DEF Tick
  <2>1. ControlTypes' /\ CounterTypes' /\ LockTypes' /\ MarkerTypes'
    BY DEF TypeOK, ControlTypes, CounterTypes, LockTypes, MarkerTypes
  <2>2. DiskTypes' /\ LocalTypes' /\ ArgsOK'
    BY DEF TypeOK, DiskTypes, LocalTypes, ArgsOK
  <2> QED
    BY <2>1, <2>2 DEF TypeOK
<1>20. CASE Crash
  <2> USE <1>20 DEF Crash
  <2>1. ControlTypes' /\ CounterTypes'
    BY DEF TypeOK, ControlTypes, CounterTypes, Labels, Outcomes
  <2>2. DiskTypes' /\ LockTypes' /\ MarkerTypes'
    BY DEF TypeOK, DiskTypes, LockTypes, MarkerTypes
  <2>3. LocalTypes' /\ ArgsOK'
    BY DEF TypeOK, LocalTypes, ArgsOK, Writing
  <2> QED
    BY <2>1, <2>2, <2>3 DEF TypeOK
<1>21. CASE UNCHANGED vars
  <2> USE <1>21 DEF vars
  <2>1. ControlTypes' /\ CounterTypes' /\ LockTypes' /\ MarkerTypes'
    BY DEF TypeOK, ControlTypes, CounterTypes, LockTypes, MarkerTypes
  <2>2. DiskTypes' /\ LocalTypes' /\ ArgsOK'
    BY DEF TypeOK, DiskTypes, LocalTypes, ArgsOK
  <2> QED
    BY <2>1, <2>2 DEF TypeOK
<1>22. ASSUME NEW p \in Paths, NEW d \in Contents, OutsideWrite(p, d)
       PROVE TypeOK'
  BY <1>18, <1>22, StampedIsFile, NowIsNat
     DEF OutsideWrite, TypeOK, DiskTypes, Data
<1>23. ASSUME NEW p \in Paths, OutsideRemove(p) PROVE TypeOK'
  BY <1>18, <1>23 DEF OutsideRemove, TypeOK, DiskTypes
<1> QED
  BY <1>1, <1>2, <1>3, <1>4, <1>5, <1>6, <1>7, <1>8, <1>9, <1>10, <1>11,
     <1>12, <1>13, <1>14, <1>15, <1>16, <1>17, <1>19, <1>20, <1>21, <1>22,
     <1>23
     DEF Next, Advance, Body, Quiescent

(* Every reachable state is well typed, every request past its arrival has *)
(* its arguments, and only write and edit reach the steps that write (the  *)
(* handlers of read.go, write.go, edit.go and mkdir.go).                   *)
THEOREM TypeCorrect == Spec => []TypeOK
<1> QED
  BY TypeInit, TypeNext, PTL DEF Spec

-----------------------------------------------------------------------------
(* The locks.  The path lock is held by whoever is in a critical section,  *)
(* and a session lock only by a request of its token inside the path lock. *)

HoldsPath(r) == pc[r] \in Critical => plock[Path(r)] = r
HeldInside(t, p) == slock[t][p] # NoReq => /\ slock[t][p] \in Reqs
                                           /\ pc[slock[t][p]] \in Inner
                                           /\ Path(slock[t][p]) = p
                                           /\ Tok(slock[t][p]) = t
LockInv == /\ \A r \in Reqs : HoldsPath(r)
           /\ \A t \in Tokens, p \in Paths : HeldInside(t, p)

(* The lock invariant holds initially: nobody holds anything.              *)
LEMMA LockInvInit == Init => LockInv
  BY DEF Init, LockInv, HoldsPath, HeldInside, Critical, Labels

(* The lock invariant gives both exclusion properties.                     *)
LEMMA LockInvImplies == TypeOK /\ LockInv => SessionLockFree /\ PathExclusion
<1> SUFFICES ASSUME TypeOK, LockInv PROVE SessionLockFree /\ PathExclusion
  OBVIOUS
<1>1. PathExclusion
  BY DEF PathExclusion, LockInv, HoldsPath
<1>2. ASSUME NEW r \in Reqs, pc[r] = "slock", slock[Tok(r)][Path(r)] # NoReq
      PROVE FALSE
  <2> DEFINE q == slock[Tok(r)][Path(r)]
  <2>1. q \in Reqs /\ pc[q] \in Inner /\ Path(q) = Path(r)
    BY <1>2, ReqArgs DEF LockInv, HeldInside
  <2>2. plock[Path(r)] = r /\ plock[Path(r)] = q
    BY <1>2, <2>1 DEF LockInv, HoldsPath, Inner, Critical, Labels
  <2> QED
    BY <1>2, <2>1, <2>2 DEF Inner
<1> QED
  BY <1>1, <1>2 DEF SessionLockFree

\* A step inside a handler's body keeps the request inside its section and
\* touches neither the locks nor anybody's arguments.
BodyStep(r) ==
  /\ pc[r] \in Inner /\ pc'[r] \in Inner
  /\ \A q \in Reqs : q # r => pc'[q] = pc[q]
  /\ UNCHANGED <<plock, slock, call>>

(* A step inside a handler's body keeps the lock invariant.                *)
LEMMA BodyKeepsLocks ==
  ASSUME TypeOK, LockInv, NEW r \in Reqs, BodyStep(r)
  PROVE  LockInv'
<1>1. ASSUME NEW q \in Reqs PROVE HoldsPath(q)'
  BY DEF LockInv, HoldsPath, BodyStep, Inner
<1>2. ASSUME NEW t \in Tokens, NEW p \in Paths PROVE HeldInside(t, p)'
  BY DEF LockInv, HeldInside, BodyStep
<1> QED
  BY <1>1, <1>2 DEF LockInv

(* Every step of Body is one inside the critical section that leaves locks *)
(* and arguments alone.                                                    *)
LEMMA BodyIsBodyStep ==
  ASSUME TypeOK, NEW r \in Reqs, Body(r)
  PROVE  BodyStep(r)
<1> USE DEF lockVars, reqVars, counters, BodyStep, Inner, Critical, Labels
<1>1. ControlTypes
  BY DEF TypeOK
<1>2. CASE StatTarget(r)
  BY <1>1, <1>2 DEF ControlTypes, StatTarget, StatFound, StatDir, StatMissing,
                    Fails, Done, Abort, Continue
<1>3. CASE ReadFile(r)
  BY <1>1, <1>3 DEF ControlTypes, ReadFile, Fails, Done, Abort, Continue
<1>4. CASE Gate(r)
  BY <1>1, <1>4 DEF ControlTypes, Gate, Done, Continue
<1>5. CASE Restat(r)
  BY <1>1, <1>5 DEF ControlTypes, Restat, Fails, Done, Abort, Continue
<1>6. CASE ClaimName(r)
  BY <1>1, <1>6 DEF ControlTypes, ClaimName, Fails, Done, Abort, Continue
<1>7. CASE WriteTemp(r)
  BY <1>1, <1>7 DEF ControlTypes, WriteTemp, Fails, Done, Abort
<1>8. CASE Rename(r)
  BY <1>1, <1>8 DEF ControlTypes, Rename, Fails, Done, Abort, Continue
<1>9. CASE Unclaim(r)
  BY <1>1, <1>9 DEF ControlTypes, Unclaim, UnclaimEffect, Done
<1>10. CASE MarkSample(r) \/ MarkKnown(r)
  BY <1>1, <1>10 DEF ControlTypes, MarkSample, MarkKnown, Done
<1>11. CASE MkdirOnce(r)
  BY <1>1, <1>11 DEF ControlTypes, MkdirOnce, Fails, Done, Abort
<1> QED
  BY <1>2, <1>3, <1>4, <1>5, <1>6, <1>7, <1>8, <1>9, <1>10, <1>11 DEF Body

(* Every step keeps the lock invariant: the locking steps one by one, the  *)
(* body's steps together.                                                  *)
LEMMA LockInvNext == TypeOK /\ LockInv /\ [Next]_vars => LockInv'
<1> SUFFICES ASSUME TypeOK, LockInv, [Next]_vars PROVE LockInv'
  OBVIOUS
<1> USE DEF lockVars, reqVars, Critical, Inner, Labels, HoldsPath, HeldInside
<1>1. ControlTypes /\ LockTypes /\ LocalTypes
  BY DEF TypeOK
<1>2. ASSUME NEW r \in Reqs, NEW c \in Calls, Begin(r, c) PROVE LockInv'
  BY <1>1, <1>2 DEF LockInv, ControlTypes, LocalTypes, Begin
<1>3. ASSUME NEW r \in Reqs, LockContext(r) PROVE LockInv'
  <2>1. \A q \in Reqs : pc[q] \in Critical => Path(q) # Path(r)
    BY <1>3, ConstantsAssumption DEF LockInv, LockContext
  <2>2. ASSUME NEW q \in Reqs PROVE HoldsPath(q)'
    BY <1>1, <1>3, <2>1, ReqArgs
       DEF LockInv, ControlTypes, LockTypes, LockContext
  <2>3. ASSUME NEW t \in Tokens, NEW p \in Paths PROVE HeldInside(t, p)'
    BY <1>1, <1>3 DEF LockInv, ControlTypes, LockContext
  <2> QED
    BY <2>2, <2>3 DEF LockInv
<1>4. ASSUME NEW r \in Reqs, LockTimeout(r) PROVE LockInv'
  BY <1>1, <1>4 DEF LockInv, ControlTypes, LocalTypes, LockTimeout
<1>5. ASSUME NEW r \in Reqs, LockFile(r) PROVE LockInv'
  <2>1. ASSUME NEW q \in Reqs PROVE HoldsPath(q)'
    BY <1>1, <1>5 DEF LockInv, ControlTypes, LockFile
  <2>2. ASSUME NEW t \in Tokens, NEW p \in Paths PROVE HeldInside(t, p)'
    BY <1>1, <1>5, ReqArgs
       DEF LockInv, ControlTypes, LockTypes, LockFile
  <2> QED
    BY <2>1, <2>2 DEF LockInv
<1>6. ASSUME NEW r \in Reqs, Unlock(r) PROVE LockInv'
  <2>1. ASSUME NEW q \in Reqs PROVE HoldsPath(q)'
    BY <1>1, <1>6 DEF LockInv, ControlTypes, Unlock
  <2>2. ASSUME NEW t \in Tokens, NEW p \in Paths PROVE HeldInside(t, p)'
    BY <1>1, <1>6, ReqArgs
       DEF LockInv, ControlTypes, LockTypes, Unlock
  <2> QED
    BY <2>1, <2>2 DEF LockInv
<1>7. ASSUME NEW r \in Reqs, Release(r) PROVE LockInv'
  <2>1. \A q \in Reqs : q # r /\ pc[q] \in Critical => Path(q) # Path(r)
    BY <1>7 DEF LockInv, Release
  <2>2. ASSUME NEW q \in Reqs PROVE HoldsPath(q)'
    BY <1>1, <1>7, <2>1
       DEF LockInv, ControlTypes, LocalTypes, LockTypes, Release
  <2>3. ASSUME NEW t \in Tokens, NEW p \in Paths PROVE HeldInside(t, p)'
    BY <1>1, <1>7 DEF LockInv, ControlTypes, LocalTypes, Release
  <2> QED
    BY <2>2, <2>3 DEF LockInv
<1>8. ASSUME NEW r \in Reqs, Body(r) PROVE LockInv'
  BY <1>8, BodyIsBodyStep, BodyKeepsLocks
<1>9. CASE \/ \E p \in Paths, d \in Contents : OutsideWrite(p, d)
           \/ \E p \in Paths : OutsideRemove(p)
           \/ Tick
           \/ UNCHANGED vars
  BY <1>9 DEF LockInv, OutsideWrite, OutsideRemove, OutsideChange, Tick, vars
<1>10. CASE Crash
  BY <1>10 DEF LockInv, Crash
<1> QED
  BY <1>2, <1>3, <1>4, <1>5, <1>6, <1>7, <1>8, <1>9, <1>10
     DEF Next, Advance, Quiescent

(* No handler ever waits for a session lock, and no two requests are       *)
(* inside the critical section of one path, whatever the tokens, the       *)
(* requests and the order of their steps (session.go, PathLocks and        *)
(* LockFile).                                                              *)
THEOREM LocksCorrect == Spec => [](SessionLockFree /\ PathExclusion)
<1>1. TypeOK /\ LockInv /\ [Next]_vars => (TypeOK /\ LockInv)'
  BY TypeNext, LockInvNext
<1> QED
  BY <1>1, TypeInit, LockInvInit, LockInvImplies, PTL DEF Spec

-----------------------------------------------------------------------------
(* Failed calls.  Until a call changes its path the path holds what it     *)
(* would hold without the call; a claimed name would hold nothing, and     *)
(* removing the claim restores that.                                       *)

\* Only a write past its claim has the claimed flag set.
ClaimedLate(r) ==
  r \in claimed => pc[r] \in {"temp", "rename", "unclaim", "mark", "unlock",
                              "release"}
Claiming(r) == r \in claimed /\ pc[r] \in {"temp", "rename", "unclaim"}
\* The steps at which r has not changed its path, or has failed.
Untouched(r) ==
  \/ pc[r] \in {"stat", "readfile", "gate", "restat", "claim", "mkdir"}
  \/ pc[r] \in {"temp", "rename"} /\ r \notin claimed
  \/ pc[r] = "mark" /\ Op(r) = "read"
  \/ pc[r] = "unlock" /\ out[r] \notin {"ok", "claimleft"}
UntouchedInv(r) ==
  /\ ClaimedLate(r)
  /\ pc[r] = "unclaim" => r \in claimed
  /\ Claiming(r) => before[r] = Absent
  /\ Untouched(r) => Held(r) = before[r]
CallsInv == \A r \in Reqs : UntouchedInv(r)

(* Initially no call has begun, so there is nothing to keep.               *)
LEMMA CallsInit == Init => CallsInv
  BY DEF Init, CallsInv, UntouchedInv, ClaimedLate, Claiming, Untouched

\* A step of r that changes nothing another request sees of its own call.
OwnPath(r) ==
  /\ \A p \in Paths : p # Path(r) => disk'[p] = disk[p]
  /\ \A q \in Reqs : q # r => /\ pc'[q] = pc[q]
                              /\ out'[q] = out[q]
                              /\ (q \in claimed') = (q \in claimed)
  /\ UNCHANGED <<call, before>>

(* A step of one call keeps what is known of every other: the path lock    *)
(* keeps them at different paths.                                          *)
LEMMA OtherCallsKept ==
  ASSUME TypeOK, LockInv, CallsInv, NEW r \in Reqs, pc[r] \in Critical,
         OwnPath(r), NEW q \in Reqs, q # r
  PROVE  UntouchedInv(q)'
<1>1. UntouchedInv(q)
  BY DEF CallsInv
<1>2. /\ pc'[q] = pc[q] /\ out'[q] = out[q] /\ call' = call
      /\ before' = before /\ (q \in claimed') = (q \in claimed)
  BY DEF OwnPath
<1>3. Untouched(q) => pc[q] \in Critical
  BY DEF Untouched, Critical, Labels
<1>4. pc[q] \in Critical => Held(q)' = Held(q)
  <2> SUFFICES ASSUME pc[q] \in Critical PROVE disk'[Path(q)] = disk[Path(q)]
    BY <1>2
  <2>1. Path(q) # Path(r)
    BY DEF LockInv, HoldsPath
  <2>2. Path(q) \in Paths
    BY ReqArgs DEF Critical
  <2> QED
    BY <2>1, <2>2 DEF OwnPath
<1>5. Untouched(q)' = Untouched(q) /\ Claiming(q)' = Claiming(q)
      /\ ClaimedLate(q)' = ClaimedLate(q)
  BY <1>2 DEF Untouched, Claiming, ClaimedLate
<1> QED
  BY <1>1, <1>2, <1>3, <1>4, <1>5 DEF UntouchedInv

(* A step of the body that changes only its own path, and keeps what is    *)
(* known of its own call, keeps the invariant.                             *)
LEMMA CallStep ==
  ASSUME TypeOK, LockInv, CallsInv, NEW r \in Reqs, pc[r] \in Critical,
         OwnPath(r), UntouchedInv(r)'
  PROVE  CallsInv'
  BY OtherCallsKept DEF CallsInv

(* Every way a step can fail leaves an untouched path untouched, and sends *)
(* a call that holds a claim to the removal of it.                         *)
LEMMA FailKeeps ==
  ASSUME TypeOK, NEW r \in Reqs, UntouchedInv(r),
         pc[r] \in {"stat", "readfile", "restat", "claim", "temp", "rename",
                    "mkdir"},
         disk' = disk, UNCHANGED <<call, before, claimed>>,
         \/ Abort(r)
         \/ \E l \in Labels : /\ Fails(r, l)
                              /\ l \in {"stat", "restat", "claim"} =>
                                   r \notin claimed
                              /\ l \in {"stat", "restat", "claim", "temp"}
  PROVE  UntouchedInv(r)'
<1>1. /\ pc \in [Reqs -> Labels] /\ out \in [Reqs -> Outcomes]
  BY DEF TypeOK, ControlTypes
<1>2. CASE Abort(r)
  BY <1>1, <1>2
     DEF Abort, Done, UntouchedInv, Untouched, Claiming, ClaimedLate
<1>3. ASSUME NEW l \in {"stat", "restat", "claim", "temp"}, Fails(r, l),
             l \in {"stat", "restat", "claim"} => r \notin claimed
      PROVE  UntouchedInv(r)'
  <2>1. CASE Goto(r, l) /\ UNCHANGED out
    BY <1>1, <1>3, <2>1
       DEF UntouchedInv, Untouched, Claiming, ClaimedLate
  <2> QED
    BY <1>2, <1>3, <2>1 DEF Fails
<1> QED
  BY <1>2, <1>3

(* Every step of a handler's body keeps the invariant, when a reported     *)
(* backend error means that the call did not run.                          *)
LEMMA BodyKeepsCalls ==
  ASSUME TypeOK, LockInv, CallsInv, ~AmbiguousReplies,
         NEW r \in Reqs, Body(r)
  PROVE  CallsInv'
<1> USE DEF fsVars, lockVars, reqVars, counters
<1>0. UntouchedInv(r) /\ pc[r] \in Critical /\ Path(r) \in Paths
  <2>1. pc[r] \in Critical
    BY BodyIsBodyStep DEF BodyStep, Inner
  <2> QED
    BY <2>1, ReqArgs DEF CallsInv, Critical
<1>1. /\ pc \in [Reqs -> Labels] /\ out \in [Reqs -> Outcomes]
      /\ disk \in [Paths -> File \cup {Absent, Dir}]
      /\ r \in claimed => Op(r) = "write"
      /\ pc[r] = "readfile" => Op(r) \in {"read", "edit"}
      /\ pc[r] = "claim" => Op(r) = "write"
  BY DEF TypeOK, ControlTypes, DiskTypes, ArgsOK
<1>2. \A q \in Reqs : q # r => pc'[q] = pc[q]
  BY BodyIsBodyStep DEF BodyStep
<1>3. CASE StatTarget(r)
  <2>1. OwnPath(r)
    BY <1>1, <1>2, <1>3 DEF StatTarget, StatFound, StatDir, StatMissing,
       Fails, Abort, Done, Continue, OwnPath
  <2>2. UntouchedInv(r)'
    <3>1. CASE Fails(r, "stat")
      BY <1>0, <1>3, <3>1, FailKeeps
         DEF StatTarget, UntouchedInv, ClaimedLate, Labels
    <3>2. CASE StatFound(r) \/ StatDir(r) \/ StatMissing(r)
      BY <1>0, <1>1, <1>3, <3>2
         DEF StatTarget, StatFound, StatDir, StatMissing, Continue, Done,
             UntouchedInv, ClaimedLate, Untouched, Claiming
    <3> QED
      BY <1>3, <3>1, <3>2 DEF StatTarget
  <2> QED
    BY <1>0, <2>1, <2>2, CallStep
<1>4. CASE ReadFile(r)
  <2>1. OwnPath(r)
    BY <1>1, <1>2, <1>4 DEF ReadFile, Fails, Abort, Done, Continue, OwnPath
  <2>2. UntouchedInv(r)'
    <3>1. CASE Fails(r, "stat")
      BY <1>0, <1>4, <3>1, FailKeeps
         DEF ReadFile, UntouchedInv, ClaimedLate, Labels
    <3>2. CASE ~Fails(r, "stat")
      BY <1>0, <1>1, <1>4, <3>2
         DEF ReadFile, Continue, Done,
             UntouchedInv, ClaimedLate, Untouched, Claiming
    <3> QED
      BY <3>1, <3>2
  <2> QED
    BY <1>0, <2>1, <2>2, CallStep
<1>5. CASE Gate(r)
  <2>1. OwnPath(r)
    BY <1>1, <1>2, <1>5 DEF Gate, Done, Continue, OwnPath
  <2>2. UntouchedInv(r)'
    BY <1>0, <1>1, <1>5
       DEF Gate, Continue, Done, UntouchedInv, ClaimedLate, Untouched,
           Claiming
  <2> QED
    BY <1>0, <2>1, <2>2, CallStep
<1>6. CASE Restat(r)
  <2>1. OwnPath(r)
    BY <1>1, <1>2, <1>6 DEF Restat, Fails, Abort, Done, Continue, OwnPath
  <2>2. UntouchedInv(r)'
    <3>1. CASE Fails(r, "restat")
      BY <1>0, <1>6, <3>1, FailKeeps
         DEF Restat, UntouchedInv, ClaimedLate, Labels
    <3>2. CASE ~Fails(r, "restat")
      BY <1>0, <1>1, <1>6, <3>2
         DEF Restat, Continue, Done,
             UntouchedInv, ClaimedLate, Untouched, Claiming
    <3> QED
      BY <3>1, <3>2
  <2> QED
    BY <1>0, <2>1, <2>2, CallStep
<1>7. CASE ClaimName(r)
  <2>1. OwnPath(r)
    BY <1>0, <1>1, <1>2, <1>7
       DEF ClaimName, ClaimEffect, Fails, Abort, Done, Continue, OwnPath
  <2>2. UntouchedInv(r)'
    <3>1. CASE Fails(r, "claim") /\ UNCHANGED <<disk, claimed>>
      BY <1>0, <1>7, <3>1, FailKeeps
         DEF ClaimName, UntouchedInv, ClaimedLate, Labels
    <3>2. CASE ClaimEffect(r) /\ Continue(r, "temp")
               /\ claimed' = claimed \cup {r}
      BY <1>0, <1>1, <1>7, <3>2
         DEF ClaimName, ClaimEffect, Continue,
             UntouchedInv, ClaimedLate, Untouched, Claiming
    <3>3. CASE Done(r, "neverread") /\ UNCHANGED <<disk, claimed>>
      BY <1>0, <1>1, <1>7, <3>3
         DEF ClaimName, Done, UntouchedInv, ClaimedLate, Untouched, Claiming
    <3> QED
      BY <1>7, <3>1, <3>2, <3>3 DEF ClaimName
  <2> QED
    BY <1>0, <2>1, <2>2, CallStep
<1>8. CASE WriteTemp(r)
  <2>1. OwnPath(r)
    BY <1>1, <1>2, <1>8 DEF WriteTemp, Fails, Abort, Done, OwnPath
  <2>2. UntouchedInv(r)'
    <3>1. CASE Fails(r, "temp")
      BY <1>0, <1>8, <3>1, FailKeeps DEF WriteTemp, Labels
    <3>2. CASE ~Fails(r, "temp")
      BY <1>0, <1>1, <1>8, <3>2
         DEF WriteTemp, UntouchedInv, ClaimedLate, Untouched, Claiming
    <3> QED
      BY <3>1, <3>2
  <2> QED
    BY <1>0, <2>1, <2>2, CallStep
<1>9. CASE Rename(r)
  <2>1. OwnPath(r)
    BY <1>0, <1>1, <1>2, <1>9
       DEF Rename, RenameEffect, Fails, Abort, Done, Continue, OwnPath
  <2>2. UntouchedInv(r)'
    <3>1. CASE Fails(r, "temp") /\ UNCHANGED disk
      BY <1>0, <1>9, <3>1, FailKeeps DEF Rename, Labels
    <3>2. CASE Abort(r) /\ UNCHANGED disk
      BY <1>0, <1>9, <3>2, FailKeeps DEF Rename, Labels
    <3>3. CASE Continue(r, "mark")
      BY <1>0, <1>1, <1>9, <3>3, ReqArgs
         DEF Rename, Continue, UntouchedInv, ClaimedLate, Untouched,
             Claiming, TypeOK, ArgsOK, Writing
    <3> QED
      BY <1>9, <3>1, <3>2, <3>3 DEF Rename
  <2> QED
    BY <1>0, <2>1, <2>2, CallStep
<1>10. CASE Unclaim(r)
  <2>1. OwnPath(r)
    BY <1>0, <1>1, <1>2, <1>10 DEF Unclaim, UnclaimEffect, Done, OwnPath
  <2>2. UntouchedInv(r)'
    BY <1>0, <1>1, <1>10
       DEF Unclaim, UnclaimEffect, Done, UntouchedInv, ClaimedLate, Untouched, Claiming
  <2> QED
    BY <1>0, <2>1, <2>2, CallStep
<1>11. CASE MarkSample(r) \/ MarkKnown(r)
  <2>1. OwnPath(r)
    BY <1>1, <1>2, <1>11 DEF MarkSample, MarkKnown, Done, OwnPath
  <2>2. UntouchedInv(r)'
    BY <1>0, <1>1, <1>11
       DEF MarkSample, MarkKnown, Done, UntouchedInv, ClaimedLate, Untouched,
           Claiming
  <2> QED
    BY <1>0, <2>1, <2>2, CallStep
<1>12. CASE MkdirOnce(r)
  <2>1. OwnPath(r)
    BY <1>0, <1>1, <1>2, <1>12
       DEF MkdirOnce, MkdirEffect, Fails, Abort, Done, OwnPath
  <2>2. UntouchedInv(r)'
    <3>1. CASE Fails(r, "stat") /\ UNCHANGED disk
      BY <1>0, <1>12, <3>1, FailKeeps
         DEF MkdirOnce, UntouchedInv, ClaimedLate, Labels
    <3>2. ASSUME NEW o \in {"ok", "notdir"}, Done(r, o),
                 o = "ok" \/ UNCHANGED disk
          PROVE  UntouchedInv(r)'
      BY <1>0, <1>1, <1>12, <3>2
         DEF MkdirOnce, Done, UntouchedInv, ClaimedLate, Untouched, Claiming
    <3> QED
      BY <1>12, <3>1, <3>2 DEF MkdirOnce
  <2> QED
    BY <1>0, <2>1, <2>2, CallStep
<1> QED
  BY <1>3, <1>4, <1>5, <1>6, <1>7, <1>8, <1>9, <1>10, <1>11, <1>12 DEF Body

(* A change made outside the server is one the call itself did not make:   *)
(* `before' follows it, and it never meets a claim.                        *)
LEMMA OutsideKeepsCalls ==
  ASSUME TypeOK, CallsInv, ~ExposedWindows,
         NEW p \in Paths, NEW f, OutsideChange(p, f)
  PROVE  CallsInv'
<1> SUFFICES ASSUME NEW r \in Reqs PROVE UntouchedInv(r)'
  BY DEF CallsInv
<1> USE DEF OutsideChange, lockVars
<1>1. UntouchedInv(r) /\ disk \in [Paths -> File \cup {Absent, Dir}]
  BY DEF CallsInv, TypeOK, DiskTypes
<1>2. Untouched(r)' = Untouched(r) /\ Claiming(r)' = Claiming(r)
      /\ ClaimedLate(r)' = ClaimedLate(r)
  BY DEF Untouched, Claiming, ClaimedLate
<1>3. Claiming(r) => before'[r] = Absent
  BY <1>1 DEF UntouchedInv, Claiming, InWindow
<1>4. Untouched(r) => disk'[Path(r)] = before'[r]
  <2> SUFFICES ASSUME Untouched(r) PROVE disk'[Path(r)] = before'[r]
    OBVIOUS
  <2>1. pc[r] \in Inner
    BY DEF Untouched, Inner, Critical, Labels
  <2>2. disk[Path(r)] = before[r] /\ Path(r) \in Paths
    BY <1>1, <2>1, ReqArgs DEF UntouchedInv, Inner, Critical
  <2> QED
    BY <1>1, <2>1, <2>2
<1> QED
  BY <1>1, <1>2, <1>3, <1>4 DEF UntouchedInv

(* Every step keeps the invariant of the calls.                            *)
LEMMA CallsNext ==
  ASSUME TypeOK, LockInv, CallsInv, ~AmbiguousReplies, ~ExposedWindows,
         [Next]_vars
  PROVE  CallsInv'
<1> USE DEF fsVars, lockVars, reqVars, counters
<1>1. ControlTypes /\ LocalTypes /\ ArgsOK
  BY DEF TypeOK
<1>2. ASSUME NEW r \in Reqs, NEW c \in Calls, Begin(r, c) PROVE CallsInv'
  BY <1>1, <1>2
     DEF ControlTypes, LocalTypes, ArgsOK, Begin, CallsInv, UntouchedInv,
         ClaimedLate, Untouched, Claiming
<1>3. ASSUME NEW r \in Reqs, LockContext(r) PROVE CallsInv'
  BY <1>1, <1>3
     DEF ControlTypes, LockContext, CallsInv, UntouchedInv, ClaimedLate,
         Untouched, Claiming
<1>4. ASSUME NEW r \in Reqs, LockTimeout(r) PROVE CallsInv'
  BY <1>1, <1>4
     DEF ControlTypes, LocalTypes, LockTimeout, CallsInv, UntouchedInv,
         ClaimedLate, Untouched, Claiming
<1>5. ASSUME NEW r \in Reqs, LockFile(r) PROVE CallsInv'
  BY <1>1, <1>5
     DEF ControlTypes, LocalTypes, LockFile, CallsInv, UntouchedInv,
         ClaimedLate, Untouched, Claiming
<1>6. ASSUME NEW r \in Reqs, Unlock(r) PROVE CallsInv'
  BY <1>1, <1>6
     DEF ControlTypes, Unlock, CallsInv, UntouchedInv, ClaimedLate,
         Untouched, Claiming
<1>7. ASSUME NEW r \in Reqs, Release(r) PROVE CallsInv'
  BY <1>1, <1>7
     DEF ControlTypes, LocalTypes, Release, CallsInv, UntouchedInv,
         ClaimedLate, Untouched, Claiming
<1>8. ASSUME NEW r \in Reqs, Body(r) PROVE CallsInv'
  BY <1>8, BodyKeepsCalls
<1>9. ASSUME NEW p \in Paths, NEW d \in Contents, OutsideWrite(p, d)
      PROVE CallsInv'
  BY <1>9, OutsideKeepsCalls DEF OutsideWrite
<1>10. ASSUME NEW p \in Paths, OutsideRemove(p) PROVE CallsInv'
  BY <1>10, OutsideKeepsCalls DEF OutsideRemove
<1>11. CASE Tick \/ UNCHANGED vars
  BY <1>11
     DEF Tick, vars, CallsInv, UntouchedInv, ClaimedLate, Untouched, Claiming
<1>12. CASE Crash
  BY <1>12
     DEF Crash, CallsInv, UntouchedInv, ClaimedLate, Untouched, Claiming
<1> QED
  BY <1>2, <1>3, <1>4, <1>5, <1>6, <1>7, <1>8, <1>9, <1>10, <1>11, <1>12
     DEF Next, Advance, Quiescent

(* A call that reports an error has left its path as it would be without   *)
(* the call, whatever the other requests, the outsiders and the crashes    *)
(* do: write.go's placeholder is gone again and the original file was      *)
(* never touched.  It needs what the two constants name: no outsider       *)
(* inside an unfenced window, and no filesystem call that runs although it *)
(* reports a backend error.                                                *)
THEOREM FailedCallsCorrect ==
  ASSUME ~AmbiguousReplies, ~ExposedWindows
  PROVE  Spec => []FailedCallUntouched
<1>1. Init => TypeOK /\ LockInv /\ CallsInv
  BY TypeInit, LockInvInit, CallsInit
<1>2. TypeOK /\ LockInv /\ CallsInv /\ [Next]_vars
        => (TypeOK /\ LockInv /\ CallsInv)'
  BY TypeNext, LockInvNext, CallsNext
<1>3. CallsInv => FailedCallUntouched
  BY DEF CallsInv, UntouchedInv, Untouched, FailedCallUntouched
<1> QED
  BY <1>1, <1>2, <1>3, PTL DEF Spec
=============================================================================
