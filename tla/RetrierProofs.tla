----------------------------- MODULE RetrierProofs -----------------------------
(***************************************************************************)
(* Proofs about Retrier and the RootPool it drives, for every value of     *)
(* their constants: no operation runs on a closed Root, no Root is lost,   *)
(* no call retries more often than its schedule says, and no retry meets   *)
(* the Root that its last attempt failed on (internal/cifsops, rootpool.go *)
(* and cifsops.go).                                                        *)
(***************************************************************************)
EXTENDS Retrier, TLAPS

-----------------------------------------------------------------------------
(* The inductive invariant.                                                *)

\* The lease: an operation holds the read side, the announced writer is the
\* one in ReopenAll, and it replaces Roots with all readers gone.
LeaseInv ==
  \A w \in Workers :
    /\ at[w] = "op" => w \in readers
    /\ at[w] \in {"drain", "reopen"} <=> announced = w
    /\ at[w] = "reopen" => readers = {}

\* The Roots: there is a snapshot only during a reopen pass; no Root is
\* cached twice, waits twice, or does both; a directory that waits is not
\* cached.
RootsInv ==
  /\ (\A w \in Workers : at[w] # "reopen") => opened = NoRoots
  /\ \A d, e \in Dirs : d # e => /\ cache[d] = cache[e] => cache[d] = NoRoot
                                 /\ opened[d] = opened[e] => opened[d] = NoRoot
  /\ \A d, e \in Dirs : cache[d] = opened[e] => cache[d] = NoRoot
  /\ \A d \in Dirs : cache[d] = NoRoot \/ opened[d] = NoRoot

\* The Root that the last attempt failed on: none before the first failure,
\* out of the cache as soon as the reopen pass begins, gone after it.
FailedOK(w) ==
  /\ step[w] \in {"idle", "first"} => failed[w] = NoRoot
  /\ at[w] = "reopen" => failed[w] \notin CachedRoots
  /\ step[w] \in {"sleep", "op", "running"} =>
       failed[w] \notin CachedRoots \cup OpenedRoots
FailedInv == \A w \in Workers : FailedOK(w)

\* A retry is started only below the schedule.
BudgetInv ==
  \A w \in Workers : step[w] = "check" => job[w].attempt < job[w].budget

IInv == /\ TypeOK /\ LeaseInv /\ RootsInv /\ FailedInv /\ BudgetInv
        /\ NoClosedRootInUse /\ NoRootLost

-----------------------------------------------------------------------------
(* The steps of the pool, one at a time.                                   *)

\* What a worker may do in the pool's code.
PoolStep(w) ==
  \/ RLock(w) \/ OpReturns(w) \/ Lock(w) \/ Snapshot(w) \/ Unlock(w)
  \/ \E d \in Dirs : \/ Resolve(w, d) \/ ResolveFails(w, d)
                     \/ ReopenDir(w, d) \/ ReopenDirFails(w, d)

(* The job of an idle worker is a job.                                     *)
LEMMA IdleIsJob == Idle \in Jobs
<1>1. (CHOOSE d \in Dirs : TRUE) \in Dirs
  BY PoolAssumption
<1> QED
  BY <1>1 DEF Idle, NewJob, Jobs, Kinds, ColdMaxRetries

(* Every step of the program is a step of the pool or leaves it alone.     *)
LEMMA StepsOfPool ==
  ASSUME TypeOK, [Next]_vars
  PROVE  (\E w \in Workers : PoolStep(w)) \/ UNCHANGED poolVars
<1>1. ASSUME NEW w \in Workers, Run(w)
      PROVE  PoolStep(w) \/ UNCHANGED poolVars
  <2>1. CASE CheckFirst(w) \/ Check(w) \/ Sleep(w)
    BY <2>1 DEF CheckFirst, Check, Sleep
  <2>2. CASE StartOp(w) \/ EndReopen(w)
    BY <2>2 DEF StartOp, EndReopen, PoolStep
  <2>3. job[w].dir \in Dirs
    BY DEF TypeOK, Jobs
  <2>4. CASE ResolveRoot(w)
    BY <2>3, <2>4 DEF ResolveRoot, PoolStep
  <2>5. ASSUME NEW c \in Classes, EndOp(w, c) PROVE PoolStep(w)
    BY <2>5 DEF EndOp, PoolStep
  <2>6. ASSUME NEW c \in Classes, EndResolve(w, c) PROVE PoolStep(w)
    BY <2>3, <2>6 DEF EndResolve, PoolStep
  <2>7. CASE ReopenStep(w)
    BY <2>7 DEF ReopenStep, PoolStep
  <2> QED
    BY <1>1, <2>1, <2>2, <2>4, <2>5, <2>6, <2>7 DEF Run
<1>2. ASSUME NEW w \in Workers, StartReopen(w) PROVE PoolStep(w)
  BY <1>2 DEF StartReopen, PoolStep
<1>3. ASSUME NEW w \in Workers, NEW k \in Kinds, NEW d \in Dirs, Call(w, k, d)
      PROVE  UNCHANGED poolVars
  BY <1>3 DEF Call
<1>4. ASSUME NEW w \in Workers, Expire(w) PROVE UNCHANGED poolVars
  BY <1>4 DEF Expire
<1>5. CASE UNCHANGED vars
  BY <1>5 DEF vars
<1> QED
  BY <1>1, <1>2, <1>3, <1>4, <1>5 DEF Next

-----------------------------------------------------------------------------
(* Types.                                                                  *)

(* The variables of the pool keep their types.                             *)
LEMMA PoolTypes ==
  ASSUME PoolTypeOK, NEW w \in Workers, PoolStep(w),
         failed' \in [Workers -> Roots \cup {NoRoot}]
  PROVE  PoolTypeOK'
<1> USE DEF PoolTypeOK, leaseVars, At, Unused, NoRoots
<1>1. CASE RLock(w)
  BY <1>1 DEF RLock
<1>2. CASE OpReturns(w)
  BY <1>2 DEF OpReturns
<1>3. CASE Lock(w)
  BY <1>3 DEF Lock
<1>4. CASE Snapshot(w)
  BY <1>4 DEF Snapshot
<1>5. CASE Unlock(w)
  BY <1>5 DEF Unlock
<1>6. ASSUME NEW d \in Dirs, Resolve(w, d) PROVE PoolTypeOK'
  BY <1>6 DEF Resolve
<1>7. ASSUME NEW d \in Dirs, ResolveFails(w, d) PROVE PoolTypeOK'
  BY <1>7 DEF ResolveFails
<1>8. ASSUME NEW d \in Dirs, ReopenDir(w, d) PROVE PoolTypeOK'
  BY <1>8 DEF ReopenDir
<1>9. ASSUME NEW d \in Dirs, ReopenDirFails(w, d) PROVE PoolTypeOK'
  BY <1>9 DEF ReopenDirFails
<1> QED
  BY <1>1, <1>2, <1>3, <1>4, <1>5, <1>6, <1>7, <1>8, <1>9 DEF PoolStep

\* The variables of the retry loop, and the bound on its retries.
LoopOK ==
  /\ succeeded \in BOOLEAN
  /\ step \in [Workers -> {"idle", "first", "op", "running", "check", "hook",
                           "reopening", "sleep"}]
  /\ job \in [Workers -> Jobs]
  /\ failed \in [Workers -> Roots \cup {NoRoot}]
  /\ \A w \in Workers : /\ job[w].attempt <= job[w].budget
                        /\ step[w] = "check" => job[w].attempt < job[w].budget

(* Return leaves the loop in order.                                        *)
LEMMA ReturnKeeps ==
  ASSUME LoopOK, NEW w \in Workers, Return(w), succeeded' \in BOOLEAN
  PROVE  LoopOK'
<1>1. Idle.attempt = 0 /\ Idle.budget = 0
  BY DEF Idle, NewJob
<1> HIDE DEF Idle
<1> QED
  BY <1>1, IdleIsJob DEF LoopOK, Return, Goto

(* What do() makes of the outcome of an attempt: a retry only below the    *)
(* schedule, and the schedule is chosen once.                              *)
LEMMA OutcomeKeeps ==
  ASSUME LoopOK, PoolTypeOK, NEW w \in Workers, NEW c \in Classes,
         Outcome(w, c)
  PROVE  LoopOK'
<1>1. succeeded' \in BOOLEAN
  BY DEF LoopOK, Outcome
<1>2. CASE Return(w)
  BY <1>1, <1>2, ReturnKeeps
<1>3. CASE ~Return(w)
  <2> DEFINE b == Schedule(w)
  <2>1. /\ job[w].attempt < b
        /\ job' = [job EXCEPT ![w].budget = b]
        /\ failed' = [failed EXCEPT ![w] = root[w]]
        /\ step' = [step EXCEPT ![w] = "check"]
    BY <1>3 DEF Outcome, Retried, Goto
  <2>2. b \in {WarmRetries, ColdMaxRetries}
    BY DEF LoopOK, Jobs, Schedule
  <2> HIDE DEF b
  <2>3. root[w] \in Roots \cup {NoRoot}
    BY DEF PoolTypeOK
  <2>4. job'[w] \in Jobs /\ job'[w].attempt = job[w].attempt /\ job'[w].budget = b
    BY <2>1, <2>2 DEF LoopOK, Jobs
  <2>5. \A v \in Workers \ {w} : job'[v] = job[v] /\ step'[v] = step[v]
    BY <2>1 DEF LoopOK
  <2>6. job' \in [Workers -> Jobs]
    BY <2>1, <2>4 DEF LoopOK
  <2>7. \A v \in Workers :
          /\ job'[v].attempt <= job'[v].budget
          /\ step'[v] = "check" => job'[v].attempt < job'[v].budget
    <3>1. job'[w].attempt < job'[w].budget
      BY <2>1, <2>4
    <3>2. job'[w].attempt <= job'[w].budget
      BY <2>1, <2>2, <2>4 DEF LoopOK, Jobs, WarmRetries, ColdMaxRetries
    <3> QED
      BY <2>5, <3>1, <3>2 DEF LoopOK
  <2> QED
    BY <1>1, <2>1, <2>3, <2>6, <2>7 DEF LoopOK
<1> QED
  BY <1>2, <1>3

(* Every step keeps the loop in order.                                     *)
LEMMA LoopNext ==
  ASSUME LoopOK, PoolTypeOK, [Next]_vars
  PROVE  LoopOK'
<1>1. ASSUME NEW w \in Workers, NEW k \in Kinds, NEW d \in Dirs, Call(w, k, d)
      PROVE  LoopOK'
  <2> DEFINE j == NewJob(k, d)
  <2>1. j \in Jobs /\ j.attempt = 0 /\ j.budget = 0
    BY DEF NewJob, Jobs, ColdMaxRetries
  <2>2. \E l \in {"op", "first"} : step' = [step EXCEPT ![w] = l]
    BY <1>1 DEF Call, Goto
  <2>3. job' = [job EXCEPT ![w] = j] /\ UNCHANGED <<failed, succeeded>>
    BY <1>1 DEF Call
  <2> HIDE DEF j
  <2> QED
    BY <2>1, <2>2, <2>3 DEF LoopOK
<1>2. ASSUME NEW w \in Workers, Expire(w) PROVE LoopOK'
  <2>1. /\ job' = [job EXCEPT ![w].expired = TRUE]
        /\ UNCHANGED <<step, failed, succeeded>>
    BY <1>2 DEF Expire
  <2> DEFINE j == [job[w] EXCEPT !.expired = TRUE]
  <2>2. job \in [Workers -> Jobs] /\ job' = [job EXCEPT ![w] = j]
    BY <2>1 DEF LoopOK
  <2>3. j \in Jobs /\ j.attempt = job[w].attempt /\ j.budget = job[w].budget
    BY <2>2 DEF Jobs
  <2> HIDE DEF j
  <2>4. job' \in [Workers -> Jobs]
    BY <2>2, <2>3
  <2>5. \A v \in Workers : /\ job'[v].attempt = job[v].attempt
                           /\ job'[v].budget = job[v].budget
    BY <2>2, <2>3
  <2> QED
    BY <2>1, <2>4, <2>5 DEF LoopOK
<1>3. ASSUME NEW w \in Workers, Return(w), UNCHANGED succeeded PROVE LoopOK'
  BY <1>3, ReturnKeeps DEF LoopOK
<1>4. ASSUME NEW w \in Workers,
             NEW l \in {"op", "running", "hook", "reopening", "sleep"},
             Goto(w, l), UNCHANGED <<failed, succeeded, job>>
      PROVE  LoopOK'
  BY <1>4 DEF LoopOK, Goto
<1>5. ASSUME NEW w \in Workers, CheckFirst(w) PROVE LoopOK'
  BY <1>3, <1>4, <1>5 DEF CheckFirst
<1>6. ASSUME NEW w \in Workers, StartOp(w) PROVE LoopOK'
  BY <1>4, <1>6 DEF StartOp
<1>7. ASSUME NEW w \in Workers, ResolveRoot(w) PROVE LoopOK'
  BY <1>7 DEF ResolveRoot, LoopOK
<1>8. ASSUME NEW w \in Workers, NEW c \in Classes,
             EndOp(w, c) \/ EndResolve(w, c)
      PROVE  LoopOK'
  BY <1>8, OutcomeKeeps DEF EndOp, EndResolve
<1>9. ASSUME NEW w \in Workers, Check(w) PROVE LoopOK'
  <2>1. CASE Return(w)
    BY <1>3, <1>9, <2>1 DEF Check
  <2>2. CASE ~Return(w)
    <3>1. /\ step[w] = "check" /\ step' = [step EXCEPT ![w] = "hook"]
          /\ job' = [job EXCEPT ![w].attempt = job[w].attempt + 1]
          /\ UNCHANGED <<failed, succeeded>>
      BY <1>9, <2>2 DEF Check, Goto
    <3>2. job[w].attempt < job[w].budget
      BY <3>1 DEF LoopOK
    <3>3. /\ job[w] \in Jobs /\ job[w].attempt + 1 \in 0..ColdMaxRetries
          /\ job[w].attempt + 1 <= job[w].budget
      BY <3>2 DEF LoopOK, Jobs, WarmRetries, ColdMaxRetries
    <3>4. /\ job'[w] \in Jobs /\ job'[w].attempt = job[w].attempt + 1
          /\ job'[w].budget = job[w].budget /\ step'[w] = "hook"
          /\ \A v \in Workers \ {w} : job'[v] = job[v] /\ step'[v] = step[v]
      BY <3>1, <3>3 DEF LoopOK, Jobs
    <3>5. job' \in [Workers -> Jobs] /\ step' \in [Workers -> {"idle", "first",
            "op", "running", "check", "hook", "reopening", "sleep"}]
      BY <3>1, <3>4 DEF LoopOK
    <3> QED
      BY <3>1, <3>3, <3>4, <3>5 DEF LoopOK
  <2> QED
    BY <2>1, <2>2
<1>10. ASSUME NEW w \in Workers, StartReopen(w) PROVE LoopOK'
  BY <1>4, <1>10 DEF StartReopen
<1>11. ASSUME NEW w \in Workers, ReopenStep(w) PROVE LoopOK'
  <2>1. CASE UNCHANGED job
    BY <1>11, <2>1 DEF ReopenStep, LoopOK
  <2>2. CASE job' = [job EXCEPT ![w].broken = TRUE]
    <3> DEFINE j == [job[w] EXCEPT !.broken = TRUE]
    <3>1. job \in [Workers -> Jobs] /\ job' = [job EXCEPT ![w] = j]
      BY <2>2 DEF LoopOK
    <3>2. j \in Jobs /\ j.attempt = job[w].attempt /\ j.budget = job[w].budget
      BY <3>1 DEF Jobs
    <3> HIDE DEF j
    <3>3. job' \in [Workers -> Jobs]
      BY <3>1, <3>2
    <3>4. \A v \in Workers : /\ job'[v].attempt = job[v].attempt
                             /\ job'[v].budget = job[v].budget
      BY <3>1, <3>2
    <3> QED
      BY <1>11, <3>3, <3>4 DEF ReopenStep, LoopOK
  <2> QED
    BY <1>11, <2>1, <2>2 DEF ReopenStep
<1>12. ASSUME NEW w \in Workers, EndReopen(w) PROVE LoopOK'
  BY <1>3, <1>4, <1>12 DEF EndReopen
<1>13. ASSUME NEW w \in Workers, Sleep(w) PROVE LoopOK'
  BY <1>3, <1>4, <1>13 DEF Sleep
<1>14. CASE UNCHANGED vars
  BY <1>14 DEF vars, LoopOK
<1> QED
  BY <1>1, <1>2, <1>5, <1>6, <1>7, <1>8, <1>9, <1>10, <1>11, <1>12, <1>13,
     <1>14 DEF Next, Run

(* Every step keeps the types and the bound.                               *)
LEMMA TypeNext ==
  ASSUME TypeOK, BudgetInv, [Next]_vars
  PROVE  TypeOK' /\ BudgetInv'
<1>1. LoopOK
  BY DEF TypeOK, PoolTypeOK, BudgetInv, LoopOK
<1>2. LoopOK'
  BY <1>1, LoopNext DEF TypeOK
<1>3. PoolTypeOK'
  <2>1. failed' \in [Workers -> Roots \cup {NoRoot}]
    BY <1>2 DEF LoopOK
  <2>2. CASE UNCHANGED poolVars
    BY <2>1, <2>2 DEF TypeOK, PoolTypeOK, poolVars
  <2> QED
    BY <2>1, <2>2, StepsOfPool, PoolTypes DEF TypeOK
<1> QED
  BY <1>2, <1>3 DEF TypeOK, BudgetInv, LoopOK

-----------------------------------------------------------------------------
(* The pool.                                                               *)

PoolInv == PoolTypeOK /\ LeaseInv /\ RootsInv /\ NoClosedRootInUse /\ NoRootLost

(* The lease: readers enter only when no writer is announced, the writer   *)
(* takes the snapshot only when all have left, and its Unlock admits those *)
(* that queued, none of which has begun its operation.                     *)
LEMMA LeaseNext ==
  ASSUME PoolTypeOK, LeaseInv, NEW w \in Workers, PoolStep(w)
  PROVE  LeaseInv'
<1> USE PoolAssumption DEF PoolTypeOK, LeaseInv, At, leaseVars
<1>1. CASE RLock(w)
  BY <1>1 DEF RLock
<1>2. CASE OpReturns(w)
  BY <1>2 DEF OpReturns
<1>3. CASE Lock(w)
  BY <1>3 DEF Lock
<1>4. CASE Snapshot(w)
  BY <1>4 DEF Snapshot
<1>5. CASE Unlock(w)
  BY <1>5 DEF Unlock
<1>6. ASSUME NEW d \in Dirs, Resolve(w, d) PROVE LeaseInv'
  BY <1>6 DEF Resolve
<1>7. ASSUME NEW d \in Dirs, ResolveFails(w, d) PROVE LeaseInv'
  BY <1>7 DEF ResolveFails
<1>8. ASSUME NEW d \in Dirs, ReopenDir(w, d) \/ ReopenDirFails(w, d)
      PROVE  LeaseInv'
  BY <1>8 DEF ReopenDir, ReopenDirFails
<1> QED
  BY <1>1, <1>2, <1>3, <1>4, <1>5, <1>6, <1>7, <1>8 DEF PoolStep

(* While a worker is about to take its snapshot, or has the read side, no  *)
(* snapshot of another one is there.                                       *)
LEMMA NoSnapshot ==
  ASSUME LeaseInv, RootsInv, NEW w \in Workers,
         at[w] = "drain" \/ w \in readers
  PROVE  opened = NoRoots
  BY DEF LeaseInv, RootsInv

\* What is left of PoolInv when a step leaves the cache and the snapshot
\* alone.
RootsSame == UNCHANGED <<cache, live, opened>>

(* A step that touches no Root and starts no operation keeps the Roots,    *)
(* when a snapshot that is there keeps its writer.                         *)
LEMMA RootsFrame ==
  ASSUME PoolInv, RootsSame,
         opened # NoRoots => \E w \in Workers : at'[w] = "reopen",
         \A w \in Workers : at'[w] = "op" => at[w] = "op" /\ root'[w] = root[w]
  PROVE  RootsInv' /\ NoClosedRootInUse' /\ NoRootLost'
<1> USE DEF PoolInv, RootsSame
<1>1. RootsInv'
  BY DEF RootsInv, NoRoots
<1>2. NoClosedRootInUse'
  BY DEF NoClosedRootInUse
<1>3. NoRootLost'
  BY DEF NoRootLost, CachedRoots, OpenedRoots
<1> QED
  BY <1>1, <1>2, <1>3

(* resolve: the Root is cached, hence open, or it is a new one.            *)
LEMMA ResolveKeeps ==
  ASSUME PoolInv, NEW w \in Workers, NEW d \in Dirs, Resolve(w, d)
  PROVE  RootsInv' /\ NoClosedRootInUse' /\ NoRootLost'
<1>1. opened = NoRoots /\ at[w] = "resolve"
  BY NoSnapshot DEF PoolInv, Resolve
<1>2. /\ at' = [at EXCEPT ![w] = "op"] /\ opened' = opened
      /\ at \in [Workers -> {"out", "resolve", "op", "drain", "reopen"}]
      /\ root \in [Workers -> Roots \cup {NoRoot}]
      /\ cache \in [Dirs -> Roots \cup {NoRoot}]
  BY DEF PoolInv, PoolTypeOK, Resolve, At
<1>3. OpenedRoots = {} /\ OpenedRoots' = {}
  BY <1>1, <1>2 DEF OpenedRoots, NoRoots
<1>4. CASE /\ cache[d] # NoRoot /\ root' = [root EXCEPT ![w] = cache[d]]
           /\ UNCHANGED <<cache, live>>
  <2>1. cache[d] \in live
    BY <1>4 DEF PoolInv, NoRootLost, CachedRoots
  <2>2. RootsInv'
    BY <1>1, <1>2, <1>4 DEF PoolInv, RootsInv, NoRoots
  <2>3. NoClosedRootInUse'
    BY <1>2, <1>4, <2>1 DEF PoolInv, NoClosedRootInUse
  <2>4. NoRootLost'
    BY <1>2, <1>4 DEF PoolInv, NoRootLost, CachedRoots, OpenedRoots
  <2> QED
    BY <2>2, <2>3, <2>4
<1>5. ASSUME cache[d] = NoRoot, NEW h \in Unused,
             root' = [root EXCEPT ![w] = h], cache' = [cache EXCEPT ![d] = h],
             live' = live \cup {h}
      PROVE  RootsInv' /\ NoClosedRootInUse' /\ NoRootLost'
  <2>1. h \in Roots /\ h # NoRoot /\ \A e \in Dirs : cache[e] # h
    BY <1>2, PoolAssumption DEF Unused, CachedRoots
  <2>2. cache'[d] = h /\ \A e \in Dirs \ {d} : cache'[e] = cache[e]
    BY <1>2, <1>5
  <2>3. RootsInv'
    BY <1>1, <1>2, <2>1, <2>2 DEF PoolInv, RootsInv, NoRoots
  <2>4. NoClosedRootInUse'
    BY <1>2, <1>5 DEF PoolInv, NoClosedRootInUse
  <2>5. CachedRoots' = CachedRoots \cup {h}
    BY <1>5, <2>1, <2>2 DEF CachedRoots
  <2> QED
    BY <1>3, <1>5, <2>3, <2>4, <2>5 DEF PoolInv, NoRootLost
<1> QED
  BY <1>4, <1>5 DEF Resolve

(* The snapshot moves the whole cache.                                     *)
LEMMA SnapshotKeeps ==
  ASSUME PoolInv, NEW w \in Workers, Snapshot(w)
  PROVE  RootsInv' /\ NoClosedRootInUse' /\ NoRootLost'
<1>1. opened = NoRoots
  BY NoSnapshot DEF PoolInv, Snapshot
<1>2. /\ at' = [at EXCEPT ![w] = "reopen"] /\ opened' = cache
      /\ cache' = NoRoots /\ UNCHANGED <<live, root>>
      /\ at \in [Workers -> {"out", "resolve", "op", "drain", "reopen"}]
      /\ cache \in [Dirs -> Roots \cup {NoRoot}]
  BY DEF PoolInv, PoolTypeOK, Snapshot, At
<1>3. RootsInv'
  <2>1. at'[w] = "reopen"
    BY <1>2
  <2> QED
    BY <1>2, <2>1 DEF PoolInv, RootsInv, NoRoots
<1>4. NoClosedRootInUse'
  BY <1>2 DEF PoolInv, NoClosedRootInUse
<1>5. /\ OpenedRoots' = CachedRoots /\ CachedRoots' = {} /\ OpenedRoots = {}
  BY <1>1, <1>2 DEF OpenedRoots, CachedRoots, NoRoots
<1> QED
  BY <1>2, <1>3, <1>4, <1>5 DEF PoolInv, NoRootLost

(* Replacing the Root of one directory closes one that nobody uses and     *)
(* that no other directory has.                                            *)
LEMMA ReopenKeeps ==
  ASSUME PoolInv, NEW w \in Workers, NEW d \in Dirs,
         ReopenDir(w, d) \/ ReopenDirFails(w, d)
  PROVE  RootsInv' /\ NoClosedRootInUse' /\ NoRootLost'
<1>1. /\ at[w] = "reopen" /\ opened[d] # NoRoot /\ UNCHANGED <<at, root>>
      /\ opened' = [opened EXCEPT ![d] = NoRoot]
      /\ opened \in [Dirs -> Roots \cup {NoRoot}]
      /\ cache \in [Dirs -> Roots \cup {NoRoot}]
  BY DEF PoolInv, PoolTypeOK, ReopenDir, ReopenDirFails
<1>2. \A v \in Workers : at[v] # "op"
  BY <1>1 DEF PoolInv, LeaseInv
<1>3. NoClosedRootInUse'
  BY <1>1, <1>2 DEF NoClosedRootInUse
<1>4. cache[d] = NoRoot
  BY <1>1 DEF PoolInv, RootsInv
<1>5. OpenedRoots' = OpenedRoots \ {opened[d]}
  BY <1>1 DEF PoolInv, RootsInv, OpenedRoots
<1>6. opened[d] \in OpenedRoots /\ opened[d] \notin CachedRoots
  BY <1>1 DEF PoolInv, RootsInv, OpenedRoots, CachedRoots
<1>7. ASSUME NEW h \in Unused, live' = (live \ {opened[d]}) \cup {h},
             cache' = [cache EXCEPT ![d] = h]
      PROVE  RootsInv' /\ NoRootLost'
  <2>1. /\ h \in Roots /\ h # NoRoot
        /\ \A e \in Dirs : cache[e] # h /\ opened[e] # h
    BY <1>1, PoolAssumption DEF Unused, CachedRoots, OpenedRoots
  <2>2. cache'[d] = h /\ \A e \in Dirs \ {d} : cache'[e] = cache[e]
    BY <1>1, <1>7
  <2>3. opened'[d] = NoRoot /\ \A e \in Dirs \ {d} : opened'[e] = opened[e]
    BY <1>1
  <2>4. RootsInv'
    BY <1>1, <2>1, <2>2, <2>3 DEF PoolInv, RootsInv
  <2>5. CachedRoots' = CachedRoots \cup {h}
    BY <1>4, <1>7, <2>1, <2>2 DEF CachedRoots
  <2> QED
    BY <1>5, <1>6, <1>7, <2>4, <2>5 DEF PoolInv, NoRootLost
<1>8. CASE live' = live \ {opened[d]} /\ UNCHANGED cache
  <2>1. opened'[d] = NoRoot /\ \A e \in Dirs \ {d} : opened'[e] = opened[e]
    BY <1>1
  <2>2. RootsInv'
    BY <1>1, <1>8, <2>1 DEF PoolInv, RootsInv
  <2>3. CachedRoots' = CachedRoots
    BY <1>8 DEF CachedRoots
  <2>4. live = CachedRoots \cup OpenedRoots
    BY DEF PoolInv, NoRootLost
  <2>5. NoRootLost'
    BY <1>5, <1>6, <1>8, <2>3, <2>4 DEF NoRootLost
  <2> QED
    BY <1>3, <2>2, <2>5
<1> QED
  BY <1>3, <1>7, <1>8 DEF ReopenDir, ReopenDirFails

(* Every step keeps the pool.                                              *)
LEMMA PoolNext ==
  ASSUME PoolInv, PoolTypeOK',
         (\E w \in Workers : PoolStep(w)) \/ UNCHANGED poolVars
  PROVE  PoolInv'
<1>1. CASE UNCHANGED poolVars
  BY <1>1 DEF PoolInv, poolVars, LeaseInv, RootsInv, NoClosedRootInUse,
              NoRootLost, CachedRoots, OpenedRoots, NoRoots
<1>2. ASSUME NEW w \in Workers, PoolStep(w) PROVE PoolInv'
  <2>1. LeaseInv'
    BY <1>2, LeaseNext DEF PoolInv
  <2>2. CASE \/ RLock(w) \/ OpReturns(w) \/ Lock(w) \/ Unlock(w)
             \/ \E d \in Dirs : ResolveFails(w, d)
    <3>1. /\ RootsSame
          /\ at[w] # "reopen" \/ opened = NoRoots
          /\ \E l \in {"out", "resolve", "drain"} : at' = [at EXCEPT ![w] = l]
          /\ \A v \in Workers \ {w} : root'[v] = root[v]
      BY <2>2 DEF PoolInv, PoolTypeOK, RootsSame, RLock, OpReturns, Lock, Unlock,
                  ResolveFails, At
    <3>2. opened # NoRoots => \E v \in Workers : at'[v] = "reopen"
      BY <3>1 DEF PoolInv, PoolTypeOK, RootsInv
    <3>3. \A v \in Workers : at'[v] = "op" => at[v] = "op" /\ root'[v] = root[v]
      BY <3>1 DEF PoolInv, PoolTypeOK
    <3> QED
      BY <2>1, <3>1, <3>2, <3>3, RootsFrame DEF PoolInv
  <2>3. CASE Snapshot(w)
    BY <2>1, <2>3, SnapshotKeeps DEF PoolInv
  <2>4. ASSUME NEW d \in Dirs, Resolve(w, d) PROVE PoolInv'
    BY <2>1, <2>4, ResolveKeeps DEF PoolInv
  <2>5. ASSUME NEW d \in Dirs, ReopenDir(w, d) \/ ReopenDirFails(w, d)
        PROVE  PoolInv'
    BY <2>1, <2>5, ReopenKeeps DEF PoolInv
  <2> QED
    BY <1>2, <2>2, <2>3, <2>4, <2>5 DEF PoolStep
<1> QED
  BY <1>1, <1>2

-----------------------------------------------------------------------------
(* The Root a retry must not meet again.                                   *)

(* A step of the pool caches only Roots that were cached, or that nobody   *)
(* refers to, and no Root comes to wait that was not cached.               *)
LEMMA NewRootsUnused ==
  ASSUME PoolTypeOK, NEW w \in Workers, PoolStep(w)
  PROVE  /\ CachedRoots' \subseteq CachedRoots \cup Unused
         /\ OpenedRoots' \subseteq CachedRoots \cup OpenedRoots
         /\ at[w] # "reopen" /\ at'[w] = "reopen" => CachedRoots' = {}
<1> USE DEF PoolTypeOK, At, leaseVars, CachedRoots, OpenedRoots
<1>1. CASE RLock(w) \/ OpReturns(w) \/ Lock(w) \/ Unlock(w)
           \/ \E d \in Dirs : ResolveFails(w, d)
  BY <1>1 DEF RLock, OpReturns, Lock, Unlock, ResolveFails
<1>2. CASE Snapshot(w)
  BY <1>2 DEF Snapshot, NoRoots
<1>3. ASSUME NEW d \in Dirs, ReopenDir(w, d) \/ ReopenDirFails(w, d)
      PROVE  /\ CachedRoots' \subseteq CachedRoots \cup Unused
             /\ OpenedRoots' \subseteq CachedRoots \cup OpenedRoots
             /\ at'[w] = at[w]
  BY <1>3 DEF ReopenDir, ReopenDirFails
<1>4. ASSUME NEW d \in Dirs, Resolve(w, d)
      PROVE  /\ CachedRoots' \subseteq CachedRoots \cup Unused
             /\ OpenedRoots' \subseteq CachedRoots \cup OpenedRoots
             /\ at'[w] # "reopen"
  BY <1>4 DEF Resolve
<1> QED
  BY <1>1, <1>2, <1>3, <1>4 DEF PoolStep

(* A worker that has forgotten its Root is in order.                       *)
LEMMA ForgottenOK ==
  ASSUME NEW w \in Workers, failed'[w] = NoRoot
  PROVE  FailedOK(w)'
  BY DEF FailedOK, CachedRoots, OpenedRoots

(* So is one that only returns.                                            *)
LEMMA ReturnForgets ==
  ASSUME TypeOK, NEW w \in Workers, Return(w)
  PROVE  FailedOK(w)'
<1>1. failed'[w] = NoRoot
  BY DEF TypeOK, PoolTypeOK, Return
<1> QED
  BY <1>1, ForgottenOK

(* The steps of the other workers do not bring a failed Root back: what    *)
(* they cache is new.                                                      *)
LEMMA OthersKeepFailed ==
  ASSUME TypeOK, NEW w \in Workers, NEW v \in Workers, FailedOK(v),
         PoolStep(w) \/ UNCHANGED poolVars,
         step'[v] = step[v], failed'[v] = failed[v], at'[v] = at[v]
  PROVE  FailedOK(v)'
<1>1. /\ CachedRoots' \subseteq CachedRoots \cup Unused
      /\ OpenedRoots' \subseteq CachedRoots \cup OpenedRoots
  BY NewRootsUnused DEF TypeOK, poolVars, CachedRoots, OpenedRoots
<1>2. failed[v] \notin Unused
  BY DEF Unused
<1> QED
  BY <1>1, <1>2 DEF FailedOK

(* A step of a worker leaves the others' program counters alone.           *)
LEMMA OthersAlone ==
  ASSUME TypeOK, NEW w \in Workers, NEW v \in Workers, v # w,
         \/ \E k \in Kinds, d \in Dirs : Call(w, k, d)
         \/ Expire(w)
         \/ StartReopen(w)
         \/ Run(w)
  PROVE  /\ step'[v] = step[v] /\ failed'[v] = failed[v] /\ at'[v] = at[v]
         /\ PoolStep(w) \/ UNCHANGED poolVars
<1> USE DEF TypeOK, PoolTypeOK, Goto, Return, poolVars, At
<1>1. CASE (\E k \in Kinds, d \in Dirs : Call(w, k, d)) \/ Expire(w)
  BY <1>1 DEF Call, Expire
<1>2. CASE StartReopen(w)
  BY <1>2 DEF StartReopen, Lock, PoolStep
<1>3. CASE CheckFirst(w) \/ Check(w) \/ Sleep(w)
  BY <1>3 DEF CheckFirst, Check, Sleep
<1>4. CASE StartOp(w)
  BY <1>4 DEF StartOp, RLock, PoolStep
<1>5. job[w].dir \in Dirs
  BY DEF Jobs
<1>6. CASE ResolveRoot(w)
  BY <1>5, <1>6 DEF ResolveRoot, Resolve, PoolStep
<1>7. ASSUME NEW c \in Classes, EndOp(w, c) \/ EndResolve(w, c)
      PROVE  /\ step'[v] = step[v] /\ failed'[v] = failed[v] /\ at'[v] = at[v]
             /\ PoolStep(w)
  <2>1. step'[v] = step[v] /\ failed'[v] = failed[v]
    BY <1>7 DEF EndOp, EndResolve, Outcome
  <2>2. at'[v] = at[v]
    BY <1>7 DEF EndOp, EndResolve, OpReturns, ResolveFails
  <2>3. PoolStep(w)
    BY <1>5, <1>7 DEF EndOp, EndResolve, PoolStep
  <2> QED
    BY <2>1, <2>2, <2>3
<1>8. CASE ReopenStep(w)
  BY <1>8 DEF ReopenStep, Snapshot, ReopenDir, ReopenDirFails, PoolStep
<1>9. CASE EndReopen(w)
  BY <1>9 DEF EndReopen, Unlock, PoolStep
<1> QED
  BY <1>1, <1>2, <1>3, <1>4, <1>6, <1>7, <1>8, <1>9 DEF Run

(* Every step of a worker keeps its own Root out of the cache once its     *)
(* reopen pass has begun.                                                  *)
LEMMA OwnFailed ==
  ASSUME TypeOK, NEW w \in Workers, FailedOK(w),
         \/ \E k \in Kinds, d \in Dirs : Call(w, k, d)
         \/ Expire(w)
         \/ StartReopen(w)
         \/ Run(w)
  PROVE  FailedOK(w)'
<1>0. step \in [Workers -> {"idle", "first", "op", "running", "check", "hook",
                           "reopening", "sleep"}]
      /\ failed \in [Workers -> Roots \cup {NoRoot}]
      /\ at \in [Workers -> {"out", "resolve", "op", "drain", "reopen"}]
  BY DEF TypeOK, PoolTypeOK
<1>1. ASSUME NEW k \in Kinds, NEW d \in Dirs, Call(w, k, d) PROVE FailedOK(w)'
  <2>1. failed'[w] = NoRoot
    BY <1>1 DEF Call, FailedOK
  <2> QED
    BY <2>1, ForgottenOK
<1>2. ASSUME UNCHANGED <<cache, opened, at, failed>>,
             \/ step'[w] \in {step[w], "check", "hook"}
             \/ step[w] = "sleep" /\ step'[w] = "op"
      PROVE  FailedOK(w)'
  BY <1>2 DEF FailedOK, CachedRoots, OpenedRoots
<1>3. CASE Expire(w)
  BY <1>2, <1>3 DEF Expire, poolVars
<1>4. CASE Return(w)
  BY <1>4, ReturnForgets
<1>5. CASE CheckFirst(w)
  <2>1. CASE failed' = failed
    BY <1>5, <2>1, ForgottenOK DEF CheckFirst, FailedOK
  <2> QED
    BY <1>4, <1>5, <2>1 DEF CheckFirst
<1>6. CASE Check(w) \/ Sleep(w)
  BY <1>0, <1>2, <1>4, <1>6 DEF Check, Sleep, Goto, poolVars
<1>7. CASE StartReopen(w)
  BY <1>0, <1>7 DEF StartReopen, Lock, At, Goto, FailedOK
<1>8. CASE StartOp(w)
  BY <1>0, <1>8 DEF StartOp, RLock, At, Goto, FailedOK, CachedRoots, OpenedRoots
<1>9. CASE ResolveRoot(w)
  BY <1>0, <1>9, ForgottenOK DEF ResolveRoot
<1>10. ASSUME NEW c \in Classes, EndOp(w, c) \/ EndResolve(w, c)
      PROVE  FailedOK(w)'
  <2>1. CASE ~Return(w)
    <3>1. step'[w] = "check" /\ at'[w] = "out"
      BY <1>0, <1>10, <2>1
         DEF EndOp, EndResolve, Outcome, OpReturns, ResolveFails, Goto, At
    <3> QED
      BY <3>1 DEF FailedOK
  <2> QED
    BY <1>4, <2>1
<1>11. CASE ReopenStep(w)
  <2>1. /\ step'[w] = "reopening" /\ failed' = failed /\ at'[w] = "reopen"
        /\ at[w] \in {"drain", "reopen"}
    BY <1>0, <1>11
       DEF ReopenStep, Snapshot, ReopenDir, ReopenDirFails, At
  <2>2. PoolStep(w)
    BY <1>11 DEF ReopenStep, PoolStep
  <2>3. failed[w] \notin CachedRoots'
    BY <2>1, <2>2, NewRootsUnused DEF TypeOK, FailedOK, Unused
  <2> QED
    BY <2>1, <2>3 DEF FailedOK
<1>12. CASE EndReopen(w)
  <2>1. CASE ~Return(w)
    <3>1. /\ step'[w] = "sleep" /\ failed' = failed /\ at'[w] = "out"
          /\ at[w] = "reopen" /\ opened = NoRoots
          /\ UNCHANGED <<cache, opened>>
      BY <1>0, <1>12, <2>1 DEF EndReopen, Unlock, Goto, At
    <3>2. OpenedRoots' = {} /\ CachedRoots' = CachedRoots
      BY <3>1 DEF OpenedRoots, CachedRoots, NoRoots
    <3> QED
      BY <3>1, <3>2 DEF FailedOK
  <2> QED
    BY <1>4, <2>1
<1> QED
  BY <1>1, <1>3, <1>5, <1>6, <1>7, <1>8, <1>9, <1>10, <1>11, <1>12 DEF Run

-----------------------------------------------------------------------------
(* The invariant and what follows from it.                                 *)

(* Every step keeps the failed Roots apart.                                *)
LEMMA FailedNext ==
  ASSUME TypeOK, FailedInv, [Next]_vars
  PROVE  FailedInv'
<1>1. ASSUME NEW v \in Workers, NEW w \in Workers,
             \/ \E k \in Kinds, d \in Dirs : Call(w, k, d)
             \/ Expire(w)
             \/ StartReopen(w)
             \/ Run(w)
      PROVE  FailedOK(v)'
  <2>1. CASE v = w
    BY <1>1, <2>1, OwnFailed DEF FailedInv
  <2>2. CASE v # w
    BY <1>1, <2>2, OthersAlone, OthersKeepFailed DEF FailedInv
  <2> QED
    BY <2>1, <2>2
<1>2. ASSUME NEW v \in Workers, UNCHANGED vars PROVE FailedOK(v)'
  BY <1>2 DEF vars, poolVars, FailedInv, FailedOK, CachedRoots, OpenedRoots
<1> QED
  BY <1>1, <1>2 DEF FailedInv, Next

(* It holds initially.                                                     *)
LEMMA IInvInit == Init => IInv
<1> SUFFICES ASSUME Init PROVE IInv
  OBVIOUS
<1> USE PoolAssumption DEF Init, PoolInit
<1>1. Idle.attempt = 0 /\ Idle.budget = 0
  BY DEF Idle, NewJob
<1>2. TypeOK
  <2>1. PoolTypeOK
    BY DEF PoolTypeOK, NoRoots
  <2>2. job \in [Workers -> Jobs] /\ \A w \in Workers : job[w] = Idle
    BY IdleIsJob
  <2>3. \A w \in Workers : job[w].attempt <= job[w].budget
    BY <1>1, <2>2
  <2> QED
    BY <2>1, <2>2, <2>3 DEF TypeOK
<1>3. LeaseInv /\ RootsInv /\ NoClosedRootInUse /\ BudgetInv
  BY DEF LeaseInv, RootsInv, NoRoots, NoClosedRootInUse, BudgetInv
<1>4. CachedRoots = {} /\ OpenedRoots = {}
  BY DEF CachedRoots, OpenedRoots, NoRoots
<1>5. FailedInv /\ NoRootLost
  BY <1>4 DEF FailedInv, FailedOK, NoRootLost
<1> QED
  BY <1>2, <1>3, <1>5 DEF IInv

(* Every step keeps it.                                                    *)
LEMMA IInvNext == IInv /\ [Next]_vars => IInv'
<1> SUFFICES ASSUME IInv, [Next]_vars PROVE IInv'
  OBVIOUS
<1>1. TypeOK' /\ BudgetInv'
  BY TypeNext DEF IInv
<1>2. PoolInv /\ PoolTypeOK'
  BY <1>1 DEF IInv, PoolInv, TypeOK
<1>3. PoolInv'
  BY <1>2, StepsOfPool, PoolNext DEF IInv
<1>4. FailedInv'
  BY FailedNext DEF IInv
<1> QED
  BY <1>1, <1>3, <1>4 DEF IInv, PoolInv

(* The invariant holds in every reachable state.                           *)
THEOREM Invariant == Spec => []IInv
<1> QED
  BY IInvInit, IInvNext, PTL DEF Spec

(* Every variable has its type, and no call starts more retries than its   *)
(* schedule has (cifsops.go, do).                                          *)
THEOREM TypeCorrect == Spec => []TypeOK
<1>1. ASSUME IInv PROVE TypeOK
  BY <1>1 DEF IInv
<1> QED
  BY <1>1, Invariant, PTL

(* No operation runs on a closed Root, however many workers retry, probe   *)
(* and reopen (rootpool.go, WithRoot and ReopenAll).                       *)
THEOREM InUseCorrect == Spec => []NoClosedRootInUse
<1>1. ASSUME IInv PROVE NoClosedRootInUse
  BY <1>1 DEF IInv
<1> QED
  BY <1>1, Invariant, PTL

(* The open Roots are exactly those that are cached or wait to be          *)
(* replaced: none is leaked, none is cached closed (rootpool.go, resolve   *)
(* and ReopenAll).                                                         *)
THEOREM RootsCorrect == Spec => []NoRootLost
<1>1. ASSUME IInv PROVE NoRootLost
  BY <1>1 DEF IInv
<1> QED
  BY <1>1, Invariant, PTL

(* A retry never uses the Root that its previous attempt failed on         *)
(* (cifsops.go, do; server.go, OnRetry).                                   *)
THEOREM RetryCorrect == Spec => RetryUsesNewRoot
<1>1. ASSUME IInv, Next, NEW w \in Workers, at[w] = "resolve", at'[w] = "op"
      PROVE  root'[w] # failed[w]
  <2>1. PICK v \in Workers : \/ \E k \in Kinds, d \in Dirs : Call(v, k, d)
                            \/ Expire(v)
                            \/ StartReopen(v)
                            \/ Run(v)
    BY <1>1 DEF Next
  <2>2. v = w
    BY <1>1, <2>1, OthersAlone DEF IInv
  <2>3. at \in [Workers -> {"out", "resolve", "op", "drain", "reopen"}]
    BY <1>1 DEF IInv, TypeOK, PoolTypeOK
  <2>4. ResolveRoot(w)
    BY <1>1, <2>1, <2>2, <2>3
       DEF Call, Expire, StartReopen, Lock, Run, CheckFirst, StartOp, RLock,
           EndOp, OpReturns, EndResolve, ResolveFails, Check, ReopenStep,
           Snapshot, ReopenDir, ReopenDirFails, EndReopen, Unlock, Sleep, At,
           poolVars
  <2>5. failed[w] \notin CachedRoots \cup OpenedRoots
    BY <1>1, <2>4 DEF IInv, FailedInv, FailedOK, ResolveRoot
  <2>6. /\ job[w].dir \in Dirs /\ root \in [Workers -> Roots \cup {NoRoot}]
        /\ failed[w] \notin Unused
    BY <1>1 DEF IInv, TypeOK, PoolTypeOK, Jobs, Unused
  <2> QED
    BY <2>4, <2>5, <2>6 DEF ResolveRoot, Resolve, CachedRoots
<1>2. ASSUME IInv, [Next]_vars
      PROVE  [\A w \in Workers : at[w] = "resolve" /\ at'[w] = "op" =>
                                  root'[w] # failed[w]]_vars
  BY <1>1, <1>2
<1> QED
  BY <1>2, Invariant, PTL DEF Spec, RetryUsesNewRoot
=============================================================================
