-------------------------------- MODULE Retrier --------------------------------
(***************************************************************************)
(* internal/cifsops/cifsops.go: the retry loop around one filesystem       *)
(* operation, wired as NewShared wires it: the operation is one WithRoot   *)
(* and OnRetry is RootPool.ReopenAll.  Do, DoContext (whose context may be *)
(* cancelled at any time) and the keepalive probe, which calls WithRoot    *)
(* without a retry, run concurrently; the process-wide succeeded flag      *)
(* chooses the cold or the warm schedule.                                  *)
(***************************************************************************)
EXTENDS RootPool, Naturals

VARIABLES
  succeeded,  \* the process is warm
  step,       \* where each worker is in do()
  job         \* what it works on: the caller's kind and directory, retries
              \* started, length of the backoff schedule (0 before the first
              \* failure), whether its ReopenAll met an error and whether
              \* its context is done

vars == <<poolVars, failed, succeeded, step, job>>

Kinds == {"Do", "DoContext", "probe"}
Classes == {"nil", "backend", "definitive", "unknown"}
ColdMaxRetries == 3
WarmRetries == 1

Jobs == [kind: Kinds, dir: Dirs, attempt: 0..ColdMaxRetries,
         budget: {0, WarmRetries, ColdMaxRetries}, broken: BOOLEAN,
         expired: BOOLEAN]
NewJob(k, d) == [kind |-> k, dir |-> d, attempt |-> 0, budget |-> 0,
                 broken |-> FALSE, expired |-> FALSE]

Idle == NewJob("Do", CHOOSE d \in Dirs : TRUE)

Goto(w, l) == step' = [step EXCEPT ![w] = l]
\* do() returns.
Return(w) == /\ Goto(w, "idle")
             /\ job' = [job EXCEPT ![w] = Idle]
             /\ failed' = [failed EXCEPT ![w] = NoRoot]

-----------------------------------------------------------------------------
Call(w, k, d) ==
  /\ step[w] = "idle"
  /\ job' = [job EXCEPT ![w] = NewJob(k, d)]
  /\ Goto(w, IF k = "probe" THEN "op" ELSE "first")
  /\ UNCHANGED <<poolVars, failed, succeeded>>

\* The context of a DoContext call ends; Do runs under context.Background.
Expire(w) ==
  /\ step[w] # "idle" /\ job[w].kind = "DoContext" /\ ~job[w].expired
  /\ job' = [job EXCEPT ![w].expired = TRUE]
  /\ UNCHANGED <<poolVars, failed, succeeded, step>>

\* ctx.Err() before the first attempt.
CheckFirst(w) ==
  /\ step[w] = "first"
  /\ \/ job[w].expired /\ Return(w)
     \/ ~job[w].expired /\ Goto(w, "op") /\ UNCHANGED <<failed, job>>
  /\ UNCHANGED <<poolVars, succeeded>>

\* op() is WithRoot(...): enter the lease.
StartOp(w) ==
  /\ step[w] = "op"
  /\ RLock(w)
  /\ Goto(w, "running")
  /\ UNCHANGED <<failed, succeeded, job>>

ResolveRoot(w) ==
  /\ step[w] = "running"
  /\ Resolve(w, job[w].dir)
  /\ failed' = [failed EXCEPT ![w] = NoRoot]
  /\ UNCHANGED <<succeeded, step, job>>

\* What do() makes of op's error.  Success warms the process.  A backend
\* error is retried, on the schedule chosen at the first one; every other
\* error, an exhausted schedule and a probe end the call.
Schedule(w) == IF job[w].budget # 0 THEN job[w].budget
               ELSE IF succeeded THEN WarmRetries ELSE ColdMaxRetries
\* Mutant: one retry more than the schedule has.
RetriedOnceMore(w, class) == /\ class = "backend" /\ job[w].kind # "probe"
                             /\ job[w].attempt <= Schedule(w)

Retried(w, class) == /\ class = "backend" /\ job[w].kind # "probe"
                     /\ job[w].attempt < Schedule(w)
Outcome(w, class) ==
  /\ succeeded' = (succeeded \/ (class = "nil" /\ job[w].kind # "probe"))
  /\ \/ /\ Retried(w, class)
        /\ job' = [job EXCEPT ![w].budget = Schedule(w)]
        /\ failed' = [failed EXCEPT ![w] = root[w]]
        /\ Goto(w, "check")
     \/ ~Retried(w, class) /\ Return(w)

EndOp(w, class) ==
  /\ step[w] = "running"
  /\ OpReturns(w)
  /\ Outcome(w, class)

\* The lazy os.OpenRoot failed: its error has a class like any other.
EndResolve(w, class) ==
  /\ step[w] = "running" /\ class # "nil"
  /\ ResolveFails(w, job[w].dir)
  /\ Outcome(w, class)

\* Mutant: the retries are not counted.
CheckUncounted(w) ==
  /\ step[w] = "check"
  /\ \/ job[w].expired /\ Return(w)
     \/ ~job[w].expired /\ Goto(w, "hook") /\ UNCHANGED <<failed, job>>
  /\ UNCHANGED <<poolVars, succeeded>>

\* The top of the loop: ctx.Err(), then the OnRetry hook.
Check(w) ==
  /\ step[w] = "check"
  /\ \/ job[w].expired /\ Return(w)
     \/ /\ ~job[w].expired
        /\ job' = [job EXCEPT ![w].attempt = @ + 1]
        /\ Goto(w, "hook")
        /\ UNCHANGED failed
  /\ UNCHANGED <<poolVars, succeeded>>

StartReopen(w) ==
  /\ step[w] = "hook"
  /\ Lock(w)
  /\ Goto(w, "reopening")
  /\ UNCHANGED <<failed, succeeded, job>>

ReopenStep(w) ==
  /\ step[w] = "reopening"
  /\ \/ Snapshot(w) /\ UNCHANGED job
     \/ \E d \in Dirs : ReopenDir(w, d) /\ UNCHANGED job
     \/ \E d \in Dirs : /\ ReopenDirFails(w, d)
                        /\ job' = [job EXCEPT ![w].broken = TRUE]
  /\ UNCHANGED <<failed, succeeded, step>>

\* A hook error ends the call.
EndReopen(w) ==
  /\ step[w] = "reopening"
  /\ Unlock(w)
  /\ \/ job[w].broken /\ Return(w)
     \/ ~job[w].broken /\ Goto(w, "sleep") /\ UNCHANGED <<failed, job>>
  /\ UNCHANGED succeeded

\* The backoff: the timer, or ctx.Done; with both ready select takes either.
Sleep(w) ==
  /\ step[w] = "sleep"
  /\ \/ Goto(w, "op") /\ UNCHANGED <<failed, job>>
     \/ job[w].expired /\ Return(w)
  /\ UNCHANGED <<poolVars, succeeded>>

-----------------------------------------------------------------------------
Init ==
  /\ PoolInit
  /\ succeeded = FALSE
  /\ step = [w \in Workers |-> "idle"]
  /\ job = [w \in Workers |-> Idle]

Run(w) ==
  \/ CheckFirst(w) \/ StartOp(w) \/ ResolveRoot(w)
  \/ \E c \in Classes : EndOp(w, c) \/ EndResolve(w, c)
  \/ Check(w) \/ ReopenStep(w) \/ EndReopen(w) \/ Sleep(w)

Next == \E w \in Workers : \/ \E k \in Kinds, d \in Dirs : Call(w, k, d)
                           \/ Expire(w)
                           \/ StartReopen(w)
                           \/ Run(w)

Spec == Init /\ [][Next]_vars
\* Goroutines are scheduled, filesystem calls return, and a blocked Lock
\* is served in arrival order.
FairSpec == Spec /\ \A w \in Workers : /\ WF_vars(Run(w))
                                       /\ SF_vars(StartReopen(w))

-----------------------------------------------------------------------------
(* Every variable has its type, and no call starts more retries than its   *)
(* schedule has: three when the process was cold at the first failure, one *)
(* when it was warm (cifsops.go, do).                                      *)
TypeOK ==
  /\ PoolTypeOK
  /\ succeeded \in BOOLEAN
  /\ step \in [Workers -> {"idle", "first", "op", "running", "check", "hook",
                           "reopening", "sleep"}]
  /\ job \in [Workers -> Jobs]
  /\ \A w \in Workers : job[w].attempt <= job[w].budget

(* A retry never uses the Root its previous attempt failed on: the reopen  *)
(* in between has replaced it (cifsops.go, do; server.go, OnRetry).        *)
RetryUsesNewRoot ==
  [][\A w \in Workers : at[w] = "resolve" /\ at'[w] = "op" =>
                         root'[w] # failed[w]]_vars

(* Every call ends: the reopen of one never waits for ever behind the      *)
(* operations of the others, nor they behind it (rootpool.go, WithRoot:    *)
(* the retrier runs around the lease, never inside it).                    *)
EveryCallEnds == \A w \in Workers : step[w] # "idle" ~> step[w] = "idle"
=============================================================================
