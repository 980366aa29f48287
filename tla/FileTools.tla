------------------------------ MODULE FileTools ------------------------------
(***************************************************************************)
(* The text tools of file-edit-mcp: read, write, edit / multi_edit and     *)
(* mkdir, as the concurrent requests of several tokens against one disk.   *)
(*                                                                         *)
(* Every request runs the handler of internal/tools step by step: the      *)
(* process-wide path lock, the token's session lock, each filesystem call, *)
(* the marker update, and the two unlocks.  Between any two steps other    *)
(* requests move, a program outside the server may change the disk, a      *)
(* filesystem call may fail (and be retried, internal/cifsops), and the    *)
(* process may crash and restart with empty lock and marker tables.        *)
(*                                                                         *)
(* A file's bytes are one value of Contents; what the freshness gate sees  *)
(* of it is its size and its mtime.  Paths are resolved paths: pathguard   *)
(* has already accepted them and their parents exist.                      *)
(***************************************************************************)
EXTENDS Integers, FiniteSets

CONSTANTS
  Tokens,          \* one marker set (session.Session) per token
  Reqs,            \* request goroutines, reused for call after call
  TokenOf,         \* the token each request arrives under
  Paths,           \* resolved paths
  Contents,        \* file contents
  SizeOf,          \* their sizes in bytes
  Claim,           \* the content of an O_EXCL placeholder: no bytes
  Absent, Dir,     \* what a path holds when it holds no regular file
  Nothing,         \* no marker, no sample, nothing known
  NoReq,           \* a free lock
  FineMtime,       \* TRUE: no two writes to the disk get the same mtime
  ExposedWindows,  \* TRUE: outsiders may write inside the unfenced windows
  AmbiguousReplies,\* TRUE: a call that reports a backend error may have run
  MaxRequests, MaxOutside, MaxFaults, MaxCrashes, MaxClock  \* bounds

Data == Contents \cup {Claim}
StatInfo == [size: Nat, mtime: Nat]
File == [data: Data, mtime: Nat]
Ops == {"read", "write", "edit", "mkdir"}
Calls == [op: {"write", "edit"}, path: Paths, data: Contents]
         \cup [op: {"read", "mkdir"}, path: Paths, data: {Nothing}]

ASSUME ConstantsAssumption ==
  /\ TokenOf \in [Reqs -> Tokens]
  /\ SizeOf \in [Contents -> Nat]
  /\ Claim \notin Contents
  /\ Absent # Dir
  /\ {Absent, Dir} \cap (File \cup Data) = {}
  /\ Nothing \notin StatInfo /\ Nothing \notin Data /\ Nothing \notin Calls
  /\ NoReq \notin Reqs
  /\ FineMtime \in BOOLEAN /\ ExposedWindows \in BOOLEAN
  /\ AmbiguousReplies \in BOOLEAN
  /\ MaxRequests \in Nat /\ MaxOutside \in Nat /\ MaxFaults \in Nat
  /\ MaxCrashes \in Nat /\ MaxClock \in Nat

VARIABLES
  disk,     \* what every path holds: Absent, Dir or a File
  clock,    \* the filesystem's clock, in units of its mtime granularity
  plock,    \* Shared.plocks: the request holding each path
  slock,    \* Session.locks of each token: the request holding each path
  marker,   \* Session.markers of each token
  pc,       \* the step each request is at
  call,     \* its arguments (for an edit, data is what the edit makes of
            \* the file), Nothing between calls
  snap,     \* the size and mtime it sampled
  base,     \* the content it read
  temp,     \* its temp file, Absent when there is none
  claimed,  \* the requests whose claimed flag is set (Write)
  tries,    \* retries used by the Retrier.Do it is in
  out,      \* how the call ended
  known,    \* history: the content each token last saw or put at a path
  before,   \* history: what the path would hold had the call done nothing
  outside,  \* number of changes made outside the server
  issued, faults, crashes   \* numbers of calls, failed steps and crashes

fsVars == <<disk, clock>>
lockVars == <<plock, slock>>
reqVars == <<call, snap, base, temp, claimed, before>>
counters == <<outside, issued, faults, crashes>>
vars == <<disk, clock, plock, slock, marker, pc, call, snap, base, temp,
          claimed, tries, out, known, before, outside, issued, faults, crashes>>

ColdMaxRetries == 3
ZeroTime == 0

Tok(r) == TokenOf[r]
Path(r) == call[r].path
Op(r) == call[r].op
Held(r) == disk[Path(r)]
IsFile(f) == f \notin {Absent, Dir}
Size(d) == IF d = Claim THEN 0 ELSE SizeOf[d]
Stat(f) == [size |-> Size(f.data), mtime |-> f.mtime]
Matches(m, f) == IsFile(f) /\ m = Stat(f)

Labels == {"idle", "plock", "slock", "stat", "readfile", "gate", "restat",
           "claim", "temp", "rename", "unclaim", "mark", "mkdir", "unlock",
           "release"}
Outcomes == {"none", "ok", "notexist", "isdir", "notdir", "neverread",
             "stale", "rejected", "error", "claimleft"}
\* The steps a request takes while it owns the process-wide path lock.
Critical == Labels \ {"idle", "plock"}
\* The steps it takes while it owns its token's lock too.
Inner == Critical \ {"slock", "release"}

-----------------------------------------------------------------------------
(* Time.  A change of the disk is stamped with the clock: a fresh value    *)
(* when mtimes are fine, otherwise whatever tick the clock is at.          *)

Now == IF FineMtime THEN clock + 1 ELSE clock
Stamped(d) == [data |-> d, mtime |-> Now]

(* Control.  Done ends the handler's body with an outcome; Abort is what   *)
(* a failed atomicWrite leads to: Write first removes its own claim.       *)

Goto(r, l) == pc' = [pc EXCEPT ![r] = l]
NewTries(r, n) == tries' = [tries EXCEPT ![r] = n]
Done(r, o) == /\ Goto(r, "unlock")
              /\ out' = [out EXCEPT ![r] = o]
              /\ NewTries(r, 0)
Continue(r, l) == Goto(r, l) /\ NewTries(r, 0) /\ UNCHANGED out
\* Mutant: the claim of a failed write is left in place.
AbortKeepsClaim(r) == Done(r, "error")

Abort(r) == \/ /\ r \in claimed
               /\ Goto(r, "unclaim")
               /\ out' = [out EXCEPT ![r] = "error"]
               /\ NewTries(r, 0)
            \/ r \notin claimed /\ Done(r, "error")
Knows(r, d) == known' = [known EXCEPT ![Tok(r)][Path(r)] = d]

(* A filesystem call that fails.  A backend-class error is retried from    *)
(* the label the Retrier.Do closure starts at while retries are left; a    *)
(* definitive error, a failed reopen (OnRetry) and exhaustion (after three *)
(* retries cold, one retry warm) end the closure.                          *)
Fails(r, restart) ==
  /\ faults < MaxFaults
  /\ faults' = faults + 1
  /\ \/ /\ tries[r] < ColdMaxRetries
        /\ NewTries(r, tries[r] + 1)
        /\ Goto(r, restart)
        /\ UNCHANGED out
     \/ Abort(r)
NoFault == UNCHANGED faults

-----------------------------------------------------------------------------
(* Arrival and locking: plocks.LockContext(ctx, resolved), which a         *)
(* finished ctx may win, then Sess.LockFile(resolved), which waits.        *)

Begin(r, c) ==
  /\ pc[r] = "idle"
  /\ issued < MaxRequests
  /\ issued' = issued + 1
  /\ call' = [call EXCEPT ![r] = c]
  /\ Goto(r, "plock")
  /\ UNCHANGED <<fsVars, lockVars, marker, snap, base, temp, claimed, tries,
                 out, known, before, outside, faults, crashes>>

\* Mutant: the channel admits more than one holder.
LockContextShared(r) ==
  /\ pc[r] = "plock"
  /\ plock' = [plock EXCEPT ![Path(r)] = r]
  /\ Goto(r, "slock")
  /\ UNCHANGED <<fsVars, slock, marker, call, snap, base, temp, claimed, tries,
                 out, known, before, counters>>

LockContext(r) ==
  /\ pc[r] = "plock"
  /\ plock[Path(r)] = NoReq
  /\ plock' = [plock EXCEPT ![Path(r)] = r]
  /\ Goto(r, "slock")
  /\ UNCHANGED <<fsVars, slock, marker, call, snap, base, temp, claimed, tries,
                 out, known, before, counters>>

\* ctx.Done wins the select: ETimeout, and nothing is held.
LockTimeout(r) ==
  /\ pc[r] = "plock"
  /\ Goto(r, "idle")
  /\ call' = [call EXCEPT ![r] = Nothing]
  /\ UNCHANGED <<fsVars, lockVars, marker, snap, base, temp, claimed, tries,
                 out, known, before, counters>>

LockFile(r) ==
  /\ pc[r] = "slock"
  /\ slock[Tok(r)][Path(r)] = NoReq
  /\ slock' = [slock EXCEPT ![Tok(r)][Path(r)] = r]
  /\ before' = [before EXCEPT ![r] = Held(r)]
  /\ Goto(r, "stat")
  /\ UNCHANGED <<fsVars, plock, marker, call, snap, base, temp, claimed, tries,
                 out, known, counters>>

\* Mutant: no deferred unlock of the session lock.
UnlockForgotten(r) ==
  /\ pc[r] = "unlock"
  /\ Goto(r, "release")
  /\ UNCHANGED <<fsVars, lockVars, marker, reqVars, tries, out, known, counters>>

\* The deferred calls run in reverse order: session lock, then path lock.
Unlock(r) ==
  /\ pc[r] = "unlock"
  /\ slock' = [slock EXCEPT ![Tok(r)][Path(r)] = NoReq]
  /\ Goto(r, "release")
  /\ UNCHANGED <<fsVars, plock, marker, reqVars, tries, out, known, counters>>

\* Mutant: the claimed flag survives the call.
ReleaseKeepsClaimed(r) ==
  /\ pc[r] = "release"
  /\ plock' = [plock EXCEPT ![Path(r)] = NoReq]
  /\ Goto(r, "idle")
  /\ call' = [call EXCEPT ![r] = Nothing]
  /\ snap' = [snap EXCEPT ![r] = Nothing]
  /\ base' = [base EXCEPT ![r] = Nothing]
  /\ temp' = [temp EXCEPT ![r] = Absent]
  /\ out' = [out EXCEPT ![r] = "none"]
  /\ before' = [before EXCEPT ![r] = Absent]
  /\ UNCHANGED <<fsVars, slock, marker, tries, known, counters, claimed>>

\* Mutant: the call returns without releasing the path lock.
ReleaseForgotten(r) ==
  /\ pc[r] = "release"
  /\ Goto(r, "idle")
  /\ call' = [call EXCEPT ![r] = Nothing]
  /\ snap' = [snap EXCEPT ![r] = Nothing]
  /\ base' = [base EXCEPT ![r] = Nothing]
  /\ temp' = [temp EXCEPT ![r] = Absent]
  /\ claimed' = claimed \ {r}
  /\ out' = [out EXCEPT ![r] = "none"]
  /\ before' = [before EXCEPT ![r] = Absent]
  /\ UNCHANGED <<fsVars, lockVars, marker, tries, known, counters>>

\* The call returns; its local variables die with it.
Release(r) ==
  /\ pc[r] = "release"
  /\ plock' = [plock EXCEPT ![Path(r)] = NoReq]
  /\ Goto(r, "idle")
  /\ call' = [call EXCEPT ![r] = Nothing]
  /\ snap' = [snap EXCEPT ![r] = Nothing]
  /\ base' = [base EXCEPT ![r] = Nothing]
  /\ temp' = [temp EXCEPT ![r] = Absent]
  /\ claimed' = claimed \ {r}
  /\ out' = [out EXCEPT ![r] = "none"]
  /\ before' = [before EXCEPT ![r] = Absent]
  /\ UNCHANGED <<fsVars, slock, marker, tries, known, counters>>

-----------------------------------------------------------------------------
(* Sampling the target.  read and edit stat and then read it inside one    *)
(* Retrier.Do; write and mkdir only stat it.                               *)

StatFound(r) ==
  /\ IsFile(Held(r))
  /\ \/ /\ Op(r) = "write"
        /\ snap' = [snap EXCEPT ![r] = Stat(Held(r))]
        /\ Continue(r, "gate")
     \/ /\ Op(r) \in {"read", "edit"}
        /\ snap' = [snap EXCEPT ![r] = Stat(Held(r))]
        /\ Goto(r, "readfile")
        /\ UNCHANGED <<tries, out>>
     \/ /\ Op(r) = "mkdir"
        /\ Done(r, "notdir")
        /\ UNCHANGED snap

StatDir(r) ==
  /\ Held(r) = Dir
  /\ Done(r, IF Op(r) = "mkdir" THEN "ok" ELSE "isdir")
  /\ UNCHANGED snap

StatMissing(r) ==
  /\ Held(r) = Absent
  /\ \/ Op(r) = "write" /\ Continue(r, "claim")
     \/ Op(r) = "mkdir" /\ Goto(r, "mkdir") /\ UNCHANGED <<tries, out>>
     \/ Op(r) \in {"read", "edit"} /\ Done(r, "notexist")
  /\ UNCHANGED snap

StatTarget(r) ==
  /\ pc[r] = "stat"
  /\ \/ NoFault /\ (StatFound(r) \/ StatDir(r) \/ StatMissing(r))
     \/ Fails(r, "stat") /\ UNCHANGED snap
  /\ UNCHANGED <<fsVars, lockVars, marker, call, base, temp, claimed, known,
                 before, outside, issued, crashes>>

ReadFile(r) ==
  /\ pc[r] = "readfile"
  /\ \/ /\ NoFault
        /\ IsFile(Held(r))
        /\ base' = [base EXCEPT ![r] = Held(r).data]
        /\ Continue(r, IF Op(r) = "read" THEN "mark" ELSE "gate")
     \/ /\ NoFault
        /\ Held(r) = Absent
        /\ Done(r, "notexist")
        /\ UNCHANGED base
     \/ /\ NoFault
        /\ Held(r) = Dir
        /\ Done(r, "isdir")
        /\ UNCHANGED base
     \/ Fails(r, "stat") /\ UNCHANGED base
  /\ UNCHANGED <<fsVars, lockVars, marker, call, snap, temp, claimed, known,
                 before, outside, issued, crashes>>

-----------------------------------------------------------------------------
(* The freshness gate: Session.Compare on the sample, for an edit the      *)
(* in-memory application (which may find no match), then a second stat.    *)

Compare(m, s) == IF m = Nothing THEN "unknown"
                 ELSE IF m = s THEN "match" ELSE "stale"

Gate(r) ==
  /\ pc[r] = "gate"
  /\ LET status == Compare(marker[Tok(r)][Path(r)], snap[r]) IN
     \/ status = "unknown" /\ Done(r, "neverread")
     \/ status = "stale" /\ Done(r, "stale")
     \/ status = "match" /\ Continue(r, "restat")
     \/ status = "match" /\ Op(r) = "edit" /\ Done(r, "rejected")
  /\ UNCHANGED <<fsVars, lockVars, marker, reqVars, known, counters>>

\* Mutant: no second look before the write.
RestatSkipped(r) ==
  /\ pc[r] = "restat"
  /\ NoFault
  /\ Continue(r, "temp")
  /\ UNCHANGED <<fsVars, lockVars, marker, reqVars, known, outside, issued,
                 crashes>>

\* statFile does not look at IsDir: a directory differs from the sample.
Restat(r) ==
  /\ pc[r] = "restat"
  /\ \/ NoFault /\ Matches(snap[r], Held(r)) /\ Continue(r, "temp")
     \/ NoFault /\ Held(r) = Absent /\ Done(r, "notexist")
     \/ /\ NoFault
        /\ Held(r) # Absent /\ ~Matches(snap[r], Held(r))
        /\ Done(r, "stale")
     \/ Fails(r, "restat")
  /\ UNCHANGED <<fsVars, lockVars, marker, reqVars, known, outside, issued,
                 crashes>>

-----------------------------------------------------------------------------
(* Writing.  A new name is claimed with O_EXCL; the content goes through a *)
(* temp file whose mtime is the moment of its last write, and the rename   *)
(* carries that mtime to the target.  The temp file of a failed attempt is *)
(* removed, and a retry makes another one.                                 *)

\* Mutant: the placeholder is created without O_EXCL.
ClaimEffectShared(r) ==
  /\ Held(r) # Dir
  /\ disk' = [disk EXCEPT ![Path(r)] = Stamped(Claim)]
  /\ clock' = Now
  /\ Knows(r, Claim)

\* A create that did run although the call reports a backend error.
ClaimEffect(r) ==
  /\ Held(r) = Absent
  /\ disk' = [disk EXCEPT ![Path(r)] = Stamped(Claim)]
  /\ clock' = Now
  /\ Knows(r, Claim)

ClaimName(r) ==
  /\ pc[r] = "claim"
  /\ \/ /\ NoFault
        /\ ClaimEffect(r)
        /\ claimed' = claimed \cup {r}
        /\ Continue(r, "temp")
     \/ /\ NoFault
        /\ Held(r) # Absent
        /\ Done(r, "neverread")
        /\ UNCHANGED <<fsVars, known, claimed>>
     \/ /\ Fails(r, "claim")
        /\ \/ AmbiguousReplies /\ ClaimEffect(r)
           \/ UNCHANGED <<fsVars, known>>
        /\ UNCHANGED claimed
  /\ UNCHANGED <<lockVars, marker, call, snap, base, temp, before, outside,
                 issued, crashes>>

WriteTemp(r) ==
  /\ pc[r] = "temp"
  /\ \/ /\ NoFault
        /\ temp' = [temp EXCEPT ![r] = Stamped(call[r].data)]
        /\ clock' = Now
        /\ Goto(r, "rename")
        /\ UNCHANGED <<tries, out>>
     \/ Fails(r, "temp") /\ UNCHANGED <<temp, clock>>
  /\ UNCHANGED <<disk, lockVars, marker, call, snap, base, claimed, known,
                 before, outside, issued, crashes>>

RenameEffect(r) ==
  /\ Held(r) # Dir
  /\ disk' = [disk EXCEPT ![Path(r)] = temp[r]]
  /\ Knows(r, call[r].data)

Rename(r) ==
  /\ pc[r] = "rename"
  /\ temp' = [temp EXCEPT ![r] = Absent]
  /\ \/ /\ NoFault
        /\ RenameEffect(r)
        /\ Continue(r, "mark")
     \/ /\ NoFault
        /\ Held(r) = Dir
        /\ Abort(r)
        /\ UNCHANGED <<disk, known>>
     \/ /\ Fails(r, "temp")
        /\ \/ AmbiguousReplies /\ RenameEffect(r)
           \/ UNCHANGED <<disk, known>>
  /\ UNCHANGED <<clock, lockVars, marker, call, snap, base, claimed, before,
                 outside, issued, crashes>>

\* Write's best-effort removal of its claim; ENOENT is as good as success.
\* A removal that failed for good is recorded as "claimleft".
UnclaimEffect(r) == disk' = [disk EXCEPT ![Path(r)] = Absent]

Unclaim(r) ==
  /\ pc[r] = "unclaim"
  /\ \/ /\ NoFault
        /\ UnclaimEffect(r)
        /\ Done(r, "error")
     \/ /\ faults < MaxFaults
        /\ faults' = faults + 1
        /\ \/ /\ tries[r] < ColdMaxRetries
              /\ NewTries(r, tries[r] + 1)
              /\ UNCHANGED <<pc, out>>
           \/ Done(r, "claimleft")
        /\ \/ AmbiguousReplies /\ UnclaimEffect(r)
           \/ UNCHANGED disk
  /\ UNCHANGED <<clock, lockVars, marker, reqVars, known, outside, issued,
                 crashes>>

-----------------------------------------------------------------------------
(* Recording knowledge: Session.MarkRead.                                  *)

MarkRead(r, s) == marker' = [marker EXCEPT ![Tok(r)][Path(r)] = s]

\* Mutant: read marks what a stat after the read returns.
MarkSampleLate(r) ==
  /\ pc[r] = "mark" /\ Op(r) = "read" /\ IsFile(Held(r))
  /\ MarkRead(r, Stat(Held(r))) /\ Knows(r, base[r]) /\ Done(r, "ok")
  /\ UNCHANGED <<fsVars, lockVars, reqVars, counters>>

\* read marks the sample it took before reading; a range past the end of
\* the file is an error and marks nothing.
MarkSample(r) ==
  /\ pc[r] = "mark" /\ Op(r) = "read"
  /\ \/ MarkRead(r, snap[r]) /\ Knows(r, base[r]) /\ Done(r, "ok")
     \/ Done(r, "rejected") /\ UNCHANGED <<marker, known>>
  /\ UNCHANGED <<fsVars, lockVars, reqVars, counters>>

\* write and edit stat what they wrote; if that fails they record a marker
\* with the zero time, which no file matches.
MarkKnown(r) ==
  /\ pc[r] = "mark" /\ Op(r) \in {"write", "edit"}
  /\ \/ /\ NoFault
        /\ IsFile(Held(r))
        /\ MarkRead(r, Stat(Held(r)))
        /\ Done(r, "ok")
     \/ /\ \/ NoFault /\ Held(r) = Absent
           \/ faults < MaxFaults /\ faults' = faults + 1
        /\ MarkRead(r, [size |-> Size(call[r].data), mtime |-> ZeroTime])
        /\ Done(r, "ok")
  /\ UNCHANGED <<fsVars, lockVars, reqVars, known, outside, issued, crashes>>

-----------------------------------------------------------------------------
(* mkdir: stat found nothing; an EEXIST from Mkdir is settled by a second  *)
(* stat inside the same attempt.                                           *)

MkdirEffect(r) == /\ Held(r) = Absent
                  /\ disk' = [disk EXCEPT ![Path(r)] = Dir]

MkdirOnce(r) ==
  /\ pc[r] = "mkdir"
  /\ \/ NoFault /\ MkdirEffect(r) /\ Done(r, "ok")
     \/ /\ NoFault
        /\ Held(r) # Absent
        /\ Done(r, IF Held(r) = Dir THEN "ok" ELSE "notdir")
        /\ UNCHANGED disk
     \/ /\ Fails(r, "stat")
        /\ \/ AmbiguousReplies /\ MkdirEffect(r)
           \/ UNCHANGED disk
  /\ UNCHANGED <<clock, lockVars, marker, reqVars, known, outside, issued,
                 crashes>>

-----------------------------------------------------------------------------
(* The environment.  A program outside the server (an editor, another      *)
(* client of the share) replaces, creates or removes a file.  The server's *)
(* unfenced windows are the steps between its last look at the target and  *)
(* the change that look justifies.                                         *)

InWindow(r) == pc[r] \in {"temp", "rename", "unclaim"} \/
               (pc[r] = "mark" /\ Op(r) # "read")

OutsideChange(p, f) ==
  /\ disk[p] # Dir
  /\ outside < MaxOutside
  /\ ExposedWindows \/ \A r \in Reqs : InWindow(r) => Path(r) # p
  /\ disk' = [disk EXCEPT ![p] = f]
  /\ outside' = outside + 1
  /\ before' = [r \in Reqs |-> IF pc[r] \in Inner /\ Path(r) = p
                               THEN f ELSE before[r]]
  /\ UNCHANGED <<lockVars, marker, pc, call, snap, base, temp, claimed, tries,
                 out, known, issued, faults, crashes>>

OutsideWrite(p, d) == OutsideChange(p, Stamped(d)) /\ clock' = Now
OutsideRemove(p) ==
  disk[p] # Absent /\ OutsideChange(p, Absent) /\ UNCHANGED clock

\* With coarse mtimes the clock moves on its own.
Tick ==
  /\ ~FineMtime
  /\ clock < MaxClock
  /\ clock' = clock + 1
  /\ UNCHANGED <<disk, lockVars, marker, pc, reqVars, tries, out, known,
                 counters>>

\* The process dies and restarts: requests, locks and markers are gone,
\* the disk stays as it is.
Crash ==
  /\ crashes < MaxCrashes
  /\ crashes' = crashes + 1
  /\ \E r \in Reqs : pc[r] # "idle"
  /\ pc' = [r \in Reqs |-> "idle"]
  /\ plock' = [p \in Paths |-> NoReq]
  /\ slock' = [t \in Tokens |-> [p \in Paths |-> NoReq]]
  /\ marker' = [t \in Tokens |-> [p \in Paths |-> Nothing]]
  /\ call' = [r \in Reqs |-> Nothing]
  /\ snap' = [r \in Reqs |-> Nothing]
  /\ base' = [r \in Reqs |-> Nothing]
  /\ temp' = [r \in Reqs |-> Absent]
  /\ claimed' = {}
  /\ tries' = [r \in Reqs |-> 0]
  /\ out' = [r \in Reqs |-> "none"]
  /\ before' = [r \in Reqs |-> Absent]
  /\ UNCHANGED <<fsVars, known, outside, issued, faults>>

\* Every call has returned and no more will come.
Quiescent ==
  /\ issued = MaxRequests
  /\ \A r \in Reqs : pc[r] = "idle"
  /\ UNCHANGED vars

-----------------------------------------------------------------------------
Init ==
  /\ disk \in [Paths -> {Absent, Dir} \cup [data: Contents, mtime: {1}]]
  /\ clock = 1
  /\ plock = [p \in Paths |-> NoReq]
  /\ slock = [t \in Tokens |-> [p \in Paths |-> NoReq]]
  /\ marker = [t \in Tokens |-> [p \in Paths |-> Nothing]]
  /\ pc = [r \in Reqs |-> "idle"]
  /\ call = [r \in Reqs |-> Nothing]
  /\ snap = [r \in Reqs |-> Nothing]
  /\ base = [r \in Reqs |-> Nothing]
  /\ temp = [r \in Reqs |-> Absent]
  /\ claimed = {}
  /\ tries = [r \in Reqs |-> 0]
  /\ out = [r \in Reqs |-> "none"]
  /\ known = [t \in Tokens |-> [p \in Paths |-> Nothing]]
  /\ before = [r \in Reqs |-> Absent]
  /\ outside = 0 /\ issued = 0 /\ faults = 0 /\ crashes = 0

\* One step of the body of a handler, its locks held.
Body(r) ==
  \/ StatTarget(r) \/ ReadFile(r) \/ Gate(r) \/ Restat(r)
  \/ ClaimName(r) \/ WriteTemp(r) \/ Rename(r) \/ Unclaim(r)
  \/ MarkSample(r) \/ MarkKnown(r) \/ MkdirOnce(r)

Advance(r) == LockFile(r) \/ Body(r) \/ Unlock(r) \/ Release(r)

Next ==
  \/ \E r \in Reqs : \/ \E c \in Calls : Begin(r, c)
                     \/ LockContext(r)
                     \/ LockTimeout(r)
                     \/ Advance(r)
  \/ \E p \in Paths, d \in Contents : OutsideWrite(p, d)
  \/ \E p \in Paths : OutsideRemove(p)
  \/ Tick
  \/ Crash
  \/ Quiescent

Spec == Init /\ [][Next]_vars

\* A goroutine is scheduled for ever, and a blocked channel send is served
\* in arrival order, so a lock that keeps becoming free is eventually ours.
Fairness == \A r \in Reqs : /\ WF_vars(Advance(r))
                            /\ SF_vars(LockContext(r))
FairSpec == Spec /\ Fairness

-----------------------------------------------------------------------------
\* The steps only write and edit take, and the mark both share with read.
Writing == {"gate", "restat", "claim", "temp", "rename", "unclaim"}
ArgsOK ==
  \A r \in Reqs :
    /\ pc[r] # "idle" => call[r] \in Calls
    /\ pc[r] \in Writing => Op(r) \in {"write", "edit"}
    /\ pc[r] = "readfile" => Op(r) \in {"read", "edit"}
    /\ pc[r] = "claim" => Op(r) = "write"
    /\ pc[r] = "mark" => Op(r) # "mkdir"
    /\ r \in claimed => pc[r] \notin {"idle", "plock"} /\ Op(r) = "write"

DiskTypes == /\ disk \in [Paths -> File \cup {Absent, Dir}]
             /\ clock \in Nat
             /\ temp \in [Reqs -> File \cup {Absent}]
LockTypes == /\ plock \in [Paths -> Reqs \cup {NoReq}]
             /\ slock \in [Tokens -> [Paths -> Reqs \cup {NoReq}]]
MarkerTypes == /\ marker \in [Tokens -> [Paths -> StatInfo \cup {Nothing}]]
               /\ known \in [Tokens -> [Paths -> Data \cup {Nothing}]]
ControlTypes == /\ pc \in [Reqs -> Labels]
                /\ tries \in [Reqs -> 0..ColdMaxRetries]
                /\ out \in [Reqs -> Outcomes]
LocalTypes == /\ call \in [Reqs -> Calls \cup {Nothing}]
              /\ snap \in [Reqs -> StatInfo \cup {Nothing}]
              /\ base \in [Reqs -> Data \cup {Nothing}]
              /\ claimed \subseteq Reqs
              /\ before \in [Reqs -> File \cup {Absent, Dir}]
CounterTypes == /\ outside \in Nat /\ issued \in Nat
                /\ faults \in Nat /\ crashes \in Nat

(* Every variable has its type, a request past Begin has its arguments,    *)
(* and only write and edit reach the writing steps.                        *)
TypeOK ==
  /\ DiskTypes /\ LockTypes /\ MarkerTypes
  /\ ControlTypes /\ LocalTypes /\ CounterTypes
  /\ ArgsOK

(* Session.LockFile has no deadline, yet no handler ever waits in it: the  *)
(* process-wide lock of the same path has already excluded every request   *)
(* that could hold the token's lock, because the two are released in       *)
(* reverse order (session.go, LockFile; the deferred calls of every tool). *)
SessionLockFree ==
  \A r \in Reqs : pc[r] = "slock" => slock[Tok(r)][Path(r)] = NoReq

(* Two requests are never inside the critical section of the same path,    *)
(* whichever tokens they carry (session.go, PathLocks).                    *)
PathExclusion ==
  \A r, q \in Reqs :
    pc[r] \in Critical /\ pc[q] \in Critical /\ Path(r) = Path(q) => r = q

(* A marker that matches the file on disk was earned: its token has seen,  *)
(* or has itself written, exactly the bytes that are there now.  This is   *)
(* what the marker of session.go stands for, and why read stats before it  *)
(* reads and write marks only after its rename.                            *)
MarkerSound ==
  \A t \in Tokens, p \in Paths :
    Matches(marker[t][p], disk[p]) => known[t][p] = disk[p].data

(* A tool never replaces or removes a file whose bytes its token did not   *)
(* see or write last: a concurrent writer can cause a rejected write but   *)
(* never a silent overwrite (write.go and edit.go, the gate and the        *)
(* re-stat).                                                               *)
NoSilentOverwrite ==
  [][\A p \in Paths :
       disk'[p] # disk[p] /\ outside' = outside /\ IsFile(disk[p]) =>
         \E r \in Reqs : /\ plock[p] = r
                         /\ known[Tok(r)][p] = disk[p].data]_vars

(* A call that reports an error leaves the path as it would be without the *)
(* call: the original file untouched, no placeholder in its place          *)
(* (write.go, the temp + rename path and the removal of the claim).        *)
FailedCallUntouched ==
  \A r \in Reqs :
    pc[r] = "unlock" /\ out[r] \notin {"ok", "claimleft"} =>
      disk[Path(r)] = before[r]

(* Every call returns: the locks are not lost on any error path, retries   *)
(* are finite, and nobody waits for ever.                                  *)
EveryCallReturns == \A r \in Reqs : pc[r] # "idle" ~> pc[r] = "idle"

(* The tools implement the abstract register of FreshGate: reads observe,  *)
(* claims create, renames replace what was seen, nothing else changes it.  *)
Register(f) == IF f \in {Absent, Dir} THEN f ELSE f.data
FG == INSTANCE FreshGate WITH
        file <- [p \in Paths |-> Register(disk[p])], seen <- known,
        ext <- outside
ImplementsFreshGate == FG!Spec
=============================================================================
