------------------------------ MODULE UploadBatch ------------------------------
(***************************************************************************)
(* The upload call (internal/tools/upload.go, Upload and the download slot *)
(* of uploadItem): the batch gate, the marking of duplicate targets, the   *)
(* workers fed over an unbuffered channel, the process-wide download       *)
(* semaphore, the batch deadline and the collection of the results.        *)
(* What an item does inside its slot is module Publish; here it ends with  *)
(* some status.                                                            *)
(***************************************************************************)
EXTENDS Naturals, FiniteSets, Sequences

CONSTANTS
  Calls,                  \* concurrent upload calls, of any token
  Targets,                \* resolved paths
  ListsOf,                \* of each call: the lists it may come with
  MaxBatchItems, MaxConcurrentPerBatch, MaxConcurrentBatches

ASSUME LimitsAssumption ==
  /\ {MaxBatchItems, MaxConcurrentPerBatch, MaxConcurrentBatches} \subseteq Nat
  /\ MaxConcurrentPerBatch > 0 /\ MaxConcurrentBatches > 0

\* What the pre-checks make of an item: a resolved path that the guard
\* accepts, a path it refuses, or an item without URL or path.
Files == Targets \cup {"refused", "malformed"}
Lists == UNION {[1..n -> Files] : n \in 0..(MaxBatchItems + 1)}
ASSUME ListsAssumption == ListsOf \in [Calls -> SUBSET Lists]

\* A row before and after it is written; which status it says is a matter of
\* the item (Publish).
Statuses == {"none", "written"}

VARIABLES
  phase,        \* each call: idle, gate, feed, wait, answered
  files,        \* in.Files
  results,      \* for every row whether its status is written
  next,         \* the item the feeding loop is at
  worker,       \* each worker goroutine: recv, got, slot, busy, exit
  item,         \* the item it has received
  batchSem,     \* calls holding a place in Shared.batchSem
  downloadSem,  \* workers holding a place in Shared.downloadSem
  expired       \* calls whose batch context is done

vars == <<phase, files, results, next, worker, item, batchSem, downloadSem,
          expired>>
sems == <<batchSem, downloadSem>>

Workers == 1..MaxConcurrentPerBatch
\* The workers of a call: no more than it has items.
Started(c) == {w \in Workers : w <= Len(files[c])}
Rows(c) == 1..Len(files[c])

-----------------------------------------------------------------------------
(* The handler's own steps.                                                *)

Invalid(fs) == \/ Len(fs) = 0 \/ Len(fs) > MaxBatchItems
               \/ \E i \in DOMAIN fs : fs[i] = "malformed"

Call(c, fs) ==
  /\ phase[c] = "idle"
  /\ \/ /\ Invalid(fs)
        /\ phase' = [phase EXCEPT ![c] = "refused"]
        /\ UNCHANGED <<files, results>>
     \/ /\ ~Invalid(fs)
        /\ phase' = [phase EXCEPT ![c] = "gate"]
        /\ files' = [files EXCEPT ![c] = fs]
        /\ results' = [results EXCEPT ![c] = [i \in DOMAIN fs |-> "none"]]
  /\ UNCHANGED <<next, worker, item, sems, expired>>

\* Mutant: the paths are compared as given, and two spellings of one target
\* pass for different targets.
DuplicateUnresolved(fs, i) == FALSE

Duplicate(fs, i) == \E j \in DOMAIN fs : j # i /\ fs[j] = fs[i]

\* A row that is answered without a worker.
Prefailed(fs, i) == fs[i] = "refused" \/ Duplicate(fs, i)

\* The batch gate does not queue; behind it the rows that fail without a
\* worker are written and the workers start.
Gate(c) ==
  /\ phase[c] = "gate"
  /\ Cardinality(batchSem) < MaxConcurrentBatches
  /\ batchSem' = batchSem \cup {c}
  /\ results' = [results EXCEPT ![c] = [i \in Rows(c) |->
                   IF Prefailed(files[c], i) THEN "written" ELSE "none"]]
  /\ next' = [next EXCEPT ![c] = 1]
  /\ phase' = [phase EXCEPT ![c] = "feed"]
  /\ worker' = [worker EXCEPT ![c] = [w \in Workers |->
                  IF w \in Started(c) THEN "recv" ELSE "exit"]]
  /\ UNCHANGED <<files, item, downloadSem, expired>>

EBusy(c) ==
  /\ phase[c] = "gate"
  /\ Cardinality(batchSem) >= MaxConcurrentBatches
  /\ phase' = [phase EXCEPT ![c] = "refused"]
  /\ files' = [files EXCEPT ![c] = <<>>]
  /\ results' = [results EXCEPT ![c] = <<>>]
  /\ UNCHANGED <<next, worker, item, sems, expired>>

\* jobs <- i: a worker of the call is at its receive.
Send(c, w) ==
  /\ phase[c] = "feed"
  /\ next[c] \in Rows(c) /\ ~Prefailed(files[c], next[c])
  /\ worker[c][w] = "recv"
  /\ worker' = [worker EXCEPT ![c][w] = "got"]
  /\ item' = [item EXCEPT ![c][w] = next[c]]
  /\ next' = [next EXCEPT ![c] = @ + 1]
  /\ UNCHANGED <<phase, files, results, sems, expired>>

Skip(c) ==
  /\ phase[c] = "feed"
  /\ next[c] \in Rows(c) /\ Prefailed(files[c], next[c])
  /\ next' = [next EXCEPT ![c] = @ + 1]
  /\ UNCHANGED <<phase, files, results, worker, item, sems, expired>>

Close(c) ==
  /\ phase[c] = "feed" /\ next[c] \notin Rows(c)
  /\ phase' = [phase EXCEPT ![c] = "wait"]
  /\ UNCHANGED <<files, results, next, worker, item, sems, expired>>

\* wg.Wait returns; the deferred release of the gate is part of the return.
Answer(c) ==
  /\ phase[c] = "wait"
  /\ \A w \in Workers : worker[c][w] = "exit"
  /\ phase' = [phase EXCEPT ![c] = "answered"]
  /\ batchSem' = batchSem \ {c}
  /\ UNCHANGED <<files, results, next, worker, item, downloadSem, expired>>

\* The caller has its answer, or its refusal, and may call again.
Done(c) ==
  /\ phase[c] \in {"answered", "refused"}
  /\ phase' = [phase EXCEPT ![c] = "idle"]
  /\ files' = [files EXCEPT ![c] = <<>>]
  /\ results' = [results EXCEPT ![c] = <<>>]
  /\ next' = [next EXCEPT ![c] = 0]
  /\ expired' = expired \ {c}
  /\ UNCHANGED <<worker, item, sems>>

-----------------------------------------------------------------------------
(* The workers.                                                            *)

\* A worker writes the row of its item and goes back to the channel.
Row(c, w) ==
  /\ results' = [results EXCEPT ![c][item[c][w]] = "written"]
  /\ worker' = [worker EXCEPT ![c][w] = "recv"]
  /\ item' = [item EXCEPT ![c][w] = 0]

\* Mutant: past the deadline the item is dropped without a row.
BeginDropped(c, w) ==
  /\ worker[c][w] = "got"
  /\ \/ c \in expired /\ worker' = [worker EXCEPT ![c][w] = "recv"]
     \/ c \notin expired /\ worker' = [worker EXCEPT ![c][w] = "slot"]
  /\ item' = IF c \in expired THEN [item EXCEPT ![c][w] = 0] ELSE item
  /\ UNCHANGED <<phase, files, results, next, sems, expired>>

\* Past the deadline the item fails at once, as does one whose extension is
\* not accepted.
Begin(c, w) ==
  /\ worker[c][w] = "got"
  /\ \/ Row(c, w)
     \/ /\ c \notin expired
        /\ worker' = [worker EXCEPT ![c][w] = "slot"]
        /\ UNCHANGED <<results, item>>
  /\ UNCHANGED <<phase, files, next, sems, expired>>

\* Mutant: the slots are counted per call.
AcquirePerCall(c, w) ==
  /\ worker[c][w] = "slot"
  /\ Cardinality({v \in Workers : <<c, v>> \in downloadSem})
       < MaxConcurrentPerBatch
  /\ downloadSem' = downloadSem \cup {<<c, w>>}
  /\ worker' = [worker EXCEPT ![c][w] = "busy"]
  /\ UNCHANGED <<phase, files, results, next, item, batchSem, expired>>

Acquire(c, w) ==
  /\ worker[c][w] = "slot"
  /\ Cardinality(downloadSem) < MaxConcurrentPerBatch
  /\ downloadSem' = downloadSem \cup {<<c, w>>}
  /\ worker' = [worker EXCEPT ![c][w] = "busy"]
  /\ UNCHANGED <<phase, files, results, next, item, batchSem, expired>>

\* Mutant: the wait for a slot ignores the deadline.
QueueTimeoutIgnored(c, w) ==
  /\ worker[c][w] = "slot" /\ c \in expired
  /\ UNCHANGED vars

\* Both cases of the select may be ready: then either is taken.
QueueTimeout(c, w) ==
  /\ worker[c][w] = "slot" /\ c \in expired
  /\ Row(c, w)
  /\ UNCHANGED <<phase, files, next, sems, expired>>

\* Mutant: the slot is not given back.
ItemEndsLeaks(c, w) ==
  /\ worker[c][w] = "busy"
  /\ Row(c, w)
  /\ UNCHANGED <<phase, files, next, sems, expired>>

\* uploadItem returns and its deferred release frees the slot.
ItemEnds(c, w) ==
  /\ worker[c][w] = "busy"
  /\ Row(c, w)
  /\ downloadSem' = downloadSem \ {<<c, w>>}
  /\ UNCHANGED <<phase, files, next, batchSem, expired>>

\* The channel is closed.
Exit(c, w) ==
  /\ worker[c][w] = "recv" /\ phase[c] = "wait"
  /\ worker' = [worker EXCEPT ![c][w] = "exit"]
  /\ UNCHANGED <<phase, files, results, next, item, sems, expired>>

\* BatchBudget passes or the client goes away.
Expire(c) ==
  /\ phase[c] \in {"feed", "wait"} /\ c \notin expired
  /\ expired' = expired \cup {c}
  /\ UNCHANGED <<phase, files, results, next, worker, item, sems>>

-----------------------------------------------------------------------------
Init ==
  /\ phase = [c \in Calls |-> "idle"]
  /\ files = [c \in Calls |-> <<>>]
  /\ results = [c \in Calls |-> <<>>]
  /\ next = [c \in Calls |-> 0]
  /\ worker = [c \in Calls |-> [w \in Workers |-> "exit"]]
  /\ item = [c \in Calls |-> [w \in Workers |-> 0]]
  /\ batchSem = {} /\ downloadSem = {} /\ expired = {}

Handler(c) == Gate(c) \/ EBusy(c) \/ Skip(c) \/ Close(c) \/ Answer(c) \/ Done(c)
              \/ \E w \in Workers : Send(c, w)
Work(c, w) == \/ Begin(c, w) \/ Acquire(c, w) \/ QueueTimeout(c, w)
              \/ Exit(c, w) \/ ItemEnds(c, w)

Next == \E c \in Calls : \/ \E fs \in ListsOf[c] : Call(c, fs)
                         \/ Handler(c) \/ Expire(c)
                         \/ \E w \in Workers : Work(c, w)

Spec == Init /\ [][Next]_vars

\* Goroutines are scheduled, deadlines pass, and an item inside its slot
\* ends (module Publish, EveryItemReturns).  No fairness among the workers
\* that wait for a slot.
FairSpec == Spec /\ \A c \in Calls :
              /\ WF_vars(Handler(c)) /\ WF_vars(Expire(c))
              /\ \A w \in Workers : WF_vars(Work(c, w))

-----------------------------------------------------------------------------
(* Every variable has its type, and the semaphores are held exactly by     *)
(* those inside: a call between gate and answer, a worker with an item in  *)
(* its slot (upload.go, the two deferred releases).                        *)
TypeOK ==
  /\ phase \in [Calls -> {"idle", "gate", "feed", "wait", "answered",
                          "refused"}]
  /\ files \in [Calls -> Lists]
  /\ \A c \in Calls : results[c] \in [Rows(c) -> Statuses]
  /\ next \in [Calls -> 0..(MaxBatchItems + 1)]
  /\ worker \in [Calls -> [Workers -> {"recv", "got", "slot", "busy", "exit"}]]
  /\ item \in [Calls -> [Workers -> 0..MaxBatchItems]]
  /\ expired \subseteq Calls
  /\ batchSem = {c \in Calls : phase[c] \in {"feed", "wait"}}
  /\ downloadSem = {h \in Calls \X Workers : worker[h[1]][h[2]] = "busy"}

(* The process runs at most MaxConcurrentPerBatch downloads at a time over *)
(* all its calls and at most MaxConcurrentBatches calls (README, upload;   *)
(* Shared.downloadSem and batchSem).                                       *)
DownloadsBounded ==
  /\ Cardinality({h \in Calls \X Workers : worker[h[1]][h[2]] = "busy"})
       <= MaxConcurrentPerBatch
  /\ Cardinality({c \in Calls : phase[c] \in {"feed", "wait"}})
       <= MaxConcurrentBatches

(* A call answers only when every row has its status and none of its       *)
(* workers can still write to the results it returned (upload.go, the      *)
(* workers' loop and wg.Wait).                                             *)
EveryRowAnswered ==
  \A c \in Calls : phase[c] = "answered" =>
    /\ \A i \in Rows(c) : results[c][i] # "none"
    /\ \A w \in Workers : worker[c][w] = "exit"

(* Within a call no two workers have the same target and no row is written *)
(* twice: an item that has a worker has no row yet (upload.go, byTarget    *)
(* and the feeding loop).                                                  *)
OneWorkerPerTarget ==
  \A c \in Calls, v, w \in Workers :
    {worker[c][v], worker[c][w]} \subseteq {"got", "slot", "busy"} =>
      /\ results[c][item[c][v]] = "none"
      /\ v # w => files[c][item[c][v]] # files[c][item[c][w]]

(* Every call is answered or refused, also when its items never get a      *)
(* download slot (upload.go, the batch budget).                            *)
EveryCallAnswered == \A c \in Calls : phase[c] # "idle" ~> phase[c] = "idle"
=============================================================================
