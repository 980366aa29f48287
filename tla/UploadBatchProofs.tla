-------------------------- MODULE UploadBatchProofs --------------------------
(***************************************************************************)
(* Proofs about UploadBatch, for every value of its constants: the two     *)
(* semaphores bound the calls and the downloads, a call answers with every *)
(* row written and its workers gone, and no two workers of a call share a  *)
(* target (internal/tools/upload.go).                                      *)
(***************************************************************************)
EXTENDS UploadBatch, FiniteSetTheorems, SequenceTheorems, TLAPS

-----------------------------------------------------------------------------
(* The inductive invariant.                                                *)

\* The lists that pass the check of the batch size.
ShortLists == UNION {[1..n -> Files] : n \in 0..MaxBatchItems}
\* The rows a call may have, written or not.
RowLists == UNION {[1..n -> Statuses] : n \in 0..MaxBatchItems}
Holding == {"got", "slot", "busy"}

Types ==
  /\ phase \in [Calls -> {"idle", "gate", "feed", "wait", "answered",
                          "refused"}]
  /\ files \in [Calls -> ShortLists]
  /\ results \in [Calls -> RowLists]
  /\ \A c \in Calls : Len(results[c]) = Len(files[c])
  /\ next \in [Calls -> 0..(MaxBatchItems + 1)]
  /\ worker \in [Calls -> [Workers -> Holding \cup {"recv", "exit"}]]
  /\ item \in [Calls -> [Workers -> 0..MaxBatchItems]]
  /\ expired \subseteq Calls

\* Who is inside, and that the sets stay within the capacities.
Semaphores ==
  /\ batchSem = {c \in Calls : phase[c] \in {"feed", "wait"}}
  /\ downloadSem = {h \in Calls \X Workers : worker[h[1]][h[2]] = "busy"}
  /\ IsFiniteSet(batchSem) /\ Cardinality(batchSem) <= MaxConcurrentBatches
  /\ IsFiniteSet(downloadSem)
  /\ Cardinality(downloadSem) <= MaxConcurrentPerBatch

\* Workers run only between gate and answer.
Quiet(c) == phase[c] \notin {"feed", "wait"} =>
              \A w \in Workers : worker[c][w] = "exit"

\* The feeding loop starts at the first row and ends past the last one.
Fed(c) == /\ phase[c] \in {"feed", "wait"} => next[c] >= 1
          /\ phase[c] = "wait" => next[c] > Len(files[c])

\* What a worker has was fed to it, and its row is not written.
HeldOpen(c) ==
  \A w \in Workers : worker[c][w] \in Holding =>
    /\ item[c][w] \in Rows(c) /\ item[c][w] < next[c]
    /\ results[c][item[c][w]] = "none"
    /\ ~Prefailed(files[c], item[c][w])

HeldApart(c) ==
  \A v, w \in Workers :
    /\ {worker[c][v], worker[c][w]} \subseteq Holding
    /\ v # w
    => item[c][v] # item[c][w]

\* A row that is not written yet is still to be fed or has a worker; one that
\* is to be fed is not written.
RowsLeft(c) ==
  phase[c] \in {"feed", "wait"} =>
    \A i \in Rows(c) :
      /\ results[c][i] = "none" =>
           \/ i >= next[c]
           \/ \E w \in Workers : worker[c][w] \in Holding /\ item[c][w] = i
      /\ i >= next[c] /\ ~Prefailed(files[c], i) => results[c][i] = "none"
      /\ Prefailed(files[c], i) => results[c][i] # "none"

Answered(c) ==
  phase[c] = "answered" => \A i \in Rows(c) : results[c][i] # "none"

CallInv(c) == /\ Quiet(c) /\ Fed(c) /\ HeldOpen(c) /\ HeldApart(c)
              /\ RowsLeft(c) /\ Answered(c)

IInv == Types /\ Semaphores /\ \A c \in Calls : CallInv(c)

-----------------------------------------------------------------------------
(* Lists and rows.                                                         *)

(* A list within the batch size is a sequence of that length, and its      *)
(* items are paths or refusals (upload.go, MaxBatchItems).                 *)
LEMMA ShortList ==
  ASSUME NEW fs \in ShortLists
  PROVE  /\ fs \in Seq(Files) /\ Len(fs) \in 0..MaxBatchItems
         /\ fs \in [1..Len(fs) -> Files] /\ fs \in Lists
<1>1. PICK n \in 0..MaxBatchItems : fs \in [1..n -> Files]
  BY DEF ShortLists
<1>2. n \in Nat /\ MaxBatchItems \in Nat
  BY LimitsAssumption
<1>3. fs \in Seq(Files)
  BY <1>1, <1>2, IsASeq
<1>4. Len(fs) = n
  BY <1>1, <1>2, <1>3, LenProperties
<1> QED
  BY <1>1, <1>2, <1>3, <1>4 DEF Lists

(* The same of the rows.                                                   *)
LEMMA RowList ==
  ASSUME NEW rs \in RowLists
  PROVE  Len(rs) \in 0..MaxBatchItems /\ rs \in [1..Len(rs) -> Statuses]
<1>1. PICK n \in 0..MaxBatchItems : rs \in [1..n -> Statuses]
  BY DEF RowLists
<1>2. n \in Nat /\ MaxBatchItems \in Nat
  BY LimitsAssumption
<1>3. rs \in Seq(Statuses)
  BY <1>1, <1>2
<1>4. Len(rs) = n
  BY <1>1, <1>2, <1>3, LenProperties
<1> QED
  BY <1>1, <1>2, <1>4

(* A function on 1..n is a list of length n.                               *)
LEMMA LenOfRows ==
  ASSUME NEW n \in 0..MaxBatchItems, NEW rs \in [1..n -> Statuses]
  PROVE  rs \in RowLists /\ Len(rs) = n
<1>1. n \in Nat
  BY LimitsAssumption
<1>2. rs \in Seq(Statuses)
  BY <1>1
<1> QED
  BY <1>1, <1>2, LenProperties DEF RowLists

(* The list of a call that has none is within the size.                    *)
LEMMA NoRows == <<>> \in ShortLists /\ <<>> \in RowLists /\ Len(<<>>) = 0
<1>1. 0 \in 0..MaxBatchItems
  BY LimitsAssumption
<1> QED
  BY <1>1 DEF ShortLists, RowLists

(* A list that is not refused is within the size (upload.go, the checks    *)
(* ahead of the gate).                                                     *)
LEMMA ValidIsShort ==
  ASSUME NEW c \in Calls, NEW fs \in ListsOf[c], ~Invalid(fs)
  PROVE  fs \in ShortLists /\ DOMAIN fs = 1..Len(fs)
<1>1. fs \in Lists
  BY ListsAssumption
<1>2. PICK n \in 0..(MaxBatchItems + 1) : fs \in [1..n -> Files]
  BY <1>1 DEF Lists
<1>3. n \in Nat /\ MaxBatchItems \in Nat
  BY LimitsAssumption
<1>4. fs \in Seq(Files)
  BY <1>2, <1>3
<1>5. Len(fs) = n /\ DOMAIN fs = 1..n
  BY <1>2, <1>3, <1>4, LenProperties
<1>6. n \in 0..MaxBatchItems
  BY <1>3, <1>5 DEF Invalid
<1> QED
  BY <1>2, <1>5, <1>6 DEF ShortLists

(* What Types says of the rows of one call.                                *)
LEMMA RowsTyped ==
  ASSUME Types, NEW c \in Calls
  PROVE  /\ Len(files[c]) \in Nat /\ Len(files[c]) \in 0..MaxBatchItems
         /\ MaxBatchItems \in Nat
         /\ files[c] \in [Rows(c) -> Files] /\ files[c] \in Lists
         /\ results[c] \in [Rows(c) -> Statuses]
<1>1. /\ files[c] \in ShortLists /\ results[c] \in RowLists
      /\ Len(results[c]) = Len(files[c])
  BY DEF Types
<1> QED
  BY <1>1, ShortList, RowList, LimitsAssumption DEF Rows

-----------------------------------------------------------------------------
(* Types.                                                                  *)

(* Writing a row keeps the types of the rows, of the workers and of their  *)
(* items.                                                                  *)
LEMMA RowStep ==
  ASSUME Types, NEW c \in Calls, NEW w \in Workers, Row(c, w),
         item[c][w] \in Rows(c), UNCHANGED files
  PROVE  /\ results' \in [Calls -> RowLists]
         /\ \A d \in Calls : Len(results'[d]) = Len(files'[d])
         /\ worker' \in [Calls -> [Workers -> Holding \cup {"recv", "exit"}]]
         /\ item' \in [Calls -> [Workers -> 0..MaxBatchItems]]
<1> DEFINE rs == [results[c] EXCEPT ![item[c][w]] = "written"]
<1>1. /\ Len(files[c]) \in 0..MaxBatchItems /\ MaxBatchItems \in Nat
      /\ results[c] \in [1..Len(files[c]) -> Statuses]
  BY RowsTyped DEF Rows
<1>2. rs \in [1..Len(files[c]) -> Statuses]
  BY <1>1 DEF Statuses
<1>3. rs \in RowLists /\ Len(rs) = Len(files[c])
  BY <1>1, <1>2, LenOfRows
<1>4. results' = [results EXCEPT ![c] = rs]
  BY DEF Row, Types
<1> HIDE DEF rs
<1>5. /\ results' \in [Calls -> RowLists]
      /\ \A d \in Calls : Len(results'[d]) = Len(files'[d])
  BY <1>3, <1>4 DEF Types
<1> QED
  BY <1>1, <1>5 DEF Row, Types, Holding

(* Every step keeps the types.                                             *)
LEMMA TypesNext == IInv /\ [Next]_vars => Types'
<1> SUFFICES ASSUME IInv, [Next]_vars PROVE Types'
  OBVIOUS
<1>0. Types
  BY DEF IInv
<1> USE LimitsAssumption DEF sems, vars
<1>1. ASSUME NEW c \in Calls, NEW fs \in ListsOf[c], Call(c, fs) PROVE Types'
  <2>1. CASE UNCHANGED <<files, results>>
    BY <1>0, <1>1, <2>1 DEF Types, Call
  <2>2. CASE ~Invalid(fs) /\ ~UNCHANGED <<files, results>>
    <3> DEFINE rs == [i \in DOMAIN fs |-> "none"]
    <3>1. fs \in ShortLists /\ DOMAIN fs = 1..Len(fs)
      BY <2>2, ValidIsShort
    <3>2. Len(fs) \in 0..MaxBatchItems
      BY <3>1, ShortList
    <3>3. rs \in [1..Len(fs) -> Statuses]
      BY <3>1 DEF Statuses
    <3>4. rs \in RowLists /\ Len(rs) = Len(fs)
      BY <3>2, <3>3, LenOfRows
    <3>5. /\ phase' = [phase EXCEPT ![c] = "gate"]
          /\ files' = [files EXCEPT ![c] = fs]
          /\ results' = [results EXCEPT ![c] = rs]
          /\ UNCHANGED <<next, worker, item, expired>>
      BY <1>1, <2>2 DEF Call
    <3> HIDE DEF rs
    <3> QED
      BY <1>0, <3>1, <3>4, <3>5 DEF Types
  <2> QED
    BY <1>1, <2>1, <2>2 DEF Call
<1>2. ASSUME NEW c \in Calls, Gate(c) PROVE Types'
  <2> DEFINE rs == [i \in Rows(c) |->
                      IF Prefailed(files[c], i) THEN "written" ELSE "none"]
  <2>1. Len(files[c]) \in 0..MaxBatchItems
    BY <1>0, RowsTyped
  <2>2. rs \in [1..Len(files[c]) -> Statuses]
    BY DEF Statuses, Rows
  <2>3. rs \in RowLists /\ Len(rs) = Len(files[c])
    BY <2>1, <2>2, LenOfRows
  <2>4. /\ phase' = [phase EXCEPT ![c] = "feed"]
        /\ results' = [results EXCEPT ![c] = rs]
        /\ next' = [next EXCEPT ![c] = 1]
        /\ worker' = [worker EXCEPT ![c] = [w \in Workers |->
                         IF w \in Started(c) THEN "recv" ELSE "exit"]]
        /\ UNCHANGED <<files, item, expired>>
    BY <1>2 DEF Gate
  <2> HIDE DEF rs
  <2> QED
    BY <1>0, <2>3, <2>4 DEF Types
<1>3. ASSUME NEW c \in Calls, EBusy(c) PROVE Types'
  BY <1>0, <1>3, NoRows DEF Types, EBusy
<1>4. ASSUME NEW c \in Calls, NEW w \in Workers, Send(c, w) PROVE Types'
  BY <1>0, <1>4, RowsTyped DEF Types, Send, Rows, Holding
<1>5. ASSUME NEW c \in Calls, Skip(c) PROVE Types'
  BY <1>0, <1>5, RowsTyped DEF Types, Skip, Rows
<1>6. ASSUME NEW c \in Calls, Close(c) PROVE Types'
  BY <1>0, <1>6 DEF Types, Close
<1>7. ASSUME NEW c \in Calls, Answer(c) PROVE Types'
  BY <1>0, <1>7 DEF Types, Answer
<1>8. ASSUME NEW c \in Calls, Done(c) PROVE Types'
  BY <1>0, <1>8, NoRows DEF Types, Done
<1>9. ASSUME NEW c \in Calls, Expire(c) PROVE Types'
  BY <1>0, <1>9 DEF Types, Expire
<1>10. ASSUME NEW c \in Calls, NEW w \in Workers, Work(c, w) PROVE Types'
  <2>1. worker[c][w] \in Holding => item[c][w] \in Rows(c)
    BY DEF IInv, CallInv, HeldOpen
  <2>2. CASE Row(c, w) /\ worker[c][w] \in Holding
             /\ UNCHANGED <<phase, files, next, expired>>
    BY <1>0, <2>1, <2>2, RowStep DEF Types
  <2>3. CASE UNCHANGED <<phase, files, results, next, item, expired>>
             /\ \E s \in {"slot", "busy", "exit"} :
                  worker' = [worker EXCEPT ![c][w] = s]
    BY <1>0, <2>3 DEF Types, Holding
  <2> QED
    BY <1>10, <2>2, <2>3
       DEF Work, Begin, Acquire, QueueTimeout, ItemEnds, Exit, Holding
<1>11. CASE UNCHANGED vars
  BY <1>0, <1>11 DEF Types
<1> QED
  BY <1>1, <1>2, <1>3, <1>4, <1>5, <1>6, <1>7, <1>8, <1>9, <1>10, <1>11
     DEF Next, Handler

-----------------------------------------------------------------------------
(* The semaphores.                                                         *)

(* A set at its capacity takes no member, so it stays within it; giving a  *)
(* member back never exceeds it (Shared.batchSem, Shared.downloadSem).     *)
LEMMA Capacity ==
  ASSUME NEW S, NEW x, NEW n \in Nat, IsFiniteSet(S), Cardinality(S) <= n
  PROVE  /\ IsFiniteSet(S \ {x}) /\ Cardinality(S \ {x}) <= n
         /\ Cardinality(S) < n =>
              IsFiniteSet(S \cup {x}) /\ Cardinality(S \cup {x}) <= n
<1>1. Cardinality(S) \in Nat
  BY FS_CardinalityType
<1>2. IsFiniteSet(S \ {x}) /\ Cardinality(S \ {x}) <= n
  BY <1>1, FS_RemoveElement
<1>3. Cardinality(S) < n =>
        IsFiniteSet(S \cup {x}) /\ Cardinality(S \cup {x}) <= n
  BY <1>1, FS_AddElement
<1> QED
  BY <1>2, <1>3

\* The two halves of Semaphores: the gate and the download slots.
GateOK ==
  /\ batchSem = {c \in Calls : phase[c] \in {"feed", "wait"}}
  /\ IsFiniteSet(batchSem) /\ Cardinality(batchSem) <= MaxConcurrentBatches
SlotsOK ==
  /\ downloadSem = {h \in Calls \X Workers : worker[h[1]][h[2]] = "busy"}
  /\ IsFiniteSet(downloadSem)
  /\ Cardinality(downloadSem) <= MaxConcurrentPerBatch

\* The steps of a call that enter no gate and move no worker.
Outside(c) == \/ \E fs \in ListsOf[c] : Call(c, fs)
              \/ EBusy(c) \/ Skip(c) \/ Close(c) \/ Done(c) \/ Expire(c)
\* The steps of a worker that neither take a slot nor give one back.
Slotless(c, w) == Send(c, w) \/ Begin(c, w) \/ QueueTimeout(c, w) \/ Exit(c, w)

(* Every step keeps the gate: a call enters it only below the capacity and *)
(* leaves it with its answer.                                              *)
LEMMA GateNext == IInv /\ [Next]_vars => GateOK'
<1> SUFFICES ASSUME IInv, [Next]_vars PROVE GateOK'
  OBVIOUS
<1>0. Types /\ GateOK
  BY DEF IInv, Semaphores, GateOK
<1>1. ASSUME NEW c \in Calls, Gate(c) PROVE GateOK'
  <2>1. batchSem' = {d \in Calls : phase'[d] \in {"feed", "wait"}}
    BY <1>0, <1>1 DEF Types, GateOK, Gate
  <2>2. /\ batchSem' = batchSem \cup {c}
        /\ Cardinality(batchSem) < MaxConcurrentBatches
    BY <1>1 DEF Gate
  <2>3. IsFiniteSet(batchSem') /\ Cardinality(batchSem') <= MaxConcurrentBatches
    BY <1>0, <2>2, Capacity, LimitsAssumption DEF GateOK
  <2> QED
    BY <2>1, <2>3 DEF GateOK
<1>2. ASSUME NEW c \in Calls, Answer(c) PROVE GateOK'
  <2>1. batchSem' = {d \in Calls : phase'[d] \in {"feed", "wait"}}
    BY <1>0, <1>2 DEF Types, GateOK, Answer
  <2>2. batchSem' = batchSem \ {c}
    BY <1>2 DEF Answer
  <2>3. IsFiniteSet(batchSem') /\ Cardinality(batchSem') <= MaxConcurrentBatches
    BY <1>0, <2>2, Capacity, LimitsAssumption DEF GateOK
  <2> QED
    BY <2>1, <2>3 DEF GateOK
<1>3. ASSUME UNCHANGED batchSem,
             \A d \in Calls : phase'[d] \in {"feed", "wait"}
                                <=> phase[d] \in {"feed", "wait"}
      PROVE  GateOK'
  BY <1>0, <1>3 DEF GateOK
<1>4. ASSUME NEW c \in Calls, Outside(c) PROVE GateOK'
  BY <1>0, <1>3, <1>4
     DEF Outside, Types, sems, Call, EBusy, Skip, Close, Done, Expire
<1>5. ASSUME NEW c \in Calls, NEW w \in Workers, Send(c, w) PROVE GateOK'
  BY <1>3, <1>5 DEF sems, Send
<1>6. ASSUME NEW c \in Calls, NEW w \in Workers, Work(c, w) PROVE GateOK'
  <2>1. UNCHANGED <<phase, batchSem>>
    BY <1>6 DEF sems, Work, Begin, Acquire, QueueTimeout, ItemEnds, Exit
  <2> QED
    BY <2>1, <1>3
<1>7. CASE UNCHANGED vars
  BY <1>3, <1>7 DEF vars
<1> QED
  BY <1>1, <1>2, <1>4, <1>5, <1>6, <1>7 DEF Next, Handler, Outside

(* Every step keeps the download slots: a worker takes one only below the  *)
(* capacity and gives it back when its item ends.                          *)
LEMMA SlotsNext == IInv /\ [Next]_vars => SlotsOK'
<1> SUFFICES ASSUME IInv, [Next]_vars PROVE SlotsOK'
  OBVIOUS
<1>0. Types /\ SlotsOK
  BY DEF IInv, Semaphores, SlotsOK
<1>1. ASSUME NEW c \in Calls, NEW w \in Workers, Acquire(c, w) PROVE SlotsOK'
  <2>1. downloadSem' = {h \in Calls \X Workers : worker'[h[1]][h[2]] = "busy"}
    BY <1>0, <1>1 DEF Types, SlotsOK, Acquire
  <2>2. /\ downloadSem' = downloadSem \cup {<<c, w>>}
        /\ Cardinality(downloadSem) < MaxConcurrentPerBatch
    BY <1>1 DEF Acquire
  <2>3. /\ IsFiniteSet(downloadSem')
        /\ Cardinality(downloadSem') <= MaxConcurrentPerBatch
    BY <1>0, <2>2, Capacity, LimitsAssumption DEF SlotsOK
  <2> QED
    BY <2>1, <2>3 DEF SlotsOK
<1>2. ASSUME NEW c \in Calls, NEW w \in Workers, ItemEnds(c, w) PROVE SlotsOK'
  <2>1. downloadSem' = {h \in Calls \X Workers : worker'[h[1]][h[2]] = "busy"}
    BY <1>0, <1>2 DEF Types, SlotsOK, ItemEnds, Row
  <2>2. downloadSem' = downloadSem \ {<<c, w>>}
    BY <1>2 DEF ItemEnds
  <2>3. /\ IsFiniteSet(downloadSem')
        /\ Cardinality(downloadSem') <= MaxConcurrentPerBatch
    BY <1>0, <2>2, Capacity, LimitsAssumption DEF SlotsOK
  <2> QED
    BY <2>1, <2>3 DEF SlotsOK
<1>3. ASSUME UNCHANGED downloadSem,
             \A d \in Calls, w \in Workers :
               worker'[d][w] = "busy" <=> worker[d][w] = "busy"
      PROVE  SlotsOK'
  BY <1>0, <1>3 DEF SlotsOK
<1>4. ASSUME NEW c \in Calls, Gate(c) PROVE SlotsOK'
  <2>1. \A w \in Workers : worker[c][w] = "exit"
    BY <1>4 DEF Gate, IInv, CallInv, Quiet
  <2> QED
    BY <1>0, <1>3, <1>4, <2>1 DEF Types, sems, Gate
<1>5. ASSUME NEW c \in Calls, Outside(c) PROVE SlotsOK'
  BY <1>3, <1>5 DEF Outside, sems, Call, EBusy, Skip, Close, Done, Expire
<1>6. ASSUME NEW c \in Calls, Answer(c) PROVE SlotsOK'
  BY <1>3, <1>6 DEF Answer
<1>7. ASSUME NEW c \in Calls, NEW w \in Workers, Slotless(c, w)
      PROVE  SlotsOK'
  <2>1. \E s \in {"recv", "got", "slot", "exit"} :
          worker' = [worker EXCEPT ![c][w] = s]
    BY <1>7 DEF Slotless, Send, Begin, QueueTimeout, Exit, Row
  <2>2. worker[c][w] # "busy" /\ UNCHANGED downloadSem
    BY <1>7 DEF Slotless, sems, Send, Begin, QueueTimeout, Exit
  <2> QED
    BY <1>0, <1>3, <2>1, <2>2 DEF Types
<1>8. CASE UNCHANGED vars
  BY <1>3, <1>8 DEF vars
<1> QED
  BY <1>1, <1>2, <1>4, <1>5, <1>6, <1>7, <1>8
     DEF Next, Handler, Work, Outside, Slotless

-----------------------------------------------------------------------------
(* The calls.                                                              *)

\* What a step leaves alone in a call.
Same(c) ==
  /\ phase'[c] = phase[c] /\ files'[c] = files[c] /\ results'[c] = results[c]
  /\ next'[c] = next[c] /\ worker'[c] = worker[c] /\ item'[c] = item[c]

(* A call that a step leaves alone keeps its invariant.                    *)
LEMMA CallFrame ==
  ASSUME NEW c \in Calls, CallInv(c), Same(c)
  PROVE  CallInv(c)'
<1> USE DEF Same, CallInv, Rows
<1>1. Quiet(c)' /\ Fed(c)' /\ Answered(c)'
  BY DEF Quiet, Fed, Answered
<1>2. HeldOpen(c)' /\ HeldApart(c)'
  BY DEF HeldOpen, HeldApart, Prefailed, Duplicate
<1>3. RowsLeft(c)'
  BY DEF RowsLeft, Prefailed, Duplicate
<1> QED
  BY <1>1, <1>2, <1>3

\* What a step does to the calls other than its own.
OthersSame(c) == \A d \in Calls \ {c} : Same(d)

(* Every step is one of a single call.                                     *)
LEMMA StepsOfOneCall ==
  ASSUME Types, NEW c \in Calls,
         \/ \E fs \in ListsOf[c] : Call(c, fs)
         \/ Handler(c)
         \/ Expire(c)
         \/ \E w \in Workers : Work(c, w)
  PROVE  OthersSame(c)
<1> USE DEF Types, OthersSame, Same
<1>1. ASSUME NEW fs \in ListsOf[c], Call(c, fs) PROVE OthersSame(c)
  BY <1>1 DEF Call
<1>2. CASE Handler(c)
  BY <1>2
     DEF Handler, Gate, EBusy, Skip, Close, Answer, Done, Send, sems
<1>3. CASE Expire(c)
  BY <1>3 DEF Expire
<1>4. ASSUME NEW w \in Workers, Work(c, w) PROVE OthersSame(c)
  BY <1>4 DEF Work, Begin, Acquire, QueueTimeout, ItemEnds, Exit, Row, sems
<1> QED
  BY <1>1, <1>2, <1>3, <1>4

(* A call that begins is quiet and has no row yet to answer.               *)
LEMMA CallKeeps ==
  ASSUME IInv, NEW c \in Calls, NEW fs \in ListsOf[c], Call(c, fs)
  PROVE  CallInv(c)'
<1>1. Types /\ Quiet(c)
  BY DEF IInv, CallInv
<1>2. phase[c] = "idle" /\ phase'[c] \in {"gate", "refused"} /\ worker' = worker
  BY <1>1 DEF Types, Call
<1> QED
  BY <1>1, <1>2
     DEF CallInv, Quiet, Fed, HeldOpen, HeldApart, RowsLeft, Answered, Holding

(* Behind the gate the rows that fail without a worker are written, all    *)
(* others are to be fed.                                                   *)
LEMMA GateKeeps ==
  ASSUME IInv, NEW c \in Calls, Gate(c)
  PROVE  CallInv(c)'
<1>1. Types
  BY DEF IInv
<1>2. /\ phase'[c] = "feed" /\ next'[c] = 1 /\ files' = files
      /\ results'[c] = [i \in Rows(c) |->
            IF Prefailed(files[c], i) THEN "written" ELSE "none"]
      /\ \A w \in Workers : worker'[c][w] \in {"recv", "exit"}
  BY <1>1 DEF Types, Gate
<1>3. Rows(c)' = Rows(c) /\ \A i \in Rows(c) : i >= next'[c]
  BY <1>1, <1>2, RowsTyped DEF Rows
<1>4. Quiet(c)' /\ Fed(c)' /\ Answered(c)' /\ HeldOpen(c)' /\ HeldApart(c)'
  BY <1>2 DEF Quiet, Fed, Answered, HeldOpen, HeldApart, Holding
<1>5. \A i \in Rows(c) : Prefailed(files[c], i)' <=> results'[c][i] # "none"
  BY <1>2 DEF Prefailed, Duplicate
<1>6. RowsLeft(c)'
  BY <1>3, <1>5 DEF RowsLeft
<1> QED
  BY <1>4, <1>6 DEF CallInv

(* Feeding gives a worker an item that no other has and whose row is open. *)
LEMMA SendKeeps ==
  ASSUME IInv, NEW c \in Calls, NEW w \in Workers, Send(c, w)
  PROVE  CallInv(c)'
<1>1. Types /\ CallInv(c)
  BY DEF IInv
<1>2. /\ Rows(c) \subseteq Nat /\ next[c] \in Nat /\ Len(files[c]) \in Nat
      /\ Rows(c)' = Rows(c)
  BY <1>1, RowsTyped DEF Send, Rows
<1>3. /\ phase[c] = "feed" /\ phase' = phase /\ files' = files
      /\ results' = results /\ next'[c] = next[c] + 1
      /\ worker'[c] = [worker[c] EXCEPT ![w] = "got"]
      /\ item'[c] = [item[c] EXCEPT ![w] = next[c]]
      /\ worker[c] \in [Workers -> Holding \cup {"recv", "exit"}]
      /\ item[c] \in [Workers -> 0..MaxBatchItems]
      /\ worker[c][w] = "recv" /\ next[c] \in Rows(c)
      /\ ~Prefailed(files[c], next[c])
  BY <1>1 DEF Types, Send
<1>4. /\ worker'[c][w] = "got" /\ item'[c][w] = next[c]
      /\ \A v \in Workers \ {w} :
           worker'[c][v] = worker[c][v] /\ item'[c][v] = item[c][v]
  BY <1>3
<1>5. results[c][next[c]] = "none"
  BY <1>1, <1>2, <1>3 DEF CallInv, RowsLeft
<1>6. \A i \in Nat : Prefailed(files[c], i)' <=> Prefailed(files[c], i)
  BY <1>3 DEF Prefailed, Duplicate
<1>7. Quiet(c)' /\ Fed(c)' /\ Answered(c)'
  BY <1>1, <1>2, <1>3 DEF CallInv, Quiet, Fed, Answered
<1>8. HeldOpen(c)'
  <2> SUFFICES ASSUME NEW v \in Workers, worker'[c][v] \in Holding
               PROVE  /\ item'[c][v] \in Rows(c)' /\ item'[c][v] < next'[c]
                      /\ results'[c][item'[c][v]] = "none"
                      /\ ~Prefailed(files'[c], item'[c][v])
    BY DEF HeldOpen, Prefailed, Duplicate
  <2>1. CASE v = w
    BY <1>2, <1>3, <1>4, <1>5, <2>1
  <2>2. CASE v # w
    BY <1>1, <1>2, <1>3, <1>4, <2>2 DEF CallInv, HeldOpen
  <2> QED
    BY <2>1, <2>2
<1>9. HeldApart(c)'
  BY <1>1, <1>2, <1>4 DEF CallInv, HeldOpen, HeldApart, Holding
<1>10. RowsLeft(c)'
  <2>1. ASSUME NEW i \in Rows(c), results[c][i] = "none", i < next[c] + 1
        PROVE  \E v \in Workers : worker'[c][v] \in Holding /\ item'[c][v] = i
    <3>1. CASE i = next[c]
      BY <1>4, <3>1 DEF Holding
    <3>2. CASE i < next[c]
      <4> PICK v \in Workers : worker[c][v] \in Holding /\ item[c][v] = i
        BY <1>1, <1>2, <1>3, <2>1, <3>2 DEF CallInv, RowsLeft
      <4> QED
        BY <1>3, <1>4 DEF Holding
    <3> QED
      BY <1>2, <2>1, <3>1, <3>2
  <2>2. \A i \in Rows(c) :
          /\ i >= next[c] + 1 /\ ~Prefailed(files[c], i)
             => results[c][i] = "none"
          /\ Prefailed(files[c], i) => results[c][i] # "none"
    BY <1>1, <1>2, <1>3 DEF CallInv, RowsLeft
  <2> QED
    BY <1>2, <1>3, <1>6, <2>1, <2>2 DEF RowsLeft
<1> QED
  BY <1>7, <1>8, <1>9, <1>10 DEF CallInv

(* Skipping a row that is written already leaves none behind.              *)
LEMMA SkipKeeps ==
  ASSUME IInv, NEW c \in Calls, Skip(c)
  PROVE  CallInv(c)'
<1>1. Types /\ CallInv(c)
  BY DEF IInv
<1>2. /\ Rows(c) \subseteq Nat /\ next[c] \in Nat /\ Len(files[c]) \in Nat
      /\ Rows(c)' = Rows(c)
  BY <1>1, RowsTyped DEF Skip, Rows
<1>3. /\ phase[c] = "feed" /\ phase' = phase /\ files' = files
      /\ results' = results /\ next'[c] = next[c] + 1 /\ worker' = worker
      /\ item' = item /\ next[c] \in Rows(c) /\ Prefailed(files[c], next[c])
  BY <1>1 DEF Types, Skip
<1>4. Quiet(c)' /\ Fed(c)' /\ Answered(c)' /\ HeldApart(c)'
  BY <1>1, <1>2, <1>3 DEF CallInv, Quiet, Fed, Answered, HeldApart
<1>5. HeldOpen(c)'
  BY <1>1, <1>2, <1>3 DEF CallInv, HeldOpen, Prefailed, Duplicate
<1>6. results[c][next[c]] # "none"
  BY <1>1, <1>2, <1>3 DEF CallInv, RowsLeft
<1>7. RowsLeft(c)'
  BY <1>1, <1>2, <1>3, <1>6 DEF CallInv, RowsLeft, Prefailed, Duplicate
<1> QED
  BY <1>4, <1>5, <1>7 DEF CallInv

(* Closing the channel, answering, and the end of a call that has no       *)
(* workers.                                                                *)
LEMMA CloseKeeps ==
  ASSUME IInv, NEW c \in Calls, Close(c)
  PROVE  CallInv(c)'
<1>1. Types /\ CallInv(c)
  BY DEF IInv
<1>2. next[c] \in Nat /\ Len(files[c]) \in Nat /\ next[c] >= 1
  BY <1>1, RowsTyped, LimitsAssumption DEF Types, CallInv, Fed, Close
<1>3. /\ phase[c] = "feed" /\ phase'[c] = "wait" /\ next[c] > Len(files[c])
      /\ UNCHANGED <<files, results, next, worker, item>>
  BY <1>1, <1>2 DEF Types, Close, Rows
<1> USE DEF CallInv, Rows, Prefailed, Duplicate
<1>4. Quiet(c)' /\ Fed(c)' /\ Answered(c)' /\ HeldOpen(c)' /\ HeldApart(c)'
  BY <1>1, <1>2, <1>3 DEF Quiet, Fed, Answered, HeldOpen, HeldApart
<1>5. RowsLeft(c)'
  BY <1>1, <1>3 DEF RowsLeft
<1> QED
  BY <1>4, <1>5

(* The call answers when its workers are gone.                             *)
LEMMA AnswerKeeps ==
  ASSUME IInv, NEW c \in Calls, Answer(c)
  PROVE  CallInv(c)'
<1>1. Types /\ CallInv(c)
  BY DEF IInv
<1>2. /\ phase[c] = "wait" /\ phase'[c] = "answered"
      /\ \A w \in Workers : worker[c][w] = "exit"
      /\ UNCHANGED <<files, results, next, worker, item>>
  BY <1>1 DEF Types, Answer
<1>3. \A i \in Rows(c) : i < next[c]
  BY <1>1, <1>2, RowsTyped, LimitsAssumption DEF Types, CallInv, Fed, Rows
<1>4. \A i \in Rows(c) : i \in Nat /\ next[c] \in Nat
  BY <1>1, RowsTyped, LimitsAssumption DEF Types, Rows
<1>5. \A i \in Rows(c) : results[c][i] # "none"
  BY <1>1, <1>2, <1>3, <1>4 DEF CallInv, RowsLeft, Holding
<1> QED
  BY <1>2, <1>5 DEF CallInv, Rows, Quiet, Fed, HeldOpen, HeldApart, RowsLeft,
                    Answered, Holding

(* A refused call, and one that is done.                                   *)
LEMMA EndKeeps ==
  ASSUME IInv, NEW c \in Calls, EBusy(c) \/ Done(c)
  PROVE  CallInv(c)'
<1>1. Types /\ CallInv(c)
  BY DEF IInv
<1>2. /\ phase[c] \notin {"feed", "wait"} /\ phase'[c] \in {"refused", "idle"}
      /\ worker' = worker
  BY <1>1 DEF Types, EBusy, Done
<1> QED
  BY <1>1, <1>2 DEF CallInv, Quiet, Fed, HeldOpen, HeldApart, RowsLeft,
                    Answered, Holding

-----------------------------------------------------------------------------
(* The workers.                                                            *)

(* A worker that writes the row of its item writes an open one, which no   *)
(* other worker has.                                                       *)
LEMMA RowKeeps ==
  ASSUME IInv, NEW c \in Calls, NEW w \in Workers, worker[c][w] \in Holding,
         Row(c, w), UNCHANGED <<phase, files, next>>
  PROVE  CallInv(c)'
<1>1. Types /\ CallInv(c)
  BY DEF IInv
<1> DEFINE k == item[c][w]
<1>2. /\ k \in Rows(c) /\ k < next[c] /\ results[c][k] = "none"
      /\ ~Prefailed(files[c], k)
  BY <1>1 DEF CallInv, HeldOpen
<1>3. /\ worker[c] \in [Workers -> Holding \cup {"recv", "exit"}]
      /\ item[c] \in [Workers -> 0..MaxBatchItems]
      /\ results[c] \in [Rows(c) -> Statuses] /\ Rows(c) \subseteq Nat
      /\ next[c] \in Nat
  BY <1>1, RowsTyped, LimitsAssumption DEF Types, Rows
<1>4. /\ worker'[c] = [worker[c] EXCEPT ![w] = "recv"]
      /\ item'[c] = [item[c] EXCEPT ![w] = 0]
      /\ results'[c] = [results[c] EXCEPT ![k] = "written"]
  BY <1>1 DEF Types, Row
<1>5. /\ worker'[c][w] = "recv"
      /\ \A v \in Workers \ {w} :
           worker'[c][v] = worker[c][v] /\ item'[c][v] = item[c][v]
      /\ results'[c][k] = "written"
      /\ \A i \in Rows(c) \ {k} : results'[c][i] = results[c][i]
  BY <1>2, <1>3, <1>4
<1>6. /\ Rows(c)' = Rows(c)
      /\ \A i \in Nat : Prefailed(files[c], i)' <=> Prefailed(files[c], i)
  BY DEF Rows, Prefailed, Duplicate
<1>7. phase[c] \in {"feed", "wait"}
  BY <1>1 DEF CallInv, Quiet, Holding
<1> HIDE DEF k
<1>8. Quiet(c)' /\ Fed(c)' /\ Answered(c)'
  BY <1>1, <1>7 DEF CallInv, Quiet, Fed, Answered
<1>9. \A v \in Workers \ {w} : worker[c][v] \in Holding => item[c][v] # k
  BY <1>1 DEF CallInv, HeldApart, k
<1>10. HeldOpen(c)'
  <2> SUFFICES ASSUME NEW v \in Workers, worker'[c][v] \in Holding
               PROVE  /\ item'[c][v] \in Rows(c)' /\ item'[c][v] < next'[c]
                      /\ results'[c][item'[c][v]] = "none"
                      /\ ~Prefailed(files'[c], item'[c][v])
    BY DEF HeldOpen, Prefailed, Duplicate
  <2>1. v # w
    BY <1>5 DEF Holding
  <2> QED
    BY <1>1, <1>5, <1>6, <1>9, <2>1 DEF CallInv, HeldOpen
<1>11. HeldApart(c)'
  BY <1>1, <1>5 DEF CallInv, HeldApart, Holding
<1>12. RowsLeft(c)'
  <2> SUFFICES ASSUME NEW i \in Rows(c)
               PROVE  /\ results'[c][i] = "none" =>
                           \/ i >= next[c]
                           \/ \E v \in Workers : worker'[c][v] \in Holding
                                                /\ item'[c][v] = i
                      /\ i >= next[c] /\ ~Prefailed(files[c], i)
                         => results'[c][i] = "none"
                      /\ Prefailed(files[c], i) => results'[c][i] # "none"
    BY <1>3, <1>6 DEF RowsLeft
  <2>1. CASE i = k
    BY <1>2, <1>3, <1>5, <2>1 DEF k
  <2>2. CASE i # k
    <3>1. ASSUME NEW v \in Workers, worker[c][v] \in Holding, item[c][v] = i
          PROVE  worker'[c][v] \in Holding /\ item'[c][v] = i
      BY <1>5, <2>2, <3>1 DEF k
    <3> QED
      BY <1>1, <1>5, <1>7, <2>2, <3>1 DEF CallInv, RowsLeft
  <2> QED
    BY <2>1, <2>2
<1> QED
  BY <1>8, <1>10, <1>11, <1>12 DEF CallInv

(* A worker on its way with its item keeps it.                             *)
LEMMA MoveKeeps ==
  ASSUME IInv, NEW c \in Calls, NEW w \in Workers, worker[c][w] \in Holding,
         NEW s \in Holding, worker' = [worker EXCEPT ![c][w] = s],
         UNCHANGED <<phase, files, results, next, item>>
  PROVE  CallInv(c)'
<1>1. Types /\ CallInv(c)
  BY DEF IInv
<1>2. /\ \A v \in Workers : worker'[c][v] \in Holding
                            <=> worker[c][v] \in Holding
      /\ \E v \in Workers : worker[c][v] # "exit"
  BY <1>1 DEF Types, Holding
<1>3. /\ Rows(c)' = Rows(c)
      /\ \A i : Prefailed(files[c], i)' <=> Prefailed(files[c], i)
  BY DEF Rows, Prefailed, Duplicate
<1>4. Quiet(c)' /\ Fed(c)' /\ Answered(c)'
  BY <1>1, <1>2 DEF CallInv, Quiet, Fed, Answered, Rows
<1>5. HeldOpen(c)' /\ HeldApart(c)'
  BY <1>1, <1>2, <1>3 DEF CallInv, HeldOpen, HeldApart
<1>6. RowsLeft(c)'
  BY <1>1, <1>2, <1>3 DEF CallInv, RowsLeft
<1> QED
  BY <1>4, <1>5, <1>6 DEF CallInv

(* A worker leaves only without an item.                                   *)
LEMMA ExitKeeps ==
  ASSUME IInv, NEW c \in Calls, NEW w \in Workers, Exit(c, w)
  PROVE  CallInv(c)'
<1>1. Types /\ CallInv(c)
  BY DEF IInv
<1>2. /\ \A v \in Workers : worker'[c][v] \in Holding
                            <=> worker[c][v] \in Holding
      /\ phase[c] = "wait" /\ UNCHANGED <<phase, files, results, next, item>>
  BY <1>1 DEF Types, Holding, Exit
<1>3. /\ Rows(c)' = Rows(c)
      /\ \A i : Prefailed(files[c], i)' <=> Prefailed(files[c], i)
  BY <1>2 DEF Rows, Prefailed, Duplicate
<1>4. Quiet(c)' /\ Fed(c)' /\ Answered(c)'
  BY <1>1, <1>2 DEF CallInv, Quiet, Fed, Answered
<1>5. HeldOpen(c)' /\ HeldApart(c)'
  BY <1>1, <1>2, <1>3 DEF CallInv, HeldOpen, HeldApart
<1>6. RowsLeft(c)'
  BY <1>1, <1>2, <1>3 DEF CallInv, RowsLeft
<1> QED
  BY <1>4, <1>5, <1>6 DEF CallInv

(* Every step of a call keeps its invariant.                               *)
LEMMA OwnStepKeeps ==
  ASSUME IInv, NEW c \in Calls,
         \/ \E fs \in ListsOf[c] : Call(c, fs)
         \/ Handler(c)
         \/ Expire(c)
         \/ \E w \in Workers : Work(c, w)
  PROVE  CallInv(c)'
<1>1. ASSUME NEW fs \in ListsOf[c], Call(c, fs) PROVE CallInv(c)'
  BY <1>1, CallKeeps
<1>2. CASE Handler(c)
  <2>1. CASE EBusy(c) \/ Done(c)
    BY <2>1, EndKeeps
  <2> QED
    BY <1>2, <2>1, GateKeeps, SkipKeeps, CloseKeeps, AnswerKeeps, SendKeeps
       DEF Handler
<1>3. CASE Expire(c)
  <2>1. Same(c)
    BY <1>3 DEF Expire, Same
  <2> QED
    BY <2>1, CallFrame DEF IInv
<1>4. ASSUME NEW w \in Workers, Work(c, w) PROVE CallInv(c)'
  <2>1. CASE worker[c][w] \in Holding /\ Row(c, w)
             /\ UNCHANGED <<phase, files, next>>
    BY <2>1, RowKeeps
  <2>2. CASE /\ worker[c][w] \in Holding
             /\ UNCHANGED <<phase, files, results, next, item>>
             /\ \E s \in Holding : worker' = [worker EXCEPT ![c][w] = s]
    BY <2>2, MoveKeeps
  <2>3. CASE Exit(c, w)
    BY <2>3, ExitKeeps
  <2> QED
    BY <1>4, <2>1, <2>2, <2>3
       DEF Work, Begin, Acquire, QueueTimeout, ItemEnds, Holding
<1> QED
  BY <1>1, <1>2, <1>3, <1>4

(* The invariant is inductive: a step of one call leaves every other call  *)
(* alone.                                                                  *)
LEMMA IInvNext == IInv /\ [Next]_vars => IInv'
<1> SUFFICES ASSUME IInv, [Next]_vars PROVE IInv'
  OBVIOUS
<1>1. Types' /\ Semaphores'
  BY TypesNext, GateNext, SlotsNext DEF Semaphores, GateOK, SlotsOK
<1>2. ASSUME NEW d \in Calls PROVE CallInv(d)'
  <2>1. CASE UNCHANGED vars
    <3>1. Same(d)
      BY <2>1 DEF vars, Same
    <3> QED
      BY <3>1, CallFrame DEF IInv
  <2>2. ASSUME NEW c \in Calls,
               \/ \E fs \in ListsOf[c] : Call(c, fs)
               \/ Handler(c)
               \/ Expire(c)
               \/ \E w \in Workers : Work(c, w)
        PROVE  CallInv(d)'
    <3>1. CASE c = d
      BY <2>2, <3>1, OwnStepKeeps
    <3>2. CASE c # d
      <4>1. OthersSame(c)
        BY <2>2, StepsOfOneCall DEF IInv
      <4> QED
        BY <3>2, <4>1, CallFrame DEF OthersSame, IInv
    <3> QED
      BY <3>1, <3>2
  <2> QED
    BY <2>1, <2>2 DEF Next
<1> QED
  BY <1>1, <1>2 DEF IInv

(* It holds initially.                                                     *)
LEMMA IInvInit == Init => IInv
<1> SUFFICES ASSUME Init PROVE IInv
  OBVIOUS
<1> USE LimitsAssumption DEF Init
<1>1. Types
  BY NoRows DEF Types
<1>2. Semaphores
  BY FS_EmptySet DEF Semaphores
<1>3. ASSUME NEW c \in Calls PROVE CallInv(c)
  BY <1>3 DEF CallInv, Quiet, Fed, HeldOpen, HeldApart, RowsLeft, Answered,
              Holding
<1> QED
  BY <1>1, <1>2, <1>3 DEF IInv

(* The invariant holds in every reachable state.                           *)
THEOREM Invariant == Spec => []IInv
<1> QED
  BY IInvInit, IInvNext, PTL DEF Spec

-----------------------------------------------------------------------------
(* What follows from it.                                                   *)

(* Every variable has its type, and both semaphores are held by exactly    *)
(* those that are inside (upload.go, the deferred releases).               *)
THEOREM TypeCorrect == Spec => []TypeOK
<1>1. ASSUME IInv PROVE TypeOK
  <2>1. Types /\ Semaphores
    BY <1>1 DEF IInv
  <2>2. files \in [Calls -> Lists]
    BY <2>1, ShortList DEF Types
  <2>3. \A c \in Calls : results[c] \in [Rows(c) -> Statuses]
    BY <2>1, RowsTyped
  <2> QED
    BY <2>1, <2>2, <2>3 DEF Types, Semaphores, TypeOK, Holding
<1> QED
  BY <1>1, Invariant, PTL

(* Whatever the number of calls and of items, at most                      *)
(* MaxConcurrentPerBatch items of the process are in their slot and at     *)
(* most MaxConcurrentBatches calls behind the gate (Shared.downloadSem and *)
(* batchSem).                                                              *)
THEOREM BoundsCorrect == Spec => []DownloadsBounded
<1>1. ASSUME IInv PROVE DownloadsBounded
  BY <1>1 DEF IInv, Semaphores, DownloadsBounded
<1> QED
  BY <1>1, Invariant, PTL

(* A call answers with every row written and every worker gone (upload.go, *)
(* the workers' loop and wg.Wait).                                         *)
THEOREM AnswersCorrect == Spec => []EveryRowAnswered
<1>1. ASSUME IInv PROVE EveryRowAnswered
  BY <1>1 DEF IInv, CallInv, Quiet, Answered, EveryRowAnswered
<1> QED
  BY <1>1, Invariant, PTL

(* No two workers of a call have the same target, and none has a row that  *)
(* is written (upload.go, byTarget and the feeding loop).                  *)
THEOREM TargetsCorrect == Spec => []OneWorkerPerTarget
<1>1. ASSUME IInv, NEW c \in Calls, NEW v \in Workers, NEW w \in Workers,
             {worker[c][v], worker[c][w]} \subseteq Holding
      PROVE  /\ results[c][item[c][v]] = "none"
             /\ v # w => files[c][item[c][v]] # files[c][item[c][w]]
  <2>1. /\ item[c][v] \in Rows(c) /\ item[c][w] \in Rows(c)
        /\ results[c][item[c][v]] = "none"
        /\ ~Duplicate(files[c], item[c][v])
        /\ v # w => item[c][v] # item[c][w]
    BY <1>1 DEF IInv, CallInv, HeldOpen, HeldApart, Prefailed
  <2>2. DOMAIN files[c] = Rows(c)
    BY <1>1, RowsTyped DEF IInv
  <2> QED
    BY <2>1, <2>2 DEF Duplicate
<1>2. ASSUME IInv PROVE OneWorkerPerTarget
  BY <1>1, <1>2 DEF OneWorkerPerTarget, Holding
<1> QED
  BY <1>2, Invariant, PTL
=============================================================================
