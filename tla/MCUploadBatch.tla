----------------------------- MODULE MCUploadBatch -----------------------------
(* Instances of UploadBatch for TLC.  There is more than one call, so that *)
(* the workers of all calls together outnumber the download slots, and one *)
(* more than the batch gate admits.  The first call comes with any list.   *)
EXTENDS UploadBatch, TLC

CONSTANTS c1, c2, c3, t1, t2

MCLists == (c1 :> Lists) @@ (c2 :> {<<t1>>}) @@ (c3 :> {<<t2>>})

ASSUME SlotsScarce == Cardinality(Calls) > MaxConcurrentBatches
=============================================================================
